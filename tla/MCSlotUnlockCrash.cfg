SPECIFICATION Spec
CONSTANTS
  pwA = pwA
  pwB = pwB
  idK = idK
  dek = dek
  Passwords = {pwA}
  Identities = {}
  Deks = {dek}
  MaxSlots = 1
  Garbage = {33}
  MaxDamages = 1
CHECK_DEADLOCK FALSE
INVARIANTS
  NeverCrashes
