SPECIFICATION Spec
SYMMETRY Symmetry
CONSTANTS
  pwA = pwA
  pwB = pwB
  idK = idK
  dek = dek
  Passwords = {pwA, pwB}
  Identities = {idK}
  Deks = {dek}
  MaxSlots = 3
  Garbage = {0, 2, 3, 256}
  MaxDamages = 1
CHECK_DEADLOCK FALSE
INVARIANTS
  TypeOK
  DamageStaysLocal
  InfoShowsWhatWasMade
