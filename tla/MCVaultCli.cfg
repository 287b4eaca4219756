SPECIFICATION CliSpec
CONSTANTS
  pwA = pwA
  pwB = pwB
  pwWeak = pwWeak
  pwEmpty = pwEmpty
  idK = idK
  idL = idL
  dek1 = dek1
  dek2 = dek2
  Passwords = {pwA, pwWeak, pwEmpty}
  Identities = {idK, idL}
  Deks = {dek1, dek2}
  MaxSlots = 4
  MaxRecipients = 2
  Weak = {pwWeak, pwEmpty}
  Empty = pwEmpty
  None = None
SYMMETRY Alike
INVARIANTS
  TypeOK
  EverySlotOpens
  OnlyMeantSealed
PROPERTIES
  EditsAreLocal
  ExitCodeTells
