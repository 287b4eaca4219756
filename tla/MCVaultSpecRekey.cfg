SPECIFICATION Spec
CONSTANTS
  pwA = pwA
  pwB = pwB
  idK = idK
  dek1 = dek1
  dek2 = dek2
  Passwords <- MCPasswords
  Identities <- MCIdentities
  Deks <- MCDeks
  MaxSlots = 4
PROPERTIES
  RekeyRevokesOld
