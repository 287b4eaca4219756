SPECIFICATION SpecEdits
CONSTANTS
  pwA = pwA
  pwB = pwB
  idK = idK
  dek1 = dek1
  dek2 = dek2
  dek3 = dek3
  w1 = w1
  w2 = w2
  r1 = r1
  None = None
  MaxSlots = 2
  Chunks = 2
  Passwords = {pwA, pwB}
  Identities = {}
  Deks = {dek1}
  Writers = {w1, w2}
  Readers = {}
  Inodes = {1, 2, 3, 4, 5}
SYMMETRY Symmetry
INVARIANTS
  VaultStaysWhole
