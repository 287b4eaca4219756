SPECIFICATION RevokeSpec
CONSTANTS
  pwA = pwA
  pwB = pwB
  dek1 = dek1
  w1 = w1
  w2 = w2
  None = None
  MaxSlots = 3
  Chunks = 1
  Passwords = {pwA, pwB}
  Identities = {}
  Deks = {dek1}
  Writers = {w1, w2}
  Readers = {}
  Inodes = {1, 2, 3, 4, 5}
SYMMETRY Alike
INVARIANTS
  RevokedStayOut
