SPECIFICATION FairSpec
CONSTANTS
  MaxLength = 9
  Unit <- MCUnit
  Plaintexts <- MCPlaintexts
  ChunkSize = 2
  MaxCounter = 2
  MaxDamage = 2
CHECK_DEADLOCK FALSE
INVARIANTS
  TypeOK
  FramingCanonical
  NonceFresh
  ReleasedIsPrefix
  DoneMeansWhole
  IntactNeverRejected
PROPERTIES
  EncodeEnds
  DecodeEnds
