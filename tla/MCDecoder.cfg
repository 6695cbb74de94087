\* Sound and bad entries of up to three bytes, through buffers of one and two.
CONSTANTS
  Entries <- MCEntries
  BufLen = 2
  SkipLen = 1
SPECIFICATION FairSpec
INVARIANTS
  TypeOK
  RightBytes
  SoundReadsWhole
  NoFalseBad
  LastByteVerified
  VerdictRecorded
PROPERTY
  ReadEnds
