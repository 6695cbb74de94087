\* All archives of up to four records, and all listings of their directories.
CONSTANTS
  Names = {1, 2}
  Records <- MCRecords
  MaxRecords = 4
  MaxDepth = 3
  FileMode <- MCFileMode
  DirMode <- MCDirMode
  MaxReply = 2
SPECIFICATION Spec
INVARIANTS
  MemoRight
  SyntheticExact
  TreeRight
  EntriesRight
  ListingRight
