\* Archives of up to three records, for what the documentation says of them.
CONSTANTS
  Names = {1, 2}
  Records <- MCRecords
  MaxRecords = 3
  MaxDepth = 3
  FileMode <- MCFileMode
  DirMode <- MCDirMode
  MaxReply = 2
SPECIFICATION Spec
INVARIANT DirectoryKept
