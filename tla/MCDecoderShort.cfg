\* The same instance, for what the documentation says of truncated entries.
CONSTANTS
  Entries <- MCEntries
  BufLen = 2
  SkipLen = 1
SPECIFICATION Spec
INVARIANT TruncationReported
