SPECIFICATION LogFairSpec
CONSTANTS
  Threads = {t1, t2}
  Lines = {l1, l2}
  MaxLines = 2
  Period = 3
INVARIANTS
  Ledger
PROPERTIES
  DroppedIsTold
