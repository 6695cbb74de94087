\* The smallest instance in which two threads contend for the lock of one
\* file and for one slot of the budget.  No symmetry: it is a liveness check.
CONSTANTS
  Threads = {t1, t2}
  Handles = {h1}
  Decoders = {d1, d2, d3}
  Deflate = Deflate
  Zstd = Zstd
  Methods = {Deflate}
  ZstdHandles = {}
  MethodOf <- MCMethodOf
  Size = 1
  MaxRetained = 1
  PerHandleCap = 1
  MaxCores = 1
  NoPool = NoPool
  NoDecoder = NoDecoder
SPECIFICATION FairSpec
PROPERTY EveryRequestEnds
