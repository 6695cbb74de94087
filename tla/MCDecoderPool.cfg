\* Two threads share two files and have their private readlink pools, with a
\* budget that is smaller than the sum of what the pools may keep.
CONSTANTS
  Threads = {t1, t2}
  Handles = {h1, h2}
  Decoders = {d1, d2, d3, d4, d5}
  Deflate = Deflate
  Zstd = Zstd
  Methods = {Deflate, Zstd}
  ZstdHandles = {h1, h2}
  MethodOf <- MCMethodOf
  Size = 1
  MaxRetained = 2
  PerHandleCap = 1
  MaxCores = 1
  NoPool = NoPool
  NoDecoder = NoDecoder
SPECIFICATION Spec
SYMMETRY Symmetry
INVARIANTS
  TypeOK
  RetainedExact
  OneOwner
  NothingStranded
  HandedOutUsable
  IdleBounded
