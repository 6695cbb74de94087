SPECIFICATION InternFairSpec
CONSTANTS
  Keys = {a, b, c, d}
  Capacity = 2
  Hashes = {0, 3, 7}
INVARIANTS
  LoadHalved
PROPERTIES
  ImplementsMap
  InternEnds
