\* Two workers read a file of two blocks through two handles, or a link.
CONSTANTS
  Threads = {t1, t2}
  Handles = {h1, h2}
  Blocks = 2
  NoHandle = NoHandle
SPECIFICATION Spec
SYMMETRY Symmetry
INVARIANTS
  TypeOK
  VerdictRight
  OrderlyReadChecked
  ChangeIsNamed
  TargetsAgree
