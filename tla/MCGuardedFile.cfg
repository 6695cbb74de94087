\* Two readers, and another process that writes twice.
CONSTANTS
  Threads = {t1, t2}
  MaxWrites = 2
SPECIFICATION GuardSpec
SYMMETRY Symmetry
INVARIANTS
  OnlyMountedBytes
  ShortFileIsChange
  StaleIsPermanent
  NoFalseAlarm
  MessagesAddUp
