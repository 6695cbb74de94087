\* Up to three arguments besides the paths, and a reason of three bytes that is
\* written and read in pieces.  The processes end, so the system may stop.
SPECIFICATION FairSpec
CONSTANTS
  Cores = 2
  User = 1000
  Arguments <- MCArguments
  MaxArgs = 3
  Message <- MCMessage
  Buf = 2
CHECK_DEADLOCK FALSE
INVARIANTS
  SettingsAsGiven
  ExitIsVerdict
  MessageWhole
  ServedIsMounted
PROPERTIES
  CallerHears
  FailureLeavesNoMount
