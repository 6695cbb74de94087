\* The same instance, for what the documentation says of verify_state.
CONSTANTS
  Threads = {t1, t2}
  Handles = {h1, h2}
  Blocks = 1
  NoHandle = NoHandle
SPECIFICATION FairSpec
PROPERTY StateIsSticky
