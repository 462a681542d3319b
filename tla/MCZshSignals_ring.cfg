CONSTANTS
  chld = chld
  int = int
  Signals = {chld, int}
  SIGCHLD = chld
  Critical = {chld}
  MAX_QUEUE_SIZE = 3
  MaxCaught = 3
  MaxDepth = 2
  Overflow = FALSE
  DrainWindow = FALSE
SPECIFICATION FairSpec
INVARIANTS
  NotInside
  HandledOnce
  MaskRestored
  SInv
PROPERTIES
  QueuedHandled
