CONSTANTS
  a = a
  b = b
  d = d
  e = e
  NoFile = NoFile
  Files = {a, b}
  Cmds <- Blanks
  Precious = {b}
  job_slots = 0
  LoadLimit = FALSE
  keep_going_flag = FALSE
  delete_on_error = FALSE
  ForkMayFail = TRUE
  Signals = {"INT", "TERM", "OTHER"}
  Writers = {a, b}
  ChildResults = {"ok", "error"}
SPECIFICATION FairSpec
INVARIANTS
  LifeInv
  SlotsMatchChain
  NoOrphan
  InterruptedDeleted
PROPERTIES
  NoStartWhileDying
  ImplementsService
