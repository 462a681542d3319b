CONSTANTS
  a = a
  b = b
  d = d
  e = e
  NoFile = NoFile
  Files = {a, b, d, e}
  Cmds <- TwoLines
  Precious = {}
  job_slots = 2
  LoadLimit = FALSE
  keep_going_flag = FALSE
  delete_on_error = FALSE
  ForkMayFail = FALSE
  Signals = {}
  Writers = {}
  ChildResults = {"ok", "error"}
SPECIFICATION FairSpec
INVARIANTS
  TypeOK
  SlotLimit
  StdinExclusive
  StdinReleased
  NeverWaitsForNothing
  ExitWaits
PROPERTIES
  Termination
