CONSTANTS
  a = a
  b = b
  d = d
  e = e
  NoFile = NoFile
  Files = {a, b}
  Cmds <- Shapes
  Precious = {}
  job_slots = 0
  LoadLimit = TRUE
  keep_going_flag = TRUE
  delete_on_error = FALSE
  ForkMayFail = FALSE
  Signals = {}
  Writers = {a, b}
  ChildResults = {"ok", "error", "signal"}
SPECIFICATION FairSpec
INVARIANTS
  FailedDeleted
  ExitStatus
PROPERTIES
  WaitingJobsStart
  UnchangedKept
