CONSTANTS
  p1 = p1
  p2 = p2
  MAXJOB = 4
  Pids = {p1, p2}
  NoPid = NoPid
  Exits = {"ok", "fail"}
  MaxPipe = 2
  NOTIFY = FALSE
SPECIFICATION Spec
INVARIANT WaitStatus
