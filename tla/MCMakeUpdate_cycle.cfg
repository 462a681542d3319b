CONSTANTS
  prog = prog
  x = x
  y = y
  h = h
  i = i
  j = j
  s = s
  Files = {prog, x, y, h, j, s}
  Goals <- XProg
  Deps <- Cyclic
  WithCmds = {x, y, h, j}
  Lines <- NoneForProg
  is_target = {prog, x, y, h, j}
  Intermediate = {j}
  Quiet = {h}
  MayFail = {x, h}
  ForkMayFail = TRUE
  StartTimes = {1, 2}
  Switches <- FewSlots
SPECIFICATION FairSpec
INVARIANTS
  ExitInv
  WalkMarked
  ExitStatus
  NothingSkipped
PROPERTIES
  DepsFirst
  Termination
