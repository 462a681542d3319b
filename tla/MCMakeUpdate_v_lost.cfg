CONSTANTS
  prog = prog
  x = x
  y = y
  h = h
  i = i
  j = j
  s = s
  Files = {prog, x, i, s}
  Goals <- JustProg
  Deps <- Beside
  WithCmds = {prog, x, i}
  Lines <- OneEach
  is_target = {prog, x, i}
  Intermediate = {i}
  Quiet = {}
  MayFail = {i}
  ForkMayFail = FALSE
  StartTimes = {1, 2}
  Switches <- KeepGoing
SPECIFICATION FairSpec
INVARIANTS
  ExitStatus
