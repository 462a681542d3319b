CONSTANTS
  prog = prog
  x = x
  y = y
  h = h
  i = i
  j = j
  s = s
  Files = {x, y, h, i, j, s}
  Goals <- XY
  Deps <- Chained
  WithCmds = {x, y, h, i, j}
  Lines <- OneEach
  is_target = {x, y, h, i, j}
  Intermediate = {i, j}
  Quiet = {}
  MayFail = {}
  ForkMayFail = FALSE
  StartTimes = {1, 2}
  Switches <- Unlimited
SPECIFICATION FairSpec
INVARIANTS
  UpToDate
PROPERTIES
  RunOnce
