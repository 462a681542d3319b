CONSTANTS
  prog = prog
  x = x
  y = y
  h = h
  i = i
  j = j
  s = s
  Files = {prog, x, i, s}
  Goals <- JustProg
  Deps <- Detour
  WithCmds = {prog, x, i}
  Lines <- OneEach
  is_target = {prog, x, i}
  Intermediate = {i}
  Quiet = {x}
  MayFail = {}
  ForkMayFail = FALSE
  StartTimes = {1, 2}
  Switches <- TwoSlots
SPECIFICATION FairSpec
PROPERTIES
  Termination
