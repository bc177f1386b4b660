SPECIFICATION QSpec
CHECK_DEADLOCK FALSE
CONSTANTS
  Links = {l1, l2}
  NoLink = NoLink
  Classes = {Person}
  StaleFree <- RefusesOrNot
  StaleUse <- RefusesOrNot
  LostFree <- LossShows
  LostUse <- LossErrors
  UseFails <- SqlErrors
  OpenFails <- CannotOpen
  Hosts = {"plain", "hook", "preloader"}
  Queries = {q1, q2}
  PoolSize = 1
SYMMETRY Symmetry
INVARIANT LeakIsExact
PROPERTY QuietSweep
PROPERTY RegularErrorEmptiesPool
