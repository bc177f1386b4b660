SPECIFICATION QSpec
CHECK_DEADLOCK FALSE
CONSTANTS
  Links = {l1, l2}
  NoLink = NoLink
  Classes = {Person}
  StaleFree <- Tolerant
  StaleUse <- Tolerant
  LostFree <- LossShows
  LostUse <- LossErrors
  UseFails <- SqlErrors
  OpenFails <- CannotOpen
  Hosts = {"plain"}
  Queries = {q1, q2}
  PoolSize = 1
SYMMETRY Symmetry
PROPERTY RegularErrorIsRetried
