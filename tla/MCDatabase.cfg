SPECIFICATION HandlesSpec
CHECK_DEADLOCK FALSE
CONSTANTS
  Links = {l1, l2, l3}
  NoLink = NoLink
  Classes = {Person, Address}
  StaleFree <- Refusing
  LostFree <- LossShows
  OpenFails <- CannotOpen
  Hosts = {"plain", "hook", "preloader"}
  Definitions = {d1, d2, d3}
  MaxRenewals = 1
  BadFree <- RefusesOrNot
SYMMETRY Alike
INVARIANT SoleLink
INVARIANT DefinitionsGiveBack
INVARIANT ExistingIsNotMissing
PROPERTY OutcomeTellsLink
 
