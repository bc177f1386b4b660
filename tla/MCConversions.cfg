SPECIFICATION ConversionsSpec
CHECK_DEADLOCK FALSE
CONSTANTS
  LastYear = 2301
  Shifts <- ZoneHours
  Texts = {0, 1}
  Numbers <- Amounts
  HalfInt = 4
  Double <- Rounded
  Days = {1, 2}
  Hours = {0, 2, 9, 23}
  Sixtieths = {0, 9, 59}
  Gap <- SpringGap
  Sent32 <- Small
  Strays <- AnyNumbers
  MaxElems = 3
INVARIANT DeviationIsExact
INVARIANT CopiesKeepTheRest
INVARIANT IntegersAreQuartered
