SPECIFICATION Spec
CHECK_DEADLOCK FALSE
CONSTANTS
  MaxRows = 3
  Limits <- SomeLimits
  Offsets <- SomeOffsets
  ClosedFetch = {"no_data", "raise"}
  Wires = {"loud", "lossy"}
  MaxFaults = 2
  MaxReads = 2
INVARIANT FullSlice
PROPERTY ReadsAsPromised
PROPERTY ReadingEnds
