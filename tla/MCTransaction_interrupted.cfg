SPECIFICATION Spec
CONSTANTS
  Writes = {w1, w2, w3}
  MaxDepth = 3
  MaxLevel = 5
  Programs = {"unruly"}
  EmptyCommits = {"raises"}
SYMMETRY Symmetry
INVARIANT ExceptionRollsBack
