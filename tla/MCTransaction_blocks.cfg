SPECIFICATION Spec
CONSTANTS
  Writes = {w1, w2, w3}
  MaxDepth = 3
  MaxLevel = 5
  Programs = {"plain", "rescuing", "unruly"}
  EmptyCommits = {"raises", "passes"}
SYMMETRY Symmetry
INVARIANT ReturnMeansDurable
INVARIANT RaiseMeansNothing
PROPERTY StrandedNeverDurable
PROPERTY BlocksAreAtomic
