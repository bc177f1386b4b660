SPECIFICATION Spec
CHECK_DEADLOCK FALSE
CONSTANTS
  Objects = {o1, o2, o3}
  Nobody = Nobody
  Orefs <- TwoOrefs
  MaxLink = 1
SYMMETRY ObjectSymmetry
INVARIANT NewIsValid
