SPECIFICATION Spec
CHECK_DEADLOCK FALSE
CONSTANTS
  Objects = {o1, o2, o3, o4}
  Nobody = Nobody
  Orefs <- TwoOrefs
  MaxLink = 2
SYMMETRY ObjectSymmetry
INVARIANT OnlyLostAnswersLeak
INVARIANT OwnersKeepTheirs
