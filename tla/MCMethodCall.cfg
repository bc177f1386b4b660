CONSTANTS
  m1 = m1
  m2 = m2
  Methods = {m1, m2}
  NumArgs = 2
  MaxCalls = 3
SPECIFICATION Spec
INVARIANTS
  SentAsGiven
  AnswerIsOwn
  OwnComeLast
  ParametersInTurn
SYMMETRY Alike
CHECK_DEADLOCK FALSE
