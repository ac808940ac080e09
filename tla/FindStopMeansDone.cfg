SPECIFICATION Spec
CONSTANTS
  Min <- MCMin
  Max <- MCMax
  Default <- MCDefault
  Firsts <- MCFirsts
  Unit = 64
  Whole = 4
  Step = 2
  Factors = {1, 2}
  Candidates = 1
  MaxFineTune = 4
INVARIANTS
  StopMeansDone
CHECK_DEADLOCK FALSE
