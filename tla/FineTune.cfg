SPECIFICATION Spec
CONSTANTS
  Min <- MCMin
  Max <- MCMax
  Default <- MCDefault
  Firsts <- MCFirsts
  Unit = 64
  Whole = 4
  Step = 2
  Factors = {2}
  Candidates = 2
  MaxFineTune = 4
INVARIANTS
  ValuesForSigns
  StopExplained
PROPERTIES
  TurnsBack
CHECK_DEADLOCK FALSE
