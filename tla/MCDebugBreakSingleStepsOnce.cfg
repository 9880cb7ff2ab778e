SPECIFICATION Spec
CONSTANTS
  NumCores = 3
  Active = {0}
  Free = Free
INVARIANTS SingleStepsOnce
