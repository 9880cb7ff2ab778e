SPECIFICATION Spec
CONSTANTS
  NumCores = 3
  Active = {0, 1, 2}
  Free = Free
INVARIANTS TypeOK PausedStandsStill StepsOnce
