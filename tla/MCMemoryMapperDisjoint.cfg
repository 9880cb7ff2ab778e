SPECIFICATION Spec
CONSTANTS
  NumPages = 5
  NumFrames = 4
  MinSize = 1
  MaxCalls = 4
INVARIANTS MappingsAreDisjoint
CHECK_DEADLOCK FALSE
