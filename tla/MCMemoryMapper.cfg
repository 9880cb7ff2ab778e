SPECIFICATION Spec
CONSTANTS
  NumPages = 4
  NumFrames = 3
  MinSize = 0
  MaxCalls = 4
INVARIANTS TypeOK PermissionsFollow FramesAreOwnedOnce
PROPERTIES NewMappingIsFound CallKeepsOtherMappings
CHECK_DEADLOCK FALSE
