SPECIFICATION Spec
CONSTANTS
    MaxLayers = 2
    MaxObjects = 2
    Slots = {0, 1}
    MaxBuffers = 1
    Frames = {1, 2}
INVARIANT ShowsWholeFrames
INVARIANT GameKeepsItsBuffers
PROPERTY LayersAreServed
CHECK_DEADLOCK FALSE
