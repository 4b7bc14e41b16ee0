CONSTANTS
    Frame <- FragmentedPing
    CHUNK = 3
    MaxBuffer = 3
    MaxFrames = 3
SPECIFICATION Spec
INVARIANT ControlFramesApart
CHECK_DEADLOCK FALSE
