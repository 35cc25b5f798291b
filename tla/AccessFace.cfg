CONSTANTS
    Scenes <- ThreeFaces
    MaxFrames = 2
SPECIFICATION CameraSpec
INVARIANT LargestFaceSent
CHECK_DEADLOCK FALSE
