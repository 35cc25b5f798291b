CONSTANTS
    Scenes <- OneFace
    MaxFrames = 3
SPECIFICATION FairCameraSpec
INVARIANTS CameraTypeOK FrameInPacket PointIsCurrent NoFrameForgotten
PROPERTY FrameFollowed
CHECK_DEADLOCK FALSE
