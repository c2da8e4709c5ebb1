SPECIFICATION PartSpec
CONSTANTS
    Bits = 2
    Camera = 2
    DelayType = 1
    IdPointer <- McIdPointer
    CameraId = 2
    Table <- McTable
    CntSize = 3
    MinHold = 60
    MaxResets = 1
    AwakeAtFirst = 0
    BridgeTable <- McBridgeTable
    BridgePauses = {"pause"}
    BridgePauseTicks = 3
    BridgeTransfer = 9
    BridgeHold = 12
    LensSteps = {1, 2}
    FrameTicks = 44
    LongestFrame = 45
    LensTime = 4
    LensTransfer = 4
    LensDelay = 1
INVARIANTS
    TypesOK
    OneEngineEach
    TablesSent
PROPERTIES
    
    BothConfigured
    EnginesKeepHandshake
CHECK_DEADLOCK FALSE
