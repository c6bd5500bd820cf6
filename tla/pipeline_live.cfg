SPECIFICATION CrossingSpec
CONSTANTS
    None = None
    NodeId = {1}
    ObjectId = {1}
    LinkId = {}
    Serial = {1, 2}
    Layout = {"mono", "stereo"}
    Stream = {1, 2, 3}
    Name = {"a", "capture"}
    CaptureName = "capture"
    FilteredNames = {"capture"}
    PropsOf <- AnySerial
    PeaksOn = TRUE
    Lazy = FALSE
    MaxCaptures = None
    MaxGlobal = None
    CaptureHidden = FALSE
    Screens = {{}}
    HideFiles = {{}, {"a"}}
    MaxQueue = 1

CHECK_DEADLOCK FALSE
PROPERTIES GoneIsReleased
