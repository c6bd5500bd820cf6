SPECIFICATION PipelineSpec
CONSTANTS
    None = None
    NodeId = {1, 2}
    ObjectId = {1, 2}
    LinkId = {}
    Serial = {1, 2}
    Layout = {}
    Stream = {1, 2, 3}
    Name = {"a", "capture"}
    CaptureName = "capture"
    FilteredNames = {"capture"}
    PropsOf <- AnySerial
    PeaksOn = TRUE
    Lazy = FALSE
    MaxCaptures = 1
    MaxGlobal = None
    CaptureHidden = TRUE
    Screens = {{}}
    HideFiles = {{}}
    MaxQueue = 2
PROPERTIES MetersHoldWhileEligible
CHECK_DEADLOCK FALSE
