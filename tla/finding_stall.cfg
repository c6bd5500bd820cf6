SPECIFICATION RotationSpec
CONSTANTS
    None = None
    NodeId = {1, 2}
    LinkId = {}
    Serial = {1}
    Layout = {}
    Name = {"a", "b", "capture"}
    CaptureName = "capture"
    FilteredNames = {"capture"}
    PropsOf <- DistinctStreams
    PeaksOn = TRUE
    Lazy = FALSE
    MaxCaptures = 1
    MaxGlobal = None
    CaptureHidden = TRUE
    Screens = {{}, {1}}
    HideFiles = {{}}
PROPERTIES RotationNeverStalls
CHECK_DEADLOCK FALSE
