SPECIFICATION Spec
CONSTANTS
    None = None
    NodeId = {1, 2}
    LinkId = {}
    Serial = {1}
    Layout = {}
    Name = {"a", "b", "capture"}
    CaptureName = "capture"
    FilteredNames = {"capture"}
    PropsOf <- DistinctStreams
    PeaksOn = TRUE
    Lazy = TRUE
    MaxCaptures = 1
    MaxGlobal = None
    CaptureHidden = TRUE
    Screens = {{1}, {2}}
    HideFiles = {{}}
PROPERTIES VisibleNodesCaptured
CHECK_DEADLOCK FALSE
