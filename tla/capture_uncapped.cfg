SPECIFICATION Spec
CONSTANTS
    None = None
    NodeId = {1, 2}
    LinkId = {11}
    Serial = {1}
    Layout = {"mono", "stereo"}
    Name = {"a", "b", "capture"}
    CaptureName = "capture"
    FilteredNames = {"capture"}
    PropsOf <- SinkAndStreams
    PeaksOn = TRUE
    Lazy = TRUE
    MaxCaptures = None
    MaxGlobal = None
    CaptureHidden = FALSE
    Screens = {{1}, {1, 2}}
    HideFiles = {{}, {"a"}}
INVARIANTS NothingLeftOut
CHECK_DEADLOCK FALSE
