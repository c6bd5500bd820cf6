SPECIFICATION Spec
CONSTANTS
    None = None
    NodeId = {1, 2}
    LinkId = {}
    Serial = {1}
    Layout = {}
    Name = {"a", "b", "capture"}
    CaptureName = "capture"
    FilteredNames = {"capture"}
    PropsOf <- DistinctStreams
    PeaksOn = TRUE
    Lazy = FALSE
    MaxCaptures = None
    MaxGlobal = None
    CaptureHidden = TRUE
    Screens = {{1, 2}}
    HideFiles = {{}}
INVARIANTS FrameShowsCurrentState
CHECK_DEADLOCK FALSE
