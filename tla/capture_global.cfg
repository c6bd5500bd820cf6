SPECIFICATION Spec
CONSTANTS
    None = None
    NodeId = {1,2,3}
    LinkId = {}
    Serial = {1}
    Layout = {}
    Name = {"a", "capture"}
    CaptureName = "capture"
    FilteredNames = {"capture"}
    PropsOf <- WithCaptureNode
    PeaksOn = TRUE
    Lazy = TRUE
    MaxCaptures = None
    MaxGlobal = 1
    CaptureHidden = FALSE
    Screens = {{}, {1}, {1, 3}, {3}}
    HideFiles = {{}, {"a"}}
INVARIANTS GlobalCapHasNoSelfLag LazyCapturesVisible HiddenInstanceNotCaptured
CHECK_DEADLOCK FALSE
