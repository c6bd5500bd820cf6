SPECIFICATION Spec
CONSTANTS
    None = None
    NodeId = {1, 2}
    LinkId = {}
    Serial = {1}
    Layout = {}
    Name = {"a", "capture"}
    CaptureName = "capture"
    FilteredNames = {"capture"}
    PropsOf <- SharedName
    PeaksOn = TRUE
    Lazy = FALSE
    MaxCaptures = None
    MaxGlobal = None
    CaptureHidden = FALSE
    Screens = {{}}
    HideFiles = {{}}
INVARIANTS HiddenPermanentNotCaptured
CHECK_DEADLOCK FALSE
