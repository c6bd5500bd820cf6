SPECIFICATION RotationSpec
CONSTANTS
    None = None
    NodeId = {1,2,3}
    LinkId = {}
    Serial = {1}
    Layout = {}
    Name = {"a", "b", "capture"}
    CaptureName = "capture"
    FilteredNames = {"capture"}
    PropsOf <- DistinctStreams
    PeaksOn = TRUE
    Lazy = FALSE
    MaxCaptures = 2
    MaxGlobal = None
    CaptureHidden = TRUE
    Screens = {{}, {1}}
    HideFiles = {{}}
INVARIANTS TypeOK CapNeverExceeded CapturesAreEligible
PROPERTIES RotationIsStaggered RotationSamplesAll
CHECK_DEADLOCK FALSE
