SPECIFICATION Spec
CONSTANTS
    None = None
    Id = {1, 2}
    Shapes <- OneSplits
    InTab <- TwoTabs
    TargetCount <- TwoTargets
    Areas = {8, 13}
    ShowDividers = FALSE
    Compact = FALSE
    Imbalance = "None"
    Split = "Radiating"
    ViewCycle <- ShortCycle
    InitialView = "Linked"
    ViewKeys = {"Linked"}
    Hideable = {1}
    MaxBatch = 2
INVARIANTS CursorOnlyInChannels
CHECK_DEADLOCK FALSE
