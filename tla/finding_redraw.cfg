SPECIFICATION Spec
CONSTANTS
    None = None
    Route = {speaker, headphones}
    speaker = speaker
    headphones = headphones
    Profile = {"on", "pro", "off"}
    ProfilesOf <- RoutesOfOn
    SinkProfiles = {"on", "pro"}
    Initial <- Stereo
    MaxLevel = 2
    AbsoluteLevels = {2}
    OtherVolumes <- OneLevel
    MaxKeys = 2
    MaxOthers = 1
    MaxPeaks = 1
    MaxActs = 3
INVARIANTS TargetOnScreen
SYMMETRY RoutesAlike
CHECK_DEADLOCK FALSE
