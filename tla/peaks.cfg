SPECIFICATION Spec
CONSTANTS
    None = None
    Channels = 2
    Array = {1, 2}
    MaxQueue = 1

INVARIANTS QuietShowsLast
PROPERTIES MeterKeepsUp
