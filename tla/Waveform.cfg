SPECIFICATION Spec
CONSTANTS
    Loop = {short, long}
    Long = long
    NoLoop = NoLoop
    Length <- LoopLength
    SamplesPerPeak = 3
    MaxPeakCount = 3
    MaxVersion = 2
INVARIANTS TypeOK
PROPERTIES PeaksCatchUpUnlessEarly
