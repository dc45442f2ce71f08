SPECIFICATION Spec
CONSTANTS
    SampleRate = 1
    AllowedBars = {1, 2}
    NumTracks = 2
    DefaultBars = 2
    LongestBars = 2
    BlockSize = 2
    HasInput = TRUE
    Commands <- RecordCommands
    ActivateChoices = {TRUE}
    MaxLoops = 2
INVARIANTS WindowFitsLongest BufferEmptyUnlessRecording UiSeesActive
PROPERTIES EventsBracketTakes TempoStaysLocked SwapsLandOnBarOne
