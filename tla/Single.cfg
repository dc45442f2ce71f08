SPECIFICATION Spec
CONSTANTS
    SampleRate = 1
    AllowedBars = {1, 2}
    NumTracks = 1
    DefaultBars = 2
    LongestBars = 2
    BlockSize = 2
    HasInput = TRUE
    Commands <- SingleCommands
    ActivateChoices = {TRUE}
    MaxLoops = 2
INVARIANTS TakesInPhase
PROPERTIES AutoStopsOnTheGrid CountInEnds TakesInReachEnd PendingBegins
