CONSTANTS
    AllowedBars = {1, 4}
    DefaultBars = 4
    Devices = {"dev"}
    NoDevice = "none"
    NoFile = NoFile
    Corrupt = Corrupt
    MaxChanges = 3
    Jobs <- Requests
    NumPresets = 2
    ModelRate = 4
    VocalRate = 7
    XLength = 3
    NbSteps = 3
    Shortfalls = {0, 2}
SPECIFICATION ConversionSpec
INVARIANTS TypeOK StagesFollowTheSettings ModelsAreLookedForOnce ResultIsWhole
PROPERTIES RestartRestores
