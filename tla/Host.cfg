SPECIFICATION HostSpec
CONSTANTS
    SampleRate = 1
    AllowedBars = {1, 2}
    NumTracks = 1
    DefaultBars = 2
    LongestBars = 2
    BlockSize = 2
    HasInput = TRUE
    Commands <- HostCommands
    ActivateChoices = {TRUE, FALSE}
    MaxLoops = 2
    Devices = {builtin, usb}
    Usb = usb
    NoDevice = NoDevice
    Latency <- HostLatency
CHECK_DEADLOCK FALSE
INVARIANTS TypeOK TakesNeedTransport PositionInWindow TakesUseTheirLatency
