SPECIFICATION Spec
CONSTANTS
    Metronome = metronome
    Fields = {metronome, bars}
    Size <- Sizes
    QueueSize = 2
    EventSize = 2
    MaxPresses = 4
INVARIANTS TypeOK SwitchedOnOnce
PROPERTIES LockReachesMetronome PictureIsTrue
