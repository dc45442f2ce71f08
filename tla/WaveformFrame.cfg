SPECIFICATION FrameSpec
CONSTANTS
    Shapes <- LoopShapes
    BeatsPerBar = 2
    Viewport = 3
INVARIANTS OverlayTells GridIsTrue
PROPERTIES OverlayGoes
