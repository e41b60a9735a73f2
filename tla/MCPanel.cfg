SPECIFICATION Spec
CONSTANTS
    WIDTH = 3
    HEIGHT = 3
    SPI_CHUNK = 5
    Orientations <- MCOrientations
    PALETTE_RGB565 <- MCPalette
    MAX_RUN_LEN = 2
    None = None
    Scenes <- MCScenes
    MaxInterrupted = 2
INVARIANTS
    TypeOK
    OnlyWholePictures
CHECK_DEADLOCK FALSE
