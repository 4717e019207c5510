SPECIFICATION FairSpec
CONSTANTS
    HSYNC_HALF_PERIOD = 2
    Slack = 1
    HSYNC_PERIOD = 4
    Lines = 2
    Above = 2
    left_edge = 1
    Width = 2
    Ring = 6
    Cycles = 6
    EepromCycles = 2
INVARIANTS TypeOK WholeFrame OwnPixels
PROPERTIES RunReturns
