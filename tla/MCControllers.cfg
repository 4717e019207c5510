SPECIFICATION Spec
CONSTANTS
    Buttons = 4
    Width = 7
    PAD_UP = 0
    PAD_DOWN = 1
    PAD_LEFT = 2
    PAD_RIGHT = 3
    KbBits = 2
    ScanCodes <- MCScanCodes
    KB_BREAK <- MCBreak
    KB_SEND_END <- MCSendEnd
    Presses <- MCPresses
    MaxCodes = 3
INVARIANTS TypeOK KeysInOrder
PROPERTIES BitsOfOneSample ModeOfLongReads
