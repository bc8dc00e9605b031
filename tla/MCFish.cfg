CONSTANTS
    SIZE = 4
    WORD = 8
    Char <- MCChar
    COLS = 2
    OFFSET = 1
    SPOT = 3
    WAIT = 3
    FRAME_LENGTH = 2
    ON_LENGTH = 3
    OFF_LENGTH = 1
    Text <- MCText
    Blinks <- MCBlinks
    MAX_CELLS = 3
SPECIFICATION Spec
INVARIANTS TypeOK AddsSucceed BlinksInTime FramesDrawn
PROPERTIES ImplementsList Ends
