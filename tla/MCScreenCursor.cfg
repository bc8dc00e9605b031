CONSTANTS
    MAX_TERMINAL = 1
    NUM_ROWS = 3
    NUM_COLS = 2
    UINT = 64
    TAB_LENGTH = 2
    KEYBOARD_BUFFER_SIZE = 3
    Key <- TypingKeys
    MAX_RACE = 1
SPECIFICATION Spec
INVARIANT CursorOnScreen
