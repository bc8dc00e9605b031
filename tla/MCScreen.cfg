CONSTANTS
    MAX_TERMINAL = 2
    NUM_ROWS = 2
    NUM_COLS = 1
    UINT = 4
    TAB_LENGTH = 2
    KEYBOARD_BUFFER_SIZE = 1
    Key <- SwitchKeys
    MAX_RACE = 1
SPECIFICATION Spec
INVARIANTS TypeOK OutputStaysHome
PROPERTY SwitchKeepsText
