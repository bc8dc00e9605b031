CONSTANTS
    MAX_TERMINAL = 2
    KEYBOARD_BUFFER_SIZE = 1
    TAB_LENGTH = 4
    KeySets <- AllKeySets
    NBytes <- AllSizes
SPECIFICATION FairSpec
INVARIANTS TypeOK CapsFollowsKey ReadsUndisturbedLine
PROPERTY EnterWakes
