CONSTANTS
    Terminals = {1, 2}
    MAX_PID = 3
    MAX_FILE_LEN = 2
    MAX_ARG_LEN = 3
    Char <- MCChar
    SHELL <- MCSHELL
    EXIT <- MCEXIT
    Kind <- MCKind
    Lines <- MCLines
    Sizes = {0, 1, 2, 3}
SPECIFICATION Spec
INVARIANT StatusReported
