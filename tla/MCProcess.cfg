CONSTANTS
    MAX_TERMINAL = 2
    MAX_PID = 2
    MAX_TORN = 1
    MAX_COUNT = 4
SPECIFICATION FairSpec
INVARIANTS
    TypeOK
    ChainsDisjoint
    ExecuteFindsPid
    OwnAddressSpace
PROPERTIES
    EveryTerminalRuns
    KeyboardComesBack
    ImplementsStacks
    WindowRecovers
