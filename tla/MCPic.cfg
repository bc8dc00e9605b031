CONSTANT MAX_TERMINAL = 3
SPECIFICATION FairSpec
INVARIANTS TypeOK NothingInService OnlyKeyboardMasked
PROPERTY RequestsServed
