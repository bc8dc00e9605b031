CONSTANTS
    p1 = p1
    p2 = p2
    Proc = {p1, p2}
    Frequency <- MCFrequency
SPECIFICATION FairSpec
INVARIANT TypeOK
PROPERTIES NeverEarly SoleReaderReturns
CHECK_DEADLOCK FALSE
