CONSTANTS
    p1 = p1
    p2 = p2
    Proc = {p1, p2}
    num_file = 3
    file_name_ <- MCfile_name_
    FileName <- MCFileName
    PERIOD = "."
    NO_NAME = ""
    MAX_READ = 4
    MAX_TORN = 2
SPECIFICATION DirSpec
INVARIANTS DirTypeOK NamesHandedOutOnce
