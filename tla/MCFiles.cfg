CONSTANTS
    Pid = {0}
    END_OF_FDA = 3
    KB4 = 2
    KB = 5
    DATA_BLOCK_NUM = 4
    Name <- MCName
    file_type_ <- MCType
    inode_num_ <- MCInode
    length_ <- MCLength
    data_block_ <- MCBlocks
    NBytes <- MCSizes
    BUFSIZE = 3
    Image <- MCImage
    Search <- MCSearch
SPECIFICATION ProgramsSpec
INVARIANTS TypeOK ReadsContent OnlyOwnFiles TestsPass FindsEveryLine
