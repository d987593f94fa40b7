SPECIFICATION DataSpec
CONSTANTS
    MaxLength = 3
    MaxBlocks = 3
    Lines <- TelegramLists
    Items = {1, 2}
    MaxNodes = 4
    ReadSize = 16
    Frames <- FrameLists
    Requests <- RequestTexts
    MaxCalls = 4
INVARIANTS
    CutsDoNotMatter
    ListIsTheSequence
    
CHECK_DEADLOCK FALSE
