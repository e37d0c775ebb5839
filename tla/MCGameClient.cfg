CONSTANTS
    ann = ann  bob = bob
    Names <- MCNames
    Ids <- MCIds
    Commands <- MCCommands
    Keys <- MCKeys
    NoId = NoId  NoName = NoName  None = None  Empty = Empty  Torn = Torn
    MaxFriends = 2
    MaxTtys = 1
    MaxKeys = 2
    MaxWords = 2
    MaxIndex = 1
    MaxObjs = 2
    MaxRestarts = 1
SPECIFICATION FairSpec
INVARIANTS
    TypeOK
    OneReader
    TerminalAwake
    SentByMembers
    NoFriendForgotten
PROPERTIES
    LoopGoesOn
    ReceivedIsShown
CHECK_DEADLOCK FALSE
