CONSTANTS
    ann = ann  bob = bob
    Names <- MCNames
    Ids <- MCIds
    Commands <- MCCommands
    Keys <- MCMoves
    NoId = NoId  NoName = NoName  None = None  Empty = Empty  Torn = Torn
    MaxFriends = 2
    MaxTtys = 2
    MaxKeys = 3
    MaxWords = 2
    MaxIndex = 1
    MaxObjs = 0
    MaxRestarts = 0
SPECIFICATION FairSpec
PROPERTIES
    Frames
CHECK_DEADLOCK FALSE
