SPECIFICATION FairSpec
CONSTANTS
    c1 = c1
    c2 = c2
    k1 = k1
    k2 = k2
    Clients = {c1, c2}
    Keys = {k1, k2}
    Fields = {}
    Texts = {}
    MaxInt = 2
    NumShards = 2
    ShardOf <- MCShardOf
    Repertoire <- MCRepertoire
    AOF = TRUE
    MaxClock = 2
    MaxCommands = 3
PROPERTIES
    ExpiredIsReclaimed
    CommandsReturn
