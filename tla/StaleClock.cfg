SPECIFICATION Spec
CONSTANTS
    c1 = c1
    c2 = c2
    k1 = k1
    Clients = {c1, c2}
    Keys = {k1}
    Fields = {}
    Texts = {}
    MaxInt = 3
    NumShards = 1
    ShardOf <- MCShardOf
    Repertoire <- ExtendAndRead
    AOF = TRUE
    MaxClock = 3
    MaxCommands = 3
PROPERTY
    NoResurrection
