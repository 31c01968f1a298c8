SPECIFICATION Spec
CONSTANTS
    c1 = c1
    c2 = c2
    k1 = k1
    Clients = {c1, c2}
    Keys = {k1}
    Fields = {}
    Texts = {}
    MaxInt = 3
    NumShards = 1
    ShardOf <- MCShardOf
    Repertoire <- SharedKey
    AOF = TRUE
    MaxClock = 0
    MaxCommands = 3
INVARIANT
    RebuildsExactDataset
