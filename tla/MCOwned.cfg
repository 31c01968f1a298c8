SPECIFICATION Spec
CONSTANTS
    c1 = c1
    c2 = c2
    k1 = k1
    k2 = k2
    k3 = k3
    f1 = f1
    f2 = f2
    a = a
    Clients = {c1, c2}
    Keys = {k1, k2, k3}
    Fields = {f1, f2}
    Texts = {a}
    MaxInt = 2
    NumShards = 2
    ShardOf <- MCShardOf
    Repertoire <- MCRepertoire
    AOF = TRUE
    MaxClock = 1
    MaxCommands = 4
INVARIANT
    LogFollowsStore
PROPERTY
    CountersNeverWrap
