SPECIFICATION Spec
CONSTANTS
    c1 = c1
    c2 = c2
    k1 = k1
    k2 = k2
    f1 = f1
    a = a
    Clients = {c1, c2}
    Keys = {k1, k2}
    Fields = {f1}
    Texts = {a}
    MaxInt = 2
    NumShards = 2
    ShardOf <- MCShardOf
    Repertoire <- MCRepertoire
    AOF = FALSE
    MaxClock = 3
    MaxCommands = 3
INVARIANTS
    TypeOK
    EntriesWellFormed
PROPERTIES
    ReclaimSparesLive
    NXSparesLive
    UpdatesKeepDeadline
    ExpiredContentsStayDead
