SPECIFICATION Spec
CONSTANTS
    k1 = k1
    f1 = f1
    f2 = f2
    a = a
    Keys = {k1}
    Fields = {f1, f2}
    Texts = {a}
    MaxInt = 2
    PatternBytes <- MCPatternBytes
    MaxPattern = 5
    Names <- MCNames
    Chunks <- MCChunks
    MaxParts = 5
    AmountOf <- MCAmountOf
    Wrapping = 8
    OptionTokens = {"EX", "PX", "NX", "XX", "0", "1", "2", "KEEPTTL"}
    MaxOptions = 4
    MaxShards = 17
    MaxHash = 65
    Repertoire <- MCRepertoire
    MaxInstant = 5
    MaxCommands = 4
CHECK_DEADLOCK FALSE
INVARIANTS
    GlobMeansPattern
    CommandsReadBack
    CutReplaysWhole
    PageShowsValue
    OptionsAsWritten
    ShardsCoverKeys
    ReadsForetellWrites
    RangesExact
    SnapshotRebuilds
