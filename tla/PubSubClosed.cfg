SPECIFICATION Spec
CONSTANTS
    a = a
    p = p
    ch1 = ch1
    Conns = {a, p}
    Channels = {ch1}
    Script <- MCScript
    MaxSubs <- MCMaxSubs
    MaxClients = 1
    BufCap = 1
    Fickle = {a}
CHECK_DEADLOCK FALSE
INVARIANT NoPanic
