------------------------------ MODULE MCStore ------------------------------
(* Two clients on a two-shard store with expiry, persistence disabled. *)
EXTENDS Engine

CONSTANTS c1, c2, k1, k2, f1, a

MCShardOf == [k \in Keys |-> IF k = k1 THEN 1 ELSE 2]

MCRepertoire ==
    c1 :> {[name |-> "SET", keys |-> <<k1>>, val |-> <<1>>, ttl |-> 1, cond |-> "always"],
           [name |-> "SET", keys |-> <<k1>>, val |-> <<2>>, ttl |-> 0, cond |-> "NX"],
           [name |-> "EXPIRE", keys |-> <<k1>>, ttl |-> 1],
           [name |-> "GET", keys |-> <<k2, k1>>],
           [name |-> "LPUSH", keys |-> <<k2>>, vals |-> <<<<a>>, <<1>>>>],
           [name |-> "EXPIRE", keys |-> <<k2>>, ttl |-> 0],
           [name |-> "FLUSHDB", keys |-> <<>>]}
 @@ c2 :> {[name |-> "APPEND", keys |-> <<k1>>, val |-> <<a>>],
           [name |-> "INCRBY", keys |-> <<k1>>, delta |-> 1],
           [name |-> "PERSIST", keys |-> <<k1>>],
           [name |-> "HSET", keys |-> <<k2>>, pairs |-> f1 :> {<<a>>}],
           [name |-> "HDEL", keys |-> <<k2>>, fields |-> {f1}],
           [name |-> "LPOP", keys |-> <<k2>>],
           [name |-> "RPOP", keys |-> <<k2>>],
           [name |-> "SET", keys |-> <<k1>>, val |-> <<a>>, ttl |-> 1, cond |-> "XX"],
           [name |-> "DEL", keys |-> <<k1, k2>>]}
============================================================================
