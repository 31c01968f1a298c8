----------------------------- MODULE MCProgress -----------------------------
(* Volatile keys on two shards, commands that walk keys and shards, *)
(* persistence enabled.                                             *)
EXTENDS Engine

CONSTANTS c1, c2, k1, k2

MCShardOf == [k \in Keys |-> IF k = k1 THEN 1 ELSE 2]

MCRepertoire ==
    c1 :> {[name |-> "SET", keys |-> <<k2>>, val |-> <<1>>, ttl |-> 1, cond |-> "always"],
           [name |-> "GET", keys |-> <<k2, k1>>],
           [name |-> "FLUSHDB", keys |-> <<>>]}
 @@ c2 :> {[name |-> "MSET", keys |-> <<k1, k2>>, vals |-> <<<<0>>, <<1>>>>],
           [name |-> "EXPIRE", keys |-> <<k1>>, ttl |-> -1],
           [name |-> "DEL", keys |-> <<k1, k2>>]}
============================================================================
