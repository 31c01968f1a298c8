------------------------------ MODULE MCClaims ------------------------------
(* Small repertoires on one key, for what the documentation claims of the *)
(* log and of expiry.                                                     *)
EXTENDS Engine

CONSTANTS c1, c2, k1

MCShardOf == [k \in Keys |-> 1]

\* Two clients write the same permanent key.
SharedKey ==
    c1 :> {[name |-> "SET", keys |-> <<k1>>, val |-> <<1>>, ttl |-> 0, cond |-> "always"],
           [name |-> "INCRBY", keys |-> <<k1>>, delta |-> 1]}
 @@ c2 :> {[name |-> "SET", keys |-> <<k1>>, val |-> <<2>>, ttl |-> 0, cond |-> "always"],
           [name |-> "DEL", keys |-> <<k1>>]}

\* One client writes a volatile key, waits until it has expired and sets it anew.
SetAfterExpiry ==
    c1 :> {[name |-> "SET", keys |-> <<k1>>, val |-> <<1>>, ttl |-> 1, cond |-> "always"],
           [name |-> "SET", keys |-> <<k1>>, val |-> <<2>>, ttl |-> 0, cond |-> "NX"],
           [name |-> "DEL", keys |-> <<k1>>]}

\* A key is extended by one client while another reads it.
ExtendAndRead ==
    c1 :> {[name |-> "SET", keys |-> <<k1>>, val |-> <<1>>, ttl |-> 1, cond |-> "always"],
           [name |-> "EXPIRE", keys |-> <<k1>>, ttl |-> 2]}
 @@ c2 :> {[name |-> "GET", keys |-> <<k1>>]}
============================================================================
