------------------------------- MODULE Engine -------------------------------
(***************************************************************************)
(* The concurrent engine: connection goroutines that execute data commands *)
(* against the sharded store (internal/store/store.go), one lock per shard *)
(* and no lock across a whole command; the sweeper goroutine that deletes  *)
(* expired keys shard by shard; the passing of time; and the order in      *)
(* which handlers append their commands to the AOF                         *)
(* (internal/command/command.go, internal/server/server.go).               *)
(*                                                                         *)
(* A Store method is two steps: it reads the clock, then it works on one   *)
(* entry under the shard's lock.  Between them any other goroutine may     *)
(* run, and time may pass.  Appending to the AOF is a third step, taken    *)
(* after the lock has been released.                                       *)
(*                                                                         *)
(* The log is represented by what it means: `replica' is the dataset that  *)
(* a restarted server obtains by replaying the commands appended so far.   *)
(***************************************************************************)
EXTENDS Commands

CONSTANTS
    Clients,    \* connection goroutines
    Repertoire, \* Repertoire[c]: the commands that client c may send
    NumShards,  \* len(s.shards)
    ShardOf,    \* ShardOf[k]: the shard of key k (shardFor)
    AOF,        \* TRUE when persistence is enabled (d.AOF # nil)
    MaxClock,   \* bound: the last instant of the model
    MaxCommands \* bound: how many commands are sent in all

ASSUME NumShardsAssumption == NumShards \in Nat \ {0}
ASSUME ShardOfAssumption == ShardOf \in [Keys -> 1 .. NumShards]
ASSUME RepertoireAssumption == \A c \in Clients : Repertoire[c] \subseteq Command
ASSUME BoundsAssumption == MaxClock \in Nat /\ MaxCommands \in Nat
ASSUME AOFAssumption == AOF \in BOOLEAN

VARIABLES
    clock,      \* time.Now()
    db,         \* the shards' maps: db[k] is the entry of key k
    cl,         \* cl[c]: where connection goroutine c is in its command
    sweep,      \* where the sweeper is in SweepExpired
    replica,    \* history: the dataset that replaying the log yields
    sent        \* how many commands have been sent (bounds the model)

vars == <<clock, db, cl, sweep, replica, sent>>

NoCommand == [name |-> "", keys |-> <<>>]

(***************************************************************************)
(* The locals of a connection goroutine inside Execute.                    *)
(*   "idle"   waiting in ReadCommand                                       *)
(*   "clock"  in a Store method, about to read the clock                   *)
(*   "lock"   about to take the lock of the shard of the i-th key          *)
(*   "lazy"   in Get, about to take the write lock in lazyDelete           *)
(*   "flush"  in FlushDB, about to take the lock of the i-th shard         *)
(*   "log"    about to hand `rec' to the AOF                               *)
(* `now' is the clock reading of the method under way, `removed' counts as *)
(* in cmdDel.                                                              *)
(***************************************************************************)
PCs == {"idle", "clock", "lock", "lazy", "flush", "log"}

Idle == [pc |-> "idle", cmd |-> NoCommand, i |-> 1, now |-> 0,
         removed |-> 0, rec |-> NoCommand]

SweepIdle == [shard |-> 0, now |-> 0]

Init ==
    /\ clock = 0
    /\ db = [k \in Keys |-> NoEntry]
    /\ cl = [c \in Clients |-> Idle]
    /\ sweep = SweepIdle
    /\ replica = [k \in Keys |-> NoEntry]
    /\ sent = 0

----------------------------------------------------------------------------
(* Connection goroutines *)

CurKey(s) == s.cmd.keys[s.i]

\* Start on the i-th key (or shard) of the command.
Enter(s, i) ==
    [s EXCEPT !.i = i,
              !.pc = IF s.cmd.name = "FLUSHDB" THEN "flush"
                     ELSE IF ReadsClockUnderLock(s.cmd) THEN "lock"
                     ELSE "clock"]

\* appendAOF: with persistence disabled there is nothing to do.
ThenLog(s, rec) ==
    IF AOF THEN [s EXCEPT !.pc = "log", !.rec = rec] ELSE Idle

\* Mutant: the handler's loop does not advance.
NextKeyStuck(s) == IF s.i < Len(s.cmd.keys) THEN Enter(s, s.i) ELSE Idle

\* Go on to the next key, or return from the handler.
NextKey(s) == IF s.i < Len(s.cmd.keys) THEN Enter(s, s.i + 1) ELSE Idle

\* Mutant: DEL is logged only if every key was there.
AfterCallLogsFullDel(s, r) ==
    IF s.cmd.name = "DEL"
    THEN LET t == [s EXCEPT !.removed = @ + (IF r.ok THEN 1 ELSE 0)]
         IN  IF s.i = Len(s.cmd.keys) /\ t.removed = Len(s.cmd.keys)
             THEN ThenLog(t, s.cmd)
             ELSE NextKey(t)
    ELSE IF r.ok /\ AOF
    THEN ThenLog(s, Logged(s.cmd, s.i, r.e))
    ELSE NextKey(s)

(***************************************************************************)
(* What a handler does after the Store call for its i-th key returned r.   *)
(* MSET appends after every pair; DEL appends once, after the last key, if *)
(* any of them was removed; the other commands have a single key.          *)
(***************************************************************************)
AfterCall(s, r) ==
    IF s.cmd.name = "DEL"
    THEN LET t == [s EXCEPT !.removed = @ + (IF r.ok THEN 1 ELSE 0)]
         IN  IF s.i = Len(s.cmd.keys) /\ t.removed > 0
             THEN ThenLog(t, s.cmd)
             ELSE NextKey(t)
    ELSE IF r.ok /\ AOF
    THEN ThenLog(s, Logged(s.cmd, s.i, r.e))
    ELSE NextKey(s)

\* handleConn: a command has been read; Execute dispatches it.
Begin(c) ==
    /\ cl[c].pc = "idle"
    /\ sent < MaxCommands
    /\ \E m \in Repertoire[c] : cl' = [cl EXCEPT ![c] = Enter([Idle EXCEPT !.cmd = m], 1)]
    /\ sent' = sent + 1
    /\ UNCHANGED <<clock, db, sweep, replica>>

\* now := time.Now(), before the lock is requested.
ReadClock(c) ==
    /\ cl[c].pc = "clock"
    /\ cl' = [cl EXCEPT ![c].now = clock, ![c].pc = "lock"]
    /\ UNCHANGED <<clock, db, sweep, replica, sent>>

\* The critical section of every Store method that updates one key.
Update(c) ==
    LET s == cl[c]
        k == CurKey(s)
        now == IF ReadsClockUnderLock(s.cmd) THEN clock ELSE s.now
        r == Handle(s.cmd, s.i, db[k], now)
    IN  /\ s.pc = "lock"
        /\ s.cmd.name # "GET"
        /\ db' = [db EXCEPT ![k] = r.e]
        /\ cl' = [cl EXCEPT ![c] = AfterCall(s, r)]
        /\ UNCHANGED <<clock, sweep, replica, sent>>

\* Get under the read lock: an expired entry is left to lazyDelete.
GetRead(c) ==
    LET s == cl[c] IN
    /\ s.pc = "lock"
    /\ s.cmd.name = "GET"
    /\ cl' = [cl EXCEPT ![c] = IF expired(db[CurKey(s)], s.now)
                               THEN [s EXCEPT !.pc = "lazy"]
                               ELSE NextKey(s)]
    /\ UNCHANGED <<clock, db, sweep, replica, sent>>

\* Mutant: the key is deleted without a second look.
LazyDeleteUnchecked(c) ==
    LET s == cl[c] IN
    /\ s.pc = "lazy"
    /\ db' = [db EXCEPT ![CurKey(s)] = NoEntry]
    /\ cl' = [cl EXCEPT ![c] = NextKey(s)]
    /\ UNCHANGED <<clock, sweep, replica, sent>>

\* lazyDelete takes the write lock and looks again.
LazyDelete(c) ==
    LET s == cl[c] IN
    /\ s.pc = "lazy"
    /\ db' = [db EXCEPT ![CurKey(s)] = Reclaim(@, s.now)]
    /\ cl' = [cl EXCEPT ![c] = NextKey(s)]
    /\ UNCHANGED <<clock, sweep, replica, sent>>

\* FlushDB empties one shard at a time.
FlushShard(c) ==
    LET s == cl[c] IN
    /\ s.pc = "flush"
    /\ db' = [k \in Keys |-> IF ShardOf[k] = s.i THEN NoEntry ELSE db[k]]
    /\ cl' = [cl EXCEPT ![c] = IF s.i < NumShards
                               THEN Enter(s, s.i + 1)
                               ELSE ThenLog(s, s.cmd)]
    /\ UNCHANGED <<clock, sweep, replica, sent>>

\* d.AOF.Append(...): the channel puts the records of all goroutines in order.
LogAppend(c) ==
    LET s == cl[c] IN
    /\ s.pc = "log"
    /\ replica' = ReplayStep(replica, s.rec, 0)
    /\ cl' = [cl EXCEPT ![c] = IF s.cmd.name = "MSET" THEN NextKey(s) ELSE Idle]
    /\ UNCHANGED <<clock, db, sweep, sent>>

----------------------------------------------------------------------------
(* The sweeper goroutine and time *)

SweepStart ==
    /\ sweep.shard = 0
    /\ sweep' = [shard |-> 1, now |-> clock]
    /\ UNCHANGED <<clock, db, cl, replica, sent>>

\* Mutant: one shard too many.
SweepShardBeyond ==
    /\ sweep.shard # 0
    /\ db' = [k \in Keys |-> IF ShardOf[k] = sweep.shard
                             THEN Reclaim(db[k], sweep.now)
                             ELSE db[k]]
    /\ sweep' = IF sweep.shard <= NumShards
                THEN [sweep EXCEPT !.shard = @ + 1]
                ELSE SweepIdle
    /\ UNCHANGED <<clock, cl, replica, sent>>

\* Mutant: the last shard is never swept.
SweepShardShort ==
    /\ sweep.shard # 0
    /\ db' = [k \in Keys |-> IF ShardOf[k] = sweep.shard
                             THEN Reclaim(db[k], sweep.now)
                             ELSE db[k]]
    /\ sweep' = IF sweep.shard < NumShards - 1
                THEN [sweep EXCEPT !.shard = @ + 1]
                ELSE SweepIdle
    /\ UNCHANGED <<clock, cl, replica, sent>>

SweepShard ==
    /\ sweep.shard # 0
    /\ db' = [k \in Keys |-> IF ShardOf[k] = sweep.shard
                             THEN Reclaim(db[k], sweep.now)
                             ELSE db[k]]
    /\ sweep' = IF sweep.shard < NumShards
                THEN [sweep EXCEPT !.shard = @ + 1]
                ELSE SweepIdle
    /\ UNCHANGED <<clock, cl, replica, sent>>

Tick ==
    /\ clock < MaxClock
    /\ clock' = clock + 1
    /\ UNCHANGED <<db, cl, sweep, replica, sent>>

----------------------------------------------------------------------------
ClientStep(c) ==
    \/ ReadClock(c)
    \/ Update(c)
    \/ GetRead(c)
    \/ LazyDelete(c)
    \/ FlushShard(c)
    \/ LogAppend(c)

Sweeper == SweepStart \/ SweepShard

Next ==
    \/ \E c \in Clients : Begin(c) \/ ClientStep(c)
    \/ Sweeper
    \/ Tick

Spec == Init /\ [][Next]_vars

(***************************************************************************)
(* A goroutine that can run eventually does, the ticker keeps firing, and  *)
(* nothing obliges a client to send a command.                             *)
(***************************************************************************)
FairSpec ==
    /\ Spec
    /\ \A c \in Clients : WF_vars(ClientStep(c))
    /\ WF_vars(Sweeper)
    /\ WF_vars(Tick)

----------------------------------------------------------------------------
(* Properties *)

\* The values every variable takes.
TypeOK ==
    /\ clock \in 0 .. MaxClock
    /\ db \in [Keys -> Entry]
    /\ cl \in [Clients -> [pc : PCs, cmd : Command \cup {NoCommand},
                           i : Nat \ {0}, now : Nat, removed : Nat,
                           rec : Command \cup {NoCommand}]]
    /\ sweep \in [shard : 0 .. NumShards, now : Nat]
    /\ replica \in [Keys -> Entry]
    /\ sent \in 0 .. MaxCommands

(***************************************************************************)
(* No sequence of commands leaves an empty hash or list behind, in the     *)
(* store or in what the log rebuilds, and an entry never keeps a payload   *)
(* of a kind it no longer has (HDel and pop drop the key when it becomes   *)
(* empty; every creating method starts from a fresh entry).                *)
(***************************************************************************)
EntriesWellFormed == \A k \in Keys : WellFormed(db[k]) /\ WellFormed(replica[k])

\* Client c holds the lock of k's shard, to run a command that may update k.
Updates(c, k) ==
    /\ cl'[c] # cl[c]
    /\ \/ cl[c].pc = "lock" /\ cl[c].cmd.name # "GET" /\ CurKey(cl[c]) = k
       \/ cl[c].pc = "flush" /\ ShardOf[k] = cl[c].i

(***************************************************************************)
(* Reclaiming never destroys live data: the sweeper and the lazy deletion  *)
(* in Get act on a clock reading taken before they had the lock, and yet a *)
(* key that is live when they run is left exactly as it is, even one that  *)
(* was rewritten or given a new deadline since the reading.                *)
(***************************************************************************)
ReclaimSparesLive ==
    [][\A k \in Keys :
          Live(db[k], clock) /\ db'[k] # db[k] => \E c \in Clients : Updates(c, k)]_vars

(***************************************************************************)
(* SET NX never overwrites a key that is live at the moment it writes,     *)
(* although it decides with a clock reading that may be old (SetNX).       *)
(***************************************************************************)
NXSparesLive ==
    [][\A k \in Keys, c \in Clients :
          /\ Updates(c, k)
          /\ cl[c].cmd.name = "SET"
          /\ cl[c].cmd.cond = "NX"
          /\ Live(db[k], clock)
          => db'[k] = db[k]]_vars

\* The commands that replace a key's deadline on purpose.
ReplacesDeadline(m) == m.name \in {"SET", "MSET", "GETSET", "EXPIRE", "PERSIST"}

(***************************************************************************)
(* A live key keeps its deadline through APPEND, the counters, and the     *)
(* hash and list commands, for as long as it exists: none of them makes a  *)
(* volatile key permanent or a permanent key volatile.                     *)
(***************************************************************************)
UpdatesKeepDeadline ==
    [][\A k \in Keys :
          /\ Live(db[k], clock)
          /\ db'[k].kind # "none"
          /\ db'[k].expiresAt # db[k].expiresAt
          => \E c \in Clients : Updates(c, k) /\ ReplacesDeadline(cl[c].cmd)]_vars

\* The methods that write only if the key exists, and so extend the life of
\* an entry they take to be live.
NeedsLive(m) == m.name \in {"EXPIRE", "PERSIST"} \/ (m.name = "SET" /\ m.cond = "XX")

\* Command m could have produced entry e from an absent key.
StartsAfresh(m, i, e) ==
    e.str = Handle(m, i, NoEntry, clock).e.str
    /\ e.hash = Handle(m, i, NoEntry, clock).e.hash
    /\ e.list = Handle(m, i, NoEntry, clock).e.list

(***************************************************************************)
(* Once a key has expired its old contents never show again: whatever      *)
(* makes the key live afterwards wrote what it would have written had the  *)
(* key been absent, whether or not the expired entry was still in the map  *)
(* and however old the writer's clock reading was.  EXPIRE, PERSIST and    *)
(* SET XX are left to NoResurrection.                                      *)
(***************************************************************************)
ExpiredContentsStayDead ==
    [][\A k \in Keys :
          expired(db[k], clock) /\ Live(db'[k], clock) =>
              \E c \in Clients :
                  /\ Updates(c, k)
                  /\ \/ NeedsLive(cl[c].cmd)
                     \/ StartsAfresh(cl[c].cmd, cl[c].i, db'[k])]_vars

(***************************************************************************)
(* "Expire sets a TTL on an existing key.  Returns false if the key is     *)
(* absent": a command that needs an existing key does not bring back one   *)
(* that has expired by the time it writes.                                 *)
(***************************************************************************)
NoResurrection ==
    [][\A k \in Keys, c \in Clients :
          Updates(c, k) /\ NeedsLive(cl[c].cmd) /\ ~Live(db[k], clock)
          => ~Live(db'[k], clock)]_vars

\* What a counter command is meant to add.
Amount(m) == IF m.name = "DECRBY" THEN -m.delta ELSE m.delta

(***************************************************************************)
(* "Overflow guard so we never wrap silently": a counter command stores    *)
(* the sum, which is an int64, or refuses and leaves the key as it is, at  *)
(* either end of the range and whoever else counts.  DECRBY of the least   *)
(* int64, whose negation wraps before the guard looks at it, is left out,  *)
(* see the README (IncrBy, cmdIncrBy).                                     *)
(***************************************************************************)
CountersNeverWrap ==
    [][\A k \in Keys, c \in Clients :
          LET m == cl[c].cmd
              sum == Counter(db[k], cl[c].now) + Amount(m)
          IN  /\ Updates(c, k)
              /\ m.name \in {"INCRBY", "DECRBY"}
              /\ m.name = "DECRBY" => m.delta # MinInt
              /\ db'[k] # db[k]
              => sum \in MinInt .. MaxInt /\ db'[k].str = <<sum>>]_vars

(***************************************************************************)
(* An expired key does not stay in memory: the sweeper removes it, or a    *)
(* command replaces it (SweepExpired, sweepLoop).                          *)
(***************************************************************************)
ExpiredIsReclaimed ==
    \A k \in Keys : expired(db[k], clock) ~> ~expired(db[k], clock)

(***************************************************************************)
(* Every command that was started returns, however many keys or shards it  *)
(* walks (Execute).                                                        *)
(***************************************************************************)
CommandsReturn == \A c \in Clients : cl[c].pc # "idle" ~> cl[c].pc = "idle"

----------------------------------------------------------------------------
(* The store and its log *)

\* What a client can see of a dataset, deadlines aside.
Contents(d, now) ==
    [k \in Keys |-> IF Live(d[k], now) THEN [d[k] EXCEPT !.expiresAt = Never]
                    ELSE NoEntry]

Quiet == \A c \in Clients : cl[c].pc = "idle"

(***************************************************************************)
(* "On startup the file is replayed to rebuild the exact dataset": when no *)
(* command is under way, a restart at once shows the keys and values the   *)
(* running server shows.                                                   *)
(***************************************************************************)
RebuildsExactDataset == Quiet => Contents(db, clock) = Contents(replica, 0)

(***************************************************************************)
(* A weaker form of the same claim: whatever may have become of keys that  *)
(* have expired, every live key is rebuilt with the value it has.          *)
(***************************************************************************)
LiveKeysRebuilt ==
    Quiet => \A k \in Keys :
        Live(db[k], clock) => Contents(replica, 0)[k] = Contents(db, clock)[k]

\* A command that gives no key a deadline and works on the keys it names.
NoDeadline(m) == m.name \notin {"EXPIRE", "FLUSHDB"} /\ (m.name = "SET" => m.ttl = 0)

\* Clients keep to keys of their own, and no command sets a deadline.
Private ==
    \A c, d \in Clients : c # d =>
        \A m \in Repertoire[c], n \in Repertoire[d] : ToSet(m.keys) \cap ToSet(n.keys) = {}

Permanent == \A c \in Clients : \A m \in Repertoire[c] : NoDeadline(m)

\* Client c is executing a command on k.
Busy(c, k) == cl[c].pc # "idle" /\ k \in ToSet(cl[c].cmd.keys)

(***************************************************************************)
(* Where no two clients use the same key and nothing expires, the log      *)
(* follows the store key by key: whenever no command on k is under way,    *)
(* replaying the log yields exactly the entry k has, through every way a   *)
(* handler rewrites what it logs (GETSET and counters as SET, MSET pair by *)
(* pair, DEL only if something was removed).                               *)
(***************************************************************************)
LogFollowsStore ==
    \A k \in Keys : (\A c \in Clients : ~Busy(c, k)) => replica[k] = db[k]
============================================================================
