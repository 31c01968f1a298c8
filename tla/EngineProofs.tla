---------------------------- MODULE EngineProofs ----------------------------
(***************************************************************************)
(* Theorems about the concurrent engine, for any clients, keys, shards,    *)
(* repertoires and bounds.                                                 *)
(***************************************************************************)
EXTENDS Engine, EntryProofs

Local == [pc : PCs, cmd : Command \cup {NoCommand}, i : Nat \ {0}, now : Nat,
          removed : Nat, rec : Command \cup {NoCommand}]

(***************************************************************************)
(* What a connection goroutine's locals say about where it is: inside a    *)
(* command it has one of the commands, on one of its keys, and a command   *)
(* that walks shards is FLUSHDB.                                           *)
(***************************************************************************)
LocalOK(s) ==
  /\ s \in Local
  /\ s.pc # "idle" => s.cmd \in Command
  /\ s.pc \in {"clock", "lock", "lazy"} =>
        /\ s.cmd.name # "FLUSHDB"
        /\ s.i \in 1 .. Len(s.cmd.keys)
  /\ s.pc = "flush" => s.cmd.name = "FLUSHDB"
  /\ s.pc = "lazy" => s.cmd.name = "GET"
  /\ s.pc = "log" =>
        /\ s.rec \in Command
        /\ s.rec.name \notin {"GET", "MSET", "GETSET", "INCRBY", "DECRBY"}
        /\ s.cmd.name = "MSET" => s.i \in 1 .. Len(s.cmd.keys)

LocalsOK == \A c \in Clients : LocalOK(cl[c])

----------------------------------------------------------------------------
(* Commands *)

LEMMA KeysOfCommand ==
  ASSUME NEW m \in Command
  PROVE  /\ m.keys \in Seq(Keys)
         /\ m.name # "FLUSHDB" => Len(m.keys) >= 1
         /\ m.name \notin {"MSET", "DEL", "GET", "FLUSHDB"} => Len(m.keys) = 1
         /\ m.name # ""
  <1>1. \A k \in Keys : <<k>> \in Seq(Keys) /\ Len(<<k>>) = 1
    OBVIOUS
  <1>2. m.keys \in OneKey => m.keys \in Seq(Keys) /\ Len(m.keys) = 1
    BY <1>1 DEF OneKey
  <1>3. m.keys \in SomeKeys => m.keys \in Seq(Keys) /\ Len(m.keys) >= 1
    BY DEF SomeKeys
  <1>4. <<>> \in Seq(Keys)
    OBVIOUS
  <1>5. \/ m.keys \in OneKey /\ m.name \notin {"", "FLUSHDB"}
        \/ m.keys \in SomeKeys /\ m.name \in {"MSET", "GET", "DEL"}
        \/ m.keys = <<>> /\ m.name = "FLUSHDB"
    BY DEF Command, SetCommand, MSetCommand, StringCommand, KeyCommand,
           HashCommand, ListCommand, FlushCommand
  <1>6. CASE m.keys \in OneKey /\ m.name \notin {"", "FLUSHDB"}
    <2>1. m.keys \in Seq(Keys) /\ Len(m.keys) = 1
      BY <1>2, <1>6
    <2>2. Len(m.keys) >= 1
      BY <2>1
    <2> QED
      BY <1>6, <2>1, <2>2
  <1>7. CASE m.keys \in SomeKeys /\ m.name \in {"MSET", "GET", "DEL"}
    BY <1>3, <1>7
  <1>8. CASE m.keys = <<>> /\ m.name = "FLUSHDB"
    BY <1>4, <1>8
  <1> QED
    BY <1>5, <1>6, <1>7, <1>8

LEMMA LoggedType ==
  ASSUME NEW m \in Command, NEW i \in 1 .. Len(m.keys), NEW e \in Entry
  PROVE  /\ Logged(m, i, e) \in Command
         /\ Logged(m, i, e).name \notin {"MSET", "GETSET", "INCRBY", "DECRBY"}
         /\ m.name # "GET" => Logged(m, i, e).name # "GET"
  <1>0. m.keys \in Seq(Keys)
    BY KeysOfCommand
  <1>1. m.keys[i] \in Keys /\ e.str \in Str
    BY <1>0 DEF Entry
  <1>2. SetOf(m.keys[i], e.str) \in SetCommand
    BY <1>1 DEF SetOf, SetCommand, OneKey
  <1> QED
    BY <1>2 DEF Logged, Command, SetOf

LEMMA ReplayStepType ==
  ASSUME NEW m \in Command,
         m.name \notin {"GET"},
         NEW d \in [Keys -> Entry], NEW now \in Int
  PROVE  ReplayStep(d, m, now) \in [Keys -> Entry]
  <1> SUFFICES ASSUME NEW k \in Keys
               PROVE  ReplayStep(d, m, now)[k] \in Entry
    BY DEF ReplayStep
  <1>1. CASE m.name = "FLUSHDB"
    BY <1>1, NoEntryType DEF ReplayStep
  <1>2. CASE m.name # "FLUSHDB"
    <2>0. m.keys \in Seq(Keys) /\ Len(m.keys) >= 1
      BY <1>2, KeysOfCommand
    <2>1. Handle(m, 1, d[k], now) \in Result
      BY <1>2, <2>0, HandleType
    <2> QED
      BY <1>2, <2>1 DEF ReplayStep, Result
  <1> QED
    BY <1>1, <1>2

----------------------------------------------------------------------------
(* Locals *)

LEMMA IdleOK == LocalOK(Idle)
  BY DEF LocalOK, Local, Idle, PCs

LEMMA EnterOK ==
  ASSUME NEW s \in Local, s.cmd \in Command, NEW i \in Nat \ {0},
         s.cmd.name # "FLUSHDB" => i \in 1 .. Len(s.cmd.keys)
  PROVE  LocalOK(Enter(s, i)) /\ Enter(s, i).now = s.now
  BY DEF LocalOK, Local, Enter, PCs

LEMMA NextKeyOK ==
  ASSUME NEW s \in Local, s.cmd \in Command, s.cmd.name # "FLUSHDB"
  PROVE  LocalOK(NextKey(s)) /\ NextKey(s).now \in {s.now, 0}
  <1>1. CASE s.i < Len(s.cmd.keys)
    <2>0. s.cmd.keys \in Seq(Keys) /\ s.i \in Nat
      BY KeysOfCommand DEF Local
    <2>1. s.i + 1 \in 1 .. Len(s.cmd.keys)
      BY <1>1, <2>0
    <2> QED
      BY <1>1, <2>1, EnterOK DEF NextKey, Local
  <1>2. CASE ~(s.i < Len(s.cmd.keys))
    BY <1>2, IdleOK DEF NextKey, Idle
  <1> QED
    BY <1>1, <1>2

LEMMA ThenLogOK ==
  ASSUME NEW s \in Local, s.cmd \in Command, NEW rec \in Command,
         rec.name \notin {"GET", "MSET", "GETSET", "INCRBY", "DECRBY"},
         s.cmd.name = "MSET" => s.i \in 1 .. Len(s.cmd.keys)
  PROVE  LocalOK(ThenLog(s, rec)) /\ ThenLog(s, rec).now \in {s.now, 0}
  <1>1. CASE AOF
    <2>1. [s EXCEPT !.pc = "log", !.rec = rec] \in Local
      BY DEF Local, PCs
    <2> QED
      BY <1>1, <2>1 DEF ThenLog, LocalOK, Local
  <1>2. CASE ~AOF
    BY <1>2, IdleOK DEF ThenLog, Idle
  <1> QED
    BY <1>1, <1>2

LEMMA AfterCallOK ==
  ASSUME NEW s, LocalOK(s), s.pc = "lock", s.cmd.name # "GET",
         NEW r \in Result
  PROVE  LocalOK(AfterCall(s, r)) /\ AfterCall(s, r).now \in {s.now, 0}
  <1>1. s \in Local /\ s.cmd \in Command /\ s.cmd.name # "FLUSHDB"
        /\ s.i \in 1 .. Len(s.cmd.keys)
    BY DEF LocalOK
  <1>2. CASE s.cmd.name = "DEL"
    <2> DEFINE t == [s EXCEPT !.removed = @ + (IF r.ok THEN 1 ELSE 0)]
    <2>1. t \in Local /\ t.cmd = s.cmd /\ t.i = s.i /\ t.now = s.now
      BY <1>1 DEF Local
    <2> HIDE DEF t
    <2>2. LocalOK(NextKey(t)) /\ NextKey(t).now \in {s.now, 0}
      BY <1>1, <1>2, <2>1, NextKeyOK
    <2>3. LocalOK(ThenLog(t, s.cmd)) /\ ThenLog(t, s.cmd).now \in {s.now, 0}
      BY <1>1, <1>2, <2>1, ThenLogOK
    <2> QED
      BY <1>2, <2>2, <2>3 DEF AfterCall, t
  <1>3. CASE s.cmd.name # "DEL"
    <2>1. LocalOK(NextKey(s)) /\ NextKey(s).now \in {s.now, 0}
      BY <1>1, NextKeyOK
    <2>2. r.e \in Entry
      BY DEF Result
    <2>3. LocalOK(ThenLog(s, Logged(s.cmd, s.i, r.e)))
          /\ ThenLog(s, Logged(s.cmd, s.i, r.e)).now \in {s.now, 0}
      BY <1>1, <2>2, LoggedType, ThenLogOK
    <2> QED
      BY <1>3, <2>1, <2>3 DEF AfterCall
  <1> QED
    BY <1>2, <1>3

----------------------------------------------------------------------------
(* Type correctness *)

Inv == TypeOK /\ LocalsOK

LEMMA InitInv == Init => Inv
  BY IdleOK, NoEntryType, NumShardsAssumption, BoundsAssumption
  DEF Init, Inv, TypeOK, LocalsOK, LocalOK, Local, SweepIdle

\* A step of client c that leaves its locals in order keeps all of them so.
LEMMA LocalsStep ==
  ASSUME TypeOK, LocalsOK, NEW c \in Clients, NEW t, LocalOK(t),
         cl' = [cl EXCEPT ![c] = t]
  PROVE  /\ cl' \in [Clients -> Local]
         /\ LocalsOK'
  BY DEF TypeOK, LocalsOK, LocalOK, Local

LEMMA NextInv == Inv /\ [Next]_vars => Inv'
  <1> SUFFICES ASSUME Inv, [Next]_vars PROVE Inv'
    OBVIOUS
  <1> USE DEF Inv
  <1>0. cl \in [Clients -> Local]
    BY DEF TypeOK, Local
  <1>1. ASSUME NEW c \in Clients, Begin(c) PROVE Inv'
    <2>1. PICK m \in Repertoire[c] :
            cl' = [cl EXCEPT ![c] = Enter([Idle EXCEPT !.cmd = m], 1)]
      BY <1>1 DEF Begin
    <2> DEFINE s == [Idle EXCEPT !.cmd = m]
    <2>2. m \in Command
      BY RepertoireAssumption
    <2>3. s \in Local /\ s.cmd = m
      BY <2>2 DEF Idle, Local, PCs
    <2>4. ASSUME m.name # "FLUSHDB" PROVE 1 \in 1 .. Len(m.keys)
      <3>1. m.keys \in Seq(Keys) /\ Len(m.keys) >= 1
        BY <2>2, <2>4, KeysOfCommand
      <3> QED
        BY <3>1
    <2> HIDE DEF s
    <2>5. LocalOK(Enter(s, 1))
      BY <2>2, <2>3, <2>4, EnterOK
    <2>6. cl' \in [Clients -> Local] /\ LocalsOK'
      BY <2>1, <2>5, LocalsStep DEF s
    <2>7. sent' \in 0 .. MaxCommands
      BY <1>1, BoundsAssumption DEF Begin, TypeOK
    <2> QED
      BY <1>1, <2>6, <2>7 DEF Begin, TypeOK, Local
  <1>2. ASSUME NEW c \in Clients, ReadClock(c) PROVE Inv'
    <2> DEFINE t == [cl[c] EXCEPT !.now = clock, !.pc = "lock"]
    <2>1. cl' = [cl EXCEPT ![c] = t]
      BY <1>0, <1>2 DEF ReadClock
    <2>2. LocalOK(cl[c]) /\ cl[c].pc = "clock" /\ clock \in Nat
      BY <1>2, BoundsAssumption DEF ReadClock, LocalsOK, TypeOK
    <2>3. LocalOK(t)
      BY <2>2 DEF LocalOK, Local, PCs
    <2> HIDE DEF t
    <2>4. cl' \in [Clients -> Local] /\ LocalsOK'
      BY <2>1, <2>3, LocalsStep
    <2> QED
      BY <1>2, <2>4 DEF ReadClock, TypeOK, Local
  <1>3. ASSUME NEW c \in Clients, Update(c) PROVE Inv'
    <2> DEFINE s == cl[c]
               k == CurKey(s)
               now == IF ReadsClockUnderLock(s.cmd) THEN clock ELSE s.now
               r == Handle(s.cmd, s.i, db[k], now)
    <2>1. /\ s.pc = "lock" /\ s.cmd.name # "GET"
          /\ db' = [db EXCEPT ![k] = r.e]
          /\ cl' = [cl EXCEPT ![c] = AfterCall(s, r)]
          /\ UNCHANGED <<clock, sweep, replica, sent>>
      BY <1>3 DEF Update
    <2>2. LocalOK(s)
      BY DEF LocalsOK
    <2>3. s.cmd \in Command /\ s.cmd.name # "FLUSHDB" /\ s.i \in 1 .. Len(s.cmd.keys)
      BY <2>1, <2>2 DEF LocalOK
    <2>4. s.cmd.keys \in Seq(Keys)
      BY <2>3, KeysOfCommand
    <2>5. k \in Keys
      BY <2>3, <2>4 DEF CurKey
    <2>6. now \in Int /\ db[k] \in Entry
      BY <2>2, <2>5, BoundsAssumption DEF TypeOK, LocalOK, Local
    <2> HIDE DEF s, k, now
    <2>7. r \in Result
      BY <2>1, <2>3, <2>6, HandleType
    <2> HIDE DEF r
    <2>8. LocalOK(AfterCall(s, r))
      BY <2>1, <2>2, <2>7, AfterCallOK
    <2>9. cl' \in [Clients -> Local] /\ LocalsOK'
      BY <2>1, <2>8, LocalsStep
    <2>10. db' \in [Keys -> Entry]
      BY <2>1, <2>5, <2>7 DEF TypeOK, Result
    <2> QED
      BY <2>1, <2>9, <2>10 DEF TypeOK, Local
  <1>4. ASSUME NEW c \in Clients, GetRead(c) PROVE Inv'
    <2> DEFINE s == cl[c]
               t == IF expired(db[CurKey(s)], s.now)
                    THEN [s EXCEPT !.pc = "lazy"] ELSE NextKey(s)
    <2>1. LocalOK(s) /\ s.pc = "lock" /\ s.cmd.name = "GET"
      BY <1>4 DEF GetRead, LocalsOK
    <2>2. LocalOK(NextKey(s))
      BY <2>1, NextKeyOK DEF LocalOK
    <2>3. LocalOK([s EXCEPT !.pc = "lazy"])
      BY <2>1 DEF LocalOK, Local, PCs
    <2>4. LocalOK(t)
      BY <2>2, <2>3
    <2>5. cl' = [cl EXCEPT ![c] = t]
      BY <1>4 DEF GetRead
    <2> HIDE DEF t
    <2>6. cl' \in [Clients -> Local] /\ LocalsOK'
      BY <2>4, <2>5, LocalsStep
    <2> QED
      BY <1>4, <2>6 DEF GetRead, TypeOK, Local
  <1>5. ASSUME NEW c \in Clients, LazyDelete(c) PROVE Inv'
    <2> DEFINE s == cl[c]
               k == CurKey(s)
    <2>1. LocalOK(s) /\ s.pc = "lazy"
      BY <1>5 DEF LazyDelete, LocalsOK
    <2>2. s.cmd \in Command /\ s.cmd.name = "GET" /\ s.i \in 1 .. Len(s.cmd.keys)
      BY <2>1 DEF LocalOK
    <2>3. s.cmd.keys \in Seq(Keys)
      BY <2>2, KeysOfCommand
    <2>4. k \in Keys
      BY <2>2, <2>3 DEF CurKey
    <2>5. Reclaim(db[k], s.now) \in Entry
      BY <2>1, <2>4, ReclaimType DEF TypeOK, LocalOK, Local
    <2>6. db' = [db EXCEPT ![k] = Reclaim(db[k], s.now)]
      BY <1>5 DEF LazyDelete
    <2>7. db' \in [Keys -> Entry]
      BY <2>4, <2>5, <2>6 DEF TypeOK
    <2>8. LocalOK(NextKey(s))
      BY <2>1, <2>2, NextKeyOK DEF LocalOK
    <2>9. cl' \in [Clients -> Local] /\ LocalsOK'
      BY <1>5, <2>8, LocalsStep DEF LazyDelete
    <2> QED
      BY <1>5, <2>7, <2>9 DEF LazyDelete, TypeOK, Local
  <1>6. ASSUME NEW c \in Clients, FlushShard(c) PROVE Inv'
    <2> DEFINE s == cl[c]
               t == IF s.i < NumShards THEN Enter(s, s.i + 1) ELSE ThenLog(s, s.cmd)
    <2>1. LocalOK(s) /\ s.pc = "flush"
      BY <1>6 DEF FlushShard, LocalsOK
    <2>2. s \in Local /\ s.cmd \in Command /\ s.cmd.name = "FLUSHDB"
      BY <2>1 DEF LocalOK
    <2>3. LocalOK(Enter(s, s.i + 1))
      BY <2>2, EnterOK DEF Local
    <2>4. LocalOK(ThenLog(s, s.cmd))
      BY <2>2, ThenLogOK
    <2>5. LocalOK(t)
      BY <2>3, <2>4
    <2>6. cl' = [cl EXCEPT ![c] = t]
      BY <1>6 DEF FlushShard
    <2> HIDE DEF t
    <2>7. cl' \in [Clients -> Local] /\ LocalsOK'
      BY <2>5, <2>6, LocalsStep
    <2>8. db' \in [Keys -> Entry]
      BY <1>6, NoEntryType DEF FlushShard, TypeOK
    <2> QED
      BY <1>6, <2>7, <2>8 DEF FlushShard, TypeOK, Local
  <1>7. ASSUME NEW c \in Clients, LogAppend(c) PROVE Inv'
    <2> DEFINE s == cl[c]
               t == IF s.cmd.name = "MSET" THEN NextKey(s) ELSE Idle
    <2>1. LocalOK(s) /\ s.pc = "log"
      BY <1>7 DEF LogAppend, LocalsOK
    <2>2. /\ s \in Local /\ s.cmd \in Command /\ s.rec \in Command
          /\ s.rec.name # "GET"
      BY <2>1 DEF LocalOK
    <2>3. LocalOK(t)
      BY <2>2, NextKeyOK, IdleOK
    <2>4. replica' \in [Keys -> Entry]
      BY <1>7, <2>2, ReplayStepType DEF LogAppend, TypeOK
    <2>5. cl' = [cl EXCEPT ![c] = t]
      BY <1>7 DEF LogAppend
    <2> HIDE DEF t
    <2>6. cl' \in [Clients -> Local] /\ LocalsOK'
      BY <2>3, <2>5, LocalsStep
    <2> QED
      BY <1>7, <2>4, <2>6 DEF LogAppend, TypeOK, Local
  <1>8. CASE SweepStart
    BY <1>8, NumShardsAssumption, BoundsAssumption
    DEF SweepStart, TypeOK, LocalsOK
  <1>9. CASE SweepShard
    <2>1. \A k \in Keys : Reclaim(db[k], sweep.now) \in Entry
      BY ReclaimType DEF TypeOK
    <2>2. db' \in [Keys -> Entry]
      BY <1>9, <2>1 DEF SweepShard, TypeOK
    <2>3. sweep' \in [shard : 0 .. NumShards, now : Nat]
      BY <1>9, NumShardsAssumption DEF SweepShard, SweepIdle, TypeOK
    <2> QED
      BY <1>9, <2>2, <2>3 DEF SweepShard, TypeOK, LocalsOK
  <1>10. CASE Tick
    BY <1>10, BoundsAssumption DEF Tick, TypeOK, LocalsOK
  <1>11. CASE UNCHANGED vars
    BY <1>11 DEF vars, TypeOK, LocalsOK
  <1> QED
    BY <1>1, <1>2, <1>3, <1>4, <1>5, <1>6, <1>7, <1>8, <1>9, <1>10, <1>11
    DEF Next, ClientStep, Sweeper

(***************************************************************************)
(* Every reachable state is well typed: for any commands, in any           *)
(* interleaving, the Store methods and handlers keep entries, locals and   *)
(* the replayed dataset within their types.                                *)
(***************************************************************************)
THEOREM TypeCorrect == Spec => []TypeOK
  <1>1. Spec => []Inv
    BY InitInv, NextInv, PTL DEF Spec
  <1> QED
    BY <1>1, PTL DEF Inv

----------------------------------------------------------------------------
(* Well-formed entries *)

LEMMA ReplayStepWF ==
  ASSUME NEW m \in Command, m.name # "GET",
         NEW d \in [Keys -> Entry], \A k \in Keys : WellFormed(d[k])
  PROVE  \A k \in Keys : WellFormed(ReplayStep(d, m, 0)[k])
  <1> SUFFICES ASSUME NEW k \in Keys
               PROVE  WellFormed(ReplayStep(d, m, 0)[k])
    OBVIOUS
  <1>1. CASE m.name = "FLUSHDB"
    BY <1>1, NewEntryWF DEF ReplayStep
  <1>2. CASE m.name # "FLUSHDB"
    <2>1. m.keys \in Seq(Keys) /\ Len(m.keys) >= 1
      BY <1>2, KeysOfCommand
    <2>2. WellFormed(Handle(m, 1, d[k], 0).e)
      BY <1>2, <2>1, HandleWF
    <2> QED
      BY <1>2, <2>2 DEF ReplayStep
  <1> QED
    BY <1>1, <1>2

\* The step an Update takes, with its parts named and typed.
LEMMA UpdateStep ==
  ASSUME Inv, NEW c \in Clients, Update(c)
  PROVE  \E k \in Keys, now \in Nat :
           LET s == cl[c]
               r == Handle(s.cmd, s.i, db[k], now)
           IN  /\ s.pc = "lock" /\ k = CurKey(s)
               /\ s.cmd \in Command /\ s.cmd.name \notin {"GET", "FLUSHDB"}
               /\ s.i \in 1 .. Len(s.cmd.keys)
               /\ now = IF ReadsClockUnderLock(s.cmd) THEN clock ELSE s.now
               /\ db[k] \in Entry
               /\ r \in Result
               /\ db' = [db EXCEPT ![k] = r.e]
               /\ cl' = [cl EXCEPT ![c] = AfterCall(s, r)]
               /\ UNCHANGED <<clock, sweep, replica, sent>>
  <1> DEFINE s == cl[c]
             k == CurKey(s)
             now == IF ReadsClockUnderLock(s.cmd) THEN clock ELSE s.now
             r == Handle(s.cmd, s.i, db[k], now)
  <1>1. LocalOK(s) /\ s.pc = "lock" /\ s.cmd.name # "GET"
    BY DEF Update, Inv, LocalsOK
  <1>2. s.cmd \in Command /\ s.cmd.name # "FLUSHDB" /\ s.i \in 1 .. Len(s.cmd.keys)
    BY <1>1 DEF LocalOK
  <1>3. s.cmd.keys \in Seq(Keys)
    BY <1>2, KeysOfCommand
  <1>4. k \in Keys
    BY <1>2, <1>3 DEF CurKey
  <1>5. now \in Nat /\ db[k] \in Entry
    BY <1>1, <1>4, BoundsAssumption DEF Inv, TypeOK, LocalOK, Local
  <1>6. r \in Result
    BY <1>1, <1>2, <1>5, HandleType
  <1>7. /\ db' = [db EXCEPT ![k] = r.e]
        /\ cl' = [cl EXCEPT ![c] = AfterCall(s, r)]
        /\ UNCHANGED <<clock, sweep, replica, sent>>
    BY DEF Update
  <1> HIDE DEF r
  <1>8. /\ s.cmd \in Command /\ s.cmd.name \notin {"GET", "FLUSHDB"}
    BY <1>1, <1>2
  <1> QED
    BY <1>1, <1>2, <1>4, <1>5, <1>6, <1>7, <1>8 DEF r

LEMMA NextWF == Inv /\ EntriesWellFormed /\ [Next]_vars => EntriesWellFormed'
  <1> SUFFICES ASSUME Inv, EntriesWellFormed, [Next]_vars
               PROVE  EntriesWellFormed'
    OBVIOUS
  <1> USE DEF EntriesWellFormed
  <1>0. /\ db \in [Keys -> Entry] /\ replica \in [Keys -> Entry]
        /\ sweep.now \in Int
    BY DEF Inv, TypeOK
  <1>1. ASSUME NEW c \in Clients, Update(c) PROVE EntriesWellFormed'
    <2>1. PICK k \in Keys, now \in Nat :
            /\ cl[c].cmd \in Command /\ cl[c].cmd.name \notin {"GET", "FLUSHDB"}
            /\ cl[c].i \in 1 .. Len(cl[c].cmd.keys)
            /\ db[k] \in Entry
            /\ db' = [db EXCEPT ![k] = Handle(cl[c].cmd, cl[c].i, db[k], now).e]
            /\ UNCHANGED replica
      BY <1>1, UpdateStep
    <2>2. WellFormed(Handle(cl[c].cmd, cl[c].i, db[k], now).e)
      BY <2>1, HandleWF
    <2> QED
      BY <1>0, <2>1, <2>2
  <1>2. ASSUME NEW c \in Clients, LazyDelete(c) PROVE EntriesWellFormed'
    <2>1. LocalOK(cl[c])
      BY DEF Inv, LocalsOK
    <2>2. cl[c].now \in Int
      BY <2>1 DEF LocalOK, Local
    <2>3. \A k \in Keys : WellFormed(Reclaim(db[k], cl[c].now))
      BY <1>0, <2>2, NewEntryWF DEF Reclaim
    <2>4. db' = [db EXCEPT ![CurKey(cl[c])] = Reclaim(@, cl[c].now)] /\ UNCHANGED replica
      BY <1>2 DEF LazyDelete
    <2> QED
      BY <1>0, <2>3, <2>4
  <1>3. ASSUME NEW c \in Clients, FlushShard(c) PROVE EntriesWellFormed'
    BY <1>0, <1>3, NewEntryWF DEF FlushShard
  <1>4. ASSUME NEW c \in Clients, LogAppend(c) PROVE EntriesWellFormed'
    <2>1. LocalOK(cl[c]) /\ cl[c].pc = "log"
      BY <1>4 DEF LogAppend, Inv, LocalsOK
    <2>2. cl[c].rec \in Command /\ cl[c].rec.name # "GET"
      BY <2>1 DEF LocalOK
    <2>3. replica' = ReplayStep(replica, cl[c].rec, 0) /\ UNCHANGED db
      BY <1>4 DEF LogAppend
    <2> QED
      BY <1>0, <2>2, <2>3, ReplayStepWF
  <1>5. CASE SweepShard
    BY <1>0, <1>5, NewEntryWF DEF SweepShard, Reclaim
  <1>6. ASSUME NEW c \in Clients, Begin(c) \/ ReadClock(c) \/ GetRead(c)
        PROVE  EntriesWellFormed'
    BY <1>6 DEF Begin, ReadClock, GetRead
  <1>7. CASE SweepStart \/ Tick \/ UNCHANGED vars
    BY <1>7 DEF SweepStart, Tick, vars
  <1> QED
    BY <1>1, <1>2, <1>3, <1>4, <1>5, <1>6, <1>7 DEF Next, ClientStep, Sweeper

(***************************************************************************)
(* No sequence or interleaving of commands leaves an empty hash or list,   *)
(* or an entry with a payload of another kind, in the store or in what the *)
(* log rebuilds (HDel and pop drop the key with its last element).         *)
(***************************************************************************)
THEOREM EntriesStayWellFormed == Spec => []EntriesWellFormed
  <1>1. Init => Inv /\ EntriesWellFormed
    BY InitInv, NewEntryWF DEF Init, EntriesWellFormed
  <1>2. Inv /\ EntriesWellFormed /\ [Next]_vars => (Inv /\ EntriesWellFormed)'
    BY NextInv, NextWF
  <1> QED
    BY <1>1, <1>2, PTL DEF Spec

----------------------------------------------------------------------------
(* Clock readings *)

(***************************************************************************)
(* A reading of the clock is never ahead of the clock: a goroutine works   *)
(* with an instant of the past, so what is live now was live then unless   *)
(* its deadline moved.                                                     *)
(***************************************************************************)
ReadingsPast == (\A c \in Clients : cl[c].now <= clock) /\ sweep.now <= clock

LEMMA NextReadings == Inv /\ ReadingsPast /\ [Next]_vars => ReadingsPast'
  <1> SUFFICES ASSUME Inv, ReadingsPast, [Next]_vars
               PROVE  ReadingsPast'
    OBVIOUS
  <1>0. /\ clock \in Nat /\ cl \in [Clients -> Local] /\ sweep.now \in Nat
        /\ \A c \in Clients : cl[c].now \in Nat /\ LocalOK(cl[c])
    BY BoundsAssumption DEF Inv, TypeOK, LocalsOK, LocalOK, Local
  <1>1. ASSUME NEW c \in Clients, cl'[c].now \in {cl[c].now, 0, clock},
               \A d \in Clients \ {c} : cl'[d] = cl[d], UNCHANGED <<clock, sweep>>
        PROVE  ReadingsPast'
    BY <1>0, <1>1 DEF ReadingsPast
  <1>2. ASSUME NEW c \in Clients, Begin(c) PROVE ReadingsPast'
    <2>1. PICK m \in Repertoire[c] :
            cl' = [cl EXCEPT ![c] = Enter([Idle EXCEPT !.cmd = m], 1)]
      BY <1>2 DEF Begin
    <2>2. Enter([Idle EXCEPT !.cmd = m], 1).now = 0
      BY DEF Enter, Idle
    <2>3. cl'[c].now = 0 /\ \A d \in Clients \ {c} : cl'[d] = cl[d]
      BY <1>0, <2>1, <2>2
    <2> QED
      BY <1>1, <1>2, <2>3 DEF Begin
  <1>3. ASSUME NEW c \in Clients, ReadClock(c) PROVE ReadingsPast'
    <2>1. cl'[c].now = clock /\ \A d \in Clients \ {c} : cl'[d] = cl[d]
      BY <1>0, <1>3 DEF ReadClock, Local
    <2> QED
      BY <1>1, <1>3, <2>1 DEF ReadClock
  <1>4. ASSUME NEW c \in Clients, Update(c) PROVE ReadingsPast'
    <2>1. PICK k \in Keys, now \in Nat :
            LET r == Handle(cl[c].cmd, cl[c].i, db[k], now)
            IN  /\ cl[c].pc = "lock" /\ cl[c].cmd.name \notin {"GET", "FLUSHDB"}
                /\ r \in Result
                /\ cl' = [cl EXCEPT ![c] = AfterCall(cl[c], r)]
                /\ UNCHANGED <<clock, sweep>>
      BY <1>4, UpdateStep
    <2> DEFINE r == Handle(cl[c].cmd, cl[c].i, db[k], now)
    <2> HIDE DEF r
    <2>2. AfterCall(cl[c], r).now \in {cl[c].now, 0}
      BY <1>0, <2>1, AfterCallOK DEF r
    <2>3. cl'[c] = AfterCall(cl[c], r) /\ \A d \in Clients \ {c} : cl'[d] = cl[d]
      BY <1>0, <2>1 DEF r
    <2> QED
      BY <1>1, <2>1, <2>2, <2>3
  <1>5. ASSUME NEW c \in Clients, GetRead(c) \/ LazyDelete(c) PROVE ReadingsPast'
    <2>1. cl[c] \in Local /\ cl[c].cmd \in Command /\ cl[c].cmd.name # "FLUSHDB"
      BY <1>0, <1>5 DEF GetRead, LazyDelete, LocalOK
    <2>2. NextKey(cl[c]).now \in {cl[c].now, 0}
      BY <2>1, NextKeyOK
    <2>3. [cl[c] EXCEPT !.pc = "lazy"].now = cl[c].now
      BY <2>1 DEF Local
    <2>4. /\ cl'[c] \in {NextKey(cl[c]), [cl[c] EXCEPT !.pc = "lazy"]}
          /\ \A d \in Clients \ {c} : cl'[d] = cl[d]
          /\ UNCHANGED <<clock, sweep>>
      BY <1>0, <1>5 DEF GetRead, LazyDelete
    <2> QED
      BY <1>1, <2>2, <2>3, <2>4
  <1>6. ASSUME NEW c \in Clients, FlushShard(c) PROVE ReadingsPast'
    <2>1. /\ cl[c] \in Local /\ cl[c].cmd \in Command
          /\ cl[c].cmd.name = "FLUSHDB"
      BY <1>0, <1>6 DEF FlushShard, LocalOK
    <2>2. Enter(cl[c], cl[c].i + 1).now = cl[c].now
      BY <2>1, EnterOK DEF Local
    <2>3. ThenLog(cl[c], cl[c].cmd).now \in {cl[c].now, 0}
      BY <2>1, ThenLogOK
    <2>4. /\ cl'[c] \in {Enter(cl[c], cl[c].i + 1), ThenLog(cl[c], cl[c].cmd)}
          /\ \A d \in Clients \ {c} : cl'[d] = cl[d]
          /\ UNCHANGED <<clock, sweep>>
      BY <1>0, <1>6 DEF FlushShard
    <2> QED
      BY <1>1, <2>2, <2>3, <2>4
  <1>7. ASSUME NEW c \in Clients, LogAppend(c) PROVE ReadingsPast'
    <2>1. cl[c] \in Local /\ cl[c].cmd \in Command
      BY <1>0, <1>7 DEF LogAppend, LocalOK
    <2>2. /\ cl[c].cmd.name = "MSET" => NextKey(cl[c]).now \in {cl[c].now, 0}
          /\ Idle.now = 0
      BY <2>1, NextKeyOK DEF Idle
    <2>3. /\ cl'[c] = IF cl[c].cmd.name = "MSET" THEN NextKey(cl[c]) ELSE Idle
          /\ \A d \in Clients \ {c} : cl'[d] = cl[d]
          /\ UNCHANGED <<clock, sweep>>
      BY <1>0, <1>7 DEF LogAppend
    <2> QED
      BY <1>1, <2>2, <2>3
  <1>8. CASE SweepStart \/ SweepShard
    BY <1>0, <1>8 DEF SweepStart, SweepShard, SweepIdle, ReadingsPast, Inv, TypeOK
  <1>9. CASE Tick
    BY <1>0, <1>9 DEF Tick, ReadingsPast
  <1>10. CASE UNCHANGED vars
    BY <1>10 DEF vars, ReadingsPast
  <1> QED
    BY <1>2, <1>3, <1>4, <1>5, <1>6, <1>7, <1>8, <1>9, <1>10
    DEF Next, ClientStep, Sweeper

----------------------------------------------------------------------------
(* What background work and NX may not do *)

\* A handler always moves on after its Store call.
LEMMA AfterCallMoves ==
  ASSUME NEW s \in Local, s.pc = "lock", NEW r \in Result
  PROVE  AfterCall(s, r) # s
  <1>1. ASSUME NEW t \in Local, t.i = s.i PROVE NextKey(t) # s
    <2>1. Enter(t, t.i + 1).i = s.i + 1 /\ s.i + 1 # s.i
      BY <1>1 DEF Enter, Local
    <2>2. Idle.pc # s.pc
      BY DEF Idle
    <2> QED
      BY <2>1, <2>2 DEF NextKey
  <1>2. ASSUME NEW t \in Local, NEW rec PROVE ThenLog(t, rec) # s
    <2>1. ThenLog(t, rec).pc \in {"log", "idle"}
      BY DEF ThenLog, Local, Idle
    <2> QED
      BY <2>1
  <1> DEFINE t == [s EXCEPT !.removed = @ + (IF r.ok THEN 1 ELSE 0)]
  <1>3. t \in Local /\ t.i = s.i
    BY DEF Local
  <1> HIDE DEF t
  <1>4. AfterCall(s, r) \in {NextKey(t), ThenLog(t, s.cmd), NextKey(s),
                             ThenLog(s, Logged(s.cmd, s.i, r.e))}
    BY DEF AfterCall, t
  <1> QED
    BY <1>1, <1>2, <1>3, <1>4

\* A deadline that has not passed now had not passed at an earlier reading.
LEMMA LiveEarlier ==
  ASSUME NEW e \in Entry, NEW now \in Int, NEW then \in Int, then <= now,
         Live(e, now)
  PROVE  Live(e, then)
  BY DEF Live, expired, Entry

LEMMA ReclaimStep ==
  Inv /\ ReadingsPast /\ [Next]_vars =>
    \A k \in Keys : Live(db[k], clock) /\ db'[k] # db[k] =>
                      \E c \in Clients : Updates(c, k)
  <1> SUFFICES ASSUME Inv, ReadingsPast, [Next]_vars, NEW k \in Keys,
                      Live(db[k], clock), db'[k] # db[k]
               PROVE  \E c \in Clients : Updates(c, k)
    OBVIOUS
  <1>0. /\ db \in [Keys -> Entry] /\ clock \in Int /\ cl \in [Clients -> Local]
        /\ sweep.now \in Int /\ \A c \in Clients : cl[c].now \in Int /\ LocalOK(cl[c])
    BY BoundsAssumption DEF Inv, TypeOK, LocalsOK, LocalOK, Local
  <1>1. ASSUME NEW now \in Int, now <= clock PROVE Reclaim(db[k], now) = db[k]
    <2>1. Live(db[k], now)
      BY <1>0, <1>1, LiveEarlier
    <2> QED
      BY <2>1 DEF Reclaim, Live
  <1>2. ASSUME NEW c \in Clients, Update(c) PROVE Updates(c, k)
    <2>1. PICK kk \in Keys, now \in Nat :
            LET r == Handle(cl[c].cmd, cl[c].i, db[kk], now)
            IN  /\ cl[c].pc = "lock" /\ kk = CurKey(cl[c])
                /\ cl[c].cmd.name # "GET"
                /\ r \in Result
                /\ db' = [db EXCEPT ![kk] = r.e]
                /\ cl' = [cl EXCEPT ![c] = AfterCall(cl[c], r)]
      BY <1>2, UpdateStep
    <2>2. kk = k
      BY <1>0, <2>1
    <2>3. cl'[c] # cl[c]
      BY <1>0, <2>1, AfterCallMoves
    <2> QED
      BY <2>1, <2>2, <2>3 DEF Updates
  <1>3. ASSUME NEW c \in Clients, LazyDelete(c) PROVE FALSE
    <2>1. Reclaim(db[k], cl[c].now) = db[k]
      BY <1>0, <1>1 DEF ReadingsPast
    <2> QED
      BY <1>0, <1>3, <2>1 DEF LazyDelete
  <1>4. ASSUME NEW c \in Clients, FlushShard(c) PROVE Updates(c, k)
    <2>1. cl[c].pc = "flush" /\ ShardOf[k] = cl[c].i
      BY <1>4 DEF FlushShard
    <2>2. Enter(cl[c], cl[c].i + 1).i # cl[c].i
      BY <1>0 DEF Enter, Local
    <2>3. ThenLog(cl[c], cl[c].cmd).pc # cl[c].pc
      BY <1>0, <2>1 DEF ThenLog, Idle, Local
    <2>4. cl'[c] \in {Enter(cl[c], cl[c].i + 1), ThenLog(cl[c], cl[c].cmd)}
      BY <1>0, <1>4 DEF FlushShard
    <2> QED
      BY <2>1, <2>2, <2>3, <2>4 DEF Updates
  <1>5. CASE SweepShard
    <2>1. Reclaim(db[k], sweep.now) = db[k]
      BY <1>0, <1>1 DEF ReadingsPast
    <2> QED
      BY <1>0, <1>5, <2>1 DEF SweepShard
  <1>6. ASSUME NEW c \in Clients,
               Begin(c) \/ ReadClock(c) \/ GetRead(c) \/ LogAppend(c)
        PROVE  FALSE
    BY <1>6 DEF Begin, ReadClock, GetRead, LogAppend
  <1>7. CASE SweepStart \/ Tick \/ UNCHANGED vars
    BY <1>7 DEF SweepStart, Tick, vars
  <1> QED
    BY <1>2, <1>3, <1>4, <1>5, <1>6, <1>7 DEF Next, ClientStep, Sweeper

LEMMA NXStep ==
  Inv /\ ReadingsPast /\ [Next]_vars =>
    \A k \in Keys, c \in Clients :
      /\ Updates(c, k)
      /\ cl[c].cmd.name = "SET"
      /\ cl[c].cmd.cond = "NX"
      /\ Live(db[k], clock)
      => db'[k] = db[k]
  <1> SUFFICES ASSUME Inv, ReadingsPast, [Next]_vars, NEW k \in Keys, NEW c \in Clients,
                      Updates(c, k), cl[c].cmd.name = "SET", cl[c].cmd.cond = "NX",
                      Live(db[k], clock), db'[k] # db[k]
               PROVE  FALSE
    OBVIOUS
  <1>0. /\ db \in [Keys -> Entry] /\ clock \in Int /\ cl \in [Clients -> Local]
        /\ cl[c].now \in Int /\ LocalOK(cl[c]) /\ cl[c].now <= clock
    BY BoundsAssumption DEF Inv, TypeOK, LocalsOK, LocalOK, Local, ReadingsPast
  <1>1. cl[c].pc = "lock" /\ CurKey(cl[c]) = k /\ cl'[c] # cl[c]
    BY <1>0 DEF Updates, LocalOK
  <1>2. Live(db[k], cl[c].now)
    BY <1>0, LiveEarlier
  <1>3. ASSUME NEW d \in Clients, Update(d) PROVE FALSE
    <2>1. PICK kk \in Keys, now \in Nat :
            LET r == Handle(cl[d].cmd, cl[d].i, db[kk], now)
            IN  /\ kk = CurKey(cl[d])
                /\ now = IF ReadsClockUnderLock(cl[d].cmd) THEN clock ELSE cl[d].now
                /\ db' = [db EXCEPT ![kk] = r.e]
                /\ cl' = [cl EXCEPT ![d] = AfterCall(cl[d], r)]
      BY <1>3, UpdateStep
    <2>2. d = c
      BY <1>0, <1>1, <2>1
    <2>3. now = cl[c].now
      BY <2>1, <2>2 DEF ReadsClockUnderLock
    <2>4. Handle(cl[c].cmd, cl[c].i, db[k], now) = Refused(db[k])
      BY <1>2, <2>3 DEF Handle, SetNX
    <2> QED
      BY <1>0, <1>1, <2>1, <2>2, <2>4 DEF Refused
  <1>4. ASSUME NEW d \in Clients, LazyDelete(d) \/ FlushShard(d) PROVE FALSE
    <2>1. d # c
      BY <1>1, <1>4 DEF LazyDelete, FlushShard
    <2> QED
      BY <1>0, <1>1, <1>4, <2>1 DEF LazyDelete, FlushShard
  <1>5. ASSUME NEW d \in Clients,
               Begin(d) \/ ReadClock(d) \/ GetRead(d) \/ LogAppend(d)
        PROVE  FALSE
    BY <1>5 DEF Begin, ReadClock, GetRead, LogAppend
  <1>6. CASE Sweeper \/ Tick \/ UNCHANGED vars
    BY <1>1, <1>6 DEF Sweeper, SweepStart, SweepShard, Tick, vars
  <1> QED
    BY <1>3, <1>4, <1>5, <1>6 DEF Next, ClientStep

LEMMA Readings == Spec => [](Inv /\ ReadingsPast)
  <1>1. Init => Inv /\ ReadingsPast
    BY InitInv DEF Init, ReadingsPast, Idle, SweepIdle
  <1>2. Inv /\ ReadingsPast /\ [Next]_vars => (Inv /\ ReadingsPast)'
    BY NextInv, NextReadings
  <1> QED
    BY <1>1, <1>2, PTL DEF Spec

(***************************************************************************)
(* The sweeper and lazyDelete never touch a key that is live when they     *)
(* run, although they decide with a clock reading taken earlier: readings  *)
(* are never ahead of the clock, and each takes a fresh look at the entry  *)
(* under the lock.                                                         *)
(***************************************************************************)
THEOREM ReclaimIsSafe == Spec => ReclaimSparesLive
  BY Readings, ReclaimStep, PTL DEF ReclaimSparesLive, Spec

(***************************************************************************)
(* SET NX never overwrites a key that is live when it writes.              *)
(***************************************************************************)
THEOREM NXIsSafe == Spec => NXSparesLive
  BY Readings, NXStep, PTL DEF NXSparesLive, Spec
----------------------------------------------------------------------------
(* What a step may do to an entry *)

(***************************************************************************)
(* An entry changes only when a client's Store call changes it or when it  *)
(* is removed: by FLUSHDB, or because it had expired at some reading.      *)
(***************************************************************************)
LEMMA EntryStep ==
  ASSUME Inv, ReadingsPast, [Next]_vars, NEW k \in Keys, db'[k] # db[k]
  PROVE  \/ \E c \in Clients, now \in Nat :
              /\ Updates(c, k) /\ cl[c].pc = "lock"
              /\ cl[c].cmd \in Command /\ cl[c].cmd.name \notin {"GET", "FLUSHDB"}
              /\ now = IF ReadsClockUnderLock(cl[c].cmd) THEN clock ELSE cl[c].now
              /\ now <= clock
              /\ db'[k] = Handle(cl[c].cmd, cl[c].i, db[k], now).e
              /\ \A d \in Clients \ {c} : cl'[d] = cl[d]
         \/ /\ db'[k] = NoEntry
            /\ \A c \in Clients : cl'[c] # cl[c] => cl[c].pc \in {"lazy", "flush"}
  <1>0. /\ db \in [Keys -> Entry] /\ clock \in Nat /\ cl \in [Clients -> Local]
        /\ \A c \in Clients : cl[c].now \in Nat /\ cl[c].now <= clock
    BY BoundsAssumption DEF Inv, TypeOK, LocalsOK, LocalOK, Local, ReadingsPast
  <1> DEFINE Removed ==
        /\ db'[k] = NoEntry
        /\ \A c \in Clients : cl'[c] # cl[c] => cl[c].pc \in {"lazy", "flush"}
  <1>1. ASSUME NEW c \in Clients, Update(c)
        PROVE  \E now \in Nat :
                  /\ Updates(c, k) /\ cl[c].pc = "lock"
                  /\ cl[c].cmd \in Command /\ cl[c].cmd.name \notin {"GET", "FLUSHDB"}
                  /\ now = IF ReadsClockUnderLock(cl[c].cmd) THEN clock ELSE cl[c].now
                  /\ now <= clock
                  /\ db'[k] = Handle(cl[c].cmd, cl[c].i, db[k], now).e
                  /\ \A d \in Clients \ {c} : cl'[d] = cl[d]
    <2>1. PICK kk \in Keys, now \in Nat :
            LET r == Handle(cl[c].cmd, cl[c].i, db[kk], now)
            IN  /\ cl[c].pc = "lock" /\ kk = CurKey(cl[c])
                /\ cl[c].cmd \in Command /\ cl[c].cmd.name \notin {"GET", "FLUSHDB"}
                /\ now = IF ReadsClockUnderLock(cl[c].cmd) THEN clock ELSE cl[c].now
                /\ r \in Result
                /\ db' = [db EXCEPT ![kk] = r.e]
                /\ cl' = [cl EXCEPT ![c] = AfterCall(cl[c], r)]
      BY <1>1, UpdateStep
    <2> DEFINE r == Handle(cl[c].cmd, cl[c].i, db[kk], now)
    <2>2. kk = k
      BY <1>0, <2>1
    <2>3. cl[c] \in Local /\ r \in Result /\ cl' = [cl EXCEPT ![c] = AfterCall(cl[c], r)]
      BY <1>0, <2>1
    <2>4. db'[k] = r.e
      BY <1>0, <2>1, <2>2
    <2> HIDE DEF r
    <2>5. cl'[c] # cl[c] /\ \A d \in Clients \ {c} : cl'[d] = cl[d]
      BY <1>0, <2>1, <2>3, AfterCallMoves
    <2>6. Updates(c, k)
      BY <2>1, <2>2, <2>5 DEF Updates
    <2>7. now <= clock
      BY <1>0, <2>1
    <2> QED
      BY <2>1, <2>2, <2>4, <2>5, <2>6, <2>7 DEF r
  <1>2. ASSUME NEW c \in Clients, LazyDelete(c) \/ FlushShard(c) PROVE Removed
    <2>1. cl[c].pc \in {"lazy", "flush"} /\ \A d \in Clients \ {c} : cl'[d] = cl[d]
      BY <1>0, <1>2 DEF LazyDelete, FlushShard
    <2>2. db'[k] = NoEntry
      BY <1>0, <1>2 DEF LazyDelete, FlushShard, Reclaim
    <2> QED
      BY <2>1, <2>2
  <1>3. ASSUME SweepShard PROVE Removed
    BY <1>0, <1>3 DEF SweepShard, Reclaim
  <1>4. ASSUME NEW c \in Clients,
               Begin(c) \/ ReadClock(c) \/ GetRead(c) \/ LogAppend(c)
        PROVE  FALSE
    BY <1>4 DEF Begin, ReadClock, GetRead, LogAppend
  <1>5. ASSUME SweepStart \/ Tick \/ UNCHANGED vars PROVE FALSE
    BY <1>5 DEF SweepStart, Tick, vars
  <1> HIDE DEF Removed
  <1>6. Removed \/ \E c \in Clients : Update(c)
    BY <1>2, <1>3, <1>4, <1>5 DEF Next, ClientStep, Sweeper
  <1> QED
    BY <1>1, <1>6 DEF Removed

LEMMA DeadlineStep ==
  Inv /\ ReadingsPast /\ [Next]_vars =>
    \A k \in Keys :
      /\ Live(db[k], clock)
      /\ db'[k].kind # "none"
      /\ db'[k].expiresAt # db[k].expiresAt
      => \E c \in Clients : Updates(c, k) /\ ReplacesDeadline(cl[c].cmd)
  <1> SUFFICES ASSUME Inv, ReadingsPast, [Next]_vars, NEW k \in Keys,
                      Live(db[k], clock), db'[k].kind # "none",
                      db'[k].expiresAt # db[k].expiresAt
               PROVE  \E c \in Clients : Updates(c, k) /\ ReplacesDeadline(cl[c].cmd)
    OBVIOUS
  <1>0. db[k] \in Entry /\ clock \in Int /\ NoEntry.kind = "none"
    BY BoundsAssumption DEF Inv, TypeOK, NoEntry
  <1>1. PICK c \in Clients, now \in Nat :
          /\ Updates(c, k)
          /\ cl[c].cmd \in Command /\ cl[c].cmd.name \notin {"GET", "FLUSHDB"}
          /\ now <= clock
          /\ db'[k] = Handle(cl[c].cmd, cl[c].i, db[k], now).e
    BY <1>0, EntryStep
  <1>2. Live(db[k], now)
    BY <1>0, <1>1, LiveEarlier
  <1>3. ReplacesDeadline(cl[c].cmd)
    BY <1>0, <1>1, <1>2, HandleKeepsDeadline DEF ReplacesDeadline, SameDeadline
  <1> QED
    BY <1>1, <1>3

LEMMA DeadStep ==
  Inv /\ ReadingsPast /\ [Next]_vars =>
    \A k \in Keys :
      expired(db[k], clock) /\ Live(db'[k], clock) =>
        \E c \in Clients :
          /\ Updates(c, k)
          /\ \/ NeedsLive(cl[c].cmd)
             \/ StartsAfresh(cl[c].cmd, cl[c].i, db'[k])
  <1> SUFFICES ASSUME Inv, ReadingsPast, [Next]_vars, NEW k \in Keys,
                      expired(db[k], clock), Live(db'[k], clock)
               PROVE  \E c \in Clients :
                        /\ Updates(c, k)
                        /\ \/ NeedsLive(cl[c].cmd)
                           \/ StartsAfresh(cl[c].cmd, cl[c].i, db'[k])
    OBVIOUS
  <1>0. db[k] \in Entry /\ db'[k] # db[k] /\ db'[k] # NoEntry
    BY DEF Inv, TypeOK, NoEntry, Live
  <1>1. PICK c \in Clients, now \in Nat :
          /\ Updates(c, k)
          /\ cl[c].cmd \in Command /\ cl[c].cmd.name \notin {"GET", "FLUSHDB"}
          /\ db'[k] = Handle(cl[c].cmd, cl[c].i, db[k], now).e
    BY <1>0, EntryStep
  <1> DEFINE m == cl[c].cmd
             i == cl[c].i
  <1>2. SamePayload(db'[k], Handle(m, i, NoEntry, clock).e)
           => StartsAfresh(m, i, db'[k])
    BY DEF SamePayload, StartsAfresh
  <1>3. CASE ~Live(db[k], now)
    BY <1>0, <1>1, <1>2, <1>3, HandleDeadIsAbsent
  <1>4. CASE Live(db[k], now)
    \* The reading is old: the entry has expired since.
    <2>1. m.name \in {"SET", "MSET", "GETSET", "EXPIRE", "PERSIST"}
      <3>1. ASSUME SameDeadline(db'[k], db[k]) PROVE FALSE
        BY <3>1 DEF SameDeadline, Live, expired
      <3> QED
        BY <1>0, <1>1, <1>4, <3>1, HandleKeepsDeadline
    <2>2. \/ m.name = "SET" /\ m.cond = "always"
          \/ m.name = "SET" /\ m.cond = "NX"
          \/ m.name \in {"MSET", "GETSET"}
          \/ NeedsLive(m)
      BY <1>1, <2>1 DEF NeedsLive, Command, SetCommand, MSetCommand, StringCommand,
         KeyCommand, HashCommand, ListCommand, FlushCommand
    <2>3. CASE m.name = "SET" /\ m.cond = "always"
      <3>1. /\ db'[k] = StringEntry(m.val, m.ttl, now)
            /\ Handle(m, i, NoEntry, clock).e = StringEntry(m.val, m.ttl, clock)
        BY <1>1, <2>3 DEF Handle, Set, Done
      <3> QED
        BY <1>1, <1>2, <3>1, StringEntryAlike
    <2>4. CASE m.name = "SET" /\ m.cond = "NX"
      <3>1. db'[k] = db[k]
        BY <1>1, <1>4, <2>4 DEF Handle, SetNX, Refused
      <3> QED
        BY <1>0, <3>1
    <2>5. CASE m.name \in {"MSET", "GETSET"}
      <3> DEFINE v == IF m.name = "MSET" THEN m.vals[i] ELSE m.val
      <3>1. /\ db'[k] = StringEntry(v, 0, now) \/ db'[k] = db[k]
            /\ Handle(m, i, NoEntry, clock).e = StringEntry(v, 0, clock)
        BY <1>1, <2>5 DEF Handle, Set, GetSet, Done, Refused, WrongType, Live, NoEntry
      <3> QED
        BY <1>0, <1>1, <1>2, <3>1, StringEntryAlike
    <2> QED
      BY <1>1, <2>2, <2>3, <2>4, <2>5
  <1> QED
    BY <1>3, <1>4

LEMMA CounterStep ==
  Inv /\ ReadingsPast /\ [Next]_vars =>
    \A k \in Keys, c \in Clients :
      LET m == cl[c].cmd
          sum == Counter(db[k], cl[c].now) + Amount(m)
      IN  /\ Updates(c, k)
          /\ m.name \in {"INCRBY", "DECRBY"}
          /\ m.name = "DECRBY" => m.delta # MinInt
          /\ db'[k] # db[k]
          => sum \in MinInt .. MaxInt /\ db'[k].str = <<sum>>
  <1> SUFFICES ASSUME Inv, ReadingsPast, [Next]_vars, NEW k \in Keys, NEW c \in Clients,
                      Updates(c, k), cl[c].cmd.name \in {"INCRBY", "DECRBY"},
                      cl[c].cmd.name = "DECRBY" => cl[c].cmd.delta # MinInt,
                      db'[k] # db[k]
               PROVE  LET sum == Counter(db[k], cl[c].now) + Amount(cl[c].cmd)
                      IN  sum \in MinInt .. MaxInt /\ db'[k].str = <<sum>>
    OBVIOUS
  <1> DEFINE m == cl[c].cmd
  <1>1. LocalOK(cl[c]) /\ cl'[c] # cl[c] /\ db[k] \in Entry
    BY DEF Updates, Inv, LocalsOK, TypeOK
  <1>2. cl[c].pc = "lock"
    BY <1>1 DEF Updates, LocalOK
  <1>3. m \in Command
    BY <1>1, <1>2 DEF LocalOK
  <1>4. PICK d \in Clients, now \in Nat :
          /\ now = IF ReadsClockUnderLock(cl[d].cmd) THEN clock ELSE cl[d].now
          /\ db'[k] = Handle(cl[d].cmd, cl[d].i, db[k], now).e
          /\ \A x \in Clients \ {d} : cl'[x] = cl[x]
    BY <1>1, <1>2, EntryStep
  <1>5. d = c /\ now = cl[c].now
    BY <1>1, <1>4 DEF ReadsClockUnderLock
  <1>6. m.delta \in MinInt .. MaxInt
    BY <1>3 DEF Command, SetCommand, MSetCommand, StringCommand, KeyCommand, HashCommand,
                ListCommand, FlushCommand
  <1>7. Amount(m) \in MinInt .. MaxInt
    BY <1>6, MaxIntAssumption DEF Amount, MinInt
  <1>8. m.name = "DECRBY" => Negate(m.delta) = Amount(m)
    BY DEF Negate, Amount
  <1>9. m.name = "INCRBY" => m.delta = Amount(m)
    BY DEF Amount
  <1>10. db'[k] = IncrBy(db[k], Amount(m), cl[c].now).e
    BY <1>4, <1>5, <1>8, <1>9 DEF Handle
  <1> QED
    BY <1>1, <1>7, <1>10, IncrByExact

(***************************************************************************)
(* APPEND, the counters and the hash and list commands never move the      *)
(* deadline of a key that is live when they write.                         *)
(***************************************************************************)
THEOREM DeadlinesKept == Spec => UpdatesKeepDeadline
  BY Readings, DeadlineStep, PTL DEF UpdatesKeepDeadline, Spec

(***************************************************************************)
(* What an expired key held never shows again, however old the clock       *)
(* reading of the command that writes next.                                *)
(***************************************************************************)
THEOREM ExpiredStaysDead == Spec => ExpiredContentsStayDead
  BY Readings, DeadStep, PTL DEF ExpiredContentsStayDead, Spec

(***************************************************************************)
(* INCRBY and DECRBY store the exact sum or nothing, for any MaxInt.       *)
(***************************************************************************)
THEOREM CountersExact == Spec => CountersNeverWrap
  BY Readings, CounterStep, PTL DEF CountersNeverWrap, Spec

----------------------------------------------------------------------------
(***************************************************************************)
(* The log follows the store where clients keep to keys of their own and   *)
(* nothing expires.                                                        *)
(***************************************************************************)

(* Entries without a deadline *)

\* An entry without a deadline is live as long as it exists, at any instant.
LEMMA LiveForever ==
  ASSUME NEW e, e.expiresAt = Never
  PROVE  \A now : Live(e, now) <=> e.kind # "none"
  BY DEF Live, expired, Never

LEMMA PermanentString ==
  /\ \A v, now : StringEntry(v, 0, now) = StringEntry(v, 0, 0)
  /\ \A v, now : StringEntry(v, 0, now).expiresAt = Never
  /\ \A v, now : StringEntry(v, 0, now).str = v
  /\ NoEntry.expiresAt = Never /\ NoEntry.kind = "none"
  BY DEF StringEntry, NewEntry, NoEntry, Never

\* Without deadlines the outcome of a call does not depend on when it is made.
LEMMA TimelessOps ==
  ASSUME NEW e \in Entry, e.expiresAt = Never, NEW now
  PROVE  /\ \A v : SetNX(e, v, 0, now) = SetNX(e, v, 0, 0)
         /\ \A v : SetXX(e, v, 0, now) = SetXX(e, v, 0, 0)
         /\ \A v : StrAppend(e, v, now) = StrAppend(e, v, 0)
         /\ Persist(e, now) = Refused(e)
         /\ \A h : HSet(e, h, now) = HSet(e, h, 0)
         /\ \A fs : HDel(e, fs, now) = HDel(e, fs, 0)
         /\ \A vs : LPush(e, vs, now) = LPush(e, vs, 0)
         /\ \A vs : RPush(e, vs, now) = RPush(e, vs, 0)
         /\ LPop(e, now) = LPop(e, 0)
         /\ RPop(e, now) = RPop(e, 0)
  <1>1. Live(e, now) <=> Live(e, 0)
    BY LiveForever
  <1>2. \A kind : /\ LiveOr(e, kind, now) = LiveOr(e, kind, 0)
                  /\ WrongType(e, kind, now) <=> WrongType(e, kind, 0)
    BY <1>1 DEF LiveOr, WrongType
  <1>3. \A v : /\ SetNX(e, v, 0, now) = SetNX(e, v, 0, 0)
               /\ SetXX(e, v, 0, now) = SetXX(e, v, 0, 0)
    BY <1>1, PermanentString DEF SetNX, SetXX
  <1>4. \A v : StrAppend(e, v, now) = StrAppend(e, v, 0)
    BY <1>2 DEF StrAppend
  <1>5. Persist(e, now) = Refused(e)
    BY DEF Persist
  <1>6. \A h : HSet(e, h, now) = HSet(e, h, 0)
    BY <1>2 DEF HSet
  <1>7. \A fs : HDel(e, fs, now) = HDel(e, fs, 0)
    BY <1>1 DEF HDel
  <1>8. \A vs : LPush(e, vs, now) = LPush(e, vs, 0) /\ RPush(e, vs, now) = RPush(e, vs, 0)
    BY <1>2 DEF LPush, RPush
  <1>9. \A rest : Pop(e, rest, now) = Pop(e, rest, 0)
    BY <1>1 DEF Pop
  <1>10. LPop(e, now) = LPop(e, 0) /\ RPop(e, now) = RPop(e, 0)
    BY <1>9 DEF LPop, RPop
  <1> QED
    BY <1>3, <1>4, <1>5, <1>6, <1>7, <1>8, <1>10

\* A call on an entry without a deadline sets none, and one that is not logged
\* leaves the entry as it is.
Quietly(e, r) == r.e.expiresAt = Never /\ (~r.ok => r.e = e)

LEMMA QuietOps ==
  ASSUME NEW e \in Entry, WellFormed(e), e.expiresAt = Never, NEW now
  PROVE  /\ \A v : Quietly(e, Set(e, v, 0, now))
         /\ \A v : Quietly(e, SetNX(e, v, 0, now))
         /\ \A v : Quietly(e, SetXX(e, v, 0, now))
         /\ \A v : Quietly(e, GetSet(e, v, now))
         /\ \A v : Quietly(e, StrAppend(e, v, now))
         /\ \A d : Quietly(e, IncrBy(e, d, now))
         /\ Quietly(e, Persist(e, now))
         /\ \A h : Quietly(e, HSet(e, h, now))
         /\ \A fs : Quietly(e, HDel(e, fs, now))
         /\ \A vs : Quietly(e, LPush(e, vs, now))
         /\ \A vs : Quietly(e, RPush(e, vs, now))
         /\ Quietly(e, LPop(e, now))
         /\ Quietly(e, RPop(e, now))
  <1>1. Quietly(e, Refused(e))
    BY DEF Quietly, Refused
  <1>2. \A x : x.expiresAt = Never => Quietly(e, Done(x))
    BY DEF Quietly, Done
  <1>3. \A kind \in Kinds : /\ LiveOr(e, kind, now) \in Entry
                            /\ LiveOr(e, kind, now).expiresAt = Never
    BY NewEntryType DEF LiveOr, NewEntry, NoEntry
  <1>4. \A x \in Entry : \A v : x.expiresAt = Never =>
          /\ [x EXCEPT !.str = v].expiresAt = Never
          /\ [x EXCEPT !.hash = v].expiresAt = Never
          /\ [x EXCEPT !.list = v].expiresAt = Never
    BY DEF Entry
  <1>5. \A v : /\ Quietly(e, Set(e, v, 0, now))
               /\ Quietly(e, SetNX(e, v, 0, now))
               /\ Quietly(e, SetXX(e, v, 0, now))
               /\ Quietly(e, GetSet(e, v, now))
    BY <1>1, <1>2, PermanentString DEF Set, SetNX, SetXX, GetSet
  <1>6. \A v : Quietly(e, StrAppend(e, v, now))
    BY <1>1, <1>2, <1>3, <1>4 DEF StrAppend, Kinds
  <1>7. \A d : Quietly(e, IncrBy(e, d, now))
    BY <1>1, <1>2, <1>3, <1>4 DEF IncrBy, Kinds
  <1>8. Quietly(e, Persist(e, now))
    BY <1>1 DEF Persist
  <1>9. \A h : Quietly(e, HSet(e, h, now))
    BY <1>1, <1>2, <1>3, <1>4 DEF HSet, Kinds
  <1>10. ASSUME NEW fs PROVE Quietly(e, HDel(e, fs, now))
    <2> DEFINE rest == [f \in Fields |-> IF f \in fs THEN {} ELSE e.hash[f]]
               changed == rest # e.hash
    <2>1. CASE e.kind # "hash" \/ ~Live(e, now)
      BY <1>1, <2>1 DEF HDel
    <2>2. CASE ~(e.kind # "hash" \/ ~Live(e, now))
      <3>1. HDel(e, fs, now) =
              [e |-> IF rest = EmptyHash THEN NoEntry ELSE [e EXCEPT !.hash = rest],
               ok |-> changed]
        BY <2>2 DEF HDel
      <3>2. rest = e.hash => rest # EmptyHash /\ [e EXCEPT !.hash = rest] = e
        BY <2>2 DEF WellFormed, Entry
      <3>0. rest # e.hash => changed
        OBVIOUS
      <3> HIDE DEF rest, changed
      <3>3. [e EXCEPT !.hash = rest].expiresAt = Never /\ NoEntry.expiresAt = Never
        BY <1>4, PermanentString
      <3>4. HDel(e, fs, now).e =
              IF rest = EmptyHash THEN NoEntry ELSE [e EXCEPT !.hash = rest]
        BY <3>1
      <3>5. HDel(e, fs, now).e.expiresAt = Never
        BY <3>3, <3>4
      <3>6. CASE rest = e.hash
        BY <3>2, <3>4, <3>5, <3>6 DEF Quietly
      <3>7. CASE rest # e.hash
        <4>1. HDel(e, fs, now).ok = changed
          BY <3>1
        <4>2. HDel(e, fs, now).ok
          BY <3>0, <3>7, <4>1
        <4> QED
          BY <3>5, <4>2 DEF Quietly
      <3> QED
        BY <3>6, <3>7
    <2> QED
      BY <2>1, <2>2
  <1>11. \A vs : Quietly(e, LPush(e, vs, now)) /\ Quietly(e, RPush(e, vs, now))
    BY <1>1, <1>2, <1>3, <1>4 DEF LPush, RPush, Kinds
  <1>12. \A rest : Quietly(e, Pop(e, rest, now))
    BY <1>1, <1>2, <1>4, PermanentString DEF Pop
  <1> QED
    BY <1>5, <1>6, <1>7, <1>8, <1>9, <1>10, <1>11, <1>12 DEF LPop, RPop

\* Counting in a string without a deadline is the same as setting it.
LEMMA CounterIsSet ==
  ASSUME NEW e \in Entry, WellFormed(e), e.expiresAt = Never, NEW now, NEW d,
         IncrBy(e, d, now).ok
  PROVE  IncrBy(e, d, now).e = StringEntry(IncrBy(e, d, now).e.str, 0, 0)
  <1> DEFINE l == LiveOr(e, "string", now)
             v == <<Counter(e, now) + d>>
  <1>1. ~WrongType(e, "string", now) /\ IncrBy(e, d, now).e = [l EXCEPT !.str = v]
    BY DEF IncrBy, Done, Refused
  <1> HIDE DEF v
  <1>2. l \in Entry /\ l.kind = "string" /\ l.hash = EmptyHash /\ l.list = <<>>
        /\ l.expiresAt = Never
    BY <1>1, NewEntryType
    DEF LiveOr, WrongType, WellFormed, NewEntry, NoEntry, Kinds
  <1> HIDE DEF l
  <1>3. [l EXCEPT !.str = v] = StringEntry(v, 0, 0)
    <2> DEFINE x == [kind |-> "string", str |-> v, hash |-> EmptyHash,
                     list |-> <<>>, expiresAt |-> Never]
    <2>0. NewEntry("string") = [x EXCEPT !.str = <<>>]
      BY DEF NewEntry, NoEntry
    <2> DEFINE deadline == IF 0 > 0 THEN {0 + 0} ELSE Never
    <2>d. deadline = Never
      OBVIOUS
    <2> HIDE DEF deadline
    <2>e. StringEntry(v, 0, 0) =
            [NewEntry("string") EXCEPT !.str = v, !.expiresAt = deadline]
      BY DEF StringEntry, deadline
    <2>1. StringEntry(v, 0, 0) = x
      BY <2>0, <2>d, <2>e
    <2>2. [l EXCEPT !.str = v] = x
      BY <1>2 DEF Entry
    <2> QED
      BY <2>1, <2>2
  <1>4. [l EXCEPT !.str = v].str = v
    BY <1>2 DEF Entry
  <1> QED
    BY <1>1, <1>3, <1>4

LEMMA SetOfKeys ==
  \A k, v : ToSet(SetOf(k, v).keys) = {k} /\ SetOf(k, v).name = "SET"
  BY DEF SetOf, ToSet

(***************************************************************************)
(* Replaying what a handler logs has on the same entry the effect that the *)
(* handler's own call had, whatever the instant of either.                 *)
(***************************************************************************)
LEMMA LoggedReplays ==
  ASSUME NEW m \in Command, NoDeadline(m), m.name \notin {"GET", "DEL"},
         NEW i \in 1 .. Len(m.keys), NEW e \in Entry, WellFormed(e),
         e.expiresAt = Never, NEW now \in Nat
  PROVE  LET r == Handle(m, i, e, now)
             g == Logged(m, i, r.e)
         IN  /\ Quietly(e, r)
             /\ r.ok => Handle(g, 1, e, 0).e = r.e
             /\ ToSet(g.keys) = {m.keys[i]}
             /\ g.name # "FLUSHDB"
  <1> DEFINE r == Handle(m, i, e, now)
             g == Logged(m, i, r.e)
  <1>1. ASSUME NEW k, NEW v
        PROVE  Handle(SetOf(k, v), 1, e, 0) = Set(e, v, 0, 0)
    BY DEF SetOf, Handle
  <1>2. m.name # "MSET" => i = 1 /\ ToSet(m.keys) = {m.keys[i]}
    <2> SUFFICES ASSUME m.name # "MSET" PROVE i = 1 /\ ToSet(m.keys) = {m.keys[i]}
      OBVIOUS
    <2>1. m.keys \in Seq(Keys) /\ Len(m.keys) = 1
      BY KeysOfCommand DEF NoDeadline
    <2> QED
      BY <2>1 DEF ToSet
  <1>3. CASE m.name = "MSET"
    <2>1. r = Set(e, m.vals[i], 0, now) /\ g = SetOf(m.keys[i], r.e.str)
      BY <1>3 DEF Handle, Logged
    <2>2. r.e = StringEntry(m.vals[i], 0, 0) /\ r.e.str = m.vals[i]
      BY <2>1, PermanentString DEF Set, Done
    <2>3. Handle(g, 1, e, 0).e = r.e
      BY <1>1, <2>1, <2>2 DEF Set, Done
    <2>4. Quietly(e, r)
      BY <2>1, QuietOps
    <2>5. ToSet(g.keys) = {m.keys[i]} /\ g.name # "FLUSHDB"
      BY <2>1, SetOfKeys
    <2> QED
      BY <2>3, <2>4, <2>5
  <1>4. CASE m.name = "GETSET"
    <2>1. r = GetSet(e, m.val, now) /\ g = SetOf(m.keys[i], r.e.str)
      BY <1>4 DEF Handle, Logged
    <2>2. r.ok => r.e = StringEntry(m.val, 0, 0) /\ r.e.str = m.val
      BY <2>1, PermanentString DEF GetSet, Done, Refused
    <2>3. r.ok => Handle(g, 1, e, 0).e = r.e
      BY <1>1, <2>1, <2>2 DEF Set, Done
    <2>4. Quietly(e, r)
      BY <2>1, QuietOps
    <2>5. ToSet(g.keys) = {m.keys[i]} /\ g.name # "FLUSHDB"
      BY <2>1, SetOfKeys
    <2> QED
      BY <2>3, <2>4, <2>5
  <1>5. CASE m.name \in {"INCRBY", "DECRBY"}
    <2>1. PICK d : r = IncrBy(e, d, now)
      BY <1>5 DEF Handle
    <2>2. g = SetOf(m.keys[i], r.e.str)
      BY <1>5 DEF Logged
    <2>3. r.ok => r.e = StringEntry(r.e.str, 0, 0)
      BY <2>1, CounterIsSet
    <2>4. r.ok => Handle(g, 1, e, 0).e = r.e
      BY <1>1, <2>2, <2>3 DEF Set, Done
    <2>5. Quietly(e, r)
      BY <2>1, QuietOps
    <2>6. ToSet(g.keys) = {m.keys[i]} /\ g.name # "FLUSHDB"
      BY <2>2, SetOfKeys
    <2> QED
      BY <2>4, <2>5, <2>6
  <1>6. CASE m.name \notin {"MSET", "GETSET", "INCRBY", "DECRBY"}
    <2>1. g = m /\ i = 1 /\ m.name # "FLUSHDB"
      BY <1>2, <1>6 DEF Logged, NoDeadline
    <2>2. m.name \in {"SET", "APPEND", "PERSIST", "HSET", "HDEL", "LPUSH", "RPUSH",
                      "LPOP", "RPOP"}
      BY <1>6 DEF NoDeadline, Command, SetCommand, MSetCommand, StringCommand,
                  KeyCommand, HashCommand, ListCommand, FlushCommand
    <2>3. CASE m.name = "SET"
      <3>1. m.ttl = 0 /\ m.cond \in {"always", "NX", "XX"}
        BY <2>3 DEF NoDeadline, Command, SetCommand, MSetCommand, StringCommand,
                    KeyCommand, HashCommand, ListCommand, FlushCommand
      <3>2. Set(e, m.val, 0, now) = Set(e, m.val, 0, 0)
        BY PermanentString DEF Set
      <3>3. Handle(m, 1, e, 0) = r
        BY <2>1, <2>3, <3>1, <3>2, TimelessOps DEF Handle
      <3>4. Quietly(e, r)
        BY <2>3, <3>1, QuietOps DEF Handle
      <3> QED
        BY <1>2, <1>6, <2>1, <3>3, <3>4
    <2>4. CASE m.name # "SET"
      <3>1. Handle(m, 1, e, 0) = r
        BY <2>1, <2>2, <2>4, TimelessOps DEF Handle
      <3>2. Quietly(e, r)
        BY <2>2, <2>4, QuietOps DEF Handle
      <3> QED
        BY <1>2, <1>6, <2>1, <3>1, <3>2
    <2> QED
      BY <2>3, <2>4
  <1> QED
    BY <1>3, <1>4, <1>5, <1>6

----------------------------------------------------------------------------
(* The invariant *)

\* A DEL under way has dealt with k.
Erased(s, k) == s.cmd.name = "DEL" /\ \E j \in 1 .. s.i - 1 : s.cmd.keys[j] = k

(***************************************************************************)
(* How the entry x of key k and its replica y are related while the client *)
(* with locals s works on k: they are equal, but that a DEL has erased the *)
(* entry of a key before it is logged, and that a client about to log has  *)
(* a record that makes them equal.                                         *)
(***************************************************************************)
Agree(s, k, x, y) ==
  /\ s.pc = "idle" => y = x
  /\ s.pc \in {"clock", "lock", "lazy"} =>
       IF Erased(s, k) THEN x = NoEntry /\ (s.removed = 0 => y = NoEntry) ELSE y = x
  /\ s.pc = "log" =>
       (IF k \in ToSet(s.rec.keys) THEN Handle(s.rec, 1, y, 0).e ELSE y) = x

\* A client executes commands of its repertoire and logs what they touch.
OwnOK(c, s) ==
  /\ s.pc # "idle" => s.cmd \in Repertoire[c]
  /\ s.pc = "log" => ToSet(s.rec.keys) \subseteq ToSet(s.cmd.keys) /\ s.rec.name # "FLUSHDB"

Follows ==
  /\ \A k \in Keys : db[k].expiresAt = Never /\ replica[k].expiresAt = Never
  /\ \A c \in Clients : OwnOK(c, cl[c])
  /\ \A c \in Clients, k \in Keys : Busy(c, k) => Agree(cl[c], k, db[k], replica[k])
  /\ LogFollowsStore

LogInv == Inv /\ EntriesWellFormed /\ Follows

(***************************************************************************)
(* A step of client c executing m, to locals t, concerns the keys of m and *)
(* nobody else's: it is enough to look at those.                           *)
(***************************************************************************)
LEMMA OwnStep ==
  ASSUME Private, LogInv, NEW c \in Clients, NEW m \in Repertoire[c],
         cl[c].pc # "idle" => cl[c].cmd = m,
         NEW t, cl' = [cl EXCEPT ![c] = t], OwnOK(c, t), t.pc # "idle" => t.cmd = m,
         \A k \in Keys \ ToSet(m.keys) : db'[k] = db[k] /\ replica'[k] = replica[k],
         \A k \in Keys \cap ToSet(m.keys) :
            /\ Agree(t, k, db'[k], replica'[k])
            /\ db'[k].expiresAt = Never /\ replica'[k].expiresAt = Never
  PROVE  Follows'
  <1>1. cl'[c] = t /\ \A d \in Clients \ {c} : cl'[d] = cl[d]
    BY DEF LogInv, Inv, TypeOK
  <1>2. \A k \in Keys : db'[k].expiresAt = Never /\ replica'[k].expiresAt = Never
    BY DEF LogInv, Follows
  <1>3. \A d \in Clients : OwnOK(d, cl'[d])
    BY <1>1 DEF LogInv, Follows
  <1>4. ASSUME NEW d \in Clients \ {c}, NEW k \in ToSet(m.keys) PROVE ~Busy(d, k)
    BY <1>4 DEF Private, LogInv, Follows, OwnOK, Busy
  <1>5. ASSUME NEW d \in Clients, NEW k \in Keys, Busy(d, k)'
        PROVE  Agree(cl'[d], k, db'[k], replica'[k])
    <2>1. CASE d = c
      BY <1>1, <1>5, <2>1 DEF Busy
    <2>2. CASE d # c
      <3>1. Busy(d, k)
        BY <1>1, <1>5, <2>2 DEF Busy
      <3>2. k \notin ToSet(m.keys)
        BY <1>4, <2>2, <3>1
      <3> QED
        BY <1>1, <2>2, <3>1, <3>2 DEF LogInv, Follows
    <2> QED
      BY <2>1, <2>2
  <1>6. ASSUME NEW k \in Keys, \A d \in Clients : ~Busy(d, k)' PROVE replica'[k] = db'[k]
    <2>1. CASE k \in ToSet(m.keys)
      <3>1. t.pc = "idle"
        BY <1>1, <1>6, <2>1 DEF Busy
      <3> QED
        BY <2>1, <3>1 DEF Agree
    <2>2. CASE k \notin ToSet(m.keys)
      <3>1. \A d \in Clients : ~Busy(d, k)
        BY <1>1, <1>6, <2>2 DEF Busy
      <3> QED
        BY <2>2, <3>1 DEF LogInv, Follows, LogFollowsStore
    <2> QED
      BY <2>1, <2>2
  <1> QED
    BY <1>2, <1>3, <1>5, <1>6 DEF Follows, LogFollowsStore

\* The locals with which a handler goes on.
LEMMA NextKeyIs ==
  ASSUME NEW s \in Local, s.cmd \in Command, s.cmd.name # "FLUSHDB"
  PROVE  \/ NextKey(s) = Idle /\ Idle.pc = "idle" /\ s.i >= Len(s.cmd.keys)
         \/ /\ NextKey(s).pc \in {"clock", "lock"}
            /\ NextKey(s).cmd = s.cmd
            /\ NextKey(s).i = s.i + 1
            /\ NextKey(s).removed = s.removed
  <1>0. s.cmd.keys \in Seq(Keys)
    BY KeysOfCommand
  <1>1. s.i \in Nat /\ Len(s.cmd.keys) \in Nat
    BY <1>0 DEF Local
  <1>2. CASE s.i < Len(s.cmd.keys)
    BY <1>2 DEF NextKey, Enter, Local
  <1>3. CASE ~(s.i < Len(s.cmd.keys))
    BY <1>1, <1>3 DEF NextKey, Idle
  <1> QED
    BY <1>2, <1>3

\* A client inside a command: what LogInv says of it.
LEMMA Working ==
  ASSUME Permanent, LogInv, NEW c \in Clients, cl[c].pc # "idle"
  PROVE  LET s == cl[c] IN
         /\ s \in Local /\ LocalOK(s) /\ OwnOK(c, s)
         /\ s.cmd \in Command /\ s.cmd \in Repertoire[c] /\ NoDeadline(s.cmd)
         /\ s.cmd.name # "FLUSHDB" /\ s.cmd.keys \in Seq(Keys)
         /\ \A k \in Keys \cap ToSet(s.cmd.keys) : Agree(s, k, db[k], replica[k])
  <1> DEFINE s == cl[c]
  <1>1. LocalOK(s) /\ OwnOK(c, s)
    BY DEF LogInv, Inv, LocalsOK, Follows
  <1>2. s \in Local /\ s.cmd \in Command /\ s.cmd \in Repertoire[c]
    BY <1>1 DEF LocalOK, OwnOK
  <1>3. NoDeadline(s.cmd) /\ s.cmd.name # "FLUSHDB"
    BY <1>2 DEF Permanent, NoDeadline
  <1>4. \A k \in Keys \cap ToSet(s.cmd.keys) : Agree(s, k, db[k], replica[k])
    BY DEF LogInv, Follows, Busy
  <1> QED
    BY <1>1, <1>2, <1>3, <1>4, KeysOfCommand

\* Entries, as LogInv has them.
LEMMA EntriesPermanent ==
  ASSUME LogInv, NEW k \in Keys
  PROVE  /\ db[k] \in Entry /\ WellFormed(db[k]) /\ db[k].expiresAt = Never
         /\ replica[k].expiresAt = Never
  BY DEF LogInv, Inv, TypeOK, EntriesWellFormed, Follows

LEMMA LogBegin ==
  ASSUME Private, Permanent, LogInv, NEW c \in Clients, Begin(c)
  PROVE  Follows'
  <1>1. PICK m \in Repertoire[c] : cl' = [cl EXCEPT ![c] = Enter([Idle EXCEPT !.cmd = m], 1)]
    BY DEF Begin
  <1> DEFINE t == Enter([Idle EXCEPT !.cmd = m], 1)
  <1>2. m \in Command /\ NoDeadline(m)
    BY RepertoireAssumption DEF Permanent
  <1>3. t.pc \in {"clock", "lock"} /\ t.cmd = m /\ t.i = 1
    BY <1>2 DEF Enter, Idle, NoDeadline
  <1> HIDE DEF t
  <1>4. cl[c].pc = "idle" /\ db' = db /\ replica' = replica
    BY DEF Begin
  <1>5. OwnOK(c, t)
    BY <1>3 DEF OwnOK
  <1>6. ASSUME NEW k \in Keys \cap ToSet(m.keys) PROVE replica[k] = db[k]
    <2>1. \A d \in Clients : ~Busy(d, k)
      BY <1>4, <1>6 DEF Private, LogInv, Follows, OwnOK, Busy
    <2> QED
      BY <2>1 DEF LogInv, Follows, LogFollowsStore
  <1>7. \A k \in Keys \cap ToSet(m.keys) : Agree(t, k, db[k], replica[k])
    BY <1>3, <1>6 DEF Agree, Erased
  <1>8. cl' = [cl EXCEPT ![c] = t]
    BY <1>1 DEF t
  <1> QED
    BY <1>3, <1>4, <1>5, <1>7, <1>8, OwnStep, EntriesPermanent

LEMMA LogReadClock ==
  ASSUME Private, Permanent, LogInv, NEW c \in Clients, ReadClock(c)
  PROVE  Follows'
  <1> DEFINE s == cl[c]
             t == [s EXCEPT !.now = clock, !.pc = "lock"]
  <1>1. s.pc = "clock" /\ db' = db /\ replica' = replica
    BY DEF ReadClock
  <1>2. /\ s \in Local /\ s.cmd \in Repertoire[c]
        /\ \A k \in Keys \cap ToSet(s.cmd.keys) : Agree(s, k, db[k], replica[k])
    BY <1>1, Working
  <1>3. cl' = [cl EXCEPT ![c] = t]
    BY DEF ReadClock
  <1>4. t.pc = "lock" /\ t.cmd = s.cmd /\ t.i = s.i /\ t.removed = s.removed
    BY <1>2 DEF Local
  <1> HIDE DEF t
  <1>5. OwnOK(c, t)
    BY <1>2, <1>4 DEF OwnOK
  <1>6. \A k \in Keys \cap ToSet(s.cmd.keys) : Agree(t, k, db[k], replica[k])
    BY <1>1, <1>2, <1>4 DEF Agree, Erased
  <1> QED
    BY <1>1, <1>2, <1>3, <1>4, <1>5, <1>6, OwnStep, EntriesPermanent

\* GET changes nothing, and moves on.
LEMMA LogGet ==
  ASSUME Private, Permanent, LogInv, NEW c \in Clients, GetRead(c) \/ LazyDelete(c)
  PROVE  Follows'
  <1> DEFINE s == cl[c]
  <1>0. s.pc \in {"lock", "lazy"} /\ replica' = replica
    BY DEF GetRead, LazyDelete
  <1>1. /\ s \in Local /\ LocalOK(s) /\ s.cmd \in Repertoire[c] /\ s.cmd \in Command
        /\ s.cmd.keys \in Seq(Keys) /\ s.cmd.name # "FLUSHDB"
        /\ \A k \in Keys \cap ToSet(s.cmd.keys) : Agree(s, k, db[k], replica[k])
    BY <1>0, Working
  <1>2. s.cmd.name = "GET" /\ CurKey(s) \in Keys
    BY <1>0, <1>1 DEF GetRead, LazyDelete, LocalOK, CurKey
  <1>3. db' = db
    BY <1>2, EntriesPermanent DEF GetRead, LazyDelete, Reclaim, expired, Never, LogInv, Inv, TypeOK
  <1>4. PICK t \in {[s EXCEPT !.pc = "lazy"], NextKey(s)} : cl' = [cl EXCEPT ![c] = t]
    BY DEF GetRead, LazyDelete
  <1>5. \/ t = Idle /\ t.pc = "idle"
        \/ t.pc \in {"clock", "lock", "lazy"} /\ t.cmd = s.cmd
    BY <1>1, <1>4, NextKeyIs DEF Local
  <1>6. OwnOK(c, t)
    BY <1>1, <1>5 DEF OwnOK
  <1>7. \A k \in Keys \cap ToSet(s.cmd.keys) : Agree(t, k, db[k], replica[k])
    BY <1>0, <1>1, <1>2, <1>5 DEF Agree, Erased
  <1> QED
    BY <1>0, <1>1, <1>3, <1>4, <1>5, <1>6, <1>7, OwnStep, EntriesPermanent

\* Logging brings the replica up to date with the keys of the command.
LEMMA LogLogAppend ==
  ASSUME Private, Permanent, LogInv, NEW c \in Clients, LogAppend(c)
  PROVE  Follows'
  <1> DEFINE s == cl[c]
  <1>1. s.pc = "log" /\ db' = db /\ replica' = ReplayStep(replica, s.rec, 0)
    BY DEF LogAppend
  <1>2. /\ s \in Local /\ OwnOK(c, s) /\ s.cmd \in Repertoire[c] /\ s.cmd \in Command
        /\ s.cmd.name # "FLUSHDB"
        /\ \A k \in Keys \cap ToSet(s.cmd.keys) : Agree(s, k, db[k], replica[k])
    BY <1>1, Working
  <1>3. \A k \in Keys \ ToSet(s.cmd.keys) : replica'[k] = replica[k]
    BY <1>1, <1>2 DEF ReplayStep, OwnOK
  <1>4. \A k \in Keys \cap ToSet(s.cmd.keys) : replica'[k] = db[k]
    BY <1>1, <1>2 DEF ReplayStep, OwnOK, Agree
  <1> DEFINE t == IF s.cmd.name = "MSET" THEN NextKey(s) ELSE Idle
  <1>5. cl' = [cl EXCEPT ![c] = t]
    BY DEF LogAppend
  <1>6. \/ t.pc = "idle"
        \/ t.pc \in {"clock", "lock"} /\ t.cmd = s.cmd /\ s.cmd.name = "MSET"
    BY <1>2, NextKeyIs DEF Idle
  <1> HIDE DEF t
  <1>7. OwnOK(c, t)
    BY <1>2, <1>6 DEF OwnOK
  <1>8. \A k \in Keys \cap ToSet(s.cmd.keys) : Agree(t, k, db'[k], replica'[k])
    BY <1>1, <1>4, <1>6 DEF Agree, Erased
  <1>9. \A k \in Keys \cap ToSet(s.cmd.keys) :
           db'[k].expiresAt = Never /\ replica'[k].expiresAt = Never
    BY <1>1, <1>4, EntriesPermanent
  <1>10. \A k \in Keys \ ToSet(s.cmd.keys) : db'[k] = db[k] /\ replica'[k] = replica[k]
    BY <1>1, <1>3
  <1>11. (s.pc # "idle" => s.cmd = s.cmd) /\ (t.pc # "idle" => t.cmd = s.cmd)
    BY <1>6
  <1> QED
    BY <1>2, <1>5, <1>7, <1>8, <1>9, <1>10, <1>11, OwnStep

----------------------------------------------------------------------------
(* The Store calls *)

\* A command other than DEL: its record does to the replica what the call did.
LEMMA LogUpdate ==
  ASSUME AOF, Private, Permanent, LogInv, NEW c \in Clients, Update(c),
         cl[c].cmd.name # "DEL"
  PROVE  Follows'
  <1> DEFINE s == cl[c]
  <1>0. s.pc = "lock"
    BY DEF Update
  <1>1. /\ s \in Local /\ s.cmd \in Repertoire[c] /\ s.cmd \in Command
        /\ NoDeadline(s.cmd) /\ s.cmd.name # "FLUSHDB" /\ s.cmd.keys \in Seq(Keys)
        /\ \A k \in Keys \cap ToSet(s.cmd.keys) : Agree(s, k, db[k], replica[k])
    BY <1>0, Working
  <1>2. PICK k \in Keys, now \in Nat :
          LET r == Handle(s.cmd, s.i, db[k], now)
          IN  /\ s.pc = "lock" /\ k = CurKey(s)
              /\ s.cmd \in Command /\ s.cmd.name \notin {"GET", "FLUSHDB"}
              /\ s.i \in 1 .. Len(s.cmd.keys)
              /\ now = IF ReadsClockUnderLock(s.cmd) THEN clock ELSE s.now
              /\ db[k] \in Entry
              /\ r \in Result
              /\ db' = [db EXCEPT ![k] = r.e]
              /\ cl' = [cl EXCEPT ![c] = AfterCall(s, r)]
              /\ UNCHANGED <<clock, sweep, replica, sent>>
    BY UpdateStep DEF LogInv
  <1> DEFINE r == Handle(s.cmd, s.i, db[k], now)
             g == Logged(s.cmd, s.i, r.e)
             t == AfterCall(s, r)
  <1>3. /\ Quietly(db[k], r)
        /\ r.ok => Handle(g, 1, db[k], 0).e = r.e
        /\ ToSet(g.keys) = {k}
        /\ g.name # "FLUSHDB"
    <2>1. k = s.cmd.keys[s.i]
      BY <1>2 DEF CurKey
    <2>2. s.cmd.name \notin {"GET", "DEL"} /\ s.i \in 1 .. Len(s.cmd.keys)
      BY <1>2
    <2>3. db[k] \in Entry /\ WellFormed(db[k]) /\ db[k].expiresAt = Never
      BY EntriesPermanent
    <2>4. s.cmd \in Command /\ NoDeadline(s.cmd)
      BY <1>1
    <2> HIDE DEF s
    <2>5. /\ Quietly(db[k], r)
          /\ r.ok => Handle(g, 1, db[k], 0).e = r.e
          /\ ToSet(g.keys) = {s.cmd.keys[s.i]}
          /\ g.name # "FLUSHDB"
      BY <2>2, <2>3, <2>4, LoggedReplays
    <2> QED
      BY <2>1, <2>5
  <1>4. k \in ToSet(s.cmd.keys)
    BY <1>1, <1>2, SMTT(30) DEF CurKey, ToSet
  <1>5. \A j \in Keys \cap ToSet(s.cmd.keys) : replica[j] = db[j]
    BY <1>0, <1>1 DEF Agree, Erased
  <1>6. db' = [db EXCEPT ![k] = r.e] /\ cl' = [cl EXCEPT ![c] = t] /\ replica' = replica
    BY <1>2
  <1>7. db'[k] = r.e /\ \A j \in Keys \ {k} : db'[j] = db[j]
    BY <1>6 DEF LogInv, Inv, TypeOK
  <1>8. \A j \in Keys : db'[j].expiresAt = Never /\ replica'[j].expiresAt = Never
    BY <1>3, <1>6, <1>7, EntriesPermanent DEF Quietly
  <1>9. \A j \in Keys \ ToSet(s.cmd.keys) : db'[j] = db[j] /\ replica'[j] = replica[j]
    BY <1>4, <1>6, <1>7
  <1>10. t = IF r.ok THEN [s EXCEPT !.pc = "log", !.rec = g] ELSE NextKey(s)
    BY DEF AfterCall, ThenLog
  <1> HIDE DEF r, g, t
  <1>11. CASE r.ok
    <2>1. t.pc = "log" /\ t.cmd = s.cmd /\ t.rec = g
      BY <1>1, <1>10, <1>11 DEF Local
    <2>2. OwnOK(c, t)
      BY <1>1, <1>3, <1>4, <2>1 DEF OwnOK
    <2>3. \A j \in Keys \cap ToSet(s.cmd.keys) : Agree(t, j, db'[j], replica'[j])
      BY <1>3, <1>5, <1>6, <1>7, <1>11, <2>1 DEF Agree
    <2> QED
      BY <1>1, <1>6, <1>8, <1>9, <2>1, <2>2, <2>3, OwnStep
  <1>12. CASE ~r.ok
    <2>1. \A j \in Keys : db'[j] = db[j]
      BY <1>3, <1>7, <1>12 DEF Quietly
    <2>2. \/ t.pc = "idle"
          \/ t.pc \in {"clock", "lock"} /\ t.cmd = s.cmd
      BY <1>1, <1>10, <1>12, NextKeyIs
    <2>3. OwnOK(c, t)
      BY <1>1, <2>2 DEF OwnOK
    <2>4. \A j \in Keys \cap ToSet(s.cmd.keys) : Agree(t, j, db'[j], replica'[j])
      BY <1>5, <1>6, <2>1, <2>2 DEF Agree, Erased
    <2> QED
      BY <1>1, <1>6, <1>8, <1>9, <2>2, <2>3, <2>4, OwnStep
  <1> QED
    BY <1>11, <1>12

(***************************************************************************)
(* DEL erases key after key; the replica follows when the command is       *)
(* logged, and if nothing was removed there was nothing to follow.         *)
(***************************************************************************)
LEMMA LogDel ==
  ASSUME AOF, Private, Permanent, LogInv, NEW c \in Clients, Update(c),
         cl[c].cmd.name = "DEL"
  PROVE  Follows'
  <1> DEFINE s == cl[c]
  <1>0. s.pc = "lock"
    BY DEF Update
  <1>1. /\ s \in Local /\ s.cmd \in Repertoire[c] /\ s.cmd \in Command
        /\ s.cmd.name # "FLUSHDB" /\ s.cmd.keys \in Seq(Keys)
        /\ \A k \in Keys \cap ToSet(s.cmd.keys) : Agree(s, k, db[k], replica[k])
    BY <1>0, Working
  <1>2. PICK k \in Keys, now \in Nat :
          LET r == Handle(s.cmd, s.i, db[k], now)
          IN  /\ s.pc = "lock" /\ k = CurKey(s)
              /\ s.cmd \in Command /\ s.cmd.name \notin {"GET", "FLUSHDB"}
              /\ s.i \in 1 .. Len(s.cmd.keys)
              /\ now = IF ReadsClockUnderLock(s.cmd) THEN clock ELSE s.now
              /\ db[k] \in Entry
              /\ r \in Result
              /\ db' = [db EXCEPT ![k] = r.e]
              /\ cl' = [cl EXCEPT ![c] = AfterCall(s, r)]
              /\ UNCHANGED <<clock, sweep, replica, sent>>
    BY UpdateStep DEF LogInv
  <1> DEFINE r == Handle(s.cmd, s.i, db[k], now)
             u == [s EXCEPT !.removed = @ + (IF r.ok THEN 1 ELSE 0)]
             t == AfterCall(s, r)
  <1>3. r.e = NoEntry /\ (r.ok <=> Live(db[k], now))
    <2>1. r = [e |-> NoEntry, ok |-> Live(db[k], now)]
      BY DEF Handle, Del
    <2> DEFINE live == Live(db[k], now)
    <2> HIDE DEF r, live
    <2>2. r = [e |-> NoEntry, ok |-> live]
      BY <2>1 DEF live
    <2>3. r.e = NoEntry /\ r.ok = live
      BY <2>2
    <2> QED
      BY <2>3 DEF live
  <1>4. ~r.ok => db[k] = NoEntry
    BY <1>3, EntriesPermanent, LiveForever DEF WellFormed
  <1>5. k = s.cmd.keys[s.i] /\ k \in ToSet(s.cmd.keys) /\ s.i \in 1 .. Len(s.cmd.keys)
    BY <1>1, <1>2 DEF CurKey, ToSet
  <1>6. db' = [db EXCEPT ![k] = r.e] /\ cl' = [cl EXCEPT ![c] = t] /\ replica' = replica
    BY <1>2
  <1>7. db'[k] = NoEntry /\ \A j \in Keys \ {k} : db'[j] = db[j]
    BY <1>3, <1>6 DEF LogInv, Inv, TypeOK
  <1>8. \A j \in Keys : db'[j].expiresAt = Never /\ replica'[j].expiresAt = Never
    BY <1>6, <1>7, EntriesPermanent, PermanentString
  <1>9. \A j \in Keys \ ToSet(s.cmd.keys) : db'[j] = db[j] /\ replica'[j] = replica[j]
    BY <1>5, <1>6, <1>7
  <1>10. /\ u \in Local /\ u.cmd = s.cmd /\ u.i = s.i /\ u.pc = s.pc
         /\ u.removed = s.removed + (IF r.ok THEN 1 ELSE 0)
         /\ s.removed \in Nat /\ u.removed \in Nat
    BY <1>1 DEF Local
  <1>11. t = IF s.i = Len(s.cmd.keys) /\ u.removed > 0
             THEN [u EXCEPT !.pc = "log", !.rec = s.cmd]
             ELSE NextKey(u)
    BY DEF AfterCall, ThenLog
  <1> DEFINE done(j) == \E n \in 1 .. s.i : s.cmd.keys[n] = j
  <1> HIDE DEF r, u, t, s
  \* Keys already dealt with, this one included.
  <1>12. ASSUME NEW j \in Keys \cap ToSet(s.cmd.keys), done(j)
         PROVE  db'[j] = NoEntry /\ (u.removed = 0 => replica'[j] = NoEntry)
    <2>1. Agree(s, j, db[j], replica[j])
      BY <1>1
    <2>2. IF Erased(s, j) THEN db[j] = NoEntry /\ (s.removed = 0 => replica[j] = NoEntry)
          ELSE replica[j] = db[j]
      BY <1>0, <2>1 DEF Agree, s
    <2>3. u.removed = 0 => s.removed = 0 /\ ~r.ok
      BY <1>10
    <2>4. CASE j = k
      BY <1>4, <1>6, <1>7, <2>2, <2>3, <2>4
    <2>5. CASE j # k
      <3>1. Erased(s, j)
        <4>1. PICK n \in 1 .. s.i : s.cmd.keys[n] = j
          BY <1>12
        <4>2. n # s.i
          BY <1>5, <2>5, <4>1
        <4>3. n \in 1 .. s.i - 1
          BY <1>5, <4>1, <4>2
        <4> QED
          BY <4>1, <4>3 DEF Erased, s
      <3> QED
        BY <1>6, <1>7, <2>2, <2>3, <2>5, <3>1
    <2> QED
      BY <2>4, <2>5
  \* Keys that are still to come.
  <1>13. ASSUME NEW j \in Keys \cap ToSet(s.cmd.keys), ~done(j)
         PROVE  db'[j] = replica'[j]
    <2>1. j # k /\ ~Erased(s, j)
      BY <1>5, <1>13 DEF Erased
    <2>2. Agree(s, j, db[j], replica[j])
      BY <1>1
    <2> QED
      BY <1>0, <1>6, <1>7, <2>1, <2>2 DEF Agree, s
  <1>14. s.i = Len(s.cmd.keys) => \A j \in ToSet(s.cmd.keys) : done(j)
    BY <1>1 DEF ToSet
  <1>15. s.cmd.name = "DEL"
    BY DEF s
  <1>16. CASE s.i = Len(s.cmd.keys) /\ u.removed > 0
    <2>1. t.pc = "log" /\ t.cmd = s.cmd /\ t.rec = s.cmd
      BY <1>10, <1>11, <1>16 DEF Local
    <2>2. OwnOK(c, t)
      BY <1>1, <2>1 DEF OwnOK
    <2>3. \A e : Handle(s.cmd, 1, e, 0).e = NoEntry
      BY <1>15 DEF Handle, Del
    <2>4. \A j \in Keys \cap ToSet(s.cmd.keys) : Agree(t, j, db'[j], replica'[j])
      BY <1>12, <1>14, <1>16, <2>1, <2>3 DEF Agree
    <2> QED
      BY <1>1, <1>6, <1>8, <1>9, <2>1, <2>2, <2>4, OwnStep DEF s
  <1>17. CASE ~(s.i = Len(s.cmd.keys) /\ u.removed > 0)
    <2>1. \/ t.pc = "idle" /\ u.i >= Len(s.cmd.keys)
          \/ /\ t.pc \in {"clock", "lock"} /\ t.cmd = s.cmd
             /\ t.i = s.i + 1 /\ t.removed = u.removed
      BY <1>1, <1>10, <1>11, <1>17, NextKeyIs
    <2>2. OwnOK(c, t)
      BY <1>1, <2>1 DEF OwnOK
    <2>3. CASE t.pc = "idle" /\ u.i >= Len(s.cmd.keys)
      <3>1. s.i = Len(s.cmd.keys) /\ u.removed = 0
        BY <1>5, <1>10, <1>17, <2>3
      <3>2. \A j \in Keys \cap ToSet(s.cmd.keys) : Agree(t, j, db'[j], replica'[j])
        BY <1>12, <1>14, <2>3, <3>1 DEF Agree
      <3> QED
        BY <1>1, <1>6, <1>8, <1>9, <2>2, <2>3, <3>2, OwnStep DEF s
    <2>4. CASE /\ t.pc \in {"clock", "lock"} /\ t.cmd = s.cmd
               /\ t.i = s.i + 1 /\ t.removed = u.removed
      <3>1. \A j : Erased(t, j) <=> done(j)
        <4>1. t.i - 1 = s.i
          BY <1>5, <2>4
        <4> QED
          BY <1>15, <2>4, <4>1 DEF Erased
      <3> HIDE DEF done
      <3>2. \A j \in Keys \cap ToSet(s.cmd.keys) : Agree(t, j, db'[j], replica'[j])
        BY <1>12, <1>13, <2>4, <3>1 DEF Agree
      <3> QED
        BY <1>1, <1>6, <1>8, <1>9, <2>2, <2>4, <3>2, OwnStep DEF s
    <2> QED
      BY <2>1, <2>3, <2>4
  <1> QED
    BY <1>16, <1>17

----------------------------------------------------------------------------
LEMMA InitLog == Init => Follows
  BY PermanentString
  DEF Init, Follows, OwnOK, Busy, Idle, LogFollowsStore

\* A step that leaves the clients, the store and the replica alone.
LEMMA LogElsewhere ==
  ASSUME LogInv, UNCHANGED <<db, cl, replica>>
  PROVE  Follows'
  BY DEF LogInv, Follows, OwnOK, Busy, LogFollowsStore, Agree, Erased

LEMMA NextLog ==
  ASSUME AOF, Private, Permanent
  PROVE  LogInv /\ [Next]_vars => LogInv'
  <1> SUFFICES ASSUME LogInv, [Next]_vars PROVE Follows'
    BY NextInv, NextWF DEF LogInv
  <1>1. ASSUME NEW c \in Clients, Begin(c) PROVE Follows'
    BY <1>1, LogBegin
  <1>2. ASSUME NEW c \in Clients, ReadClock(c) PROVE Follows'
    BY <1>2, LogReadClock
  <1>3. ASSUME NEW c \in Clients, Update(c) PROVE Follows'
    BY <1>3, LogUpdate, LogDel
  <1>4. ASSUME NEW c \in Clients, GetRead(c) \/ LazyDelete(c) PROVE Follows'
    BY <1>4, LogGet
  <1>5. ASSUME NEW c \in Clients, FlushShard(c) PROVE Follows'
    <2>1. cl[c].pc = "flush"
      BY <1>5 DEF FlushShard
    <2>2. cl[c].cmd.name # "FLUSHDB" /\ LocalOK(cl[c])
      BY <2>1, Working
    <2> QED
      BY <2>1, <2>2 DEF LocalOK
  <1>6. ASSUME NEW c \in Clients, LogAppend(c) PROVE Follows'
    BY <1>6, LogLogAppend
  <1>7. CASE SweepShard
    <2>1. \A k \in Keys : Reclaim(db[k], sweep.now) = db[k]
      BY EntriesPermanent DEF Reclaim, expired, Never
    <2>2. db' = db
      BY <1>7, <2>1 DEF SweepShard, LogInv, Inv, TypeOK
    <2> QED
      BY <1>7, <2>2, LogElsewhere DEF SweepShard
  <1>8. CASE SweepStart \/ Tick \/ UNCHANGED vars
    BY <1>8, LogElsewhere DEF SweepStart, Tick, vars
  <1> QED
    BY <1>1, <1>2, <1>3, <1>4, <1>5, <1>6, <1>7, <1>8 DEF Next, ClientStep, Sweeper

(***************************************************************************)
(* With persistence enabled, clients that keep to keys of their own and no *)
(* deadlines, the log follows the store: whenever no command on a key is   *)
(* under way, replaying the log yields the entry the key has.              *)
(***************************************************************************)
THEOREM LogIsFaithful ==
  ASSUME AOF, Private, Permanent
  PROVE  Spec => []LogFollowsStore
  <1>1. Init => LogInv
    BY InitInv, InitLog, NewEntryWF DEF LogInv, Init, EntriesWellFormed
  <1>2. LogInv /\ [Next]_vars => LogInv'
    BY NextLog
  <1>3. LogInv => LogFollowsStore
    BY DEF LogInv, Follows
  <1> QED
    BY <1>1, <1>2, <1>3, PTL DEF Spec
============================================================================
