---------------------------- MODULE EntryProofs ----------------------------
(***************************************************************************)
(* What the operations on one entry preserve, for every entry, argument    *)
(* and clock reading.                                                      *)
(***************************************************************************)
EXTENDS Commands, TLAPS

Result == [e : Entry, ok : BOOLEAN]

LEMMA NoEntryType == NoEntry \in Entry
  BY DEF NoEntry, Entry, Kinds, Str, Hash, EmptyHash, Never

LEMMA NewEntryType == \A kind \in Kinds : NewEntry(kind) \in Entry
  BY NoEntryType DEF NewEntry, Entry

LEMMA StringEntryType ==
  \A v \in Str, ttl \in Int, now \in Int : StringEntry(v, ttl, now) \in Entry
  <1> SUFFICES ASSUME NEW v \in Str, NEW ttl \in Int, NEW now \in Int
               PROVE  StringEntry(v, ttl, now) \in Entry
    OBVIOUS
  <1> DEFINE deadline == IF ttl > 0 THEN {now + ttl} ELSE Never
  <1>1. deadline \in SUBSET Int
    BY DEF Never
  <1>2. NewEntry("string") \in Entry
    BY NewEntryType DEF Kinds
  <1> HIDE DEF deadline
  <1>3. [NewEntry("string") EXCEPT !.str = v, !.expiresAt = deadline] \in Entry
    BY <1>1, <1>2 DEF Entry
  <1> QED
    BY <1>3 DEF StringEntry, deadline

LEMMA LiveOrType ==
  \A e \in Entry, kind \in Kinds, now \in Int : LiveOr(e, kind, now) \in Entry
  BY NewEntryType DEF LiveOr

LEMMA StringOpsType ==
  \A e \in Entry, v \in Str, ttl \in Int, now \in Int :
    /\ Set(e, v, ttl, now) \in Result
    /\ SetNX(e, v, ttl, now) \in Result
    /\ SetXX(e, v, ttl, now) \in Result
    /\ GetSet(e, v, now) \in Result
  BY StringEntryType DEF Set, SetNX, SetXX, GetSet, Done, Refused, Result

LEMMA ConcatType ==
  ASSUME NEW S, NEW s \in Seq(S), NEW t \in Seq(S) PROVE s \o t \in Seq(S)
  OBVIOUS

LEMMA StrAppendType ==
  \A e \in Entry, v \in Str, now \in Int : StrAppend(e, v, now) \in Result
  <1> SUFFICES ASSUME NEW e \in Entry, NEW v \in Str, NEW now \in Int
               PROVE  StrAppend(e, v, now) \in Result
    OBVIOUS
  <1> DEFINE l == LiveOr(e, "string", now)
  <1>1. l \in Entry
    BY LiveOrType DEF Kinds
  <1>2. l.str \o v \in Str
    BY <1>1, ConcatType DEF Entry, Str
  <1>3. [l EXCEPT !.str = @ \o v] \in Entry
    BY <1>1, <1>2 DEF Entry
  <1> QED
    BY <1>3 DEF StrAppend, Done, Refused, Result

LEMMA IncrByType ==
  \A e \in Entry, delta \in Int, now \in Int : IncrBy(e, delta, now) \in Result
  <1> SUFFICES ASSUME NEW e \in Entry, NEW delta \in Int, NEW now \in Int
               PROVE  IncrBy(e, delta, now) \in Result
    OBVIOUS
  <1> DEFINE l == LiveOr(e, "string", now)
             n == Counter(e, now) + delta
  <1>1. l \in Entry
    BY LiveOrType DEF Kinds
  <1>2. CASE Live(e, now) /\ ~IsInt64(e.str)
    BY <1>2 DEF IncrBy, Refused, Result
  <1>3. CASE ~(Live(e, now) /\ ~IsInt64(e.str))
    <2>1. Counter(e, now) \in Int
      BY <1>3, MaxIntAssumption DEF Counter, IsInt64, MinInt
    <2>2. <<n>> \in Str
      BY <2>1 DEF Str
    <2>3. [l EXCEPT !.str = <<n>>] \in Entry
      BY <1>1, <2>2 DEF Entry
    <2> QED
      BY <2>3 DEF IncrBy, Done, Refused, Result
  <1> QED
    BY <1>2, <1>3

LEMMA KeyOpsType ==
  \A e \in Entry, ttl \in Int, now \in Int :
    /\ Del(e, now) \in Result
    /\ Expire(e, ttl, now) \in Result
    /\ Persist(e, now) \in Result
  BY NoEntryType, SMTT(30)
  DEF Del, Expire, Persist, Done, Refused, Result, Entry, Never, Live

LEMMA ReclaimType == \A e \in Entry, now \in Int : Reclaim(e, now) \in Entry
  BY NoEntryType DEF Reclaim

LEMMA HSetType ==
  \A e \in Entry, pairs \in Hash, now \in Int : HSet(e, pairs, now) \in Result
  <1> SUFFICES ASSUME NEW e \in Entry, NEW pairs \in Hash, NEW now \in Int
               PROVE  HSet(e, pairs, now) \in Result
    OBVIOUS
  <1> DEFINE l == LiveOr(e, "hash", now)
             h == l.hash
             merged == [f \in Fields |-> IF pairs[f] # {} THEN pairs[f] ELSE h[f]]
  <1>1. l \in Entry
    BY LiveOrType DEF Kinds
  <1>2. merged \in Hash
    BY <1>1 DEF Entry, Hash
  <1> HIDE DEF merged
  <1>3. [l EXCEPT !.hash = merged] \in Entry
    BY <1>1, <1>2 DEF Entry
  <1> QED
    BY <1>3 DEF HSet, Done, Refused, Result, merged

LEMMA HDelType ==
  \A e \in Entry, fields \in SUBSET Fields, now \in Int : HDel(e, fields, now) \in Result
  BY NoEntryType DEF HDel, Refused, Result, Entry, Hash, Kinds

LEMMA ReverseType ==
  ASSUME NEW S, NEW s \in Seq(S)
  PROVE  Reverse(s) \in Seq(S) /\ Len(Reverse(s)) = Len(s)
  BY DEF Reverse

LEMMA PushType ==
  \A e \in Entry, vals \in Seq(Str), now \in Int :
    LPush(e, vals, now) \in Result /\ RPush(e, vals, now) \in Result
  <1> SUFFICES ASSUME NEW e \in Entry, NEW vals \in Seq(Str), NEW now \in Int
               PROVE  LPush(e, vals, now) \in Result /\ RPush(e, vals, now) \in Result
    OBVIOUS
  <1> DEFINE l == LiveOr(e, "list", now)
  <1>1. l \in Entry
    BY LiveOrType DEF Kinds
  <1>2. l.list \o vals \in Seq(Str) /\ Reverse(vals) \o l.list \in Seq(Str)
    BY <1>1, ConcatType, ReverseType DEF Entry
  <1>3. /\ [l EXCEPT !.list = @ \o vals] \in Entry
        /\ [l EXCEPT !.list = Reverse(vals) \o @] \in Entry
    BY <1>1, <1>2 DEF Entry
  <1> QED
    BY <1>3 DEF LPush, RPush, Done, Refused, Result

LEMMA PopType ==
  \A e \in Entry, now \in Int : LPop(e, now) \in Result /\ RPop(e, now) \in Result
  <1> SUFFICES ASSUME NEW e \in Entry, NEW now \in Int
               PROVE  LPop(e, now) \in Result /\ RPop(e, now) \in Result
    OBVIOUS
  <1>1. e.list # <<>> => Tail(e.list) \in Seq(Str) /\ Front(e.list) \in Seq(Str)
    BY DEF Entry, Front
  <1> QED
    BY <1>1, NoEntryType DEF LPop, RPop, Pop, Done, Refused, Result, Entry

(***************************************************************************)
(* Every Store call of a handler turns an entry into an entry.             *)
(***************************************************************************)
LEMMA HandleType ==
  ASSUME NEW m \in Command, m.name \notin {"GET", "FLUSHDB"},
         NEW i \in 1 .. Len(m.keys), NEW e \in Entry, NEW now \in Int
  PROVE  Handle(m, i, e, now) \in Result
  <1>1. CASE m \in SetCommand
    BY <1>1, StringOpsType DEF SetCommand, Handle
  <1>2. CASE m \in MSetCommand
    <2>1. m.name = "MSET" /\ m.vals[i] \in Str
      BY <1>2 DEF MSetCommand, SomeVals, SomeKeys
    <2>2. Handle(m, i, e, now) = Set(e, m.vals[i], 0, now)
      BY <2>1 DEF Handle
    <2> QED
      BY <2>1, <2>2, StringOpsType
  <1>3. CASE m \in StringCommand
    <2>1. Seq(Texts) \subseteq Str
      BY DEF Str
    <2>2. \A d \in MinInt .. MaxInt : d \in Int /\ Negate(d) \in Int
      BY MaxIntAssumption DEF MinInt, Negate
    <2>3. CASE m.name = "GETSET"
      BY <1>3, <2>3, StringOpsType DEF StringCommand, Handle
    <2>4. CASE m.name = "APPEND"
      BY <1>3, <2>1, <2>4, StrAppendType DEF StringCommand, Handle
    <2>5. CASE m.name \in {"INCRBY", "DECRBY"}
      <3>1. m.delta \in MinInt .. MaxInt
        BY <1>3, <2>5 DEF StringCommand
      <3> QED
        BY <2>2, <2>5, <3>1, IncrByType DEF Handle
    <2> QED
      BY <1>3, <2>3, <2>4, <2>5 DEF StringCommand
  <1>4. CASE m \in KeyCommand
    BY <1>4, KeyOpsType DEF KeyCommand, Handle
  <1>5. CASE m \in HashCommand
    BY <1>5, HSetType, HDelType DEF HashCommand, Handle
  <1>6. CASE m \in ListCommand
    <2>1. CASE m.name \in {"LPUSH", "RPUSH"}
      <3>1. m.vals \in Seq(Str)
        BY <1>6, <2>1 DEF ListCommand, SomeVals
      <3> QED
        BY <2>1, <3>1, PushType DEF Handle
    <2>2. CASE m.name \in {"LPOP", "RPOP"}
      BY <2>2, PopType DEF Handle
    <2> QED
      BY <1>6, <2>1, <2>2 DEF ListCommand
  <1> QED
    BY <1>1, <1>2, <1>3, <1>4, <1>5, <1>6 DEF Command, FlushCommand

----------------------------------------------------------------------------
(* Well-formedness *)

LEMMA NewEntryWF ==
  /\ WellFormed(NoEntry)
  /\ \A v, ttl, now : WellFormed(StringEntry(v, ttl, now))
  BY DEF WellFormed, NoEntry, StringEntry, NewEntry

LEMMA StringOpsWF ==
  ASSUME NEW e \in Entry, WellFormed(e), NEW v \in Str, NEW ttl \in Int, NEW now \in Int
  PROVE  /\ WellFormed(Set(e, v, ttl, now).e)
         /\ WellFormed(SetNX(e, v, ttl, now).e)
         /\ WellFormed(SetXX(e, v, ttl, now).e)
         /\ WellFormed(GetSet(e, v, now).e)
  BY NewEntryWF DEF Set, SetNX, SetXX, GetSet, Done, Refused

LEMMA UpdateStringWF ==
  ASSUME NEW e \in Entry, WellFormed(e), NEW v, NEW now \in Int,
         ~WrongType(e, "string", now)
  PROVE  WellFormed([LiveOr(e, "string", now) EXCEPT !.str = v])
  BY DEF WellFormed, LiveOr, WrongType, NewEntry, NoEntry, Entry

LEMMA StrAppendWF ==
  ASSUME NEW e \in Entry, WellFormed(e), NEW v \in Str, NEW now \in Int
  PROVE  WellFormed(StrAppend(e, v, now).e)
  <1> DEFINE w == LiveOr(e, "string", now).str \o v
  <1>1. StrAppend(e, v, now).e =
          IF WrongType(e, "string", now) THEN e
          ELSE [LiveOr(e, "string", now) EXCEPT !.str = w]
    BY DEF StrAppend, Done, Refused
  <1> HIDE DEF w
  <1>2. CASE WrongType(e, "string", now)
    BY <1>1, <1>2
  <1>3. CASE ~WrongType(e, "string", now)
    <2>1. WellFormed([LiveOr(e, "string", now) EXCEPT !.str = w])
      BY <1>3, UpdateStringWF
    <2> QED
      BY <1>1, <1>3, <2>1
  <1> QED
    BY <1>2, <1>3

LEMMA IncrByWF ==
  ASSUME NEW e \in Entry, WellFormed(e), NEW delta \in Int, NEW now \in Int
  PROVE  WellFormed(IncrBy(e, delta, now).e)
  <1> DEFINE w == <<Counter(e, now) + delta>>
  <1>1. \/ IncrBy(e, delta, now).e = e
        \/ /\ ~WrongType(e, "string", now)
           /\ IncrBy(e, delta, now).e = [LiveOr(e, "string", now) EXCEPT !.str = w]
    BY DEF IncrBy, Done, Refused
  <1> HIDE DEF w
  <1>2. CASE IncrBy(e, delta, now).e = e
    BY <1>2
  <1>3. CASE /\ ~WrongType(e, "string", now)
             /\ IncrBy(e, delta, now).e = [LiveOr(e, "string", now) EXCEPT !.str = w]
    <2>1. WellFormed([LiveOr(e, "string", now) EXCEPT !.str = w])
      BY <1>3, UpdateStringWF
    <2> QED
      BY <1>3, <2>1
  <1> QED
    BY <1>1, <1>2, <1>3

LEMMA KeyOpsWF ==
  ASSUME NEW e \in Entry, WellFormed(e), NEW ttl \in Int, NEW now \in Int
  PROVE  /\ WellFormed(Del(e, now).e)
         /\ WellFormed(Expire(e, ttl, now).e)
         /\ WellFormed(Persist(e, now).e)
         /\ WellFormed(Reclaim(e, now))
  BY NewEntryWF
  DEF WellFormed, Del, Expire, Persist, Reclaim, Done, Refused, Live, Entry

LEMMA HashOpsWF ==
  ASSUME NEW e \in Entry, WellFormed(e), NEW pairs \in Hash \ {EmptyHash},
         NEW fields, NEW now \in Int
  PROVE  /\ WellFormed(HSet(e, pairs, now).e)
         /\ WellFormed(HDel(e, fields, now).e)
  <1> DEFINE l == LiveOr(e, "hash", now)
             h == l.hash
             merged == [f \in Fields |-> IF pairs[f] # {} THEN pairs[f] ELSE h[f]]
             rest == [f \in Fields |-> IF f \in fields THEN {} ELSE e.hash[f]]
  <1>1. merged # EmptyHash
    <2>1. PICK f \in Fields : pairs[f] # {}
      BY DEF Hash, EmptyHash
    <2> QED
      BY <2>1 DEF EmptyHash
  <1> HIDE DEF merged, rest
  <1>2. ~WrongType(e, "hash", now) => WellFormed([l EXCEPT !.hash = merged])
    BY <1>1 DEF WellFormed, LiveOr, WrongType, NewEntry, NoEntry, Entry
  <1>3. HSet(e, pairs, now).e =
          IF WrongType(e, "hash", now) THEN e ELSE [l EXCEPT !.hash = merged]
    BY DEF HSet, Done, Refused, merged
  <1>4. e.kind = "hash" /\ rest # EmptyHash => WellFormed([e EXCEPT !.hash = rest])
    BY DEF WellFormed, Entry
  <1>5. \/ HDel(e, fields, now).e \in {e, NoEntry}
        \/ /\ e.kind = "hash" /\ rest # EmptyHash
           /\ HDel(e, fields, now).e = [e EXCEPT !.hash = rest]
    BY DEF HDel, Refused, rest
  <1> QED
    BY <1>2, <1>3, <1>4, <1>5, NewEntryWF

LEMMA ListOpsWF ==
  ASSUME NEW e \in Entry, WellFormed(e), NEW vals \in SomeVals, NEW now \in Int
  PROVE  /\ WellFormed(LPush(e, vals, now).e)
         /\ WellFormed(RPush(e, vals, now).e)
         /\ WellFormed(LPop(e, now).e)
         /\ WellFormed(RPop(e, now).e)
  <1> DEFINE l == LiveOr(e, "list", now)
             left == Reverse(vals) \o l.list
             right == l.list \o vals
  <1>1. l \in Entry
    BY LiveOrType DEF Kinds
  <1>2. vals \in Seq(Str) /\ vals # <<>>
    BY DEF SomeVals
  <1>3. Reverse(vals) \in Seq(Str) /\ Len(Reverse(vals)) = Len(vals) /\ Len(vals) > 0
    BY <1>2, ReverseType
  <1>4. left # <<>> /\ right # <<>>
    <2>1. l.list \in Seq(Str)
      BY <1>1 DEF Entry
    <2>2. Len(left) > 0 /\ Len(right) > 0
      BY <1>2, <1>3, <2>1
    <2> QED
      BY <2>2
  <1> HIDE DEF left, right
  <1>5. \A w : w # <<>> /\ ~WrongType(e, "list", now) => WellFormed([l EXCEPT !.list = w])
    BY DEF WellFormed, LiveOr, WrongType, NewEntry, NoEntry, Entry
  <1>6. /\ LPush(e, vals, now).e =
             IF WrongType(e, "list", now) THEN e ELSE [l EXCEPT !.list = left]
        /\ RPush(e, vals, now).e =
             IF WrongType(e, "list", now) THEN e ELSE [l EXCEPT !.list = right]
    BY DEF LPush, RPush, Done, Refused, left, right
  <1>7. \A rest : WellFormed(Pop(e, rest, now).e)
    BY NewEntryWF DEF WellFormed, Pop, Done, Refused, Entry
  <1> QED
    BY <1>4, <1>5, <1>6, <1>7 DEF LPop, RPop

(***************************************************************************)
(* Every Store call of a handler leaves a well-formed entry: no command    *)
(* can empty a hash or a list and keep the key.                            *)
(***************************************************************************)
LEMMA HandleWF ==
  ASSUME NEW m \in Command, m.name \notin {"GET", "FLUSHDB"},
         NEW i \in 1 .. Len(m.keys), NEW e \in Entry, WellFormed(e), NEW now \in Int
  PROVE  WellFormed(Handle(m, i, e, now).e)
  <1>1. CASE m \in SetCommand
    BY <1>1, StringOpsWF DEF SetCommand, Handle
  <1>2. CASE m \in MSetCommand
    <2>1. m.name = "MSET" /\ m.vals[i] \in Str
      BY <1>2 DEF MSetCommand, SomeVals, SomeKeys
    <2>2. Handle(m, i, e, now) = Set(e, m.vals[i], 0, now)
      BY <2>1 DEF Handle
    <2> QED
      BY <2>2, NewEntryWF DEF Set, Done
  <1>3. CASE m \in StringCommand
    <2>1. Seq(Texts) \subseteq Str
      BY DEF Str
    <2>2. \A d \in MinInt .. MaxInt : d \in Int /\ Negate(d) \in Int
      BY MaxIntAssumption DEF MinInt, Negate
    <2>3. CASE m.name = "GETSET"
      <3>1. m.val \in Str /\ Handle(m, i, e, now) = GetSet(e, m.val, now)
        BY <1>3, <2>3 DEF StringCommand, Handle
      <3> QED
        BY <3>1, StringOpsWF
    <2>4. CASE m.name = "APPEND"
      BY <1>3, <2>1, <2>4, StrAppendWF DEF StringCommand, Handle
    <2>5. CASE m.name \in {"INCRBY", "DECRBY"}
      <3>1. m.delta \in MinInt .. MaxInt
        BY <1>3, <2>5 DEF StringCommand
      <3> QED
        BY <2>2, <2>5, <3>1, IncrByWF DEF Handle
    <2> QED
      BY <1>3, <2>3, <2>4, <2>5 DEF StringCommand
  <1>4. CASE m \in KeyCommand
    <2>1. CASE m.name = "EXPIRE"
      BY <1>4, <2>1, KeyOpsWF DEF KeyCommand, Handle
    <2>2. CASE m.name \in {"DEL", "PERSIST"}
      <3>1. WellFormed(Del(e, now).e) /\ WellFormed(Persist(e, now).e)
        BY KeyOpsWF
      <3> QED
        BY <2>2, <3>1 DEF Handle
    <2> QED
      BY <1>4, <2>1, <2>2 DEF KeyCommand
  <1>5. CASE m \in HashCommand
    <2>1. CASE m.name = "HSET"
      BY <1>5, <2>1, HashOpsWF DEF HashCommand, Handle
    <2>2. CASE m.name = "HDEL"
      <3>1. \A fields : WellFormed(HDel(e, fields, now).e)
        BY NewEntryWF DEF HDel, Refused, WellFormed, Entry
      <3> QED
        BY <2>2, <3>1 DEF Handle
    <2> QED
      BY <1>5, <2>1, <2>2 DEF HashCommand
  <1>6. CASE m \in ListCommand
    <2>1. CASE m.name \in {"LPUSH", "RPUSH"}
      <3>1. m.vals \in SomeVals
        BY <1>6, <2>1 DEF ListCommand
      <3> QED
        BY <2>1, <3>1, ListOpsWF DEF Handle
    <2>2. CASE m.name \in {"LPOP", "RPOP"}
      <3>1. \A rest : WellFormed(Pop(e, rest, now).e)
        BY NewEntryWF DEF WellFormed, Pop, Done, Refused, Entry
      <3> QED
        BY <2>2, <3>1 DEF Handle, LPop, RPop
    <2> QED
      BY <1>6, <2>1, <2>2 DEF ListCommand
  <1> QED
    BY <1>1, <1>2, <1>3, <1>4, <1>5, <1>6 DEF Command, FlushCommand
----------------------------------------------------------------------------
(* Deadlines *)

\* What the updating methods do to the deadline of an entry they find live.
SameDeadline(r, e) == r.kind = "none" \/ r.expiresAt = e.expiresAt

\* The commands that build on the entry they find keep its deadline.
LEMMA HandleKeepsDeadline ==
  ASSUME NEW m \in Command,
         m.name \notin {"GET", "FLUSHDB", "SET", "MSET", "GETSET", "EXPIRE", "PERSIST"},
         NEW i, NEW e \in Entry, NEW now, Live(e, now)
  PROVE  SameDeadline(Handle(m, i, e, now).e, e)
  <1> USE DEF SameDeadline
  <1>1. \A kind : LiveOr(e, kind, now) = e
    BY DEF LiveOr
  <1>2. \A x, y, z : /\ [e EXCEPT !.str = x].expiresAt = e.expiresAt
                     /\ [e EXCEPT !.hash = y].expiresAt = e.expiresAt
                     /\ [e EXCEPT !.list = z].expiresAt = e.expiresAt
    BY DEF Entry
  <1>3. NoEntry.kind = "none"
    BY DEF NoEntry
  <1>4. \A x : Done(x).e = x /\ Refused(x).e = x
    BY DEF Done, Refused
  <1>5. \A v : SameDeadline(StrAppend(e, v, now).e, e)
    <2> TAKE v
    <2>1. StrAppend(e, v, now).e \in {e, [e EXCEPT !.str = @ \o v]}
      BY <1>1, <1>4 DEF StrAppend
    <2> QED
      BY <1>2, <2>1
  <1>6. \A d : SameDeadline(IncrBy(e, d, now).e, e)
    <2> TAKE d
    <2>1. IncrBy(e, d, now).e \in {e, [e EXCEPT !.str = <<Counter(e, now) + d>>]}
      BY <1>1, <1>4 DEF IncrBy
    <2> QED
      BY <1>2, <2>1
  <1>7. SameDeadline(Del(e, now).e, e)
    BY <1>3 DEF Del
  <1>8. \A p : SameDeadline(HSet(e, p, now).e, e)
    <2> TAKE p
    <2> DEFINE h == [f \in Fields |-> IF p[f] # {} THEN p[f] ELSE e.hash[f]]
    <2>1. HSet(e, p, now).e \in {e, [e EXCEPT !.hash = h]}
      BY <1>1, <1>4 DEF HSet
    <2> QED
      BY <1>2, <2>1
  <1>9. \A f : SameDeadline(HDel(e, f, now).e, e)
    BY <1>2, <1>3, <1>4 DEF HDel
  <1>10. \A v : SameDeadline(LPush(e, v, now).e, e) /\ SameDeadline(RPush(e, v, now).e, e)
    <2> TAKE v
    <2>1. LPush(e, v, now).e \in {e, [e EXCEPT !.list = Reverse(v) \o @]}
      BY <1>1, <1>4 DEF LPush
    <2>2. RPush(e, v, now).e \in {e, [e EXCEPT !.list = @ \o v]}
      BY <1>1, <1>4 DEF RPush
    <2> QED
      BY <1>2, <2>1, <2>2
  <1>11. \A r : SameDeadline(Pop(e, r, now).e, e)
    <2> TAKE r
    <2>1. Pop(e, r, now).e \in {e, NoEntry, [e EXCEPT !.list = r]}
      BY <1>4 DEF Pop
    <2> QED
      BY <1>2, <1>3, <2>1
  <1>12. m.name \in {"APPEND", "INCRBY", "DECRBY", "DEL", "HSET", "HDEL",
                     "LPUSH", "RPUSH", "LPOP", "RPOP"}
    BY DEF Command, SetCommand, MSetCommand, StringCommand, KeyCommand, HashCommand,
           ListCommand, FlushCommand
  <1> HIDE DEF SameDeadline
  <1> QED
    BY <1>5, <1>6, <1>7, <1>8, <1>9, <1>10, <1>11, <1>12 DEF Handle, LPop, RPop

SamePayload(r, s) == r.str = s.str /\ r.hash = s.hash /\ r.list = s.list

\* A string that is stored afresh does not depend on when, but for its deadline.
LEMMA StringEntryAlike ==
  \A v, ttl, now, then : SamePayload(StringEntry(v, ttl, now), StringEntry(v, ttl, then))
  BY DEF StringEntry, NewEntry, NoEntry, SamePayload

(***************************************************************************)
(* A method that finds the key dead leaves the entry alone or writes what  *)
(* it would have written had the key been absent.                          *)
(***************************************************************************)
LEMMA HandleDeadIsAbsent ==
  ASSUME NEW m \in Command, m.name \notin {"GET", "FLUSHDB"},
         NEW i, NEW e \in Entry, NEW now, NEW then, ~Live(e, now)
  PROVE  LET r == Handle(m, i, e, now).e
         IN  r = e \/ SamePayload(r, Handle(m, i, NoEntry, then).e)
  <1> DEFINE Alike(r, s) == r.e = e \/ SamePayload(r.e, s.e)
  <1>1. \A kind : /\ LiveOr(e, kind, now) = NewEntry(kind)
                  /\ LiveOr(NoEntry, kind, then) = NewEntry(kind)
                  /\ ~WrongType(e, kind, now) /\ ~WrongType(NoEntry, kind, then)
    BY DEF LiveOr, Live, WrongType, NoEntry
  <1>2. ~Live(NoEntry, then) /\ Counter(e, now) = 0 /\ Counter(NoEntry, then) = 0
    BY DEF Live, NoEntry, Counter
  <1>3. \A x : Done(x).e = x /\ Refused(x).e = x /\ SamePayload(x, x)
    BY DEF Done, Refused, SamePayload
  <1> HIDE DEF SamePayload
  <1>4. \A v, ttl : /\ Alike(Set(e, v, ttl, now), Set(NoEntry, v, ttl, then))
                    /\ Alike(SetNX(e, v, ttl, now), SetNX(NoEntry, v, ttl, then))
                    /\ Alike(SetXX(e, v, ttl, now), SetXX(NoEntry, v, ttl, then))
                    /\ Alike(GetSet(e, v, now), GetSet(NoEntry, v, then))
    BY <1>1, <1>2, <1>3, StringEntryAlike DEF Set, SetNX, SetXX, GetSet
  <1>5. \A v : Alike(StrAppend(e, v, now), StrAppend(NoEntry, v, then))
    BY <1>1, <1>3 DEF StrAppend
  <1>6. \A d : Alike(IncrBy(e, d, now), IncrBy(NoEntry, d, then))
    BY <1>1, <1>2, <1>3 DEF IncrBy
  <1>7. Alike(Del(e, now), Del(NoEntry, then))
    BY <1>3 DEF Del
  <1>8. Alike(Persist(e, now), Persist(NoEntry, then))
        /\ \A ttl : Alike(Expire(e, ttl, now), Expire(NoEntry, ttl, then))
    BY <1>3 DEF Persist, Expire
  <1>9. \A p : Alike(HSet(e, p, now), HSet(NoEntry, p, then))
    BY <1>1, <1>3 DEF HSet
  <1>10. \A f : Alike(HDel(e, f, now), HDel(NoEntry, f, then))
    BY <1>3 DEF HDel
  <1>11. \A v : /\ Alike(LPush(e, v, now), LPush(NoEntry, v, then))
                /\ Alike(RPush(e, v, now), RPush(NoEntry, v, then))
    BY <1>1, <1>3 DEF LPush, RPush
  <1>12. \A r, s : Alike(Pop(e, r, now), Pop(NoEntry, s, then))
    BY <1>3 DEF Pop
  <1>13. \/ m.name = "SET" /\ m.cond \in {"always", "NX", "XX"}
         \/ m.name \in {"MSET", "GETSET", "APPEND", "INCRBY", "DECRBY", "DEL", "EXPIRE",
                        "PERSIST", "HSET", "HDEL", "LPUSH", "RPUSH", "LPOP", "RPOP"}
    BY DEF Command, SetCommand, MSetCommand, StringCommand, KeyCommand, HashCommand,
           ListCommand, FlushCommand
  <1> HIDE DEF Alike
  <1>14. Alike(Handle(m, i, e, now), Handle(m, i, NoEntry, then))
    <2>1. CASE m.name = "SET"
      BY <1>4, <1>13, <2>1 DEF Handle
    <2>2. CASE m.name \in {"MSET", "GETSET", "APPEND", "INCRBY", "DECRBY", "DEL"}
      BY <1>4, <1>5, <1>6, <1>7, <2>2 DEF Handle
    <2>3. CASE m.name \in {"EXPIRE", "PERSIST", "HSET", "HDEL", "LPUSH", "RPUSH",
                           "LPOP", "RPOP"}
      BY <1>8, <1>9, <1>10, <1>11, <1>12, <2>3 DEF Handle, LPop, RPop
    <2> QED
      BY <1>13, <2>1, <2>2, <2>3
  <1> QED
    BY <1>14 DEF Alike

\* A counter that IncrBy changes holds the exact sum, which is an int64.
LEMMA IncrByExact ==
  ASSUME NEW e \in Entry, NEW d \in MinInt .. MaxInt, NEW now, IncrBy(e, d, now).e # e
  PROVE  /\ Counter(e, now) + d \in MinInt .. MaxInt
         /\ IncrBy(e, d, now).e.str = <<Counter(e, now) + d>>
  <1> DEFINE n == Counter(e, now)
             l == LiveOr(e, "string", now)
  <1>1. /\ Live(e, now) => IsInt64(e.str)
        /\ ~Overflows(n, d)
        /\ IncrBy(e, d, now).e = [l EXCEPT !.str = <<n + d>>]
    BY DEF IncrBy, Refused, Done
  <1>2. n \in MinInt .. MaxInt
    BY <1>1, MaxIntAssumption DEF Counter, IsInt64, MinInt
  <1>3. l \in Entry
    BY NewEntryType DEF LiveOr, Kinds
  <1> HIDE DEF n, l
  <1>4. n + d \in MinInt .. MaxInt
    BY <1>1, <1>2, MaxIntAssumption DEF Overflows, MinInt
  <1>5. [l EXCEPT !.str = <<n + d>>].str = <<n + d>>
    BY <1>3 DEF Entry
  <1> QED
    BY <1>1, <1>4, <1>5 DEF n
============================================================================
