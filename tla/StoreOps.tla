------------------------------ MODULE StoreOps ------------------------------
(***************************************************************************)
(* The data structure of backend/internal/store/store.go and the helpers   *)
(* its commands are built from.  A store is one record, the Go struct of   *)
(* the same name: the hash map, the LRU list and the memory counter that   *)
(* Store.mu protects together.  Every operator here is a function from a   *)
(* store to a store, so that the state machine of module Store and the     *)
(* dispatcher of module Server run the same code.                          *)
(*                                                                         *)
(* Data abstraction.  Keys and payloads (string values, list elements, set *)
(* and sorted-set members) are model values; all keys are KeyLen bytes     *)
(* long and all payloads ValLen bytes.  A list.Element is identified with  *)
(* the key it carries: e.lruElem is the first element of lruList that      *)
(* carries e's key.                                                        *)
(***************************************************************************)
EXTENDS Integers, FiniteSets, SequencesExt

CONSTANTS
  Key,      \* keys a client may name
  Val,      \* payloads: values, list elements, members
  Score,    \* scores of sorted-set members
  NaN,      \* the score that is not a number; ParseFloat accepts it
  MaxKeys,  \* -maxkeys flag; 0 or less means unlimited
  KeyLen,   \* len(key)
  ValLen,   \* len(payload)
  Second,   \* clock ticks per second
  Absent,   \* the map has no entry for the key
  NoStr     \* the str field of an entry that is not a string

VType == {"String", "List", "Set", "ZSet"}

(* The zero time.Time: the entry does not expire.  The clock of the models *)
(* that use this module is positive.                                       *)
NoExpiry == 0

ScoreMap == UNION {[ms -> Score] : ms \in SUBSET Val}

Entry == [vtype: VType, str: Val \cup {NoStr}, list: Seq(Val),
          set: SUBSET Val, zset: ScoreMap, expiresAt: Nat]

StoreType == [data: [Key -> Entry \cup {Absent}],
              lruList: Seq(Key), byteUsed: Nat]

ASSUME StoreAssumption ==
  /\ IsFiniteSet(Key)
  /\ IsFiniteSet(Val)
  /\ Score \ {NaN} \subseteq Int
  /\ MaxKeys \in Int
  /\ KeyLen \in Nat
  /\ ValLen \in Nat
  /\ Second \in Nat \ {0}
  /\ Absent \notin Entry

NewEntry(vtype) ==
  [vtype |-> vtype, str |-> NoStr, list |-> <<>>, set |-> {},
   zset |-> [m \in {} |-> 0], expiresAt |-> NoExpiry]

EmptyStore == [data |-> [k \in Key |-> Absent], lruList |-> <<>>, byteUsed |-> 0]

Has(s, k) == s.data[k] # Absent

(* The keys of s.data, expired or not; len(s.data) is its cardinality.     *)
Present(s) == {k \in Key : Has(s, k)}

IsExpired(e, now) == e.expiresAt # NoExpiry /\ now > e.expiresAt

(* The ok result of getLocked.                                             *)
Live(s, k, now) == Has(s, k) /\ ~IsExpired(s.data[k], now)

EntrySize(e) ==
  64 + CASE e.vtype = "String" -> ValLen
         [] e.vtype = "List"   -> Len(e.list) * (ValLen + 16)
         [] e.vtype = "Set"    -> Cardinality(e.set) * 32
         [] e.vtype = "ZSet"   -> Cardinality(DOMAIN e.zset) * 48

-----------------------------------------------------------------------------
(* Internal helpers, called with the mutex held.                           *)

(* Mutant: the counter is not clamped at zero.                             *)
RemoveLockedUnclamped(s, k) ==
  [data     |-> [s.data EXCEPT ![k] = Absent],
   lruList  |-> RemoveFirst(s.lruList, k),
   byteUsed |-> s.byteUsed - (KeyLen + EntrySize(s.data[k]))]

(* Mutant: the length of the key is added on insertion, never subtracted.  *)
RemoveLockedKeyless(s, k) ==
  LET rest == s.byteUsed - EntrySize(s.data[k])
  IN  [data     |-> [s.data EXCEPT ![k] = Absent],
       lruList  |-> RemoveFirst(s.lruList, k),
       byteUsed |-> IF rest < 0 THEN 0 ELSE rest]

RemoveLocked(s, k) ==
  LET rest == s.byteUsed - (KeyLen + EntrySize(s.data[k]))
  IN  [data     |-> [s.data EXCEPT ![k] = Absent],
       lruList  |-> RemoveFirst(s.lruList, k),
       byteUsed |-> IF rest < 0 THEN 0 ELSE rest]

TouchLRU(s, k) == [s EXCEPT !.lruList = Cons(k, RemoveFirst(@, k))]

EvictOne(s) ==
  IF s.lruList # <<>> /\ Has(s, Last(s.lruList))
  THEN RemoveLocked(s, Last(s.lruList))
  ELSE s

OverLimit(s) == MaxKeys > 0 /\ Cardinality(Present(s)) > MaxKeys

(* Mutant: PushBack for PushFront.                                         *)
InsertAtBack(s, k, e) ==
  [data     |-> [s.data EXCEPT ![k] = e],
   lruList  |-> Append(s.lruList, k),
   byteUsed |-> s.byteUsed + KeyLen + EntrySize(e)]

(* The insertion half of setLocked, before the limit is enforced.          *)
Insert(s, k, e) ==
  [data     |-> [s.data EXCEPT ![k] = e],
   lruList  |-> Cons(k, s.lruList),
   byteUsed |-> s.byteUsed + KeyLen + EntrySize(e)]

(* Mutant: an existing entry is overwritten without being removed first.   *)
SetLockedOver(s, k, e) ==
  LET stored == Insert(s, k, e)
  IN  IF OverLimit(stored) THEN EvictOne(stored) ELSE stored

(* Mutant: the limit is tested before the insertion, not after it.         *)
SetLockedLate(s, k, e) ==
  LET old == IF Has(s, k) THEN RemoveLocked(s, k) ELSE s
  IN  Insert(IF OverLimit(old) THEN EvictOne(old) ELSE old, k, e)

(* setLocked.  The code loops while the store is over its limit; here the  *)
(* body runs once, and the invariant WithinLimit, which is the loop's exit *)
(* condition, is checked after it: once is always enough.                  *)
SetLocked(s, k, e) ==
  LET stored == Insert(IF Has(s, k) THEN RemoveLocked(s, k) ELSE s, k, e)
  IN  IF OverLimit(stored) THEN EvictOne(stored) ELSE stored

(* Mutant: a read does not move the key to the front.                      *)
GetLockedUntouched(s, k, now) ==
  IF Has(s, k) /\ ~Live(s, k, now) THEN RemoveLocked(s, k) ELSE s

GetLocked(s, k, now) ==
  IF Live(s, k, now) THEN TouchLRU(s, k)
  ELSE IF Has(s, k) THEN RemoveLocked(s, k) ELSE s

GetOrCreateLocked(s, k, vtype, now) ==
  IF Live(s, k, now) /\ s.data[k].vtype = vtype
  THEN s
  ELSE SetLocked(s, k, NewEntry(vtype))

-----------------------------------------------------------------------------
(* Commands that change the store.                                         *)

SetCmd(s, k, v) == SetLocked(s, k, [NewEntry("String") EXCEPT !.str = v])

DelOne(s, k) == IF Has(s, k) THEN RemoveLocked(s, k) ELSE s

(* Mutant: the check that the entry has not expired yet is missing.        *)
ExpireCmdAnyEntry(s, k, d, now) ==
  IF Has(s, k) THEN [s EXCEPT !.data[k].expiresAt = now + d] ELSE s

ExpireCmd(s, k, d, now) ==
  IF Live(s, k, now) THEN [s EXCEPT !.data[k].expiresAt = now + d] ELSE s

LPushCmd(s, k, vals, now) ==
  LET got == GetOrCreateLocked(s, k, "List", now)
  IN  TouchLRU([got EXCEPT !.data[k].list = Reverse(vals) \o @], k)

RPushCmd(s, k, vals, now) ==
  LET got == GetOrCreateLocked(s, k, "List", now)
  IN  TouchLRU([got EXCEPT !.data[k].list = @ \o vals], k)

(* LPOP refreshes or lazily removes the key first, whatever its type.      *)
LPopCmd(s, k, now) ==
  LET got == GetLocked(s, k, now)
  IN  IF Live(s, k, now) /\ got.data[k].vtype = "List" /\ got.data[k].list # <<>>
      THEN TouchLRU([got EXCEPT !.data[k].list = Tail(@)], k)
      ELSE got

SAddCmd(s, k, members, now) ==
  LET got == GetOrCreateLocked(s, k, "Set", now)
  IN  TouchLRU([got EXCEPT !.data[k].set = @ \cup members], k)

ZAddCmd(s, k, score, member, now) ==
  LET got  == GetOrCreateLocked(s, k, "ZSet", now)
      zset == got.data[k].zset
      new  == [m \in DOMAIN zset \cup {member} |->
                 IF m = member THEN score ELSE zset[m]]
  IN  TouchLRU([got EXCEPT !.data[k].zset = new], k)

-----------------------------------------------------------------------------
(* Commands that only read, under the read lock.                           *)

(* Seconds left, truncated; -1 when the key never expires, -2 without it.  *)
TTL(s, k, now) ==
  IF ~Has(s, k) THEN -2
  ELSE IF s.data[k].expiresAt = NoExpiry THEN -1
  ELSE IF s.data[k].expiresAt - now <= 0 THEN -2
  ELSE (s.data[k].expiresAt - now) \div Second

Keys(s, now) == {k \in Present(s) : ~IsExpired(s.data[k], now)}

Type(s, k, now) == IF Live(s, k, now) THEN s.data[k].vtype ELSE ""

(* Mutant: a negative stop is taken as exclusive.                          *)
ClampStopExclusive(stop, n) ==
  LET counted == IF stop < 0 THEN n + stop - 1 ELSE stop
  IN  IF counted >= n THEN n - 1 ELSE counted

(* The slice bounds LRANGE and ZRANGE compute for n elements, 0-based.     *)
ClampStart(start, n) == IF start < 0 THEN (IF n + start > 0 THEN n + start ELSE 0) ELSE start
ClampStop(stop, n) ==
  LET counted == IF stop < 0 THEN n + stop ELSE stop
  IN  IF counted >= n THEN n - 1 ELSE counted

(* items[start : stop+1] after clamping.                                   *)
Slice(items, start, stop) ==
  LET from == ClampStart(start, Len(items))
      to   == ClampStop(stop, Len(items))
  IN  IF from > to THEN <<>> ELSE SubSeq(items, from + 1, to + 1)

LRange(s, k, start, stop) ==
  IF Has(s, k) /\ s.data[k].vtype = "List"
  THEN Slice(s.data[k].list, start, stop)
  ELSE <<>>

SMembers(s, k) ==
  IF Has(s, k) /\ s.data[k].vtype = "Set" THEN s.data[k].set ELSE {}

(* The < of two float64 scores: NaN is neither less nor greater.            *)
Less(a, b) == a # NaN /\ b # NaN /\ a < b

(* One insertion of ZRANGE's sort: m moves left past every larger score,   *)
(* and stops at the first one that is not larger, NaN included.            *)
InsertByScore(sorted, m, zset) ==
  LET before == {i \in DOMAIN sorted :
                   \A j \in i .. Len(sorted) : Less(zset[m], zset[sorted[j]])}
      at     == IF before = {} THEN Len(sorted) + 1 ELSE Min(before)
  IN  InsertAt(sorted, at, m)

(* The results ZRANGE may return: the map is ranged over in any order, and *)
(* the sort keeps that order among members of equal score.                 *)
ZRange(s, k, start, stop) ==
  IF Has(s, k) /\ s.data[k].vtype = "ZSet"
  THEN LET zset == s.data[k].zset
       IN  { Slice(FoldLeft(LAMBDA sorted, m : InsertByScore(sorted, m, zset), <<>>, order),
                   start, stop) : order \in SetToSeqs(DOMAIN zset) }
  ELSE {<<>>}

=============================================================================
