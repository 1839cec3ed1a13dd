------------------------------- MODULE Store -------------------------------
(***************************************************************************)
(* The store of backend/internal/store/store.go as a state machine: client *)
(* goroutines issue commands, the background sweeper removes what expired, *)
(* and Store.mu serialises them.                                           *)
(*                                                                         *)
(* A command that changes a bounded number of keys runs in one step, since *)
(* it holds the mutex from its first line to its last.  The two loops over *)
(* many keys, DEL k1 k2 ... and a pass of the sweeper, hold the mutex for  *)
(* a step per key: time passes between the iterations, and the sweeper     *)
(* reads the clock anew for each key.  Read-only commands are the          *)
(* operators of StoreOps; the properties below evaluate them in the states *)
(* in which the read lock can be taken.                                    *)
(***************************************************************************)
EXTENDS StoreOps

CONSTANTS
  VTypes,     \* the value types clients write
  Duration,   \* arguments of Expire, in ticks; EXPIRE takes negative ones
  Start,      \* the clock when the process starts
  MaxTime,    \* bound: the clock stops here
  MaxLen,     \* bound: no push makes a list longer than this
  MaxArgs     \* bound: values in one LPUSH, RPUSH, SADD; keys in one DEL

ASSUME ClockAssumption ==
  /\ VTypes \subseteq VType
  /\ Start \in Nat \ {0}
  /\ Duration \subseteq Int
  /\ \A d \in Duration : Start + d > 0
  /\ MaxTime \in Nat
  /\ MaxLen \in Nat
  /\ MaxArgs \in Nat

VARIABLES
  store,   \* the Store record
  now,     \* time.Now(), in ticks
  mu,      \* the loop that holds Store.mu between two iterations, or "free"
  todo     \* keys that loop has not visited yet

vars == <<store, now, mu, todo>>

Args == UNION {[1 .. n -> Val] : n \in 1 .. MaxArgs}

Init ==
  /\ store = EmptyStore
  /\ now = Start
  /\ mu = "free"
  /\ todo = {}

-----------------------------------------------------------------------------
(* A command that takes the mutex, turns the store into s and returns.     *)
Run(s) ==
  /\ mu = "free"
  /\ store' = s
  /\ UNCHANGED <<now, mu, todo>>

Set(k, v) == "String" \in VTypes /\ Run(SetCmd(store, k, v))

(* Get, GetString and Exists: on the store they all are one getLocked.     *)
Get(k) == Run(GetLocked(store, k, now))

Expire(k, d) == Run(ExpireCmd(store, k, d, now))

(* The bound on list lengths, for a push of vals on k.                     *)
Fits(k, vals) == Has(store, k) => Len(store.data[k].list) + Len(vals) <= MaxLen

LPush(k, vals) ==
  /\ "List" \in VTypes
  /\ Fits(k, vals)
  /\ Run(LPushCmd(store, k, vals, now))

RPush(k, vals) ==
  /\ "List" \in VTypes
  /\ Fits(k, vals)
  /\ Run(RPushCmd(store, k, vals, now))

LPop(k) == Run(LPopCmd(store, k, now))

SAdd(k, members) == "Set" \in VTypes /\ Run(SAddCmd(store, k, members, now))

ZAdd(k, score, member) ==
  "ZSet" \in VTypes /\ Run(ZAddCmd(store, k, score, member, now))

FlushAll == Run(EmptyStore)

-----------------------------------------------------------------------------
(* The two loops that hold the mutex over several keys.                    *)

DelBegin(keys) ==
  /\ mu = "free"
  /\ mu' = "del"
  /\ todo' = keys
  /\ UNCHANGED <<store, now>>

DelStep(k) ==
  /\ mu = "del"
  /\ k \in todo
  /\ store' = DelOne(store, k)
  /\ todo' = todo \ {k}
  /\ UNCHANGED <<now, mu>>

(* The ticker fired: range over the map, whose key set cannot grow now.    *)
SweepBegin ==
  /\ mu = "free"
  /\ mu' = "sweep"
  /\ todo' = Present(store)
  /\ UNCHANGED <<store, now>>

(* Mutant: the sweeper compares the wrong way round.                       *)
SweepStepInverted(k) ==
  /\ mu = "sweep"
  /\ k \in todo
  /\ store' = IF Has(store, k) /\ now < store.data[k].expiresAt
              THEN RemoveLocked(store, k) ELSE store
  /\ todo' = todo \ {k}
  /\ UNCHANGED <<now, mu>>

SweepStep(k) ==
  /\ mu = "sweep"
  /\ k \in todo
  /\ store' = IF Has(store, k) /\ IsExpired(store.data[k], now)
              THEN RemoveLocked(store, k) ELSE store
  /\ todo' = todo \ {k}
  /\ UNCHANGED <<now, mu>>

Unlock ==
  /\ mu # "free"
  /\ todo = {}
  /\ mu' = "free"
  /\ UNCHANGED <<store, now, todo>>

Tick ==
  /\ now < MaxTime
  /\ now' = now + 1
  /\ UNCHANGED <<store, mu, todo>>

-----------------------------------------------------------------------------
(* The commands that take a key through the LRU list.                      *)
Access(k) ==
  \/ \E v \in Val : Set(k, v)
  \/ Get(k)
  \/ \E vals \in Args : LPush(k, vals) \/ RPush(k, vals)
  \/ LPop(k)
  \/ \E members \in SUBSET Val : Cardinality(members) \in 1 .. MaxArgs /\ SAdd(k, members)
  \/ \E score \in Score, member \in Val : ZAdd(k, score, member)

Removal ==
  \/ FlushAll
  \/ \E keys \in SUBSET Key : Cardinality(keys) \in 1 .. MaxArgs /\ DelBegin(keys)
  \/ SweepBegin
  \/ \E k \in Key : DelStep(k) \/ SweepStep(k)
  \/ Unlock

Next ==
  \/ \E k \in Key : Access(k)
  \/ \E k \in Key, d \in Duration : Expire(k, d)
  \/ Removal
  \/ Tick

Spec == Init /\ [][Next]_vars

(* What the Go runtime gives the sweeper: a goroutine inside a loop runs   *)
(* on, and a goroutine that waits for a sync.Mutex gets it in the end even *)
(* if others keep taking it (starvation mode), hence strong fairness.      *)
SweeperFairness ==
  /\ \A k \in Key : WF_vars(DelStep(k)) /\ WF_vars(SweepStep(k))
  /\ WF_vars(Unlock)
  /\ SF_vars(SweepBegin)

FairSpec == Spec /\ SweeperFairness /\ WF_vars(Tick)

-----------------------------------------------------------------------------
(* Properties.                                                             *)

(* Every variable has its type; the loops leave nothing over when they     *)
(* return the mutex.                                                       *)
TypeOK ==
  /\ store \in StoreType
  /\ now \in Nat /\ now >= Start
  /\ mu \in {"free", "del", "sweep"}
  /\ todo \subseteq Key
  /\ mu = "free" => todo = {}

(* The LRU list carries every key of the map exactly once.  setLocked      *)
(* pushes and removeLocked unlinks by hand; an element without a map entry *)
(* at the back of the list makes evictOne do nothing, and the eviction     *)
(* loop of setLocked never ends.                                           *)
LRUCoherent ==
  /\ IsInjective(store.lruList)
  /\ ToSet(store.lruList) = Present(store)

(* The eviction loop has reached its exit condition: with -maxkeys the map *)
(* never holds more than MaxKeys keys, expired ones included.              *)
WithinLimit == ~OverLimit(store)

(* What the memory counter accounts for each key: its size when inserted.  *)
InsertedBytes(s) ==
  Cardinality(Present(s)) * (KeyLen + 64)
    + Cardinality({k \in Present(s) : s.data[k].vtype = "String"}) * ValLen

(* BytesUsed never reports more than was inserted and not removed since,   *)
(* although pushes grow an entry behind its back and its removal then      *)
(* subtracts the grown size.                                               *)
BytesNeverOverstated == store.byteUsed <= InsertedBytes(store)

(* Whatever is written next, the eviction it may cost does not take the    *)
(* key just stored: getOrCreateLocked returns s.data[key] after it, and    *)
(* LPush would dereference a nil entry.                                    *)
WrittenKeyKept ==
  mu = "free" =>
    \A k \in Key :
      /\ \A v \in Val : Has(SetCmd(store, k, v), k)
      /\ \A vtype \in VType : Has(GetOrCreateLocked(store, k, vtype, now), k)

(* Lazy expiry and the sweeper cannot be told from expiry on the dot: what *)
(* getLocked would find is an ExpiringMap.                                 *)
Visible == INSTANCE ExpiringMap WITH
  view <- [k \in Key |-> IF Live(store, k, now) THEN store.data[k] ELSE Absent]

ExpiresOnTheDot == Visible!Spec

(* LRANGE answers the elements between both bounds, inclusive, whatever    *)
(* bounds a client sends; negative ones count from the end.  The code      *)
(* clamps in three steps instead; one element too many is a slice panic.   *)
RangeIsInclusive ==
  \A k \in Key : Has(store, k) =>
    LET list == store.data[k].list
        At(i) == IF i < 0 THEN Len(list) + i + 1 ELSE i + 1
    IN  \A start, stop \in -(MaxLen + 2) .. MaxLen + 1 :
          LET chosen == {i \in DOMAIN list : At(start) <= i /\ i <= At(stop)}
              reply  == LRange(store, k, start, stop)
          IN  /\ Len(reply) = Cardinality(chosen)
              /\ \A i \in DOMAIN reply : reply[i] = list[Min(chosen) + i - 1]

(* ZRANGE answers every member once and, unless one of them has NaN for a  *)
(* score, in the order of the scores, whatever the order in which the map  *)
(* was ranged over.                                                        *)
ZRangeIsSorted ==
  \A k \in Key : Has(store, k) =>
    \A reply \in ZRange(store, k, 0, -1) :
      LET zset == store.data[k].zset
      IN  /\ IsInjective(reply) /\ ToSet(reply) = DOMAIN zset
          /\ (\A m \in DOMAIN zset : zset[m] # NaN)
               => \A i, j \in DOMAIN reply : i < j => zset[reply[i]] <= zset[reply[j]]

(* The comment on ZRange, "returns members sorted by score", of the        *)
(* members whose scores are numbers: a NaN stays where it is and keeps the *)
(* ones before it from those behind it.                                    *)
SortedByScore ==
  \A k \in Key : Has(store, k) =>
    \A reply \in ZRange(store, k, 0, -1) :
      LET zset == store.data[k].zset
      IN  \A i, j \in DOMAIN reply : i < j => ~Less(zset[reply[j]], zset[reply[i]])

(* What the range reads answer, for every list and sorted set reachable.   *)
RangesAnswer == RangeIsInclusive /\ ZRangeIsSorted

(* "TTL uses a lazy-expiry check on every read" (store.go:3-4): what has   *)
(* expired is not in the reply of a range read.                            *)
ExpiredNotRead ==
  \A k \in Key : Has(store, k) /\ IsExpired(store.data[k], now) => LRange(store, k, 0, -1) = <<>>

(* The sweeper's promise: whatever has expired leaves the map, even if no  *)
(* client ever asks for it again.                                          *)
ExpiredKeysLeave ==
  \A k \in Key : (Has(store, k) /\ IsExpired(store.data[k], now))
                    ~> ~(Has(store, k) /\ IsExpired(store.data[k], now))

=============================================================================
