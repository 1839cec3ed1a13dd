---------------------------- MODULE StoreRecency ----------------------------
(***************************************************************************)
(* Store with a history variable: the keys in the order in which commands  *)
(* last used them.  Store keeps that order in its LRU list; here it is     *)
(* kept beside the store, so that what the list says and what evictOne     *)
(* does with it can be held against what clients really did.               *)
(*                                                                         *)
(* There are two accounts of what a use is.  In RecencySpec it is a        *)
(* command that locks the mutex exclusively to read or write a value: SET, *)
(* GET, EXISTS, the pushes, LPOP, SADD, ZADD.  In ReadingSpec the commands *)
(* that answer from a value under the read lock, LRANGE, SMEMBERS and      *)
(* ZRANGE, are uses too, as they are for the client that sends them.       *)
(***************************************************************************)
EXTENDS Store

VARIABLE used   \* keys, the one used last first

Recent(k) == Cons(k, RemoveFirst(used, k))

RecencyNext ==
  \/ \E k \in Key :
       \/ Access(k) /\ used' = IF Has(store', k) THEN Recent(k) ELSE used
       \/ \E d \in Duration : Expire(k, d) /\ used' = used
  \/ (Removal \/ Tick) /\ used' = used

(* LRANGE, SMEMBERS or ZRANGE of a key that has such a value, expired or   *)
(* not: it needs the mutex free of a writer and changes nothing.           *)
RangeRead(k) ==
  /\ mu = "free"
  /\ Has(store, k) /\ store.data[k].vtype # "String"
  /\ used' = Recent(k)
  /\ UNCHANGED vars

RecencySpec == Init /\ used = <<>> /\ [][RecencyNext]_<<vars, used>>

ReadingSpec ==
  Init /\ used = <<>> /\ [][RecencyNext \/ \E k \in Key : RangeRead(k)]_<<vars, used>>

-----------------------------------------------------------------------------
(* The recency of the cache is the history, not the list.                  *)
Cache == INSTANCE BoundedCache WITH
  Capacity <- MaxKeys,
  cached   <- Present(store),
  older    <- {p \in Present(store) \X Present(store) :
                 \E i, j \in DOMAIN used : i < j /\ p = <<used[j], used[i]>>}

(* In RecencySpec, eviction goes by the last command that took the mutex   *)
(* exclusively for a key: such a key is not given up before one that no    *)
(* such command has named since.                                           *)
EvictsLeastRecentlyTouched == Cache!Spec

(* In ReadingSpec, the comment on lruList, "front = most recently used":   *)
(* a key whose value a client has just read is not given up before one     *)
(* that lay untouched, whichever command read it.                          *)
EvictsLeastRecentlyUsed == Cache!Spec

=============================================================================
