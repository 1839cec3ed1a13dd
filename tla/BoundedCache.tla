---------------------------- MODULE BoundedCache ----------------------------
(***************************************************************************)
(* What the -maxkeys flag promises: a cache that holds at most Capacity    *)
(* keys and, when a new key does not fit, gives up the one that was used   *)
(* least recently, and no other.  The recency of the cached keys is an     *)
(* order; nothing is said of lists, pointers or map entries.               *)
(***************************************************************************)
EXTENDS Integers, FiniteSets

CONSTANTS
  Key,
  Capacity   \* 0 or less: unlimited

VARIABLES
  cached,    \* the keys held
  older      \* <<j, k>>: j was last used before k

vars == <<cached, older>>

Init == cached = {} /\ older = {}

Youngest(k, others) == {<<j, k>> : j \in others}

Among(keys) == {p \in older : p[1] \in keys /\ p[2] \in keys}

Oldest(k) == k \in cached /\ \A j \in cached \ {k} : <<k, j>> \in older

Use(k) ==
  /\ k \in cached
  /\ cached' = cached
  /\ older' = Among(cached \ {k}) \cup Youngest(k, cached \ {k})

Add(k) ==
  /\ k \notin cached
  /\ Capacity > 0 => Cardinality(cached) < Capacity
  /\ cached' = cached \cup {k}
  /\ older' = older \cup Youngest(k, cached)

AddInPlaceOf(k, old) ==
  /\ k \notin cached
  /\ Capacity > 0 /\ Cardinality(cached) = Capacity
  /\ Oldest(old)
  /\ cached' = (cached \ {old}) \cup {k}
  /\ older' = Among(cached \ {old}) \cup Youngest(k, cached \ {old})

(* Deleted, popped or expired.                                             *)
Forget(k) ==
  /\ k \in cached
  /\ cached' = cached \ {k}
  /\ older' = Among(cached \ {k})

Clear == cached' = {} /\ older' = {}

Next ==
  \/ \E k \in Key : Use(k) \/ Add(k) \/ Forget(k)
  \/ \E k, old \in Key : AddInPlaceOf(k, old)
  \/ Clear

Spec == Init /\ [][Next]_vars

=============================================================================
