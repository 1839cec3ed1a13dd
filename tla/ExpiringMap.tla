----------------------------- MODULE ExpiringMap -----------------------------
(***************************************************************************)
(* What clients are promised about expiry and types: a map whose entries   *)
(* are gone the moment they expire, with no sweeper, no recency list, no   *)
(* memory counter and no key that lingers.  A command sees and changes the *)
(* entry of its own key only; with a limit on keys, storing a new key may  *)
(* cost one other key.                                                     *)
(***************************************************************************)
EXTENDS StoreOps

CONSTANTS Duration, Start, Args

VARIABLES
  view,   \* the entries a client can see
  now

vars == <<view, now>>

Init == view = [k \in Key |-> Absent] /\ now = Start

Shown(k) == view[k] # Absent

(* The entry of k becomes e.  A new key may push out at most one other.    *)
Become(k, e) ==
  /\ now' = now
  /\ \E lost \in SUBSET {j \in Key \ {k} : Shown(j)} :
       /\ lost # {} => MaxKeys > 0 /\ ~Shown(k) /\ \A i, j \in lost : i = j
       /\ view' = [j \in Key |-> IF j = k THEN e
                                 ELSE IF j \in lost THEN Absent ELSE view[j]]

(* The entry a command on values of type vtype works on: a key of another  *)
(* type is overwritten, as SET would do.                                   *)
Typed(k, vtype) ==
  IF Shown(k) /\ view[k].vtype = vtype THEN view[k] ELSE NewEntry(vtype)

Put(k, v) == Become(k, [NewEntry("String") EXCEPT !.str = v])

Prepend(k, vals) == Become(k, [Typed(k, "List") EXCEPT !.list = Reverse(vals) \o @])

Extend(k, vals) == Become(k, [Typed(k, "List") EXCEPT !.list = @ \o vals])

Pop(k) ==
  /\ Shown(k) /\ view[k].vtype = "List" /\ view[k].list # <<>>
  /\ Become(k, [view[k] EXCEPT !.list = Tail(@)])

AddMembers(k, members) == Become(k, [Typed(k, "Set") EXCEPT !.set = @ \cup members])

Rank(k, score, member) ==
  Become(k, [Typed(k, "ZSet") EXCEPT !.zset =
               [m \in DOMAIN @ \cup {member} |-> IF m = member THEN score ELSE @[m]]])

(* A deadline in the past takes the key away at once.                      *)
Limit(k, d) ==
  /\ Shown(k)
  /\ now' = now
  /\ view' = [view EXCEPT ![k] = IF d < 0 THEN Absent
                                 ELSE [@ EXCEPT !.expiresAt = now + d]]

Delete(k) == now' = now /\ view' = [view EXCEPT ![k] = Absent]

Clear == now' = now /\ view' = [k \in Key |-> Absent]

(* Time passes, and what has expired is gone.                              *)
Advance ==
  /\ now' = now + 1
  /\ view' = [k \in Key |-> IF Shown(k) /\ IsExpired(view[k], now + 1)
                            THEN Absent ELSE view[k]]

Next ==
  \/ \E k \in Key :
       \/ \E v \in Val : Put(k, v)
       \/ \E vals \in Args : Prepend(k, vals) \/ Extend(k, vals)
       \/ Pop(k)
       \/ \E members \in SUBSET Val : AddMembers(k, members)
       \/ \E score \in Score, member \in Val : Rank(k, score, member)
       \/ \E d \in Duration : Limit(k, d)
       \/ Delete(k)
  \/ Clear
  \/ Advance

Spec == Init /\ [][Next]_vars

=============================================================================
