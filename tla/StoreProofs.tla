----------------------------- MODULE StoreProofs -----------------------------
(***************************************************************************)
(* Proofs about Store, for every set of keys, every limit and every clock: *)
(* the LRU list and the map describe the same keys, the limit on keys is   *)
(* kept, the memory counter is within what was inserted, the store with    *)
(* its lazy expiry, sweeper and eviction implements the map of ExpiringMap *)
(* and, with what commands really did as recency, the cache of             *)
(* BoundedCache.  What each operator does is in StoreOpsProofs; here are   *)
(* the steps.                                                              *)
(***************************************************************************)
EXTENDS StoreRecency, StoreOpsProofs

-----------------------------------------------------------------------------
(* The state machine.                                                      *)

(* WithinLimit alone is not inductive: that one eviction is enough rests   *)
(* on the list carrying the map's keys, and that on the types.             *)
IInv == TypeOK /\ Sound(store)

LEMMA InitIInv == Init => IInv
<1> SUFFICES ASSUME Init PROVE IInv
  OBVIOUS
<1>1. Sound(store)
  BY EmptyStoreSound DEF Init
<1>2. TypeOK
  BY <1>1, ClockAssumption DEF Init, TypeOK, Sound, Coherent
<1>3. QED
  BY <1>1, <1>2 DEF IInv

(* A command that runs in one step needs to leave a sound store only.      *)
LEMMA RunIInv ==
  ASSUME IInv, NEW s, Sound(s), Run(s)
  PROVE  IInv'
BY DEF IInv, TypeOK, Run, Sound, Coherent, OverLimit, Present, Has

LEMMA AccessIInv ==
  ASSUME IInv, NEW k \in Key, Access(k)
  PROVE  IInv'
<1>0. Sound(store)
  BY DEF IInv
<1>1. CASE \E v \in Val : Set(k, v)
  BY <1>0, <1>1, SetCmdSound, RunIInv DEF Set
<1>2. CASE Get(k)
  BY <1>0, <1>2, GetLockedSound, RunIInv DEF Get
<1>3. CASE \E vals \in Args : LPush(k, vals) \/ RPush(k, vals)
  <2>1. PICK vals \in Args : LPush(k, vals) \/ RPush(k, vals)
    BY <1>3
  <2>2. vals \in Seq(Val)
    BY ClockAssumption DEF Args
  <2>3. QED
    BY <1>0, <2>1, <2>2, PushSound, RunIInv DEF LPush, RPush
<1>4. CASE LPop(k)
  BY <1>0, <1>4, LPopCmdSound, RunIInv DEF LPop
<1>5. CASE \E members \in SUBSET Val : SAdd(k, members)
  BY <1>0, <1>5, SAddCmdSound, RunIInv DEF SAdd
<1>6. CASE \E score \in Score, member \in Val : ZAdd(k, score, member)
  BY <1>0, <1>6, ZAddCmdSound, RunIInv DEF ZAdd
<1>7. QED
  BY <1>1, <1>2, <1>3, <1>4, <1>5, <1>6 DEF Access

LEMMA NextIInv == IInv /\ [Next]_vars => IInv'
<1> SUFFICES ASSUME IInv, [Next]_vars PROVE IInv'
  OBVIOUS
<1>0. TypeOK /\ Sound(store)
  BY DEF IInv
<1>1. ASSUME NEW k \in Key, Access(k) PROVE IInv'
  BY <1>1, AccessIInv
<1>2. ASSUME NEW k \in Key, NEW d \in Duration, Expire(k, d) PROVE IInv'
  <2>1. now + d \in Nat
    BY <1>0, ClockAssumption DEF TypeOK
  <2>2. QED
    BY <1>0, <1>2, <2>1, ExpireCmdSound, RunIInv DEF Expire
<1>3. CASE FlushAll
  BY <1>3, EmptyStoreSound, RunIInv DEF FlushAll
<1>4. ASSUME NEW keys \in SUBSET Key, DelBegin(keys) PROVE IInv'
  BY <1>0, <1>4 DEF DelBegin, IInv, TypeOK, Sound, Coherent, OverLimit, Present, Has
<1>5. CASE SweepBegin
  BY <1>0, <1>5 DEF SweepBegin, IInv, TypeOK, Sound, Coherent, OverLimit, Present, Has
<1>6. ASSUME NEW k \in Key, DelStep(k) \/ SweepStep(k) PROVE IInv'
  <2>1. Sound(store')
    BY <1>0, <1>6, RemoveLockedSound DEF DelStep, SweepStep, DelOne
  <2>2. TypeOK'
    BY <1>0, <1>6, <2>1 DEF DelStep, SweepStep, TypeOK, Sound, Coherent
  <2>3. QED
    BY <2>1, <2>2 DEF IInv
<1>7. CASE Unlock
  BY <1>0, <1>7 DEF Unlock, IInv, TypeOK, Sound, Coherent, OverLimit, Present, Has
<1>8. CASE Tick
  BY <1>0, <1>8, ClockAssumption DEF Tick, IInv, TypeOK, Sound, Coherent, OverLimit, Present, Has
<1>9. CASE UNCHANGED vars
  BY <1>0, <1>9 DEF vars, IInv, TypeOK, Sound, Coherent, OverLimit, Present, Has
<1>10. CASE Removal
  <2>1. CASE \E keys \in SUBSET Key : Cardinality(keys) \in 1 .. MaxArgs /\ DelBegin(keys)
    BY <1>4, <2>1
  <2>2. CASE \E k \in Key : DelStep(k) \/ SweepStep(k)
    BY <1>6, <2>2
  <2>3. QED
    BY <1>3, <1>5, <1>7, <1>10, <2>1, <2>2 DEF Removal
<1>11. CASE Next
  <2>1. CASE \E k \in Key : Access(k)
    BY <1>1, <2>1
  <2>2. CASE \E k \in Key, d \in Duration : Expire(k, d)
    BY <1>2, <2>2
  <2>3. QED
    BY <1>8, <1>10, <1>11, <2>1, <2>2 DEF Next
<1>12. QED
  BY <1>9, <1>11

LEMMA Invariance == Spec => []IInv
<1>1. QED
  BY InitIInv, NextIInv, PTL DEF Spec

-----------------------------------------------------------------------------
(* The memory counter.                                                     *)

(* The counter is within what was inserted, for any store.                 *)
Bounded(s) == s.byteUsed <= InsertedBytes(s)

Strings(s) == {k \in Present(s) : s.data[k].vtype = "String"}

(* What an entry adds to InsertedBytes.                                    *)
Share(e) == KeyLen + 64 + IF e.vtype = "String" THEN ValLen ELSE 0

LEMMA InsertedNat ==
  ASSUME NEW s
  PROVE  /\ IsFiniteSet(Strings(s)) /\ Cardinality(Strings(s)) \in Nat
         /\ InsertedBytes(s) = Cardinality(Present(s)) * (KeyLen + 64)
                                 + Cardinality(Strings(s)) * ValLen
         /\ InsertedBytes(s) \in Nat
<1>1. IsFiniteSet(Present(s)) /\ Cardinality(Present(s)) \in Nat
  BY PresentFinite
<1>2. Strings(s) \subseteq Present(s)
  BY DEF Strings
<1>3. IsFiniteSet(Strings(s)) /\ Cardinality(Strings(s)) \in Nat
  BY <1>1, <1>2, FS_Subset, FS_CardinalityType
<1>4. InsertedBytes(s) = Cardinality(Present(s)) * (KeyLen + 64)
                           + Cardinality(Strings(s)) * ValLen
  BY DEF InsertedBytes, Strings
<1>5. \A c, n \in Nat : c * n \in Nat
  OBVIOUS
<1>6. QED
  BY <1>1, <1>3, <1>4, <1>5, StoreAssumption

LEMMA Distributes ==
  ASSUME NEW c \in Nat, NEW n \in Nat
  PROVE  (n + 1) * c = n * c + c /\ n * c \in Nat
OBVIOUS

(* InsertedBytes counts key by key.                                        *)
LEMMA InsertedMore ==
  ASSUME NEW s, s.data \in [Key -> Entry \cup {Absent}], NEW k \in Key, ~Has(s, k),
         NEW e \in Entry, NEW r, r.data = [s.data EXCEPT ![k] = e]
  PROVE  InsertedBytes(r) = InsertedBytes(s) + Share(e)
<1>1. e # Absent
  BY StoreAssumption
<1>2. \A j \in Key : r.data[j] = IF j = k THEN e ELSE s.data[j]
  OBVIOUS
<1>3. Present(r) = Present(s) \cup {k} /\ k \notin Present(s)
  BY <1>1, <1>2 DEF Present, Has
<1>4. Cardinality(Present(r)) = Cardinality(Present(s)) + 1
  BY <1>3, PresentFinite, FS_AddElement
<1>5. k \notin Strings(s)
  BY <1>3 DEF Strings
<1>6. Strings(r) = IF e.vtype = "String" THEN Strings(s) \cup {k} ELSE Strings(s)
  BY <1>2, <1>3 DEF Strings, Present
<1>7. Cardinality(Strings(r)) = Cardinality(Strings(s)) + IF e.vtype = "String" THEN 1 ELSE 0
  <2>1. CASE e.vtype = "String"
    BY <1>5, <1>6, <2>1, InsertedNat, FS_AddElement
  <2>2. CASE e.vtype # "String"
    BY <1>6, <2>2, InsertedNat
  <2>3. QED
    BY <2>1, <2>2
<1>8. Cardinality(Present(r)) * (KeyLen + 64)
        = Cardinality(Present(s)) * (KeyLen + 64) + (KeyLen + 64)
  BY <1>4, PresentFinite, Distributes, StoreAssumption
<1>9. Cardinality(Strings(r)) * ValLen
        = Cardinality(Strings(s)) * ValLen + IF e.vtype = "String" THEN ValLen ELSE 0
  BY <1>7, InsertedNat, Distributes, StoreAssumption
<1>10. /\ Cardinality(Present(s)) * (KeyLen + 64) \in Nat
       /\ Cardinality(Strings(s)) * ValLen \in Nat
  BY PresentFinite, InsertedNat, Distributes, StoreAssumption
<1>11. /\ InsertedBytes(r) = Cardinality(Present(r)) * (KeyLen + 64)
                             + Cardinality(Strings(r)) * ValLen
       /\ InsertedBytes(s) = Cardinality(Present(s)) * (KeyLen + 64)
                             + Cardinality(Strings(s)) * ValLen
  BY InsertedNat
<1> DEFINE rp == Cardinality(Present(r)) * (KeyLen + 64)
           sp == Cardinality(Present(s)) * (KeyLen + 64)
           rs == Cardinality(Strings(r)) * ValLen
           ss == Cardinality(Strings(s)) * ValLen
<1>12. /\ rp = sp + (KeyLen + 64)
       /\ rs = ss + IF e.vtype = "String" THEN ValLen ELSE 0
       /\ sp \in Nat /\ ss \in Nat
       /\ InsertedBytes(r) = rp + rs /\ InsertedBytes(s) = sp + ss
  BY <1>8, <1>9, <1>10, <1>11
<1> HIDE DEF rp, sp, rs, ss
<1>13. QED
  BY <1>12, StoreAssumption DEF Share

LEMMA ShareWithinSize ==
  ASSUME NEW e \in Entry
  PROVE  /\ Share(e) \in Nat /\ Share(e) <= KeyLen + EntrySize(e)
         /\ e.vtype = "String" => Share(e) = KeyLen + EntrySize(e)
         /\ KeyLen + EntrySize(e) \in Nat
<1>1. EntrySize(e) \in Nat /\ EntrySize(e) >= 64 /\ KeyLen \in Nat /\ ValLen \in Nat
  BY EntrySizeNat, StoreAssumption
<1>2. e.vtype = "String" => EntrySize(e) = 64 + ValLen
  BY DEF EntrySize
<1>3. QED
  BY <1>1, <1>2 DEF Share

LEMMA RemoveBounded ==
  ASSUME NEW s, Coherent(s), Bounded(s), NEW k \in Key, Has(s, k)
  PROVE  Bounded(RemoveLocked(s, k))
<1> DEFINE r == RemoveLocked(s, k)
           e == s.data[k]
<1>1. s.data \in [Key -> Entry \cup {Absent}] /\ s.byteUsed \in Nat /\ e \in Entry
  BY EntryOfKey DEF Coherent, StoreType
<1>2. r.data = [s.data EXCEPT ![k] = Absent]
  BY RemoveLockedCoherent
<1>3. InsertedBytes(s) = InsertedBytes(r) + Share(e)
  <2>1. r.data \in [Key -> Entry \cup {Absent}] /\ ~Has(r, k)
    BY <1>1, <1>2 DEF Has
  <2>2. s.data = [r.data EXCEPT ![k] = e]
    BY <1>1, <1>2
  <2> HIDE DEF r, e
  <2>3. QED
    BY <1>1, <2>1, <2>2, InsertedMore
<1>4. r.byteUsed = LET rest == s.byteUsed - (KeyLen + EntrySize(e))
                   IN  IF rest < 0 THEN 0 ELSE rest
  BY DEF RemoveLocked
<1> HIDE DEF r, e
<1>5. Bounded(r)
  BY <1>1, <1>3, <1>4, ShareWithinSize, InsertedNat DEF Bounded
<1>6. QED
  BY <1>5 DEF r

LEMMA SetLockedBounded ==
  ASSUME NEW s, Sound(s), Bounded(s), NEW k \in Key, NEW e \in Entry,
         KeyLen + EntrySize(e) = Share(e)
  PROVE  Bounded(SetLocked(s, k, e))
<1> DEFINE old == IF Has(s, k) THEN RemoveLocked(s, k) ELSE s
           new == Insert(old, k, e)
<1>1. Coherent(s) /\ s.data \in [Key -> Entry \cup {Absent}]
  BY DEF Sound, Coherent, StoreType
<1>2. Coherent(old) /\ ~Has(old, k) /\ Bounded(old)
  <2>1. CASE Has(s, k)
    <3>1. RemoveLocked(s, k).data = [s.data EXCEPT ![k] = Absent]
      BY <1>1, <2>1, RemoveLockedCoherent
    <3>2. ~Has(RemoveLocked(s, k), k)
      BY <1>1, <3>1 DEF Has
    <3>3. QED
      BY <1>1, <2>1, <3>2, RemoveLockedCoherent, RemoveBounded
  <2>2. CASE ~Has(s, k)
    BY <1>1, <2>2
  <2>3. QED
    BY <2>1, <2>2
<1>3. SetLocked(s, k, e) = IF OverLimit(new) THEN EvictOne(new) ELSE new
  BY DEF SetLocked
<1> HIDE DEF old
<1>4. Coherent(new) /\ new.data = [old.data EXCEPT ![k] = e]
  BY <1>2, InsertCoherent
<1>5. Bounded(new)
  <2>1. old.data \in [Key -> Entry \cup {Absent}] /\ old.byteUsed \in Nat
    BY <1>2 DEF Coherent, StoreType
  <2>2. new.byteUsed = old.byteUsed + KeyLen + EntrySize(e)
    BY DEF Insert
  <2> HIDE DEF new
  <2>3. InsertedBytes(new) = InsertedBytes(old) + Share(e)
    BY <1>2, <1>4, <2>1, InsertedMore
  <2>4. QED
    BY <1>2, <2>1, <2>2, <2>3, InsertedNat, ShareWithinSize, EntrySizeNat, StoreAssumption
       DEF Bounded
<1> HIDE DEF new
<1>6. CASE new.lruList # <<>> /\ Has(new, Last(new.lruList))
  <2>1. Last(new.lruList) \in Key
    <3>1. new.lruList \in Seq(Key)
      BY <1>4 DEF Coherent, StoreType
    <3>2. QED
      BY <1>6, <3>1 DEF Last
  <2>2. Bounded(EvictOne(new))
    BY <1>4, <1>5, <1>6, <2>1, RemoveBounded DEF EvictOne
  <2>3. QED
    BY <1>3, <1>5, <2>2
<1>7. CASE ~(new.lruList # <<>> /\ Has(new, Last(new.lruList)))
  BY <1>3, <1>5, <1>7 DEF EvictOne
<1>8. QED
  BY <1>6, <1>7

(* Growing or shrinking an entry in place leaves both sides alone.         *)
LEMMA WriteEntryBounded ==
  ASSUME NEW s, Coherent(s), Bounded(s), NEW k \in Key, Has(s, k),
         NEW e \in Entry, e.vtype = s.data[k].vtype
  PROVE  /\ Bounded([s EXCEPT !.data[k] = e])
         /\ Bounded(TouchLRU([s EXCEPT !.data[k] = e], k))
<1> DEFINE r == [s EXCEPT !.data[k] = e]
<1>1. s \in StoreType
  BY DEF Coherent
<1>2. r.data = [s.data EXCEPT ![k] = e] /\ r.byteUsed = s.byteUsed
  BY <1>1 DEF StoreType
<1>3. s.data \in [Key -> Entry \cup {Absent}] /\ e # Absent
  BY <1>1, StoreAssumption DEF StoreType
<1>4. \A j \in Key : r.data[j] = IF j = k THEN e ELSE s.data[j]
  BY <1>2, <1>3
<1>5. /\ TouchLRU(r, k).data = r.data /\ TouchLRU(r, k).byteUsed = r.byteUsed
  BY <1>1 DEF TouchLRU, StoreType
<1> HIDE DEF r
<1>6. Present(r) = Present(s) /\ Present(TouchLRU(r, k)) = Present(s)
  BY <1>3, <1>4, <1>5 DEF Present, Has
<1>7. Strings(r) = Strings(s) /\ Strings(TouchLRU(r, k)) = Strings(s)
  BY <1>4, <1>5, <1>6 DEF Strings, Present
<1>8. Bounded(r) /\ Bounded(TouchLRU(r, k))
  BY <1>2, <1>5, <1>6, <1>7, InsertedNat DEF Bounded
<1>9. QED
  BY <1>8 DEF r

LEMMA TouchLRUBounded ==
  ASSUME NEW s, Coherent(s), Bounded(s), NEW k \in Key
  PROVE  Bounded(TouchLRU(s, k))
<1>1. TouchLRU(s, k).data = s.data /\ TouchLRU(s, k).byteUsed = s.byteUsed
  BY DEF TouchLRU, Coherent, StoreType
<1>2. Present(TouchLRU(s, k)) = Present(s)
  BY <1>1 DEF Present, Has
<1>3. Strings(TouchLRU(s, k)) = Strings(s)
  BY <1>1, <1>2 DEF Strings
<1>4. QED
  BY <1>1, <1>2, <1>3, InsertedNat DEF Bounded

LEMMA GetLockedBounded ==
  ASSUME NEW s, Sound(s), Bounded(s), NEW k \in Key, NEW t
  PROVE  Bounded(GetLocked(s, k, t))
BY RemoveBounded, TouchLRUBounded DEF GetLocked, Sound, Live

LEMMA GetOrCreateBounded ==
  ASSUME NEW s, Sound(s), Bounded(s), NEW k \in Key, NEW vtype \in VType \ {"String"}, NEW t
  PROVE  /\ Bounded(GetOrCreateLocked(s, k, vtype, t))
         /\ GetOrCreateLocked(s, k, vtype, t).data[k].vtype = vtype
<1>1. NewEntry(vtype) \in Entry /\ NewEntry(vtype).vtype = vtype
  BY NewEntryTyped DEF NewEntry
<1>2. KeyLen + EntrySize(NewEntry(vtype)) = Share(NewEntry(vtype))
  <2>1. /\ NewEntry(vtype).list = <<>> /\ NewEntry(vtype).set = {}
        /\ DOMAIN NewEntry(vtype).zset = {}
    BY DEF NewEntry
  <2>2. Cardinality(NewEntry(vtype).set) = 0 /\ Cardinality(DOMAIN NewEntry(vtype).zset) = 0
    BY <2>1, FS_EmptySet
  <2>3. Len(NewEntry(vtype).list) * (ValLen + 16) = 0
    BY <2>1, StoreAssumption
  <2>4. EntrySize(NewEntry(vtype)) = 64
    BY <1>1, <2>2, <2>3 DEF EntrySize, VType
  <2>5. QED
    BY <1>1, <2>4, StoreAssumption DEF Share
<1>3. CASE Live(s, k, t) /\ s.data[k].vtype = vtype
  BY <1>3 DEF GetOrCreateLocked
<1>4. CASE ~(Live(s, k, t) /\ s.data[k].vtype = vtype)
  BY <1>1, <1>2, <1>4, SetLockedBounded, SetLockedSound DEF GetOrCreateLocked
<1>5. QED
  BY <1>3, <1>4

LEMMA PushBounded ==
  ASSUME NEW s, Sound(s), Bounded(s), NEW k \in Key, NEW vals \in Seq(Val), NEW t
  PROVE  Bounded(LPushCmd(s, k, vals, t)) /\ Bounded(RPushCmd(s, k, vals, t))
<1> DEFINE got == GetOrCreateLocked(s, k, "List", t)
           left == [got.data[k] EXCEPT !.list = Reverse(vals) \o @]
           right == [got.data[k] EXCEPT !.list = @ \o vals]
<1>1. Sound(got) /\ Has(got, k) /\ got.data[k] \in Entry /\ Bounded(got)
  BY GetOrCreateLockedSound, GetOrCreateBounded DEF VType
<1> HIDE DEF got
<1>2. left \in Entry /\ right \in Entry
  <2>1. got.data[k].list \in Seq(Val)
    BY <1>1 DEF Entry
  <2>2. Reverse(vals) \in Seq(Val)
    BY DEF Reverse
  <2>3. Reverse(vals) \o got.data[k].list \in Seq(Val) /\ got.data[k].list \o vals \in Seq(Val)
    BY <2>1, <2>2, ConcatProperties
  <2>4. QED
    BY <1>1, <2>3 DEF Entry
<1>3. left.vtype = got.data[k].vtype /\ right.vtype = got.data[k].vtype
  BY <1>1 DEF Entry
<1>4. /\ LPushCmd(s, k, vals, t) = TouchLRU([got EXCEPT !.data[k] = left], k)
      /\ RPushCmd(s, k, vals, t) = TouchLRU([got EXCEPT !.data[k] = right], k)
  BY DEF LPushCmd, RPushCmd, got
<1> HIDE DEF left, right
<1>5. QED
  BY <1>1, <1>2, <1>3, <1>4, WriteEntryBounded DEF Sound

LEMMA LPopBounded ==
  ASSUME NEW s, Sound(s), Bounded(s), NEW k \in Key, NEW t
  PROVE  Bounded(LPopCmd(s, k, t))
<1> DEFINE got == GetLocked(s, k, t)
           rest == [got.data[k] EXCEPT !.list = Tail(@)]
<1>1. Sound(got) /\ (Live(s, k, t) => Has(got, k)) /\ Bounded(got)
  BY GetLockedSound, GetLockedBounded
<1> HIDE DEF got
<1>2. CASE Live(s, k, t) /\ got.data[k].vtype = "List" /\ got.data[k].list # <<>>
  <2>1. got.data[k] \in Entry
    BY <1>1, <1>2, EntryOfKey DEF Sound
  <2>2. rest \in Entry /\ rest.vtype = got.data[k].vtype
    <3>1. Tail(got.data[k].list) \in Seq(Val)
      BY <1>2, <2>1 DEF Entry
    <3>2. QED
      BY <2>1, <3>1 DEF Entry
  <2>3. LPopCmd(s, k, t) = TouchLRU([got EXCEPT !.data[k] = rest], k)
    BY <1>2 DEF LPopCmd, got
  <2> HIDE DEF rest
  <2>4. QED
    BY <1>1, <1>2, <2>2, <2>3, WriteEntryBounded DEF Sound
<1>3. CASE ~(Live(s, k, t) /\ got.data[k].vtype = "List" /\ got.data[k].list # <<>>)
  BY <1>1, <1>3 DEF LPopCmd, got
<1>4. QED
  BY <1>2, <1>3

LEMMA AddBounded ==
  ASSUME NEW s, Sound(s), Bounded(s), NEW k \in Key, NEW t
  PROVE  /\ \A members \in SUBSET Val : Bounded(SAddCmd(s, k, members, t))
         /\ \A score \in Score, member \in Val : Bounded(ZAddCmd(s, k, score, member, t))
<1>1. ASSUME NEW members \in SUBSET Val PROVE Bounded(SAddCmd(s, k, members, t))
  <2> DEFINE got == GetOrCreateLocked(s, k, "Set", t)
             e == [got.data[k] EXCEPT !.set = @ \cup members]
  <2>1. Sound(got) /\ Has(got, k) /\ got.data[k] \in Entry /\ Bounded(got)
    BY GetOrCreateLockedSound, GetOrCreateBounded DEF VType
  <2>2. SAddCmd(s, k, members, t) = TouchLRU([got EXCEPT !.data[k] = e], k)
    BY DEF SAddCmd
  <2> HIDE DEF got
  <2>3. e \in Entry /\ e.vtype = got.data[k].vtype
    BY <2>1 DEF Entry
  <2> HIDE DEF e
  <2>4. QED
    BY <2>1, <2>2, <2>3, WriteEntryBounded DEF Sound
<1>2. ASSUME NEW score \in Score, NEW member \in Val
      PROVE  Bounded(ZAddCmd(s, k, score, member, t))
  <2> DEFINE got == GetOrCreateLocked(s, k, "ZSet", t)
             zset == got.data[k].zset
             new == [m \in DOMAIN zset \cup {member} |-> IF m = member THEN score ELSE zset[m]]
             e == [got.data[k] EXCEPT !.zset = new]
  <2>1. Sound(got) /\ Has(got, k) /\ got.data[k] \in Entry /\ Bounded(got)
    BY GetOrCreateLockedSound, GetOrCreateBounded DEF VType
  <2>2. ZAddCmd(s, k, score, member, t) = TouchLRU([got EXCEPT !.data[k] = e], k)
    BY DEF ZAddCmd
  <2> HIDE DEF got
  <2>3. new \in ScoreMap
    <3>1. PICK ms \in SUBSET Val : zset \in [ms -> Score]
      BY <2>1 DEF Entry, ScoreMap
    <3>2. ms \cup {member} \in SUBSET Val /\ new \in [ms \cup {member} -> Score]
      BY <3>1
    <3>3. QED
      BY <3>2 DEF ScoreMap
  <2> HIDE DEF new
  <2>4. e \in Entry /\ e.vtype = got.data[k].vtype
    BY <2>1, <2>3 DEF Entry
  <2> HIDE DEF e
  <2>5. QED
    BY <2>1, <2>2, <2>4, WriteEntryBounded DEF Sound
<1>3. QED
  BY <1>1, <1>2

LEMMA ExpireBounded ==
  ASSUME NEW s, Sound(s), Bounded(s), NEW k \in Key, NEW d, NEW t, t + d \in Nat
  PROVE  Bounded(ExpireCmd(s, k, d, t))
<1>1. CASE Live(s, k, t)
  <2> DEFINE e == [s.data[k] EXCEPT !.expiresAt = t + d]
  <2>1. Has(s, k) /\ s.data[k] \in Entry
    BY <1>1, EntryOfKey DEF Live, Sound
  <2>2. e \in Entry /\ e.vtype = s.data[k].vtype
    BY <2>1 DEF Entry
  <2>3. ExpireCmd(s, k, d, t) = [s EXCEPT !.data[k] = e]
    BY <1>1 DEF ExpireCmd
  <2> HIDE DEF e
  <2>4. QED
    BY <2>1, <2>2, <2>3, WriteEntryBounded DEF Sound
<1>2. CASE ~Live(s, k, t)
  BY <1>2 DEF ExpireCmd
<1>3. QED
  BY <1>1, <1>2

LEMMA AccessBounded ==
  ASSUME IInv, Bounded(store), NEW k \in Key, Access(k)
  PROVE  Bounded(store)'
<1>0. Sound(store)
  BY DEF IInv
<1>1. ASSUME NEW v \in Val, Set(k, v) PROVE Bounded(store')
  <2> DEFINE e == [NewEntry("String") EXCEPT !.str = v]
  <2>1. e \in Entry /\ e.vtype = "String"
    BY NewEntryTyped DEF VType, Entry, NewEntry
  <2>2. store' = SetLocked(store, k, e)
    BY <1>1 DEF Set, Run, SetCmd
  <2> HIDE DEF e
  <2>3. KeyLen + EntrySize(e) = Share(e)
    BY <2>1, ShareWithinSize
  <2>4. QED
    BY <1>0, <2>1, <2>2, <2>3, SetLockedBounded
<1>2. CASE Get(k)
  BY <1>0, <1>2, GetLockedBounded DEF Get, Run
<1>3. ASSUME NEW vals \in Args, LPush(k, vals) \/ RPush(k, vals) PROVE Bounded(store')
  <2>1. vals \in Seq(Val)
    BY ClockAssumption DEF Args
  <2>2. QED
    BY <1>0, <1>3, <2>1, PushBounded DEF LPush, RPush, Run
<1>4. CASE LPop(k)
  BY <1>0, <1>4, LPopBounded DEF LPop, Run
<1>5. CASE \E members \in SUBSET Val : SAdd(k, members)
  BY <1>0, <1>5, AddBounded DEF SAdd, Run
<1>6. CASE \E score \in Score, member \in Val : ZAdd(k, score, member)
  BY <1>0, <1>6, AddBounded DEF ZAdd, Run
<1>7. QED
  BY <1>1, <1>2, <1>3, <1>4, <1>5, <1>6 DEF Access

LEMMA NextBounded == IInv /\ Bounded(store) /\ [Next]_vars => Bounded(store)'
<1> SUFFICES ASSUME IInv, Bounded(store), [Next]_vars PROVE Bounded(store')
  OBVIOUS
<1>0. TypeOK /\ Sound(store) /\ Coherent(store)
  BY DEF IInv, Sound
<1>1. ASSUME NEW k \in Key, Access(k) PROVE Bounded(store')
  BY <1>1, AccessBounded
<1>2. ASSUME NEW k \in Key, NEW d \in Duration, Expire(k, d) PROVE Bounded(store')
  <2>1. now + d \in Nat
    BY <1>0, ClockAssumption DEF TypeOK
  <2>2. QED
    BY <1>0, <1>2, <2>1, ExpireBounded DEF Expire, Run
<1>3. CASE FlushAll
  BY <1>3, InsertedNat DEF FlushAll, Run, EmptyStore, Bounded
<1>4. ASSUME NEW k \in Key, DelStep(k) \/ SweepStep(k) PROVE Bounded(store')
  BY <1>0, <1>4, RemoveBounded DEF DelStep, SweepStep, DelOne
<1>5. CASE \/ \E keys \in SUBSET Key : DelBegin(keys)
           \/ SweepBegin \/ Unlock \/ Tick \/ UNCHANGED vars
  BY <1>5 DEF DelBegin, SweepBegin, Unlock, Tick, vars
<1>6. QED
  BY <1>1, <1>2, <1>3, <1>4, <1>5 DEF Next, Removal

-----------------------------------------------------------------------------
(* Every entry holds data of its type only.                                *)

LEMMA AccessFits ==
  ASSUME IInv, DataFits(store), NEW k \in Key, Access(k)
  PROVE  DataFits(store')
<1>0. Sound(store)
  BY DEF IInv
<1>1. CASE \E v \in Val : Set(k, v)
  BY <1>0, <1>1, SetCmdFits DEF Set, Run
<1>2. CASE Get(k)
  BY <1>0, <1>2, GetLockedFits DEF Get, Run
<1>3. CASE \E vals \in Args : LPush(k, vals) \/ RPush(k, vals)
  <2>1. PICK vals \in Args : LPush(k, vals) \/ RPush(k, vals)
    BY <1>3
  <2>2. vals \in Seq(Val)
    BY ClockAssumption DEF Args
  <2>3. QED
    BY <1>0, <2>1, <2>2, PushFits DEF LPush, RPush, Run
<1>4. CASE LPop(k)
  BY <1>0, <1>4, LPopFits DEF LPop, Run
<1>5. CASE \E members \in SUBSET Val : SAdd(k, members)
  BY <1>0, <1>5, AddFits DEF SAdd, Run
<1>6. CASE \E score \in Score, member \in Val : ZAdd(k, score, member)
  BY <1>0, <1>6, AddFits DEF ZAdd, Run
<1>7. QED
  BY <1>1, <1>2, <1>3, <1>4, <1>5, <1>6 DEF Access

LEMMA NextFits == IInv /\ DataFits(store) /\ [Next]_vars => DataFits(store)'
<1> SUFFICES ASSUME IInv, DataFits(store), [Next]_vars PROVE DataFits(store')
  OBVIOUS
<1>0. Sound(store)
  BY DEF IInv
<1>1. ASSUME NEW k \in Key, Access(k) PROVE DataFits(store')
  BY <1>1, AccessFits
<1>2. ASSUME NEW k \in Key, NEW d \in Duration, Expire(k, d) PROVE DataFits(store')
  BY <1>0, <1>2, ExpireFits DEF Expire, Run
<1>3. CASE FlushAll
  BY <1>3, EmptyStoreFits DEF FlushAll, Run
<1>4. ASSUME NEW k \in Key, DelStep(k) \/ SweepStep(k) PROVE DataFits(store')
  BY <1>0, <1>4, RemoveFits DEF DelStep, SweepStep
<1>5. CASE \/ \E keys \in SUBSET Key : DelBegin(keys)
           \/ SweepBegin \/ Unlock \/ Tick \/ UNCHANGED vars
  BY <1>5 DEF DelBegin, SweepBegin, Unlock, Tick, vars
<1>6. QED
  BY <1>1, <1>2, <1>3, <1>4, <1>5 DEF Next, Removal

(* LRANGE of any list, and of a key that holds none.                       *)
LEMMA LRangeAnswers ==
  ASSUME Sound(store), DataFits(store)
  PROVE  RangeIsInclusive
<1> SUFFICES ASSUME NEW k \in Key, Has(store, k),
                    NEW start \in -(MaxLen + 2) .. MaxLen + 1,
                    NEW stop \in -(MaxLen + 2) .. MaxLen + 1
             PROVE  LET list == store.data[k].list
                        At(i) == IF i < 0 THEN Len(list) + i + 1 ELSE i + 1
                        chosen == {i \in DOMAIN list : At(start) <= i /\ i <= At(stop)}
                        reply  == LRange(store, k, start, stop)
                    IN  /\ Len(reply) = Cardinality(chosen)
                        /\ \A i \in DOMAIN reply : reply[i] = list[Min(chosen) + i - 1]
  BY DEF RangeIsInclusive
<1>1. store.data[k] \in Entry /\ FitsType(store.data[k])
  BY EntryOfKey DEF Sound, DataFits
<1>2. store.data[k].list \in Seq(Val) /\ start \in Int /\ stop \in Int
  BY <1>1 DEF Entry
<1>3. CASE store.data[k].vtype = "List"
  <2>1. LRange(store, k, start, stop) = Slice(store.data[k].list, start, stop)
    BY <1>3 DEF LRange
  <2> DEFINE list   == store.data[k].list
             chosen == Places(list, PlaceOf(start, Len(list)), PlaceOf(stop, Len(list)))
  <2>2. /\ Len(Slice(list, start, stop)) = Cardinality(chosen)
        /\ \A i \in DOMAIN Slice(list, start, stop) :
             Slice(list, start, stop)[i] = list[Min(chosen) + i - 1]
    BY <1>2, SliceIs
  <2>3. QED
    BY <2>1, <2>2 DEF Places, PlaceOf
<1>4. CASE store.data[k].vtype # "List"
  <2>1. LRange(store, k, start, stop) = <<>> /\ store.data[k].list = <<>>
    BY <1>1, <1>4 DEF LRange, FitsType
  <2>2. QED
    BY <2>1, FS_EmptySet
<1>5. QED
  BY <1>3, <1>4

-----------------------------------------------------------------------------
(* The theorems.                                                           *)

(* Types: no step of the store leaves the types of the Go struct.          *)
THEOREM TypeCorrect == Spec => []TypeOK
<1>1. IInv => TypeOK
  BY DEF IInv
<1>2. QED
  BY <1>1, Invariance, PTL

(* The LRU list and the map agree after every step of every command, loop  *)
(* and sweeper pass, whatever the keys and the limit.                      *)
THEOREM ListMatchesMap == Spec => []LRUCoherent
<1>1. IInv => LRUCoherent
  BY DEF IInv, Sound, Coherent, LRUCoherent
<1>2. QED
  BY <1>1, Invariance, PTL

(* The map never outgrows -maxkeys: the eviction loop always ends, and one *)
(* round of it is enough.                                                  *)
THEOREM LimitKept == Spec => []WithinLimit
<1>1. IInv => WithinLimit
  BY DEF IInv, Sound, WithinLimit
<1>2. QED
  BY <1>1, Invariance, PTL

(* A write never evicts the key it has just stored, so that the entry      *)
(* getOrCreateLocked returns is never nil.                                 *)
THEOREM WriteKeepsKey == Spec => []WrittenKeyKept
<1>1. IInv => WrittenKeyKept
  BY SetCmdSound, GetOrCreateLockedSound DEF IInv, WrittenKeyKept
<1>2. QED
  BY <1>1, Invariance, PTL

(* The memory counter never reports more than was inserted and not removed *)
(* since, although an entry's removal subtracts what it has grown to.      *)
THEOREM MemoryNotOverstated == Spec => []BytesNeverOverstated
<1>1. Init => Bounded(store)
  BY InsertedNat DEF Init, EmptyStore, Bounded
<1>2. Bounded(store) => BytesNeverOverstated
  BY DEF Bounded, BytesNeverOverstated
<1>3. QED
  BY <1>1, <1>2, NextBounded, Invariance, PTL DEF Spec

(* LRANGE and ZRANGE: every start and stop answers the elements between    *)
(* both, and the sort answers every member once, by score, whatever the    *)
(* order in which the map was ranged over.                                 *)
THEOREM RangesAnswered == Spec => []RangesAnswer
<1>1. Init => DataFits(store)
  BY EmptyStoreFits DEF Init
<1>2. IInv /\ DataFits(store) => RangesAnswer
  <2> SUFFICES ASSUME IInv, DataFits(store) PROVE RangesAnswer
    OBVIOUS
  <2>0. Sound(store)
    BY DEF IInv
  <2>1. RangeIsInclusive
    BY <2>0, LRangeAnswers
  <2>2. ZRangeIsSorted
    <3> SUFFICES ASSUME NEW k \in Key, Has(store, k), NEW reply \in ZRange(store, k, 0, -1)
                 PROVE  LET zset == store.data[k].zset
                        IN  /\ IsInjective(reply) /\ ToSet(reply) = DOMAIN zset
                            /\ (\A m \in DOMAIN zset : zset[m] # NaN)
                                 => \A i, j \in DOMAIN reply :
                                      i < j => zset[reply[i]] <= zset[reply[j]]
      BY DEF ZRangeIsSorted
    <3> DEFINE zset == store.data[k].zset
    <3>1. SortedOver(reply, zset) /\ ToSet(reply) = DOMAIN zset
      BY <2>0, ZRangeAnswers
    <3>2. \A m \in DOMAIN zset : zset[m] # NaN => zset[m] \in Int
      <4>1. store.data[k] \in Entry
        BY <2>0, EntryOfKey DEF Sound
      <4>2. PICK ms \in SUBSET Val : zset \in [ms -> Score]
        BY <4>1 DEF Entry, ScoreMap
      <4>3. QED
        BY <4>2, StoreAssumption
    <3>3. (\A m \in DOMAIN zset : zset[m] # NaN) => AllNumbers(zset)
      BY <3>2 DEF AllNumbers
    <3> HIDE DEF zset
    <3>4. DOMAIN reply = 1 .. Len(reply)
      BY <3>1 DEF SortedOver
    <3>5. QED
      BY <3>1, <3>3, <3>4 DEF SortedOver, Ascending, zset
  <2>3. QED
    BY <2>1, <2>2 DEF RangesAnswer
<1>3. QED
  BY <1>1, <1>2, NextFits, Invariance, PTL DEF Spec

-----------------------------------------------------------------------------
(* The refinement of ExpiringMap, step by step.                            *)

LEMMA InitVisible == Init => Visible!Init
BY DEF Init, Visible!Init, EmptyStore, Live, Has

(* What the operators above say, in the terms of ExpiringMap.              *)
LEMMA BecomesVisible ==
  ASSUME NEW k \in Key, NEW e, Becomes(store, store', now, k, e), now' = now
  PROVE  Visible!Become(k, e)
<1> DEFINE new == [j \in Key |-> IF Live(store', j, now) THEN store'.data[j] ELSE Absent]
           old == [j \in Key |-> IF Live(store, j, now) THEN store.data[j] ELSE Absent]
<1>1. PICK lost \in SUBSET {j \in Key \ {k} : old[j] # Absent} :
        /\ lost # {} => MaxKeys > 0 /\ old[k] = Absent /\ \A i, j \in lost : i = j
        /\ new = [j \in Key |-> IF j = k THEN e ELSE IF j \in lost THEN Absent ELSE old[j]]
  BY DEF Becomes, View
<1>2. [j \in Key |-> IF Live(store, j, now) THEN store.data[j] ELSE Absent]' = new
  BY DEF Live, Has
<1> HIDE DEF new
<1>3. QED
  BY <1>1, <1>2 DEF Visible!Become, Visible!Shown

(* ExpiringMap has its own instance of StoreOps.                           *)
LEMMA SameOperators ==
  /\ \A vtype : Visible!NewEntry(vtype) = NewEntry(vtype)
  /\ \A e, t : Visible!IsExpired(e, t) = IsExpired(e, t)
  /\ \A vals : Visible!Reverse(vals) = Reverse(vals)
BY DEF NewEntry, Visible!NewEntry, IsExpired, Visible!IsExpired, NoExpiry, Visible!NoExpiry,
       Reverse, Visible!Reverse

LEMMA FoundVisible ==
  ASSUME NEW k \in Key, NEW vtype
  PROVE  Found(store, now, k, vtype) = Visible!Typed(k, vtype)
BY SameOperators DEF Found, View, Visible!Typed, Visible!Shown

LEMMA UnseenVisible ==
  ASSUME View(store', now) = View(store, now), now' = now
  PROVE  UNCHANGED Visible!vars
BY DEF View, Visible!vars, Live, Has

LEMMA AccessVisible ==
  ASSUME IInv, NEW k \in Key, Access(k)
  PROVE  [Visible!Next]_(Visible!vars)
<1>0. Sound(store)
  BY DEF IInv
<1>1. ASSUME NEW v \in Val, Set(k, v) PROVE Visible!Put(k, v)
  BY <1>0, <1>1, SetBecomes, BecomesVisible, SameOperators DEF Set, Run, Visible!Put
<1>2. CASE Get(k)
  BY <1>0, <1>2, TouchUnseen, UnseenVisible DEF Get, Run
<1>3. ASSUME NEW vals \in Args, LPush(k, vals) \/ RPush(k, vals)
      PROVE  Visible!Prepend(k, vals) \/ Visible!Extend(k, vals)
  <2>1. vals \in Seq(Val)
    BY ClockAssumption DEF Args
  <2>2. CASE LPush(k, vals)
    <3>1. PICK e : e = [Found(store, now, k, "List") EXCEPT !.list = Reverse(vals) \o @]
      OBVIOUS
    <3>2. Becomes(store, store', now, k, e) /\ now' = now
      BY <1>0, <2>1, <2>2, <3>1, PushBecomes DEF LPush, Run
    <3>3. Visible!Become(k, e)
      BY <3>2, BecomesVisible
    <3>4. e = [Visible!Typed(k, "List") EXCEPT !.list = Visible!Reverse(vals) \o @]
      BY <3>1, FoundVisible, SameOperators
    <3>5. QED
      BY <3>3, <3>4 DEF Visible!Prepend, Visible!Become
  <2>3. CASE RPush(k, vals)
    <3>1. PICK e : e = [Found(store, now, k, "List") EXCEPT !.list = @ \o vals]
      OBVIOUS
    <3>2. Becomes(store, store', now, k, e) /\ now' = now
      BY <1>0, <2>1, <2>3, <3>1, PushBecomes DEF RPush, Run
    <3>3. Visible!Become(k, e)
      BY <3>2, BecomesVisible
    <3>4. e = [Visible!Typed(k, "List") EXCEPT !.list = @ \o vals]
      BY <3>1, FoundVisible, SameOperators
    <3>5. QED
      BY <3>3, <3>4 DEF Visible!Extend, Visible!Become
  <2>4. QED
    BY <1>3, <2>2, <2>3
<1>4. CASE LPop(k)
  <2>1. store' = LPopCmd(store, k, now) /\ now' = now
    BY <1>4 DEF LPop, Run
  <2>2. CASE View(LPopCmd(store, k, now), now) = View(store, now)
    BY <2>1, <2>2, UnseenVisible
  <2>3. CASE /\ View(store, now)[k] # Absent
             /\ View(store, now)[k].vtype = "List" /\ View(store, now)[k].list # <<>>
             /\ Becomes(store, LPopCmd(store, k, now), now, k,
                        [View(store, now)[k] EXCEPT !.list = Tail(@)])
    <3>1. PICK e : e = [View(store, now)[k] EXCEPT !.list = Tail(@)]
      OBVIOUS
    <3>2. Visible!Become(k, e)
      BY <2>1, <2>3, <3>1, BecomesVisible
    <3>3. Visible!Pop(k)
      BY <2>3, <3>1, <3>2 DEF Visible!Pop, Visible!Become, Visible!Shown, View
    <3>4. QED
      BY <3>3 DEF Visible!Next
  <2>4. QED
    BY <1>0, <2>2, <2>3, LPopBecomes
<1>5. ASSUME NEW members \in SUBSET Val, SAdd(k, members)
      PROVE  Visible!AddMembers(k, members)
  <2>1. PICK e : e = [Found(store, now, k, "Set") EXCEPT !.set = @ \cup members]
    OBVIOUS
  <2>2. Becomes(store, store', now, k, e) /\ now' = now
    BY <1>0, <1>5, <2>1, SAddBecomes DEF SAdd, Run
  <2>3. Visible!Become(k, e)
    BY <2>2, BecomesVisible
  <2>4. e = [Visible!Typed(k, "Set") EXCEPT !.set = @ \cup members]
    BY <2>1, FoundVisible
  <2>5. QED
    BY <2>3, <2>4 DEF Visible!AddMembers, Visible!Become
<1>6. ASSUME NEW score \in Score, NEW member \in Val, ZAdd(k, score, member)
      PROVE  Visible!Rank(k, score, member)
  <2>1. PICK e : e = [Found(store, now, k, "ZSet") EXCEPT !.zset =
                        [m \in DOMAIN @ \cup {member} |-> IF m = member THEN score ELSE @[m]]]
    OBVIOUS
  <2>2. Becomes(store, store', now, k, e) /\ now' = now
    BY <1>0, <1>6, <2>1, ZAddBecomes DEF ZAdd, Run
  <2>3. Visible!Become(k, e)
    BY <2>2, BecomesVisible
  <2>4. e = [Visible!Typed(k, "ZSet") EXCEPT !.zset =
               [m \in DOMAIN @ \cup {member} |-> IF m = member THEN score ELSE @[m]]]
    BY <2>1, FoundVisible
  <2>5. QED
    BY <2>3, <2>4 DEF Visible!Rank, Visible!Become
<1>7. QED
  BY <1>1, <1>2, <1>3, <1>4, <1>5, <1>6 DEF Access, Visible!Next

(* Once the clock shows the deadline's end, nobody sees the entry again.   *)
LEMMA TickVisible ==
  ASSUME IInv, Tick
  PROVE  Visible!Advance
<1>1. store' = store /\ now' = now + 1 /\ now \in Nat
  BY DEF Tick, IInv, TypeOK
<1>2. \A k \in Key : Has(store, k) => store.data[k].expiresAt \in Nat
  BY EntryOfKey DEF IInv, Sound, Entry
<1>3. ASSUME NEW k \in Key
      PROVE  /\ Live(store, k, now + 1) => Live(store, k, now)
             /\ Live(store, k, now) =>
                  (IsExpired(store.data[k], now + 1) <=> ~Live(store, k, now + 1))
             /\ Live(store, k, now) => store.data[k] # Absent
  BY <1>1, <1>2 DEF Live, IsExpired, Has
<1>4. QED
  BY <1>1, <1>3, SameOperators DEF Visible!Advance, Visible!Shown

LEMMA RemovedVisible ==
  ASSUME IInv, NEW k \in Key, now' = now
  PROVE  /\ store' = DelOne(store, k) => Visible!Delete(k)
         /\ Has(store, k) /\ IsExpired(store.data[k], now) /\ store' = RemoveLocked(store, k)
              => View(store', now) = View(store, now)
<1>0. Sound(store) /\ store.data \in [Key -> Entry \cup {Absent}]
  BY DEF IInv, Sound, Coherent, StoreType
<1>1. Has(store, k) => RemoveLocked(store, k).data = [store.data EXCEPT ![k] = Absent]
  BY <1>0, RemoveLockedCoherent DEF Sound
<1>2. CASE ~Has(store, k)
  <2>1. View(store, now)[k] = Absent
    BY <1>2 DEF View, Live
  <2>2. View(store, now) = [View(store, now) EXCEPT ![k] = Absent]
    BY <2>1 DEF View
  <2>3. store' = DelOne(store, k) => store' = store
    BY <1>2 DEF DelOne
  <2>4. store' = DelOne(store, k) => View(store', now') = [View(store, now) EXCEPT ![k] = Absent]
    BY <2>2, <2>3
  <2>5. QED
    BY <1>2, <2>4 DEF Visible!Delete, View
<1>3. CASE Has(store, k)
  <2>1. \A j \in Key : RemoveLocked(store, k).data[j] = IF j = k THEN Absent ELSE store.data[j]
    BY <1>0, <1>1, <1>3
  <2>2. \A j \in Key : View(RemoveLocked(store, k), now)[j] =
                         IF j = k THEN Absent ELSE View(store, now)[j]
    BY <2>1 DEF View, Live, Has
  <2>3. View(RemoveLocked(store, k), now) = [View(store, now) EXCEPT ![k] = Absent]
    BY <2>2 DEF View
  <2>4. store' = DelOne(store, k) => store' = RemoveLocked(store, k)
    BY <1>3 DEF DelOne
  <2>5. IsExpired(store.data[k], now) => View(store, now)[k] = Absent
    BY DEF View, Live
  <2>6. IsExpired(store.data[k], now) => View(RemoveLocked(store, k), now) = View(store, now)
    BY <2>2, <2>5 DEF View
  <2>7. store' = DelOne(store, k) => View(store', now') = [View(store, now) EXCEPT ![k] = Absent]
    BY <2>3, <2>4
  <2>8. store' = RemoveLocked(store, k) /\ IsExpired(store.data[k], now) =>
          View(store', now) = View(store, now)
    BY <2>6
  <2>9. store' = DelOne(store, k) => Visible!Delete(k)
    BY <2>7 DEF Visible!Delete, View
  <2>10. QED
    BY <2>8, <2>9
<1>4. QED
  BY <1>2, <1>3

LEMMA NextVisible ==
  ASSUME IInv, [Next]_vars
  PROVE  [Visible!Next]_(Visible!vars)
<1>0. Sound(store) /\ TypeOK
  BY DEF IInv
<1>1. CASE \E k \in Key : Access(k)
  BY <1>1, AccessVisible
<1>2. ASSUME NEW k \in Key, NEW d \in Duration, Expire(k, d)
      PROVE  [Visible!Next]_(Visible!vars)
  <2>1. now \in Nat /\ d \in Int /\ now + d > 0
    BY <1>0, ClockAssumption DEF TypeOK
  <2>2. store' = ExpireCmd(store, k, d, now) /\ now' = now
    BY <1>2 DEF Expire, Run
  <2>3. CASE View(store', now) = View(store, now)
    BY <2>2, <2>3, UnseenVisible
  <2>4. CASE /\ View(store, now)[k] # Absent
             /\ View(store', now) =
                  [View(store, now) EXCEPT ![k] = IF d < 0 THEN Absent
                                                  ELSE [@ EXCEPT !.expiresAt = now + d]]
    <3>1. Visible!Limit(k, d)
      BY <2>2, <2>4 DEF Visible!Limit, Visible!Shown, View, Live, Has
    <3>2. QED
      BY <3>1 DEF Visible!Next
  <2>5. QED
    BY <1>0, <2>1, <2>2, <2>3, <2>4, ExpireSeen
<1>3. CASE FlushAll
  <2>1. Visible!Clear
    BY <1>3 DEF FlushAll, Run, Visible!Clear, EmptyStore, Live, Has
  <2>2. QED
    BY <2>1 DEF Visible!Next
<1>4. ASSUME NEW k \in Key, DelStep(k) PROVE [Visible!Next]_(Visible!vars)
  BY <1>4, RemovedVisible DEF DelStep, Visible!Next
<1>5. ASSUME NEW k \in Key, SweepStep(k) PROVE [Visible!Next]_(Visible!vars)
  BY <1>5, RemovedVisible, UnseenVisible DEF SweepStep
<1>6. CASE (\E keys \in SUBSET Key : DelBegin(keys)) \/ SweepBegin \/ Unlock \/ UNCHANGED vars
  <2>1. store' = store /\ now' = now
    BY <1>6 DEF DelBegin, SweepBegin, Unlock, vars
  <2>2. QED
    BY <2>1, UnseenVisible
<1>7. CASE Tick
  BY <1>7, TickVisible DEF Visible!Next
<1>8. QED
  BY <1>1, <1>2, <1>3, <1>4, <1>5, <1>6, <1>7 DEF Next, Removal

(* What clients see of the store is a map whose entries are gone the       *)
(* moment they expire: lazy expiry and the sweeper cannot be told from     *)
(* it, nor an eviction from the loss of one other key to a new one.        *)
THEOREM ExpiryIsExact == Spec => ExpiresOnTheDot
<1>1. IInv /\ [Next]_vars => [Visible!Next]_(Visible!vars)
  BY NextVisible
<1>2. QED
  BY <1>1, InitVisible, Invariance, PTL DEF Spec, ExpiresOnTheDot, Visible!Spec

-----------------------------------------------------------------------------
(* Order and use.                                                          *)

(* The keys in the map have all been used, and in the order of the list.   *)
UsedInv ==
  /\ Listing(used) /\ Present(store) \subseteq ToSet(used)
  /\ SameOrder(used, store.lruList, Present(store))

RecencyInv == IInv /\ UsedInv

(* To the prover, BoundedCache has a Cardinality of its own.               *)
LEMMA SameCardinality ==
  ASSUME NEW S
  PROVE  Cache!Cardinality(S) = Cardinality(S)
BY DEF Cardinality, Cache!Cardinality

LEMMA OlderPairs ==
  ASSUME NEW l, NEW P
  PROVE  /\ Older(l, P) \subseteq P \X P
         /\ \A a, b \in P : <<a, b>> \in Older(l, P) <=> Before(l, b, a)
BY DEF Older, Before

LEMMA PairsEqual ==
  ASSUME NEW P, NEW X \in SUBSET (P \X P), NEW Y \in SUBSET (P \X P),
         \A a, b \in P : <<a, b>> \in X <=> <<a, b>> \in Y
  PROVE  X = Y
<1>1. \A p \in P \X P : p \in X <=> p \in Y
  OBVIOUS
<1>2. QED
  BY <1>1

LEMMA OlderFewer ==
  ASSUME NEW l, NEW P, NEW Q \in SUBSET P
  PROVE  Older(l, Q) = {p \in Older(l, P) : p[1] \in Q /\ p[2] \in Q}
<1> DEFINE X == Older(l, Q)
           Y == {p \in Older(l, P) : p[1] \in Q /\ p[2] \in Q}
<1>1. X \in SUBSET (Q \X Q) /\ Y \in SUBSET (Q \X Q)
  BY OlderPairs
<1>2. ASSUME NEW a \in Q, NEW b \in Q PROVE <<a, b>> \in X <=> <<a, b>> \in Y
  BY OlderPairs
<1> HIDE DEF X, Y
<1>3. X = Y
  BY <1>1, <1>2, PairsEqual
<1>4. QED
  BY <1>3 DEF X, Y

LEMMA OlderFronted ==
  ASSUME NEW l, Listing(l), NEW k \in Key, NEW P, P \subseteq ToSet(l),
         NEW Q, k \in Q, Q \ {k} \subseteq P
  PROVE  Older(Fronted(l, k), Q) =
           {p \in Older(l, P) : p[1] \in Q \ {k} /\ p[2] \in Q \ {k}}
             \cup {<<j, k>> : j \in Q \ {k}}
<1> DEFINE X == Older(Fronted(l, k), Q)
           Y == {p \in Older(l, P) : p[1] \in Q \ {k} /\ p[2] \in Q \ {k}}
                  \cup {<<j, k>> : j \in Q \ {k}}
<1>1. X \in SUBSET (Q \X Q) /\ Y \in SUBSET (Q \X Q)
  BY OlderPairs
<1>2. ASSUME NEW a \in Q, NEW b \in Q PROVE <<a, b>> \in X <=> <<a, b>> \in Y
  <2>1. <<a, b>> \in X <=> Before(Fronted(l, k), b, a)
    BY OlderPairs
  <2>2. Before(Fronted(l, k), b, a) <=> \/ b = k /\ a # k
                                        \/ b # k /\ a # k /\ Before(l, b, a)
    BY FrontBefore
  <2>3. a # k /\ b # k => (<<a, b>> \in Older(l, P) <=> Before(l, b, a))
    BY OlderPairs
  <2>4. <<a, b>> \in Y <=> \/ b = k /\ a # k
                           \/ b # k /\ a # k /\ <<a, b>> \in Older(l, P)
    OBVIOUS
  <2>5. QED
    BY <2>1, <2>2, <2>3, <2>4
<1> HIDE DEF X, Y
<1>3. X = Y
  BY <1>1, <1>2, PairsEqual
<1>4. QED
  BY <1>3 DEF X, Y

-----------------------------------------------------------------------------
(* The refinement of BoundedCache, step by step.                           *)

(* A command on k that leaves it in the map.                               *)
LEMMA WrittenStep ==
  ASSUME RecencyInv, NEW k \in Key, Written(store, store', k), used' = Recent(k)
  PROVE  UsedInv' /\ Cache!Next
<1> DEFINE P == Present(store)
           Q == Present(store')
           young == {<<j, k>> : j \in Q \ {k}}
           among == {p \in Older(used, P) : p[1] \in Q \ {k} /\ p[2] \in Q \ {k}}
<1>1. /\ Listing(used) /\ P \subseteq ToSet(used) /\ SameOrder(used, store.lruList, P)
      /\ P \subseteq Key
  BY DEF RecencyInv, UsedInv, Present
<1>2. used' = Fronted(used, k)
  BY DEF Recent, Fronted
<1>3. Moved(store, store', k) /\ k \in Q
  BY DEF Written, Moved
<1>4. Q \ {k} \subseteq P
  BY DEF Written, Used, Added, TookOver
<1> HIDE DEF P, Q
<1>5. UsedInv'
  <2>1. /\ Listing(used') /\ ToSet(used') = ToSet(used) \cup {k}
        /\ \A a, b \in ToSet(used) \cup {k} :
             Before(used', a, b) <=> \/ a = k /\ b # k
                                     \/ a # k /\ b # k /\ Before(used, a, b)
    BY <1>1, <1>2, FrontBefore
  <2>2. \A a, b \in Q :
          Before(store'.lruList, a, b) <=> \/ a = k /\ b # k
                                           \/ a # k /\ b # k /\ Before(store.lruList, a, b)
    BY <1>3 DEF Moved, Q
  <2>3. \A a, b \in Q : a # k /\ b # k => (Before(used, a, b) <=> Before(store.lruList, a, b))
    BY <1>1, <1>4 DEF SameOrder
  <2>4. Q \subseteq ToSet(used')
    BY <1>1, <1>4, <2>1
  <2>5. \A a, b \in Q : Before(used', a, b) <=> Before(store'.lruList, a, b)
    BY <1>1, <1>4, <2>1, <2>2, <2>3
  <2>6. QED
    BY <2>1, <2>4, <2>5 DEF UsedInv, SameOrder, Q
<1>6. Older(used', Q) = among \cup young
  BY <1>1, <1>2, <1>3, <1>4, OlderFronted
<1>7. CASE Used(store, store', k)
  <2>1. Q = P /\ k \in P
    BY <1>7 DEF Used, P, Q
  <2>2. Cache!Use(k)
    BY <1>6, <2>1 DEF Cache!Use, Cache!Among, Cache!Youngest, Older, P, Q
  <2>3. QED
    BY <1>5, <2>2 DEF Cache!Next
<1>8. CASE Added(store, store', k)
  <2>1. Q = P \cup {k} /\ k \notin P /\ (MaxKeys > 0 => Cardinality(P) < MaxKeys)
    BY <1>8 DEF Added, P, Q
  <2>2. Q \ {k} = P
    BY <2>1
  <2>3. among = Older(used, P)
    BY <2>2, OlderPairs
  <2>4. Older(used', Q) = Older(used, P) \cup {<<j, k>> : j \in P}
    BY <1>6, <2>2, <2>3
  <2>5. Cache!Add(k)
    <3>1. /\ Present(store)' = Present(store) \cup {k} /\ k \notin Present(store)
          /\ MaxKeys > 0 => Cardinality(Present(store)) < MaxKeys
      BY <2>1 DEF P, Q
    <3>2. Older(used, Present(store))' =
            Older(used, Present(store)) \cup {<<j, k>> : j \in Present(store)}
      BY <2>4 DEF P, Q
    <3>3. QED
      BY <3>1, <3>2, SameCardinality DEF Cache!Add, Cache!Youngest, Older
  <2>6. QED
    BY <1>5, <2>5 DEF Cache!Next
<1>9. ASSUME NEW old \in Key, TookOver(store, store', k, old) PROVE Cache!Next
  <2>1. /\ k \notin P /\ MaxKeys > 0 /\ Cardinality(P) = MaxKeys
        /\ old \in P /\ Q = (P \ {old}) \cup {k}
        /\ \A j \in P \ {old} : Before(store.lruList, j, old)
    BY <1>9 DEF TookOver, P, Q
  <2>2. Q \ {k} = P \ {old}
    BY <2>1
  <2>3. \A j \in P \ {old} : <<old, j>> \in Older(used, P)
    BY <1>1, <2>1, OlderPairs DEF SameOrder
  <2>4. Cache!Oldest(old)
    BY <2>1, <2>3 DEF Cache!Oldest, Older, P
  <2>5. Older(used', Q) =
          {p \in Older(used, P) : p[1] \in P \ {old} /\ p[2] \in P \ {old}}
            \cup {<<j, k>> : j \in P \ {old}}
    BY <1>6, <2>2
  <2>6. Cache!AddInPlaceOf(k, old)
    <3>1. /\ k \notin Present(store) /\ MaxKeys > 0 /\ Cardinality(Present(store)) = MaxKeys
          /\ Present(store)' = (Present(store) \ {old}) \cup {k}
      BY <2>1 DEF P, Q
    <3>2. Older(used, Present(store))' =
            {p \in Older(used, Present(store)) :
               p[1] \in Present(store) \ {old} /\ p[2] \in Present(store) \ {old}}
              \cup {<<j, k>> : j \in Present(store) \ {old}}
      BY <2>5 DEF P, Q
    <3>3. QED
      BY <2>4, <3>1, <3>2, SameCardinality DEF Cache!AddInPlaceOf, Cache!Among, Cache!Youngest, Older
  <2>7. QED
    BY <2>6 DEF Cache!Next
<1>10. QED
  BY <1>5, <1>7, <1>8, <1>9 DEF Written

LEMMA DroppedStep ==
  ASSUME RecencyInv, NEW k \in Key, Dropped(store, store', k), used' = used
  PROVE  UsedInv' /\ Cache!Next
<1> DEFINE P == Present(store)
           Q == Present(store')
<1>1. Listing(used) /\ P \subseteq ToSet(used) /\ SameOrder(used, store.lruList, P)
  BY DEF RecencyInv, UsedInv
<1>2. k \in P /\ Q = P \ {k} /\ SameOrder(store'.lruList, store.lruList, Q)
  BY DEF Dropped
<1> HIDE DEF P, Q
<1>3. SameOrder(used', store'.lruList, Q)
  BY <1>1, <1>2 DEF SameOrder
<1>4. UsedInv'
  BY <1>1, <1>2, <1>3 DEF UsedInv, Q
<1>5. Older(used', Q) = {p \in Older(used, P) : p[1] \in P \ {k} /\ p[2] \in P \ {k}}
  BY <1>2, OlderFewer
<1>6. Cache!Forget(k)
  BY <1>2, <1>5 DEF Cache!Forget, Cache!Among, Older, P, Q
<1>7. QED
  BY <1>4, <1>6 DEF Cache!Next

LEMMA UnmovedStep ==
  ASSUME RecencyInv, Present(store') = Present(store), store'.lruList = store.lruList,
         used' = used
  PROVE  UsedInv' /\ UNCHANGED Cache!vars
BY DEF RecencyInv, UsedInv, Cache!vars

(* Every command on a key, by what it does to it.                          *)
LEMMA AccessWrites ==
  ASSUME IInv, NEW k \in Key, Access(k)
  PROVE  \/ Written(store, store', k)
         \/ Dropped(store, store', k) /\ ~Has(store', k)
         \/ store' = store /\ ~Has(store', k)
<1>0. Sound(store)
  BY DEF IInv
<1>1. ASSUME NEW v \in Val, Set(k, v) PROVE Written(store, store', k)
  <2>1. [NewEntry("String") EXCEPT !.str = v] \in Entry
    BY NewEntryTyped DEF VType, Entry
  <2>2. store' = SetLocked(store, k, [NewEntry("String") EXCEPT !.str = v])
    BY <1>1 DEF Set, Run, SetCmd
  <2>3. QED
    BY <1>0, <2>1, <2>2, SetLockedWrites
<1>2. ASSUME store' = GetLocked(store, k, now)
      PROVE  \/ Written(store, store', k)
             \/ Dropped(store, store', k) /\ ~Has(store', k)
             \/ store' = store /\ ~Has(store', k)
  <2>1. CASE Live(store, k, now)
    BY <1>0, <1>2, <2>1, GetLockedUses
  <2>2. CASE ~Live(store, k, now)
    BY <1>0, <1>2, <2>2, GetLockedUses
  <2>3. QED
    BY <2>1, <2>2
<1>3. CASE Get(k)
  BY <1>2, <1>3 DEF Get, Run
<1>4. ASSUME NEW vals \in Args, LPush(k, vals) \/ RPush(k, vals)
      PROVE  Written(store, store', k)
  <2>1. vals \in Seq(Val)
    BY ClockAssumption DEF Args
  <2>2. QED
    BY <1>0, <1>4, <2>1, PushWrites DEF LPush, RPush, Run
<1>5. CASE LPop(k)
  <2>1. store' = LPopCmd(store, k, now)
    BY <1>5 DEF LPop, Run
  <2>2. CASE Live(store, k, now)
    BY <1>0, <2>1, <2>2, LPopUses
  <2>3. CASE ~Live(store, k, now)
    <3>1. store' = GetLocked(store, k, now)
      BY <1>0, <2>1, <2>3, LPopUses
    <3>2. QED
      BY <1>2, <3>1
  <2>4. QED
    BY <2>2, <2>3
<1>6. CASE \E members \in SUBSET Val : SAdd(k, members)
  BY <1>0, <1>6, AddWrites DEF SAdd, Run
<1>7. CASE \E score \in Score, member \in Val : ZAdd(k, score, member)
  BY <1>0, <1>7, AddWrites DEF ZAdd, Run
<1>8. QED
  BY <1>1, <1>3, <1>4, <1>5, <1>6, <1>7 DEF Access

LEMMA RecencyStep ==
  ASSUME RecencyInv, [RecencyNext]_<<vars, used>>
  PROVE  RecencyInv' /\ [Cache!Next]_(Cache!vars)
<1>0. IInv /\ TypeOK /\ Sound(store) /\ Coherent(store) /\ store \in StoreType
  BY DEF RecencyInv, IInv, Sound, Coherent
<1>1. IInv'
  <2>1. [Next]_vars
    BY DEF RecencyNext, Next, vars
  <2>2. QED
    BY <1>0, <2>1, NextIInv
<1>2. ASSUME NEW k \in Key, Access(k), used' = IF Has(store', k) THEN Recent(k) ELSE used
      PROVE  UsedInv' /\ [Cache!Next]_(Cache!vars)
  <2>1. CASE Written(store, store', k)
    <3>1. Has(store', k)
      BY <2>1 DEF Written, Moved, Present
    <3>2. QED
      BY <1>2, <2>1, <3>1, WrittenStep
  <2>2. CASE Dropped(store, store', k) /\ ~Has(store', k)
    BY <1>2, <2>2, DroppedStep
  <2>3. CASE store' = store /\ ~Has(store', k)
    BY <1>2, <2>3, UnmovedStep
  <2>4. QED
    BY <1>0, <1>2, <2>1, <2>2, <2>3, AccessWrites
<1>3. ASSUME NEW k \in Key, NEW d \in Duration, Expire(k, d), used' = used
      PROVE  UsedInv' /\ [Cache!Next]_(Cache!vars)
  <2>1. store' = ExpireCmd(store, k, d, now)
    BY <1>3 DEF Expire, Run
  <2>2. store'.lruList = store.lruList /\ Present(store') = Present(store)
    <3>1. CASE Live(store, k, now)
      <4> DEFINE e == [store.data[k] EXCEPT !.expiresAt = now + d]
      <4>1. Has(store, k) /\ store.data[k] \in Entry
        BY <1>0, <3>1, EntryOfKey DEF Live
      <4>2. now + d \in Nat
        BY <1>0, ClockAssumption DEF TypeOK
      <4>3. e \in Entry
        BY <4>1, <4>2 DEF Entry
      <4>4. store' = [store EXCEPT !.data[k] = e]
        BY <2>1, <3>1 DEF ExpireCmd
      <4> HIDE DEF e
      <4>5. /\ store'.lruList = store.lruList
            /\ \A j \in Key : store'.data[j] = IF j = k THEN e ELSE store.data[j]
        BY <1>0, <4>4 DEF StoreType
      <4>6. QED
        BY <4>1, <4>3, <4>5, StoreAssumption DEF Present, Has
    <3>2. CASE ~Live(store, k, now)
      BY <2>1, <3>2 DEF ExpireCmd
    <3>3. QED
      BY <3>1, <3>2
  <2>3. QED
    BY <1>3, <2>2, UnmovedStep
<1>4. ASSUME NEW k \in Key, DelStep(k) \/ SweepStep(k), used' = used
      PROVE  UsedInv' /\ [Cache!Next]_(Cache!vars)
  <2>1. store' = store \/ (Has(store, k) /\ store' = RemoveLocked(store, k))
    BY <1>4 DEF DelStep, SweepStep, DelOne
  <2>2. CASE store' = store
    BY <1>4, <2>2, UnmovedStep
  <2>3. CASE Has(store, k) /\ store' = RemoveLocked(store, k)
    <3>1. Dropped(store, store', k)
      BY <1>0, <2>3, RemoveDrops
    <3>2. QED
      BY <1>4, <3>1, DroppedStep
  <2>4. QED
    BY <2>1, <2>2, <2>3
<1>5. ASSUME FlushAll, used' = used PROVE UsedInv' /\ [Cache!Next]_(Cache!vars)
  <2>1. Present(store') = {}
    BY <1>5 DEF FlushAll, Run, EmptyStore, Present, Has
  <2>2. Cache!Clear
    BY <2>1 DEF Cache!Clear
  <2>3. UsedInv'
    BY <1>5, <2>1 DEF RecencyInv, UsedInv, SameOrder
  <2>4. QED
    BY <2>2, <2>3 DEF Cache!Next
<1>6. ASSUME store' = store, used' = used PROVE UsedInv' /\ [Cache!Next]_(Cache!vars)
  BY <1>6, UnmovedStep
<1>7. ASSUME Removal, used' = used PROVE UsedInv' /\ [Cache!Next]_(Cache!vars)
  <2>1. CASE FlushAll
    BY <1>5, <1>7, <2>1
  <2>2. CASE \E k \in Key : DelStep(k) \/ SweepStep(k)
    BY <1>4, <1>7, <2>2
  <2>3. CASE (\E keys \in SUBSET Key : DelBegin(keys)) \/ SweepBegin \/ Unlock
    <3>1. store' = store
      BY <2>3 DEF DelBegin, SweepBegin, Unlock
    <3>2. QED
      BY <1>6, <1>7, <3>1
  <2>4. QED
    BY <1>7, <2>1, <2>2, <2>3 DEF Removal
<1>8. ASSUME Tick, used' = used PROVE UsedInv' /\ [Cache!Next]_(Cache!vars)
  BY <1>6, <1>8 DEF Tick
<1>9. ASSUME UNCHANGED <<vars, used>> PROVE UsedInv' /\ [Cache!Next]_(Cache!vars)
  BY <1>6, <1>9 DEF vars
<1>10. QED
  BY <1>1, <1>2, <1>3, <1>7, <1>8, <1>9 DEF RecencyNext, RecencyInv

(* What the LRU list gives up is the key that the commands which lock the  *)
(* mutex exclusively used least recently, by what they did, not by what    *)
(* the list says.  Range reads are not among them (ReadingSpec).           *)
THEOREM EvictionIsByTouch == RecencySpec => EvictsLeastRecentlyTouched
<1>1. Init /\ used = <<>> => RecencyInv /\ Cache!Init
  <2> SUFFICES ASSUME Init, used = <<>> PROVE RecencyInv /\ Cache!Init
    OBVIOUS
  <2>1. IInv
    BY InitIInv
  <2>2. Present(store) = {}
    BY DEF Init, EmptyStore, Present, Has
  <2>3. Listing(used)
    BY DEF Listing, IsInjective
  <2>4. UsedInv
    BY <2>2, <2>3 DEF UsedInv, SameOrder
  <2>5. Cache!Init
    BY <2>2 DEF Cache!Init
  <2>6. QED
    BY <2>1, <2>4, <2>5 DEF RecencyInv
<1>2. RecencyInv /\ [RecencyNext]_<<vars, used>> => RecencyInv' /\ [Cache!Next]_(Cache!vars)
  BY RecencyStep
<1>3. QED
  BY <1>1, <1>2, PTL DEF RecencySpec, EvictsLeastRecentlyTouched, Cache!Spec

=============================================================================
