--------------------------- MODULE StoreOpsProofs ---------------------------
(***************************************************************************)
(* Lemmas about the operators of StoreOps and Commands, for every store,   *)
(* set of keys, limit and log, which the proofs about Store, Server and    *)
(* Replay cite: what keeps a store sound, what becomes of the map that     *)
(* clients see, of the order of the LRU list and of the entries of other   *)
(* keys, what the range reads answer, and what a log makes of an empty     *)
(* store, line by line.                                                    *)
(***************************************************************************)
EXTENDS Commands, FiniteSetTheorems, SequenceTheorems, TLAPS

-----------------------------------------------------------------------------
(* LRU lists.                                                              *)

(* Without the element at n, the ones behind it move up.                   *)
LEMMA RemoveFirstShifts ==
  ASSUME NEW S, NEW l \in Seq(S), IsInjective(l), NEW k, NEW n \in 1 .. Len(l), l[n] = k
  PROVE  RemoveFirst(l, k) = [i \in 1 .. Len(l) - 1 |-> IF i < n THEN l[i] ELSE l[i + 1]]
<1> DEFINE I == {i \in 1 .. Len(l) : l[i] = k}
           r == [i \in 1 .. Len(l) - 1 |-> IF i < n THEN l[i] ELSE l[i + 1]]
           a == SubSeq(l, 1, n - 1)
           b == SubSeq(l, n + 1, Len(l))
<1>1. I = {n}
  BY DEF IsInjective
<1>2. Min(I) = n
  BY <1>1 DEF Min
<1>3. RemoveFirst(l, k) = a \o b
  BY <1>1, <1>2 DEF RemoveFirst, RemoveAt, SelectInSeq
<1>4. a \in Seq(S) /\ Len(a) = n - 1 /\ \A i \in 1 .. n - 1 : a[i] = l[i]
  OBVIOUS
<1>5. /\ b \in Seq(S) /\ Len(b) = Len(l) - n
      /\ \A i \in 1 .. Len(l) - n : b[i] = l[n + i]
  OBVIOUS
<1> HIDE DEF a, b
<1>6. /\ a \o b \in Seq(S) /\ Len(a \o b) = Len(a) + Len(b)
      /\ \A i \in 1 .. Len(a) + Len(b) :
           (a \o b)[i] = IF i <= Len(a) THEN a[i] ELSE b[i - Len(a)]
  BY <1>4, <1>5, ConcatProperties
<1>7. r \in Seq(S) /\ Len(r) = Len(l) - 1
  OBVIOUS
<1>8. ASSUME NEW i \in 1 .. Len(l) - 1 PROVE (a \o b)[i] = r[i]
  <2> HIDE DEF r
  <2>1. CASE i < n
    <3>1. i \in 1 .. n - 1 /\ i \in 1 .. Len(a) + Len(b) /\ i <= Len(a)
      BY <1>4, <1>5, <2>1
    <3>2. (a \o b)[i] = l[i]
      BY <1>4, <1>6, <3>1
    <3>3. r[i] = l[i]
      BY <2>1 DEF r
    <3>4. QED
      BY <3>2, <3>3
  <2>2. CASE i >= n
    <3>1. /\ i - (n - 1) \in 1 .. Len(l) - n
          /\ i \in 1 .. Len(a) + Len(b) /\ ~(i <= Len(a))
          /\ n + (i - (n - 1)) = i + 1
      BY <1>4, <1>5, <2>2
    <3>2. (a \o b)[i] = b[i - (n - 1)]
      BY <1>4, <1>6, <3>1
    <3>3. b[i - (n - 1)] = l[i + 1]
      BY <1>5, <3>1
    <3>4. r[i] = l[i + 1]
      BY <2>2 DEF r
    <3>5. QED
      BY <3>2, <3>3, <3>4
  <2>3. i < n \/ i >= n
    OBVIOUS
  <2>4. QED
    BY <2>1, <2>2, <2>3
<1>9. a \o b = r
  <2>1. Len(a \o b) = Len(r)
    BY <1>4, <1>5, <1>6, <1>7
  <2>2. \A i \in 1 .. Len(a \o b) : (a \o b)[i] = r[i]
    BY <1>7, <1>8, <2>1
  <2> HIDE DEF r
  <2>3. QED
    BY <1>6, <1>7, <2>1, <2>2, SeqEqual
<1>10. QED
  BY <1>3, <1>9 DEF a, b, r

(* Moving or removing a list.Element: the rest of the list keeps its keys, *)
(* each once.                                                              *)
LEMMA RemoveFirstKeepsRest ==
  ASSUME NEW S, NEW l \in Seq(S), IsInjective(l), NEW k
  PROVE  /\ RemoveFirst(l, k) \in Seq(S)
         /\ IsInjective(RemoveFirst(l, k))
         /\ ToSet(RemoveFirst(l, k)) = ToSet(l) \ {k}
<1>1. CASE ~\E i \in 1 .. Len(l) : l[i] = k
  <2>1. RemoveFirst(l, k) = l
    BY <1>1 DEF RemoveFirst
  <2>2. k \notin ToSet(l)
    BY <1>1 DEF ToSet
  <2>3. QED
    BY <2>1, <2>2
<1>2. ASSUME NEW n \in 1 .. Len(l), l[n] = k
      PROVE  /\ RemoveFirst(l, k) \in Seq(S)
             /\ IsInjective(RemoveFirst(l, k))
             /\ ToSet(RemoveFirst(l, k)) = ToSet(l) \ {k}
  <2> DEFINE r == [i \in 1 .. Len(l) - 1 |-> IF i < n THEN l[i] ELSE l[i + 1]]
  <2>1. RemoveFirst(l, k) = r
    BY <1>2, RemoveFirstShifts
  <2>2. r \in Seq(S)
    OBVIOUS
  <2>3. IsInjective(r)
    BY DEF IsInjective
  <2>4. ToSet(r) = ToSet(l) \ {k}
    <3>1. ASSUME NEW x \in ToSet(r) PROVE x \in ToSet(l) \ {k}
      BY <1>2 DEF ToSet, IsInjective
    <3>2. ASSUME NEW x \in ToSet(l) \ {k} PROVE x \in ToSet(r)
      <4>1. PICK i \in 1 .. Len(l) : l[i] = x
        BY DEF ToSet
      <4>2. i # n
        BY <4>1, <1>2
      <4>3. CASE i < n
        BY <4>1, <4>3 DEF ToSet
      <4>4. CASE i > n
        <5>1. i - 1 \in DOMAIN r /\ r[i - 1] = x
          BY <4>1, <4>4
        <5>2. QED
          BY <5>1 DEF ToSet
      <4>5. QED
        BY <4>2, <4>3, <4>4
    <3>3. QED
      BY <3>1, <3>2
  <2>5. QED
    BY <2>1, <2>2, <2>3, <2>4
<1>3. QED
  BY <1>1, <1>2

(* PushFront of a key that is not in the list.                             *)
LEMMA ConsAddsKey ==
  ASSUME NEW S, NEW l \in Seq(S), IsInjective(l), NEW k \in S, k \notin ToSet(l)
  PROVE  /\ Cons(k, l) \in Seq(S)
         /\ IsInjective(Cons(k, l))
         /\ ToSet(Cons(k, l)) = ToSet(l) \cup {k}
         /\ ToSet(l) # {} => Last(Cons(k, l)) = Last(l) /\ Last(l) \in ToSet(l)
<1> DEFINE c == Cons(k, l)
<1>1. c \in Seq(S) /\ Len(c) = Len(l) + 1 /\ c[1] = k
      /\ \A i \in 1 .. Len(l) : c[i + 1] = l[i]
  BY DEF Cons
<1>2. \A i \in 2 .. Len(c) : c[i] = l[i - 1] /\ c[i] \in ToSet(l)
  BY <1>1 DEF ToSet
<1>3. IsInjective(c)
  <2>1. SUFFICES ASSUME NEW i \in 1 .. Len(c), NEW j \in 1 .. Len(c), c[i] = c[j]
                 PROVE  i = j
    BY <1>1 DEF IsInjective
  <2>2. CASE i = 1 \/ j = 1
    BY <1>1, <1>2, <2>1, <2>2
  <2>3. CASE i # 1 /\ j # 1
    <3>1. l[i - 1] = l[j - 1] /\ i - 1 \in DOMAIN l /\ j - 1 \in DOMAIN l
      BY <1>1, <1>2, <2>1, <2>3
    <3>2. QED
      BY <3>1 DEF IsInjective
  <2>4. QED
    BY <2>2, <2>3
<1>4. ToSet(c) = ToSet(l) \cup {k}
  <2>1. ToSet(c) \subseteq ToSet(l) \cup {k}
    BY <1>1, <1>2 DEF ToSet
  <2>2. ASSUME NEW x \in ToSet(l) PROVE x \in ToSet(c)
    <3>1. PICK i \in 1 .. Len(l) : l[i] = x
      BY DEF ToSet
    <3>2. i + 1 \in DOMAIN c /\ c[i + 1] = x
      BY <1>1, <3>1
    <3>3. QED
      BY <3>2 DEF ToSet
  <2>3. k \in ToSet(c)
    BY <1>1 DEF ToSet
  <2>4. QED
    BY <2>1, <2>2, <2>3
<1>5. ASSUME ToSet(l) # {} PROVE Last(c) = Last(l) /\ Last(l) \in ToSet(l)
  <2>1. Len(l) \in 1 .. Len(l)
    BY <1>5 DEF ToSet
  <2>2. QED
    BY <1>1, <2>1 DEF Last, ToSet
<1>6. QED
  BY <1>1, <1>3, <1>4, <1>5

-----------------------------------------------------------------------------
(* The helpers of StoreOps.                                                *)

(* A well-formed store whose LRU list carries each key of the map once.    *)
Coherent(s) ==
  /\ s \in StoreType
  /\ IsInjective(s.lruList)
  /\ ToSet(s.lruList) = Present(s)

(* What every command preserves.                                           *)
Sound(s) == Coherent(s) /\ ~OverLimit(s)

LEMMA PresentFinite ==
  ASSUME NEW s
  PROVE  IsFiniteSet(Present(s)) /\ Cardinality(Present(s)) \in Nat
BY StoreAssumption, FS_Subset, FS_CardinalityType DEF Present

LEMMA EntrySizeNat ==
  ASSUME NEW e \in Entry
  PROVE  EntrySize(e) \in Nat /\ EntrySize(e) >= 64
<1>1. e.vtype \in VType /\ Len(e.list) \in Nat
  BY DEF Entry
<1>2. Cardinality(e.set) \in Nat
  <2>1. e.set \subseteq Val
    BY DEF Entry
  <2>2. QED
    BY <2>1, StoreAssumption, FS_Subset, FS_CardinalityType
<1>3. Cardinality(DOMAIN e.zset) \in Nat
  <2>1. PICK ms \in SUBSET Val : e.zset \in [ms -> Score]
    BY DEF Entry, ScoreMap
  <2>2. DOMAIN e.zset \subseteq Val
    BY <2>1
  <2>3. QED
    BY <2>2, StoreAssumption, FS_Subset, FS_CardinalityType
<1>4. CASE e.vtype = "String"
  BY <1>4, StoreAssumption DEF EntrySize
<1>5. CASE e.vtype = "List"
  <2>1. Len(e.list) * (ValLen + 16) \in Nat
    <3>1. \A m, n \in Nat : m * n \in Nat
      OBVIOUS
    <3>2. ValLen + 16 \in Nat
      BY StoreAssumption
    <3>3. QED
      BY <1>1, <3>1, <3>2
  <2>2. EntrySize(e) = 64 + Len(e.list) * (ValLen + 16)
    BY <1>5 DEF EntrySize
  <2>3. QED
    BY <2>1, <2>2
<1>6. CASE e.vtype = "Set"
  BY <1>2, <1>6 DEF EntrySize
<1>7. CASE e.vtype = "ZSet"
  BY <1>3, <1>7 DEF EntrySize
<1>8. QED
  BY <1>1, <1>4, <1>5, <1>6, <1>7 DEF VType

LEMMA RemoveLockedCoherent ==
  ASSUME NEW s, Coherent(s), NEW k \in Key, Has(s, k)
  PROVE  /\ Coherent(RemoveLocked(s, k))
         /\ Present(RemoveLocked(s, k)) = Present(s) \ {k}
         /\ RemoveLocked(s, k).data = [s.data EXCEPT ![k] = Absent]
<1> DEFINE r == RemoveLocked(s, k)
           rest == s.byteUsed - (KeyLen + EntrySize(s.data[k]))
<1>1. s.data \in [Key -> Entry \cup {Absent}] /\ s.lruList \in Seq(Key) /\ s.byteUsed \in Nat
  BY DEF Coherent, StoreType
<1>2. s.data[k] \in Entry
  BY <1>1 DEF Has
<1>3. rest \in Int
  BY <1>1, <1>2, EntrySizeNat, StoreAssumption
<1>4. /\ r.data = [s.data EXCEPT ![k] = Absent]
      /\ r.lruList = RemoveFirst(s.lruList, k)
      /\ r = [data |-> r.data, lruList |-> r.lruList, byteUsed |-> r.byteUsed]
      /\ r.byteUsed = IF rest < 0 THEN 0 ELSE rest
  BY DEF RemoveLocked
<1>5. /\ r.lruList \in Seq(Key) /\ IsInjective(r.lruList)
      /\ ToSet(r.lruList) = Present(s) \ {k}
  BY <1>1, <1>4, RemoveFirstKeepsRest DEF Coherent
<1>6. r.data \in [Key -> Entry \cup {Absent}]
  BY <1>1, <1>4
<1>7. r.byteUsed \in Nat
  BY <1>3, <1>4
<1>8. r \in StoreType
  BY <1>4, <1>5, <1>6, <1>7 DEF StoreType
<1>9. Present(r) = Present(s) \ {k}
  BY <1>1, <1>4 DEF Present, Has
<1>10. QED
  BY <1>4, <1>5, <1>8, <1>9 DEF Coherent

LEMMA TouchLRUCoherent ==
  ASSUME NEW s, Coherent(s), NEW k \in Key, Has(s, k)
  PROVE  /\ Coherent(TouchLRU(s, k))
         /\ TouchLRU(s, k).data = s.data
         /\ Present(TouchLRU(s, k)) = Present(s)
<1> DEFINE r == TouchLRU(s, k)
           l == RemoveFirst(s.lruList, k)
<1>1. s \in StoreType /\ s.lruList \in Seq(Key)
  BY DEF Coherent, StoreType
<1>2. /\ l \in Seq(Key) /\ IsInjective(l) /\ ToSet(l) = Present(s) \ {k}
  BY <1>1, RemoveFirstKeepsRest DEF Coherent
<1>3. /\ r.data = s.data /\ r.lruList = Cons(k, l) /\ r.byteUsed = s.byteUsed
      /\ r = [data |-> s.data, lruList |-> Cons(k, l), byteUsed |-> s.byteUsed]
  BY <1>1 DEF TouchLRU, StoreType
<1> HIDE DEF l, r
<1>4. Cons(k, l) \in Seq(Key) /\ IsInjective(Cons(k, l)) /\ ToSet(Cons(k, l)) = ToSet(l) \cup {k}
  BY <1>2, ConsAddsKey
<1>5. k \in Present(s)
  BY DEF Present
<1>6. r \in StoreType
  BY <1>1, <1>3, <1>4 DEF StoreType
<1>7. Present(r) = Present(s)
  BY <1>3 DEF Present, Has
<1>8. Coherent(r)
  BY <1>2, <1>3, <1>4, <1>5, <1>6, <1>7 DEF Coherent
<1>9. QED
  BY <1>3, <1>7, <1>8 DEF r

LEMMA InsertCoherent ==
  ASSUME NEW s, Coherent(s), NEW k \in Key, ~Has(s, k), NEW e \in Entry
  PROVE  /\ Coherent(Insert(s, k, e))
         /\ Insert(s, k, e).data = [s.data EXCEPT ![k] = e]
         /\ Present(Insert(s, k, e)) = Present(s) \cup {k}
         /\ Present(s) # {} => /\ Last(Insert(s, k, e).lruList) \in Present(s)
                               /\ Insert(s, k, e).lruList # <<>>
<1> DEFINE r == Insert(s, k, e)
           l == s.lruList
<1>1. s.data \in [Key -> Entry \cup {Absent}] /\ l \in Seq(Key) /\ s.byteUsed \in Nat
      /\ IsInjective(l) /\ ToSet(l) = Present(s)
  BY DEF Coherent, StoreType
<1>2. k \notin Present(s)
  BY DEF Present
<1>3. /\ r.data = [s.data EXCEPT ![k] = e] /\ r.lruList = Cons(k, l)
      /\ r.byteUsed = s.byteUsed + KeyLen + EntrySize(e)
      /\ r = [data |-> r.data, lruList |-> r.lruList, byteUsed |-> r.byteUsed]
  BY DEF Insert
<1>4. r.byteUsed \in Nat
  BY <1>1, <1>3, EntrySizeNat, StoreAssumption
<1> HIDE DEF l, r
<1>5. /\ Cons(k, l) \in Seq(Key) /\ IsInjective(Cons(k, l))
      /\ ToSet(Cons(k, l)) = ToSet(l) \cup {k}
      /\ ToSet(l) # {} => Last(Cons(k, l)) = Last(l) /\ Last(l) \in ToSet(l)
  BY <1>1, <1>2, ConsAddsKey
<1>6. r.data \in [Key -> Entry \cup {Absent}]
  BY <1>1, <1>3
<1>7. r \in StoreType
  BY <1>3, <1>4, <1>5, <1>6 DEF StoreType
<1>8. Present(r) = Present(s) \cup {k}
  BY <1>1, <1>3, StoreAssumption DEF Present, Has
<1>9. Coherent(r)
  BY <1>1, <1>3, <1>5, <1>7, <1>8 DEF Coherent
<1>10. Cons(k, l) # <<>>
  BY <1>1 DEF Cons
<1>11. QED
  BY <1>1, <1>3, <1>5, <1>8, <1>9, <1>10 DEF r

(* evictOne on a coherent store that is not empty gives up the key at the  *)
(* back of the list: the loop of setLocked makes progress.                 *)
LEMMA EvictOneCoherent ==
  ASSUME NEW s, Coherent(s), s.lruList # <<>>
  PROVE  /\ Coherent(EvictOne(s))
         /\ Last(s.lruList) \in Present(s)
         /\ Present(EvictOne(s)) = Present(s) \ {Last(s.lruList)}
         /\ EvictOne(s).data = [s.data EXCEPT ![Last(s.lruList)] = Absent]
<1> DEFINE k == Last(s.lruList)
<1>1. s.lruList \in Seq(Key)
  BY DEF Coherent, StoreType
<1>2. k \in ToSet(s.lruList)
  BY <1>1 DEF Last, ToSet
<1>3. k \in Present(s) /\ k \in Key /\ Has(s, k)
  BY <1>2 DEF Coherent, Present
<1>4. EvictOne(s) = RemoveLocked(s, k)
  BY <1>3 DEF EvictOne
<1>5. QED
  BY <1>3, <1>4, RemoveLockedCoherent

(* setLocked keeps the store sound and leaves the key it was called for in *)
(* the map; one round of its eviction loop is enough.                      *)
LEMMA SetLockedSound ==
  ASSUME NEW s, Sound(s), NEW k \in Key, NEW e \in Entry
  PROVE  /\ Sound(SetLocked(s, k, e))
         /\ SetLocked(s, k, e).data[k] = e
<1> DEFINE old == IF Has(s, k) THEN RemoveLocked(s, k) ELSE s
           new == Insert(old, k, e)
           lost == Last(new.lruList)
<1>1. Coherent(old) /\ ~Has(old, k) /\ Present(old) = Present(s) \ {k}
  <2>1. CASE Has(s, k)
    <3>1. Coherent(old) /\ Present(old) = Present(s) \ {k}
      BY <2>1, RemoveLockedCoherent DEF Sound
    <3>2. QED
      BY <3>1 DEF Present
  <2>2. CASE ~Has(s, k)
    BY <2>2 DEF Sound, Present
  <2>3. QED
    BY <2>1, <2>2
<1> HIDE DEF old
<1>2. /\ Coherent(new) /\ new.data = [old.data EXCEPT ![k] = e]
      /\ Present(new) = Present(old) \cup {k}
      /\ Present(old) # {} => lost \in Present(old) /\ new.lruList # <<>>
  BY <1>1, InsertCoherent
<1>3. SetLocked(s, k, e) = IF OverLimit(new) THEN EvictOne(new) ELSE new
  BY DEF SetLocked, old
<1>4. new.data[k] = e
  <2>1. old.data \in [Key -> Entry \cup {Absent}]
    BY <1>1 DEF Coherent, StoreType
  <2>2. QED
    BY <1>2, <2>1
<1> HIDE DEF new
<1>5. CASE ~OverLimit(new)
  BY <1>2, <1>3, <1>4, <1>5 DEF Sound
<1>6. CASE OverLimit(new)
  <2>1. MaxKeys \in Nat /\ MaxKeys > 0 /\ Cardinality(Present(new)) > MaxKeys
    BY <1>6, StoreAssumption DEF OverLimit
  <2>2. Cardinality(Present(s)) <= MaxKeys
    <3>1. ~(Cardinality(Present(s)) > MaxKeys)
      BY <2>1 DEF Sound, OverLimit
    <3>2. QED
      BY <2>1, <3>1, PresentFinite
  <2>3. IsFiniteSet(Present(old)) /\ Cardinality(Present(old)) <= Cardinality(Present(s))
    BY <1>1, PresentFinite, FS_Subset
  <2>4. Cardinality(Present(new)) = Cardinality(Present(old)) + 1
    BY <1>1, <1>2, <2>3, FS_AddElement DEF Present
  <2>5. Present(old) # {}
    BY <2>1, <2>4, FS_EmptySet
  <2>6. lost \in Present(old) /\ new.lruList # <<>> /\ lost # k
    BY <1>1, <1>2, <2>5 DEF Present
  <2>7. /\ Coherent(EvictOne(new)) /\ lost \in Present(new)
        /\ Present(EvictOne(new)) = Present(new) \ {lost}
        /\ EvictOne(new).data = [new.data EXCEPT ![lost] = Absent]
    BY <1>2, <2>6, EvictOneCoherent
  <2>8. Cardinality(Present(EvictOne(new))) = Cardinality(Present(new)) - 1
    BY <2>7, PresentFinite, FS_RemoveElement
  <2>9. ~OverLimit(EvictOne(new))
    BY <2>1, <2>2, <2>3, <2>4, <2>8, PresentFinite DEF OverLimit
  <2>10. EvictOne(new).data[k] = e
    BY <1>4, <2>6, <2>7 DEF Coherent, StoreType
  <2>11. QED
    BY <1>3, <1>6, <2>7, <2>9, <2>10 DEF Sound
<1>7. QED
  BY <1>5, <1>6

LEMMA RemoveLockedSound ==
  ASSUME NEW s, Sound(s), NEW k \in Key, Has(s, k)
  PROVE  Sound(RemoveLocked(s, k))
<1>1. /\ Coherent(RemoveLocked(s, k))
      /\ Present(RemoveLocked(s, k)) \subseteq Present(s)
  BY RemoveLockedCoherent DEF Sound
<1>2. Cardinality(Present(RemoveLocked(s, k))) <= Cardinality(Present(s))
  BY <1>1, PresentFinite, FS_Subset
<1>3. QED
  BY <1>1, <1>2, PresentFinite, StoreAssumption DEF Sound, OverLimit

LEMMA TouchLRUSound ==
  ASSUME NEW s, Sound(s), NEW k \in Key, Has(s, k)
  PROVE  Sound(TouchLRU(s, k))
BY TouchLRUCoherent DEF Sound, OverLimit

(* A change inside an entry moves neither the map's keys nor the list's.   *)
LEMMA EntryChangeSound ==
  ASSUME NEW s, Sound(s), NEW k \in Key, Has(s, k), NEW e \in Entry
  PROVE  /\ Sound([s EXCEPT !.data[k] = e])
         /\ Has([s EXCEPT !.data[k] = e], k)
<1> DEFINE r == [s EXCEPT !.data[k] = e]
<1>1. s \in StoreType
  BY DEF Sound, Coherent
<1>2. /\ r.data = [s.data EXCEPT ![k] = e] /\ r.lruList = s.lruList
      /\ r \in StoreType
  BY <1>1 DEF StoreType
<1>3. Present(r) = Present(s) /\ Has(r, k)
  BY <1>1, <1>2, StoreAssumption DEF Present, Has, StoreType
<1>4. QED
  BY <1>2, <1>3 DEF Sound, Coherent, OverLimit

LEMMA NewEntryTyped ==
  ASSUME NEW vtype \in VType
  PROVE  NewEntry(vtype) \in Entry
<1>1. [m \in {} |-> 0] \in ScoreMap
  <2>1. [m \in {} |-> 0] \in [{} -> Score]
    OBVIOUS
  <2>2. {} \in SUBSET Val
    OBVIOUS
  <2>3. QED
    BY <2>1, <2>2 DEF ScoreMap
<1>2. QED
  BY <1>1 DEF NewEntry, Entry, NoExpiry

LEMMA EntryOfKey ==
  ASSUME NEW s, Coherent(s), NEW k \in Key, Has(s, k)
  PROVE  s.data[k] \in Entry
BY DEF Coherent, StoreType, Has

LEMMA GetLockedSound ==
  ASSUME NEW s, Sound(s), NEW k \in Key, NEW t
  PROVE  /\ Sound(GetLocked(s, k, t))
         /\ Live(s, k, t) => /\ Has(GetLocked(s, k, t), k)
                             /\ GetLocked(s, k, t).data = s.data
<1>1. CASE Live(s, k, t)
  <2>1. Has(s, k) /\ GetLocked(s, k, t) = TouchLRU(s, k)
    BY <1>1 DEF GetLocked, Live
  <2>2. TouchLRU(s, k).data = s.data
    BY <2>1, TouchLRUCoherent DEF Sound
  <2>3. QED
    BY <2>1, <2>2, TouchLRUSound DEF Has
<1>2. CASE ~Live(s, k, t)
  BY <1>2, RemoveLockedSound DEF GetLocked
<1>3. QED
  BY <1>1, <1>2

LEMMA GetOrCreateLockedSound ==
  ASSUME NEW s, Sound(s), NEW k \in Key, NEW vtype \in VType, NEW t
  PROVE  /\ Sound(GetOrCreateLocked(s, k, vtype, t))
         /\ Has(GetOrCreateLocked(s, k, vtype, t), k)
         /\ GetOrCreateLocked(s, k, vtype, t).data[k] \in Entry
<1>1. CASE Live(s, k, t) /\ s.data[k].vtype = vtype
  <2>1. GetOrCreateLocked(s, k, vtype, t) = s /\ Has(s, k)
    BY <1>1 DEF GetOrCreateLocked, Live
  <2>2. QED
    BY <2>1, EntryOfKey DEF Sound
<1>2. CASE ~(Live(s, k, t) /\ s.data[k].vtype = vtype)
  <2> DEFINE r == SetLocked(s, k, NewEntry(vtype))
  <2>1. GetOrCreateLocked(s, k, vtype, t) = r
    BY <1>2 DEF GetOrCreateLocked
  <2>2. NewEntry(vtype) \in Entry
    BY NewEntryTyped
  <2>3. Sound(r) /\ r.data[k] = NewEntry(vtype)
    BY <2>2, SetLockedSound
  <2>4. QED
    BY <2>1, <2>2, <2>3, StoreAssumption DEF Has
<1>3. QED
  BY <1>1, <1>2

(* A write that goes through getOrCreateLocked: the entry it is given is   *)
(* there, is changed and is moved to the front.                            *)
LEMMA WriteEntrySound ==
  ASSUME NEW s, Sound(s), NEW k \in Key, Has(s, k), NEW e \in Entry
  PROVE  /\ Sound(TouchLRU([s EXCEPT !.data[k] = e], k))
         /\ Has(TouchLRU([s EXCEPT !.data[k] = e], k), k)
<1> DEFINE r == [s EXCEPT !.data[k] = e]
<1>1. Sound(r) /\ Has(r, k)
  BY EntryChangeSound
<1> HIDE DEF r
<1>2. TouchLRU(r, k).data = r.data
  BY <1>1, TouchLRUCoherent DEF Sound
<1>3. Sound(TouchLRU(r, k)) /\ Has(TouchLRU(r, k), k)
  BY <1>1, <1>2, TouchLRUSound DEF Has
<1>4. QED
  BY <1>3 DEF r

-----------------------------------------------------------------------------
(* The commands.                                                           *)

LEMMA SetCmdSound ==
  ASSUME NEW s, Sound(s), NEW k \in Key, NEW v \in Val
  PROVE  Sound(SetCmd(s, k, v)) /\ Has(SetCmd(s, k, v), k)
<1>1. "String" \in VType
  BY DEF VType
<1>2. [NewEntry("String") EXCEPT !.str = v] \in Entry
  BY <1>1, NewEntryTyped DEF Entry
<1>3. QED
  BY <1>2, SetLockedSound, StoreAssumption DEF SetCmd, Has

LEMMA ExpireCmdSound ==
  ASSUME NEW s, Sound(s), NEW k \in Key, NEW d, NEW t, t + d \in Nat
  PROVE  Sound(ExpireCmd(s, k, d, t))
<1>1. CASE Live(s, k, t)
  <2> DEFINE e == [s.data[k] EXCEPT !.expiresAt = t + d]
  <2>1. Has(s, k)
    BY <1>1 DEF Live
  <2>2. e \in Entry
    BY <2>1, EntryOfKey DEF Sound, Entry
  <2>3. ExpireCmd(s, k, d, t) = [s EXCEPT !.data[k] = e]
    BY <1>1 DEF ExpireCmd
  <2>4. QED
    BY <2>1, <2>2, <2>3, EntryChangeSound
<1>2. CASE ~Live(s, k, t)
  BY <1>2 DEF ExpireCmd
<1>3. QED
  BY <1>1, <1>2

LEMMA PushSound ==
  ASSUME NEW s, Sound(s), NEW k \in Key, NEW vals \in Seq(Val), NEW t
  PROVE  /\ Sound(LPushCmd(s, k, vals, t)) /\ Has(LPushCmd(s, k, vals, t), k)
         /\ Sound(RPushCmd(s, k, vals, t)) /\ Has(RPushCmd(s, k, vals, t), k)
<1> DEFINE got == GetOrCreateLocked(s, k, "List", t)
           left == [got.data[k] EXCEPT !.list = Reverse(vals) \o @]
           right == [got.data[k] EXCEPT !.list = @ \o vals]
<1>1. Sound(got) /\ Has(got, k) /\ got.data[k] \in Entry
  BY GetOrCreateLockedSound DEF VType
<1>2. Reverse(vals) \in Seq(Val)
  BY DEF Reverse
<1> HIDE DEF got
<1>3. left \in Entry /\ right \in Entry
  <2> DEFINE list == got.data[k].list
  <2>1. list \in Seq(Val)
    BY <1>1 DEF Entry
  <2>2. Reverse(vals) \o list \in Seq(Val) /\ list \o vals \in Seq(Val)
    BY <1>2, <2>1, ConcatProperties
  <2>3. /\ left = [got.data[k] EXCEPT !.list = Reverse(vals) \o list]
        /\ right = [got.data[k] EXCEPT !.list = list \o vals]
    OBVIOUS
  <2> HIDE DEF list, left, right
  <2>4. QED
    BY <1>1, <2>2, <2>3 DEF Entry
<1> DEFINE Pushed(e) == TouchLRU([got EXCEPT !.data[k] = e], k)
<1>4. /\ Sound(Pushed(left)) /\ Has(Pushed(left), k)
      /\ Sound(Pushed(right)) /\ Has(Pushed(right), k)
  BY <1>1, <1>3, WriteEntrySound
<1>5. LPushCmd(s, k, vals, t) = Pushed(left) /\ RPushCmd(s, k, vals, t) = Pushed(right)
  BY DEF LPushCmd, RPushCmd, got
<1>6. QED
  BY <1>4, <1>5

LEMMA LPopCmdSound ==
  ASSUME NEW s, Sound(s), NEW k \in Key, NEW t
  PROVE  Sound(LPopCmd(s, k, t))
<1> DEFINE got == GetLocked(s, k, t)
           rest == [got.data[k] EXCEPT !.list = Tail(@)]
<1>1. Sound(got) /\ (Live(s, k, t) => Has(got, k))
  BY GetLockedSound
<1> HIDE DEF got
<1>2. CASE Live(s, k, t) /\ got.data[k].vtype = "List" /\ got.data[k].list # <<>>
  <2>1. got.data[k] \in Entry
    BY <1>1, <1>2, EntryOfKey DEF Sound
  <2>2. rest \in Entry
    <3>1. got.data[k].list \in Seq(Val)
      BY <2>1 DEF Entry
    <3>2. Tail(got.data[k].list) \in Seq(Val)
      BY <1>2, <3>1
    <3>3. QED
      BY <2>1, <3>2 DEF Entry
  <2>3. LPopCmd(s, k, t) = TouchLRU([got EXCEPT !.data[k] = rest], k)
    BY <1>2 DEF LPopCmd, got
  <2>4. QED
    BY <1>1, <1>2, <2>2, <2>3, WriteEntrySound
<1>3. CASE ~(Live(s, k, t) /\ got.data[k].vtype = "List" /\ got.data[k].list # <<>>)
  BY <1>1, <1>3 DEF LPopCmd, got
<1>4. QED
  BY <1>2, <1>3

LEMMA SAddCmdSound ==
  ASSUME NEW s, Sound(s), NEW k \in Key, NEW members \in SUBSET Val, NEW t
  PROVE  Sound(SAddCmd(s, k, members, t)) /\ Has(SAddCmd(s, k, members, t), k)
<1> DEFINE got == GetOrCreateLocked(s, k, "Set", t)
           e == [got.data[k] EXCEPT !.set = @ \cup members]
<1>1. Sound(got) /\ Has(got, k) /\ got.data[k] \in Entry
  BY GetOrCreateLockedSound DEF VType
<1> HIDE DEF got
<1>2. e \in Entry
  BY <1>1 DEF Entry
<1>3. SAddCmd(s, k, members, t) = TouchLRU([got EXCEPT !.data[k] = e], k)
  BY DEF SAddCmd, got
<1>4. QED
  BY <1>1, <1>2, <1>3, WriteEntrySound

LEMMA ZAddCmdSound ==
  ASSUME NEW s, Sound(s), NEW k \in Key, NEW score \in Score, NEW member \in Val, NEW t
  PROVE  Sound(ZAddCmd(s, k, score, member, t)) /\ Has(ZAddCmd(s, k, score, member, t), k)
<1> DEFINE got == GetOrCreateLocked(s, k, "ZSet", t)
           zset == got.data[k].zset
           new == [m \in DOMAIN zset \cup {member} |-> IF m = member THEN score ELSE zset[m]]
           e == [got.data[k] EXCEPT !.zset = new]
<1>1. Sound(got) /\ Has(got, k) /\ got.data[k] \in Entry
  BY GetOrCreateLockedSound DEF VType
<1> HIDE DEF got
<1>2. new \in ScoreMap
  <2>1. PICK ms \in SUBSET Val : zset \in [ms -> Score]
    BY <1>1 DEF Entry, ScoreMap
  <2>2. ms \cup {member} \in SUBSET Val /\ new \in [ms \cup {member} -> Score]
    BY <2>1
  <2>3. QED
    BY <2>2 DEF ScoreMap
<1> HIDE DEF new, zset
<1>3. e \in Entry
  BY <1>1, <1>2 DEF Entry
<1>4. ZAddCmd(s, k, score, member, t) = TouchLRU([got EXCEPT !.data[k] = e], k)
  BY DEF ZAddCmd, got, new, zset
<1>5. QED
  BY <1>1, <1>3, <1>4, WriteEntrySound

LEMMA EmptyStoreSound == Sound(EmptyStore)
<1>1. EmptyStore \in StoreType
  BY DEF EmptyStore, StoreType
<1>2. Present(EmptyStore) = {} /\ ToSet(EmptyStore.lruList) = {}
  BY DEF EmptyStore, Present, Has, ToSet
<1>3. IsInjective(EmptyStore.lruList)
  BY DEF EmptyStore, IsInjective
<1>4. Cardinality(Present(EmptyStore)) = 0
  BY <1>2, FS_EmptySet
<1>5. QED
  BY <1>1, <1>2, <1>3, <1>4, StoreAssumption DEF Sound, Coherent, OverLimit

-----------------------------------------------------------------------------
(* The map that clients see.                                               *)

(* The refinement mapping, as an operator on stores.                       *)
View(s, t) == [j \in Key |-> IF Live(s, j, t) THEN s.data[j] ELSE Absent]

(* Become of ExpiringMap, between two stores.                              *)
Becomes(s, r, t, k, e) ==
  \E lost \in SUBSET {j \in Key \ {k} : View(s, t)[j] # Absent} :
    /\ lost # {} => MaxKeys > 0 /\ View(s, t)[k] = Absent /\ \A i, j \in lost : i = j
    /\ View(r, t) = [j \in Key |-> IF j = k THEN e
                                   ELSE IF j \in lost THEN Absent ELSE View(s, t)[j]]

(* Typed of ExpiringMap.                                                   *)
Found(s, t, k, vtype) ==
  IF View(s, t)[k] # Absent /\ View(s, t)[k].vtype = vtype
  THEN View(s, t)[k] ELSE NewEntry(vtype)

(* What setLocked has given up, and what is left.                          *)
GivesUp(s, k, e, gone) ==
  /\ gone # {} => MaxKeys > 0 /\ ~Has(s, k) /\ \E x \in gone : gone = {x}
  /\ SetLocked(s, k, e).data =
       [j \in Key |-> IF j = k THEN e ELSE IF j \in gone THEN Absent ELSE s.data[j]]

(* setLocked gives up at most one other key, and only for a new one.       *)
LEMMA SetLockedMap ==
  ASSUME NEW s, Sound(s), NEW k \in Key, NEW e \in Entry
  PROVE  \E gone \in SUBSET (Key \ {k}) : GivesUp(s, k, e, gone)
<1> DEFINE old == IF Has(s, k) THEN RemoveLocked(s, k) ELSE s
           new == Insert(old, k, e)
           lost == Last(new.lruList)
           Map(gone) == [j \in Key |-> IF j = k THEN e ELSE IF j \in gone THEN Absent ELSE s.data[j]]
<1>0. s.data \in [Key -> Entry \cup {Absent}]
  BY DEF Sound, Coherent, StoreType
<1>1. /\ Coherent(old) /\ ~Has(old, k) /\ Present(old) = Present(s) \ {k}
      /\ \A j \in Key : j # k => old.data[j] = s.data[j]
  <2>1. CASE Has(s, k)
    <3>1. /\ Coherent(old) /\ Present(old) = Present(s) \ {k}
          /\ old.data = [s.data EXCEPT ![k] = Absent]
      BY <2>1, RemoveLockedCoherent DEF Sound
    <3>2. QED
      BY <1>0, <3>1 DEF Has
  <2>2. CASE ~Has(s, k)
    BY <2>2 DEF Sound, Present
  <2>3. QED
    BY <2>1, <2>2
<1> HIDE DEF old
<1>2. /\ Coherent(new) /\ new.data = [old.data EXCEPT ![k] = e]
      /\ Present(new) = Present(old) \cup {k}
      /\ Present(old) # {} => lost \in Present(old) /\ new.lruList # <<>>
  BY <1>1, InsertCoherent
<1>3. SetLocked(s, k, e) = IF OverLimit(new) THEN EvictOne(new) ELSE new
  BY DEF SetLocked, old
<1>4. new.data = Map({})
  <2>1. old.data \in [Key -> Entry \cup {Absent}]
    BY <1>1 DEF Coherent, StoreType
  <2>2. QED
    BY <1>1, <1>2, <2>1
<1> HIDE DEF new, lost
<1>5. CASE ~OverLimit(new)
  <2>1. GivesUp(s, k, e, {})
    BY <1>3, <1>4, <1>5 DEF GivesUp
  <2>2. QED
    BY <2>1
<1>6. CASE OverLimit(new)
  <2>1. MaxKeys \in Nat /\ MaxKeys > 0 /\ Cardinality(Present(new)) > MaxKeys
    BY <1>6, StoreAssumption DEF OverLimit
  <2>2. ~(Cardinality(Present(s)) > MaxKeys)
    BY <2>1 DEF Sound, OverLimit
  <2>3. ~Has(s, k)
    <3>1. SUFFICES ASSUME Has(s, k) PROVE FALSE
      OBVIOUS
    <3>2. Present(new) = Present(s)
      BY <1>1, <1>2, <3>1 DEF Present
    <3>3. QED
      BY <2>1, <2>2, <3>2
  <2>4. Present(old) = Present(s)
    BY <1>1, <2>3 DEF Present
  <2>5. Present(old) # {}
    <3>1. SUFFICES ASSUME Present(old) = {} PROVE FALSE
      OBVIOUS
    <3>2. Present(new) = {k}
      BY <1>2, <3>1
    <3>3. Cardinality(Present(new)) = 1
      BY <3>2, FS_Singleton
    <3>4. QED
      BY <2>1, <3>3
  <2>6. lost \in Present(old) /\ new.lruList # <<>>
    BY <1>2, <2>5
  <2>7. lost \in Key \ {k}
    BY <1>1, <2>6 DEF Present
  <2>8. EvictOne(new).data = [new.data EXCEPT ![lost] = Absent]
    BY <1>2, <2>6, EvictOneCoherent DEF lost
  <2>9. SetLocked(s, k, e).data = Map({lost})
    BY <1>3, <1>4, <1>6, <2>7, <2>8
  <2>10. GivesUp(s, k, e, {lost}) /\ {lost} \in SUBSET (Key \ {k})
    BY <2>1, <2>3, <2>7, <2>9 DEF GivesUp
  <2>11. QED
    BY <2>10
<1>7. QED
  BY <1>5, <1>6

(* A write that stores an entry and then, perhaps, changes it.             *)
LEMMA StoredBecomes ==
  ASSUME NEW s, Sound(s), NEW k \in Key, NEW e \in Entry, NEW d \in Entry, NEW t,
         NEW r, r.data = [SetLocked(s, k, e).data EXCEPT ![k] = d], ~IsExpired(d, t)
  PROVE  Becomes(s, r, t, k, d)
<1>1. PICK gone \in SUBSET (Key \ {k}) : GivesUp(s, k, e, gone)
  BY SetLockedMap
<1> DEFINE lost == {j \in gone : View(s, t)[j] # Absent}
<1>2. r.data = [j \in Key |-> IF j = k THEN d ELSE IF j \in gone THEN Absent ELSE s.data[j]]
  BY <1>1 DEF GivesUp
<1>3. d # Absent
  BY StoreAssumption
<1>4. View(r, t) = [j \in Key |-> IF j = k THEN d
                                  ELSE IF j \in lost THEN Absent ELSE View(s, t)[j]]
  BY <1>2, <1>3 DEF View, Live, Has
<1>5. lost # {} => MaxKeys > 0 /\ View(s, t)[k] = Absent /\ \A i, j \in lost : i = j
  <2>1. SUFFICES ASSUME lost # {}
                 PROVE  MaxKeys > 0 /\ View(s, t)[k] = Absent /\ \A i, j \in lost : i = j
    OBVIOUS
  <2>2. PICK x \in gone : gone = {x}
    BY <1>1, <2>1 DEF GivesUp
  <2>3. View(s, t)[k] = Absent
    BY <1>1, <2>2 DEF View, Live, GivesUp
  <2>4. QED
    BY <1>1, <2>2, <2>3 DEF GivesUp
<1>6. lost \in SUBSET {j \in Key \ {k} : View(s, t)[j] # Absent}
  OBVIOUS
<1>7. QED
  BY <1>4, <1>5, <1>6 DEF Becomes

(* A change of an entry that is there.                                     *)
LEMMA ChangedBecomes ==
  ASSUME NEW s, Sound(s), NEW k \in Key, Has(s, k), NEW d \in Entry, NEW t,
         NEW r, r.data = [s.data EXCEPT ![k] = d], ~IsExpired(d, t)
  PROVE  Becomes(s, r, t, k, d)
<1>1. s.data \in [Key -> Entry \cup {Absent}] /\ d # Absent
  BY StoreAssumption DEF Sound, Coherent, StoreType
<1>2. View(r, t) = [j \in Key |-> IF j = k THEN d
                                  ELSE IF j \in {} THEN Absent ELSE View(s, t)[j]]
  BY <1>1 DEF View, Live, Has
<1>3. {} \in SUBSET {j \in Key \ {k} : View(s, t)[j] # Absent}
  OBVIOUS
<1>4. QED
  BY <1>2, <1>3 DEF Becomes

(* A write through getOrCreateLocked works on the entry a client would     *)
(* expect, and what it makes of the entry is what the client sees.         *)
LEMMA WrittenBecomes ==
  ASSUME NEW s, Sound(s), NEW k \in Key, NEW vtype \in VType, NEW t
  PROVE  /\ GetOrCreateLocked(s, k, vtype, t).data[k] = Found(s, t, k, vtype)
         /\ ~IsExpired(Found(s, t, k, vtype), t)
         /\ \A d \in Entry : \A r :
              /\ r.data = [GetOrCreateLocked(s, k, vtype, t).data EXCEPT ![k] = d]
              /\ ~IsExpired(d, t)
              => Becomes(s, r, t, k, d)
<1>1. NewEntry(vtype) \in Entry /\ ~IsExpired(NewEntry(vtype), t)
  BY NewEntryTyped DEF NewEntry, IsExpired
<1>2. CASE Live(s, k, t) /\ s.data[k].vtype = vtype
  <2>1. GetOrCreateLocked(s, k, vtype, t) = s /\ Has(s, k)
    BY <1>2 DEF GetOrCreateLocked, Live
  <2>2. Found(s, t, k, vtype) = s.data[k] /\ ~IsExpired(s.data[k], t)
    BY <1>2 DEF Found, View, Live, Has
  <2>3. QED
    BY <2>1, <2>2, ChangedBecomes
<1>3. CASE ~(Live(s, k, t) /\ s.data[k].vtype = vtype)
  <2>1. GetOrCreateLocked(s, k, vtype, t) = SetLocked(s, k, NewEntry(vtype))
    BY <1>3 DEF GetOrCreateLocked
  <2>2. Found(s, t, k, vtype) = NewEntry(vtype)
    BY <1>3 DEF Found, View
  <2>3. SetLocked(s, k, NewEntry(vtype)).data[k] = NewEntry(vtype)
    BY <1>1, SetLockedSound
  <2>4. QED
    BY <1>1, <2>1, <2>2, <2>3, StoredBecomes
<1>4. QED
  BY <1>2, <1>3

-----------------------------------------------------------------------------
(* What each command makes of it.                                          *)

(* What touchLRU and removeLocked on an expired entry do, no client sees.  *)
LEMMA TouchUnseen ==
  ASSUME NEW s, Sound(s), NEW k \in Key, NEW t
  PROVE  View(GetLocked(s, k, t), t) = View(s, t)
<1>0. s.data \in [Key -> Entry \cup {Absent}]
  BY DEF Sound, Coherent, StoreType
<1>1. CASE Live(s, k, t)
  BY <1>1, GetLockedSound DEF View, Live, Has
<1>2. CASE ~Live(s, k, t) /\ Has(s, k)
  <2>1. GetLocked(s, k, t).data = [s.data EXCEPT ![k] = Absent]
    BY <1>2, RemoveLockedCoherent DEF GetLocked, Sound
  <2>2. QED
    BY <1>0, <1>2, <2>1 DEF View, Live, Has
<1>3. CASE ~Has(s, k)
  BY <1>3 DEF GetLocked, Live
<1>4. QED
  BY <1>1, <1>2, <1>3

LEMMA SetBecomes ==
  ASSUME NEW s, Sound(s), NEW k \in Key, NEW v \in Val, NEW t
  PROVE  Becomes(s, SetCmd(s, k, v), t, k, [NewEntry("String") EXCEPT !.str = v])
<1> DEFINE e == [NewEntry("String") EXCEPT !.str = v]
<1>1. NewEntry("String") \in Entry
  BY NewEntryTyped DEF VType
<1>2. e \in Entry
  BY <1>1 DEF Entry
<1>3. ~IsExpired(e, t)
  BY DEF NewEntry, IsExpired
<1>4. SetCmd(s, k, v) = SetLocked(s, k, e)
  BY DEF SetCmd
<1> HIDE DEF e
<1>5. Sound(SetLocked(s, k, e)) /\ SetLocked(s, k, e).data[k] = e
  BY <1>2, SetLockedSound
<1>6. SetLocked(s, k, e).data = [SetLocked(s, k, e).data EXCEPT ![k] = e]
  BY <1>5 DEF Sound, Coherent, StoreType
<1>7. QED
  BY <1>2, <1>3, <1>4, <1>6, StoredBecomes DEF e

(* A write of the entry that getOrCreateLocked has returned.               *)
LEMMA WriteBecomes ==
  ASSUME NEW s, Sound(s), NEW k \in Key, NEW vtype \in VType, NEW t, NEW d \in Entry,
         d.expiresAt = Found(s, t, k, vtype).expiresAt
  PROVE  Becomes(s, TouchLRU([GetOrCreateLocked(s, k, vtype, t) EXCEPT !.data[k] = d], k), t, k, d)
<1> DEFINE got == GetOrCreateLocked(s, k, vtype, t)
           r == [got EXCEPT !.data[k] = d]
<1>1. Sound(got) /\ Has(got, k)
  BY GetOrCreateLockedSound
<1>2. ~IsExpired(d, t)
  BY WrittenBecomes DEF IsExpired
<1>3. Sound(r) /\ Has(r, k)
  BY <1>1, EntryChangeSound
<1>4. r.data = [got.data EXCEPT ![k] = d]
  BY <1>1 DEF Sound, Coherent, StoreType
<1>5. TouchLRU(r, k).data = [got.data EXCEPT ![k] = d]
  <2> HIDE DEF r
  <2>1. QED
    BY <1>3, <1>4, TouchLRUCoherent DEF Sound
<1>6. QED
  BY <1>2, <1>5, WrittenBecomes

LEMMA FoundTyped ==
  ASSUME NEW s, Sound(s), NEW k \in Key, NEW vtype \in VType, NEW t
  PROVE  /\ Found(s, t, k, vtype) \in Entry
         /\ Found(s, t, k, vtype) = GetOrCreateLocked(s, k, vtype, t).data[k]
BY GetOrCreateLockedSound, WrittenBecomes

LEMMA PushBecomes ==
  ASSUME NEW s, Sound(s), NEW k \in Key, NEW vals \in Seq(Val), NEW t
  PROVE  /\ Becomes(s, LPushCmd(s, k, vals, t), t, k,
                    [Found(s, t, k, "List") EXCEPT !.list = Reverse(vals) \o @])
         /\ Becomes(s, RPushCmd(s, k, vals, t), t, k,
                    [Found(s, t, k, "List") EXCEPT !.list = @ \o vals])
<1> DEFINE got == GetOrCreateLocked(s, k, "List", t)
           found == Found(s, t, k, "List")
           left == [found EXCEPT !.list = Reverse(vals) \o @]
           right == [found EXCEPT !.list = @ \o vals]
<1>1. "List" \in VType
  BY DEF VType
<1>2. found \in Entry /\ found = got.data[k]
  BY <1>1, FoundTyped
<1>3. Reverse(vals) \in Seq(Val)
  BY DEF Reverse
<1> HIDE DEF got, found
<1>4. left \in Entry /\ right \in Entry
  <2> DEFINE list == found.list
  <2>1. list \in Seq(Val)
    BY <1>2 DEF Entry
  <2>2. Reverse(vals) \o list \in Seq(Val) /\ list \o vals \in Seq(Val)
    BY <1>3, <2>1, ConcatProperties
  <2>3. /\ left = [found EXCEPT !.list = Reverse(vals) \o list]
        /\ right = [found EXCEPT !.list = list \o vals]
    OBVIOUS
  <2> HIDE DEF list, left, right
  <2>4. QED
    BY <1>2, <2>2, <2>3 DEF Entry
<1>5. left.expiresAt = found.expiresAt /\ right.expiresAt = found.expiresAt
  BY <1>2 DEF Entry
<1>6. /\ LPushCmd(s, k, vals, t) = TouchLRU([got EXCEPT !.data[k] = left], k)
      /\ RPushCmd(s, k, vals, t) = TouchLRU([got EXCEPT !.data[k] = right], k)
  BY <1>2 DEF LPushCmd, RPushCmd, got
<1> HIDE DEF left, right
<1>7. Becomes(s, LPushCmd(s, k, vals, t), t, k, left)
  BY <1>1, <1>4, <1>5, <1>6, WriteBecomes DEF got, found
<1>8. Becomes(s, RPushCmd(s, k, vals, t), t, k, right)
  BY <1>1, <1>4, <1>5, <1>6, WriteBecomes DEF got, found
<1>9. QED
  BY <1>7, <1>8 DEF left, right, found

LEMMA SAddBecomes ==
  ASSUME NEW s, Sound(s), NEW k \in Key, NEW members \in SUBSET Val, NEW t
  PROVE  Becomes(s, SAddCmd(s, k, members, t), t, k,
                 [Found(s, t, k, "Set") EXCEPT !.set = @ \cup members])
<1> DEFINE got == GetOrCreateLocked(s, k, "Set", t)
           found == Found(s, t, k, "Set")
           e == [found EXCEPT !.set = @ \cup members]
<1>1. "Set" \in VType
  BY DEF VType
<1>2. found \in Entry /\ found = got.data[k]
  BY <1>1, FoundTyped
<1> HIDE DEF got, found
<1>3. e \in Entry /\ e.expiresAt = found.expiresAt
  BY <1>2 DEF Entry
<1>4. SAddCmd(s, k, members, t) = TouchLRU([got EXCEPT !.data[k] = e], k)
  BY <1>2 DEF SAddCmd, got
<1> HIDE DEF e
<1>5. QED
  BY <1>1, <1>3, <1>4, WriteBecomes DEF got, found, e

LEMMA ZAddBecomes ==
  ASSUME NEW s, Sound(s), NEW k \in Key, NEW score \in Score, NEW member \in Val, NEW t
  PROVE  Becomes(s, ZAddCmd(s, k, score, member, t), t, k,
                 [Found(s, t, k, "ZSet") EXCEPT !.zset =
                    [m \in DOMAIN @ \cup {member} |-> IF m = member THEN score ELSE @[m]]])
<1> DEFINE got == GetOrCreateLocked(s, k, "ZSet", t)
           found == Found(s, t, k, "ZSet")
           zset == found.zset
           new == [m \in DOMAIN zset \cup {member} |-> IF m = member THEN score ELSE zset[m]]
           e == [found EXCEPT !.zset = new]
<1>1. "ZSet" \in VType
  BY DEF VType
<1>2. found \in Entry /\ found = got.data[k]
  BY <1>1, FoundTyped
<1> HIDE DEF got, found
<1>3. new \in ScoreMap
  <2>1. PICK ms \in SUBSET Val : zset \in [ms -> Score]
    BY <1>2 DEF Entry, ScoreMap
  <2>2. ms \cup {member} \in SUBSET Val /\ new \in [ms \cup {member} -> Score]
    BY <2>1
  <2>3. QED
    BY <2>2 DEF ScoreMap
<1>4. ZAddCmd(s, k, score, member, t) = TouchLRU([got EXCEPT !.data[k] = e], k)
  BY <1>2 DEF ZAddCmd, got
<1>5. [found EXCEPT !.zset = [m \in DOMAIN @ \cup {member} |-> IF m = member THEN score ELSE @[m]]] = e
  OBVIOUS
<1> HIDE DEF new
<1>6. e \in Entry /\ e.expiresAt = found.expiresAt
  BY <1>2, <1>3 DEF Entry
<1> HIDE DEF e
<1>7. QED
  BY <1>1, <1>4, <1>5, <1>6, WriteBecomes DEF got, found

(* LPOP answers an element, or clients see no change.                      *)
LEMMA LPopBecomes ==
  ASSUME NEW s, Sound(s), NEW k \in Key, NEW t
  PROVE  \/ View(LPopCmd(s, k, t), t) = View(s, t)
         \/ /\ View(s, t)[k] # Absent
            /\ View(s, t)[k].vtype = "List" /\ View(s, t)[k].list # <<>>
            /\ Becomes(s, LPopCmd(s, k, t), t, k, [View(s, t)[k] EXCEPT !.list = Tail(@)])
<1> DEFINE got == GetLocked(s, k, t)
           rest == [s.data[k] EXCEPT !.list = Tail(@)]
<1>1. Sound(got) /\ (Live(s, k, t) => Has(got, k) /\ got.data = s.data)
  BY GetLockedSound
<1>2. View(got, t) = View(s, t)
  BY TouchUnseen
<1> HIDE DEF got
<1>3. CASE Live(s, k, t) /\ got.data[k].vtype = "List" /\ got.data[k].list # <<>>
  <2>1. /\ View(s, t)[k] = s.data[k] /\ s.data[k] # Absent /\ s.data[k] \in Entry
        /\ ~IsExpired(s.data[k], t) /\ Has(s, k)
    BY <1>3, EntryOfKey DEF View, Live, Has, Sound
  <2>2. rest \in Entry /\ rest.expiresAt = s.data[k].expiresAt
    <3>1. s.data[k].list \in Seq(Val) /\ s.data[k].list # <<>>
      BY <1>1, <1>3, <2>1 DEF Entry
    <3>2. Tail(s.data[k].list) \in Seq(Val)
      BY <3>1
    <3>3. QED
      BY <2>1, <3>2 DEF Entry
  <2>3. ~IsExpired(rest, t)
    BY <2>1, <2>2 DEF IsExpired
  <2>4. LPopCmd(s, k, t) = TouchLRU([got EXCEPT !.data[k] = rest], k)
    BY <1>1, <1>3 DEF LPopCmd, got
  <2> HIDE DEF rest
  <2>5. Sound([got EXCEPT !.data[k] = rest]) /\ Has([got EXCEPT !.data[k] = rest], k)
    BY <1>1, <1>3, <2>2, EntryChangeSound
  <2>6. [got EXCEPT !.data[k] = rest].data = [s.data EXCEPT ![k] = rest]
    BY <1>1, <1>3 DEF Sound, Coherent, StoreType
  <2>7. LPopCmd(s, k, t).data = [s.data EXCEPT ![k] = rest]
    BY <2>4, <2>5, <2>6, TouchLRUCoherent DEF Sound
  <2>8. Becomes(s, LPopCmd(s, k, t), t, k, rest)
    BY <2>1, <2>2, <2>3, <2>7, ChangedBecomes
  <2>9. QED
    BY <1>1, <1>3, <2>1, <2>8 DEF rest
<1>4. CASE ~(Live(s, k, t) /\ got.data[k].vtype = "List" /\ got.data[k].list # <<>>)
  BY <1>2, <1>4 DEF LPopCmd, got
<1>5. QED
  BY <1>3, <1>4

(* A deadline in the past makes a key vanish, without being removed.       *)
LEMMA ExpireSeen ==
  ASSUME NEW s, Sound(s), NEW k \in Key, NEW t \in Nat, NEW d \in Int, t + d > 0
  PROVE  \/ View(ExpireCmd(s, k, d, t), t) = View(s, t)
         \/ /\ View(s, t)[k] # Absent
            /\ View(ExpireCmd(s, k, d, t), t) =
                 [View(s, t) EXCEPT ![k] = IF d < 0 THEN Absent
                                           ELSE [@ EXCEPT !.expiresAt = t + d]]
<1>0. s.data \in [Key -> Entry \cup {Absent}]
  BY DEF Sound, Coherent, StoreType
<1>1. CASE Live(s, k, t)
  <2> DEFINE e == [s.data[k] EXCEPT !.expiresAt = t + d]
  <2>1. /\ View(s, t)[k] = s.data[k] /\ s.data[k] # Absent /\ s.data[k] \in Entry
    BY <1>1, EntryOfKey DEF View, Live, Has, Sound
  <2>2. e \in Entry /\ e.expiresAt = t + d
    BY <2>1 DEF Entry
  <2>3. IsExpired(e, t) <=> d < 0
    BY <2>2 DEF IsExpired, NoExpiry
  <2>4. ExpireCmd(s, k, d, t).data = [s.data EXCEPT ![k] = e]
    BY <1>0, <1>1 DEF ExpireCmd, Sound, Coherent, StoreType
  <2>5. [View(s, t)[k] EXCEPT !.expiresAt = t + d] = e
    BY <2>1
  <2> HIDE DEF e
  <2>6. e # Absent
    BY <2>2, StoreAssumption
  <2>7. View(ExpireCmd(s, k, d, t), t) =
          [View(s, t) EXCEPT ![k] = IF d < 0 THEN Absent ELSE e]
    BY <1>0, <2>3, <2>4, <2>6 DEF View, Live, Has
  <2>8. QED
    BY <2>1, <2>5, <2>7
<1>2. CASE ~Live(s, k, t)
  BY <1>2 DEF ExpireCmd
<1>3. QED
  BY <1>1, <1>2

-----------------------------------------------------------------------------
(* The order of the list, compared only by which of two keys comes before  *)
(* the other.                                                              *)

(* In list l, a comes before b.                                            *)
Before(l, a, b) == \E i, j \in DOMAIN l : i < j /\ l[i] = a /\ l[j] = b

(* The refinement mapping for older.                                       *)
Older(l, P) == {p \in P \X P : \E i, j \in DOMAIN l : i < j /\ p = <<l[j], l[i]>>}

(* Two lists have the keys of P in the same order.                         *)
SameOrder(l, m, P) == \A a, b \in P : Before(l, a, b) <=> Before(m, a, b)

Fronted(l, k) == Cons(k, RemoveFirst(l, k))

(* A list of keys, each once.                                              *)
Listing(l) == l \in Seq(Key) /\ IsInjective(l)

-----------------------------------------------------------------------------
(* Lists.                                                                  *)

LEMMA DropBefore ==
  ASSUME NEW l, Listing(l), NEW k, NEW a, NEW b, a # k, b # k
  PROVE  Before(RemoveFirst(l, k), a, b) <=> Before(l, a, b)
<1>0. l \in Seq(Key) /\ IsInjective(l)
  BY DEF Listing
<1>1. CASE ~\E i \in 1 .. Len(l) : l[i] = k
  BY <1>1 DEF RemoveFirst
<1>2. ASSUME NEW n \in 1 .. Len(l), l[n] = k
      PROVE  Before(RemoveFirst(l, k), a, b) <=> Before(l, a, b)
  <2> DEFINE r == [i \in 1 .. Len(l) - 1 |-> IF i < n THEN l[i] ELSE l[i + 1]]
  <2>1. RemoveFirst(l, k) = r
    BY <1>0, <1>2, RemoveFirstShifts
  <2>2. ASSUME NEW i \in DOMAIN r, NEW j \in DOMAIN r, i < j, r[i] = a, r[j] = b
        PROVE  Before(l, a, b)
    <3>1. PICK x \in DOMAIN l : l[x] = a /\ x = IF i < n THEN i ELSE i + 1
      BY <1>0, <2>2
    <3>2. PICK y \in DOMAIN l : l[y] = b /\ y = IF j < n THEN j ELSE j + 1
      BY <1>0, <2>2
    <3>3. x < y
      BY <2>2, <3>1, <3>2
    <3>4. QED
      BY <3>1, <3>2, <3>3 DEF Before
  <2>3. ASSUME NEW i \in DOMAIN l, NEW j \in DOMAIN l, i < j, l[i] = a, l[j] = b
        PROVE  Before(r, a, b)
    <3>1. i # n /\ j # n
      BY <1>2, <2>3
    <3>2. PICK x \in DOMAIN r : r[x] = a /\ x = IF i < n THEN i ELSE i - 1
      BY <1>0, <2>3, <3>1
    <3>3. PICK y \in DOMAIN r : r[y] = b /\ y = IF j < n THEN j ELSE j - 1
      BY <1>0, <2>3, <3>1
    <3>4. x < y
      BY <1>0, <2>3, <3>1, <3>2, <3>3
    <3> HIDE DEF r
    <3>5. QED
      BY <3>2, <3>3, <3>4 DEF Before
  <2> HIDE DEF r
  <2>4. QED
    BY <2>1, <2>2, <2>3 DEF Before
<1>3. QED
  BY <1>1, <1>2

(* The key in front is before all others, whose order stays.               *)
LEMMA FrontBefore ==
  ASSUME NEW l, Listing(l), NEW k \in Key
  PROVE  /\ Listing(Fronted(l, k)) /\ ToSet(Fronted(l, k)) = ToSet(l) \cup {k}
         /\ \A a, b \in ToSet(l) \cup {k} :
              Before(Fronted(l, k), a, b) <=>
                \/ a = k /\ b # k
                \/ a # k /\ b # k /\ Before(l, a, b)
<1> DEFINE r == RemoveFirst(l, k)
           f == Fronted(l, k)
<1>1. Listing(r) /\ ToSet(r) = ToSet(l) \ {k}
  BY RemoveFirstKeepsRest DEF Listing
<1>2. \A a, b : a # k /\ b # k => (Before(r, a, b) <=> Before(l, a, b))
  BY DropBefore
<1>3. f = Cons(k, r)
  BY DEF Fronted
<1> HIDE DEF r, f
<1>4. f \in Seq(Key) /\ IsInjective(f) /\ ToSet(f) = ToSet(r) \cup {k}
  BY <1>1, <1>3, ConsAddsKey DEF Listing
<1>5. /\ Len(f) = Len(r) + 1 /\ f[1] = k
      /\ \A i \in 1 .. Len(r) : f[i + 1] = r[i]
  BY <1>1, <1>3 DEF Cons, Listing
<1>6. ASSUME NEW a \in ToSet(l) \cup {k}, NEW b \in ToSet(l) \cup {k}
      PROVE  Before(f, a, b) <=> \/ a = k /\ b # k
                                 \/ a # k /\ b # k /\ Before(l, a, b)
  <2>1. ASSUME Before(f, a, b) PROVE b # k /\ (a # k => Before(r, a, b))
    <3>1. PICK i \in DOMAIN f, j \in DOMAIN f : i < j /\ f[i] = a /\ f[j] = b
      BY <2>1 DEF Before
    <3>2. b # k
      BY <1>4, <1>5, <3>1 DEF IsInjective
    <3>3. ASSUME a # k PROVE Before(r, a, b)
      <4>1. i # 1 /\ i \in 1 .. Len(f) /\ j \in 1 .. Len(f) /\ Len(r) \in Nat
        BY <1>1, <1>4, <1>5, <3>1, <3>3 DEF Listing
      <4>2. i - 1 \in 1 .. Len(r) /\ j - 1 \in 1 .. Len(r) /\ i - 1 < j - 1
        BY <1>5, <3>1, <4>1
      <4>3. r[i - 1] = a /\ r[j - 1] = b
        BY <1>5, <3>1, <4>1, <4>2
      <4>4. DOMAIN r = 1 .. Len(r)
        BY <1>1 DEF Listing
      <4>5. QED
        BY <4>2, <4>3, <4>4 DEF Before
    <3>4. QED
      BY <3>2, <3>3
  <2>2. ASSUME a # k, Before(r, a, b) PROVE Before(f, a, b)
    <3>1. PICK i \in DOMAIN r, j \in DOMAIN r : i < j /\ r[i] = a /\ r[j] = b
      BY <2>2 DEF Before
    <3>2. i \in 1 .. Len(r) /\ j \in 1 .. Len(r) /\ Len(r) \in Nat
      BY <1>1, <3>1 DEF Listing
    <3>3. /\ i + 1 \in DOMAIN f /\ j + 1 \in DOMAIN f /\ i + 1 < j + 1
          /\ f[i + 1] = a /\ f[j + 1] = b
      BY <1>4, <1>5, <3>1, <3>2
    <3>4. QED
      BY <3>3 DEF Before
  <2>3. ASSUME a = k, b # k PROVE Before(f, a, b)
    <3>1. b \in ToSet(r)
      BY <1>1, <1>6, <2>3
    <3>2. PICK j \in 1 .. Len(r) : r[j] = b
      BY <1>1, <3>1 DEF ToSet, Listing
    <3>3. /\ 1 \in DOMAIN f /\ j + 1 \in DOMAIN f /\ 1 < j + 1
          /\ f[1] = a /\ f[j + 1] = b
      BY <1>1, <1>4, <1>5, <2>3, <3>2 DEF Listing
    <3>4. QED
      BY <3>3 DEF Before
  <2>4. QED
    BY <1>2, <2>1, <2>2, <2>3
<1>7. QED
  BY <1>1, <1>4, <1>6 DEF Listing, f

LEMMA LastBefore ==
  ASSUME NEW l, Listing(l), l # <<>>, NEW a \in ToSet(l), a # Last(l)
  PROVE  Before(l, a, Last(l))
<1>1. l \in Seq(Key) /\ Len(l) \in 1 .. Len(l) /\ DOMAIN l = 1 .. Len(l)
  BY DEF Listing
<1>2. PICK i \in 1 .. Len(l) : l[i] = a
  BY <1>1 DEF ToSet
<1>3. i < Len(l) /\ l[Len(l)] = Last(l)
  BY <1>1, <1>2 DEF Last
<1>4. QED
  BY <1>1, <1>2, <1>3 DEF Before

-----------------------------------------------------------------------------
(* What an operator of StoreOps does to the keys and to their order.       *)

(* k is in front now; the order of the others stays.                       *)
Moved(s, r, k) ==
  /\ Listing(r.lruList) /\ ToSet(r.lruList) = Present(r)
  /\ k \in Present(r)
  /\ \A a, b \in Present(r) :
       Before(r.lruList, a, b) <=>
         \/ a = k /\ b # k
         \/ a # k /\ b # k /\ Before(s.lruList, a, b)

Used(s, r, k) == k \in Present(s) /\ Present(r) = Present(s)

Added(s, r, k) ==
  /\ k \notin Present(s) /\ Present(r) = Present(s) \cup {k}
  /\ MaxKeys > 0 => Cardinality(Present(s)) < MaxKeys

(* old, which all others are before, has made room for k.                  *)
TookOver(s, r, k, old) ==
  /\ k \notin Present(s)
  /\ MaxKeys > 0 /\ Cardinality(Present(s)) = MaxKeys
  /\ old \in Present(s) /\ \A j \in Present(s) \ {old} : Before(s.lruList, j, old)
  /\ Present(r) = (Present(s) \ {old}) \cup {k}

Written(s, r, k) ==
  /\ Moved(s, r, k)
  /\ Used(s, r, k) \/ Added(s, r, k) \/ \E old \in Key : TookOver(s, r, k, old)

Dropped(s, r, k) ==
  /\ k \in Present(s) /\ Present(r) = Present(s) \ {k}
  /\ SameOrder(r.lruList, s.lruList, Present(r))

LEMMA ListOf ==
  ASSUME NEW s, Coherent(s)
  PROVE  /\ Listing(s.lruList) /\ ToSet(s.lruList) = Present(s)
         /\ s.data \in [Key -> Entry \cup {Absent}]
         /\ Present(s) \subseteq Key
BY DEF Coherent, StoreType, Listing, Present

LEMMA RemoveDrops ==
  ASSUME NEW s, Coherent(s), NEW k \in Key, Has(s, k)
  PROVE  Dropped(s, RemoveLocked(s, k), k)
<1> DEFINE r == RemoveLocked(s, k)
<1>1. Present(r) = Present(s) \ {k}
  BY RemoveLockedCoherent
<1>2. r.lruList = RemoveFirst(s.lruList, k)
  BY DEF RemoveLocked
<1> HIDE DEF r
<1>3. \A a, b \in Present(r) : Before(r.lruList, a, b) <=> Before(s.lruList, a, b)
  BY <1>1, <1>2, ListOf, DropBefore
<1>4. QED
  BY <1>1, <1>3 DEF Dropped, SameOrder, Present, r

LEMMA InsertMoves ==
  ASSUME NEW s, Coherent(s), NEW k \in Key, NEW e \in Entry,
         NEW old, old = IF Has(s, k) THEN RemoveLocked(s, k) ELSE s
  PROVE  /\ Coherent(Insert(old, k, e)) /\ Moved(s, Insert(old, k, e), k)
         /\ Present(Insert(old, k, e)) = Present(s) \cup {k}
<1> DEFINE r == Insert(old, k, e)
<1>1. Coherent(old) /\ ~Has(old, k) /\ Present(old) = Present(s) \ {k}
  <2>1. CASE Has(s, k)
    <3>1. Coherent(old) /\ Present(old) = Present(s) \ {k}
      BY <2>1, RemoveLockedCoherent
    <3>2. QED
      BY <3>1 DEF Present
  <2>2. CASE ~Has(s, k)
    BY <2>2 DEF Present
  <2>3. QED
    BY <2>1, <2>2
<1>2. Coherent(r) /\ Present(r) = Present(s) \cup {k}
  <2>1. Coherent(r) /\ Present(r) = Present(old) \cup {k}
    BY <1>1, InsertCoherent
  <2> HIDE DEF r
  <2>2. QED
    BY <1>1, <2>1
<1>3. r.lruList = Fronted(s.lruList, k)
  <2>1. r.lruList = Cons(k, old.lruList)
    BY DEF Insert
  <2>2. old.lruList = RemoveFirst(s.lruList, k)
    <3>1. CASE Has(s, k)
      BY <3>1 DEF RemoveLocked
    <3>2. CASE ~Has(s, k)
      <4>1. k \notin ToSet(s.lruList)
        BY <3>2, ListOf DEF Present
      <4>2. ~\E i \in 1 .. Len(s.lruList) : s.lruList[i] = k
        BY <4>1, ListOf DEF ToSet, Listing
      <4>3. QED
        BY <3>2, <4>2 DEF RemoveFirst
    <3>3. QED
      BY <3>1, <3>2
  <2>3. QED
    BY <2>1, <2>2 DEF Fronted
<1> HIDE DEF r
<1>4. Moved(s, r, k)
  <2>1. Listing(s.lruList) /\ ToSet(s.lruList) = Present(s)
    BY ListOf
  <2>2. /\ Listing(r.lruList) /\ ToSet(r.lruList) = Present(r)
        /\ \A a, b \in Present(r) :
             Before(r.lruList, a, b) <=> \/ a = k /\ b # k
                                         \/ a # k /\ b # k /\ Before(s.lruList, a, b)
    BY <1>2, <1>3, <2>1, FrontBefore
  <2>3. QED
    BY <1>2, <2>2 DEF Moved
<1>5. QED
  BY <1>2, <1>4 DEF r

LEMMA SetLockedWrites ==
  ASSUME NEW s, Sound(s), NEW k \in Key, NEW e \in Entry
  PROVE  Written(s, SetLocked(s, k, e), k)
<1> DEFINE old == IF Has(s, k) THEN RemoveLocked(s, k) ELSE s
           new == Insert(old, k, e)
           lost == Last(new.lruList)
<1>0. Coherent(s) /\ ~OverLimit(s)
  BY DEF Sound
<1>1. Coherent(new) /\ Moved(s, new, k) /\ Present(new) = Present(s) \cup {k}
  BY <1>0, InsertMoves
<1>2. SetLocked(s, k, e) = IF OverLimit(new) THEN EvictOne(new) ELSE new
  BY DEF SetLocked
<1> HIDE DEF new, lost
<1>3. Cardinality(Present(s)) \in Nat /\ IsFiniteSet(Present(s)) /\ MaxKeys \in Int
  BY PresentFinite, StoreAssumption
<1>4. k \notin Present(s) => Cardinality(Present(new)) = Cardinality(Present(s)) + 1
  BY <1>1, <1>3, FS_AddElement
<1>5. CASE ~OverLimit(new)
  <2>1. Used(s, new, k) \/ Added(s, new, k)
    <3>1. CASE k \in Present(s)
      BY <1>1, <3>1 DEF Used
    <3>2. CASE k \notin Present(s)
      BY <1>1, <1>3, <1>4, <1>5, <3>2 DEF Added, OverLimit
    <3>3. QED
      BY <3>1, <3>2
  <2>2. QED
    BY <1>1, <1>2, <1>5, <2>1 DEF Written
<1>6. CASE OverLimit(new)
  <2>1. k \notin Present(s)
    <3>1. k \in Present(s) => Present(new) = Present(s)
      BY <1>1
    <3>2. QED
      BY <1>0, <1>6, <3>1 DEF OverLimit
  <2>2. MaxKeys > 0 /\ Cardinality(Present(s)) = MaxKeys
    BY <1>0, <1>3, <1>4, <1>6, <2>1 DEF OverLimit
  <2>3. Present(s) # {}
    BY <1>3, <2>2, FS_EmptySet
  <2>4. /\ Listing(new.lruList) /\ ToSet(new.lruList) = Present(new)
        /\ new.lruList # <<>>
    <3>1. Listing(new.lruList) /\ ToSet(new.lruList) = Present(new)
      BY <1>1, ListOf
    <3>2. new.lruList # <<>>
      BY <1>1, <2>3, <3>1 DEF ToSet
    <3>3. QED
      BY <3>1, <3>2
  <2>5. lost \in Present(new) /\ Present(EvictOne(new)) = Present(new) \ {lost}
    BY <1>1, <2>4, EvictOneCoherent DEF lost
  <2>6. \A j \in Present(new) \ {lost} : Before(new.lruList, j, lost)
    BY <2>4, LastBefore DEF lost
  <2>7. lost # k
    <3>1. PICK j \in Present(s) : j # k
      BY <2>1, <2>3
    <3>2. Before(new.lruList, k, j) /\ ~Before(new.lruList, j, k)
      BY <1>1, <3>1 DEF Moved
    <3>3. QED
      BY <1>1, <2>6, <3>1, <3>2
  <2>8. lost \in Present(s) /\ \A j \in Present(s) \ {lost} : Before(s.lruList, j, lost)
    BY <1>1, <2>1, <2>5, <2>6, <2>7 DEF Moved
  <2>9. Has(new, lost) /\ lost \in Key
    BY <2>5 DEF Present
  <2>10. EvictOne(new) = RemoveLocked(new, lost)
    BY <2>4, <2>9 DEF EvictOne, lost
  <2>11. Dropped(new, EvictOne(new), lost) /\ Coherent(EvictOne(new))
    <3>1. Dropped(new, RemoveLocked(new, lost), lost)
      BY <1>1, <2>9, RemoveDrops
    <3>2. Coherent(RemoveLocked(new, lost))
      BY <1>1, <2>9, RemoveLockedCoherent
    <3>3. QED
      BY <2>10, <3>1, <3>2
  <2>12. Moved(s, EvictOne(new), k)
    <3>1. k \in Present(EvictOne(new)) /\ Present(EvictOne(new)) \subseteq Present(new)
      BY <1>1, <2>5, <2>7
    <3>2. Listing(EvictOne(new).lruList) /\ ToSet(EvictOne(new).lruList) = Present(EvictOne(new))
      BY <2>11, ListOf
    <3>3. \A a, b \in Present(EvictOne(new)) :
            Before(EvictOne(new).lruList, a, b) <=> Before(new.lruList, a, b)
      BY <2>11 DEF Dropped, SameOrder
    <3>4. QED
      BY <1>1, <3>1, <3>2, <3>3 DEF Moved
  <2>13. TookOver(s, EvictOne(new), k, lost)
    BY <1>1, <2>1, <2>2, <2>5, <2>7, <2>8 DEF TookOver
  <2>14. QED
    BY <1>2, <1>6, <2>9, <2>12, <2>13 DEF Written
<1>7. QED
  BY <1>5, <1>6

(* A second move of the same key to the front changes nothing.             *)
LEMMA TouchAfter ==
  ASSUME NEW s, Coherent(s), NEW g, Coherent(g), NEW k \in Key, NEW r,
         g = s \/ Written(s, g, k), Has(g, k),
         r.lruList = Fronted(g.lruList, k), Present(r) = Present(g)
  PROVE  Written(s, r, k)
<1>1. /\ Listing(g.lruList) /\ ToSet(g.lruList) = Present(g)
      /\ k \in Present(g) /\ Present(g) \subseteq Key
  BY ListOf DEF Present
<1>2. /\ Listing(r.lruList) /\ ToSet(r.lruList) = Present(r)
      /\ \A a, b \in Present(r) :
           Before(r.lruList, a, b) <=> \/ a = k /\ b # k
                                       \/ a # k /\ b # k /\ Before(g.lruList, a, b)
  <2>1. ToSet(g.lruList) \cup {k} = Present(r)
    BY <1>1
  <2> DEFINE l == g.lruList
  <2>2. /\ Listing(Fronted(l, k)) /\ ToSet(Fronted(l, k)) = ToSet(l) \cup {k}
        /\ \A a, b \in ToSet(l) \cup {k} :
             Before(Fronted(l, k), a, b) <=> \/ a = k /\ b # k
                                             \/ a # k /\ b # k /\ Before(l, a, b)
    BY <1>1, FrontBefore
  <2>3. r.lruList = Fronted(l, k)
    OBVIOUS
  <2> HIDE DEF l
  <2>4. /\ Listing(r.lruList) /\ ToSet(r.lruList) = Present(r)
        /\ \A a, b \in Present(r) :
             Before(r.lruList, a, b) <=> \/ a = k /\ b # k
                                         \/ a # k /\ b # k /\ Before(l, a, b)
    BY <2>1, <2>2, <2>3 DEF l
  <2>5. QED
    BY <2>4 DEF l
<1>3. CASE g = s
  BY <1>1, <1>2, <1>3 DEF Written, Moved, Used
<1>4. CASE Written(s, g, k)
  <2>1. Moved(s, r, k)
    BY <1>1, <1>2, <1>4 DEF Written, Moved
  <2>2. Used(s, g, k) => Used(s, r, k)
    BY DEF Used
  <2>3. Added(s, g, k) => Added(s, r, k)
    BY DEF Added
  <2>4. \A old \in Key : TookOver(s, g, k, old) => TookOver(s, r, k, old)
    BY DEF TookOver
  <2>5. QED
    BY <1>4, <2>1, <2>2, <2>3, <2>4 DEF Written
<1>5. QED
  BY <1>3, <1>4

(* A change inside an entry, then touchLRU.                                *)
LEMMA EditWrites ==
  ASSUME NEW s, Sound(s), NEW g, Sound(g), NEW k \in Key, NEW e,
         g = s \/ Written(s, g, k), Has(g, k),
         Has(TouchLRU([g EXCEPT !.data[k] = e], k), k)
  PROVE  Written(s, TouchLRU([g EXCEPT !.data[k] = e], k), k)
<1> DEFINE c == [g EXCEPT !.data[k] = e]
           r == TouchLRU(c, k)
<1>1. Coherent(s) /\ Coherent(g) /\ g \in StoreType
  BY DEF Sound, Coherent
<1>2. c.lruList = g.lruList /\ c.data = [g.data EXCEPT ![k] = e]
  BY <1>1 DEF StoreType
<1>3. r.lruList = Fronted(g.lruList, k) /\ r.data = c.data
  BY <1>1 DEF TouchLRU, Fronted, StoreType
<1>4. \A j \in Key : r.data[j] = IF j = k THEN e ELSE g.data[j]
  BY <1>1, <1>2, <1>3 DEF StoreType
<1>5. Has(r, k)
  OBVIOUS
<1> HIDE DEF c, r
<1>6. Present(r) = Present(g)
  BY <1>4, <1>5 DEF Present, Has
<1>7. Written(s, r, k)
  BY <1>1, <1>3, <1>6, TouchAfter
<1>8. QED
  BY <1>7 DEF r, c

LEMMA GetOrCreateWrites ==
  ASSUME NEW s, Sound(s), NEW k \in Key, NEW vtype \in VType, NEW t
  PROVE  \/ GetOrCreateLocked(s, k, vtype, t) = s
         \/ Written(s, GetOrCreateLocked(s, k, vtype, t), k)
BY NewEntryTyped, SetLockedWrites DEF GetOrCreateLocked

LEMMA TouchWrites ==
  ASSUME NEW s, Sound(s), NEW k \in Key, Has(s, k)
  PROVE  Written(s, TouchLRU(s, k), k)
<1> DEFINE r == TouchLRU(s, k)
<1>1. Coherent(s) /\ s \in StoreType
  BY DEF Sound, Coherent
<1>2. r.lruList = Fronted(s.lruList, k) /\ Present(r) = Present(s)
  BY <1>1 DEF TouchLRU, Fronted, StoreType, Present, Has
<1> HIDE DEF r
<1>3. Written(s, r, k)
  BY <1>1, <1>2, TouchAfter
<1>4. QED
  BY <1>3 DEF r

(* A read brings a live key to the front and takes an expired one away.    *)
LEMMA GetLockedUses ==
  ASSUME NEW s, Sound(s), NEW k \in Key, NEW t
  PROVE  /\ Live(s, k, t) => Written(s, GetLocked(s, k, t), k)
         /\ ~Live(s, k, t) => GetLocked(s, k, t) = s \/ Dropped(s, GetLocked(s, k, t), k)
         /\ ~Live(s, k, t) => ~Has(GetLocked(s, k, t), k)
<1>1. CASE Live(s, k, t)
  BY <1>1, TouchWrites DEF GetLocked, Live
<1>2. CASE ~Live(s, k, t) /\ Has(s, k)
  <2>1. GetLocked(s, k, t) = RemoveLocked(s, k)
    BY <1>2 DEF GetLocked
  <2>2. Dropped(s, RemoveLocked(s, k), k)
    BY <1>2, RemoveDrops DEF Sound
  <2>3. QED
    BY <1>2, <2>1, <2>2 DEF Dropped, Present
<1>3. CASE ~Live(s, k, t) /\ ~Has(s, k)
  BY <1>3 DEF GetLocked
<1>4. QED
  BY <1>1, <1>2, <1>3

LEMMA PushWrites ==
  ASSUME NEW s, Sound(s), NEW k \in Key, NEW vals \in Seq(Val), NEW t
  PROVE  Written(s, LPushCmd(s, k, vals, t), k) /\ Written(s, RPushCmd(s, k, vals, t), k)
<1> DEFINE got == GetOrCreateLocked(s, k, "List", t)
           left == [got.data[k] EXCEPT !.list = Reverse(vals) \o @]
           right == [got.data[k] EXCEPT !.list = @ \o vals]
<1>1. Sound(got) /\ Has(got, k) /\ (got = s \/ Written(s, got, k))
  BY GetOrCreateLockedSound, GetOrCreateWrites DEF VType
<1>2. /\ LPushCmd(s, k, vals, t) = TouchLRU([got EXCEPT !.data[k] = left], k)
      /\ RPushCmd(s, k, vals, t) = TouchLRU([got EXCEPT !.data[k] = right], k)
  BY DEF LPushCmd, RPushCmd
<1> HIDE DEF got, left, right
<1>3. /\ Has(TouchLRU([got EXCEPT !.data[k] = left], k), k)
      /\ Has(TouchLRU([got EXCEPT !.data[k] = right], k), k)
  BY <1>2, PushSound
<1>4. /\ Written(s, TouchLRU([got EXCEPT !.data[k] = left], k), k)
      /\ Written(s, TouchLRU([got EXCEPT !.data[k] = right], k), k)
  BY <1>1, <1>3, EditWrites
<1>5. QED
  BY <1>2, <1>4

LEMMA AddWrites ==
  ASSUME NEW s, Sound(s), NEW k \in Key, NEW t
  PROVE  /\ \A members \in SUBSET Val : Written(s, SAddCmd(s, k, members, t), k)
         /\ \A score \in Score, member \in Val : Written(s, ZAddCmd(s, k, score, member, t), k)
<1>1. ASSUME NEW members \in SUBSET Val PROVE Written(s, SAddCmd(s, k, members, t), k)
  <2> DEFINE got == GetOrCreateLocked(s, k, "Set", t)
             e == [got.data[k] EXCEPT !.set = @ \cup members]
  <2>1. Sound(got) /\ Has(got, k) /\ (got = s \/ Written(s, got, k))
    BY GetOrCreateLockedSound, GetOrCreateWrites DEF VType
  <2>2. SAddCmd(s, k, members, t) = TouchLRU([got EXCEPT !.data[k] = e], k)
    BY DEF SAddCmd
  <2>3. Has(SAddCmd(s, k, members, t), k)
    BY SAddCmdSound
  <2> HIDE DEF got, e
  <2>4. QED
    BY <2>1, <2>2, <2>3, EditWrites
<1>2. ASSUME NEW score \in Score, NEW member \in Val
      PROVE  Written(s, ZAddCmd(s, k, score, member, t), k)
  <2> DEFINE got == GetOrCreateLocked(s, k, "ZSet", t)
             zset == got.data[k].zset
             e == [got.data[k] EXCEPT !.zset =
                     [m \in DOMAIN zset \cup {member} |-> IF m = member THEN score ELSE zset[m]]]
  <2>1. Sound(got) /\ Has(got, k) /\ (got = s \/ Written(s, got, k))
    BY GetOrCreateLockedSound, GetOrCreateWrites DEF VType
  <2>2. ZAddCmd(s, k, score, member, t) = TouchLRU([got EXCEPT !.data[k] = e], k)
    BY DEF ZAddCmd
  <2>3. Has(ZAddCmd(s, k, score, member, t), k)
    BY ZAddCmdSound
  <2> HIDE DEF got, e
  <2>4. QED
    BY <2>1, <2>2, <2>3, EditWrites
<1>3. QED
  BY <1>1, <1>2

LEMMA LPopUses ==
  ASSUME NEW s, Sound(s), NEW k \in Key, NEW t
  PROVE  /\ Live(s, k, t) => Written(s, LPopCmd(s, k, t), k)
         /\ ~Live(s, k, t) => LPopCmd(s, k, t) = GetLocked(s, k, t)
<1> DEFINE got == GetLocked(s, k, t)
           rest == [got.data[k] EXCEPT !.list = Tail(@)]
<1>1. Sound(got) /\ (Live(s, k, t) => Has(got, k) /\ Written(s, got, k))
  BY GetLockedSound, GetLockedUses
<1>2. ~Live(s, k, t) => LPopCmd(s, k, t) = got
  BY DEF LPopCmd
<1> HIDE DEF got
<1>3. ASSUME Live(s, k, t), got.data[k].vtype = "List", got.data[k].list # <<>>
      PROVE  Written(s, LPopCmd(s, k, t), k)
  <2>1. got.data[k] \in Entry
    BY <1>1, <1>3, EntryOfKey DEF Sound
  <2>2. rest \in Entry
    <3>1. Tail(got.data[k].list) \in Seq(Val)
      BY <1>3, <2>1 DEF Entry
    <3>2. QED
      BY <2>1, <3>1 DEF Entry
  <2>3. LPopCmd(s, k, t) = TouchLRU([got EXCEPT !.data[k] = rest], k)
    BY <1>3 DEF LPopCmd, got
  <2> HIDE DEF rest
  <2>4. Has(TouchLRU([got EXCEPT !.data[k] = rest], k), k)
    BY <1>1, <1>3, <2>2, WriteEntrySound
  <2>5. QED
    BY <1>1, <1>3, <2>3, <2>4, EditWrites
<1>4. ASSUME Live(s, k, t), ~(got.data[k].vtype = "List" /\ got.data[k].list # <<>>)
      PROVE  Written(s, LPopCmd(s, k, t), k)
  <2>1. LPopCmd(s, k, t) = got
    BY <1>4 DEF LPopCmd, got
  <2>2. QED
    BY <1>1, <1>4, <2>1
<1>5. QED
  BY <1>2, <1>3, <1>4 DEF got

-----------------------------------------------------------------------------
(* What a command leaves of the other keys.                                *)

(* The entry of j in s is the one of j in r, or was evicted.               *)
Spared(s, r, j) == r.data[j] = s.data[j] \/ (MaxKeys > 0 /\ r.data[j] = Absent)

LEMMA DataTyped ==
  ASSUME NEW s, Sound(s)
  PROVE  s.data \in [Key -> Entry \cup {Absent}]
BY DEF Sound, Coherent, StoreType

LEMMA SetLockedSpares ==
  ASSUME NEW s, Sound(s), NEW k \in Key, NEW e \in Entry, NEW j \in Key \ {k}
  PROVE  Spared(s, SetLocked(s, k, e), j)
<1>1. PICK gone \in SUBSET (Key \ {k}) : GivesUp(s, k, e, gone)
  BY SetLockedMap
<1>2. QED
  BY <1>1 DEF GivesUp, Spared

LEMMA GetOrCreateSpares ==
  ASSUME NEW s, Sound(s), NEW k \in Key, NEW vtype \in VType, NEW t, NEW j \in Key \ {k}
  PROVE  Spared(s, GetOrCreateLocked(s, k, vtype, t), j)
BY NewEntryTyped, SetLockedSpares DEF GetOrCreateLocked, Spared

LEMMA GetLockedSpares ==
  ASSUME NEW s, Sound(s), NEW k \in Key, NEW t
  PROVE  /\ \A j \in Key \ {k} : GetLocked(s, k, t).data[j] = s.data[j]
         /\ GetLocked(s, k, t).data[k] \in {s.data[k], Absent}
         /\ ~(Has(s, k) /\ IsExpired(s.data[k], t)) =>
              GetLocked(s, k, t).data[k] = s.data[k]
<1>1. s.data \in [Key -> Entry \cup {Absent}]
  BY DataTyped
<1>2. CASE Live(s, k, t)
  BY <1>2 DEF GetLocked, TouchLRU
<1>3. CASE ~Live(s, k, t) /\ Has(s, k)
  <2>1. GetLocked(s, k, t).data = [s.data EXCEPT ![k] = Absent]
    BY <1>3 DEF GetLocked, RemoveLocked
  <2>2. QED
    BY <1>1, <1>3, <2>1 DEF Live
<1>4. CASE ~Has(s, k)
  BY <1>4 DEF GetLocked, Live
<1>5. QED
  BY <1>2, <1>3, <1>4

(* A write inside an entry moves no other entry.                           *)
LEMMA WriteSpares ==
  ASSUME NEW s, NEW g, Sound(g), NEW k \in Key, NEW e, NEW j \in Key \ {k}, Spared(s, g, j)
  PROVE  Spared(s, TouchLRU([g EXCEPT !.data[k] = e], k), j)
<1>1. g.data \in [Key -> Entry \cup {Absent}] /\ g \in StoreType
  BY DataTyped DEF Sound, Coherent
<1>2. TouchLRU([g EXCEPT !.data[k] = e], k).data = [g.data EXCEPT ![k] = e]
  BY <1>1 DEF TouchLRU, StoreType
<1>3. QED
  BY <1>1, <1>2 DEF Spared

LEMMA PushSpares ==
  ASSUME NEW s, Sound(s), NEW k \in Key, NEW vals, NEW t, NEW j \in Key \ {k}
  PROVE  Spared(s, LPushCmd(s, k, vals, t), j) /\ Spared(s, RPushCmd(s, k, vals, t), j)
<1> DEFINE got == GetOrCreateLocked(s, k, "List", t)
           left == [got.data[k] EXCEPT !.list = Reverse(vals) \o @]
           right == [got.data[k] EXCEPT !.list = @ \o vals]
<1>1. Sound(got) /\ Spared(s, got, j)
  BY GetOrCreateLockedSound, GetOrCreateSpares DEF VType
<1>2. /\ LPushCmd(s, k, vals, t) = TouchLRU([got EXCEPT !.data[k] = left], k)
      /\ RPushCmd(s, k, vals, t) = TouchLRU([got EXCEPT !.data[k] = right], k)
  BY DEF LPushCmd, RPushCmd
<1> HIDE DEF got, left, right
<1>3. /\ Spared(s, TouchLRU([got EXCEPT !.data[k] = left], k), j)
      /\ Spared(s, TouchLRU([got EXCEPT !.data[k] = right], k), j)
  BY <1>1, WriteSpares
<1>4. QED
  BY <1>2, <1>3

LEMMA AddSpares ==
  ASSUME NEW s, Sound(s), NEW k \in Key, NEW t, NEW j \in Key \ {k}, NEW members,
         NEW score, NEW member
  PROVE  Spared(s, SAddCmd(s, k, members, t), j) /\ Spared(s, ZAddCmd(s, k, score, member, t), j)
<1>1. Spared(s, SAddCmd(s, k, members, t), j)
  <2> DEFINE got == GetOrCreateLocked(s, k, "Set", t)
             e == [got.data[k] EXCEPT !.set = @ \cup members]
  <2>1. Sound(got) /\ Spared(s, got, j)
    BY GetOrCreateLockedSound, GetOrCreateSpares DEF VType
  <2>2. SAddCmd(s, k, members, t) = TouchLRU([got EXCEPT !.data[k] = e], k)
    BY DEF SAddCmd
  <2> HIDE DEF got, e
  <2>3. QED
    BY <2>1, <2>2, WriteSpares
<1>2. Spared(s, ZAddCmd(s, k, score, member, t), j)
  <2> DEFINE got == GetOrCreateLocked(s, k, "ZSet", t)
             zset == got.data[k].zset
             new == [m \in DOMAIN zset \cup {member} |-> IF m = member THEN score ELSE zset[m]]
             e == [got.data[k] EXCEPT !.zset = new]
  <2>1. Sound(got) /\ Spared(s, got, j)
    BY GetOrCreateLockedSound, GetOrCreateSpares DEF VType
  <2>2. ZAddCmd(s, k, score, member, t) = TouchLRU([got EXCEPT !.data[k] = e], k)
    BY DEF ZAddCmd
  <2> HIDE DEF got, zset, new, e
  <2>3. QED
    BY <2>1, <2>2, WriteSpares
<1>3. QED
  BY <1>1, <1>2

(* Removal of the head of a list, if it comes to that.                     *)
LEMMA LPopLeaves ==
  ASSUME NEW s, Sound(s), NEW k \in Key, NEW t
  PROVE  /\ \A j \in Key \ {k} : LPopCmd(s, k, t).data[j] = s.data[j]
         /\ Has(LPopCmd(s, k, t), k) =>
              Has(s, k) /\ LPopCmd(s, k, t).data[k].expiresAt = s.data[k].expiresAt
<1> DEFINE got == GetLocked(s, k, t)
           rest == [got.data[k] EXCEPT !.list = Tail(@)]
<1>1. /\ \A j \in Key \ {k} : got.data[j] = s.data[j]
      /\ got.data[k] \in {s.data[k], Absent}
      /\ Sound(got) /\ (Live(s, k, t) => Has(got, k))
  BY GetLockedSpares, GetLockedSound
<1>2. CASE Live(s, k, t) /\ got.data[k].vtype = "List" /\ got.data[k].list # <<>>
  <2>1. LPopCmd(s, k, t) = TouchLRU([got EXCEPT !.data[k] = rest], k)
    BY <1>2 DEF LPopCmd
  <2> HIDE DEF got
  <2>2. got.data \in [Key -> Entry \cup {Absent}] /\ got \in StoreType
    BY <1>1, DataTyped DEF Sound, Coherent
  <2>3. got.data[k] \in Entry
    BY <1>1, <1>2, <2>2 DEF Has
  <2>4. rest.expiresAt = got.data[k].expiresAt
    BY <2>3 DEF Entry
  <2> HIDE DEF rest
  <2>5. LPopCmd(s, k, t).data = [got.data EXCEPT ![k] = rest]
    BY <2>1, <2>2 DEF TouchLRU, StoreType
  <2>6. got.data[k] = s.data[k]
    BY <1>1, <1>2, <2>3, StoreAssumption
  <2>7. QED
    BY <1>1, <1>2, <2>2, <2>4, <2>5, <2>6 DEF Live
<1>3. CASE ~(Live(s, k, t) /\ got.data[k].vtype = "List" /\ got.data[k].list # <<>>)
  <2>1. LPopCmd(s, k, t) = got
    BY <1>3 DEF LPopCmd
  <2> HIDE DEF got
  <2>2. QED
    BY <1>1, <2>1 DEF Has
<1>4. QED
  BY <1>2, <1>3

LEMMA ExpireLeaves ==
  ASSUME NEW s, Sound(s), NEW k \in Key, NEW d, NEW t
  PROVE  /\ \A j \in Key \ {k} : ExpireCmd(s, k, d, t).data[j] = s.data[j]
         /\ Has(ExpireCmd(s, k, d, t), k) =>
              /\ Has(s, k)
              /\ \/ Live(s, k, t) /\ ExpireCmd(s, k, d, t).data[k].expiresAt = t + d
                 \/ ~Live(s, k, t) /\ ExpireCmd(s, k, d, t).data[k] = s.data[k]
<1>1. s.data \in [Key -> Entry \cup {Absent}] /\ s \in StoreType
  BY DataTyped DEF Sound, Coherent
<1>2. CASE Live(s, k, t)
  <2> DEFINE e == [s.data[k] EXCEPT !.expiresAt = t + d]
  <2>1. ExpireCmd(s, k, d, t) = [s EXCEPT !.data[k] = e]
    BY <1>2 DEF ExpireCmd
  <2>2. s.data[k] \in Entry
    BY <1>1, <1>2 DEF Live, Has
  <2>3. e.expiresAt = t + d
    BY <2>2 DEF Entry
  <2> HIDE DEF e
  <2>4. ExpireCmd(s, k, d, t).data = [s.data EXCEPT ![k] = e]
    BY <1>1, <2>1 DEF StoreType
  <2>5. QED
    BY <1>1, <1>2, <2>3, <2>4 DEF Live
<1>3. CASE ~Live(s, k, t)
  BY <1>3 DEF ExpireCmd
<1>4. QED
  BY <1>2, <1>3

LEMMA DelLeaves ==
  ASSUME NEW s, Sound(s), NEW k \in Key
  PROVE  /\ \A j \in Key \ {k} : DelOne(s, k).data[j] = s.data[j]
         /\ ~Has(DelOne(s, k), k) /\ Sound(DelOne(s, k))
<1>1. s.data \in [Key -> Entry \cup {Absent}]
  BY DataTyped
<1>2. CASE Has(s, k)
  <2>1. DelOne(s, k).data = [s.data EXCEPT ![k] = Absent]
    BY <1>2 DEF DelOne, RemoveLocked
  <2>2. Sound(DelOne(s, k))
    BY <1>2, RemoveLockedSound DEF DelOne
  <2>3. QED
    BY <1>1, <2>1, <2>2 DEF Has
<1>3. CASE ~Has(s, k)
  BY <1>3 DEF DelOne
<1>4. QED
  BY <1>2, <1>3

-----------------------------------------------------------------------------
(* What an entry holds.                                                    *)

(* An entry has elements only if it is a list, and members with scores     *)
(* only if it is a sorted set: LRANGE and ZRANGE look at the type first.   *)
FitsType(e) ==
  /\ e.vtype # "List" => e.list = <<>>
  /\ e.vtype # "ZSet" => DOMAIN e.zset = {}

DataFits(s) == \A k \in Key : Has(s, k) => FitsType(s.data[k])

LEMMA ElsewhereFits ==
  ASSUME NEW s, DataFits(s), NEW k \in Key, NEW r,
         \A j \in Key \ {k} : Spared(s, r, j), Has(r, k) => FitsType(r.data[k])
  PROVE  DataFits(r)
<1> SUFFICES ASSUME NEW j \in Key, Has(r, j) PROVE FitsType(r.data[j])
  BY DEF DataFits
<1>1. CASE j = k
  BY <1>1
<1>2. CASE j # k
  BY <1>2 DEF Spared, DataFits, Has
<1>3. QED
  BY <1>1, <1>2

LEMMA NewEntryFits ==
  ASSUME NEW vtype \in VType
  PROVE  /\ NewEntry(vtype) \in Entry /\ FitsType(NewEntry(vtype))
         /\ NewEntry(vtype).vtype = vtype
BY NewEntryTyped DEF NewEntry, FitsType

LEMMA SetCmdFits ==
  ASSUME NEW s, Sound(s), DataFits(s), NEW k \in Key, NEW v \in Val
  PROVE  DataFits(SetCmd(s, k, v))
<1> DEFINE e == [NewEntry("String") EXCEPT !.str = v]
<1>1. e \in Entry /\ FitsType(e)
  BY NewEntryFits DEF VType, Entry, NewEntry, FitsType
<1>2. SetCmd(s, k, v) = SetLocked(s, k, e)
  BY DEF SetCmd
<1> HIDE DEF e
<1>3. QED
  BY <1>1, <1>2, SetLockedSound, SetLockedSpares, ElsewhereFits

LEMMA GetLockedFits ==
  ASSUME NEW s, Sound(s), DataFits(s), NEW k \in Key, NEW t
  PROVE  DataFits(GetLocked(s, k, t))
<1> DEFINE r == GetLocked(s, k, t)
<1>1. /\ \A j \in Key \ {k} : Spared(s, r, j)
      /\ r.data[k] \in {s.data[k], Absent}
  BY GetLockedSpares DEF Spared
<1>2. Has(r, k) => FitsType(r.data[k])
  BY <1>1 DEF Has, DataFits
<1> HIDE DEF r
<1>3. QED
  BY <1>1, <1>2, ElsewhereFits DEF r

(* What getOrCreateLocked hands out is of the type asked for.              *)
LEMMA GetOrCreateFits ==
  ASSUME NEW s, Sound(s), DataFits(s), NEW k \in Key, NEW vtype \in VType, NEW t
  PROVE  /\ Sound(GetOrCreateLocked(s, k, vtype, t))
         /\ GetOrCreateLocked(s, k, vtype, t).data[k] \in Entry
         /\ GetOrCreateLocked(s, k, vtype, t).data[k].vtype = vtype
         /\ FitsType(GetOrCreateLocked(s, k, vtype, t).data[k])
<1>1. CASE Live(s, k, t) /\ s.data[k].vtype = vtype
  BY <1>1, GetOrCreateLockedSound DEF GetOrCreateLocked, Live, DataFits
<1>2. CASE ~(Live(s, k, t) /\ s.data[k].vtype = vtype)
  BY <1>2, GetOrCreateLockedSound, SetLockedSound, NewEntryFits DEF GetOrCreateLocked
<1>3. QED
  BY <1>1, <1>2

LEMMA WrittenData ==
  ASSUME NEW g, Sound(g), NEW k \in Key, NEW e
  PROVE  TouchLRU([g EXCEPT !.data[k] = e], k).data[k] = e
<1>1. g.data \in [Key -> Entry \cup {Absent}] /\ g \in StoreType
  BY DataTyped DEF Sound, Coherent
<1>2. TouchLRU([g EXCEPT !.data[k] = e], k).data = [g.data EXCEPT ![k] = e]
  BY <1>1 DEF TouchLRU, StoreType
<1>3. QED
  BY <1>1, <1>2

LEMMA PushFits ==
  ASSUME NEW s, Sound(s), DataFits(s), NEW k \in Key, NEW vals \in Seq(Val), NEW t
  PROVE  DataFits(LPushCmd(s, k, vals, t)) /\ DataFits(RPushCmd(s, k, vals, t))
<1> DEFINE got == GetOrCreateLocked(s, k, "List", t)
           left == [got.data[k] EXCEPT !.list = Reverse(vals) \o @]
           right == [got.data[k] EXCEPT !.list = @ \o vals]
<1>1. Sound(got) /\ got.data[k] \in Entry /\ got.data[k].vtype = "List" /\ FitsType(got.data[k])
  BY GetOrCreateFits DEF VType
<1>2. /\ LPushCmd(s, k, vals, t) = TouchLRU([got EXCEPT !.data[k] = left], k)
      /\ RPushCmd(s, k, vals, t) = TouchLRU([got EXCEPT !.data[k] = right], k)
  BY DEF LPushCmd, RPushCmd
<1>3. \A j \in Key \ {k} : Spared(s, LPushCmd(s, k, vals, t), j) /\ Spared(s, RPushCmd(s, k, vals, t), j)
  BY PushSpares
<1> HIDE DEF got
<1>4. FitsType(left) /\ FitsType(right)
  <2>1. /\ left.vtype = "List" /\ left.zset = got.data[k].zset
        /\ right.vtype = "List" /\ right.zset = got.data[k].zset
    BY <1>1 DEF Entry
  <2> HIDE DEF left, right
  <2>2. QED
    BY <1>1, <2>1 DEF FitsType
<1> HIDE DEF left, right
<1>5. LPushCmd(s, k, vals, t).data[k] = left /\ RPushCmd(s, k, vals, t).data[k] = right
  <2>1. TouchLRU([got EXCEPT !.data[k] = left], k).data[k] = left
    BY <1>1, WrittenData
  <2>2. TouchLRU([got EXCEPT !.data[k] = right], k).data[k] = right
    BY <1>1, WrittenData
  <2>3. QED
    BY <1>2, <2>1, <2>2
<1>6. QED
  BY <1>3, <1>4, <1>5, ElsewhereFits

LEMMA LPopFits ==
  ASSUME NEW s, Sound(s), DataFits(s), NEW k \in Key, NEW t
  PROVE  DataFits(LPopCmd(s, k, t))
<1> DEFINE got == GetLocked(s, k, t)
           rest == [got.data[k] EXCEPT !.list = Tail(@)]
<1>1. DataFits(got) /\ Sound(got)
  BY GetLockedFits, GetLockedSound
<1>2. CASE Live(s, k, t) /\ got.data[k].vtype = "List" /\ got.data[k].list # <<>>
  <2>1. LPopCmd(s, k, t) = TouchLRU([got EXCEPT !.data[k] = rest], k)
    BY <1>2 DEF LPopCmd
  <2>2. Has(got, k)
    BY <1>2, GetLockedSound
  <2> HIDE DEF got
  <2>3. got.data[k] \in Entry /\ FitsType(got.data[k])
    BY <1>1, <2>2, EntryOfKey DEF Sound, DataFits
  <2>4. FitsType(rest)
    <3>1. /\ rest.vtype = got.data[k].vtype
          /\ rest.list = Tail(got.data[k].list) /\ rest.zset = got.data[k].zset
      BY <2>3 DEF Entry
    <3> HIDE DEF rest
    <3>2. QED
      BY <1>2, <2>3, <3>1 DEF FitsType
  <2> HIDE DEF rest
  <2>5. LPopCmd(s, k, t).data[k] = rest
    <3>1. TouchLRU([got EXCEPT !.data[k] = rest], k).data[k] = rest
      BY <1>1, WrittenData
    <3>2. QED
      BY <2>1, <3>1
  <2>6. \A j \in Key \ {k} : Spared(s, LPopCmd(s, k, t), j)
    BY LPopLeaves DEF Spared
  <2>7. QED
    BY <2>4, <2>5, <2>6, ElsewhereFits
<1>3. CASE ~(Live(s, k, t) /\ got.data[k].vtype = "List" /\ got.data[k].list # <<>>)
  BY <1>1, <1>3 DEF LPopCmd
<1>4. QED
  BY <1>2, <1>3

LEMMA AddFits ==
  ASSUME NEW s, Sound(s), DataFits(s), NEW k \in Key, NEW t
  PROVE  /\ \A members \in SUBSET Val : DataFits(SAddCmd(s, k, members, t))
         /\ \A score \in Score, member \in Val : DataFits(ZAddCmd(s, k, score, member, t))
<1>1. ASSUME NEW members \in SUBSET Val PROVE DataFits(SAddCmd(s, k, members, t))
  <2> DEFINE got == GetOrCreateLocked(s, k, "Set", t)
             e == [got.data[k] EXCEPT !.set = @ \cup members]
  <2>1. Sound(got) /\ got.data[k] \in Entry /\ FitsType(got.data[k])
    BY GetOrCreateFits DEF VType
  <2>2. SAddCmd(s, k, members, t) = TouchLRU([got EXCEPT !.data[k] = e], k)
    BY DEF SAddCmd
  <2>3. \A j \in Key \ {k} : Spared(s, SAddCmd(s, k, members, t), j)
    BY AddSpares
  <2> HIDE DEF got
  <2>4. FitsType(e)
    BY <2>1 DEF FitsType, Entry
  <2> HIDE DEF e
  <2>5. SAddCmd(s, k, members, t).data[k] = e
    BY <2>1, <2>2, WrittenData
  <2>6. QED
    BY <2>3, <2>4, <2>5, ElsewhereFits
<1>2. ASSUME NEW score \in Score, NEW member \in Val PROVE DataFits(ZAddCmd(s, k, score, member, t))
  <2> DEFINE got == GetOrCreateLocked(s, k, "ZSet", t)
             zset == got.data[k].zset
             new == [m \in DOMAIN zset \cup {member} |-> IF m = member THEN score ELSE zset[m]]
             e == [got.data[k] EXCEPT !.zset = new]
  <2>1. /\ Sound(got) /\ got.data[k] \in Entry /\ FitsType(got.data[k])
        /\ got.data[k].vtype = "ZSet"
    BY GetOrCreateFits DEF VType
  <2>2. ZAddCmd(s, k, score, member, t) = TouchLRU([got EXCEPT !.data[k] = e], k)
    BY DEF ZAddCmd
  <2>3. \A j \in Key \ {k} : Spared(s, ZAddCmd(s, k, score, member, t), j)
    BY AddSpares
  <2> HIDE DEF got, zset, new
  <2>4. FitsType(e)
    BY <2>1 DEF FitsType, Entry
  <2> HIDE DEF e
  <2>5. ZAddCmd(s, k, score, member, t).data[k] = e
    BY <2>1, <2>2, WrittenData
  <2>6. QED
    BY <2>3, <2>4, <2>5, ElsewhereFits
<1>3. QED
  BY <1>1, <1>2

LEMMA ExpireFits ==
  ASSUME NEW s, Sound(s), DataFits(s), NEW k \in Key, NEW d, NEW t
  PROVE  DataFits(ExpireCmd(s, k, d, t))
<1> DEFINE e == [s.data[k] EXCEPT !.expiresAt = t + d]
<1>1. CASE Live(s, k, t)
  <2>1. Has(s, k) /\ s.data[k] \in Entry /\ FitsType(s.data[k]) /\ s \in StoreType
    BY <1>1, EntryOfKey DEF Live, Sound, DataFits, Coherent
  <2>2. ExpireCmd(s, k, d, t) = [s EXCEPT !.data[k] = e]
    BY <1>1 DEF ExpireCmd
  <2>3. FitsType(e)
    BY <2>1 DEF FitsType, Entry
  <2> HIDE DEF e
  <2>4. ExpireCmd(s, k, d, t).data[k] = e
    BY <2>1, <2>2 DEF StoreType
  <2>5. \A j \in Key \ {k} : Spared(s, ExpireCmd(s, k, d, t), j)
    BY ExpireLeaves DEF Spared
  <2>6. QED
    BY <2>3, <2>4, <2>5, ElsewhereFits
<1>2. CASE ~Live(s, k, t)
  BY <1>2 DEF ExpireCmd
<1>3. QED
  BY <1>1, <1>2

LEMMA RemoveFits ==
  ASSUME NEW s, Sound(s), DataFits(s), NEW k \in Key
  PROVE  DataFits(DelOne(s, k)) /\ (Has(s, k) => DataFits(RemoveLocked(s, k)))
<1>1. DataFits(DelOne(s, k))
  <2>1. (\A j \in Key \ {k} : Spared(s, DelOne(s, k), j)) /\ ~Has(DelOne(s, k), k)
    BY DelLeaves DEF Spared
  <2>2. QED
    BY <2>1, ElsewhereFits
<1>2. QED
  BY <1>1 DEF DelOne

LEMMA EmptyStoreFits == DataFits(EmptyStore)
BY DEF DataFits, EmptyStore, Has

-----------------------------------------------------------------------------
(* Induction, and extrema of sets of numbers.                              *)

LEMMA NatSets ==
  ASSUME NEW S \in SUBSET Nat, 0 \in S, \A n \in S : n + 1 \in S
  PROVE  Nat \subseteq S
<1> SUFFICES ASSUME NEW n \in Nat, n \notin S PROVE FALSE
  OBVIOUS
<1> DEFINE U == S \cap (0 .. n)
           f == [x \in U |-> x + 1]
<1>1. U \subseteq 0 .. n /\ 0 \in U /\ IsFiniteSet(0 .. n)
  BY FS_Interval
<1>2. IsFiniteSet(U) /\ IsFiniteSet(U \ {0})
  BY <1>1, FS_Subset
<1>3. Cardinality(U \ {0}) < Cardinality(U)
  <2>1. Cardinality(U) \in Nat /\ Cardinality(U \ {0}) = Cardinality(U) - 1
    BY <1>1, <1>2, FS_RemoveElement, FS_CardinalityType
  <2>2. QED
    BY <2>1
<1>4. f \in [U -> U \ {0}]
  OBVIOUS
<1>5. \A x, y \in U : f[x] = f[y] => x = y
  OBVIOUS
<1> HIDE DEF U, f
<1>6. QED
  BY <1>2, <1>3, <1>4, <1>5, FS_PigeonHole

LEMMA MaxOf ==
  ASSUME NEW n \in Nat, NEW s \in SUBSET (1 .. n), s # {}
  PROVE  Max(s) \in s /\ \A y \in s : Max(s) >= y
<1> DEFINE N == {m \in Nat : \A r \in SUBSET (1 .. m) : r # {} => \E x \in r : \A y \in r : x >= y}
<1>1. 0 \in N
  <2>1. \A r \in SUBSET (1 .. 0) : r = {}
    OBVIOUS
  <2>2. QED
    BY <2>1
<1>2. ASSUME NEW m \in N PROVE m + 1 \in N
  <2>0. m \in Nat /\ m + 1 \in Nat
    OBVIOUS
  <2> SUFFICES ASSUME NEW r \in SUBSET (1 .. m + 1), r # {}
               PROVE  \E x \in r : \A y \in r : x >= y
    BY <2>0
  <2>1. CASE m + 1 \in r
    <3>1. \A y \in r : m + 1 >= y
      BY <2>0
    <3>2. QED
      BY <2>1, <3>1
  <2>2. CASE m + 1 \notin r
    <3>1. r \in SUBSET (1 .. m)
      BY <2>0, <2>2
    <3>2. QED
      BY <3>1
  <2>3. QED
    BY <2>1, <2>2
<1>3. n \in N
  <2> HIDE DEF N
  <2>1. N \in SUBSET Nat
    BY DEF N
  <2>2. QED
    BY <1>1, <1>2, <2>1, NatSets
<1>4. \E x \in s : \A y \in s : x >= y
  BY <1>3
<1>5. QED
  BY <1>4 DEF Max

LEMMA MinOf ==
  ASSUME NEW n \in Nat, NEW s \in SUBSET (1 .. n), s # {}
  PROVE  Min(s) \in s /\ \A y \in s : Min(s) <= y
<1> DEFINE r == {x \in 1 .. n : n + 1 - x \in s}
<1>1. \A y \in s : n + 1 - y \in r
  OBVIOUS
<1>2. r \in SUBSET (1 .. n) /\ r # {}
  BY <1>1
<1>3. Max(r) \in r /\ \A y \in r : Max(r) >= y
  <2> HIDE DEF r
  <2>1. QED
    BY <1>2, MaxOf
<1>4. n + 1 - Max(r) \in s
  BY <1>3
<1>5. \A y \in s : n + 1 - Max(r) <= y
  <2> SUFFICES ASSUME NEW y \in s PROVE n + 1 - Max(r) <= y
    OBVIOUS
  <2>1. Max(r) \in 1 .. n /\ y \in 1 .. n
    BY <1>3
  <2>2. Max(r) >= n + 1 - y
    BY <1>1, <1>3
  <2> HIDE DEF r
  <2>3. QED
    BY <2>1, <2>2
<1>6. QED
  BY <1>4, <1>5 DEF Min

-----------------------------------------------------------------------------
(* One insertion of ZRANGE's sort.                                         *)

(* No score is NaN, and the order of the others is total.                  *)
AllNumbers(zset) == \A x \in DOMAIN zset : zset[x] \in Int /\ zset[x] # NaN

Ascending(l, zset) ==
  AllNumbers(zset) => \A i, j \in 1 .. Len(l) : i < j => zset[l[i]] <= zset[l[j]]

(* Where an element goes: among numbers, behind all that are not larger.   *)
LEMMA PlaceByScore ==
  ASSUME NEW zset, NEW l \in Seq(DOMAIN zset), Ascending(l, zset), NEW m \in DOMAIN zset
  PROVE  \E at \in 1 .. Len(l) + 1 :
           /\ InsertByScore(l, m, zset) = InsertAt(l, at, m)
           /\ AllNumbers(zset) =>
                /\ \A j \in 1 .. Len(l) : j < at => zset[l[j]] <= zset[m]
                /\ \A j \in 1 .. Len(l) : j >= at => zset[l[j]] > zset[m]
<1> DEFINE before == {i \in 1 .. Len(l) : \A j \in i .. Len(l) : Less(zset[m], zset[l[j]])}
<1>0. Len(l) \in Nat /\ DOMAIN l = 1 .. Len(l)
  OBVIOUS
<1>1. InsertByScore(l, m, zset) = InsertAt(l, IF before = {} THEN Len(l) + 1 ELSE Min(before), m)
  BY <1>0 DEF InsertByScore
<1>5. ASSUME AllNumbers(zset), NEW j \in 1 .. Len(l)
      PROVE  /\ zset[l[j]] \in Int /\ zset[m] \in Int
             /\ Less(zset[m], zset[l[j]]) <=> zset[l[j]] > zset[m]
  BY <1>5 DEF AllNumbers, Less
<1>2. CASE before = {}
  <2>1. ASSUME AllNumbers(zset), NEW j \in 1 .. Len(l) PROVE zset[l[j]] <= zset[m]
    <3>1. Len(l) \in 1 .. Len(l)
      BY <1>0
    <3>2. zset[l[Len(l)]] <= zset[m]
      <4>1. PICK i \in Len(l) .. Len(l) : ~Less(zset[m], zset[l[i]])
        BY <1>2, <3>1
      <4>2. i = Len(l)
        BY <1>0
      <4>3. QED
        BY <1>5, <2>1, <3>1, <4>1, <4>2
    <3> HIDE DEF before
    <3>3. zset[l[j]] <= zset[l[Len(l)]]
      <4>1. CASE j = Len(l)
        BY <1>5, <2>1, <3>1, <4>1
      <4>2. CASE j < Len(l)
        BY <2>1, <3>1, <4>2 DEF Ascending
      <4>3. j = Len(l) \/ j < Len(l)
        <5>1. PICK n \in Nat : n = Len(l)
          BY <1>0
        <5>2. j \in 1 .. n
          BY <5>1
        <5>3. j = n \/ j < n
          BY <5>2
        <5>4. QED
          BY <5>1, <5>3
      <4>4. QED
        BY <4>1, <4>2, <4>3
    <3>4. QED
      BY <1>5, <2>1, <3>1, <3>2, <3>3
  <2>2. Len(l) + 1 \in 1 .. Len(l) + 1
    BY <1>0
  <2> HIDE DEF before
  <2>3. InsertByScore(l, m, zset) = InsertAt(l, Len(l) + 1, m)
    BY <1>1, <1>2
  <2>4. \A j \in 1 .. Len(l) : ~(j >= Len(l) + 1)
    BY <1>0
  <2>5. QED
    BY <2>1, <2>2, <2>3, <2>4
<1>3. CASE before # {}
  <2> DEFINE at == Min(before)
  <2>1. before \in SUBSET (1 .. Len(l))
    OBVIOUS
  <2>2. at \in before /\ \A y \in before : at <= y
    <3> HIDE DEF before
    <3>1. QED
      BY <1>0, <1>3, <2>1, MinOf
  <2>3. at \in 1 .. Len(l) /\ \A j \in at .. Len(l) : Less(zset[m], zset[l[j]])
    BY <2>2
  <2>4. ASSUME AllNumbers(zset), NEW j \in 1 .. Len(l), j < at PROVE zset[l[j]] <= zset[m]
    <3>1. at - 1 \in 1 .. Len(l) /\ at - 1 \notin before
      <4> HIDE DEF before, at
      <4>1. at - 1 \in 1 .. Len(l)
        BY <1>0, <2>3, <2>4
      <4>2. ~(at <= at - 1)
        BY <2>3
      <4>3. QED
        BY <4>1, <4>2, <2>2
    <3>2. PICK i \in at - 1 .. Len(l) : ~Less(zset[m], zset[l[i]])
      BY <3>1
    <3> HIDE DEF before, at
    <3>3. i = at - 1
      BY <1>0, <2>3, <3>2
    <3>4. zset[l[at - 1]] <= zset[m]
      BY <1>5, <2>4, <3>1, <3>2, <3>3
    <3>5. zset[l[j]] <= zset[l[at - 1]]
      <4>1. CASE j = at - 1
        BY <1>5, <2>4, <3>1, <4>1
      <4>2. CASE j < at - 1
        BY <2>4, <3>1, <4>2 DEF Ascending
      <4>3. QED
        BY <2>3, <2>4, <4>1, <4>2
    <3>6. QED
      BY <1>5, <2>4, <3>1, <3>4, <3>5
  <2>5. InsertByScore(l, m, zset) = InsertAt(l, at, m)
    BY <1>1, <1>3
  <2> HIDE DEF before, at
  <2>6. at \in 1 .. Len(l) + 1 /\ \A j \in 1 .. Len(l) : j >= at => j \in at .. Len(l)
    BY <1>0, <2>3
  <2>8. AllNumbers(zset) => \A j \in 1 .. Len(l) : j >= at => zset[l[j]] > zset[m]
    BY <1>5, <2>3, <2>6
  <2>7. QED
    BY <2>4, <2>5, <2>6, <2>8
<1>4. QED
  BY <1>2, <1>3

LEMMA InsertAtIs ==
  ASSUME NEW S, NEW l \in Seq(S), NEW at \in 1 .. Len(l) + 1, NEW m \in S
  PROVE  InsertAt(l, at, m) =
           [i \in 1 .. Len(l) + 1 |-> IF i < at THEN l[i] ELSE IF i = at THEN m ELSE l[i - 1]]
<1> DEFINE a == SubSeq(l, 1, at - 1)
           b == SubSeq(l, at, Len(l))
           r == [i \in 1 .. Len(l) + 1 |-> IF i < at THEN l[i] ELSE IF i = at THEN m ELSE l[i - 1]]
<1>1. a \in Seq(S) /\ Len(a) = at - 1 /\ \A i \in 1 .. at - 1 : a[i] = l[i]
  OBVIOUS
<1>2. /\ b \in Seq(S) /\ Len(b) = Len(l) + 1 - at
      /\ \A i \in 1 .. Len(l) + 1 - at : b[i] = l[at + i - 1]
  OBVIOUS
<1>3. <<m>> \in Seq(S) /\ Len(<<m>>) = 1 /\ <<m>>[1] = m
  OBVIOUS
<1> DEFINE c == a \o <<m>>
<1> HIDE DEF a, b
<1>4. c \in Seq(S) /\ Len(c) = at /\ \A i \in 1 .. at : c[i] = IF i < at THEN a[i] ELSE m
  BY <1>1, <1>3, ConcatProperties
<1> HIDE DEF c
<1>5. /\ c \o b \in Seq(S) /\ Len(c \o b) = Len(l) + 1
      /\ \A i \in 1 .. Len(l) + 1 : (c \o b)[i] = IF i <= at THEN c[i] ELSE b[i - at]
  BY <1>2, <1>4, ConcatProperties
<1>6. \A i \in 1 .. Len(l) + 1 : (c \o b)[i] = r[i]
  <2> SUFFICES ASSUME NEW i \in 1 .. Len(l) + 1 PROVE (c \o b)[i] = r[i]
    OBVIOUS
  <2>1. CASE i < at
    <3>1. i \in 1 .. at - 1 /\ i \in 1 .. at /\ i <= at
      BY <2>1
    <3>2. (c \o b)[i] = l[i]
      BY <1>1, <1>4, <1>5, <2>1, <3>1
    <3>3. QED
      BY <2>1, <3>2
  <2>2. CASE i = at
    <3>1. i \in 1 .. at /\ i <= at
      BY <2>2
    <3>2. QED
      BY <1>4, <1>5, <2>2, <3>1
  <2>3. CASE i > at
    <3>1. i - at \in 1 .. Len(l) + 1 - at /\ ~(i <= at) /\ at + (i - at) - 1 = i - 1
      BY <2>3
    <3>2. (c \o b)[i] = l[i - 1]
      BY <1>2, <1>5, <3>1
    <3>3. QED
      BY <2>3, <3>2
  <2>4. i < at \/ i = at \/ i > at
    OBVIOUS
  <2> HIDE DEF r
  <2>5. QED
    BY <2>1, <2>2, <2>3, <2>4
<1>7. r \in Seq(S) /\ Len(r) = Len(l) + 1
  OBVIOUS
<1> HIDE DEF r
<1>8. c \o b = r
  BY <1>5, <1>6, <1>7, SeqEqual
<1>9. QED
  BY <1>8 DEF InsertAt, a, b, c, r

(* One insertion keeps what makes the answer of ZRANGE.                    *)
SortedOver(l, zset) ==
  l \in Seq(DOMAIN zset) /\ IsInjective(l) /\ Ascending(l, zset)

LEMMA InsertKeepsSorted ==
  ASSUME NEW zset, NEW l, SortedOver(l, zset), NEW m \in DOMAIN zset, m \notin ToSet(l)
  PROVE  /\ SortedOver(InsertByScore(l, m, zset), zset)
         /\ ToSet(InsertByScore(l, m, zset)) = ToSet(l) \cup {m}
<1>0. /\ l \in Seq(DOMAIN zset) /\ Len(l) \in Nat /\ DOMAIN l = 1 .. Len(l)
      /\ \A j \in 1 .. Len(l) : l[j] # m
  BY DEF SortedOver, ToSet
<1>10. \A i, j \in 1 .. Len(l) : i < j => l[i] # l[j]
  BY <1>0 DEF SortedOver, IsInjective
<1>11. AllNumbers(zset) => /\ \A i, j \in 1 .. Len(l) : i < j => zset[l[i]] <= zset[l[j]]
                           /\ \A j \in 1 .. Len(l) : zset[l[j]] \in Int
                           /\ zset[m] \in Int
  BY <1>0 DEF SortedOver, Ascending, AllNumbers
<1>1. PICK at \in 1 .. Len(l) + 1 :
           /\ InsertByScore(l, m, zset) = InsertAt(l, at, m)
           /\ AllNumbers(zset) =>
                /\ \A j \in 1 .. Len(l) : j < at => zset[l[j]] <= zset[m]
                /\ \A j \in 1 .. Len(l) : j >= at => zset[l[j]] > zset[m]
  BY PlaceByScore DEF SortedOver
<1> DEFINE r == [i \in 1 .. Len(l) + 1 |-> IF i < at THEN l[i] ELSE IF i = at THEN m ELSE l[i - 1]]
<1>2. InsertByScore(l, m, zset) = r
  BY <1>0, <1>1, InsertAtIs
<1>3. r \in Seq(DOMAIN zset) /\ Len(r) = Len(l) + 1 /\ DOMAIN r = 1 .. Len(l) + 1
  BY <1>0
<1>4. ASSUME NEW i \in 1 .. Len(l) + 1, NEW j \in 1 .. Len(l) + 1, i < j
      PROVE  r[i] # r[j] /\ (AllNumbers(zset) => zset[r[i]] <= zset[r[j]])
  <2>1. CASE j < at
    <3>1. i \in 1 .. Len(l) /\ j \in 1 .. Len(l) /\ r[i] = l[i] /\ r[j] = l[j]
      BY <1>0, <1>4, <2>1
    <3>2. QED
      BY <1>4, <1>10, <1>11, <3>1
  <2>2. CASE j = at
    <3>1. i \in 1 .. Len(l) /\ r[i] = l[i] /\ r[j] = m /\ i < at
      BY <1>0, <1>4, <2>2
    <3>2. QED
      BY <1>0, <1>1, <3>1
  <2>3. CASE j > at /\ i < at
    <3>1. i \in 1 .. Len(l) /\ j - 1 \in 1 .. Len(l) /\ r[i] = l[i] /\ r[j] = l[j - 1] /\ i < j - 1
      BY <1>0, <1>4, <2>3
    <3>2. QED
      BY <1>10, <1>11, <3>1
  <2>4. CASE j > at /\ i = at
    <3>1. j - 1 \in 1 .. Len(l) /\ j - 1 >= at /\ r[i] = m /\ r[j] = l[j - 1]
      BY <1>0, <1>4, <2>4
    <3>2. AllNumbers(zset) => zset[l[j - 1]] > zset[m] /\ zset[l[j - 1]] \in Int /\ zset[m] \in Int
      BY <1>1, <1>11, <3>1
    <3>3. QED
      BY <1>0, <3>1, <3>2
  <2>5. CASE j > at /\ i > at
    <3>1. /\ i - 1 \in 1 .. Len(l) /\ j - 1 \in 1 .. Len(l) /\ i - 1 < j - 1
          /\ r[i] = l[i - 1] /\ r[j] = l[j - 1]
      BY <1>0, <1>4, <2>5
    <3>2. QED
      BY <1>10, <1>11, <3>1
  <2>6. QED
    BY <2>1, <2>2, <2>3, <2>4, <2>5
<1>5. IsInjective(r)
  <2> SUFFICES ASSUME NEW i \in 1 .. Len(l) + 1, NEW j \in 1 .. Len(l) + 1, r[i] = r[j]
               PROVE  i = j
    BY <1>3 DEF IsInjective
  <2> HIDE DEF r
  <2>1. ~(i < j) /\ ~(j < i)
    BY <1>4
  <2>2. QED
    BY <1>0, <2>1
<1>6. Ascending(r, zset)
  <2> HIDE DEF r
  <2>1. QED
    BY <1>3, <1>4 DEF Ascending
<1>7. ToSet(r) = ToSet(l) \cup {m}
  <2>1. ToSet(l) = {l[i] : i \in 1 .. Len(l)} /\ ToSet(r) = {r[i] : i \in 1 .. Len(l) + 1}
    <3> HIDE DEF r
    <3>1. QED
      BY <1>0, <1>3 DEF ToSet
  <2>2. ASSUME NEW i \in 1 .. Len(l) + 1 PROVE r[i] \in ToSet(l) \cup {m}
    <3>1. i < at => i \in 1 .. Len(l) /\ r[i] = l[i]
      BY <1>0
    <3>2. i = at => r[i] = m
      BY <1>0
    <3>3. i > at => i - 1 \in 1 .. Len(l) /\ r[i] = l[i - 1]
      BY <1>0
    <3>4. QED
      BY <2>1, <3>1, <3>2, <3>3
  <2>3. ASSUME NEW i \in 1 .. Len(l) PROVE \E j \in 1 .. Len(l) + 1 : r[j] = l[i]
    <3>1. i < at => i \in 1 .. Len(l) + 1 /\ r[i] = l[i]
      BY <1>0
    <3>2. i >= at => i + 1 \in 1 .. Len(l) + 1 /\ r[i + 1] = l[i]
      BY <1>0
    <3>3. i < at \/ i >= at
      BY <1>0
    <3> HIDE DEF r
    <3>4. QED
      BY <3>1, <3>2, <3>3
  <2>4. at \in 1 .. Len(l) + 1 /\ r[at] = m
    BY <1>0
  <2> HIDE DEF r
  <2>5. QED
    BY <2>1, <2>2, <2>3, <2>4
<1>8. QED
  BY <1>2, <1>3, <1>5, <1>6, <1>7 DEF SortedOver

-----------------------------------------------------------------------------
(* The sort as a run.  The fold is a recursive function on the sets of     *)
(* places still to be served; that there is one is shown by induction, and *)
(* its values on 1 .. i are the states of the sort after i insertions.     *)

Sorted(order, zset) ==
  FoldLeft(LAMBDA sorted, m : InsertByScore(sorted, m, zset), <<>>, order)

(* h has what the sort makes of the places in each set.                    *)
IsSortTable(h, n, order, zset) ==
  h = [s \in SUBSET (1 .. n) |->
         IF s = {} THEN <<>>
         ELSE InsertByScore(h[s \ {Max(s)}], order[Max(s)], zset)]

LEMMA SortTableGrows ==
  ASSUME NEW zset, NEW order, NEW m \in Nat, NEW h, IsSortTable(h, m, order, zset)
  PROVE  \E g : IsSortTable(g, m + 1, order, zset)
<1> DEFINE g == [s \in SUBSET (1 .. m + 1) |->
                   IF m + 1 \in s THEN InsertByScore(h[s \ {m + 1}], order[m + 1], zset) ELSE h[s]]
<1>1. ASSUME NEW s \in SUBSET (1 .. m + 1)
      PROVE  g[s] = IF s = {} THEN <<>>
                    ELSE InsertByScore(g[s \ {Max(s)}], order[Max(s)], zset)
  <2>1. CASE m + 1 \in s
    <3>0. m + 1 \in Nat /\ s # {}
      BY <2>1
    <3>1. Max(s) \in s /\ \A y \in s : Max(s) >= y
      BY <3>0, MaxOf
    <3>2. Max(s) = m + 1
      <4>1. Max(s) \in 1 .. m + 1
        BY <3>1
      <4>2. Max(s) >= m + 1
        BY <2>1, <3>1
      <4>3. QED
        BY <4>1, <4>2
    <3>3. s \ {m + 1} \in SUBSET (1 .. m)
      OBVIOUS
    <3>4. g[s \ {m + 1}] = h[s \ {m + 1}]
      BY <3>3
    <3>5. QED
      BY <2>1, <3>2, <3>4
  <2>2. CASE m + 1 \notin s
    <3>1. s \in SUBSET (1 .. m) /\ g[s] = h[s]
      BY <2>2
    <3>2. CASE s = {}
      BY <3>1, <3>2 DEF IsSortTable
    <3>3. CASE s # {}
      <4>1. Max(s) \in s
        BY <3>1, <3>3, MaxOf
      <4>2. g[s \ {Max(s)}] = h[s \ {Max(s)}]
        BY <2>2, <3>1
      <4>3. h[s] = InsertByScore(h[s \ {Max(s)}], order[Max(s)], zset)
        BY <3>1, <3>3 DEF IsSortTable
      <4>4. QED
        BY <3>1, <3>3, <4>2, <4>3
    <3>4. QED
      BY <3>2, <3>3
  <2>3. QED
    BY <2>1, <2>2
<1>2. g = [s \in SUBSET (1 .. m + 1) |-> g[s]]
  OBVIOUS
<1> HIDE DEF g
<1>3. IsSortTable(g, m + 1, order, zset)
  BY <1>1, <1>2 DEF IsSortTable
<1>4. QED
  BY <1>3

LEMMA SortTableExists ==
  ASSUME NEW zset, NEW order, NEW n \in Nat
  PROVE  \E h : IsSortTable(h, n, order, zset)
<1> DEFINE N == {m \in Nat : \E h : IsSortTable(h, m, order, zset)}
<1>1. 0 \in N
  <2> DEFINE h == [s \in SUBSET (1 .. 0) |-> <<>>]
  <2>1. \A s \in SUBSET (1 .. 0) : s = {}
    OBVIOUS
  <2>2. IsSortTable(h, 0, order, zset)
    BY <2>1 DEF IsSortTable
  <2>3. QED
    BY <2>2
<1>2. \A m \in N : m + 1 \in N
  BY SortTableGrows
<1>3. N \in SUBSET Nat
  OBVIOUS
<1>4. n \in N
  <2> HIDE DEF N
  <2>1. QED
    BY <1>1, <1>2, <1>3, NatSets
<1>5. QED
  BY <1>4

LEMMA SortRuns ==
  ASSUME NEW zset, NEW order, NEW n \in Nat, DOMAIN order = 1 .. n
  PROVE  \E g : /\ g[0] = <<>>
                /\ \A i \in 1 .. n : g[i] = InsertByScore(g[i - 1], order[i], zset)
                /\ Sorted(order, zset) = g[n]
<1> DEFINE iter == CHOOSE h : IsSortTable(h, n, order, zset)
<1>1. IsSortTable(iter, n, order, zset)
  BY SortTableExists
<1>2. Sorted(order, zset) = iter[1 .. n]
  BY DEF Sorted, FoldLeft, MapThenFoldSet, IsSortTable
<1> HIDE DEF iter
<1> DEFINE g == [i \in 0 .. n |-> iter[1 .. i]]
<1>3. g[0] = <<>>
  <2>1. 1 .. 0 = {} /\ 1 .. 0 \in SUBSET (1 .. n)
    OBVIOUS
  <2>2. QED
    BY <1>1, <2>1 DEF IsSortTable
<1>4. ASSUME NEW i \in 1 .. n PROVE g[i] = InsertByScore(g[i - 1], order[i], zset)
  <2>1. 1 .. i \in SUBSET (1 .. n) /\ 1 .. i # {}
    OBVIOUS
  <2>2. Max(1 .. i) = i
    <3>1. Max(1 .. i) \in 1 .. i /\ \A y \in 1 .. i : Max(1 .. i) >= y
      BY <2>1, MaxOf
    <3>2. QED
      BY <3>1
  <2>3. (1 .. i) \ {i} = 1 .. i - 1
    OBVIOUS
  <2>4. iter[1 .. i] = InsertByScore(iter[1 .. i - 1], order[i], zset)
    BY <1>1, <2>1, <2>2, <2>3 DEF IsSortTable
  <2>5. QED
    BY <2>4
<1>5. g[n] = Sorted(order, zset)
  BY <1>2
<1> HIDE DEF g
<1>6. QED
  BY <1>3, <1>4, <1>5

(* ZRANGE's sort, whatever the order in which the map is ranged over.      *)
LEMMA SortedIsSorted ==
  ASSUME NEW zset, Cardinality(DOMAIN zset) \in Nat, IsFiniteSet(DOMAIN zset),
         NEW order \in SetToSeqs(DOMAIN zset)
  PROVE  /\ SortedOver(Sorted(order, zset), zset)
         /\ ToSet(Sorted(order, zset)) = DOMAIN zset
<1> DEFINE n == Cardinality(DOMAIN zset)
<1>1. order \in [1 .. n -> DOMAIN zset] /\ \A i, j \in 1 .. n : i # j => order[i] # order[j]
  BY DEF SetToSeqs
<1>2. PICK g : /\ g[0] = <<>>
               /\ \A i \in 1 .. n : g[i] = InsertByScore(g[i - 1], order[i], zset)
               /\ Sorted(order, zset) = g[n]
  <2>1. n \in Nat /\ DOMAIN order = 1 .. n
    BY <1>1
  <2> HIDE DEF n
  <2>2. QED
    BY <2>1, SortRuns
<1> DEFINE Seen(i) == {order[j] : j \in 1 .. i}
           N == {i \in Nat : i <= n => SortedOver(g[i], zset) /\ ToSet(g[i]) = Seen(i)}
<1>3. 0 \in N
  <2>1. SortedOver(<<>>, zset) /\ ToSet(<<>>) = {}
    BY DEF SortedOver, IsInjective, Ascending, ToSet
  <2>2. Seen(0) = {}
    OBVIOUS
  <2>3. QED
    BY <1>2, <2>1, <2>2
<1>4. ASSUME NEW i \in N PROVE i + 1 \in N
  <2>1. i \in Nat /\ i + 1 \in Nat
    OBVIOUS
  <2> SUFFICES ASSUME i + 1 <= n
               PROVE  SortedOver(g[i + 1], zset) /\ ToSet(g[i + 1]) = Seen(i + 1)
    BY <2>1
  <2>2. i + 1 \in 1 .. n /\ i <= n /\ (i + 1) - 1 = i
    BY <2>1
  <2>3. SortedOver(g[i], zset) /\ ToSet(g[i]) = Seen(i)
    BY <2>2
  <2>4. order[i + 1] \in DOMAIN zset /\ order[i + 1] \notin Seen(i)
    BY <1>1, <2>1, <2>2
  <2>5. g[i + 1] = InsertByScore(g[i], order[i + 1], zset)
    BY <1>2, <2>2
  <2>6. Seen(i + 1) = Seen(i) \cup {order[i + 1]}
    BY <2>1
  <2> HIDE DEF Seen, N, n
  <2>7. order[i + 1] \notin ToSet(g[i])
    BY <2>3, <2>4
  <2>8. /\ SortedOver(InsertByScore(g[i], order[i + 1], zset), zset)
        /\ ToSet(InsertByScore(g[i], order[i + 1], zset)) = ToSet(g[i]) \cup {order[i + 1]}
    BY <2>3, <2>4, <2>7, InsertKeepsSorted
  <2>9. QED
    BY <2>3, <2>5, <2>6, <2>8
<1>5. n \in N
  <2>1. N \in SUBSET Nat
    OBVIOUS
  <2> HIDE DEF N
  <2>2. QED
    BY <1>3, <1>4, <2>1, NatSets
<1>6. Seen(n) = DOMAIN zset
  <2>1. IsFiniteSet(1 .. n) /\ Cardinality(1 .. n) = n
    BY FS_Interval
  <2>2. order \in Injection(1 .. n, DOMAIN zset)
    BY <1>1 DEF Injection, IsInjective
  <2>3. order \in Surjection(1 .. n, DOMAIN zset)
    BY <2>1, <2>2, FS_Injection
  <2>4. QED
    BY <1>1, <2>3 DEF Surjection
<1>7. QED
  <2>1. n \in Nat /\ n <= n
    OBVIOUS
  <2> HIDE DEF n, Seen
  <2>2. QED
    BY <1>2, <1>5, <1>6, <2>1

(* The slice is what lies between both bounds.                             *)
Places(l, a, z) == {i \in DOMAIN l : a <= i /\ i <= z}

PlaceOf(i, len) == IF i < 0 THEN len + i + 1 ELSE i + 1

LEMMA SliceIs ==
  ASSUME NEW S, NEW l \in Seq(S), NEW start \in Int, NEW stop \in Int
  PROVE  LET chosen == Places(l, PlaceOf(start, Len(l)), PlaceOf(stop, Len(l)))
         IN  /\ Len(Slice(l, start, stop)) = Cardinality(chosen)
             /\ \A i \in DOMAIN Slice(l, start, stop) :
                  Slice(l, start, stop)[i] = l[Min(chosen) + i - 1]
<1> DEFINE a      == PlaceOf(start, Len(l))
           z      == PlaceOf(stop, Len(l))
           chosen == Places(l, a, z)
           reply  == Slice(l, start, stop)
           from   == ClampStart(start, Len(l))
           to     == ClampStop(stop, Len(l))
<1>0. Len(l) \in Nat /\ DOMAIN l = 1 .. Len(l)
  OBVIOUS
<1>1. from \in Nat /\ to \in Int /\ to + 1 <= Len(l)
  BY <1>0 DEF ClampStart, ClampStop
<1>2. chosen = from + 1 .. to + 1
  <2>1. \A i \in 1 .. Len(l) : a <= i <=> from + 1 <= i
    BY <1>0 DEF ClampStart, PlaceOf
  <2>2. \A i \in 1 .. Len(l) : i <= z <=> i <= to + 1
    BY <1>0 DEF ClampStop, PlaceOf
  <2> HIDE DEF from, to, a, z
  <2>3. QED
    BY <1>0, <1>1, <2>1, <2>2 DEF Places
<1>3. reply = IF from > to THEN <<>> ELSE SubSeq(l, from + 1, to + 1)
  BY DEF Slice
<1> HIDE DEF a, z, chosen, reply, from, to
<1>4. CASE from > to
  <2>1. chosen = {} /\ reply = <<>>
    BY <1>1, <1>2, <1>3, <1>4
  <2>2. Cardinality(chosen) = 0
    BY <2>1, FS_EmptySet
  <2>3. QED
    BY <2>1, <2>2 DEF a, z, chosen, reply
<1>5. CASE ~(from > to)
  <2>1. /\ reply \in Seq(S) /\ Len(reply) = to + 1 - from
        /\ \A i \in 1 .. to + 1 - from : reply[i] = l[from + i]
    BY <1>0, <1>1, <1>3, <1>5
  <2>2. Cardinality(chosen) = to + 1 - from
    BY <1>1, <1>2, <1>5, FS_Interval
  <2>3. Min(chosen) = from + 1
    <3>1. chosen \in SUBSET (1 .. Len(l)) /\ chosen # {} /\ from + 1 \in chosen
      <4>1. from + 1 >= 1 /\ to + 1 <= Len(l) /\ from + 1 <= to + 1
        BY <1>0, <1>1, <1>5
      <4>2. chosen \in SUBSET (1 .. Len(l))
        BY <1>0, <1>1, <1>2, <4>1
      <4>3. from + 1 \in chosen
        BY <1>1, <1>2, <4>1
      <4>4. QED
        BY <4>2, <4>3
    <3>2. Min(chosen) \in chosen /\ \A y \in chosen : Min(chosen) <= y
      BY <1>0, <3>1, MinOf
    <3>3. QED
      BY <1>1, <1>2, <3>1, <3>2
  <2>4. \A i \in DOMAIN reply : reply[i] = l[Min(chosen) + i - 1]
    BY <1>1, <2>1, <2>3
  <2>5. QED
    BY <2>1, <2>2, <2>4 DEF a, z, chosen, reply
<1>6. QED
  BY <1>4, <1>5

LEMMA ZRangeAnswers ==
  ASSUME NEW s, Sound(s), DataFits(s), NEW k \in Key, Has(s, k),
         NEW reply \in ZRange(s, k, 0, -1)
  PROVE  SortedOver(reply, s.data[k].zset) /\ ToSet(reply) = DOMAIN s.data[k].zset
<1> DEFINE zset == s.data[k].zset
<1>1. s.data[k] \in Entry /\ FitsType(s.data[k])
  BY EntryOfKey DEF Sound, DataFits
<1>2. PICK ms \in SUBSET Val : zset \in [ms -> Score]
  BY <1>1 DEF Entry, ScoreMap
<1>3. CASE s.data[k].vtype # "ZSet"
  <2>1. reply = <<>> /\ DOMAIN zset = {}
    BY <1>1, <1>3 DEF ZRange, FitsType
  <2>2. QED
    BY <2>1 DEF SortedOver, IsInjective, Ascending, ToSet
<1>4. CASE s.data[k].vtype = "ZSet"
  <2>1. PICK order \in SetToSeqs(DOMAIN zset) : reply = Slice(Sorted(order, zset), 0, -1)
    BY <1>4 DEF ZRange, Sorted
  <2>2. IsFiniteSet(DOMAIN zset) /\ Cardinality(DOMAIN zset) \in Nat
    BY <1>2, StoreAssumption, FS_Subset, FS_CardinalityType
  <2> HIDE DEF zset
  <2>3. SortedOver(Sorted(order, zset), zset) /\ ToSet(Sorted(order, zset)) = DOMAIN zset
    BY <2>2, SortedIsSorted
  <2>4. reply = Sorted(order, zset)
    <3>1. PICK l : l = Sorted(order, zset)
      OBVIOUS
    <3>2. l \in Seq(DOMAIN zset) /\ Len(l) \in Nat
      BY <2>3, <3>1 DEF SortedOver
    <3>3. CASE Len(l) = 0
      <4>1. l = <<>> /\ Slice(l, 0, -1) = <<>>
        BY <3>2, <3>3 DEF Slice, ClampStart, ClampStop
      <4>2. QED
        BY <2>1, <3>1, <4>1
    <3>4. CASE Len(l) > 0
      <4>1. Slice(l, 0, -1) = SubSeq(l, 1, Len(l))
        BY <3>2, <3>4 DEF Slice, ClampStart, ClampStop
      <4>2. SubSeq(l, 1, Len(l)) = l
        BY <3>2
      <4>3. QED
        BY <2>1, <3>1, <4>1, <4>2
    <3>5. QED
      BY <3>2, <3>3, <3>4
  <2>5. QED
    BY <2>3, <2>4 DEF zset
<1>5. QED
  BY <1>3, <1>4

-----------------------------------------------------------------------------
(* The store a log stands for, line by line.                               *)

(* The fold of Replayed, as the table of the stores for each set of lines; *)
(* that there is one is shown by induction.                                *)
IsRunTable(h, n, lines, t) ==
  h = [s \in SUBSET (1 .. n) |->
         IF s = {} THEN EmptyStore ELSE Execute(h[s \ {Max(s)}], lines[Max(s)], t)]

LEMMA RunTableGrows ==
  ASSUME NEW lines, NEW t, NEW m \in Nat, NEW h, IsRunTable(h, m, lines, t)
  PROVE  \E g : IsRunTable(g, m + 1, lines, t)
<1> DEFINE g == [s \in SUBSET (1 .. m + 1) |->
                   IF m + 1 \in s THEN Execute(h[s \ {m + 1}], lines[m + 1], t) ELSE h[s]]
<1>1. ASSUME NEW s \in SUBSET (1 .. m + 1)
      PROVE  g[s] = IF s = {} THEN EmptyStore
                    ELSE Execute(g[s \ {Max(s)}], lines[Max(s)], t)
  <2>1. CASE m + 1 \in s
    <3>1. m + 1 \in Nat /\ s # {}
      BY <2>1
    <3>2. Max(s) \in 1 .. m + 1 /\ Max(s) >= m + 1
      BY <2>1, <3>1, MaxOf
    <3>3. Max(s) = m + 1
      BY <3>2
    <3>4. s \ {m + 1} \in SUBSET (1 .. m)
      OBVIOUS
    <3>5. g[s \ {m + 1}] = h[s \ {m + 1}]
      BY <3>4
    <3>6. QED
      BY <2>1, <3>3, <3>5
  <2>2. CASE m + 1 \notin s
    <3>1. s \in SUBSET (1 .. m) /\ g[s] = h[s]
      BY <2>2
    <3>2. CASE s = {}
      BY <3>1, <3>2 DEF IsRunTable
    <3>3. CASE s # {}
      <4>1. Max(s) \in s
        BY <3>1, <3>3, MaxOf
      <4>2. g[s \ {Max(s)}] = h[s \ {Max(s)}]
        BY <2>2, <3>1
      <4>3. h[s] = Execute(h[s \ {Max(s)}], lines[Max(s)], t)
        BY <3>1, <3>3 DEF IsRunTable
      <4>4. QED
        BY <3>1, <3>3, <4>2, <4>3
    <3>4. QED
      BY <3>2, <3>3
  <2>3. QED
    BY <2>1, <2>2
<1>2. g = [s \in SUBSET (1 .. m + 1) |-> g[s]]
  OBVIOUS
<1> HIDE DEF g
<1>3. IsRunTable(g, m + 1, lines, t)
  BY <1>1, <1>2 DEF IsRunTable
<1>4. QED
  BY <1>3

LEMMA RunTableExists ==
  ASSUME NEW lines, NEW t, NEW n \in Nat
  PROVE  \E h : IsRunTable(h, n, lines, t)
<1> DEFINE N == {m \in Nat : \E h : IsRunTable(h, m, lines, t)}
<1>1. 0 \in N
  <2> DEFINE h == [s \in SUBSET (1 .. 0) |-> EmptyStore]
  <2>1. \A s \in SUBSET (1 .. 0) : s = {}
    OBVIOUS
  <2>2. IsRunTable(h, 0, lines, t)
    BY <2>1 DEF IsRunTable
  <2>3. QED
    BY <2>2
<1>2. \A m \in N : m + 1 \in N
  BY RunTableGrows
<1>3. N \in SUBSET Nat
  OBVIOUS
<1>4. n \in N
  <2> HIDE DEF N
  <2>1. QED
    BY <1>1, <1>2, <1>3, NatSets
<1>5. QED
  BY <1>4

(* g has the store after each number of lines.                             *)
IsRun(g, lines, t) ==
  /\ g[0] = EmptyStore
  /\ \A i \in 1 .. Len(lines) : g[i] = Execute(g[i - 1], lines[i], t)

LEMMA ReplayedRuns ==
  ASSUME NEW S, NEW lines \in Seq(S), NEW t
  PROVE  \E g : IsRun(g, lines, t) /\ Replayed(lines, t) = g[Len(lines)]
<1> DEFINE n == Len(lines)
           iter == CHOOSE h : IsRunTable(h, n, lines, t)
<1>0. n \in Nat /\ DOMAIN lines = 1 .. n
  OBVIOUS
<1>1. IsRunTable(iter, n, lines, t)
  BY <1>0, RunTableExists
<1>2. Replayed(lines, t) = iter[1 .. n]
  BY <1>0 DEF Replayed, FoldLeft, MapThenFoldSet, IsRunTable
<1> HIDE DEF iter, n
<1> DEFINE g == [i \in 0 .. n |-> iter[1 .. i]]
<1>3. g[0] = EmptyStore
  <2>1. 1 .. 0 = {} /\ 1 .. 0 \in SUBSET (1 .. n)
    OBVIOUS
  <2>2. QED
    BY <1>0, <1>1, <2>1 DEF IsRunTable
<1>4. ASSUME NEW i \in 1 .. n PROVE g[i] = Execute(g[i - 1], lines[i], t)
  <2>1. 1 .. i \in SUBSET (1 .. n) /\ 1 .. i # {} /\ i \in Nat
    BY <1>0
  <2>2. Max(1 .. i) = i
    <3>1. Max(1 .. i) \in 1 .. i /\ \A y \in 1 .. i : Max(1 .. i) >= y
      BY <2>1, MaxOf
    <3>2. QED
      BY <3>1
  <2>3. (1 .. i) \ {i} = 1 .. i - 1
    BY <2>1
  <2>4. iter[1 .. i] = Execute(iter[1 .. i - 1], lines[i], t)
    BY <1>1, <2>1, <2>2, <2>3 DEF IsRunTable
  <2>5. QED
    BY <1>0, <2>4
<1>5. g[n] = Replayed(lines, t)
  BY <1>0, <1>2
<1> HIDE DEF g
<1>6. QED
  BY <1>3, <1>4, <1>5 DEF n, IsRun

(* A log that begins like another runs like it.                            *)
LEMMA RunsAgree ==
  ASSUME NEW n \in Nat, NEW lines, n = Len(lines), NEW more, Len(more) \in Nat, n <= Len(more),
         \A i \in 1 .. n : more[i] = lines[i],
         NEW t, NEW g, IsRun(g, lines, t), NEW h, IsRun(h, more, t)
  PROVE  h[n] = g[n]
<1> DEFINE N == {i \in Nat : i <= n => h[i] = g[i]}
<1>1. 0 \in N
  BY DEF IsRun
<1>2. ASSUME NEW i \in N PROVE i + 1 \in N
  <2> SUFFICES ASSUME i + 1 <= n PROVE h[i + 1] = g[i + 1]
    OBVIOUS
  <2>1. i + 1 \in 1 .. n /\ i + 1 \in 1 .. Len(more) /\ (i + 1) - 1 = i /\ h[i] = g[i]
    OBVIOUS
  <2>2. g[i + 1] = Execute(g[i], lines[i + 1], t) /\ h[i + 1] = Execute(h[i], more[i + 1], t)
    <3>1. g[i + 1] = Execute(g[(i + 1) - 1], lines[i + 1], t)
      BY <2>1 DEF IsRun
    <3>2. h[i + 1] = Execute(h[(i + 1) - 1], more[i + 1], t)
      BY <2>1 DEF IsRun
    <3>3. QED
      BY <2>1, <3>1, <3>2
  <2>3. QED
    BY <2>1, <2>2
<1>3. n \in N
  <2>1. N \in SUBSET Nat
    OBVIOUS
  <2> HIDE DEF N
  <2>2. QED
    BY <1>1, <1>2, <2>1, NatSets
<1>4. QED
  BY <1>3

(* The store of a log with one more line.                                  *)
LEMMA NothingReplayed ==
  ASSUME NEW t
  PROVE  Replayed(<<>>, t) = EmptyStore
<1>1. <<>> \in Seq({}) /\ Len(<<>>) = 0
  OBVIOUS
<1>2. PICK g : IsRun(g, <<>>, t) /\ Replayed(<<>>, t) = g[Len(<<>>)]
  BY <1>1, ReplayedRuns
<1>3. QED
  BY <1>1, <1>2 DEF IsRun

LEMMA LineReplayed ==
  ASSUME NEW S, NEW f \in Seq(S), NEW l \in S, NEW t
  PROVE  Replayed(Append(f, l), t) = Execute(Replayed(f, t), l, t)
<1> DEFINE n == Len(f)
           more == Append(f, l)
<1>1. /\ n \in Nat /\ more \in Seq(S) /\ Len(more) = n + 1
      /\ \A i \in 1 .. n : more[i] = f[i]
      /\ more[n + 1] = l
  OBVIOUS
<1>2. PICK g : IsRun(g, f, t) /\ Replayed(f, t) = g[n]
  BY ReplayedRuns
<1>3. PICK h : IsRun(h, more, t) /\ Replayed(more, t) = h[n + 1]
  BY <1>1, ReplayedRuns
<1> HIDE DEF n, more
<1>4. h[n] = g[n]
  <2>1. n = Len(f) /\ Len(more) \in Nat /\ n <= Len(more)
    BY <1>1 DEF n
  <2>2. QED
    BY <1>1, <1>2, <1>3, <2>1, RunsAgree
<1>5. h[n + 1] = Execute(h[n], more[n + 1], t)
  <2>1. n + 1 \in 1 .. Len(more) /\ (n + 1) - 1 = n
    BY <1>1
  <2>2. h[n + 1] = Execute(h[(n + 1) - 1], more[n + 1], t)
    BY <1>3, <2>1 DEF IsRun
  <2>3. QED
    BY <2>1, <2>2
<1>6. QED
  BY <1>1, <1>2, <1>3, <1>4, <1>5 DEF more

=============================================================================
