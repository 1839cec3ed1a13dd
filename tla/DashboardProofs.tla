-------------------------- MODULE DashboardProofs --------------------------
(***************************************************************************)
(* Proofs about Dashboard, for every number of keys, rows, requests in     *)
(* flight, clicks and time-outs: an id means the key the user saw until a  *)
(* new list arrives, and a late value leaves alone what was typed into a   *)
(* modal that keeps its item.                                              *)
(***************************************************************************)
EXTENDS Dashboard, SequenceTheorems, FiniteSetTheorems, TLAPS

Slot    == 1 .. Slots
Flights == [Slot -> Request \cup {NoRequest}]

-----------------------------------------------------------------------------
(* The inductive invariant, as predicates of values, so that one step may  *)
(* be taken apart into changes of rows, of the modal and of one request.   *)

UniqueIds(rs) == \A i, j \in DOMAIN rs : rs[i].id = rs[j].id => i = j

(* Rows with this id have this key.                                        *)
Means(id, key, rs) == \A i \in DOMAIN rs : rs[i].id = id => rs[i].key = key

IsAction(r) == Busy(r) /\ r.kind \in {"delete", "set"}
Waits(r)    == Busy(r) /\ r.kind = "value" /\ r.awaited

(* A request carries an answer of its kind; an action that is not outdated *)
(* has the key the user saw, and so has the row it will change.            *)
RequestSound(r, rs) ==
  /\ Busy(r) /\ r.kind = "keys" => r.answer \in Seq(Key) \cup {NoAnswer}
  /\ Busy(r) /\ r.kind = "value" => r.key \in Key /\ r.answer \in Text \cup {NoAnswer}
  /\ IsAction(r) /\ ~r.outdated => r.key = r.shown /\ Means(r.id, r.shown, rs)

ModalSound(m, rs) == m # NoModal /\ ~m.outdated => Means(m.item.id, m.item.key, rs)

(* A modal that loads waits for a request; as long as it keeps its item,   *)
(* for one only, and nothing has been typed into it meanwhile.             *)
Waited(f, m) ==
  /\ \A s \in Slot : Waits(f[s]) => m # NoModal /\ (m.moved \/ (m.loading /\ ~m.typed))
  /\ \A s, t \in Slot : Waits(f[s]) /\ Waits(f[t]) => s = t \/ m.moved
  /\ m # NoModal /\ m.loading => \E s \in Slot : Waits(f[s])

Sound(f, rs, m) ==
  /\ f \in Flights
  /\ rs \in Seq(Row) /\ UniqueIds(rs)
  /\ m \in Modal \cup {NoModal}
  /\ \A s \in Slot : RequestSound(f[s], rs)
  /\ ModalSound(m, rs)
  /\ Waited(f, m)

Rest ==
  /\ store \in [Key -> Text \cup {Absent}]
  /\ page \in {"keys", "other"}
  /\ clicks \in 0 .. MaxClicks /\ writes \in 0 .. MaxWrites /\ lost \in 0 .. MaxLost

IInv == Rest /\ Sound(flight, rows, modal)

-----------------------------------------------------------------------------
(* Texts, slots and rows.                                                  *)

LEMMA Bounds ==
  /\ MaxWords \in Nat /\ Slots \in Nat /\ MaxClicks \in Nat /\ MaxWrites \in Nat /\ MaxLost \in Nat
  /\ NoRequest \notin Request /\ NoModal \notin Modal
BY DashboardAssumption

LEMMA TextIsSeq == \A text \in Text : text \in Seq(Word) /\ Len(text) <= MaxWords
BY Bounds DEF Text, BoundedSeq, SeqOf

LEMMA ShortSeqIsText == \A text \in Seq(Word) : Len(text) <= MaxWords => text \in Text
<1>1. SUFFICES ASSUME NEW text \in Seq(Word), Len(text) <= MaxWords PROVE text \in Text
  OBVIOUS
<1>2. Len(text) \in 0 .. MaxWords /\ text \in [1 .. Len(text) -> Word]
  BY <1>1, LenProperties, Bounds
<1>3. QED
  BY <1>2 DEF Text, BoundedSeq, SeqOf

LEMMA EmptyIsText == <<>> \in Text
<1> DEFINE empty == <<>>
<1>1. empty \in Seq(Word) /\ Len(empty) <= MaxWords
  BY EmptySeq, Bounds
<1> HIDE DEF empty
<1>2. empty \in Text
  BY <1>1, ShortSeqIsText
<1>3. QED
  BY <1>2 DEF empty

(* SET takes the first word.                                               *)
LEMMA FirstWordIsText ==
  ASSUME NEW text \in Text, text # <<>>
  PROVE  <<Head(text)>> \in Text
<1>1. text \in Seq(Word) /\ Len(text) <= MaxWords
  BY TextIsSeq
<1>2. Head(text) \in Word /\ Len(text) \in Nat \ {0}
  BY <1>1, HeadTailProperties, EmptySeq
<1> DEFINE first == <<Head(text)>>
<1>3. first \in Seq(Word) /\ Len(first) = 1
  BY <1>2
<1> HIDE DEF first
<1>4. first \in Text
  BY <1>1, <1>2, <1>3, ShortSeqIsText, Bounds
<1>5. QED
  BY <1>4 DEF first

LEMMA PresentOrders ==
  ASSUME NEW order \in SetToSeqs(Present)
  PROVE  order \in Seq(Key)
<1>1. IsFiniteSet(Key) /\ Present \in SUBSET Key
  BY DashboardAssumption DEF Present
<1>2. Cardinality(Present) \in Nat
  BY <1>1, FS_Subset, FS_CardinalityType
<1>3. order \in [1 .. Cardinality(Present) -> Key]
  BY <1>1 DEF SetToSeqs
<1>4. QED
  BY <1>2, <1>3

(* The rows of a new list are numbered from one.                           *)
LEMMA NumberedRows ==
  ASSUME NEW keys \in Seq(Key)
  PROVE  Numbered(keys) \in Seq(Row) /\ UniqueIds(Numbered(keys))
<1>1. Len(keys) \in Nat /\ DOMAIN keys = 1 .. Len(keys)
  BY LenProperties
<1>2. \A i \in 1 .. Len(keys) : [id |-> i, key |-> keys[i], value |-> <<>>] \in Row
  BY EmptyIsText DEF Row
<1>3. Numbered(keys) \in [1 .. Len(keys) -> Row]
  BY <1>1, <1>2 DEF Numbered
<1>4. \A i \in DOMAIN Numbered(keys) : Numbered(keys)[i].id = i
  BY <1>1 DEF Numbered
<1>5. QED
  BY <1>1, <1>3, <1>4 DEF UniqueIds

(* Every row of rs is there before, with its id and its key.               *)
Within(rs, old) ==
  \A i \in DOMAIN rs : \E j \in DOMAIN old : rs[i].id = old[j].id /\ rs[i].key = old[j].key

LEMMA MeansWithin ==
  ASSUME NEW id, NEW key, NEW rs, NEW old, Within(rs, old), Means(id, key, old)
  PROVE  Means(id, key, rs)
BY DEF Within, Means

(* filter takes nothing but the row with the id.                           *)
LEMMA WithoutRows ==
  ASSUME NEW id, rows \in Seq(Row), UniqueIds(rows)
  PROVE  /\ Without(id) \in Seq(Row) /\ UniqueIds(Without(id))
         /\ Within(Without(id), rows)
<1>1. CASE ~ \E i \in DOMAIN rows : rows[i].id = id
  BY <1>1 DEF Without, Within
<1>2. CASE \E i \in DOMAIN rows : rows[i].id = id
  <2> DEFINE k == CHOOSE i \in DOMAIN rows : rows[i].id = id
             a == SubSeq(rows, 1, k - 1)
             b == SubSeq(rows, k + 1, Len(rows))
             n == Len(rows)
  <2>1. n \in Nat /\ DOMAIN rows = 1 .. n /\ k \in 1 .. n
    BY <1>2, LenProperties
  <2>2. Without(id) = a \o b
    BY <1>2 DEF Without, RemoveAt
  <2> HIDE DEF k
  <2>3. a \in Seq(Row) /\ Len(a) = k - 1 /\ \A i \in 1 .. k - 1 : a[i] = rows[i]
    <3>1. \A i \in 1 .. k - 1 : rows[i] \in Row
      BY <2>1
    <3>2. QED
      BY <2>1, <3>1, SubSeqProperties
  <2>4. b \in Seq(Row) /\ Len(b) = n - k /\ \A i \in 1 .. n - k : b[i] = rows[k + i]
    <3>1. \A i \in k + 1 .. n : rows[i] \in Row
      BY <2>1
    <3>2. /\ b \in Seq(Row)
          /\ Len(b) = IF k + 1 <= n THEN n - (k + 1) + 1 ELSE 0
          /\ \A i \in 1 .. n - (k + 1) + 1 : b[i] = rows[k + 1 + i - 1]
      BY <2>1, <3>1, SubSeqProperties
    <3> HIDE DEF b, n
    <3>3. n - (k + 1) + 1 = n - k /\ \A i \in 1 .. n - k : k + 1 + i - 1 = k + i
      BY <2>1
    <3>4. QED
      BY <2>1, <3>2, <3>3
  <2> DEFINE c == a \o b
  <2> HIDE DEF a, b, n
  <2>5. /\ c \in Seq(Row) /\ Len(c) = n - 1
        /\ \A i \in 1 .. n - 1 : c[i] = IF i < k THEN rows[i] ELSE rows[i + 1]
    <3>1. /\ c \in Seq(Row) /\ Len(c) = Len(a) + Len(b)
          /\ \A i \in 1 .. Len(a) + Len(b) : c[i] = IF i <= Len(a) THEN a[i] ELSE b[i - Len(a)]
      BY <2>3, <2>4, ConcatProperties
    <3>2. QED
      BY <2>1, <2>3, <2>4, <3>1
  <2> HIDE DEF c
  <2>6. DOMAIN c = 1 .. n - 1
    BY <2>5
  <2>7. Within(c, rows)
    <3>1. SUFFICES ASSUME NEW i \in 1 .. n - 1
          PROVE  \E j \in 1 .. n : c[i].id = rows[j].id /\ c[i].key = rows[j].key
      BY <2>1, <2>6 DEF Within
    <3>2. (IF i < k THEN i ELSE i + 1) \in 1 .. n
      BY <2>1
    <3>3. c[i] = rows[IF i < k THEN i ELSE i + 1]
      BY <2>5
    <3>4. QED
      BY <3>2, <3>3
  <2>8. UniqueIds(c)
    <3>1. SUFFICES ASSUME NEW i \in 1 .. n - 1, NEW j \in 1 .. n - 1, c[i].id = c[j].id
          PROVE  i = j
      BY <2>6 DEF UniqueIds
    <3>2. /\ (IF i < k THEN i ELSE i + 1) \in 1 .. n
          /\ (IF j < k THEN j ELSE j + 1) \in 1 .. n
      BY <2>1
    <3>3. rows[IF i < k THEN i ELSE i + 1].id = rows[IF j < k THEN j ELSE j + 1].id
      BY <2>5, <3>1
    <3>4. (IF i < k THEN i ELSE i + 1) = (IF j < k THEN j ELSE j + 1)
      BY <2>1, <3>2, <3>3 DEF UniqueIds
    <3>5. QED
      BY <2>1, <3>4
  <2>9. QED
    BY <2>2, <2>5, <2>7, <2>8 DEF c
<1>3. QED
  BY <1>1, <1>2

(* map changes the text of a row only.                                     *)
LEMMA EditedRows ==
  ASSUME NEW id, NEW text \in Text, rows \in Seq(Row), UniqueIds(rows)
  PROVE  /\ Edited(id, text) \in Seq(Row) /\ UniqueIds(Edited(id, text))
         /\ Within(Edited(id, text), rows)
<1>1. Len(rows) \in Nat /\ DOMAIN rows = 1 .. Len(rows) /\ \A i \in 1 .. Len(rows) : rows[i] \in Row
  BY LenProperties
<1>2. DOMAIN Edited(id, text) = 1 .. Len(rows)
  BY <1>1 DEF Edited
<1>3. \A i \in 1 .. Len(rows) :
        /\ Edited(id, text)[i] \in Row
        /\ Edited(id, text)[i].id = rows[i].id /\ Edited(id, text)[i].key = rows[i].key
  BY <1>1 DEF Edited, Row
<1>4. Edited(id, text) \in [1 .. Len(rows) -> Row]
  BY <1>1, <1>2, <1>3 DEF Edited
<1>5. QED
  BY <1>1, <1>2, <1>3, <1>4 DEF UniqueIds, Within

-----------------------------------------------------------------------------
(* What keeps the three parts in step.                                     *)

(* One request takes another state, but is waited for as before.           *)
LEMMA PutKeepsSound ==
  ASSUME NEW f, NEW rs, NEW m, Sound(f, rs, m),
         NEW s \in Slot, NEW r \in Request \cup {NoRequest},
         RequestSound(r, rs), Waits(r) <=> Waits(f[s])
  PROVE  Sound([f EXCEPT ![s] = r], rs, m)
<1> DEFINE g == [f EXCEPT ![s] = r]
<1>1. g \in Flights /\ g[s] = r /\ \A t \in Slot : t # s => g[t] = f[t]
  BY DEF Sound, Flights
<1>2. \A t \in Slot : Waits(g[t]) <=> Waits(f[t])
  BY <1>1
<1>3. \A t \in Slot : RequestSound(g[t], rs)
  BY <1>1 DEF Sound
<1> HIDE DEF g
<1>4. Waited(g, m)
  BY <1>2 DEF Sound, Waited
<1>5. QED
  BY <1>1, <1>3, <1>4 DEF Sound, g

(* Rows may go, and get other texts.                                       *)
LEMMA FewerRowsKeepSound ==
  ASSUME NEW f, NEW rs, NEW m, Sound(f, rs, m),
         NEW new \in Seq(Row), UniqueIds(new), Within(new, rs)
  PROVE  Sound(f, new, m)
<1>1. \A s \in Slot : RequestSound(f[s], new)
  BY MeansWithin DEF Sound, RequestSound
<1>2. ModalSound(m, new)
  BY MeansWithin DEF Sound, ModalSound
<1>3. QED
  BY <1>1, <1>2 DEF Sound

LEMMA UnmountedIsSound ==
  ASSUME Sound(flight, rows, modal)
  PROVE  Sound(Unmounted, rows, NoModal)
<1>1. \A s \in Slot :
        /\ Unmounted[s] = IF ~Busy(flight[s]) \/ flight[s].kind # "value" THEN flight[s]
                          ELSE IF flight[s].stage = "done" THEN NoRequest
                          ELSE [flight[s] EXCEPT !.awaited = FALSE]
        /\ flight[s] \in Request \cup {NoRequest}
  BY DEF Unmounted, Slot, Sound, Flights
<1>2. Unmounted \in Flights
  <2>1. \A s \in Slot : Unmounted[s] \in Request \cup {NoRequest}
    BY <1>1 DEF Busy, Request
  <2>2. QED
    BY <2>1 DEF Unmounted, Slot, Flights
<1>3. \A s \in Slot : RequestSound(Unmounted[s], rows) /\ ~Waits(Unmounted[s])
  <2>1. SUFFICES ASSUME NEW s \in Slot
        PROVE  RequestSound(Unmounted[s], rows) /\ ~Waits(Unmounted[s])
    OBVIOUS
  <2>2. RequestSound(flight[s], rows)
    BY DEF Sound
  <2>3. CASE ~Busy(flight[s]) \/ flight[s].kind # "value"
    BY <1>1, <2>2, <2>3 DEF Waits, Busy
  <2>4. CASE Busy(flight[s]) /\ flight[s].kind = "value" /\ flight[s].stage = "done"
    BY <1>1, <2>4 DEF Waits, Busy, RequestSound, IsAction
  <2>5. CASE Busy(flight[s]) /\ flight[s].kind = "value" /\ flight[s].stage # "done"
    <3>1. /\ Unmounted[s].kind = "value" /\ ~Unmounted[s].awaited
          /\ Unmounted[s].answer = flight[s].answer /\ Unmounted[s].key = flight[s].key
      BY <1>1, <2>5 DEF Busy, Request
    <3>2. QED
      BY <2>2, <2>5, <3>1 DEF Waits, RequestSound, IsAction
  <2>6. QED
    BY <2>3, <2>4, <2>5
<1>4. QED
  BY <1>2, <1>3 DEF Sound, Waited, ModalSound

(* A new request that is no value.                                         *)
LEMMA SentKeepsSound ==
  ASSUME NEW f, NEW rs, NEW m, Sound(f, rs, m), FreeIn(f) # {},
         NEW kind \in {"keys", "delete", "set"}, NEW key \in Key \cup {Absent},
         NEW text \in Text, NEW id \in Nat, NEW shown \in Key \cup {Absent},
         NEW outdated \in BOOLEAN,
         kind # "keys" /\ ~outdated => key = shown /\ Means(id, shown, rs)
  PROVE  Sound(Sent(f, kind, key, text, id, shown, outdated), rs, m)
<1> DEFINE s == CHOOSE t \in FreeIn(f) : TRUE
           r == [kind |-> kind, key |-> key, text |-> text, id |-> id, shown |-> shown,
                 outdated |-> outdated, stage |-> "sent", awaited |-> TRUE, answer |-> NoAnswer]
<1>1. s \in Slot /\ ~Busy(f[s])
  BY DEF FreeIn, Slot
<1>2. r \in Request \cup {NoRequest}
  BY DEF Request
<1>3. Sent(f, kind, key, text, id, shown, outdated) = [f EXCEPT ![s] = r]
  BY DEF Sent
<1>4. /\ r.kind = kind /\ r.answer = NoAnswer /\ r.outdated = outdated
      /\ r.key = key /\ r.shown = shown /\ r.id = id
  OBVIOUS
<1> HIDE DEF s, r
<1>5. RequestSound(r, rs)
  BY <1>4 DEF RequestSound, IsAction
<1>6. Waits(r) <=> Waits(f[s])
  BY <1>1, <1>4 DEF Waits
<1>7. s \in Slot
  BY <1>1
<1>8. Sound([f EXCEPT ![s] = r], rs, m)
  BY <1>2, <1>5, <1>6, <1>7, PutKeepsSound, Zenon
<1>9. QED
  BY <1>3, <1>8, Zenon

(* The server answers: whoever waits goes on waiting for the browser.      *)
LEMMA ReplyKeepsSound ==
  ASSUME Sound(flight, rows, modal), NEW s \in Slot, Busy(flight[s]),
         NEW answer \in Text \cup Seq(Key) \cup {NoAnswer},
         flight[s].kind = "keys" => answer \in Seq(Key) \cup {NoAnswer},
         flight[s].kind = "value" => answer \in Text \cup {NoAnswer},
         Replies(s, answer)
  PROVE  Sound(flight', rows', modal')
<1> DEFINE r == IF flight[s].awaited
                THEN [flight[s] EXCEPT !.stage = "done", !.answer = answer] ELSE NoRequest
<1>1. flight' = [flight EXCEPT ![s] = r] /\ rows' = rows /\ modal' = modal
  BY DEF Replies
<1>2. flight[s] \in Request /\ RequestSound(flight[s], rows)
  BY DEF Sound, Flights, Busy
<1>3. r \in Request \cup {NoRequest}
  BY <1>2 DEF Request
<1>4. RequestSound(r, rows) /\ (Waits(r) <=> Waits(flight[s]))
  <2>1. CASE flight[s].awaited
    <3>1. /\ r.kind = flight[s].kind /\ r.awaited /\ r.answer = answer /\ r.key = flight[s].key
          /\ r.shown = flight[s].shown /\ r.id = flight[s].id /\ r.outdated = flight[s].outdated
          /\ r \in Request
      BY <1>2, <2>1 DEF Request
    <3>2. Busy(r)
      BY <3>1, Bounds DEF Busy
    <3> HIDE DEF r
    <3>3. QED
      BY <1>2, <2>1, <3>1, <3>2 DEF RequestSound, Waits, IsAction
  <2>2. CASE ~flight[s].awaited
    BY <2>2 DEF RequestSound, Waits, IsAction, Busy
  <2>3. QED
    BY <2>1, <2>2
<1> HIDE DEF r
<1>5. QED
  BY <1>1, <1>3, <1>4, PutKeepsSound

(* What is left of a request its handler has done with: nothing, or one    *)
(* that nobody awaits.                                                     *)
Left(s) == {NoRequest, [flight[s] EXCEPT !.awaited = FALSE]}

LEMMA LeftIsSound ==
  ASSUME Sound(flight, rows, modal), NEW s \in Slot, Busy(flight[s]), NEW left \in Left(s)
  PROVE  /\ left \in Request \cup {NoRequest} /\ ~Waits(left)
         /\ \A rs : RequestSound(flight[s], rs) => RequestSound(left, rs)
         /\ Busy(left) => left.kind = flight[s].kind
<1>1. flight[s] \in Request
  BY DEF Sound, Flights, Busy
<1>2. CASE left = NoRequest
  BY <1>2 DEF Waits, RequestSound, IsAction, Busy
<1>3. CASE left = [flight[s] EXCEPT !.awaited = FALSE]
  <2>1. /\ left \in Request /\ left.kind = flight[s].kind /\ ~left.awaited
        /\ left.answer = flight[s].answer /\ left.key = flight[s].key
        /\ left.shown = flight[s].shown /\ left.id = flight[s].id
        /\ left.outdated = flight[s].outdated
    BY <1>1, <1>3 DEF Request
  <2>2. QED
    BY <2>1 DEF Waits, RequestSound, IsAction
<1>4. QED
  BY <1>2, <1>3 DEF Left

-----------------------------------------------------------------------------
(* The steps.                                                              *)

LEMMA InitIInv == Init => IInv
<1>1. SUFFICES ASSUME Init PROVE IInv
  OBVIOUS
<1>2. Rest
  BY <1>1, Bounds DEF Init, Rest
<1>3. flight \in Flights /\ \A s \in Slot : flight[s] = NoRequest
  BY <1>1 DEF Init, Flights, Slot
<1>4. rows \in Seq(Row) /\ UniqueIds(rows)
  BY <1>1, DashboardAssumption DEF Init, UniqueIds
<1>5. modal = NoModal
  BY <1>1 DEF Init
<1>6. QED
  BY <1>2, <1>3, <1>4, <1>5
     DEF IInv, Sound, RequestSound, IsAction, Busy, ModalSound, Waited, Waits

LEMMA PollKeepsSound == IInv /\ Poll => Sound(flight', rows', modal')
<1>1. SUFFICES ASSUME IInv, Poll PROVE Sound(flight', rows', modal')
  OBVIOUS
<1>2. /\ FreeIn(flight) # {} /\ rows' = rows /\ modal' = modal
      /\ flight' = Sent(flight, "keys", Absent, <<>>, 0, Absent, FALSE)
  BY <1>1 DEF Poll
<1>3. QED
  BY <1>1, <1>2, EmptyIsText, SentKeepsSound DEF IInv

LEMMA NavigateKeepsSound == IInv /\ Navigate => Sound(flight', rows', modal')
<1>1. SUFFICES ASSUME IInv, Navigate PROVE Sound(flight', rows', modal')
  OBVIOUS
<1>2. Sound(Unmounted, rows, NoModal) /\ modal' = NoModal /\ rows' = rows
  BY <1>1, UnmountedIsSound DEF IInv, Navigate
<1>3. \A s \in Slot :
        /\ Unmounted[s] \in Request \cup {NoRequest} /\ RequestSound(Unmounted[s], rows)
        /\ ~Waits(Unmounted[s])
        /\ flight'[s] = IF Busy(Unmounted[s]) /\ Unmounted[s].kind = "keys"
                        THEN [Unmounted[s] EXCEPT !.outdated = TRUE] ELSE Unmounted[s]
  BY <1>1, <1>2 DEF Navigate, Slot, Sound, Flights, Waited
<1>4. \A s \in Slot : /\ flight'[s] \in Request \cup {NoRequest}
                      /\ RequestSound(flight'[s], rows) /\ ~Waits(flight'[s])
  <2>1. SUFFICES ASSUME NEW s \in Slot
        PROVE  /\ flight'[s] \in Request \cup {NoRequest}
               /\ RequestSound(flight'[s], rows) /\ ~Waits(flight'[s])
    OBVIOUS
  <2>2. CASE Busy(Unmounted[s]) /\ Unmounted[s].kind = "keys"
    <3>1. /\ flight'[s] \in Request /\ flight'[s].kind = "keys"
          /\ flight'[s].answer = Unmounted[s].answer
      BY <1>3, <2>2 DEF Request, Busy
    <3>2. QED
      BY <1>3, <2>2, <3>1 DEF RequestSound, IsAction, Waits
  <2>3. CASE ~(Busy(Unmounted[s]) /\ Unmounted[s].kind = "keys")
    BY <1>3, <2>3
  <2>4. QED
    BY <2>2, <2>3
<1>5. flight' \in Flights
  BY <1>1, <1>4 DEF Navigate, Flights, Slot
<1>6. QED
  BY <1>2, <1>4, <1>5 DEF Sound, ModalSound, Waited

(* Ids are unique, so a row is the only one with its id.                   *)
LEMMA RowMeansItself ==
  ASSUME Sound(flight, rows, modal), NEW row \in Range(rows)
  PROVE  row \in Row /\ Means(row.id, row.key, rows)
<1>1. PICK i \in DOMAIN rows : row = rows[i]
  BY DEF Range
<1>2. QED
  BY <1>1, LenProperties DEF Sound, UniqueIds, Means

LEMMA ClickDeleteKeepsSound == IInv /\ ClickDelete => Sound(flight', rows', modal')
<1>1. SUFFICES ASSUME IInv, ClickDelete PROVE Sound(flight', rows', modal')
  OBVIOUS
<1>2. PICK row \in Range(rows) :
        flight' = Sent(flight, "delete", row.key, <<>>, row.id, row.key, FALSE)
  BY <1>1 DEF ClickDelete
<1>3. Sound(flight, rows, modal) /\ FreeIn(flight) # {} /\ rows' = rows /\ modal' = modal
  BY <1>1 DEF IInv, ClickDelete
<1>4. row.id \in Nat /\ row.key \in Key /\ Means(row.id, row.key, rows)
  BY <1>3, RowMeansItself DEF Row
<1>5. QED
  BY <1>2, <1>3, <1>4, EmptyIsText, SentKeepsSound

(* A new request for the value of a row: the modal loads.                  *)
LEMMA ValueSentKeepsSound ==
  ASSUME NEW f, NEW m \in Modal, NEW row \in Row,
         f \in Flights, \A s \in Slot : RequestSound(f[s], rows),
         rows \in Seq(Row), UniqueIds(rows), ModalSound(m, rows), FreeIn(f) # {},
         m.loading, m.moved \/ (~m.typed /\ \A s \in Slot : ~Waits(f[s]))
  PROVE  Sound(Sent(f, "value", row.key, <<>>, row.id, row.key, FALSE), rows, m)
<1> DEFINE s == CHOOSE t \in FreeIn(f) : TRUE
           r == [kind |-> "value", key |-> row.key, text |-> <<>>, id |-> row.id,
                 shown |-> row.key, outdated |-> FALSE, stage |-> "sent",
                 awaited |-> TRUE, answer |-> NoAnswer]
           g == [f EXCEPT ![s] = r]
<1>1. s \in Slot
  BY DEF FreeIn, Slot
<1>2. Sent(f, "value", row.key, <<>>, row.id, row.key, FALSE) = g
  BY DEF Sent
<1>3. r \in Request /\ r # NoRequest
  <2>1. row.key \in Key /\ row.id \in Nat
    BY DEF Row
  <2>2. r \in Request
    <3> DEFINE none == <<>>
    <3>1. none \in Text
      BY EmptyIsText
    <3> HIDE DEF none
    <3>2. [kind |-> "value", key |-> row.key, text |-> none, id |-> row.id,
           shown |-> row.key, outdated |-> FALSE, stage |-> "sent",
           awaited |-> TRUE, answer |-> NoAnswer] \in Request
      BY <2>1, <3>1 DEF Request
    <3>3. QED
      BY <3>2 DEF none
  <2>3. QED
    BY <2>2, Bounds
<1>4. r.kind = "value" /\ r.awaited /\ r.answer = NoAnswer /\ r.key \in Key
  BY DEF Row
<1> HIDE DEF s, r
<1>5. Waits(r) /\ RequestSound(r, rows)
  BY <1>3, <1>4 DEF Waits, Busy, RequestSound, IsAction
<1>6. g \in Flights /\ g[s] = r /\ \A t \in Slot : t # s => g[t] = f[t]
  BY <1>1, <1>3 DEF Flights
<1> HIDE DEF g
<1>7. \A t \in Slot : RequestSound(g[t], rows)
  BY <1>5, <1>6
<1>8. m # NoModal
  BY Bounds
<1>9. Waited(g, m)
  BY <1>1, <1>5, <1>6, <1>8 DEF Waited
<1>10. Sound(g, rows, m)
  BY <1>6, <1>7, <1>9 DEF Sound
<1>11. QED
  BY <1>2, <1>10

LEMMA OpenModalKeepsSound == IInv /\ OpenModal => Sound(flight', rows', modal')
<1>1. SUFFICES ASSUME IInv, OpenModal PROVE Sound(flight', rows', modal')
  OBVIOUS
<1>2. PICK row \in Range(rows) :
        /\ modal' = [item |-> row, val |-> row.value, loading |-> row.value = <<>>,
                     typed |-> FALSE, outdated |-> FALSE, moved |-> FALSE, from |-> row.key]
        /\ flight' = IF row.value = <<>>
                     THEN Sent(flight, "value", row.key, <<>>, row.id, row.key, FALSE)
                     ELSE flight
  BY <1>1 DEF OpenModal
<1>3. Sound(flight, rows, NoModal) /\ Sound(flight, rows, modal) /\ FreeIn(flight) # {} /\ rows' = rows
  BY <1>1 DEF IInv, OpenModal
<1>4. row \in Row /\ row.id \in Nat /\ row.key \in Key /\ row.value \in Text
      /\ Means(row.id, row.key, rows)
  BY <1>3, RowMeansItself DEF Row
<1>5. /\ modal' \in Modal /\ modal' # NoModal /\ modal'.item = row /\ ~modal'.typed
      /\ modal'.loading <=> row.value = <<>>
  <2>1. (row.value = <<>>) \in BOOLEAN
    OBVIOUS
  <2>2. modal' \in Modal
    BY <1>2, <1>4, <2>1, Zenon DEF Modal
  <2>3. modal'.item = row /\ modal'.typed = FALSE /\ modal'.loading = (row.value = <<>>)
    BY <1>2, Zenon
  <2>4. QED
    BY <2>2, <2>3, Bounds, Zenon
<1>6. ModalSound(modal', rows)
  BY <1>4, <1>5 DEF ModalSound
<1>7. \A s \in Slot : ~Waits(flight[s])
  BY <1>3 DEF Sound, Waited
<1>8. CASE row.value # <<>>
  <2>1. flight' = flight /\ ~modal'.loading
    BY <1>2, <1>5, <1>8
  <2>2. QED
    BY <1>3, <1>5, <1>6, <1>7, <2>1 DEF Sound, Waited
<1>9. CASE row.value = <<>>
  <2>1. flight' = Sent(flight, "value", row.key, <<>>, row.id, row.key, FALSE)
    BY <1>2, <1>9
  <2>2. modal'.loading
    BY <1>5, <1>9
  <2>3. flight \in Flights /\ rows \in Seq(Row) /\ UniqueIds(rows)
        /\ \A s \in Slot : RequestSound(flight[s], rows)
    BY <1>3 DEF Sound
  <2>4. Sound(Sent(flight, "value", row.key, <<>>, row.id, row.key, FALSE), rows, modal')
    BY <1>3, <1>4, <1>5, <1>6, <1>7, <2>2, <2>3, ValueSentKeepsSound
  <2>5. QED
    BY <1>3, <2>1, <2>4
<1>10. QED
  BY <1>8, <1>9

(* The new item is one of the rows of now; what is awaited stays awaited.  *)
LEMMA ChangeItemKeepsSound == IInv /\ ChangeItem => Sound(flight', rows', modal')
<1>1. SUFFICES ASSUME IInv, ChangeItem PROVE Sound(flight', rows', modal')
  OBVIOUS
<1> DEFINE Differs(row) == row.key # modal.item.key \/ row.value # modal.item.value
           Fetches(row) == Differs(row) /\ row.value = <<>>
<1>2. PICK row \in Range(rows) :
        /\ modal' = [modal EXCEPT !.item = row, !.loading = @ \/ Fetches(row),
                                  !.outdated = FALSE, !.moved = @ \/ Differs(row)]
        /\ flight' = IF Fetches(row)
                     THEN Sent(flight, "value", row.key, <<>>, row.id, row.key, FALSE)
                     ELSE flight
  BY <1>1 DEF ChangeItem
<1>3. /\ Sound(flight, rows, modal) /\ FreeIn(flight) # {} /\ rows' = rows
      /\ modal \in Modal /\ modal # NoModal
  BY <1>1 DEF IInv, ChangeItem, Sound
<1>4. row \in Row /\ Means(row.id, row.key, rows)
  BY <1>3, RowMeansItself
<1>5. Differs(row) \in BOOLEAN /\ Fetches(row) \in BOOLEAN /\ (Fetches(row) => Differs(row))
  OBVIOUS
<1> HIDE DEF Differs, Fetches
<1>6. /\ modal' \in Modal /\ modal'.item = row /\ modal'.typed = modal.typed
      /\ modal'.loading = (modal.loading \/ Fetches(row))
      /\ modal'.moved = (modal.moved \/ Differs(row))
  <2>1. (modal.loading \/ Fetches(row)) \in BOOLEAN /\ (modal.moved \/ Differs(row)) \in BOOLEAN
    BY <1>3, <1>5 DEF Modal
  <2> DEFINE loads == modal.loading \/ Fetches(row)
             moves == modal.moved \/ Differs(row)
  <2>2. modal' = [modal EXCEPT !.item = row, !.loading = loads,
                               !.outdated = FALSE, !.moved = moves]
    BY <1>2
  <2>3. loads \in BOOLEAN /\ moves \in BOOLEAN
    BY <2>1
  <2> HIDE DEF loads, moves
  <2>4. /\ modal' \in Modal /\ modal'.item = row /\ modal'.typed = modal.typed
        /\ modal'.loading = loads /\ modal'.moved = moves
    BY <1>3, <1>4, <2>2, <2>3 DEF Modal
  <2>5. QED
    BY <2>4 DEF loads, moves
<1>7. modal' # NoModal /\ ModalSound(modal', rows)
  BY <1>4, <1>6, Bounds DEF ModalSound
<1>8. CASE ~Fetches(row)
  <2>1. flight' = flight /\ (modal'.loading <=> modal.loading) /\ (modal.moved => modal'.moved)
    BY <1>2, <1>6, <1>8
  <2>2. Waited(flight, modal')
    BY <1>3, <1>6, <1>7, <2>1 DEF Sound, Waited
  <2>3. QED
    BY <1>3, <1>6, <1>7, <2>1, <2>2 DEF Sound
<1>9. CASE Fetches(row)
  <2>1. modal'.loading /\ modal'.moved
    BY <1>5, <1>6, <1>9
  <2>2. flight \in Flights /\ rows \in Seq(Row) /\ UniqueIds(rows)
        /\ \A s \in Slot : RequestSound(flight[s], rows)
    BY <1>3 DEF Sound
  <2>3. Sound(Sent(flight, "value", row.key, <<>>, row.id, row.key, FALSE), rows, modal')
    BY <1>3, <1>4, <1>6, <1>7, <2>1, <2>2, ValueSentKeepsSound
  <2>4. QED
    BY <1>2, <1>3, <1>9, <2>3
<1>10. QED
  BY <1>8, <1>9

LEMMA TypeKeepsSound == IInv /\ Type => Sound(flight', rows', modal')
<1>1. SUFFICES ASSUME IInv, Type PROVE Sound(flight', rows', modal')
  OBVIOUS
<1>2. PICK text \in Text : modal' = [modal EXCEPT !.val = text, !.typed = TRUE]
  BY <1>1 DEF Type
<1>3. /\ Sound(flight, rows, modal) /\ flight' = flight /\ rows' = rows
      /\ modal \in Modal /\ ~modal.loading
  BY <1>1 DEF IInv, Type, Sound
<1>4. /\ modal' \in Modal /\ modal'.item = modal.item /\ modal'.outdated = modal.outdated
      /\ modal'.loading = modal.loading /\ modal'.moved = modal.moved
  BY <1>2, <1>3 DEF Modal
<1>5. modal' # NoModal /\ modal # NoModal
  BY <1>3, <1>4, Bounds
<1>6. \A s \in Slot : Waits(flight[s]) => modal.moved
  BY <1>3 DEF Sound, Waited
<1>7. QED
  BY <1>3, <1>4, <1>5, <1>6 DEF Sound, ModalSound, Waited

LEMMA CloseKeepsSound == IInv /\ Close => Sound(flight', rows', modal')
BY UnmountedIsSound DEF IInv, Close

(* The modal's id means its title, unless a list has come since.           *)
LEMMA FromModalKeepsSound ==
  ASSUME IInv, modal # NoModal, FreeIn(Unmounted) # {},
         NEW kind \in {"delete", "set"}, NEW text \in Text, FromModal(kind, text)
  PROVE  Sound(flight', rows', modal')
<1> DEFINE found == {row \in Range(rows) : row.id = modal.item.id}
           Named == (CHOOSE row \in found : TRUE).key
<1>1. /\ flight' = IF found = {} THEN Unmounted
                   ELSE Sent(Unmounted, kind, Named, text, modal.item.id,
                             modal.item.key, modal.outdated)
      /\ modal' = NoModal /\ rows' = rows
  BY DEF FromModal
<1>2. Sound(flight, rows, modal) /\ Sound(Unmounted, rows, NoModal)
  BY UnmountedIsSound DEF IInv
<1>3. modal \in Modal
  BY <1>2 DEF Sound
<1>4. modal.item.id \in Nat /\ modal.item.key \in Key /\ modal.outdated \in BOOLEAN
  BY <1>3 DEF Modal, Row
<1>5. CASE found = {}
  BY <1>1, <1>2, <1>5
<1>6. CASE found # {}
  <2>1. PICK row \in Range(rows) : row.id = modal.item.id /\ row.key = Named
    BY <1>6
  <2>2. PICK i \in DOMAIN rows : row = rows[i]
    BY DEF Range
  <2>3. Named \in Key
    BY <1>2, <2>1, RowMeansItself DEF Row
  <2>4. ~modal.outdated => Named = modal.item.key /\ Means(modal.item.id, modal.item.key, rows)
    BY <1>2, <2>1, <2>2 DEF Sound, ModalSound, Means
  <2> HIDE DEF found, Named
  <2>5. Sound(Sent(Unmounted, kind, Named, text, modal.item.id, modal.item.key, modal.outdated),
              rows, NoModal)
    BY <1>2, <1>4, <2>3, <2>4, SentKeepsSound
  <2>6. QED
    BY <1>1, <1>6, <2>5
<1>7. QED
  BY <1>5, <1>6

LEMMA ModalActionsKeepSound ==
  IInv /\ (ModalDelete \/ ModalSave) => Sound(flight', rows', modal')
<1>1. SUFFICES ASSUME IInv, ModalDelete \/ ModalSave PROVE Sound(flight', rows', modal')
  OBVIOUS
<1>2. CASE ModalDelete
  BY <1>1, <1>2, EmptyIsText, FromModalKeepsSound DEF ModalDelete
<1>3. CASE ModalSave
  <2>1. modal # NoModal /\ FreeIn(Unmounted) # {} /\ FromModal("set", modal.val)
    BY <1>3 DEF ModalSave
  <2>2. modal.val \in Text
    BY <1>1, <2>1 DEF IInv, Sound, Modal
  <2>3. QED
    BY <1>1, <2>1, <2>2, FromModalKeepsSound
<1>4. QED
  BY <1>1, <1>2, <1>3

LEMMA ServeKeepsIInv ==
  ASSUME IInv, NEW s \in Slot, Serve(s)
  PROVE  IInv'
<1> USE DEF Replies
<1>1. Sound(flight, rows, modal) /\ Rest
  BY DEF IInv
<1>2. Busy(flight[s])
  BY DEF Serve, ServeKeys, ServeType, ServeValue, ServeDelete, ServeSet, At
<1>3. flight[s] \in Request
  BY <1>1, <1>2 DEF Sound, Flights, Busy
<1>4. store' \in [Key -> Text \cup {Absent}]
  <2>1. CASE ServeSet(s) /\ flight[s].text # <<>>
    <3>1. flight[s].text \in Text
      BY <1>3 DEF Request
    <3>2. <<Head(flight[s].text)>> \in Text
      BY <2>1, <3>1, FirstWordIsText
    <3>3. QED
      BY <1>1, <2>1, <3>2 DEF ServeSet, Rest
  <2>2. CASE ServeSet(s) /\ flight[s].text = <<>>
    BY <1>1, <2>2 DEF ServeSet, Rest
  <2>3. CASE ServeDelete(s)
    BY <1>1, <2>3 DEF ServeDelete, Rest
  <2>4. CASE ServeKeys(s) \/ ServeType(s) \/ ServeValue(s)
    BY <1>1, <2>4 DEF ServeKeys, ServeType, ServeValue, Rest
  <2>5. QED
    BY <2>1, <2>2, <2>3, <2>4 DEF Serve
<1>5. Rest'
  <2>1. UNCHANGED <<page, clicks, writes, lost>>
    BY DEF Serve, ServeKeys, ServeType, ServeValue, ServeDelete, ServeSet
  <2>2. QED
    BY <1>1, <1>4, <2>1 DEF Rest
<1>6. CASE ServeKeys(s)
  <2>1. PICK order \in SetToSeqs(Present) : Replies(s, order)
    BY <1>6 DEF ServeKeys
  <2>2. order \in Seq(Key) /\ flight[s].kind = "keys"
    BY <1>6, PresentOrders DEF ServeKeys, At
  <2>3. QED
    BY <1>1, <1>2, <1>5, <2>1, <2>2, ReplyKeepsSound DEF IInv
<1>7. CASE ServeType(s)
  <2>1. flight[s].kind = "value"
    BY <1>7 DEF ServeType, At
  <2>2. CASE flight[s].key \notin Present
    <3>1. Replies(s, NoAnswer)
      BY <1>7, <2>2 DEF ServeType
    <3>2. QED
      BY <1>1, <1>2, <1>5, <2>1, <3>1, ReplyKeepsSound DEF IInv
  <2>3. CASE flight[s].key \in Present
    <3> DEFINE r == [flight[s] EXCEPT !.stage = "typed"]
    <3>1. flight' = [flight EXCEPT ![s] = r] /\ rows' = rows /\ modal' = modal
      BY <1>7, <2>3 DEF ServeType
    <3>2. /\ r \in Request /\ r.kind = "value" /\ r.answer = flight[s].answer
          /\ r.awaited = flight[s].awaited /\ r.key = flight[s].key
      BY <1>3, <2>1 DEF Request
    <3>3. Busy(r)
      BY <3>2, Bounds DEF Busy
    <3> HIDE DEF r
    <3>4. RequestSound(r, rows)
      BY <1>1, <1>2, <2>1, <3>2 DEF Sound, RequestSound, IsAction
    <3>5. Waits(r) <=> Waits(flight[s])
      BY <1>2, <2>1, <3>2, <3>3 DEF Waits
    <3>6. Sound([flight EXCEPT ![s] = r], rows, modal)
      BY <1>1, <3>2, <3>4, <3>5, PutKeepsSound
    <3>7. QED
      BY <1>5, <3>1, <3>6 DEF IInv
  <2>4. QED
    BY <2>2, <2>3
<1>8. CASE ServeValue(s)
  <2> DEFINE answer == IF flight[s].key \in Present THEN store[flight[s].key] ELSE <<>>
  <2>1. flight[s].kind = "value" /\ Replies(s, answer)
    BY <1>8 DEF ServeValue, At
  <2>2. answer \in Text
    BY <1>1, EmptyIsText DEF Present, Rest
  <2> HIDE DEF answer
  <2>3. QED
    BY <1>1, <1>2, <1>5, <2>1, <2>2, ReplyKeepsSound DEF IInv
<1>9. CASE ServeDelete(s) \/ ServeSet(s)
  <2>1. flight[s].kind \in {"delete", "set"} /\ Replies(s, <<>>)
    BY <1>9 DEF ServeDelete, ServeSet, At
  <2>2. QED
    BY <1>1, <1>2, <1>5, <2>1, EmptyIsText, ReplyKeepsSound DEF IInv
<1>10. QED
  BY <1>6, <1>7, <1>8, <1>9 DEF Serve

(* A handler goes on after its await, with an answer of its kind.          *)
LEMMA ListArrivesKeepsSound ==
  ASSUME Sound(flight, rows, modal), NEW s \in Slot, Busy(flight[s]), NEW left \in Left(s),
         NEW answer \in Seq(Key) \cup {NoAnswer}, IsList(answer), KeysArrive(s, answer, left)
  PROVE  Sound(flight', rows', modal')
<1>1. answer \in Seq(Key) /\ flight[s].kind = "keys"
  BY DEF IsList, KeysArrive
<1>2. /\ rows' = Numbered(answer)
      /\ modal' = IF modal = NoModal THEN modal ELSE [modal EXCEPT !.outdated = TRUE]
      /\ flight' = [t \in Slot |-> IF t = s THEN left ELSE Outdate(flight[t])]
  BY DEF KeysArrive, Slot
<1>3. rows' \in Seq(Row) /\ UniqueIds(rows')
  BY <1>1, <1>2, NumberedRows
<1>4. \A t \in Slot : /\ flight'[t] \in Request \cup {NoRequest}
                      /\ RequestSound(flight'[t], rows')
                      /\ Waits(flight'[t]) <=> Waits(flight[t])
  <2>1. SUFFICES ASSUME NEW t \in Slot
        PROVE  /\ flight'[t] \in Request \cup {NoRequest}
               /\ RequestSound(flight'[t], rows')
               /\ Waits(flight'[t]) <=> Waits(flight[t])
    OBVIOUS
  <2>2. flight[t] \in Request \cup {NoRequest} /\ RequestSound(flight[t], rows)
    BY DEF Sound, Flights
  <2>3. CASE t = s
    <3>1. /\ left \in Request \cup {NoRequest} /\ ~Waits(left)
          /\ RequestSound(left, rows) /\ (Busy(left) => left.kind = "keys")
      BY <1>1, <2>2, <2>3, LeftIsSound
    <3>2. flight'[t] = left /\ ~Waits(flight[t])
      BY <1>1, <1>2, <2>3 DEF Waits
    <3>3. QED
      BY <3>1, <3>2 DEF RequestSound, IsAction
  <2>4. CASE t # s /\ IsAction(flight[t])
    <3>1. flight'[t] = [flight[t] EXCEPT !.outdated = TRUE] /\ flight[t] \in Request
      BY <1>2, <2>2, <2>4 DEF Outdate, IsAction, Busy
    <3>2. /\ flight'[t] \in Request /\ flight'[t].outdated = TRUE
          /\ flight'[t].kind = flight[t].kind
      BY <3>1 DEF Request
    <3>3. QED
      BY <2>4, <3>2 DEF RequestSound, IsAction, Waits
  <2>5. CASE t # s /\ ~IsAction(flight[t])
    <3>1. flight'[t] = flight[t]
      BY <1>2, <2>5 DEF Outdate, IsAction
    <3>2. QED
      BY <2>2, <2>5, <3>1 DEF RequestSound
  <2>6. QED
    BY <2>3, <2>4, <2>5
<1>5. flight' \in Flights
  BY <1>2, <1>4 DEF Flights
<1>6. CASE modal = NoModal
  <2>1. modal' = NoModal
    BY <1>2, <1>6
  <2>2. QED
    BY <1>3, <1>4, <1>5, <1>6, <2>1 DEF Sound, ModalSound, Waited
<1>7. CASE modal # NoModal
  <2>1. modal \in Modal /\ modal' = [modal EXCEPT !.outdated = TRUE]
    BY <1>2, <1>7 DEF Sound
  <2>2. /\ modal' \in Modal /\ modal'.outdated = TRUE
        /\ modal'.loading = modal.loading /\ modal'.typed = modal.typed
        /\ modal'.moved = modal.moved
    BY <2>1 DEF Modal
  <2>3. Waited(flight', modal')
    BY <1>4, <1>7, <2>2, Bounds DEF Sound, Waited
  <2>4. QED
    BY <1>3, <1>4, <1>5, <2>2, <2>3 DEF Sound, ModalSound
<1>8. QED
  BY <1>6, <1>7

LEMMA LeftKeepsSound ==
  ASSUME Sound(flight, rows, modal), NEW s \in Slot, Busy(flight[s]), ~Waits(flight[s]),
         NEW left \in Left(s)
  PROVE  Sound([flight EXCEPT ![s] = left], rows, modal)
<1>1. left \in Request \cup {NoRequest} /\ RequestSound(left, rows)
  BY LeftIsSound DEF Sound
<1>2. Waits(left) <=> Waits(flight[s])
  BY LeftIsSound
<1>3. QED
  BY <1>1, <1>2, PutKeepsSound

LEMMA ResumeKeepsSound ==
  ASSUME Sound(flight, rows, modal), NEW s \in Slot, Busy(flight[s]), flight[s].awaited,
         NEW left \in Left(s), NEW answer,
         flight[s].kind = "keys" => answer \in Seq(Key) \cup {NoAnswer},
         flight[s].kind = "value" => answer \in Text \cup {NoAnswer},
         Resume(s, answer, left)
  PROVE  Sound(flight', rows', modal')
<1>1. CASE KeysArrive(s, answer, left) /\ IsList(answer)
  BY <1>1, ListArrivesKeepsSound DEF KeysArrive
<1>2. CASE KeysArrive(s, answer, left) /\ ~IsList(answer)
  <2>1. /\ rows' = rows /\ modal' = modal /\ flight' = [flight EXCEPT ![s] = left]
        /\ ~Waits(flight[s])
    BY <1>2 DEF KeysArrive, Waits
  <2>2. QED
    BY <2>1, LeftKeepsSound
<1>3. CASE ValueArrives(s, answer, left)
  <2>1. /\ Waits(flight[s]) /\ answer \in Text \cup {NoAnswer}
        /\ flight' = [flight EXCEPT ![s] = left] /\ rows' = rows
    BY <1>3 DEF ValueArrives, Waits
  <2>2. modal # NoModal /\ modal \in Modal
    BY <2>1 DEF Sound, Waited
  <2>3. PICK text \in Text, key \in Key :
          modal' = [modal EXCEPT !.val = text, !.from = key, !.loading = FALSE]
    <3>1. modal.val \in Text /\ modal.from \in Key
      BY <2>2 DEF Modal
    <3>2. flight[s].key \in Key
      BY <2>1 DEF Waits, Sound, RequestSound
    <3> DEFINE text == IF answer = NoAnswer THEN modal.val ELSE answer
               key  == IF answer = NoAnswer THEN modal.from ELSE flight[s].key
    <3>3. modal' = [modal EXCEPT !.val = text, !.from = key, !.loading = FALSE]
      BY <1>3 DEF ValueArrives
    <3>4. text \in Text /\ key \in Key
      BY <2>1, <3>1, <3>2
    <3> HIDE DEF text, key
    <3>5. QED
      BY <3>3, <3>4
  <2>4. /\ modal' \in Modal /\ modal'.item = modal.item /\ modal'.outdated = modal.outdated
        /\ modal'.loading = FALSE /\ modal'.moved = modal.moved
    BY <2>2, <2>3 DEF Modal
  <2>5. /\ left \in Request \cup {NoRequest} /\ ~Waits(left) /\ RequestSound(left, rows)
    BY LeftIsSound DEF Sound
  <2>6. \A t \in Slot : /\ flight'[t] = IF t = s THEN left ELSE flight[t]
                        /\ Waits(flight'[t]) => modal.moved
    BY <2>1, <2>5 DEF Sound, Flights, Waited
  <2>7. flight' \in Flights /\ \A t \in Slot : RequestSound(flight'[t], rows)
    BY <2>1, <2>5, <2>6 DEF Sound, Flights
  <2>8. ModalSound(modal', rows)
    BY <2>2, <2>4 DEF Sound, ModalSound
  <2>9. modal' # NoModal
    BY <2>4, Bounds
  <2>10. \A t \in Slot : Waits(flight'[t]) => modal'.moved
    BY <2>4, <2>6
  <2>11. ~modal'.loading
    BY <2>4
  <2>12. Waited(flight', modal')
    BY <2>9, <2>10, <2>11 DEF Waited
  <2>13. modal' \in Modal \cup {NoModal}
    BY <2>4
  <2>14. rows' \in Seq(Row) /\ UniqueIds(rows')
    BY <2>1 DEF Sound
  <2>15. QED
    BY <2>1, <2>7, <2>8, <2>12, <2>13, <2>14 DEF Sound
<1>4. CASE ActionEnds(s, left)
  <2>1. /\ flight' = [flight EXCEPT ![s] = left] /\ modal' = modal /\ ~Waits(flight[s])
        /\ rows' = IF flight[s].kind = "delete" THEN Without(flight[s].id)
                   ELSE Edited(flight[s].id, flight[s].text)
    BY <1>4 DEF ActionEnds, Waits
  <2>2. Sound(flight', rows, modal)
    BY <2>1, LeftKeepsSound
  <2>3. flight[s].text \in Text /\ rows \in Seq(Row) /\ UniqueIds(rows)
    BY DEF Sound, Flights, Busy, Request
  <2>4. rows' \in Seq(Row) /\ UniqueIds(rows') /\ Within(rows', rows)
    BY <2>1, <2>3, WithoutRows, EditedRows
  <2>5. Sound(flight', rows', modal)
    BY <2>2, <2>4, FewerRowsKeepSound
  <2>6. QED
    BY <2>1, <2>5
<1>5. QED
  BY <1>1, <1>2, <1>3, <1>4 DEF Resume

LEMMA AnswerKeepsIInv ==
  ASSUME IInv, NEW s \in Slot, Answer(s)
  PROVE  IInv'
<1>1. /\ Sound(flight, rows, modal) /\ Busy(flight[s]) /\ flight[s].awaited
      /\ Resume(s, flight[s].answer, NoRequest)
  BY DEF IInv, Answer
<1>2. RequestSound(flight[s], rows) /\ NoRequest \in Left(s)
  BY <1>1 DEF Sound, Left
<1>3. Sound(flight', rows', modal')
  BY <1>1, <1>2, ResumeKeepsSound DEF RequestSound
<1>4. Rest'
  BY DEF IInv, Rest, Answer
<1>5. QED
  BY <1>3, <1>4 DEF IInv

LEMMA TimeOutKeepsIInv ==
  ASSUME IInv, NEW s \in Slot, TimeOut(s)
  PROVE  IInv'
<1> DEFINE left == IF flight[s].stage = "done" THEN NoRequest
                   ELSE [flight[s] EXCEPT !.awaited = FALSE]
<1>1. /\ Sound(flight, rows, modal) /\ Busy(flight[s]) /\ flight[s].awaited
      /\ Resume(s, NoAnswer, left)
  BY DEF IInv, TimeOut
<1>2. left \in Left(s)
  BY DEF Left
<1> HIDE DEF left
<1>3. Sound(flight', rows', modal')
  BY <1>1, <1>2, ResumeKeepsSound
<1>4. Rest'
  BY Bounds DEF IInv, Rest, TimeOut
<1>5. QED
  BY <1>3, <1>4 DEF IInv

LEMMA DropKeepsIInv ==
  ASSUME IInv, NEW s \in Slot, Drop(s)
  PROVE  IInv'
<1>1. /\ Sound(flight, rows, modal) /\ Busy(flight[s]) /\ ~flight[s].awaited
      /\ flight' = [flight EXCEPT ![s] = NoRequest] /\ rows' = rows /\ modal' = modal
  BY DEF IInv, Drop
<1>2. ~Waits(flight[s]) /\ NoRequest \in Left(s)
  BY <1>1 DEF Waits, Left
<1>3. Sound(flight', rows', modal')
  BY <1>1, <1>2, LeftKeepsSound
<1>4. Rest'
  BY DEF IInv, Rest, Drop
<1>5. QED
  BY <1>3, <1>4 DEF IInv

LEMMA NextIInv == IInv /\ [Next]_vars => IInv'
<1>1. SUFFICES ASSUME IInv, [Next]_vars PROVE IInv'
  OBVIOUS
<1>2. CASE Poll \/ User
  <2>1. Sound(flight', rows', modal')
    BY <1>1, <1>2, PollKeepsSound, NavigateKeepsSound, ClickDeleteKeepsSound, OpenModalKeepsSound,
       ChangeItemKeepsSound, TypeKeepsSound, CloseKeepsSound, ModalActionsKeepSound DEF User
  <2>2. UNCHANGED <<store, writes, lost>>
    BY <1>2 DEF Poll, User, Navigate, ClickDelete, OpenModal, ChangeItem, Type, Close, ModalDelete,
                ModalSave, FromModal
  <2>3. page' \in {"keys", "other"}
    BY <1>1, <1>2 DEF Poll, User, Navigate, ClickDelete, OpenModal, ChangeItem, Type, Close, ModalDelete,
                      ModalSave, FromModal, IInv, Rest
  <2>4. clicks' = clicks \/ (clicks < MaxClicks /\ clicks' = clicks + 1)
    BY <1>2 DEF Poll, User, Navigate, ClickDelete, OpenModal, ChangeItem, Type, Close, ModalDelete,
                ModalSave, FromModal, Click
  <2>5. Rest'
    BY <1>1, <2>2, <2>3, <2>4, Bounds DEF IInv, Rest
  <2>6. QED
    BY <2>1, <2>5 DEF IInv
<1>3. CASE OtherClient
  <2>1. Sound(flight', rows', modal')
    BY <1>1, <1>3 DEF OtherClient, IInv
  <2>2. Rest'
    BY <1>1, <1>3, Bounds DEF OtherClient, IInv, Rest
  <2>3. QED
    BY <2>1, <2>2 DEF IInv
<1>4. CASE \E s \in Slot : Serve(s) \/ Answer(s) \/ TimeOut(s) \/ Drop(s)
  BY <1>1, <1>4, ServeKeepsIInv, AnswerKeepsIInv, TimeOutKeepsIInv, DropKeepsIInv
<1>5. CASE UNCHANGED vars
  BY <1>1, <1>5 DEF vars, IInv, Rest
<1>6. QED
  BY <1>1, <1>2, <1>3, <1>4, <1>5 DEF Next, Slot

LEMMA SpecIInv == Spec => []IInv
BY InitIInv, NextIInv, PTL DEF Spec

-----------------------------------------------------------------------------
(* The theorems.                                                           *)

(* Every variable of the Keys page has its type; ids are unique, and a     *)
(* modal that loads has a request, so that it does not load for ever.      *)
THEOREM TypeCorrect == Spec => []TypeOK
<1>1. IInv => TypeOK
  <2>1. SUFFICES ASSUME IInv PROVE TypeOK
    OBVIOUS
  <2>2. modal # NoModal /\ modal.loading =>
          \E s \in 1 .. Slots : Busy(flight[s]) /\ flight[s].kind = "value" /\ flight[s].awaited
    BY <2>1 DEF IInv, Sound, Waited, Waits, Slot
  <2>3. QED
    BY <2>1, <2>2 DEF IInv, Rest, Sound, Flights, Slot, UniqueIds, TypeOK
<1>2. QED
  BY <1>1, SpecIInv, PTL

(* For any number of rows, requests, clicks and time-outs: as long as no   *)
(* new list arrives, an id that a modal or a handler holds on to means the *)
(* key the user saw.                                                       *)
THEOREM IdsMeanWhatWasSeen == Spec => []OnlyNewListsMislead
<1>1. IInv => OnlyNewListsMislead
  <2>1. SUFFICES ASSUME IInv PROVE OnlyNewListsMislead
    OBVIOUS
  <2>2. Sound(flight, rows, modal)
    BY <2>1 DEF IInv
  <2>3. ASSUME NEW id, NEW key, Means(id, key, rows), NEW row \in Range(rows), row.id = id
        PROVE  row.key = key
    BY <2>3 DEF Means, Range
  <2>4. ASSUME NEW r \in Actions, ~r.outdated
        PROVE  r.key = r.shown /\ \A row \in Range(rows) : row.id = r.id => row.key = r.shown
    <3>1. PICK s \in Slot : r = flight[s] /\ IsAction(r)
      BY DEF Actions, Slot, IsAction
    <3>2. RequestSound(r, rows)
      BY <2>2, <3>1 DEF Sound
    <3>3. r.key = r.shown /\ Means(r.id, r.shown, rows)
      BY <2>4, <3>1, <3>2 DEF RequestSound
    <3>4. QED
      BY <2>3, <3>3
  <2>5. modal # NoModal /\ ~modal.outdated =>
          \A row \in Range(rows) : row.id = modal.item.id => row.key = modal.item.key
    BY <2>2, <2>3 DEF Sound, ModalSound
  <2>6. QED
    BY <2>4, <2>5 DEF OnlyNewListsMislead
<1>2. QED
  BY <1>1, SpecIInv, PTL

(* Whatever answers or gives up while the modal is open with the item it   *)
(* was opened with, what the user has typed into it stays.                 *)
THEOREM LateValuesLeaveTypedText == Spec => TypedTextStays
<1> DEFINE Stays == (modal # NoModal /\ modal' # NoModal /\ modal.typed /\ ~modal.moved /\ flight' # flight)
                      => modal'.val = modal.val
<1>1. IInv /\ [Next]_vars => [Stays]_vars
  <2>1. SUFFICES ASSUME IInv, Next, modal # NoModal, modal' # NoModal, modal.typed, ~modal.moved,
                      flight' # flight
        PROVE  modal'.val = modal.val
    OBVIOUS
  <2>2. modal \in Modal /\ \A s \in Slot : ~Waits(flight[s])
    BY <2>1 DEF IInv, Sound, Waited
  <2>3. CASE Poll \/ User \/ OtherClient
    <3>1. CASE ChangeItem
      BY <2>2, <3>1 DEF ChangeItem, Modal
    <3>2. CASE Poll \/ OtherClient \/ (User /\ ~ChangeItem)
      BY <2>1, <3>2 DEF Poll, User, OtherClient, Navigate, ClickDelete, OpenModal, Type, Close,
                        ModalDelete, ModalSave, FromModal
    <3>3. QED
      BY <2>3, <3>1, <3>2
  <2>4. ASSUME NEW s \in Slot, Serve(s) \/ Drop(s)
        PROVE  modal'.val = modal.val
    BY <2>4 DEF Serve, ServeKeys, ServeType, ServeValue, ServeDelete, ServeSet, Replies, Drop
  <2>5. ASSUME NEW s \in Slot, NEW answer, NEW left, Busy(flight[s]), flight[s].awaited,
               Resume(s, answer, left)
        PROVE  modal'.val = modal.val
    <3>1. flight[s].kind # "value"
      BY <2>2, <2>5 DEF Waits
    <3>2. modal' = modal \/ modal' = [modal EXCEPT !.outdated = TRUE]
      BY <2>5, <3>1 DEF Resume, KeysArrive, ValueArrives, ActionEnds
    <3>3. QED
      BY <2>2, <3>2 DEF Modal
  <2>6. ASSUME NEW s \in Slot, Answer(s) \/ TimeOut(s)
        PROVE  modal'.val = modal.val
    BY <2>5, <2>6 DEF Answer, TimeOut
  <2>7. QED
    BY <2>1, <2>3, <2>4, <2>6 DEF Next, Slot
<1>2. QED
  BY <1>1, SpecIInv, PTL DEF Spec, TypedTextStays

=============================================================================
