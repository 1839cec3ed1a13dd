------------------------------ MODULE AppProofs ------------------------------
(***************************************************************************)
(* Proofs about App, for every size of the queue and the log, every number *)
(* of overlapping ticks and of commands in flight: each notice on the      *)
(* screen has its timer, and the notices of the connection take turns.     *)
(***************************************************************************)
EXTENDS App, SequenceTheorems, TLAPS

-----------------------------------------------------------------------------
(* Sequences.                                                              *)

(* slice(0, size) is a prefix.                                             *)
LEMMA SliceIsPrefix ==
  ASSUME NEW S, NEW s \in Seq(S), NEW size \in Nat
  PROVE  /\ Slice(s, size) \in Seq(S)
         /\ Len(Slice(s, size)) <= size /\ Len(Slice(s, size)) <= Len(s)
         /\ \A i \in 1 .. Len(Slice(s, size)) : Slice(s, size)[i] = s[i]
<1>1. CASE Len(s) > size
  <2>1. \A i \in 1 .. size : s[i] \in S
    BY <1>1
  <2>2. /\ SubSeq(s, 1, size) \in Seq(S)
        /\ Len(SubSeq(s, 1, size)) = IF 1 <= size THEN size - 1 + 1 ELSE 0
        /\ \A i \in 1 .. size - 1 + 1 : SubSeq(s, 1, size)[i] = s[1 + i - 1]
    BY <2>1, SubSeqProperties
  <2>3. Slice(s, size) = SubSeq(s, 1, size)
    BY <1>1 DEF Slice
  <2>4. QED
    BY <1>1, <2>2, <2>3
<1>2. CASE ~(Len(s) > size)
  BY <1>2 DEF Slice
<1>3. QED
  BY <1>1, <1>2

(* [x, ...s]                                                               *)
LEMMA Prepended ==
  ASSUME NEW S, NEW s \in Seq(S), NEW x \in S
  PROVE  /\ <<x>> \o s \in Seq(S) /\ Len(<<x>> \o s) = Len(s) + 1
         /\ \A i \in 1 .. Len(s) + 1 : (<<x>> \o s)[i] = IF i = 1 THEN x ELSE s[i - 1]
<1>1. <<x>> \in Seq(S) /\ Len(<<x>>) = 1 /\ <<x>>[1] = x
  OBVIOUS
<1>2. QED
  BY <1>1, ConcatProperties

LEMMA RemovedAt ==
  ASSUME NEW S, NEW s \in Seq(S), NEW k \in 1 .. Len(s)
  PROVE  /\ RemoveAt(s, k) \in Seq(S) /\ Len(RemoveAt(s, k)) = Len(s) - 1
         /\ \A i \in 1 .. Len(s) - 1 : RemoveAt(s, k)[i] = IF i < k THEN s[i] ELSE s[i + 1]
<1> DEFINE a == SubSeq(s, 1, k - 1)
           b == SubSeq(s, k + 1, Len(s))
<1>1. /\ a \in Seq(S) /\ Len(a) = k - 1
      /\ \A i \in 1 .. k - 1 : a[i] = s[i]
  <2>1. \A i \in 1 .. k - 1 : s[i] \in S
    OBVIOUS
  <2>2. QED
    BY <2>1, SubSeqProperties
<1>2. /\ b \in Seq(S) /\ Len(b) = Len(s) - k
      /\ \A i \in 1 .. Len(s) - k : b[i] = s[k + i]
  <2>1. \A i \in k + 1 .. Len(s) : s[i] \in S
    OBVIOUS
  <2>2. /\ b \in Seq(S)
        /\ Len(b) = IF k + 1 <= Len(s) THEN Len(s) - (k + 1) + 1 ELSE 0
        /\ \A i \in 1 .. Len(s) - (k + 1) + 1 : b[i] = s[k + 1 + i - 1]
    BY <2>1, SubSeqProperties
  <2>3. QED
    BY <2>2
<1>3. RemoveAt(s, k) = a \o b
  BY DEF RemoveAt
<1> HIDE DEF a, b
<1>4. /\ a \o b \in Seq(S) /\ Len(a \o b) = Len(a) + Len(b)
      /\ \A i \in 1 .. Len(a) + Len(b) : (a \o b)[i] = IF i <= Len(a) THEN a[i] ELSE b[i - Len(a)]
  BY <1>1, <1>2, ConcatProperties
<1>5. QED
  BY <1>1, <1>2, <1>3, <1>4

-----------------------------------------------------------------------------
(* Notices.                                                                *)

Notice == [queue: Seq(Nat), counter: Nat, timers: SUBSET Nat]

(* QueueSound, of any value of the variable.                               *)
Sound(n) ==
  /\ n \in Notice
  /\ Len(n.queue) <= QueueCap
  /\ \A i, j \in 1 .. Len(n.queue) : i < j => n.queue[i] > n.queue[j]
  /\ \A i \in 1 .. Len(n.queue) : n.queue[i] \in 1 .. n.counter /\ n.queue[i] \in n.timers

LEMMA SoundIsQueueSound ==
  Sound(notices) <=> notices \in Notice /\ QueueSound
BY DEF Sound, QueueSound, Notice

(* The new id is above all others, and has its timer.                      *)
LEMMA PushKeepsSound ==
  ASSUME NEW n, Sound(n)
  PROVE  Sound(Push(n))
<1> DEFINE id  == n.counter + 1
           all == <<id>> \o n.queue
           q   == Slice(all, QueueCap)
<1>1. n.queue \in Seq(Nat) /\ n.counter \in Nat /\ n.timers \in SUBSET Nat /\ QueueCap \in Nat
  BY NotificationsAssumption DEF Sound, Notice
<1>2. id \in Nat
  BY <1>1
<1>3. /\ all \in Seq(Nat) /\ Len(all) = Len(n.queue) + 1
      /\ \A i \in 1 .. Len(n.queue) + 1 : all[i] = IF i = 1 THEN id ELSE n.queue[i - 1]
  BY <1>1, <1>2, Prepended
<1>4. /\ q \in Seq(Nat) /\ Len(q) <= QueueCap /\ Len(q) <= Len(all)
      /\ \A i \in 1 .. Len(q) : q[i] = all[i]
  BY <1>1, <1>3, SliceIsPrefix
<1>5. Push(n) = [queue |-> q, counter |-> id, timers |-> n.timers \cup {id}]
  BY DEF Push
<1> HIDE DEF q, all
<1>6. \A i \in 1 .. Len(q) :
        IF i = 1 THEN q[i] = id
        ELSE i - 1 \in 1 .. Len(n.queue) /\ q[i] = n.queue[i - 1]
  <2> TAKE i \in 1 .. Len(q)
  <2>1. Len(q) \in Nat /\ Len(n.queue) \in Nat
    BY <1>1, <1>4
  <2>2. i \in 1 .. Len(n.queue) + 1
    BY <1>3, <1>4, <2>1
  <2>3. q[i] = IF i = 1 THEN id ELSE n.queue[i - 1]
    BY <1>3, <1>4, <2>2
  <2>4. QED
    BY <2>1, <2>2, <2>3
<1>7. \A i \in 1 .. Len(n.queue) : n.queue[i] \in 1 .. n.counter /\ n.queue[i] \in n.timers
  BY DEF Sound
<1>8. \A i, j \in 1 .. Len(q) : i < j => q[i] > q[j]
  <2> TAKE i, j \in 1 .. Len(q)
  <2> HAVE i < j
  <2>0. Len(q) \in Nat
    BY <1>4
  <2>1. j # 1 /\ q[j] = n.queue[j - 1] /\ j - 1 \in 1 .. Len(n.queue)
    BY <1>6, <2>0
  <2>2. CASE i = 1
    <3>1. q[i] = n.counter + 1
      BY <1>6, <2>2
    <3>2. q[j] \in 1 .. n.counter
      BY <1>7, <2>1
    <3>3. QED
      BY <1>1, <3>1, <3>2
  <2>3. CASE i # 1
    <3>1. q[i] = n.queue[i - 1] /\ i - 1 \in 1 .. Len(n.queue) /\ i - 1 < j - 1
      BY <1>6, <2>0, <2>3
    <3>2. QED
      BY <2>1, <3>1 DEF Sound
  <2>4. QED
    BY <2>2, <2>3
<1>9. \A i \in 1 .. Len(q) : q[i] \in 1 .. id /\ q[i] \in n.timers \cup {id}
  <2> TAKE i \in 1 .. Len(q)
  <2>1. CASE i = 1
    BY <1>1, <1>6, <2>1
  <2>2. CASE i # 1
    <3>1. q[i] = n.queue[i - 1] /\ i - 1 \in 1 .. Len(n.queue)
      BY <1>6, <2>2
    <3>2. QED
      BY <1>1, <1>7, <3>1
  <2>3. QED
    BY <2>1, <2>2
<1> HIDE DEF id
<1>10. n.timers \cup {id} \in SUBSET Nat
  BY <1>1, <1>2
<1>11. QED
  BY <1>2, <1>4, <1>5, <1>8, <1>9, <1>10 DEF Sound, Notice

(* What filter by id leaves: the others, in their order.                   *)
LEMMA WithoutKeepsSound ==
  ASSUME NEW n, Sound(n), NEW id
  PROVE  /\ Sound([n EXCEPT !.queue = WithoutId(@, id)])
         /\ Sound([n EXCEPT !.queue = WithoutId(@, id), !.timers = @ \ {id}])
<1> DEFINE q == n.queue
           r == WithoutId(q, id)
<1>1. q \in Seq(Nat) /\ n \in Notice /\ QueueCap \in Nat
  BY NotificationsAssumption DEF Sound, Notice
<1>2. /\ r \in Seq(Nat) /\ Len(r) <= Len(q)
      /\ \A i, j \in 1 .. Len(r) : i < j => r[i] > r[j]
      /\ \A i \in 1 .. Len(r) : r[i] # id /\ \E k \in 1 .. Len(q) : r[i] = q[k]
  <2>1. CASE \E i \in DOMAIN q : q[i] = id
    <3> DEFINE k == CHOOSE i \in DOMAIN q : q[i] = id
    <3>1. k \in 1 .. Len(q) /\ q[k] = id
      BY <1>1, <2>1
    <3>2. r = RemoveAt(q, k)
      BY <2>1 DEF WithoutId
    <3> HIDE DEF k
    <3>3. /\ r \in Seq(Nat) /\ Len(r) = Len(q) - 1
          /\ \A i \in 1 .. Len(q) - 1 : r[i] = IF i < k THEN q[i] ELSE q[i + 1]
      BY <1>1, <3>1, <3>2, RemovedAt
    <3> HIDE DEF r
    <3>4. \A i, j \in 1 .. Len(q) : i < j => q[i] > q[j]
      BY DEF Sound
    <3> HIDE DEF q
    <3>5. Len(q) \in Nat /\ \A i \in 1 .. Len(q) : q[i] \in Nat
      BY <1>1
    <3> DEFINE From(i) == IF i < k THEN i ELSE i + 1
    <3>6. \A i \in 1 .. Len(r) :
            From(i) \in 1 .. Len(q) /\ From(i) # k /\ r[i] = q[From(i)]
      BY <3>1, <3>3, <3>5
    <3>7. \A i, j \in 1 .. Len(r) : i < j => r[i] > r[j]
      <4> TAKE i, j \in 1 .. Len(r)
      <4> HAVE i < j
      <4>1. From(i) < From(j)
        BY <3>1, <3>3, <3>5
      <4> HIDE DEF From
      <4>2. QED
        BY <3>4, <3>6, <4>1
    <3>8. \A i \in 1 .. Len(r) : r[i] # id
      <4> TAKE i \in 1 .. Len(r)
      <4> HIDE DEF From
      <4>1. From(i) \in 1 .. Len(q) /\ From(i) # k /\ r[i] = q[From(i)]
        BY <3>6
      <4>2. q[From(i)] > q[k] \/ q[k] > q[From(i)]
        BY <3>1, <3>4, <3>5, <4>1
      <4>3. q[From(i)] \in Nat /\ q[k] \in Nat
        BY <3>1, <3>5, <4>1
      <4>4. QED
        BY <3>1, <4>1, <4>2, <4>3
    <3>9. QED
      BY <3>3, <3>5, <3>6, <3>7, <3>8
  <2>2. CASE ~\E i \in DOMAIN q : q[i] = id
    <3>1. r = q
      BY <2>2 DEF WithoutId
    <3>2. \A i, j \in 1 .. Len(q) : i < j => q[i] > q[j]
      BY DEF Sound
    <3>3. \A i \in 1 .. Len(q) : q[i] # id
      BY <1>1, <2>2
    <3> HIDE DEF r, q
    <3>4. Len(q) \in Nat
      BY <1>1
    <3>5. QED
      BY <1>1, <3>1, <3>2, <3>3, <3>4
  <2>3. QED
    BY <2>1, <2>2
<1>3. \A i \in 1 .. Len(q) : q[i] \in 1 .. n.counter /\ q[i] \in n.timers
  BY DEF Sound
<1>4. Len(r) <= QueueCap
  BY <1>1, <1>2 DEF Sound
<1>5. \A i \in 1 .. Len(r) : r[i] \in 1 .. n.counter /\ r[i] \in n.timers \ {id}
  BY <1>2, <1>3
<1> DEFINE first  == [n EXCEPT !.queue = WithoutId(@, id)]
           second == [n EXCEPT !.queue = WithoutId(@, id), !.timers = @ \ {id}]
<1>6. first \in Notice /\ first.queue = r /\ first.counter = n.counter /\ first.timers = n.timers
  BY <1>1, <1>2 DEF Notice
<1>7. /\ second \in Notice /\ second.queue = r
      /\ second.counter = n.counter /\ second.timers = n.timers \ {id}
  BY <1>1, <1>2 DEF Notice
<1> HIDE DEF first, second, r, q
<1>8. Sound(first)
  BY <1>2, <1>4, <1>5, <1>6 DEF Sound
<1>9. Sound(second)
  BY <1>2, <1>4, <1>5, <1>7 DEF Sound
<1>10. QED
  BY <1>8, <1>9 DEF first, second

LEMMA ClearedKeepsSound ==
  ASSUME NEW n, Sound(n)
  PROVE  Sound([n EXCEPT !.queue = <<>>])
<1> DEFINE m == [n EXCEPT !.queue = <<>>]
<1>1. QueueCap \in Nat /\ n \in Notice
  BY NotificationsAssumption DEF Sound
<1>2. <<>> \in Seq(Nat) /\ Len(<<>>) = 0
  OBVIOUS
<1>3. m \in Notice /\ m.queue = <<>>
  BY <1>1, <1>2 DEF Notice
<1> HIDE DEF m
<1>4. Sound(m)
  BY <1>1, <1>2, <1>3 DEF Sound
<1>5. QED
  BY <1>4 DEF m

LEMMA NoticedKeepsSound ==
  ASSUME NEW n, Sound(n)
  PROVE  Sound(Noticed(n))
BY PushKeepsSound DEF Noticed

(* Timers and clicks.                                                      *)
LEMMA TimersAndPanel ==
  ASSUME Sound(notices), open \in BOOLEAN,
         (\E id \in notices.timers : Expire(id)) \/ Panel
  PROVE  Sound(notices') /\ open' \in BOOLEAN
<1>1. CASE \E id \in notices.timers : Expire(id)
  <2>1. PICK id \in notices.timers : Expire(id)
    BY <1>1
  <2>2. QED
    BY <2>1, WithoutKeepsSound DEF Expire
<1>2. CASE Dismiss
  <2>1. PICK id : notices' = [notices EXCEPT !.queue = WithoutId(@, id)]
    BY <1>2 DEF Dismiss
  <2>2. open' = open
    BY <1>2 DEF Dismiss
  <2>3. QED
    BY <2>1, <2>2, WithoutKeepsSound
<1>3. CASE DismissAll
  BY <1>3, ClearedKeepsSound DEF DismissAll
<1>4. CASE Toggle
  BY <1>4 DEF Toggle
<1>5. CASE ClickBesideRoot
  BY <1>5 DEF ClickBesideRoot
<1>6. QED
  BY <1>1, <1>2, <1>3, <1>4, <1>5 DEF Panel

-----------------------------------------------------------------------------
(* The log of commands.                                                    *)

Entry == Cmd \cup {Demo}

LogSound(log) == log \in Seq(Entry) /\ Len(log) <= LogCap

LEMMA LoggedKeepsSound ==
  ASSUME LogSound(logs), NEW entry \in Entry
  PROVE  LogSound(Logged(entry))
<1>1. LogCap \in Nat /\ logs \in Seq(Entry)
  BY AppAssumption DEF LogSound
<1>2. <<entry>> \o logs \in Seq(Entry)
  BY <1>1, Prepended
<1>3. QED
  BY <1>1, <1>2, SliceIsPrefix DEF Logged, LogSound

-----------------------------------------------------------------------------
(* The inductive invariant: TypeOK and the two properties, the one about   *)
(* notices in the form the lemmas are about.                               *)
IInv ==
  /\ TypeOK /\ Sound(notices)
  /\ LostAndBackAlternate
  /\ LogSound(logs)

LEMMA SoundType == Sound(notices) /\ open \in BOOLEAN => NoticesType
BY DEF Sound, Notice, NoticesType

LEMMA InitInv == Init => IInv
<1> SUFFICES ASSUME Init PROVE IInv
  OBVIOUS
<1>1. /\ {QueueCap, LogCap, Seeded, MaxEvents} \subseteq Nat /\ Seeded <= LogCap
      /\ NoCmd \notin Cmd /\ Demo \notin Cmd
  BY NotificationsAssumption, AppAssumption
<1>2. Sound(notices)
  <2>1. notices = [queue |-> <<>>, counter |-> 0, timers |-> {}]
    BY DEF Init, NoNotices
  <2>2. <<>> \in Seq(Nat) /\ Len(<<>>) = 0
    OBVIOUS
  <2>3. QED
    BY <1>1, <2>1, <2>2 DEF Sound, Notice
<1>3. NoticesType
  BY <1>2, SoundType DEF Init
<1>4. logs \in Seq(Entry) /\ Len(logs) = Seeded /\ \A i \in 1 .. Len(logs) : logs[i] = Demo
  BY <1>1 DEF Init, Entry
<1>5. LogSound(logs)
  BY <1>1, <1>4 DEF LogSound
<1>6. TypeOK
  <2>1. /\ ticks \in [1 .. Ticks -> {"idle", "sent", "fine", "failing", "null"}]
        /\ execs \in [1 .. Execs -> Cmd \cup {NoCmd}]
    BY DEF Init
  <2>2. events \in 0 .. MaxEvents
    BY <1>1 DEF Init
  <2>3. up \in BOOLEAN /\ failing \in BOOLEAN /\ serverOnline \in BOOLEAN
    BY Zenon DEF Init
  <2>4. balance \in Int
    BY DEF Init
  <2>5. /\ prevOnline \in {"unknown", "online", "offline"}
        /\ region \in {"loading", "known"} /\ result \in Cmd \cup {NoCmd}
    BY Zenon DEF Init
  <2>6. QED
    BY <1>3, <1>5, <2>1, <2>2, <2>3, <2>4, <2>5, Zenon DEF TypeOK, LogSound, Entry
<1>7. LostAndBackAlternate
  BY DEF Init, LostAndBackAlternate
<1>8. QED
  BY <1>2, <1>5, <1>6, <1>7 DEF IInv

(* Steps that leave notices, log and connection alone.                     *)
LEMMA QuietSteps ==
  ASSUME IInv,
         \/ TickStarts
         \/ \E t \in 1 .. Ticks : ServeTick(t)
         \/ ServerFlips \/ ErrorRatePasses \/ Execute
         \/ UNCHANGED vars
  PROVE  IInv'
<1> USE DEF status, palette, noticeVars, Event
<1>0. MaxEvents \in Nat /\ TypeOK
  BY AppAssumption DEF IInv
<1>1. ASSUME UNCHANGED <<noticeVars, status, region, result, logs>>,
             up' \in BOOLEAN, failing' \in BOOLEAN,
             ticks' \in [1 .. Ticks -> {"idle", "sent", "fine", "failing", "null"}],
             execs' \in [1 .. Execs -> Cmd \cup {NoCmd}],
             events' \in 0 .. MaxEvents
      PROVE  IInv'
  <2>1. TypeOK'
    BY <1>0, <1>1 DEF TypeOK, NoticesType
  <2>2. Sound(notices)' /\ LogSound(logs)'
    BY <1>1 DEF IInv, Sound, LogSound
  <2>3. LostAndBackAlternate'
    BY <1>1 DEF IInv, LostAndBackAlternate
  <2>4. QED
    BY <2>1, <2>2, <2>3 DEF IInv
<1>2. CASE TickStarts
  BY <1>0, <1>1, <1>2 DEF TickStarts, TypeOK
<1>3. CASE \E t \in 1 .. Ticks : ServeTick(t)
  <2>1. ticks' \in [1 .. Ticks -> {"idle", "sent", "fine", "failing", "null"}]
    BY <1>0, <1>3 DEF ServeTick, TypeOK
  <2>2. events' \in 0 .. MaxEvents
    BY <1>0, <1>3 DEF ServeTick, TypeOK
  <2>3. UNCHANGED <<noticeVars, up, failing, status, region, palette, logs>>
    BY <1>3 DEF ServeTick
  <2>4. QED
    BY <1>0, <1>1, <2>1, <2>2, <2>3 DEF TypeOK
<1>4. CASE ServerFlips
  <2>1. /\ UNCHANGED <<noticeVars, ticks, status, region, palette, logs>>
        /\ events' = events + 1 /\ events < MaxEvents
    BY <1>4 DEF ServerFlips
  <2>2. up' \in BOOLEAN
    BY <1>4, Zenon DEF ServerFlips
  <2>3. failing' \in BOOLEAN
    BY <1>0, <1>4, Zenon DEF ServerFlips, TypeOK
  <2>4. events' \in 0 .. MaxEvents
    BY <1>0, <2>1 DEF TypeOK
  <2>5. QED
    BY <1>0, <1>1, <2>1, <2>2, <2>3, <2>4, Zenon DEF TypeOK
<1>5. CASE ErrorRatePasses
  <2>1. /\ UNCHANGED <<noticeVars, up, ticks, status, region, palette, logs>>
        /\ events' = events + 1 /\ events < MaxEvents
    BY <1>5 DEF ErrorRatePasses
  <2>2. failing' \in BOOLEAN
    BY <1>5, Zenon DEF ErrorRatePasses
  <2>3. events' \in 0 .. MaxEvents
    BY <1>0, <2>1 DEF TypeOK
  <2>4. QED
    BY <1>0, <1>1, <2>1, <2>2, <2>3, Zenon DEF TypeOK
<1>8. CASE Execute
  <2>1. execs' \in [1 .. Execs -> Cmd \cup {NoCmd}]
    BY <1>0, <1>8 DEF Execute, TypeOK
  <2>2. events' \in 0 .. MaxEvents
    BY <1>0, <1>8 DEF Execute, TypeOK
  <2>3. UNCHANGED <<noticeVars, up, failing, ticks, status, region, result, logs>>
    BY <1>8 DEF Execute
  <2>4. QED
    BY <1>0, <1>1, <2>1, <2>2, <2>3 DEF TypeOK
<1>6. CASE UNCHANGED vars
  BY <1>0, <1>1, <1>6 DEF vars, TypeOK
<1>7. QED
  BY <1>1, <1>2, <1>3, <1>4, <1>5, <1>6, <1>8

(* The end of a tick, by an answer or without one.                         *)
LEMMA TickKeepsParts ==
  ASSUME IInv, (\E high \in BOOLEAN : Answered(high)) \/ Missed
  PROVE  /\ Sound(notices')
         /\ prevOnline' \in {"online", "offline"} /\ serverOnline' \in BOOLEAN /\ balance' \in Int
         /\ LostAndBackAlternate'
         /\ LogSound(logs')
<1>1. /\ Sound(notices) /\ LostAndBackAlternate /\ LogSound(logs)
      /\ prevOnline \in {"unknown", "online", "offline"} /\ balance \in Int
  BY DEF IInv, TypeOK
<1>2. CASE \E high \in BOOLEAN : Answered(high)
  <2>1. PICK high \in BOOLEAN : Answered(high)
    BY <1>2
  <2> DEFINE once == IF Previous = "offline" THEN Noticed(notices) ELSE notices
  <2>2. Sound(once)
    BY <1>1, NoticedKeepsSound
  <2>3. notices' = (IF high THEN Noticed(once) ELSE once)
    BY <2>1 DEF Answered
  <2> HIDE DEF once
  <2>4. Sound(notices')
    BY <2>2, <2>3, NoticedKeepsSound
  <2>5. /\ prevOnline' = "online" /\ serverOnline' = TRUE /\ logs' = logs
        /\ balance' = IF prevOnline = "offline" THEN balance - 1 ELSE balance
    BY <2>1 DEF Answered, Previous
  <2>6. QED
    BY <1>1, <2>4, <2>5 DEF LostAndBackAlternate
<1>3. CASE Missed
  <2>1. Sound(notices')
    BY <1>1, <1>3, NoticedKeepsSound DEF Missed
  <2>2. /\ prevOnline' = "offline" /\ serverOnline' = FALSE /\ logs' = Logged(Demo)
        /\ balance' = IF prevOnline \in {"online", "unknown"} THEN balance + 1 ELSE balance
    BY <1>3 DEF Missed, Previous
  <2>3. LogSound(logs')
    BY <1>1, <2>2, LoggedKeepsSound DEF Entry
  <2>4. balance' = 1
    BY <1>1, <2>2 DEF LostAndBackAlternate
  <2>5. LostAndBackAlternate'
    BY <2>2, <2>4 DEF LostAndBackAlternate
  <2>6. prevOnline' \in {"online", "offline"} /\ serverOnline' \in BOOLEAN
    BY <2>2, Zenon
  <2>7. balance' \in Int
    BY <2>4
  <2>8. QED
    BY <2>1, <2>3, <2>5, <2>6, <2>7
<1>4. QED
  BY <1>2, <1>3

LEMMA TickSteps ==
  ASSUME IInv, NEW t \in 1 .. Ticks, TickEnds(t) \/ TickTimesOut(t)
  PROVE  IInv'
<1>1. (\E high \in BOOLEAN : Answered(high)) \/ Missed
  BY DEF TickEnds, TickTimesOut
<1>2. /\ Sound(notices')
      /\ prevOnline' \in {"online", "offline"} /\ serverOnline' \in BOOLEAN /\ balance' \in Int
      /\ LostAndBackAlternate'
      /\ LogSound(logs')
  BY <1>1, TickKeepsParts
<1>3. /\ open' = open /\ up' = up /\ failing' = failing /\ region' = region /\ result' = result /\ execs' = execs
      /\ ticks' = [ticks EXCEPT ![t] = "idle"] /\ events' \in 0 .. MaxEvents
  BY AppAssumption DEF TickEnds, TickTimesOut, Event, palette, IInv, TypeOK
<1>4. NoticesType'
  BY <1>2, <1>3 DEF IInv, TypeOK, NoticesType, Sound, Notice
<1>5. TypeOK'
  BY <1>2, <1>3, <1>4 DEF IInv, TypeOK, LogSound, Entry
<1>6. QED
  BY <1>2, <1>5 DEF IInv, Sound, LogSound

(* An answer to a command.                                                 *)
LEMMA ExecSteps ==
  ASSUME IInv, NEW e \in 1 .. Execs, ExecEnds(e)
  PROVE  IInv'
<1> DEFINE cmd == execs[e]
<1>1. cmd \in Cmd /\ LogSound(logs) /\ Sound(notices)
  BY DEF ExecEnds, IInv, TypeOK
<1>2. Sound(notices')
  BY <1>1, NoticedKeepsSound DEF ExecEnds
<1>3. /\ result' = cmd /\ logs' = Logged(cmd) /\ execs' = [execs EXCEPT ![e] = NoCmd]
      /\ UNCHANGED <<open, up, failing, ticks, prevOnline, serverOnline, balance, region, events>>
  BY DEF ExecEnds, status
<1> HIDE DEF cmd
<1>4. LogSound(logs')
  BY <1>1, <1>3, LoggedKeepsSound DEF Entry
<1>5. NoticesType'
  BY <1>2, <1>3 DEF IInv, TypeOK, NoticesType, Sound, Notice
<1>6. TypeOK'
  BY <1>1, <1>3, <1>4, <1>5 DEF IInv, TypeOK, LogSound, Entry
<1>7. LostAndBackAlternate'
  BY <1>3 DEF IInv, LostAndBackAlternate
<1>8. QED
  BY <1>2, <1>4, <1>6, <1>7 DEF IInv, Sound, LogSound

(* Steps that have to do with the notices only.                            *)
LEMMA NoticeSteps ==
  ASSUME IInv, RegionArrives \/ KeyNotice \/ UsePanel \/ \E id \in notices.timers : TimerFires(id)
  PROVE  IInv'
<1>1. Sound(notices) /\ open \in BOOLEAN /\ MaxEvents \in Nat
  BY AppAssumption DEF IInv, TypeOK, NoticesType
<1>2. Sound(notices') /\ open' \in BOOLEAN
  BY <1>1, NoticedKeepsSound, TimersAndPanel
     DEF RegionArrives, KeyNotice, UsePanel, TimerFires
<1>3. /\ UNCHANGED <<up, failing, ticks, status, palette, logs>>
      /\ region' \in {"loading", "known"} /\ events' \in 0 .. MaxEvents
  BY <1>1 DEF RegionArrives, KeyNotice, UsePanel, TimerFires, Event, IInv, TypeOK
<1>4. NoticesType'
  BY <1>2 DEF NoticesType, Sound, Notice
<1>5. TypeOK'
  BY <1>3, <1>4 DEF IInv, TypeOK, status, palette
<1>6. LostAndBackAlternate' /\ LogSound(logs')
  BY <1>3 DEF IInv, LostAndBackAlternate, status, palette
<1>7. QED
  BY <1>2, <1>5, <1>6 DEF IInv, Sound, LogSound

LEMMA NextInv == IInv /\ [Next]_vars => IInv'
<1> SUFFICES ASSUME IInv, [Next]_vars PROVE IInv'
  OBVIOUS
<1>1. CASE \E t \in 1 .. Ticks : TickEnds(t) \/ TickTimesOut(t)
  BY <1>1, TickSteps
<1>2. CASE \E e \in 1 .. Execs : ExecEnds(e)
  BY <1>2, ExecSteps
<1>3. CASE RegionArrives \/ KeyNotice \/ UsePanel \/ \E id \in notices.timers : TimerFires(id)
  BY <1>3, NoticeSteps
<1>4. CASE \/ TickStarts \/ (\E t \in 1 .. Ticks : ServeTick(t))
           \/ ServerFlips \/ ErrorRatePasses \/ Execute \/ UNCHANGED vars
  BY <1>4, QuietSteps
<1>5. QED
  BY <1>1, <1>2, <1>3, <1>4 DEF Next

LEMMA Inductive == Spec => []IInv
BY InitInv, NextInv, PTL DEF Spec

(* Every variable of App keeps its type, the log its limit.                *)
THEOREM TypeCorrect == Spec => []TypeOK
<1>1. IInv => TypeOK
  BY DEF IInv
<1>2. QED
  BY <1>1, Inductive, PTL

(* No notice without a timer, and no id twice (useNotifications.ts:22-30). *)
THEOREM NoticesHaveTimers == Spec => []QueueSound
<1>1. IInv => QueueSound
  BY SoundIsQueueSound DEF IInv
<1>2. QED
  BY <1>1, Inductive, PTL

(* The notices of the connection take turns, and agree with the badge      *)
(* (App.tsx:58, 69, 97).                                                   *)
THEOREM TurnsTaken == Spec => []LostAndBackAlternate
<1>1. IInv => LostAndBackAlternate
  BY DEF IInv
<1>2. QED
  BY <1>1, Inductive, PTL

=============================================================================
