---------------------------- MODULE ServerProofs ----------------------------
(***************************************************************************)
(* Proofs about Server, for any number of clients, keys, commands, crashes *)
(* and restarts: what is on the disk or about to be written there says the *)
(* same as the store, no version that has been on the disk is lost, and    *)
(* SET ... EX does not leave its key without a deadline.                   *)
(***************************************************************************)
EXTENDS Server, StoreOpsProofs

-----------------------------------------------------------------------------
(* The calls of a command.                                                 *)

Names == {"SET", "DEL", "EXPIRE", "LPUSH", "RPUSH", "LPOP", "SADD", "ZADD", "FLUSHALL"}

LEMMA NamesKnown ==
  ASSUME NEW cmd, WellFormed(cmd)
  PROVE  cmd.name \in Names /\ cmd.key \in Key
BY DEF WellFormed, Names

(* Which operation a name stands for.                                      *)
LEMMA CallOf ==
  ASSUME NEW s, NEW cmd, NEW t
  PROVE  /\ cmd.name = "SET" => FirstCall(s, cmd, t) = SetCmd(s, cmd.key, cmd.vals[1])
         /\ cmd.name = "DEL" => FirstCall(s, cmd, t) = DelOne(s, cmd.key)
         /\ cmd.name = "EXPIRE" => FirstCall(s, cmd, t) = ExpireCmd(s, cmd.key, cmd.arg * Second, t)
         /\ cmd.name = "LPUSH" => FirstCall(s, cmd, t) = LPushCmd(s, cmd.key, cmd.vals, t)
         /\ cmd.name = "RPUSH" => FirstCall(s, cmd, t) = RPushCmd(s, cmd.key, cmd.vals, t)
         /\ cmd.name = "LPOP" => FirstCall(s, cmd, t) = LPopCmd(s, cmd.key, t)
         /\ cmd.name = "SADD" => FirstCall(s, cmd, t) = SAddCmd(s, cmd.key, ToSet(cmd.vals), t)
         /\ cmd.name = "ZADD" => FirstCall(s, cmd, t) = ZAddCmd(s, cmd.key, cmd.arg, cmd.vals[1], t)
         /\ cmd.name = "FLUSHALL" => FirstCall(s, cmd, t) = EmptyStore
BY DEF FirstCall

(* A deadline is a positive time, also one in the past.                    *)
LEMMA DeadlineIsTime ==
  ASSUME NEW d \in Int, Start + d * Second > 0, NEW t \in Int, t >= Start
  PROVE  t + d * Second \in Nat \ {NoExpiry}
<1>1. d * Second \in Int
  <2>1. \A m, n \in Int : m * n \in Int
    OBVIOUS
  <2>2. Second \in Int
    BY StoreAssumption
  <2>3. QED
    BY <2>1, <2>2
<1>2. PICK p \in Int : p = d * Second
  BY <1>1
<1>3. Start \in Int /\ Start + p > 0
  BY <1>2, ServerAssumption
<1>4. QED
  BY <1>2, <1>3 DEF NoExpiry

LEMMA FirstCallSound ==
  ASSUME NEW s, Sound(s), NEW cmd, WellFormed(cmd), NEW t \in Int, t >= Start
  PROVE  Sound(FirstCall(s, cmd, t))
<1>1. cmd.name \in Names /\ cmd.key \in Key
  BY NamesKnown
<1>2. CASE cmd.name = "SET"
  BY <1>1, <1>2, CallOf, SetCmdSound DEF WellFormed
<1>3. CASE cmd.name = "DEL"
  BY <1>1, <1>3, CallOf, DelLeaves
<1>4. CASE cmd.name = "EXPIRE"
  <2>1. t + cmd.arg * Second \in Nat
    BY <1>4, DeadlineIsTime DEF WellFormed
  <2>2. QED
    BY <1>1, <1>4, <2>1, CallOf, ExpireCmdSound
<1>5. CASE cmd.name \in {"LPUSH", "RPUSH"}
  BY <1>1, <1>5, CallOf, PushSound DEF WellFormed
<1>6. CASE cmd.name = "LPOP"
  BY <1>1, <1>6, CallOf, LPopCmdSound
<1>7. CASE cmd.name = "SADD"
  <2>1. cmd.vals \in Seq(Val)
    BY <1>7 DEF WellFormed
  <2>2. ToSet(cmd.vals) \in SUBSET Val
    BY <2>1 DEF ToSet
  <2>3. QED
    BY <1>1, <1>7, <2>2, CallOf, SAddCmdSound
<1>8. CASE cmd.name = "ZADD"
  BY <1>1, <1>8, CallOf, ZAddCmdSound DEF WellFormed
<1>9. CASE cmd.name = "FLUSHALL"
  BY <1>9, CallOf, EmptyStoreSound
<1>10. QED
  BY <1>1, <1>2, <1>3, <1>4, <1>5, <1>6, <1>7, <1>8, <1>9 DEF Names

LEMMA SecondCallSound ==
  ASSUME NEW s, Sound(s), NEW cmd, WellFormed(cmd), HasSecondCall(cmd), cmd.arg # Invalid,
         NEW t \in Int, t >= Start
  PROVE  Sound(SecondCall(s, cmd, t))
<1>1. t + cmd.arg * Second \in Nat /\ cmd.key \in Key
  BY DeadlineIsTime DEF WellFormed, HasSecondCall
<1>2. QED
  BY <1>1, ExpireCmdSound DEF SecondCall

LEMMA ExecuteSound ==
  ASSUME NEW s, Sound(s), NEW cmd, WellFormed(cmd), cmd.arg # Invalid, NEW t \in Int, t >= Start
  PROVE  Sound(Execute(s, cmd, t))
BY FirstCallSound, SecondCallSound DEF Execute

(* A command changes the entry of its own key.  Others may be evicted, or  *)
(* gone with all the rest.                                                 *)
LEMMA FirstCallSpares ==
  ASSUME NEW s, Sound(s), NEW cmd, WellFormed(cmd), NEW t, NEW j \in Key \ {cmd.key}
  PROVE  Spared(s, FirstCall(s, cmd, t), j) \/ cmd.name = "FLUSHALL"
<1>1. cmd.name \in Names /\ cmd.key \in Key
  BY NamesKnown
<1>2. CASE cmd.name = "SET"
  <2>1. cmd.vals[1] \in Val
    BY <1>2 DEF WellFormed
  <2>2. [NewEntry("String") EXCEPT !.str = cmd.vals[1]] \in Entry
    <3>1. NewEntry("String") \in Entry
      BY NewEntryTyped DEF VType
    <3>2. QED
      BY <2>1, <3>1 DEF Entry
  <2>3. QED
    BY <1>1, <1>2, <2>2, CallOf, SetLockedSpares DEF SetCmd
<1>3. CASE cmd.name = "DEL"
  BY <1>1, <1>3, CallOf, DelLeaves DEF Spared
<1>4. CASE cmd.name = "EXPIRE"
  BY <1>1, <1>4, CallOf, ExpireLeaves DEF Spared
<1>5. CASE cmd.name \in {"LPUSH", "RPUSH"}
  BY <1>1, <1>5, CallOf, PushSpares
<1>6. CASE cmd.name = "LPOP"
  BY <1>1, <1>6, CallOf, LPopLeaves DEF Spared
<1>7. CASE cmd.name \in {"SADD", "ZADD"}
  BY <1>1, <1>7, CallOf, AddSpares
<1>8. QED
  BY <1>1, <1>2, <1>3, <1>4, <1>5, <1>6, <1>7 DEF Names

LEMMA SecondCallSpares ==
  ASSUME NEW s, Sound(s), NEW cmd, cmd.key \in Key, NEW t, NEW j \in Key \ {cmd.key}
  PROVE  SecondCall(s, cmd, t).data[j] = s.data[j]
BY ExpireLeaves DEF SecondCall

-----------------------------------------------------------------------------
(* Types, and where the lines of the log come from.                        *)

Requests == UNION {Request(c, n) : c \in Client, n \in 1 .. MaxSends}

(* What may be in the log: lines that clients have sent.                   *)
Sent ==
  {l \in Requests : \E c \in Client : \E n \in 1 .. sent[c] : l \in Request(c, n) /\ l.arg # Invalid}

Typed ==
  /\ Sound(store)
  /\ now \in Start .. MaxTime
  /\ phase \in {"serving", "stopping", "down", "replay"}
  /\ pos \in Nat \ {0}
  /\ sent \in [Client -> 0 .. MaxSends]
  /\ pc \in [Client -> {"read", "expire", "append"}]
  /\ req \in [Client -> Requests \cup {NoCmd}]
  /\ file \in Seq(Sent)
  /\ buffer \in Seq(Sent)

(* A connection is between two calls only while the server runs, with the  *)
(* command its client has sent last.                                       *)
Busy ==
  \A c \in Client :
    /\ pc[c] # "read" => /\ Running
                         /\ sent[c] \in 1 .. MaxSends
                         /\ req[c] \in Request(c, sent[c])
                         /\ req[c].arg # Invalid
    /\ pc[c] = "expire" => HasSecondCall(req[c])

BaseInv == Typed /\ Busy

LEMMA RequestFits ==
  ASSUME NEW cmd \in Requests
  PROVE  WellFormed(cmd)
BY RequestAssumption DEF Requests

LEMMA LongerLog ==
  ASSUME NEW S, NEW T, S \subseteq T, NEW f \in Seq(S)
  PROVE  f \in Seq(T)
<1>1. \A i \in 1 .. Len(f) : f[i] \in T
  BY ElementOfSeq
<1>2. f = [i \in 1 .. Len(f) |-> f[i]] /\ Len(f) \in Nat
  OBVIOUS
<1>3. QED
  BY <1>1, <1>2

LEMMA ClockTicks ==
  ASSUME now \in Start .. MaxTime
  PROVE  now \in Int /\ now >= Start
BY ServerAssumption

LEMMA InitBase == Init => BaseInv
<1> SUFFICES ASSUME Init PROVE BaseInv
  OBVIOUS
<1>1. Start \in Start .. MaxTime /\ 0 \in 0 .. MaxSends
  BY ServerAssumption
<1>2. Typed
  BY <1>1, EmptyStoreSound DEF Init, Typed
<1>3. Busy
  BY DEF Init, Busy
<1>4. QED
  BY <1>2, <1>3 DEF BaseInv

LEMMA CallBase ==
  ASSUME BaseInv, NEW c \in Client, NEW cmd \in Request(c, sent[c] + 1), Call(c, cmd)
  PROVE  BaseInv' /\ cmd \in Requests /\ sent[c] + 1 \in 1 .. MaxSends /\ Sent \subseteq Sent'
<1> USE DEF BaseInv, Typed
<1>1. sent[c] \in 0 .. MaxSends /\ sent[c] < MaxSends /\ MaxSends \in Nat
  BY ServerAssumption DEF Call
<1>2. sent[c] + 1 \in 1 .. MaxSends
  BY <1>1
<1>3. cmd \in Requests
  BY <1>2 DEF Requests
<1>4. sent' = [sent EXCEPT ![c] = sent[c] + 1] /\ sent' \in [Client -> 0 .. MaxSends]
  BY <1>1 DEF Call
<1>5. Sent \subseteq Sent'
  <2>1. \A d \in Client : 1 .. sent[d] \subseteq 1 .. sent'[d]
    BY <1>1, <1>4
  <2>2. QED
    BY <2>1 DEF Sent
<1>6. Sound(store')
  BY <1>3, RequestFits, ClockTicks, FirstCallSound DEF Call
<1>7. file' \in Seq(Sent') /\ buffer' \in Seq(Sent')
  <2>1. file' = file /\ buffer' = buffer
    BY DEF Call, disk
  <2>2. QED
    BY <1>5, <2>1, LongerLog
<1>8. Typed'
  BY <1>3, <1>4, <1>6, <1>7 DEF Call, process
<1>9. Busy'
  <2> SUFFICES ASSUME NEW d \in Client
               PROVE  /\ pc'[d] # "read" => /\ Running'
                                            /\ sent'[d] \in 1 .. MaxSends
                                            /\ req'[d] \in Request(d, sent'[d])
                                            /\ req'[d].arg # Invalid
                      /\ pc'[d] = "expire" => HasSecondCall(req'[d])
    BY DEF Busy, HasSecondCall
  <2>1. Running /\ Running'
    BY DEF Call, Running, process
  <2>2. CASE d = c /\ cmd.arg # Invalid
    <3>1. pc'[d] = (IF HasSecondCall(cmd) THEN "expire" ELSE "append") /\ req'[d] = cmd
      BY <2>2 DEF Call
    <3>2. sent'[d] = sent[c] + 1
      BY <1>4, <2>2
    <3>3. QED
      BY <1>2, <2>1, <2>2, <3>1, <3>2
  <2>3. CASE d = c /\ cmd.arg = Invalid
    BY <2>3 DEF Call
  <2>4. CASE d # c
    <3>1. pc'[d] = pc[d] /\ req'[d] = req[d] /\ sent'[d] = sent[d]
      BY <1>4, <2>4 DEF Call
    <3>2. QED
      BY <2>1, <3>1 DEF Busy
  <2>5. QED
    BY <2>2, <2>3, <2>4
<1>10. QED
  BY <1>2, <1>3, <1>5, <1>8, <1>9

(* What a connection is working on.                                        *)
LEMMA Working ==
  ASSUME BaseInv, NEW c \in Client, pc[c] # "read"
  PROVE  /\ Running /\ sent[c] \in 1 .. MaxSends
         /\ req[c] \in Request(c, sent[c]) /\ req[c].arg # Invalid
         /\ req[c] \in Sent /\ WellFormed(req[c])
<1>1. /\ Running /\ sent[c] \in 1 .. MaxSends
      /\ req[c] \in Request(c, sent[c]) /\ req[c].arg # Invalid
  BY DEF BaseInv, Busy
<1>2. req[c] \in Requests
  BY <1>1 DEF Requests
<1>3. sent[c] \in 1 .. sent[c]
  BY <1>1
<1>4. QED
  BY <1>1, <1>2, <1>3, RequestFits DEF Sent

LEMMA SetDeadlineBase ==
  ASSUME BaseInv, NEW c \in Client, SetDeadline(c)
  PROVE  BaseInv'
<1> USE DEF BaseInv, Typed
<1>1. WellFormed(req[c]) /\ HasSecondCall(req[c]) /\ req[c].arg # Invalid
  BY Working DEF SetDeadline, Busy
<1>2. Sound(store')
  BY <1>1, ClockTicks, SecondCallSound DEF SetDeadline
<1>3. Sent' = Sent
  BY DEF SetDeadline, Sent
<1>4. Typed'
  BY <1>2, <1>3 DEF SetDeadline, disk, process
<1>5. Busy'
  BY DEF SetDeadline, Busy, Running, process, HasSecondCall
<1>6. QED
  BY <1>4, <1>5

LEMMA AppendBase ==
  ASSUME BaseInv, NEW c \in Client, AppendAndReply(c)
  PROVE  BaseInv'
<1> USE DEF BaseInv, Typed
<1>1. req[c] \in Sent
  BY Working DEF AppendAndReply
<1>2. Sent' = Sent
  BY DEF AppendAndReply, Sent
<1>3. buffer' \in Seq(Sent)
  BY <1>1, AppendProperties DEF AppendAndReply
<1>4. Typed'
  BY <1>2, <1>3 DEF AppendAndReply, process
<1>5. Busy'
  BY DEF AppendAndReply, Busy, Running, process, HasSecondCall
<1>6. QED
  BY <1>4, <1>5

LEMMA LinesStay ==
  ASSUME BaseInv, UNCHANGED sent
  PROVE  Sent' = Sent
BY DEF Sent

LEMMA NextBase == BaseInv /\ [Next]_vars => BaseInv'
<1> SUFFICES ASSUME BaseInv, [Next]_vars PROVE BaseInv'
  OBVIOUS
<1> USE DEF BaseInv, Typed
<1>1. ASSUME NEW c \in Client, Connection(c) PROVE BaseInv'
  <2>1. CASE \E cmd \in Request(c, sent[c] + 1) : Call(c, cmd)
    BY <2>1, CallBase
  <2>2. CASE SetDeadline(c)
    BY <2>2, SetDeadlineBase
  <2>3. CASE AppendAndReply(c)
    BY <2>3, AppendBase
  <2>4. ASSUME NEW k \in ReadKeys, Get(c, k) PROVE BaseInv'
    <3>1. Sound(store') /\ Sent' = Sent
      BY <2>4, GetLockedSound, LinesStay, ServerAssumption DEF Get, conn
    <3>2. QED
      BY <2>4, <3>1 DEF Get, Busy, Running, disk, process, conn, HasSecondCall
  <2>5. QED
    BY <1>1, <2>1, <2>2, <2>3, <2>4 DEF Connection
<1>2. CASE Flush
  <2>1. Sent' = Sent /\ file \o buffer \in Seq(Sent)
    BY <1>2, ConcatProperties, LinesStay DEF Flush, conn
  <2>2. QED
    BY <1>2, <2>1 DEF Flush, Busy, Running, process, conn, HasSecondCall
<1>3. ASSUME NEW k \in Key, SweepKey(k) PROVE BaseInv'
  <2>1. Sound(store') /\ Sent' = Sent
    BY <1>3, RemoveLockedSound, LinesStay DEF SweepKey, conn
  <2>2. QED
    BY <1>3, <2>1 DEF SweepKey, Busy, Running, disk, process, conn, HasSecondCall
<1>4. CASE Tick
  <2>1. Sent' = Sent /\ now' \in Start .. MaxTime
    BY <1>4, LinesStay, ServerAssumption DEF Tick, conn
  <2>2. QED
    BY <1>4, <2>1 DEF Tick, Busy, Running, disk, process, conn, HasSecondCall
<1>5. CASE Crash \/ Exit
  <2>1. Die
    BY <1>5 DEF Crash, Exit
  <2>2. Sent' = Sent /\ Sound(store')
    BY <2>1, LinesStay, EmptyStoreSound DEF Die
  <2>3. QED
    BY <2>1, <2>2 DEF Die, Busy
<1>6. CASE Signal
  <2>1. Sent' = Sent /\ file \o buffer \in Seq(Sent)
    BY <1>6, ConcatProperties, LinesStay DEF Signal, conn
  <2>2. QED
    BY <1>6, <2>1 DEF Signal, Busy, Running, conn, HasSecondCall
<1>7. CASE Restart
  <2>1. Sent' = Sent
    BY <1>7, LinesStay DEF Restart, conn
  <2>2. QED
    BY <1>7, <2>1 DEF Restart, Busy, Running, disk, conn, HasSecondCall
<1>8. CASE ReplayStep
  <2>1. Sent' = Sent /\ file[pos] \in Sent
    BY <1>8, LinesStay, ElementOfSeq DEF ReplayStep, conn
  <2>2. WellFormed(file[pos]) /\ file[pos].arg # Invalid
    BY <2>1, RequestFits DEF Sent
  <2>3. Sound(store')
    BY <1>8, <2>2, ExecuteSound, ClockTicks DEF ReplayStep
  <2>4. buffer' \in Seq(Sent)
    BY <1>8, <2>1, AppendProperties DEF ReplayStep
  <2>5. QED
    BY <1>8, <2>1, <2>3, <2>4 DEF ReplayStep, Busy, Running, conn, HasSecondCall
<1>9. CASE ReplayEnd
  <2>1. Sent' = Sent
    BY <1>9, LinesStay DEF ReplayEnd, conn
  <2>2. QED
    BY <1>9, <2>1 DEF ReplayEnd, Busy, Running, disk, conn, HasSecondCall
<1>10. CASE UNCHANGED vars
  BY <1>10, LinesStay DEF vars, Busy, Running, disk, process, conn, HasSecondCall
<1>11. QED
  BY <1>1, <1>2, <1>3, <1>4, <1>5, <1>6, <1>7, <1>8, <1>9, <1>10 DEF Next

LEMMA AlwaysBase == Spec => []BaseInv
BY InitBase, NextBase, PTL DEF Spec

-----------------------------------------------------------------------------
(* SET ... EX and its deadline.                                            *)

Timed(s, k) == Has(s, k) => s.data[k].expiresAt # NoExpiry

LEMMA TimedElsewhere ==
  ASSUME NEW s, Sound(s), NEW cmd, WellFormed(cmd), NEW t, NEW k \in Key, Timed(s, k),
         cmd.key # k
  PROVE  Timed(FirstCall(s, cmd, t), k)
<1>1. CASE cmd.name = "FLUSHALL"
  <2>1. FirstCall(s, cmd, t).data[k] = Absent
    BY <1>1, CallOf DEF EmptyStore
  <2>2. QED
    BY <2>1 DEF Timed, Has
<1>2. CASE cmd.name # "FLUSHALL"
  BY <1>2, FirstCallSpares, NamesKnown DEF Spared, Timed, Has
<1>3. QED
  BY <1>1, <1>2

(* What does not make a key takes no deadline from it.                     *)
LEMMA TimedStays ==
  ASSUME NEW s, Sound(s), NEW cmd, WellFormed(cmd), NEW t \in Int, t >= Start,
         NEW k \in Key, Timed(s, k), cmd.key = k,
         cmd.name \in {"DEL", "EXPIRE", "LPOP", "FLUSHALL"}
  PROVE  Timed(FirstCall(s, cmd, t), k)
<1>1. CASE cmd.name = "DEL"
  BY <1>1, CallOf, DelLeaves DEF Timed
<1>2. CASE cmd.name = "EXPIRE"
  <2>1. t + cmd.arg * Second # NoExpiry
    BY <1>2, DeadlineIsTime DEF WellFormed
  <2>2. QED
    BY <1>2, <2>1, CallOf, ExpireLeaves DEF Timed
<1>3. CASE cmd.name = "LPOP"
  BY <1>3, CallOf, LPopLeaves DEF Timed
<1>4. CASE cmd.name = "FLUSHALL"
  <2>1. FirstCall(s, cmd, t).data[k] = Absent
    BY <1>4, CallOf DEF EmptyStore
  <2>2. QED
    BY <2>1 DEF Timed, Has
<1>5. QED
  BY <1>1, <1>2, <1>3, <1>4

(* A second call leaves a deadline, the key being live or expired.         *)
LEMMA SecondCallTimes ==
  ASSUME NEW s, Sound(s), NEW cmd, WellFormed(cmd), HasSecondCall(cmd), cmd.arg # Invalid,
         NEW t \in Int, t >= Start
  PROVE  /\ Timed(SecondCall(s, cmd, t), cmd.key)
         /\ \A k \in Key : Timed(s, k) => Timed(SecondCall(s, cmd, t), k)
<1>1. cmd.key \in Key
  BY NamesKnown
<1>2. t + cmd.arg * Second # NoExpiry
  BY DeadlineIsTime DEF WellFormed, HasSecondCall
<1>3. Timed(SecondCall(s, cmd, t), cmd.key)
  BY <1>1, <1>2, ExpireLeaves DEF SecondCall, Timed, Live, IsExpired
<1>4. ASSUME NEW k \in Key, k # cmd.key, Timed(s, k) PROVE Timed(SecondCall(s, cmd, t), k)
  BY <1>1, <1>4, SecondCallSpares DEF Timed, Has
<1>5. QED
  BY <1>3, <1>4

(* Of a connection that has set its deadline and not yet appended.         *)
Due(c) == pc[c] = "append" /\ HasSecondCall(req[c])

LEMMA DeadlineSetMeans == DeadlineSet <=> \A c \in Client : Due(c) => Timed(store, req[c].key)
BY DEF DeadlineSet, Due, Timed

(* A step that changes no connection and takes no deadline away.           *)
LEMMA DeadlinesLeft ==
  ASSUME BaseInv, DeadlineSet, UNCHANGED <<pc, req>>,
         \A k \in Key : Timed(store, k) => Timed(store', k)
  PROVE  DeadlineSet'
<1> SUFFICES ASSUME NEW c \in Client, Due(c)' PROVE Timed(store', req'[c].key)
  BY DEF DeadlineSet, Due, Timed
<1>1. Due(c) /\ req'[c].key = req[c].key
  BY DEF Due, HasSecondCall
<1>2. req[c].key \in Key
  BY <1>1, Working, NamesKnown DEF Due
<1>3. QED
  BY <1>1, <1>2, DeadlineSetMeans

LEMMA CallDeadlines ==
  ASSUME DeadlinesByOne, BaseInv, DeadlineSet,
         NEW c \in Client, NEW cmd \in Request(c, sent[c] + 1), Call(c, cmd)
  PROVE  DeadlineSet'
<1> SUFFICES ASSUME NEW d \in Client, Due(d)' PROVE Timed(store', req'[d].key)
  BY DEF DeadlineSet, Due, Timed
<1>1. /\ cmd \in Requests /\ WellFormed(cmd) /\ sent[c] + 1 \in 1 .. MaxSends
      /\ Sound(store) /\ now \in Int /\ now >= Start /\ cmd.key \in Key
      /\ pc \in [Client -> {"read", "expire", "append"}]
      /\ req \in [Client -> Requests \cup {NoCmd}]
  BY CallBase, RequestFits, ClockTicks, NamesKnown DEF BaseInv, Typed
<1>2. store' = FirstCall(store, cmd, now)
  BY DEF Call
<1>3. d # c
  <2>1. SUFFICES ASSUME d = c PROVE FALSE
    OBVIOUS
  <2>2. pc[c] = "read"
    BY DEF Call
  <2>3. CASE cmd.arg = Invalid
    BY <2>1, <2>2, <2>3 DEF Call, Due
  <2>4. CASE cmd.arg # Invalid
    BY <1>1, <2>1, <2>4 DEF Call, Due
  <2>5. QED
    BY <2>3, <2>4
<1>4. pc'[d] = pc[d] /\ req'[d] = req[d]
  BY <1>1, <1>3 DEF Call
<1>5. Due(d) /\ HasSecondCall(req[d])
  BY <1>4 DEF Due, HasSecondCall
<1>6. /\ req[d] \in Request(d, sent[d]) /\ sent[d] \in 1 .. MaxSends
      /\ req[d].key \in Key
  BY <1>5, Working, NamesKnown DEF Due
<1>7. Timed(store, req[d].key)
  BY <1>5, DeadlineSetMeans
<1>8. CASE cmd.key = req[d].key
  <2>1. cmd.name \in {"DEL", "EXPIRE", "LPOP", "FLUSHALL"}
    BY <1>1, <1>3, <1>5, <1>6, <1>8 DEF DeadlinesByOne
  <2>2. QED
    BY <1>1, <1>2, <1>4, <1>7, <1>8, <2>1, TimedStays
<1>9. CASE cmd.key # req[d].key
  BY <1>1, <1>2, <1>4, <1>6, <1>7, <1>9, TimedElsewhere
<1>10. QED
  BY <1>8, <1>9

LEMMA SetDeadlineDeadlines ==
  ASSUME BaseInv, DeadlineSet, NEW c \in Client, SetDeadline(c)
  PROVE  DeadlineSet'
<1> SUFFICES ASSUME NEW d \in Client, Due(d)' PROVE Timed(store', req'[d].key)
  BY DEF DeadlineSet, Due, Timed
<1>1. /\ WellFormed(req[c]) /\ HasSecondCall(req[c]) /\ req[c].arg # Invalid
      /\ Sound(store) /\ now \in Int /\ now >= Start /\ req' = req
      /\ store' = SecondCall(store, req[c], now)
      /\ pc \in [Client -> {"read", "expire", "append"}]
  BY Working, ClockTicks DEF SetDeadline, BaseInv, Typed, Busy
<1>2. CASE d = c
  BY <1>1, <1>2, SecondCallTimes
<1>3. CASE d # c
  <2>1. pc'[d] = pc[d]
    BY <1>1, <1>3 DEF SetDeadline
  <2>2. Due(d)
    BY <1>1, <2>1 DEF Due, HasSecondCall
  <2>3. Timed(store, req[d].key) /\ req[d].key \in Key
    BY <2>2, DeadlineSetMeans, Working, NamesKnown DEF Due
  <2>4. QED
    BY <1>1, <2>3, SecondCallTimes
<1>4. QED
  BY <1>2, <1>3

LEMMA NextDeadlines ==
  ASSUME DeadlinesByOne, BaseInv, DeadlineSet, [Next]_vars
  PROVE  DeadlineSet'
<1>1. Sound(store) /\ ReadKeys \subseteq Key
  BY ServerAssumption DEF BaseInv, Typed
<1>2. ASSUME NEW c \in Client, Connection(c) PROVE DeadlineSet'
  <2>1. CASE \E cmd \in Request(c, sent[c] + 1) : Call(c, cmd)
    BY <2>1, CallDeadlines
  <2>2. CASE SetDeadline(c)
    BY <2>2, SetDeadlineDeadlines
  <2>3. CASE AppendAndReply(c)
    <3>1. \A d \in Client : d # c => pc'[d] = pc[d] /\ req'[d] = req[d]
      BY <2>3 DEF AppendAndReply, BaseInv, Typed
    <3>2. pc'[c] = "read" /\ store' = store
      BY <2>3 DEF AppendAndReply, BaseInv, Typed
    <3>3. QED
      BY <3>1, <3>2 DEF DeadlineSet, HasSecondCall
  <2>4. ASSUME NEW k \in ReadKeys, Get(c, k) PROVE DeadlineSet'
    <3>1. store' = GetLocked(store, k, now) /\ UNCHANGED <<pc, req>>
      BY <2>4 DEF Get, conn
    <3>2. \A j \in Key : Timed(store, j) => Timed(store', j)
      BY <1>1, <3>1, GetLockedSpares DEF Timed, Has
    <3>3. QED
      BY <3>1, <3>2, DeadlinesLeft
  <2>5. QED
    BY <1>2, <2>1, <2>2, <2>3, <2>4 DEF Connection
<1>3. CASE Flush \/ Tick \/ Signal
  BY <1>3, DeadlinesLeft DEF Flush, Tick, Signal, conn
<1>4. ASSUME NEW k \in Key, SweepKey(k) PROVE DeadlineSet'
  <2>1. store' = DelOne(store, k) /\ UNCHANGED <<pc, req>>
    BY <1>4 DEF SweepKey, conn, DelOne
  <2>2. \A j \in Key : Timed(store, j) => Timed(store', j)
    BY <1>1, <2>1, DelLeaves DEF Timed, Has
  <2>3. QED
    BY <2>1, <2>2, DeadlinesLeft
<1>5. CASE Crash \/ Exit
  BY <1>5 DEF Crash, Exit, Die, DeadlineSet
<1>6. CASE Restart \/ ReplayEnd
  BY <1>6, DeadlinesLeft DEF Restart, ReplayEnd, conn
<1>7. CASE ReplayStep
  <2>1. \A c \in Client : pc'[c] # "append"
    BY <1>7 DEF ReplayStep, conn, BaseInv, Busy, Running
  <2>2. QED
    BY <2>1 DEF DeadlineSet
<1>8. CASE UNCHANGED vars
  BY <1>8, DeadlinesLeft DEF vars, conn
<1>9. QED
  BY <1>2, <1>3, <1>4, <1>5, <1>6, <1>7, <1>8 DEF Next

(* SET ... EX takes the lock of the store twice; by the time it is logged  *)
(* its key has the deadline or is gone, for any number of clients whose    *)
(* sweeps, deletions, new deadlines, evictions and crashes come between    *)
(* the two calls.  The assumption is needed: a SET of another client there *)
(* takes the deadline away.                                                *)
THEOREM DeadlineComesWithValue ==
  ASSUME DeadlinesByOne
  PROVE  Spec => []DeadlineSet
<1>1. Init => DeadlineSet
  BY DEF Init, DeadlineSet
<1>2. BaseInv /\ DeadlineSet /\ [Next]_vars => DeadlineSet'
  BY NextDeadlines
<1>3. QED
  BY <1>1, <1>2, AlwaysBase, PTL DEF Spec

-----------------------------------------------------------------------------
(* Versions in a log.                                                      *)

(* Keys of which clients send versions.                                    *)
Versions ==
  {k \in Lasting : \E c \in Client, n \in 1 .. MaxSends : \E x \in Request(c, n) :
                     x.name = "SET" /\ x.key = k}

Mentions(f, k) == \E i \in DOMAIN f : f[i].key = k

(* No version of k in the log f is newer than v.                           *)
Bounds(f, k, v) == \A i \in DOMAIN f : f[i].key = k => f[i].vals[1] <= v

(* The last version of k in f is v.                                        *)
Ends(f, k, v) ==
  \E i \in DOMAIN f : /\ f[i].key = k /\ f[i].vals[1] = v
                      /\ \A j \in DOMAIN f : j > i => f[j].key # k

(* Replaying f leaves the newest version of k that f has.  The versions    *)
(* need not be in order, as f may hold a log twice.                        *)
LastIsTop(f, k) == Mentions(f, k) => \E v \in Nat : Bounds(f, k, v) /\ Ends(f, k, v)

LEMMA EndsOnce ==
  ASSUME NEW S, NEW f \in Seq(S), NEW k, NEW v, NEW w, Ends(f, k, v), Ends(f, k, w)
  PROVE  v = w
<1>1. PICK i \in DOMAIN f : /\ f[i].key = k /\ f[i].vals[1] = v
                            /\ \A j \in DOMAIN f : j > i => f[j].key # k
  BY DEF Ends
<1>2. PICK h \in DOMAIN f : /\ f[h].key = k /\ f[h].vals[1] = w
                            /\ \A j \in DOMAIN f : j > h => f[j].key # k
  BY DEF Ends
<1>3. i \in Nat /\ h \in Nat
  OBVIOUS
<1>4. i = h
  BY <1>1, <1>2, <1>3
<1>5. QED
  BY <1>1, <1>2, <1>4

LEMMA AppendedLine ==
  ASSUME NEW S, NEW f \in Seq(S), NEW l \in S
  PROVE  /\ DOMAIN Append(f, l) = 1 .. Len(f) + 1 /\ DOMAIN f = 1 .. Len(f) /\ Len(f) \in Nat
         /\ \A i \in 1 .. Len(f) : Append(f, l)[i] = f[i]
         /\ Append(f, l)[Len(f) + 1] = l
OBVIOUS

(* A new version at the end, or a line about another key.                  *)
LEMMA AppendVersion ==
  ASSUME NEW S, NEW f \in Seq(S), NEW l \in S, NEW k
  PROVE  /\ l.key = k => Ends(Append(f, l), k, l.vals[1])
         /\ \A v : Bounds(f, k, v) /\ (l.key = k => l.vals[1] <= v) => Bounds(Append(f, l), k, v)
         /\ \A v : l.key # k /\ Ends(f, k, v) => Ends(Append(f, l), k, v)
         /\ l.key # k => (Mentions(Append(f, l), k) <=> Mentions(f, k))
<1> DEFINE g == Append(f, l)
           n == Len(f)
<1>1. /\ DOMAIN g = 1 .. n + 1 /\ DOMAIN f = 1 .. n /\ n \in Nat
      /\ \A i \in 1 .. n : g[i] = f[i]
      /\ g[n + 1] = l
  BY AppendedLine
<1> HIDE DEF g, n
<1>2. \A i \in DOMAIN g : i \in DOMAIN f \/ i = n + 1
  BY <1>1
<1>3. l.key = k => Ends(g, k, l.vals[1])
  <2>1. n + 1 \in DOMAIN g /\ \A j \in DOMAIN g : ~(j > n + 1)
    BY <1>1
  <2>2. QED
    BY <1>1, <2>1 DEF Ends
<1>4. ASSUME NEW v, Bounds(f, k, v), l.key = k => l.vals[1] <= v
      PROVE  Bounds(g, k, v)
  BY <1>1, <1>2, <1>4 DEF Bounds
<1>5. ASSUME NEW v, l.key # k, Ends(f, k, v) PROVE Ends(g, k, v)
  <2>1. PICK i \in DOMAIN f : /\ f[i].key = k /\ f[i].vals[1] = v
                              /\ \A j \in DOMAIN f : j > i => f[j].key # k
    BY <1>5 DEF Ends
  <2>2. i \in DOMAIN g /\ g[i] = f[i]
    BY <1>1
  <2>3. \A j \in DOMAIN g : j > i => g[j].key # k
    BY <1>1, <1>2, <1>5, <2>1
  <2>4. QED
    BY <2>1, <2>2, <2>3 DEF Ends
<1>6. l.key # k => (Mentions(g, k) <=> Mentions(f, k))
  BY <1>1, <1>2 DEF Mentions
<1>7. QED
  BY <1>3, <1>4, <1>5, <1>6 DEF g

(* A log after itself.                                                     *)
LEMMA TwiceTheLog ==
  ASSUME NEW S, NEW f \in Seq(S), NEW k, NEW v
  PROVE  /\ Bounds(f, k, v) => Bounds(f \o f, k, v)
         /\ Ends(f, k, v) => Ends(f \o f, k, v)
         /\ Mentions(f \o f, k) => Mentions(f, k)
<1> DEFINE g == f \o f
           n == Len(f)
<1>1. /\ DOMAIN g = 1 .. n + n /\ DOMAIN f = 1 .. n /\ n \in Nat
      /\ \A i \in 1 .. n : g[i] = f[i] /\ g[n + i] = f[i]
  OBVIOUS
<1> HIDE DEF g, n
<1>2. \A i \in DOMAIN g : \/ i \in DOMAIN f /\ g[i] = f[i]
                          \/ i - n \in DOMAIN f /\ g[i] = f[i - n]
  <2> SUFFICES ASSUME NEW i \in DOMAIN g, i \notin DOMAIN f
               PROVE  i - n \in DOMAIN f /\ g[i] = f[i - n]
    BY <1>1
  <2>1. i - n \in 1 .. n /\ i = n + (i - n)
    BY <1>1
  <2>2. QED
    BY <1>1, <2>1
<1>3. Bounds(f, k, v) => Bounds(g, k, v)
  BY <1>2 DEF Bounds
<1>4. ASSUME Ends(f, k, v) PROVE Ends(g, k, v)
  <2>1. PICK i \in DOMAIN f : /\ f[i].key = k /\ f[i].vals[1] = v
                              /\ \A j \in DOMAIN f : j > i => f[j].key # k
    BY <1>4 DEF Ends
  <2>2. n + i \in DOMAIN g /\ g[n + i] = f[i]
    BY <1>1
  <2>3. ASSUME NEW j \in DOMAIN g, j > n + i PROVE g[j].key # k
    <3>1. j - n \in DOMAIN f /\ j - n > i /\ j = n + (j - n)
      BY <1>1, <2>3
    <3>2. g[j] = f[j - n]
      BY <1>1, <3>1
    <3>3. QED
      BY <2>1, <3>1, <3>2
  <2>4. QED
    BY <2>1, <2>2, <2>3 DEF Ends
<1>5. Mentions(g, k) => Mentions(f, k)
  BY <1>2 DEF Mentions
<1>6. QED
  BY <1>3, <1>4, <1>5 DEF g

LEMMA NothingEnds ==
  ASSUME NEW k, NEW v
  PROVE  ~Mentions(<<>>, k) /\ LastIsTop(<<>>, k) /\ Bounds(<<>>, k, v)
BY DEF Mentions, LastIsTop, Bounds

-----------------------------------------------------------------------------
(* What the server serves and what the log says.                           *)

(* Only w writes k, and its nth command stores version n.                  *)
Owns(w, k) ==
  \A c \in Client, n \in 1 .. MaxSends : \A x \in Request(c, n) :
    x.key = k => c = w /\ x = SetValue(k, n)

Steady(k) ==
  Has(store, k) => store.data[k].expiresAt = NoExpiry /\ store.data[k].str \in Nat

Served(k) ==
  Running => LastIsTop(file \o buffer, k) /\ Bounds(file \o buffer, k, Version(k))

Pending(k) ==
  \A c \in Client : pc[c] = "append" /\ req[c].key = k => req[c].vals[1] = Version(k)

(* Between two lines of a replay the store has what the lines so far say.  *)
Replaying(k) ==
  phase = "replay" /\ Mentions(buffer, k) => Ends(buffer, k, Version(k))

KeyInv(k) == Steady(k) /\ LastIsTop(file, k) /\ Served(k) /\ Pending(k) /\ Replaying(k)

(* Dispatch copies each line it replays to the buffer.                     *)
BufferInv ==
  /\ phase = "down" => buffer = <<>>
  /\ phase = "replay" => pos <= Len(file) + 1 /\ buffer = SubSeq(file, 1, pos - 1)

VersionInv == BufferInv /\ \A k \in Versions : KeyInv(k)

LEMMA OneWriter ==
  ASSUME VersionsNumbered, NEW k \in Versions
  PROVE  \E w \in Client : Owns(w, k)
<1>1. PICK c \in Client, n \in 1 .. MaxSends : \E x \in Request(c, n) : x.name = "SET" /\ x.key = k
  BY DEF Versions
<1>2. PICK x \in Request(c, n) : x.name = "SET" /\ x.key = k
  BY <1>1
<1>3. k \in Lasting
  BY DEF Versions
<1>4. Owns(c, k)
  BY <1>2, <1>3 DEF VersionsNumbered, Owns
<1>5. QED
  BY <1>4

LEMMA SetValueIs ==
  ASSUME NEW k, NEW n
  PROVE  /\ SetValue(k, n).name = "SET" /\ SetValue(k, n).key = k
         /\ SetValue(k, n).vals[1] = n /\ ~HasSecondCall(SetValue(k, n))
BY DEF SetValue, Cmd, HasSecondCall

(* A line about such a key has a version its writer has sent.              *)
LEMMA LineIsVersion ==
  ASSUME BaseInv, NEW k, NEW w \in Client, Owns(w, k), NEW l \in Sent, l.key = k
  PROVE  l = SetValue(k, l.vals[1]) /\ l.vals[1] \in 1 .. sent[w]
<1>1. PICK c \in Client : \E n \in 1 .. sent[c] : l \in Request(c, n)
  BY DEF Sent
<1> PICK n \in 1 .. sent[c] : l \in Request(c, n)
  BY <1>1
<1>2. n \in 1 .. MaxSends
  BY <1>1, ServerAssumption DEF BaseInv, Typed
<1>3. c = w /\ l = SetValue(k, n)
  BY <1>2 DEF Owns
<1>4. QED
  BY <1>3, SetValueIs

LEMMA KeysOfLasting ==
  ASSUME NEW k \in Versions
  PROVE  k \in Key
BY ServerAssumption DEF Versions

LEMMA SetCmdStores ==
  ASSUME NEW s, Sound(s), NEW k \in Key, NEW v \in Val
  PROVE  /\ Has(SetCmd(s, k, v), k)
         /\ SetCmd(s, k, v).data[k].str = v
         /\ SetCmd(s, k, v).data[k].expiresAt = NoExpiry
<1> DEFINE e == [NewEntry("String") EXCEPT !.str = v]
<1>1. e \in Entry /\ e.str = v /\ e.expiresAt = NoExpiry
  <2>1. NewEntry("String") \in Entry
    BY NewEntryTyped DEF VType
  <2>2. NewEntry("String").expiresAt = NoExpiry
    BY DEF NewEntry
  <2>3. QED
    BY <2>1, <2>2 DEF Entry
<1>2. SetCmd(s, k, v).data[k] = e
  BY <1>1, SetLockedSound DEF SetCmd
<1>3. QED
  BY <1>1, <1>2, SetCmdSound

(* Storing a version.                                                      *)
LEMMA VersionStored ==
  ASSUME NEW s, Sound(s), NEW k \in Key, NEW n \in Nat, NEW cmd, WellFormed(cmd),
         cmd = SetValue(k, n), NEW t
  PROVE  /\ Execute(s, cmd, t) = FirstCall(s, cmd, t)
         /\ Has(FirstCall(s, cmd, t), k)
         /\ FirstCall(s, cmd, t).data[k].str = n
         /\ FirstCall(s, cmd, t).data[k].expiresAt = NoExpiry
<1>1. n \in Val
  BY SetValueIs DEF WellFormed
<1>2. FirstCall(s, cmd, t) = SetCmd(s, k, n)
  BY CallOf, SetValueIs
<1>3. QED
  BY <1>1, <1>2, SetCmdStores, SetValueIs DEF Execute

(* A command about another key leaves the entry alone.                     *)
LEMMA EntryLeft ==
  ASSUME MaxKeys <= 0, NEW s, Sound(s), NEW cmd \in Requests, cmd.name # "FLUSHALL",
         NEW k \in Key, cmd.key # k, NEW t \in Int, t >= Start
  PROVE  /\ FirstCall(s, cmd, t).data[k] = s.data[k]
         /\ cmd.arg # Invalid => Execute(s, cmd, t).data[k] = s.data[k]
<1>1. WellFormed(cmd) /\ cmd.key \in Key /\ MaxKeys \in Int
  BY RequestFits, NamesKnown, StoreAssumption
<1>2. FirstCall(s, cmd, t).data[k] = s.data[k]
  BY <1>1, FirstCallSpares DEF Spared
<1>3. Sound(FirstCall(s, cmd, t))
  BY <1>1, FirstCallSound
<1>4. QED
  BY <1>1, <1>2, <1>3, SecondCallSpares DEF Execute

LEMMA VersionLeft ==
  ASSUME VersionsNumbered, NEW s, Sound(s), NEW cmd \in Requests, NEW k \in Key, cmd.key # k,
         NEW t \in Int, t >= Start
  PROVE  /\ FirstCall(s, cmd, t).data[k] = s.data[k]
         /\ cmd.arg # Invalid => Execute(s, cmd, t).data[k] = s.data[k]
<1>1. cmd.name # "FLUSHALL" /\ MaxKeys <= 0
  BY DEF VersionsNumbered, Requests
<1>2. QED
  BY <1>1, EntryLeft

(* A step that leaves the entry of k, the log and the process alone, and   *)
(* no connection with a version it had not before.                         *)
LEMMA KeyLeft ==
  ASSUME NEW k, KeyInv(k), store'.data[k] = store.data[k],
         UNCHANGED <<file, buffer, phase>>,
         \A c \in Client : pc'[c] = "append" /\ req'[c].key = k => pc[c] = "append" /\ req'[c] = req[c]
  PROVE  KeyInv(k)'
<1>1. Version(k)' = Version(k) /\ Steady(k)'
  BY DEF KeyInv, Steady, Version, Has
<1>2. LastIsTop(file, k)'
  BY DEF KeyInv, LastIsTop, Mentions, Bounds, Ends
<1> DEFINE v == Version(k)
<1>3. Served(k)' /\ Replaying(k)'
  <2>1. /\ Served(k) /\ Replaying(k) /\ file' = file /\ buffer' = buffer /\ phase' = phase
        /\ Version(k)' = v
    BY <1>1 DEF KeyInv
  <2> HIDE DEF v
  <2>2. v = Version(k)
    BY DEF v
  <2>3. LastIsTop(file \o buffer, k)' <=> LastIsTop(file \o buffer, k)
    BY <2>1 DEF LastIsTop, Mentions, Bounds, Ends
  <2>4. Bounds(file \o buffer, k, Version(k))' <=> Bounds(file \o buffer, k, Version(k))
    BY <2>1, <2>2 DEF Bounds
  <2>5. Ends(buffer, k, Version(k))' <=> Ends(buffer, k, Version(k))
    BY <2>1, <2>2 DEF Ends
  <2>6. QED
    BY <2>1, <2>3, <2>4, <2>5 DEF Served, Replaying, Running, Mentions
<1>4. Pending(k)'
  BY <1>1 DEF KeyInv, Pending
<1>5. QED
  BY <1>1, <1>2, <1>3, <1>4 DEF KeyInv

(* What is to be shown after a step.                                       *)
LEMMA KeyInvNext ==
  ASSUME NEW k, NEW v, v = Version(k)',
         Has(store', k) => store'.data[k].expiresAt = NoExpiry /\ store'.data[k].str \in Nat,
         LastIsTop(file', k),
         Running' => LastIsTop(file' \o buffer', k) /\ Bounds(file' \o buffer', k, v),
         \A c \in Client : pc'[c] = "append" /\ req'[c].key = k => req'[c].vals[1] = v,
         phase' = "replay" /\ Mentions(buffer', k) => Ends(buffer', k, v)
  PROVE  KeyInv(k)'
<1>1. Steady(k)' /\ LastIsTop(file, k)'
  BY DEF Steady, Has, LastIsTop, Mentions, Bounds, Ends
<1>2. LastIsTop(file \o buffer, k)' <=> LastIsTop(file' \o buffer', k)
  BY DEF LastIsTop, Mentions, Bounds, Ends
<1>3. Bounds(file \o buffer, k, Version(k))' <=> Bounds(file' \o buffer', k, v)
  BY DEF Bounds
<1>4. Ends(buffer, k, Version(k))' <=> Ends(buffer', k, v)
  BY DEF Ends
<1>5. Served(k)' /\ Replaying(k)'
  BY <1>2, <1>3, <1>4 DEF Served, Replaying, Mentions
<1>6. Pending(k)'
  BY DEF Pending
<1>7. QED
  BY <1>1, <1>5, <1>6 DEF KeyInv

LEMMA VersionIs ==
  ASSUME NEW k
  PROVE  /\ Version(k) = IF Has(store, k) THEN store.data[k].str ELSE 0
         /\ Version(k)' = IF Has(store', k) THEN store'.data[k].str ELSE 0
         /\ store' = store => Version(k)' = Version(k)
         /\ Steady(k) => Version(k) \in Nat
BY DEF Version, Steady, Has

(* The owner of a key sends its next version; nothing in the log is as new. *)
LEMMA CallVersion ==
  ASSUME BaseInv, NEW k \in Versions, NEW w \in Client, Owns(w, k), KeyInv(k),
         NEW c \in Client, NEW cmd \in Request(c, sent[c] + 1), Call(c, cmd), cmd.key = k
  PROVE  KeyInv(k)'
<1> DEFINE n == sent[c] + 1
<1>1. /\ cmd \in Requests /\ WellFormed(cmd) /\ n \in 1 .. MaxSends /\ k \in Key
      /\ Sound(store) /\ MaxSends \in Nat /\ sent[c] \in 0 .. MaxSends
      /\ pc \in [Client -> {"read", "expire", "append"}]
      /\ req \in [Client -> Requests \cup {NoCmd}]
      /\ file \in Seq(Sent) /\ buffer \in Seq(Sent)
  BY CallBase, RequestFits, KeysOfLasting, ServerAssumption DEF BaseInv, Typed
<1>2. c = w /\ cmd = SetValue(k, n)
  BY <1>1 DEF Owns
<1>3. n \in Nat
  BY <1>1
<1>4. /\ store' = FirstCall(store, cmd, now) /\ Running /\ phase' = phase
      /\ file' = file /\ buffer' = buffer
  BY DEF Call, disk, process
<1>5. Has(store', k) /\ store'.data[k].str = n /\ store'.data[k].expiresAt = NoExpiry
  BY <1>1, <1>2, <1>3, <1>4, VersionStored
<1>6. Version(k)' = n
  BY <1>5, VersionIs
<1>7. Bounds(file \o buffer, k, n)
  <2>1. file \o buffer \in Seq(Sent)
    BY <1>1, ConcatProperties
  <2>2. ASSUME NEW i \in DOMAIN (file \o buffer), (file \o buffer)[i].key = k
        PROVE  (file \o buffer)[i].vals[1] <= n
    <3>1. (file \o buffer)[i] \in Sent
      BY <2>1
    <3>2. (file \o buffer)[i].vals[1] \in 1 .. sent[w]
      BY <2>2, <3>1, LineIsVersion
    <3>3. QED
      BY <1>1, <1>2, <3>2
  <2>3. QED
    BY <2>2 DEF Bounds
<1>8. ASSUME NEW d \in Client, pc'[d] = "append", req'[d].key = k PROVE req'[d].vals[1] = n
  <2>1. CASE d = c
    <3>1. CASE cmd.arg = Invalid
      BY <1>8, <2>1, <3>1 DEF Call
    <3>2. CASE cmd.arg # Invalid
      BY <1>1, <1>2, <2>1, <3>2, SetValueIs DEF Call
    <3>3. QED
      BY <3>1, <3>2
  <2>2. CASE d # c
    <3>1. pc[d] = "append" /\ req[d].key = k
      BY <1>1, <1>8, <2>2 DEF Call
    <3>2. req[d] \in Request(d, sent[d]) /\ sent[d] \in 1 .. MaxSends
      BY <3>1, Working
    <3>3. QED
      BY <1>2, <2>2, <3>1, <3>2 DEF Owns
  <2>3. QED
    BY <2>1, <2>2
<1>9. phase' # "replay"
  BY <1>4 DEF Running
<1> HIDE DEF n
<1>10. QED
  BY <1>3, <1>4, <1>5, <1>6, <1>7, <1>8, <1>9, KeyInvNext DEF KeyInv, Served

LEMMA CallKeys ==
  ASSUME VersionsNumbered, BaseInv, VersionInv,
         NEW c \in Client, NEW cmd \in Request(c, sent[c] + 1), Call(c, cmd)
  PROVE  VersionInv'
<1>1. /\ cmd \in Requests /\ sent[c] + 1 \in 1 .. MaxSends
      /\ Sound(store) /\ now \in Int /\ now >= Start
      /\ pc \in [Client -> {"read", "expire", "append"}]
      /\ req \in [Client -> Requests \cup {NoCmd}]
  BY CallBase, ClockTicks DEF BaseInv, Typed
<1>2. store' = FirstCall(store, cmd, now) /\ UNCHANGED <<file, buffer, phase, pos>>
  BY DEF Call, disk, process
<1>3. ASSUME NEW k \in Versions PROVE KeyInv(k)'
  <2>1. KeyInv(k) /\ k \in Key
    BY KeysOfLasting DEF VersionInv
  <2>2. PICK w \in Client : Owns(w, k)
    BY OneWriter
  <2>3. CASE cmd.key = k
    BY <2>1, <2>2, <2>3, CallVersion
  <2>4. CASE cmd.key # k
    <3>1. store'.data[k] = store.data[k]
      BY <1>1, <1>2, <2>1, <2>4, VersionLeft
    <3>2. ASSUME NEW d \in Client, pc'[d] = "append", req'[d].key = k
          PROVE  pc[d] = "append" /\ req'[d] = req[d]
      <4>1. d # c
        <5>1. SUFFICES ASSUME d = c PROVE FALSE
          OBVIOUS
        <5>2. CASE cmd.arg = Invalid
          BY <3>2, <5>1, <5>2 DEF Call
        <5>3. CASE cmd.arg # Invalid
          BY <1>1, <2>4, <3>2, <5>1, <5>3 DEF Call
        <5>4. QED
          BY <5>2, <5>3
      <4>2. QED
        BY <1>1, <3>2, <4>1 DEF Call
    <3>3. QED
      BY <1>2, <2>1, <3>1, <3>2, KeyLeft
  <2>5. QED
    BY <2>3, <2>4
<1>4. BufferInv'
  BY <1>2 DEF VersionInv, BufferInv
<1>5. QED
  BY <1>3, <1>4 DEF VersionInv

(* A second call is about a key with deadlines.                            *)
LEMMA SetDeadlineKeys ==
  ASSUME VersionsNumbered, BaseInv, VersionInv, NEW c \in Client, SetDeadline(c)
  PROVE  VersionInv'
<1>1. /\ store' = SecondCall(store, req[c], now) /\ UNCHANGED <<file, buffer, phase, pos, req>>
      /\ Sound(store) /\ pc \in [Client -> {"read", "expire", "append"}]
  BY DEF SetDeadline, disk, process, BaseInv, Typed
<1>2. /\ req[c] \in Request(c, sent[c]) /\ sent[c] \in 1 .. MaxSends
      /\ HasSecondCall(req[c]) /\ req[c].key \in Key
  BY Working, NamesKnown DEF SetDeadline, BaseInv, Busy
<1>3. ASSUME NEW k \in Versions PROVE KeyInv(k)'
  <2>1. KeyInv(k) /\ k \in Key
    BY KeysOfLasting DEF VersionInv
  <2>2. PICK w \in Client : Owns(w, k)
    BY OneWriter
  <2>3. req[c].key # k
    BY <1>2, <2>2, SetValueIs DEF Owns
  <2>4. store'.data[k] = store.data[k]
    BY <1>1, <1>2, <2>1, <2>3, SecondCallSpares
  <2>5. \A d \in Client : pc'[d] = "append" /\ req'[d].key = k => pc[d] = "append" /\ req'[d] = req[d]
    BY <1>1, <2>3 DEF SetDeadline
  <2>6. QED
    BY <1>1, <2>1, <2>4, <2>5, KeyLeft
<1>4. BufferInv'
  BY <1>1 DEF VersionInv, BufferInv
<1>5. QED
  BY <1>3, <1>4 DEF VersionInv

(* The version is logged: it is the newest, as no other connection sends   *)
(* versions of this key.                                                   *)
LEMMA AppendKeys ==
  ASSUME VersionsNumbered, BaseInv, VersionInv, NEW c \in Client, AppendAndReply(c)
  PROVE  VersionInv'
<1> DEFINE l == req[c]
           f == file \o buffer
<1>1. /\ UNCHANGED <<store, file, phase, pos>> /\ buffer' = Append(buffer, l) /\ pc[c] = "append"
      /\ pc \in [Client -> {"read", "expire", "append"}]
      /\ req \in [Client -> Requests \cup {NoCmd}]
      /\ file \in Seq(Sent) /\ buffer \in Seq(Sent)
  BY DEF AppendAndReply, process, BaseInv, Typed
<1>2. Running /\ l \in Sent
  BY <1>1, Working
<1>3. f \in Seq(Sent) /\ file' \o buffer' = Append(f, l)
  BY <1>1, <1>2
<1>4. \A d \in Client : pc'[d] = "append" => d # c /\ pc[d] = "append" /\ req'[d] = req[d]
  BY <1>1 DEF AppendAndReply
<1>5. Running' /\ phase' # "replay" /\ phase' # "down"
  BY <1>1, <1>2 DEF Running
<1> HIDE DEF l, f
<1>6. ASSUME NEW k \in Versions PROVE KeyInv(k)'
  <2>1. KeyInv(k)
    BY DEF VersionInv
  <2>2. PICK v \in Nat : v = Version(k)
    BY <2>1, VersionIs DEF KeyInv
  <2>3. v = Version(k)'
    BY <1>1, <2>2, VersionIs
  <2>4. LastIsTop(f, k) /\ Bounds(f, k, v)
    BY <1>2, <2>1, <2>2 DEF KeyInv, Served, f
  <2>5. l.key = k => l.vals[1] = v
    BY <1>1, <2>1, <2>2 DEF KeyInv, Pending, l
  <2>6. Bounds(Append(f, l), k, v)
    <3>1. l.key = k => l.vals[1] <= v
      BY <2>5
    <3>2. QED
      BY <1>2, <1>3, <2>4, <3>1, AppendVersion
  <2>7. LastIsTop(Append(f, l), k)
    <3>1. CASE l.key = k
      <4>1. Ends(Append(f, l), k, v)
        BY <1>2, <1>3, <2>5, <3>1, AppendVersion
      <4>2. QED
        BY <2>6, <4>1 DEF LastIsTop
    <3>2. CASE l.key # k /\ Mentions(f, k)
      <4>1. PICK u \in Nat : Bounds(f, k, u) /\ Ends(f, k, u)
        BY <2>4, <3>2 DEF LastIsTop
      <4>2. Bounds(Append(f, l), k, u) /\ Ends(Append(f, l), k, u)
        BY <1>2, <1>3, <3>2, <4>1, AppendVersion
      <4>3. QED
        BY <4>2 DEF LastIsTop
    <3>3. CASE l.key # k /\ ~Mentions(f, k)
      BY <1>2, <1>3, <3>3, AppendVersion DEF LastIsTop
    <3>4. QED
      BY <3>1, <3>2, <3>3
  <2>8. \A d \in Client : pc'[d] = "append" /\ req'[d].key = k => req'[d].vals[1] = v
    BY <1>4, <2>1, <2>2 DEF KeyInv, Pending
  <2>9. /\ LastIsTop(file', k)
        /\ Has(store', k) => store'.data[k].expiresAt = NoExpiry /\ store'.data[k].str \in Nat
    BY <1>1, <2>1 DEF KeyInv, Steady
  <2>10. QED
    BY <1>3, <1>5, <2>3, <2>6, <2>7, <2>8, <2>9, KeyInvNext
<1>7. BufferInv'
  BY <1>5 DEF BufferInv
<1>8. QED
  BY <1>6, <1>7 DEF VersionInv

(* What was in the buffer is on the disk.                                  *)
LEMMA FlushKeys ==
  ASSUME BaseInv, VersionInv, Running, Running', UNCHANGED <<store, pc, req>>,
         file' = file \o buffer, buffer' = <<>>
  PROVE  VersionInv'
<1>1. file \in Seq(Sent) /\ buffer \in Seq(Sent)
  BY DEF BaseInv, Typed
<1>2. file' \o buffer' = file \o buffer
  <2>1. file \o buffer \in Seq(Sent)
    BY <1>1, ConcatProperties
  <2>2. QED
    BY <2>1
<1>3. phase' # "replay" /\ phase' # "down"
  BY DEF Running
<1>4. ASSUME NEW k \in Versions PROVE KeyInv(k)'
  <2>1. KeyInv(k)
    BY DEF VersionInv
  <2>2. PICK v : v = Version(k)
    OBVIOUS
  <2>3. v = Version(k)'
    BY <2>2, VersionIs
  <2>4. LastIsTop(file \o buffer, k) /\ Bounds(file \o buffer, k, v)
    BY <2>1, <2>2 DEF KeyInv, Served
  <2>5. \A c \in Client : pc'[c] = "append" /\ req'[c].key = k => req'[c].vals[1] = v
    BY <2>1, <2>2 DEF KeyInv, Pending
  <2>6. Has(store', k) => store'.data[k].expiresAt = NoExpiry /\ store'.data[k].str \in Nat
    BY <2>1 DEF KeyInv, Steady
  <2>7. QED
    BY <1>2, <1>3, <2>3, <2>4, <2>5, <2>6, KeyInvNext
<1>5. BufferInv'
  BY <1>3 DEF BufferInv
<1>6. QED
  BY <1>4, <1>5 DEF VersionInv

(* Memory is gone; the disk holds what it held.                            *)
LEMMA DieKeys ==
  ASSUME VersionInv, Die
  PROVE  VersionInv'
<1>1. /\ phase' = "down" /\ buffer' = <<>> /\ file' = file /\ store' = EmptyStore
      /\ \A c \in Client : pc'[c] = "read"
  BY DEF Die
<1>2. ASSUME NEW k \in Versions PROVE KeyInv(k)'
  <2>1. LastIsTop(file', k)
    BY <1>1 DEF VersionInv, KeyInv
  <2>2. ~Has(store', k)
    BY <1>1, KeysOfLasting DEF EmptyStore, Has
  <2>3. ~Running'
    BY <1>1 DEF Running
  <2>4. QED
    BY <1>1, <2>1, <2>2, <2>3, KeyInvNext
<1>3. BufferInv'
  BY <1>1 DEF BufferInv
<1>4. QED
  BY <1>2, <1>3 DEF VersionInv

LEMMA RestartKeys ==
  ASSUME BaseInv, VersionInv, Restart
  PROVE  VersionInv'
<1>1. /\ phase = "down" /\ phase' = "replay" /\ pos' = 1 /\ UNCHANGED <<store, file, buffer, pc, req>>
      /\ buffer = <<>> /\ file \in Seq(Sent)
  BY DEF Restart, disk, conn, VersionInv, BufferInv, BaseInv, Typed
<1>2. ASSUME NEW k \in Versions PROVE KeyInv(k)'
  <2>1. KeyInv(k)
    BY DEF VersionInv
  <2>2. ~Mentions(buffer', k)
    BY <1>1, NothingEnds
  <2>3. ~Running'
    BY <1>1 DEF Running
  <2>4. LastIsTop(file', k)
    BY <1>1, <2>1 DEF KeyInv
  <2>5. Has(store', k) => store'.data[k].expiresAt = NoExpiry /\ store'.data[k].str \in Nat
    BY <1>1, <2>1 DEF KeyInv, Steady
  <2>6. \A c \in Client : pc'[c] # "append"
    BY <1>1 DEF BaseInv, Busy, Running
  <2>7. QED
    BY <2>2, <2>3, <2>4, <2>5, <2>6, KeyInvNext
<1>3. BufferInv'
  <2>1. Len(file) \in Nat /\ SubSeq(file, 1, 0) = <<>>
    BY <1>1
  <2>2. QED
    BY <1>1, <2>1 DEF BufferInv
<1>4. QED
  BY <1>2, <1>3 DEF VersionInv

(* A line is executed and copied.                                          *)
LEMMA ReplayKeys ==
  ASSUME VersionsNumbered, BaseInv, VersionInv, ReplayStep
  PROVE  VersionInv'
<1> DEFINE l == file[pos]
<1>1. /\ phase = "replay" /\ phase' = "replay" /\ UNCHANGED <<file, pc, req, now>>
      /\ store' = Execute(store, l, now) /\ buffer' = Append(buffer, l) /\ pos' = pos + 1
      /\ pos \in Nat \ {0} /\ pos <= Len(file) /\ file \in Seq(Sent) /\ buffer \in Seq(Sent)
      /\ Sound(store) /\ now \in Int /\ now >= Start
      /\ buffer = SubSeq(file, 1, pos - 1)
  BY ClockTicks DEF ReplayStep, conn, BaseInv, Typed, VersionInv, BufferInv
<1>2. l \in Sent
  BY <1>1, ElementOfSeq
<1>3. l \in Requests /\ WellFormed(l) /\ l.arg # Invalid
  BY <1>2, RequestFits DEF Sent
<1>4. ~Running' /\ \A c \in Client : pc'[c] # "append"
  BY <1>1 DEF BaseInv, Busy, Running
<1>5. buffer' = SubSeq(file, 1, pos)
  BY <1>1
<1> HIDE DEF l
<1>6. ASSUME NEW k \in Versions PROVE KeyInv(k)'
  <2>1. KeyInv(k) /\ k \in Key
    BY KeysOfLasting DEF VersionInv
  <2>2. PICK w \in Client : Owns(w, k)
    BY OneWriter
  <2>3. LastIsTop(file', k)
    BY <1>1, <2>1 DEF KeyInv
  <2>4. CASE l.key = k
    <3>1. PICK n \in Nat : l = SetValue(k, n) /\ l.vals[1] = n
      <4>1. l = SetValue(k, l.vals[1]) /\ l.vals[1] \in 1 .. sent[w]
        BY <1>2, <2>2, <2>4, LineIsVersion
      <4>2. l.vals[1] \in Nat
        BY <4>1
      <4>3. QED
        BY <4>1, <4>2
    <3>2. Has(store', k) /\ store'.data[k].str = n /\ store'.data[k].expiresAt = NoExpiry
      BY <1>1, <1>3, <2>1, <3>1, VersionStored
    <3>3. Version(k)' = n
      BY <3>2, VersionIs
    <3>4. Ends(buffer', k, n)
      BY <1>1, <1>2, <2>4, <3>1, AppendVersion
    <3>5. QED
      BY <1>1, <1>4, <2>3, <3>2, <3>3, <3>4, KeyInvNext
  <2>5. CASE l.key # k
    <3>1. store'.data[k] = store.data[k]
      BY <1>1, <1>3, <2>1, <2>5, VersionLeft
    <3>2. PICK v : v = Version(k)
      OBVIOUS
    <3>3. Version(k)' = v
      BY <3>1, <3>2, VersionIs DEF Has
    <3>4. Mentions(buffer', k) => Ends(buffer', k, v)
      <4>1. SUFFICES ASSUME Mentions(buffer', k) PROVE Ends(buffer', k, v)
        OBVIOUS
      <4>2. Mentions(buffer, k)
        BY <1>1, <1>2, <2>5, <4>1, AppendVersion
      <4>3. Ends(buffer, k, v)
        BY <1>1, <2>1, <3>2, <4>2 DEF KeyInv, Replaying
      <4>4. QED
        BY <1>1, <1>2, <2>5, <4>3, AppendVersion
    <3>5. Has(store', k) => store'.data[k].expiresAt = NoExpiry /\ store'.data[k].str \in Nat
      BY <2>1, <3>1 DEF KeyInv, Steady, Has
    <3>6. QED
      BY <1>4, <2>3, <3>3, <3>4, <3>5, KeyInvNext
  <2>6. QED
    BY <2>4, <2>5
<1>7. BufferInv'
  <2>1. Len(file) \in Nat /\ (pos + 1) - 1 = pos /\ pos + 1 <= Len(file) + 1
    BY <1>1
  <2>2. QED
    BY <1>1, <1>5, <2>1 DEF BufferInv
<1>8. QED
  BY <1>6, <1>7 DEF VersionInv

(* The whole log has been executed, and is in the buffer again.            *)
LEMMA ReplayEndKeys ==
  ASSUME BaseInv, VersionInv, ReplayEnd
  PROVE  VersionInv'
<1>1. /\ phase = "replay" /\ phase' = "serving" /\ UNCHANGED <<store, file, buffer, pc, req>>
      /\ pos \in Nat \ {0} /\ pos > Len(file) /\ file \in Seq(Sent)
      /\ pos <= Len(file) + 1 /\ buffer = SubSeq(file, 1, pos - 1)
  BY DEF ReplayEnd, disk, conn, BaseInv, Typed, VersionInv, BufferInv
<1>2. buffer = file
  <2>1. Len(file) \in Nat /\ pos - 1 = Len(file)
    BY <1>1
  <2>2. SubSeq(file, 1, Len(file)) = file
    BY <1>1
  <2>3. QED
    BY <1>1, <2>1, <2>2
<1>3. \A c \in Client : pc'[c] # "append"
  BY <1>1 DEF BaseInv, Busy, Running
<1>4. ASSUME NEW k \in Versions PROVE KeyInv(k)'
  <2>1. KeyInv(k)
    BY DEF VersionInv
  <2>2. PICK v : v = Version(k)
    OBVIOUS
  <2>3. v = Version(k)'
    BY <1>1, <2>2, VersionIs
  <2>4. LastIsTop(file, k)
    BY <2>1 DEF KeyInv
  <2>5. LastIsTop(file \o file, k) /\ Bounds(file \o file, k, v)
    <3>1. CASE Mentions(file, k)
      <4>1. PICK u \in Nat : Bounds(file, k, u) /\ Ends(file, k, u)
        BY <2>4, <3>1 DEF LastIsTop
      <4>2. Ends(file, k, v)
        BY <1>1, <1>2, <2>1, <2>2, <3>1 DEF KeyInv, Replaying
      <4>3. u = v
        BY <1>1, <4>1, <4>2, EndsOnce
      <4>4. Bounds(file \o file, k, u) /\ Ends(file \o file, k, u)
        BY <1>1, <4>1, TwiceTheLog
      <4>5. QED
        BY <4>3, <4>4 DEF LastIsTop
    <3>2. CASE ~Mentions(file, k)
      <4>1. ~Mentions(file \o file, k)
        BY <1>1, <3>2, TwiceTheLog
      <4>2. QED
        BY <4>1 DEF LastIsTop, Bounds, Mentions
    <3>3. QED
      BY <3>1, <3>2
  <2>6. file' \o buffer' = file \o file
    BY <1>1, <1>2
  <2>7. Has(store', k) => store'.data[k].expiresAt = NoExpiry /\ store'.data[k].str \in Nat
    BY <1>1, <2>1 DEF KeyInv, Steady
  <2>8. LastIsTop(file', k) /\ phase' # "replay"
    BY <1>1, <2>4
  <2>9. QED
    BY <1>3, <2>3, <2>5, <2>6, <2>7, <2>8, KeyInvNext
<1>5. BufferInv'
  BY <1>1 DEF BufferInv
<1>6. QED
  BY <1>4, <1>5 DEF VersionInv

LEMMA InitVersions == Init => VersionInv
<1> SUFFICES ASSUME Init PROVE VersionInv
  OBVIOUS
<1>1. /\ store = EmptyStore /\ file = <<>> /\ buffer = <<>> /\ phase = "serving"
      /\ pc = [c \in Client |-> "read"]
  BY DEF Init
<1>2. BufferInv
  BY <1>1 DEF BufferInv
<1>3. ASSUME NEW k \in Versions PROVE KeyInv(k)
  <2>1. Steady(k)
    BY <1>1, KeysOfLasting DEF Steady, Has, EmptyStore
  <2>2. file \o buffer = <<>>
    BY <1>1
  <2>3. Served(k) /\ LastIsTop(file, k)
    BY <1>1, <2>2, NothingEnds DEF Served
  <2>4. Pending(k) /\ Replaying(k)
    BY <1>1 DEF Pending, Replaying
  <2>5. QED
    BY <2>1, <2>3, <2>4 DEF KeyInv
<1>4. QED
  BY <1>2, <1>3 DEF VersionInv

LEMMA NextVersions ==
  ASSUME VersionsNumbered, BaseInv, VersionInv, [Next]_vars,
         midFlushes \in Nat, UNCHANGED midFlushes
  PROVE  VersionInv'
<1>1. ASSUME NEW c \in Client, Connection(c) PROVE VersionInv'
  <2>1. CASE \E cmd \in Request(c, sent[c] + 1) : Call(c, cmd)
    BY <2>1, CallKeys
  <2>2. CASE SetDeadline(c)
    BY <2>2, SetDeadlineKeys
  <2>3. CASE AppendAndReply(c)
    BY <2>3, AppendKeys
  <2>4. ASSUME NEW j \in ReadKeys, Get(c, j) PROVE VersionInv'
    <3>1. /\ store' = GetLocked(store, j, now) /\ UNCHANGED <<file, buffer, phase, pos, pc, req>>
          /\ Sound(store) /\ j \in Key
      BY <2>4, ServerAssumption DEF Get, disk, process, conn, BaseInv, Typed
    <3>2. ASSUME NEW k \in Versions PROVE KeyInv(k)'
      <4>1. KeyInv(k) /\ k \in Key
        BY KeysOfLasting DEF VersionInv
      <4>2. ~(Has(store, k) /\ IsExpired(store.data[k], now))
        BY <4>1 DEF KeyInv, Steady, IsExpired
      <4>3. store'.data[k] = store.data[k]
        BY <3>1, <4>1, <4>2, GetLockedSpares
      <4>4. QED
        BY <3>1, <4>1, <4>3, KeyLeft
    <3>3. QED
      BY <3>1, <3>2 DEF VersionInv, BufferInv
  <2>5. QED
    BY <1>1, <2>1, <2>2, <2>3, <2>4 DEF Connection
<1>2. CASE Flush
  <2>1. Running /\ Running'
    BY <1>2 DEF Flush, FlushDue, Running
  <2>2. QED
    BY <1>2, <2>1, FlushKeys DEF Flush, conn
<1>3. ASSUME NEW j \in Key, SweepKey(j) PROVE VersionInv'
  <2>1. /\ store' = DelOne(store, j) /\ UNCHANGED <<file, buffer, phase, pos, pc, req>>
        /\ Sound(store) /\ Has(store, j) /\ IsExpired(store.data[j], now)
    BY <1>3 DEF SweepKey, disk, process, conn, BaseInv, Typed, DelOne
  <2>2. ASSUME NEW k \in Versions PROVE KeyInv(k)'
    <3>1. KeyInv(k) /\ k \in Key
      BY KeysOfLasting DEF VersionInv
    <3>2. k # j
      BY <2>1, <3>1 DEF KeyInv, Steady, IsExpired
    <3>3. store'.data[k] = store.data[k]
      BY <2>1, <3>1, <3>2, DelLeaves
    <3>4. QED
      BY <2>1, <3>1, <3>3, KeyLeft
  <2>3. QED
    BY <2>1, <2>2 DEF VersionInv, BufferInv
<1>4. CASE Tick \/ UNCHANGED vars
  <2>1. UNCHANGED <<store, file, buffer, phase, pos, pc, req>>
    BY <1>4 DEF Tick, vars, disk, process, conn
  <2>2. QED
    BY <2>1, KeyLeft DEF VersionInv, BufferInv
<1>5. CASE Crash \/ Exit
  BY <1>5, DieKeys DEF Crash, Exit
<1>6. CASE Signal
  <2>1. Running /\ Running'
    BY <1>6 DEF Signal, Running
  <2>2. QED
    BY <1>6, <2>1, FlushKeys DEF Signal, conn
<1>7. CASE Restart
  BY <1>7, RestartKeys
<1>8. CASE ReplayStep
  BY <1>8, ReplayKeys
<1>9. CASE ReplayEnd
  BY <1>9, ReplayEndKeys
<1>10. QED
  BY <1>1, <1>2, <1>3, <1>4, <1>5, <1>6, <1>7, <1>8, <1>9 DEF Next

(* The invariant is kept until a flush falls into a replay.                *)
MidInv == midFlushes \in Nat /\ (midFlushes = 0 => VersionInv)

LEMMA MidFlushesCounted ==
  ASSUME [Next]_vars
  PROVE  midFlushes' \in {midFlushes, midFlushes + 1}
<1>1. CASE \E c \in Client : Connection(c)
  BY <1>1 DEF Connection, Call, SetDeadline, AppendAndReply, Get, process
<1>2. CASE Flush
  BY <1>2 DEF Flush, FlushDue
<1>3. CASE Crash \/ Signal \/ Exit
  BY <1>3 DEF Crash, Signal, Exit, Die
<1>4. CASE Restart \/ ReplayStep \/ ReplayEnd
  BY <1>4 DEF Restart, ReplayStep, ReplayEnd
<1>5. CASE (\E k \in Key : SweepKey(k)) \/ Tick \/ UNCHANGED vars
  BY <1>5 DEF SweepKey, Tick, vars, process
<1>6. QED
  BY <1>1, <1>2, <1>3, <1>4, <1>5 DEF Next

(* What is on the disk is served at least as new, whatever is buffered,    *)
(* for any number of crashes, shutdowns and restarts, in the middle of a   *)
(* replay too, and although each start doubles the log: until a periodic   *)
(* flush falls into a replay.  Module Server says what happens then.       *)
THEOREM NothingDurableLost ==
  ASSUME VersionsNumbered
  PROVE  Spec => []NoDurableLoss
<1>1. BaseInv /\ MidInv => NoDurableLoss
  <2> SUFFICES ASSUME BaseInv, VersionInv, Running, NEW i \in DOMAIN file,
                      file[i].name = "SET", file[i].key \in Lasting
               PROVE  Version(file[i].key) >= file[i].vals[1]
    BY DEF MidInv, NoDurableLoss, DurableStays
  <2> DEFINE k == file[i].key
  <2>1. file \in Seq(Sent) /\ buffer \in Seq(Sent) /\ file[i] \in Sent
    BY DEF BaseInv, Typed
  <2>2. k \in Versions
    <3>1. file[i] \in Requests
      BY <2>1 DEF Sent
    <3>2. QED
      BY <3>1 DEF Versions, Requests
  <2>3. Bounds(file \o buffer, k, Version(k)) /\ Version(k) \in Nat
    BY <2>2, VersionIs DEF VersionInv, KeyInv, Served
  <2>4. i \in DOMAIN (file \o buffer) /\ (file \o buffer)[i] = file[i]
    BY <2>1
  <2>5. file[i].vals[1] <= Version(k)
    BY <2>3, <2>4 DEF Bounds
  <2>6. file[i].vals[1] \in Nat
    <3>1. PICK w \in Client : Owns(w, k)
      BY <2>2, OneWriter
    <3>2. file[i].vals[1] \in 1 .. sent[w]
      BY <2>1, <3>1, LineIsVersion
    <3>3. QED
      BY <3>2
  <2>7. QED
    BY <2>3, <2>5, <2>6
<1>2. Init => MidInv
  BY InitVersions DEF Init, MidInv
<1>3. BaseInv /\ MidInv /\ [Next]_vars => MidInv'
  <2> SUFFICES ASSUME BaseInv, MidInv, [Next]_vars PROVE MidInv'
    OBVIOUS
  <2>1. midFlushes \in Nat /\ midFlushes' \in {midFlushes, midFlushes + 1}
    BY MidFlushesCounted DEF MidInv
  <2>2. midFlushes' \in Nat
    BY <2>1
  <2>3. ASSUME midFlushes' = 0 PROVE VersionInv'
    <3>1. midFlushes = 0 /\ UNCHANGED midFlushes
      BY <2>1, <2>3
    <3>2. QED
      BY <2>1, <3>1, NextVersions DEF MidInv
  <2>4. QED
    BY <2>2, <2>3 DEF MidInv
<1>4. QED
  BY <1>1, <1>2, <1>3, AlwaysBase, PTL DEF Spec

-----------------------------------------------------------------------------
(* Commands that overwrite, and the entry of their key.                    *)

Overwriting == {"SET", "DEL", "SADD", "ZADD"}

StrOf(v)     == [NewEntry("String") EXCEPT !.str = v]
SetOf(ms)    == [NewEntry("Set") EXCEPT !.set = ms]
ZSetOf(zset) == [NewEntry("ZSet") EXCEPT !.zset = zset]

Members(e) == IF e # Absent /\ e.vtype = "Set" THEN e.set ELSE {}
Scores(e)  == IF e # Absent /\ e.vtype = "ZSet" THEN e.zset ELSE [m \in {} |-> 0]

Scored(zset, member, score) ==
  [m \in DOMAIN zset \cup {member} |-> IF m = member THEN score ELSE zset[m]]

(* What such a command makes of an entry without a deadline.               *)
Overwritten(e, cmd) ==
  CASE cmd.name = "SET"  -> StrOf(cmd.vals[1])
    [] cmd.name = "DEL"  -> Absent
    [] cmd.name = "SADD" -> SetOf(Members(e) \cup ToSet(cmd.vals))
    [] cmd.name = "ZADD" -> ZSetOf(Scored(Scores(e), cmd.vals[1], cmd.arg))

After(e, k, cmd) == IF cmd.key = k THEN Overwritten(e, cmd) ELSE e

(* No deadline, and nothing in the fields its type does not use.           *)
Plain(e) ==
  e # Absent => /\ e \in Entry /\ e.expiresAt = NoExpiry
                /\ e.vtype = "Set"  => e.set \in SUBSET Val /\ e = SetOf(e.set)
                /\ e.vtype = "ZSet" => e.zset \in ScoreMap /\ e = ZSetOf(e.zset)

LEMMA EmptyScores ==
  [m \in {} |-> 0] \in ScoreMap /\ DOMAIN [m \in {} |-> 0] = {}
<1>1. [m \in {} |-> 0] \in [{} -> Score] /\ {} \in SUBSET Val
  OBVIOUS
<1>2. QED
  BY <1>1 DEF ScoreMap

LEMMA MadeOf ==
  /\ \A v \in Val : StrOf(v) \in Entry /\ StrOf(v).vtype = "String" /\ StrOf(v).expiresAt = NoExpiry
  /\ \A ms \in SUBSET Val : /\ SetOf(ms) \in Entry /\ SetOf(ms).vtype = "Set"
                            /\ SetOf(ms).set = ms /\ SetOf(ms).expiresAt = NoExpiry
  /\ \A z \in ScoreMap : /\ ZSetOf(z) \in Entry /\ ZSetOf(z).vtype = "ZSet"
                         /\ ZSetOf(z).zset = z /\ ZSetOf(z).expiresAt = NoExpiry
<1>1. \A vtype \in VType : NewEntry(vtype) \in Entry
  BY NewEntryTyped
<1>2. /\ NewEntry("String").vtype = "String" /\ NewEntry("String").expiresAt = NoExpiry
      /\ NewEntry("Set").vtype = "Set" /\ NewEntry("Set").expiresAt = NoExpiry
      /\ NewEntry("ZSet").vtype = "ZSet" /\ NewEntry("ZSet").expiresAt = NoExpiry
  BY DEF NewEntry
<1>3. NewEntry("String") \in Entry /\ NewEntry("Set") \in Entry /\ NewEntry("ZSet") \in Entry
  BY <1>1 DEF VType
<1>4. QED
  BY <1>2, <1>3 DEF Entry, StrOf, SetOf, ZSetOf

LEMMA MadePlain ==
  /\ Plain(Absent)
  /\ \A v \in Val : Plain(StrOf(v)) /\ StrOf(v) # Absent
  /\ \A ms \in SUBSET Val : Plain(SetOf(ms)) /\ SetOf(ms) # Absent
  /\ \A z \in ScoreMap : Plain(ZSetOf(z)) /\ ZSetOf(z) # Absent
BY MadeOf, StoreAssumption DEF Plain

LEMMA PartsTyped ==
  ASSUME NEW e, Plain(e)
  PROVE  Members(e) \in SUBSET Val /\ Scores(e) \in ScoreMap
BY EmptyScores DEF Plain, Members, Scores

LEMMA ScoredTyped ==
  ASSUME NEW z \in ScoreMap, NEW m \in Val, NEW r \in Score
  PROVE  Scored(z, m, r) \in ScoreMap
<1>1. PICK ms \in SUBSET Val : z \in [ms -> Score]
  BY DEF ScoreMap
<1>2. Scored(z, m, r) \in [ms \cup {m} -> Score] /\ ms \cup {m} \in SUBSET Val
  BY <1>1 DEF Scored
<1>3. QED
  BY <1>2 DEF ScoreMap

LEMMA OverwrittenPlain ==
  ASSUME NEW e, Plain(e), NEW cmd, WellFormed(cmd), cmd.name \in Overwriting
  PROVE  Plain(Overwritten(e, cmd))
<1>1. CASE cmd.name = "SET"
  BY <1>1, MadePlain DEF WellFormed, Overwritten
<1>2. CASE cmd.name = "DEL"
  BY <1>2, MadePlain DEF Overwritten
<1>3. CASE cmd.name = "SADD"
  <2>1. cmd.vals \in Seq(Val)
    BY <1>3 DEF WellFormed
  <2>2. Members(e) \cup ToSet(cmd.vals) \in SUBSET Val
    BY <2>1, PartsTyped DEF ToSet
  <2>3. QED
    BY <1>3, <2>2, MadePlain DEF Overwritten
<1>4. CASE cmd.name = "ZADD"
  <2>1. cmd.vals[1] \in Val /\ cmd.arg \in Score
    BY <1>4 DEF WellFormed
  <2>2. Scored(Scores(e), cmd.vals[1], cmd.arg) \in ScoreMap
    BY <2>1, PartsTyped, ScoredTyped
  <2>3. QED
    BY <1>4, <2>2, MadePlain DEF Overwritten
<1>5. QED
  BY <1>1, <1>2, <1>3, <1>4 DEF Overwriting

(* getOrCreateLocked of a key without a deadline.                          *)
LEMMA OpenedEntry ==
  ASSUME NEW s, Sound(s), NEW k \in Key, Plain(s.data[k]), NEW t
  PROVE  /\ LET got == GetOrCreateLocked(s, k, "Set", t)
            IN  Sound(got) /\ got.data[k] = SetOf(Members(s.data[k]))
         /\ LET got == GetOrCreateLocked(s, k, "ZSet", t)
            IN  Sound(got) /\ got.data[k] = ZSetOf(Scores(s.data[k]))
<1>1. Live(s, k, t) <=> s.data[k] # Absent
  BY DEF Plain, Live, Has, IsExpired
<1>2. /\ Sound(GetOrCreateLocked(s, k, "Set", t)) /\ Sound(GetOrCreateLocked(s, k, "ZSet", t))
      /\ NewEntry("Set") \in Entry /\ NewEntry("ZSet") \in Entry
  BY GetOrCreateLockedSound, NewEntryTyped DEF VType
<1>3. NewEntry("Set") = SetOf({}) /\ NewEntry("ZSet") = ZSetOf([m \in {} |-> 0])
  <2> DEFINE none == [m \in {} |-> 0]
  <2>1. NewEntry("Set").set = {} /\ NewEntry("ZSet").zset = none
    BY DEF NewEntry
  <2> HIDE DEF none
  <2>2. NewEntry("Set") = SetOf({}) /\ NewEntry("ZSet") = ZSetOf(none)
    BY <1>2, <2>1 DEF Entry, SetOf, ZSetOf
  <2>3. QED
    BY <2>2 DEF none
<1>4. GetOrCreateLocked(s, k, "Set", t).data[k] = SetOf(Members(s.data[k]))
  <2>1. CASE s.data[k] # Absent /\ s.data[k].vtype = "Set"
    BY <1>1, <2>1 DEF GetOrCreateLocked, Plain, Members
  <2>2. CASE ~(s.data[k] # Absent /\ s.data[k].vtype = "Set")
    <3>1. GetOrCreateLocked(s, k, "Set", t) = SetLocked(s, k, NewEntry("Set"))
      BY <1>1, <2>2 DEF GetOrCreateLocked
    <3>2. QED
      BY <1>2, <1>3, <2>2, <3>1, SetLockedSound DEF Members
  <2>3. QED
    BY <2>1, <2>2
<1>5. GetOrCreateLocked(s, k, "ZSet", t).data[k] = ZSetOf(Scores(s.data[k]))
  <2>1. CASE s.data[k] # Absent /\ s.data[k].vtype = "ZSet"
    BY <1>1, <2>1 DEF GetOrCreateLocked, Plain, Scores
  <2>2. CASE ~(s.data[k] # Absent /\ s.data[k].vtype = "ZSet")
    <3>1. GetOrCreateLocked(s, k, "ZSet", t) = SetLocked(s, k, NewEntry("ZSet"))
      BY <1>1, <2>2 DEF GetOrCreateLocked
    <3>2. QED
      BY <1>2, <1>3, <2>2, <3>1, SetLockedSound DEF Scores
  <2>3. QED
    BY <2>1, <2>2
<1>6. QED
  BY <1>2, <1>4, <1>5

LEMMA OverwrittenIs ==
  ASSUME NEW s, Sound(s), NEW cmd, WellFormed(cmd), cmd.name \in Overwriting,
         NEW k \in Key, cmd.key = k, Plain(s.data[k]), NEW t
  PROVE  FirstCall(s, cmd, t).data[k] = Overwritten(s.data[k], cmd)
<1>1. CASE cmd.name = "SET"
  <2>1. StrOf(cmd.vals[1]) \in Entry
    BY <1>1, MadeOf DEF WellFormed
  <2>2. QED
    BY <1>1, <2>1, CallOf, SetLockedSound DEF SetCmd, StrOf, Overwritten
<1>2. CASE cmd.name = "DEL"
  <2>1. FirstCall(s, cmd, t) = DelOne(s, k)
    BY <1>2, CallOf
  <2>2. ~Has(DelOne(s, k), k)
    BY DelLeaves
  <2>3. QED
    BY <1>2, <2>1, <2>2 DEF Overwritten, Has
<1>3. CASE cmd.name = "SADD"
  <2> DEFINE got == GetOrCreateLocked(s, k, "Set", t)
             e == [got.data[k] EXCEPT !.set = @ \cup ToSet(cmd.vals)]
  <2>1. FirstCall(s, cmd, t) = TouchLRU([got EXCEPT !.data[k] = e], k)
    BY <1>3, CallOf DEF SAddCmd
  <2>2. Sound(got) /\ got.data[k] = SetOf(Members(s.data[k]))
    BY OpenedEntry
  <2>3. SetOf(Members(s.data[k])).set = Members(s.data[k])
    BY MadeOf, PartsTyped
  <2>4. e = SetOf(Members(s.data[k]) \cup ToSet(cmd.vals))
    BY <2>2, <2>3 DEF SetOf, NewEntry
  <2> HIDE DEF got, e
  <2>5. Sound(got)
    BY <2>2
  <2>6. \A x : TouchLRU([got EXCEPT !.data[k] = x], k).data[k] = x
    BY <2>5, WrittenData, Zenon
  <2>7. QED
    BY <1>3, <2>1, <2>4, <2>6 DEF Overwritten
<1>4. CASE cmd.name = "ZADD"
  <2> DEFINE got == GetOrCreateLocked(s, k, "ZSet", t)
             zset == got.data[k].zset
             new == [m \in DOMAIN zset \cup {cmd.vals[1]} |->
                       IF m = cmd.vals[1] THEN cmd.arg ELSE zset[m]]
             e == [got.data[k] EXCEPT !.zset = new]
  <2>1. FirstCall(s, cmd, t) = ZAddCmd(s, k, cmd.arg, cmd.vals[1], t)
    BY <1>4, CallOf
  <2>2. ZAddCmd(s, k, cmd.arg, cmd.vals[1], t) = TouchLRU([got EXCEPT !.data[k] = e], k)
    BY DEF ZAddCmd
  <2>3. Sound(got) /\ got.data[k] = ZSetOf(Scores(s.data[k]))
    BY OpenedEntry
  <2>4. ZSetOf(Scores(s.data[k])).zset = Scores(s.data[k])
    BY MadeOf, PartsTyped
  <2>5. new = Scored(zset, cmd.vals[1], cmd.arg)
    BY DEF Scored
  <2> HIDE DEF new
  <2>6. e = ZSetOf(Scored(Scores(s.data[k]), cmd.vals[1], cmd.arg))
    BY <2>3, <2>4, <2>5 DEF ZSetOf, NewEntry
  <2> HIDE DEF got, zset, e
  <2>7. Sound(got)
    BY <2>3
  <2>8. \A x : TouchLRU([got EXCEPT !.data[k] = x], k).data[k] = x
    BY <2>7, WrittenData, Zenon
  <2>9. QED
    BY <1>4, <2>1, <2>2, <2>6, <2>8 DEF Overwritten
<1>5. QED
  BY <1>1, <1>2, <1>3, <1>4 DEF Overwriting

(* The same commands a second time.  Lines not yet flushed have made e of  *)
(* the entry b, and would make f of old, which is what the whole file      *)
(* makes of none.  As soon as one of them has not added to a set or a      *)
(* sorted set the entry before it is forgotten; until then e has what was  *)
(* in b and what they added, and f what is in old and what they added.     *)
Over(y, z) == [m \in DOMAIN y \cup DOMAIN z |-> IF m \in DOMAIN z THEN z[m] ELSE y[m]]

Again(b, old, e, f) ==
  \/ f = e
  \/ e = b /\ f = old
  \/ \E ns \in SUBSET Val : /\ e = SetOf(Members(b) \cup ns)
                            /\ f = SetOf(Members(old) \cup ns)
  \/ \E z \in ScoreMap : /\ e = ZSetOf(Over(Scores(b), z))
                         /\ f = ZSetOf(Over(Scores(old), z))

LEMMA PartsOf ==
  /\ Members(Absent) = {} /\ Scores(Absent) = [m \in {} |-> 0]
  /\ \A ms \in SUBSET Val : Members(SetOf(ms)) = ms /\ Scores(SetOf(ms)) = [m \in {} |-> 0]
  /\ \A z \in ScoreMap : Members(ZSetOf(z)) = {} /\ Scores(ZSetOf(z)) = z
<1>1. Members(Absent) = {} /\ Scores(Absent) = [m \in {} |-> 0]
  BY DEF Members, Scores
<1>2. ASSUME NEW ms \in SUBSET Val
      PROVE  Members(SetOf(ms)) = ms /\ Scores(SetOf(ms)) = [m \in {} |-> 0]
  <2>1. SetOf(ms) # Absent /\ SetOf(ms).vtype = "Set" /\ SetOf(ms).set = ms
    BY MadeOf, MadePlain
  <2>2. QED
    BY <2>1 DEF Members, Scores
<1>3. ASSUME NEW z \in ScoreMap
      PROVE  Members(ZSetOf(z)) = {} /\ Scores(ZSetOf(z)) = z
  <2>1. ZSetOf(z) # Absent /\ ZSetOf(z).vtype = "ZSet" /\ ZSetOf(z).zset = z
    BY MadeOf, MadePlain
  <2>2. QED
    BY <2>1 DEF Members, Scores
<1>4. QED
  BY <1>1, <1>2, <1>3

LEMMA ScoredOver ==
  ASSUME NEW y \in ScoreMap, NEW z \in ScoreMap, NEW m, NEW r
  PROVE  /\ Scored(Over(y, z), m, r) = Over(y, Scored(z, m, r))
         /\ Scored(y, m, r) = Over(y, Scored([x \in {} |-> 0], m, r))
<1>1. DOMAIN Scored(Over(y, z), m, r) = DOMAIN Over(y, Scored(z, m, r))
  BY DEF Scored, Over
<1>2. \A x \in DOMAIN Scored(Over(y, z), m, r) :
        Scored(Over(y, z), m, r)[x] = Over(y, Scored(z, m, r))[x]
  BY DEF Scored, Over
<1>3. Scored(Over(y, z), m, r) = Over(y, Scored(z, m, r))
  BY <1>1, <1>2 DEF Scored, Over
<1> DEFINE none == [x \in {} |-> 0]
<1>4. DOMAIN none = {}
  OBVIOUS
<1> HIDE DEF none
<1>5. DOMAIN Scored(y, m, r) = DOMAIN Over(y, Scored(none, m, r))
  BY <1>4 DEF Scored, Over
<1>6. \A x \in DOMAIN Scored(y, m, r) : Scored(y, m, r)[x] = Over(y, Scored(none, m, r))[x]
  BY <1>4 DEF Scored, Over
<1>7. Scored(y, m, r) = Over(y, Scored(none, m, r))
  BY <1>5, <1>6 DEF Scored, Over
<1>8. QED
  BY <1>3, <1>7 DEF none

LEMMA OverTyped ==
  ASSUME NEW y \in ScoreMap, NEW z \in ScoreMap
  PROVE  Over(y, z) \in ScoreMap /\ Over(Over(y, z), z) = Over(y, z)
<1>1. PICK ys \in SUBSET Val, zs \in SUBSET Val : y \in [ys -> Score] /\ z \in [zs -> Score]
  BY DEF ScoreMap
<1>2. Over(y, z) \in [ys \cup zs -> Score] /\ ys \cup zs \in SUBSET Val
  BY <1>1 DEF Over
<1>3. Over(Over(y, z), z) = Over(y, z)
  BY <1>1 DEF Over
<1>4. QED
  BY <1>2, <1>3 DEF ScoreMap

LEMMA AgainStays ==
  ASSUME NEW b, Plain(b), NEW old, Plain(old), NEW e, NEW f, Again(b, old, e, f),
         NEW cmd, WellFormed(cmd), cmd.name \in Overwriting
  PROVE  Again(b, old, Overwritten(e, cmd), Overwritten(f, cmd))
<1>1. /\ Members(b) \in SUBSET Val /\ Members(old) \in SUBSET Val
      /\ Scores(b) \in ScoreMap /\ Scores(old) \in ScoreMap
  BY PartsTyped
<1>2. CASE cmd.name \in {"SET", "DEL"}
  BY <1>2 DEF Overwritten, Again
<1>3. CASE f = e
  BY <1>3 DEF Again
<1>4. CASE cmd.name = "SADD"
  <2> DEFINE new == ToSet(cmd.vals)
  <2>1. new \in SUBSET Val
    BY <1>4 DEF WellFormed, ToSet
  <2>2. /\ Overwritten(e, cmd) = SetOf(Members(e) \cup new)
        /\ Overwritten(f, cmd) = SetOf(Members(f) \cup new)
    BY <1>4 DEF Overwritten
  <2> HIDE DEF new
  <2>3. CASE e = b /\ f = old
    BY <2>1, <2>2, <2>3 DEF Again
  <2>4. ASSUME NEW ns \in SUBSET Val,
               e = SetOf(Members(b) \cup ns), f = SetOf(Members(old) \cup ns)
        PROVE  Again(b, old, Overwritten(e, cmd), Overwritten(f, cmd))
    <3>1. Members(e) = Members(b) \cup ns /\ Members(f) = Members(old) \cup ns
      BY <1>1, <2>4, PartsOf
    <3>2. /\ ns \cup new \in SUBSET Val
          /\ Members(e) \cup new = Members(b) \cup (ns \cup new)
          /\ Members(f) \cup new = Members(old) \cup (ns \cup new)
      BY <2>1, <3>1
    <3>3. QED
      BY <2>2, <3>2 DEF Again
  <2>5. ASSUME NEW z \in ScoreMap,
               e = ZSetOf(Over(Scores(b), z)), f = ZSetOf(Over(Scores(old), z))
        PROVE  Again(b, old, Overwritten(e, cmd), Overwritten(f, cmd))
    <3>1. Members(e) = {} /\ Members(f) = {}
      BY <1>1, <2>5, OverTyped, PartsOf
    <3>2. QED
      BY <2>2, <3>1 DEF Again
  <2>6. QED
    BY <1>3, <2>3, <2>4, <2>5 DEF Again
<1>5. CASE cmd.name = "ZADD"
  <2> DEFINE m == cmd.vals[1]
             r == cmd.arg
             none == [x \in {} |-> 0]
  <2>1. m \in Val /\ r \in Score
    BY <1>5 DEF WellFormed
  <2>2. /\ Overwritten(e, cmd) = ZSetOf(Scored(Scores(e), m, r))
        /\ Overwritten(f, cmd) = ZSetOf(Scored(Scores(f), m, r))
    BY <1>5 DEF Overwritten
  <2>3. none \in ScoreMap /\ \A y \in ScoreMap : Scored(y, m, r) = Over(y, Scored(none, m, r))
    BY EmptyScores, ScoredOver
  <2>4. \A ms \in SUBSET Val : Scores(SetOf(ms)) = none
    BY PartsOf
  <2> HIDE DEF m, r, none
  <2>5. CASE e = b /\ f = old
    <3>1. Scored(none, m, r) \in ScoreMap
      BY <2>1, <2>3, ScoredTyped
    <3>2. /\ Overwritten(e, cmd) = ZSetOf(Over(Scores(b), Scored(none, m, r)))
          /\ Overwritten(f, cmd) = ZSetOf(Over(Scores(old), Scored(none, m, r)))
      BY <1>1, <2>2, <2>3, <2>5
    <3>3. QED
      BY <3>1, <3>2 DEF Again
  <2>6. ASSUME NEW ns \in SUBSET Val,
               e = SetOf(Members(b) \cup ns), f = SetOf(Members(old) \cup ns)
        PROVE  Again(b, old, Overwritten(e, cmd), Overwritten(f, cmd))
    <3>1. Scores(e) = none /\ Scores(f) = none
      BY <1>1, <2>4, <2>6
    <3>2. QED
      BY <2>2, <3>1 DEF Again
  <2>7. ASSUME NEW z \in ScoreMap,
               e = ZSetOf(Over(Scores(b), z)), f = ZSetOf(Over(Scores(old), z))
        PROVE  Again(b, old, Overwritten(e, cmd), Overwritten(f, cmd))
    <3>1. Scores(e) = Over(Scores(b), z) /\ Scores(f) = Over(Scores(old), z)
      BY <1>1, <2>7, OverTyped, PartsOf
    <3>2. Scored(z, m, r) \in ScoreMap
      BY <2>1, ScoredTyped
    <3>3. /\ Scored(Over(Scores(b), z), m, r) = Over(Scores(b), Scored(z, m, r))
          /\ Scored(Over(Scores(old), z), m, r) = Over(Scores(old), Scored(z, m, r))
      BY <1>1, ScoredOver
    <3>4. QED
      BY <2>2, <3>1, <3>2, <3>3 DEF Again
  <2>8. QED
    BY <1>3, <2>5, <2>6, <2>7 DEF Again
<1>6. QED
  BY <1>2, <1>4, <1>5 DEF Overwriting

(* When the first time has come to the end of the file, the second has     *)
(* changed nothing.                                                        *)
LEMMA AgainEnds ==
  ASSUME NEW b, Plain(b), NEW old, Plain(old), NEW f, Again(b, old, old, f)
  PROVE  f = old
<1>1. ASSUME NEW ns \in SUBSET Val,
             old = SetOf(Members(b) \cup ns), f = SetOf(Members(old) \cup ns)
      PROVE  f = old
  <2>1. Members(old) = Members(b) \cup ns
    BY <1>1, PartsTyped, PartsOf
  <2>2. Members(old) \cup ns = Members(b) \cup ns
    BY <2>1
  <2>3. QED
    BY <1>1, <2>2
<1>2. ASSUME NEW z \in ScoreMap,
             old = ZSetOf(Over(Scores(b), z)), f = ZSetOf(Over(Scores(old), z))
      PROVE  f = old
  <2>1. Scores(b) \in ScoreMap
    BY PartsTyped
  <2>2. Scores(old) = Over(Scores(b), z)
    BY <1>2, <2>1, OverTyped, PartsOf
  <2>3. QED
    BY <1>2, <2>1, <2>2, OverTyped
<1>3. QED
  BY <1>1, <1>2 DEF Again

-----------------------------------------------------------------------------
(* The store and the log.                                                  *)

Times == Start .. MaxTime

(* The entry that the log f has for k, were it replayed at time t.         *)
Logged(f, t, k) == Replayed(f, t).data[k]

(* Every store that f stands for is sound and without deadlines.           *)
Kept(f) == \A t \in Times : Sound(Replayed(f, t)) /\ \A k \in Lasting : Plain(Logged(f, t, k))

Waiting(k) == {c \in Client : pc[c] = "append" /\ req[c].key = k}

(* The store has what the log has, and the command that is yet to be       *)
(* appended.                                                               *)
Ahead(k, e) ==
  /\ Waiting(k) = {} => store.data[k] = e
  /\ \A c \in Waiting(k) : store.data[k] = Overwritten(e, req[c])

(* The lines of the file that a replay has done.                           *)
Done == SubSeq(file, 1, pos - 1)

PlaceInv ==
  /\ phase = "down" => buffer = <<>>
  /\ phase = "replay" => pos <= Len(file) + 1

(* In a replay the store has what the lines that are done say, and those   *)
(* of them that are not flushed yet do not change the end of it when they  *)
(* come again.                                                             *)
KeyLogged(k) ==
  /\ Plain(store.data[k])
  /\ phase = "down" => store.data[k] = Absent
  /\ \A t \in Times :
       /\ Running => Ahead(k, Logged(file \o buffer, t, k))
       /\ phase = "replay" =>
            /\ store.data[k] = Logged(Done, t, k)
            /\ \E b : /\ Plain(b)
                     /\ Again(b, Logged(file, t, k), store.data[k], Logged(file \o buffer, t, k))

LogInv ==
  /\ PlaceInv
  /\ Kept(file) /\ Kept(file \o buffer)
  /\ phase = "replay" => Kept(Done)
  /\ \A k \in Lasting : KeyLogged(k)

LEMMA TimesAre ==
  ASSUME NEW t \in Times
  PROVE  t \in Int /\ t >= Start
BY ServerAssumption DEF Times

LEMMA LastingKeys ==
  ASSUME NEW k \in Lasting
  PROVE  k \in Key
BY ServerAssumption

(* The commands about such a key, and who sends them.                      *)
LEMMA OverwritesOnly ==
  ASSUME OverwritesByOne, NEW k \in Lasting, NEW c \in Client, NEW n \in 1 .. MaxSends,
         NEW x \in Request(c, n), x.key = k
  PROVE  /\ x.name \in Overwriting /\ x.arg # Invalid /\ ~HasSecondCall(x)
         /\ \A d \in Client, m \in 1 .. MaxSends : \A y \in Request(d, m) : y.key = k => d = c
BY DEF OverwritesByOne, Overwriting

LEMMA AfterCommand ==
  ASSUME OverwritesByOne, NEW s, Sound(s), NEW cmd \in Requests, NEW k \in Lasting,
         Plain(s.data[k]), NEW t \in Int, t >= Start
  PROVE  /\ FirstCall(s, cmd, t).data[k] = After(s.data[k], k, cmd)
         /\ cmd.arg # Invalid => Execute(s, cmd, t).data[k] = After(s.data[k], k, cmd)
         /\ Plain(After(s.data[k], k, cmd))
<1>1. k \in Key /\ WellFormed(cmd) /\ MaxKeys <= 0 /\ cmd.name # "FLUSHALL"
  BY LastingKeys, RequestFits DEF OverwritesByOne, Requests
<1>2. CASE cmd.key = k
  <2>1. PICK c \in Client, n \in 1 .. MaxSends : cmd \in Request(c, n)
    BY DEF Requests
  <2>2. cmd.name \in Overwriting /\ ~HasSecondCall(cmd)
    BY <1>2, <2>1, OverwritesOnly
  <2>3. FirstCall(s, cmd, t).data[k] = Overwritten(s.data[k], cmd) /\ Plain(Overwritten(s.data[k], cmd))
    BY <1>1, <1>2, <2>2, OverwrittenIs, OverwrittenPlain
  <2>4. Execute(s, cmd, t) = FirstCall(s, cmd, t)
    BY <2>2 DEF Execute
  <2>5. QED
    BY <1>2, <2>3, <2>4 DEF After
<1>3. CASE cmd.key # k
  BY <1>1, <1>3, EntryLeft DEF After
<1>4. QED
  BY <1>2, <1>3

(* A line more in the log.                                                 *)
LEMMA LoggedLine ==
  ASSUME OverwritesByOne, NEW f \in Seq(Sent), NEW l \in Sent, Kept(f)
  PROVE  /\ Kept(Append(f, l))
         /\ \A t \in Times, k \in Lasting :
              Logged(Append(f, l), t, k) = After(Logged(f, t, k), k, l)
<1>1. l \in Requests /\ WellFormed(l) /\ l.arg # Invalid
  BY RequestFits DEF Sent
<1>2. ASSUME NEW t \in Times
      PROVE  /\ Sound(Replayed(Append(f, l), t))
             /\ \A k \in Lasting : /\ Logged(Append(f, l), t, k) = After(Logged(f, t, k), k, l)
                                   /\ Plain(Logged(Append(f, l), t, k))
  <2>1. Replayed(Append(f, l), t) = Execute(Replayed(f, t), l, t)
    BY LineReplayed
  <2>2. t \in Int /\ t >= Start /\ Sound(Replayed(f, t))
    BY TimesAre DEF Kept
  <2>3. Sound(Replayed(Append(f, l), t))
    BY <1>1, <2>1, <2>2, ExecuteSound
  <2>4. ASSUME NEW k \in Lasting
        PROVE  /\ Logged(Append(f, l), t, k) = After(Logged(f, t, k), k, l)
               /\ Plain(Logged(Append(f, l), t, k))
    <3>1. Plain(Replayed(f, t).data[k])
      BY DEF Kept, Logged
    <3>2. QED
      BY <1>1, <2>1, <2>2, <3>1, AfterCommand DEF Logged
  <2>5. QED
    BY <2>3, <2>4
<1>3. QED
  BY <1>2 DEF Kept

LEMMA NothingLogged ==
  /\ Kept(<<>>)
  /\ \A t \in Times, k \in Lasting : Logged(<<>>, t, k) = Absent
<1>1. \A t : Replayed(<<>>, t) = EmptyStore
  BY NothingReplayed
<1>2. \A k \in Lasting : EmptyStore.data[k] = Absent
  BY LastingKeys DEF EmptyStore
<1>3. QED
  BY <1>1, <1>2, EmptyStoreSound, MadePlain DEF Kept, Logged

(* A step that changes neither the log nor these keys, nor the commands    *)
(* about them that wait.                                                   *)
LEMMA LogLeft ==
  ASSUME LogInv, UNCHANGED <<file, buffer, phase, pos>>,
         \A k \in Lasting : /\ store'.data[k] = store.data[k]
                            /\ Waiting(k)' = Waiting(k)
                            /\ \A c \in Waiting(k) : req'[c] = req[c]
  PROVE  LogInv'
<1>1. /\ PlaceInv' /\ Kept(file)' /\ Kept(file \o buffer)' /\ (phase' = "replay" => Kept(Done)')
      /\ Done' = Done
  BY DEF LogInv, PlaceInv, Done
<1>2. ASSUME NEW k \in Lasting PROVE KeyLogged(k)'
  <2>1. KeyLogged(k)
    BY DEF LogInv
  <2>2. /\ store'.data[k] = store.data[k] /\ Waiting(k)' = Waiting(k)
        /\ \A c \in Waiting(k) : req'[c] = req[c]
    OBVIOUS
  <2>3. ASSUME NEW e, Ahead(k, e) PROVE Ahead(k, e)'
    BY <2>2, <2>3 DEF Ahead
  <2>4. Running' <=> Running
    BY DEF Running
  <2>5. QED
    BY <1>1, <2>1, <2>2, <2>3, <2>4 DEF KeyLogged
<1>3. QED
  BY <1>1, <1>2 DEF LogInv

(* A command about such a key is the only one that waits.                  *)
LEMMA WaitsAlone ==
  ASSUME OverwritesByOne, BaseInv, NEW k \in Lasting, NEW c \in Waiting(k)
  PROVE  Waiting(k) = {c}
<1>1. ASSUME NEW d \in Waiting(k) PROVE d = c
  <2>1. /\ c \in Client /\ req[c] \in Request(c, sent[c]) /\ sent[c] \in 1 .. MaxSends /\ req[c].key = k
        /\ d \in Client /\ req[d] \in Request(d, sent[d]) /\ sent[d] \in 1 .. MaxSends /\ req[d].key = k
    BY Working DEF Waiting
  <2>2. QED
    BY <2>1, OverwritesOnly
<1>2. QED
  BY <1>1

LEMMA CallLog ==
  ASSUME OverwritesByOne, BaseInv, LogInv,
         NEW c \in Client, NEW cmd \in Request(c, sent[c] + 1), Call(c, cmd)
  PROVE  LogInv'
<1>1. /\ cmd \in Requests /\ sent[c] + 1 \in 1 .. MaxSends
      /\ Sound(store) /\ now \in Int /\ now >= Start
      /\ pc \in [Client -> {"read", "expire", "append"}]
      /\ req \in [Client -> Requests \cup {NoCmd}]
  BY CallBase, ClockTicks DEF BaseInv, Typed
<1>2. /\ store' = FirstCall(store, cmd, now) /\ UNCHANGED <<file, buffer, phase, pos>>
      /\ pc[c] = "read" /\ Running
  BY DEF Call, disk, process
<1>3. Kept(file)' /\ Kept(file \o buffer)' /\ phase' # "replay" /\ phase' # "down" /\ PlaceInv'
  BY <1>2 DEF LogInv, PlaceInv, Running
<1>4. \A d \in Client : d # c => pc'[d] = pc[d] /\ req'[d] = req[d]
  BY <1>1 DEF Call
<1>5. /\ cmd.arg = Invalid => pc' = pc
      /\ cmd.arg # Invalid => /\ req'[c] = cmd
                              /\ pc'[c] = IF HasSecondCall(cmd) THEN "expire" ELSE "append"
  BY <1>1 DEF Call
<1>6. ASSUME NEW k \in Lasting PROVE KeyLogged(k)'
  <2>1. KeyLogged(k)
    BY DEF LogInv
  <2>2. store'.data[k] = After(store.data[k], k, cmd) /\ Plain(store'.data[k])
    BY <1>1, <1>2, <2>1, AfterCommand DEF KeyLogged
  <2>3. ASSUME NEW t \in Times PROVE Ahead(k, Logged(file \o buffer, t, k))'
    <3>1. PICK e : e = Logged(file \o buffer, t, k) /\ e = Logged(file' \o buffer', t, k)
      BY <1>2
    <3>2. Ahead(k, e)
      BY <1>2, <2>1, <3>1 DEF KeyLogged
    <3>3. CASE cmd.key = k
      <4>1. /\ cmd.arg # Invalid /\ ~HasSecondCall(cmd)
            /\ \A d \in Client, m \in 1 .. MaxSends : \A y \in Request(d, m) : y.key = k => d = c
        BY <1>1, <3>3, OverwritesOnly
      <4>2. ASSUME NEW d \in Client, pc[d] = "append", req[d].key = k PROVE FALSE
        <5>1. req[d] \in Request(d, sent[d]) /\ sent[d] \in 1 .. MaxSends
          BY <4>2, Working
        <5>2. d = c
          BY <4>1, <4>2, <5>1
        <5>3. QED
          BY <1>2, <4>2, <5>2
      <4>3. Waiting(k) = {}
        BY <4>2 DEF Waiting
      <4>4. store.data[k] = e
        BY <3>2, <4>3 DEF Ahead
      <4>5. pc'[c] = "append" /\ req'[c] = cmd
        BY <1>5, <4>1
      <4>6. Waiting(k)' = {c}
        BY <1>4, <3>3, <4>2, <4>5 DEF Waiting
      <4>7. store'.data[k] = Overwritten(e, req'[c])
        BY <2>2, <3>3, <4>4, <4>5 DEF After
      <4>8. QED
        BY <3>1, <4>6, <4>7 DEF Ahead
    <3>4. CASE cmd.key # k
      <4>1. store'.data[k] = store.data[k]
        BY <2>2, <3>4 DEF After
      <4>2. Waiting(k)' = Waiting(k) /\ \A d \in Waiting(k) : req'[d] = req[d]
        BY <1>2, <1>4, <1>5, <3>4 DEF Waiting
      <4>3. QED
        BY <3>1, <3>2, <4>1, <4>2 DEF Ahead
    <3>5. QED
      BY <3>3, <3>4
  <2>4. QED
    BY <1>3, <2>2, <2>3 DEF KeyLogged
<1>7. QED
  BY <1>3, <1>6 DEF LogInv

LEMMA AppendLog ==
  ASSUME OverwritesByOne, BaseInv, LogInv, NEW c \in Client, AppendAndReply(c)
  PROVE  LogInv'
<1> DEFINE l == req[c]
           f == file \o buffer
<1>1. /\ UNCHANGED <<store, file, phase, pos>> /\ buffer' = Append(buffer, l) /\ pc[c] = "append"
      /\ pc \in [Client -> {"read", "expire", "append"}]
      /\ req \in [Client -> Requests \cup {NoCmd}]
      /\ file \in Seq(Sent) /\ buffer \in Seq(Sent)
  BY DEF AppendAndReply, process, BaseInv, Typed
<1>2. Running /\ l \in Sent
  BY <1>1, Working
<1>3. f \in Seq(Sent) /\ file' \o buffer' = Append(f, l)
  BY <1>1, <1>2
<1>4. pc'[c] = "read" /\ \A d \in Client : d # c => pc'[d] = pc[d] /\ req'[d] = req[d]
  BY <1>1 DEF AppendAndReply
<1>5. phase' # "replay" /\ phase' # "down"
  BY <1>1, <1>2 DEF Running
<1> HIDE DEF l, f
<1>6. /\ Kept(Append(f, l))
      /\ \A t \in Times, k \in Lasting : Logged(Append(f, l), t, k) = After(Logged(f, t, k), k, l)
  <2>1. Kept(f)
    BY DEF LogInv, f
  <2>2. QED
    BY <1>2, <1>3, <2>1, LoggedLine
<1>7. ASSUME NEW k \in Lasting PROVE KeyLogged(k)'
  <2>1. KeyLogged(k)
    BY DEF LogInv
  <2>2. ASSUME NEW t \in Times PROVE Ahead(k, Logged(file \o buffer, t, k))'
    <3>1. PICK e : e = Logged(f, t, k)
      OBVIOUS
    <3>2. Ahead(k, e)
      BY <1>2, <2>1, <3>1 DEF KeyLogged, f
    <3>3. Logged(file' \o buffer', t, k) = After(e, k, l)
      BY <1>3, <1>6, <3>1
    <3>4. CASE l.key = k
      <4>1. c \in Waiting(k)
        BY <1>1, <3>4 DEF Waiting, l
      <4>2. store.data[k] = Overwritten(e, l)
        BY <3>2, <4>1 DEF Ahead, l
      <4>3. Waiting(k) = {c}
        BY <4>1, WaitsAlone
      <4>4. Waiting(k)' = {}
        BY <1>4, <4>3 DEF Waiting
      <4>5. QED
        BY <1>1, <3>3, <3>4, <4>2, <4>4 DEF Ahead, After
    <3>5. CASE l.key # k
      <4>1. Waiting(k)' = Waiting(k) /\ \A d \in Waiting(k) : req'[d] = req[d]
        BY <1>1, <1>4, <3>5 DEF Waiting, l
      <4>2. Logged(file' \o buffer', t, k) = e
        BY <3>3, <3>5 DEF After
      <4>3. QED
        BY <1>1, <3>2, <4>1, <4>2 DEF Ahead
    <3>6. QED
      BY <3>4, <3>5
  <2>3. QED
    BY <1>1, <1>5, <2>1, <2>2 DEF KeyLogged
<1>8. Kept(file)' /\ Kept(file \o buffer)' /\ PlaceInv'
  BY <1>1, <1>3, <1>5, <1>6 DEF LogInv, PlaceInv
<1>9. QED
  BY <1>5, <1>7, <1>8 DEF LogInv

(* What was in the buffer is on the disk.                                  *)
LEMMA FlushLog ==
  ASSUME BaseInv, LogInv, Running, Running', UNCHANGED <<store, pc, req>>,
         file' = file \o buffer, buffer' = <<>>
  PROVE  LogInv'
<1>1. file' \o buffer' = file \o buffer
  <2>1. file \in Seq(Sent) /\ buffer \in Seq(Sent)
    BY DEF BaseInv, Typed
  <2>2. file \o buffer \in Seq(Sent)
    BY <2>1, ConcatProperties
  <2>3. QED
    BY <2>2
<1>2. phase' # "replay" /\ phase' # "down"
  BY DEF Running
<1>3. Kept(file') /\ Kept(file' \o buffer') /\ PlaceInv'
  BY <1>1, <1>2 DEF LogInv, PlaceInv
<1>4. ASSUME NEW k \in Lasting PROVE KeyLogged(k)'
  <2>1. KeyLogged(k)
    BY DEF LogInv
  <2>2. ASSUME NEW e, Ahead(k, e) PROVE Ahead(k, e)'
    BY <2>2 DEF Ahead, Waiting
  <2>3. ASSUME NEW t \in Times PROVE Ahead(k, Logged(file \o buffer, t, k))'
    <3>1. PICK e : e = Logged(file \o buffer, t, k) /\ e = Logged(file' \o buffer', t, k)
      BY <1>1
    <3>2. Ahead(k, e)
      BY <2>1, <3>1 DEF KeyLogged
    <3>3. QED
      BY <2>2, <3>1, <3>2 DEF Ahead
  <2>4. QED
    BY <1>2, <2>1, <2>3 DEF KeyLogged
<1>5. QED
  BY <1>2, <1>3, <1>4 DEF LogInv

(* Flushed in a replay, the buffer lengthens what is to be replayed.       *)
LEMMA MidFlushLog ==
  ASSUME BaseInv, LogInv, phase = "replay", UNCHANGED <<store, phase, pos>>,
         file' = file \o buffer, buffer' = <<>>
  PROVE  LogInv'
<1>1. file \in Seq(Sent) /\ buffer \in Seq(Sent) /\ pos \in Nat \ {0} /\ pos <= Len(file) + 1
  BY DEF BaseInv, Typed, LogInv, PlaceInv
<1>2. /\ file \o buffer \in Seq(Sent) /\ Len(file \o buffer) >= Len(file)
      /\ \A i \in 1 .. Len(file) : (file \o buffer)[i] = file[i]
  BY <1>1, ConcatProperties
<1>3. file' \o buffer' = file \o buffer
  BY <1>2
<1>4. Done' = Done
  <2>1. SubSeq(file \o buffer, 1, pos - 1) = SubSeq(file, 1, pos - 1)
    BY <1>1, <1>2
  <2>2. QED
    BY <2>1 DEF Done
<1>5. PlaceInv' /\ Kept(file)' /\ Kept(file \o buffer)' /\ Kept(Done)'
  BY <1>1, <1>2, <1>3, <1>4 DEF LogInv, PlaceInv
<1>6. ASSUME NEW k \in Lasting PROVE KeyLogged(k)'
  <2>1. KeyLogged(k)
    BY DEF LogInv
  <2>2. ASSUME NEW t \in Times
        PROVE  Again(store.data[k], Logged(file', t, k), store'.data[k], Logged(file' \o buffer', t, k))
    <3>1. Logged(file' \o buffer', t, k) = Logged(file', t, k)
      BY <1>3
    <3>2. QED
      BY <3>1 DEF Again
  <2>3. ~Running'
    BY DEF Running
  <2>4. QED
    BY <1>4, <2>1, <2>2, <2>3 DEF KeyLogged
<1>7. QED
  BY <1>5, <1>6 DEF LogInv

(* Memory is gone; the file is what it was.                                *)
LEMMA DieLog ==
  ASSUME BaseInv, LogInv, Die
  PROVE  LogInv'
<1>1. /\ phase' = "down" /\ buffer' = <<>> /\ file' = file /\ store' = EmptyStore
      /\ file \in Seq(Sent)
  BY DEF Die, BaseInv, Typed
<1>2. file' \o buffer' = file
  BY <1>1
<1>3. Kept(file') /\ Kept(file' \o buffer') /\ PlaceInv'
  BY <1>1, <1>2 DEF LogInv, PlaceInv
<1>4. ASSUME NEW k \in Lasting PROVE KeyLogged(k)'
  <2>1. store'.data[k] = Absent /\ ~Running'
    BY <1>1, LastingKeys DEF EmptyStore, Running
  <2>2. QED
    BY <1>1, <2>1, MadePlain DEF KeyLogged
<1>5. QED
  BY <1>1, <1>3, <1>4 DEF LogInv

LEMMA RestartLog ==
  ASSUME BaseInv, LogInv, Restart
  PROVE  LogInv'
<1>1. /\ phase = "down" /\ phase' = "replay" /\ pos' = 1 /\ UNCHANGED <<store, file, buffer>>
      /\ buffer = <<>> /\ file \in Seq(Sent)
  BY DEF Restart, disk, LogInv, PlaceInv, BaseInv, Typed
<1>2. file' \o buffer' = file
  BY <1>1
<1>3. Done' = <<>>
  BY <1>1 DEF Done
<1>4. Kept(file') /\ Kept(file' \o buffer') /\ Kept(Done')
  BY <1>1, <1>2, <1>3, NothingLogged DEF LogInv
<1>5. PlaceInv'
  <2>1. Len(file) \in Nat
    BY <1>1
  <2>2. QED
    BY <1>1, <2>1 DEF PlaceInv
<1>6. ASSUME NEW k \in Lasting PROVE KeyLogged(k)'
  <2>1. KeyLogged(k) /\ store.data[k] = Absent
    BY <1>1 DEF LogInv, KeyLogged
  <2>2. ~Running'
    BY <1>1 DEF Running
  <2>3. \A t \in Times : Logged(Done', t, k) = Absent
    BY <1>3, NothingLogged
  <2>4. ASSUME NEW t \in Times
        PROVE  Again(Absent, Logged(file', t, k), store'.data[k], Logged(file' \o buffer', t, k))
    BY <1>1, <1>2, <2>1 DEF Again
  <2>5. QED
    BY <1>1, <2>1, <2>2, <2>3, <2>4, MadePlain DEF KeyLogged
<1>7. QED
  BY <1>4, <1>5, <1>6 DEF LogInv

(* A line is executed and copied.                                          *)
LEMMA ReplayLog ==
  ASSUME OverwritesByOne, BaseInv, LogInv, ReplayStep
  PROVE  LogInv'
<1> DEFINE l == file[pos]
           f == file \o buffer
<1>1. /\ phase = "replay" /\ phase' = "replay" /\ file' = file
      /\ store' = Execute(store, l, now) /\ buffer' = Append(buffer, l) /\ pos' = pos + 1
      /\ pos \in Nat \ {0} /\ pos <= Len(file) /\ file \in Seq(Sent) /\ buffer \in Seq(Sent)
      /\ Sound(store) /\ now \in Int /\ now >= Start
  BY ClockTicks DEF ReplayStep, BaseInv, Typed
<1>2. l \in Sent
  BY <1>1, ElementOfSeq
<1>3. l \in Requests /\ l.arg # Invalid
  BY <1>2 DEF Sent
<1>4. f \in Seq(Sent) /\ file' \o buffer' = Append(f, l)
  BY <1>1, <1>2
<1>5. Done \in Seq(Sent) /\ Done' = Append(Done, l)
  <2>1. SubSeq(file, 1, pos - 1) \in Seq(Sent)
    BY <1>1
  <2>2. SubSeq(file, 1, pos) = Append(SubSeq(file, 1, pos - 1), l)
    BY <1>1
  <2>3. (pos + 1) - 1 = pos
    BY <1>1
  <2>4. QED
    BY <1>1, <2>1, <2>2, <2>3 DEF Done
<1>6. PlaceInv'
  <2>1. Len(file) \in Nat /\ pos + 1 <= Len(file) + 1
    BY <1>1
  <2>2. QED
    BY <1>1, <2>1 DEF PlaceInv
<1> HIDE DEF l, f
<1>7. Kept(file) /\ Kept(f) /\ Kept(Done)
  BY <1>1 DEF LogInv, f
<1>8. /\ Kept(Append(f, l)) /\ Kept(Append(Done, l))
      /\ \A t \in Times, k \in Lasting :
           /\ Logged(Append(f, l), t, k) = After(Logged(f, t, k), k, l)
           /\ Logged(Append(Done, l), t, k) = After(Logged(Done, t, k), k, l)
  BY <1>2, <1>4, <1>5, <1>7, LoggedLine
<1>9. ASSUME NEW k \in Lasting PROVE KeyLogged(k)'
  <2>1. KeyLogged(k)
    BY DEF LogInv
  <2>2. store'.data[k] = After(store.data[k], k, l) /\ Plain(store'.data[k])
    BY <1>1, <1>3, <2>1, AfterCommand DEF KeyLogged
  <2>3. ASSUME NEW t \in Times
        PROVE  /\ store'.data[k] = Logged(Done', t, k)
               /\ \E b : /\ Plain(b)
                        /\ Again(b, Logged(file', t, k), store'.data[k], Logged(file' \o buffer', t, k))
    <3>1. PICK old, e, g : old = Logged(file, t, k) /\ e = store.data[k] /\ g = Logged(f, t, k)
      OBVIOUS
    <3>2. PICK b : Plain(b) /\ Again(b, old, e, g)
      BY <1>1, <2>1, <3>1 DEF KeyLogged, f
    <3>3. Plain(old) /\ Logged(Done, t, k) = e
      BY <1>1, <1>7, <2>1, <3>1 DEF Kept, KeyLogged
    <3>4. Again(b, old, After(e, k, l), After(g, k, l))
      <4>1. CASE l.key = k
        <5>1. PICK c \in Client, n \in 1 .. MaxSends : l \in Request(c, n)
          BY <1>3 DEF Requests
        <5>2. l.name \in Overwriting /\ WellFormed(l)
          BY <1>3, <4>1, <5>1, OverwritesOnly, RequestFits
        <5>3. QED
          BY <3>2, <3>3, <4>1, <5>2, AgainStays DEF After
      <4>2. CASE l.key # k
        BY <3>2, <4>2 DEF After
      <4>3. QED
        BY <4>1, <4>2
    <3>5. Logged(Done', t, k) = After(e, k, l) /\ Logged(file' \o buffer', t, k) = After(g, k, l)
      BY <1>4, <1>5, <1>8, <3>1, <3>3
    <3>6. QED
      BY <1>1, <2>2, <3>1, <3>2, <3>4, <3>5
  <2>4. ~Running'
    BY <1>1 DEF Running
  <2>5. QED
    BY <1>1, <2>2, <2>3, <2>4 DEF KeyLogged
<1>10. Kept(file)' /\ Kept(file \o buffer)' /\ Kept(Done)'
  BY <1>1, <1>4, <1>5, <1>7, <1>8
<1>11. QED
  BY <1>6, <1>9, <1>10 DEF LogInv

(* The whole file has been executed, with what flushes have added to it,   *)
(* and the lines that are in the buffer again change nothing.              *)
LEMMA ReplayEndLog ==
  ASSUME BaseInv, LogInv, ReplayEnd
  PROVE  LogInv'
<1>1. /\ phase = "replay" /\ phase' = "serving" /\ UNCHANGED <<store, file, buffer, pc, req>>
      /\ pos \in Nat \ {0} /\ pos > Len(file) /\ file \in Seq(Sent) /\ pos <= Len(file) + 1
  BY DEF ReplayEnd, disk, conn, BaseInv, Typed, LogInv, PlaceInv
<1>2. Done = file
  <2>1. Len(file) \in Nat /\ pos - 1 = Len(file)
    BY <1>1
  <2>2. SubSeq(file, 1, Len(file)) = file
    BY <1>1
  <2>3. QED
    BY <2>1, <2>2 DEF Done
<1>3. \A c \in Client : pc[c] # "append"
  BY <1>1 DEF BaseInv, Busy, Running
<1>4. ASSUME NEW k \in Lasting PROVE KeyLogged(k)'
  <2>1. KeyLogged(k)
    BY DEF LogInv
  <2>2. Waiting(k)' = {}
    BY <1>1, <1>3 DEF Waiting
  <2>3. ASSUME NEW t \in Times PROVE Ahead(k, Logged(file \o buffer, t, k))'
    <3>1. PICK old, g : old = Logged(file, t, k) /\ g = Logged(file \o buffer, t, k)
      OBVIOUS
    <3>2. store.data[k] = old /\ Plain(old)
      BY <1>1, <1>2, <2>1, <3>1 DEF KeyLogged
    <3>3. PICK b : Plain(b) /\ Again(b, old, old, g)
      BY <1>1, <2>1, <3>1, <3>2 DEF KeyLogged
    <3>4. g = old
      BY <3>2, <3>3, AgainEnds
    <3>5. Logged(file' \o buffer', t, k) = g
      BY <1>1, <3>1
    <3>6. QED
      BY <1>1, <2>2, <3>2, <3>4, <3>5 DEF Ahead
  <2>4. QED
    BY <1>1, <2>1, <2>3 DEF KeyLogged
<1>5. PlaceInv' /\ Kept(file)' /\ Kept(file \o buffer)'
  BY <1>1 DEF PlaceInv, LogInv
<1>6. QED
  BY <1>1, <1>4, <1>5 DEF LogInv

LEMMA InitLog == Init => LogInv
<1> SUFFICES ASSUME Init PROVE LogInv
  OBVIOUS
<1>1. /\ store = EmptyStore /\ file = <<>> /\ buffer = <<>> /\ phase = "serving"
      /\ pc = [c \in Client |-> "read"] /\ file \o buffer = <<>>
  BY DEF Init
<1>2. PlaceInv /\ Kept(file) /\ Kept(file \o buffer)
  BY <1>1, NothingLogged DEF PlaceInv
<1>3. ASSUME NEW k \in Lasting PROVE KeyLogged(k)
  <2>1. store.data[k] = Absent /\ Waiting(k) = {}
    BY <1>1, LastingKeys DEF EmptyStore, Waiting
  <2>2. \A t \in Times : Logged(file \o buffer, t, k) = Absent
    BY <1>1, NothingLogged
  <2>3. QED
    BY <1>1, <2>1, <2>2, MadePlain DEF KeyLogged, Ahead
<1>4. QED
  BY <1>1, <1>2, <1>3 DEF LogInv

LEMMA NextLog ==
  ASSUME OverwritesByOne, BaseInv, LogInv, [Next]_vars
  PROVE  LogInv'
<1>1. ASSUME NEW c \in Client, Connection(c) PROVE LogInv'
  <2>1. CASE \E cmd \in Request(c, sent[c] + 1) : Call(c, cmd)
    BY <2>1, CallLog
  <2>2. CASE SetDeadline(c)
    <3>1. /\ store' = SecondCall(store, req[c], now) /\ UNCHANGED <<file, buffer, phase, pos, req>>
          /\ Sound(store) /\ pc \in [Client -> {"read", "expire", "append"}]
          /\ pc' = [pc EXCEPT ![c] = "append"] /\ pc[c] = "expire"
      BY <2>2 DEF SetDeadline, disk, process, BaseInv, Typed
    <3>2. /\ req[c] \in Request(c, sent[c]) /\ sent[c] \in 1 .. MaxSends
          /\ HasSecondCall(req[c]) /\ req[c].key \in Key
      BY <3>1, Working, NamesKnown DEF BaseInv, Busy
    <3>3. ASSUME NEW k \in Lasting
          PROVE  /\ store'.data[k] = store.data[k] /\ Waiting(k)' = Waiting(k)
                 /\ \A d \in Waiting(k) : req'[d] = req[d]
      <4>1. req[c].key # k
        BY <3>2, OverwritesOnly
      <4>2. store'.data[k] = store.data[k]
        BY <3>1, <3>2, <4>1, LastingKeys, SecondCallSpares
      <4>3. QED
        BY <3>1, <4>1, <4>2 DEF Waiting
    <3>4. QED
      BY <3>1, <3>3, LogLeft
  <2>3. CASE AppendAndReply(c)
    BY <2>3, AppendLog
  <2>4. ASSUME NEW j \in ReadKeys, Get(c, j) PROVE LogInv'
    <3>1. /\ store' = GetLocked(store, j, now) /\ UNCHANGED <<file, buffer, phase, pos, pc, req>>
          /\ Sound(store) /\ j \in Key
      BY <2>4, ServerAssumption DEF Get, disk, process, conn, BaseInv, Typed
    <3>2. ASSUME NEW k \in Lasting PROVE store'.data[k] = store.data[k]
      <4>1. KeyLogged(k) /\ k \in Key
        BY LastingKeys DEF LogInv
      <4>2. ~(Has(store, k) /\ IsExpired(store.data[k], now))
        BY <4>1 DEF KeyLogged, Plain, IsExpired, Has
      <4>3. QED
        BY <3>1, <4>1, <4>2, GetLockedSpares
    <3>3. QED
      BY <3>1, <3>2, LogLeft DEF Waiting
  <2>5. QED
    BY <1>1, <2>1, <2>2, <2>3, <2>4 DEF Connection
<1>2. CASE Flush
  <2>1. CASE Running
    <3>1. Running'
      BY <1>2, <2>1 DEF Flush, Running
    <3>2. QED
      BY <1>2, <2>1, <3>1, FlushLog DEF Flush, conn
  <2>2. CASE phase = "replay"
    BY <1>2, <2>2, MidFlushLog DEF Flush
  <2>3. QED
    BY <1>2, <2>1, <2>2 DEF Flush, FlushDue
<1>3. ASSUME NEW j \in Key, SweepKey(j) PROVE LogInv'
  <2>1. /\ store' = DelOne(store, j) /\ UNCHANGED <<file, buffer, phase, pos, pc, req>>
        /\ Sound(store) /\ Has(store, j) /\ IsExpired(store.data[j], now)
    BY <1>3 DEF SweepKey, disk, process, conn, BaseInv, Typed, DelOne
  <2>2. ASSUME NEW k \in Lasting PROVE store'.data[k] = store.data[k]
    <3>1. KeyLogged(k) /\ k \in Key
      BY LastingKeys DEF LogInv
    <3>2. k # j
      BY <2>1, <3>1 DEF KeyLogged, Plain, IsExpired, Has
    <3>3. QED
      BY <2>1, <3>1, <3>2, DelLeaves
  <2>3. QED
    BY <2>1, <2>2, LogLeft DEF Waiting
<1>4. CASE Tick \/ UNCHANGED vars
  <2>1. UNCHANGED <<store, file, buffer, phase, pos, pc, req>>
    BY <1>4 DEF Tick, vars, disk, process, conn
  <2>2. QED
    BY <2>1, LogLeft DEF Waiting
<1>5. CASE Crash \/ Exit
  BY <1>5, DieLog DEF Crash, Exit
<1>6. CASE Signal
  <2>1. Running /\ Running'
    BY <1>6 DEF Signal, Running
  <2>2. QED
    BY <1>6, <2>1, FlushLog DEF Signal, conn
<1>7. CASE Restart
  BY <1>7, RestartLog
<1>8. CASE ReplayStep
  BY <1>8, ReplayLog
<1>9. CASE ReplayEnd
  BY <1>9, ReplayEndLog
<1>10. QED
  BY <1>1, <1>2, <1>3, <1>4, <1>5, <1>6, <1>7, <1>8, <1>9 DEF Next

(* Between the commands, replaying the log here and now gives the entries  *)
(* the store has, of every key that has no deadline: through any number    *)
(* of crashes, in the middle of a replay too, restarts, each of which      *)
(* leaves the log twice in the file, and flushes, also those that fall     *)
(* into a replay and give it more to replay.  The assumptions are needed:  *)
(* of two writers of a key the log may have the other order, and commands  *)
(* that do not overwrite are done twice.                                   *)
THEOREM LogReplaysTheStore ==
  ASSUME OverwritesByOne
  PROVE  Spec => []LogMatchesStore
<1>1. BaseInv /\ LogInv => LogMatchesStore
  <2> SUFFICES ASSUME BaseInv, LogInv, Quiet
               PROVE  Entries(store) = Entries(Replayed(file \o buffer, now))
    BY DEF LogMatchesStore
  <2>1. now \in Times /\ Running
    BY DEF BaseInv, Typed, Times, Quiet, Running
  <2> DEFINE s == Replayed(file \o buffer, now)
  <2>2. ASSUME NEW k \in Lasting
        PROVE  /\ store.data[k] = s.data[k]
               /\ Live(store, k, now) <=> Live(s, k, now)
    <3>1. KeyLogged(k) /\ Waiting(k) = {}
      BY DEF LogInv, Quiet, Waiting
    <3>2. store.data[k] = s.data[k]
      BY <2>1, <3>1 DEF KeyLogged, Ahead, Logged
    <3>3. QED
      BY <3>2 DEF Live, Has
  <2> HIDE DEF s
  <2>3. Entries(store) = Entries(s)
    BY <2>2 DEF Entries
  <2>4. QED
    BY <2>3 DEF s
<1>2. BaseInv /\ LogInv /\ [Next]_vars => LogInv'
  BY NextLog
<1>3. QED
  BY <1>1, <1>2, InitLog, AlwaysBase, PTL DEF Spec

=============================================================================
