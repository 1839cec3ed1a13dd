---------------------------- MODULE BrokerProofs ----------------------------
(***************************************************************************)
(* Proofs about Broker, for any number of connections, channels and        *)
(* subscriptions: the types, that the Broker and the connections agree on  *)
(* who has subscribed, that nothing is sent on a closed channel or closed  *)
(* twice, that a TCP connection that has ended has left nothing in the     *)
(* Broker, and what a client reads: the reply to SUBSCRIBE before any      *)
(* message of it, and the messages of a publisher in the order it sent     *)
(* them.                                                                   *)
(***************************************************************************)
EXTENDS Broker, TLAPS

-----------------------------------------------------------------------------
(* Types.                                                                  *)

Job == [channel : Channel \cup {None}, sub : Sub \cup {None},
        msg : Msg \cup {None}, todo : SUBSET Sub, count : Nat]

(* What a publisher sends is its own message, numbered as it began.        *)
PublisherHasMsg ==
  \A c \in Conn : pc[c] = "publishing" =>
    job[c].msg \in Msg /\ job[c].msg[1] = c /\ job[c].msg[2] <= published

LEMMA ServedJob ==
  ASSUME NEW j \in Job, NEW todo \in SUBSET Sub, NEW n \in Nat
  PROVE  [j EXCEPT !.todo = todo, !.count = n] \in Job
BY DEF Job

LEMMA FinishTyped ==
  ASSUME TypeOK, NEW c \in Conn, Finish(c)
  PROVE  /\ pc' \in [Conn -> {"idle", "subscribed", "unsubscribed", "publishing", "reply",
                              "leaving", "closed"}]
         /\ job' \in [Conn -> [channel : Channel \cup {None}, sub : Sub \cup {None},
                               msg : Msg \cup {None}, todo : SUBSET Sub, count : Nat]]
BY DEF TypeOK, Finish, Idle, Work

LEMMA NextTyped == TypeOK /\ PublisherHasMsg /\ [Next]_vars => TypeOK'
<1> SUFFICES ASSUME TypeOK, PublisherHasMsg, [Next]_vars PROVE TypeOK'
  OBVIOUS
<1> USE BrokerAssumption DEF broker, goroutines, conns, network
<1>1. ASSUME NEW c \in Conn, NEW ch \in Channel, NEW s \in Sub, Subscribe(c, ch, s)
      PROVE  TypeOK'
  BY <1>1 DEF Subscribe, TypeOK, Work
<1>2. ASSUME NEW c \in Conn, NEW ch \in Channel, Unsubscribe(c, ch) PROVE TypeOK'
  <2>1. clientSubs[c][ch] \in Sub
    BY <1>2 DEF Unsubscribe, Drop, TypeOK
  <2>2. QED
    BY <1>2, <2>1 DEF Unsubscribe, Drop, TypeOK, Work
<1>3. ASSUME NEW c \in Conn, NEW ch \in Channel, PublishBegin(c, ch) PROVE TypeOK'
  <2>1. <<c, published + 1>> \in Msg /\ published + 1 \in 0 .. MaxMsgs /\ subs[ch] \in SUBSET Sub
    BY <1>3 DEF PublishBegin, TypeOK, Msg
  <2>2. QED
    BY <1>3, <2>1 DEF PublishBegin, TypeOK, Work
<1>4. ASSUME NEW c \in Conn, Finishing(c) PROVE TypeOK'
  <2>1. CASE Confirm(c)
    BY <2>1, FinishTyped DEF Confirm, TypeOK
  <2>2. CASE ConfirmUnsubscribe(c)
    BY <2>2, FinishTyped DEF ConfirmUnsubscribe, TypeOK
  <2>3. CASE PublishSend(c)
    <3>1. PICK s \in job[c].todo :
            LET room == Len(queue[s]) < Cap
            IN  /\ queue' = IF room THEN [queue EXCEPT ![s] = Append(@, job[c].msg)] ELSE queue
                /\ job' = [job EXCEPT ![c].todo = @ \ {s},
                                      ![c].count = IF room THEN @ + 1 ELSE @]
      BY <2>3 DEF PublishSend
    <3>2. /\ pc[c] = "publishing" /\ job[c].todo \subseteq Sub /\ job[c].count \in Nat
          /\ UNCHANGED <<subs, closed, goroutines, clientSubs, owner, pc, network, published>>
      BY <2>3 DEF PublishSend, TypeOK
    <3>3. s \in Sub /\ queue[s] \in Seq(Msg) /\ Len(queue[s]) \in Nat /\ job[c].msg \in Msg
      BY <3>1, <3>2 DEF TypeOK, PublisherHasMsg
    <3>4. /\ Append(queue[s], job[c].msg) \in Seq(Msg)
          /\ Len(Append(queue[s], job[c].msg)) = Len(queue[s]) + 1
      BY <3>3
    <3>5. queue' \in [Sub -> Seq(Msg)] /\ \A r \in Sub : Len(queue'[r]) <= Cap
      <4>1. CASE Len(queue[s]) < Cap
        <5>1. queue' = [queue EXCEPT ![s] = Append(queue[s], job[c].msg)]
          BY <3>1, <4>1
        <5>2. Len(Append(queue[s], job[c].msg)) <= Cap
          BY <3>3, <3>4, <4>1
        <5>3. QED
          BY <3>3, <3>4, <5>1, <5>2 DEF TypeOK
      <4>2. CASE ~(Len(queue[s]) < Cap)
        BY <3>1, <4>2 DEF TypeOK
      <4>3. QED
        BY <4>1, <4>2
    <3>6. job' \in [Conn -> Job]
      <4>1. PICK n \in {job[c].count, job[c].count + 1} :
              job' = [job EXCEPT ![c].todo = @ \ {s}, ![c].count = n]
        BY <3>1
      <4>2. n \in Nat /\ job[c].todo \ {s} \in SUBSET Sub
        BY <3>2, <4>1
      <4>3. job \in [Conn -> Job]
        BY DEF TypeOK, Job
      <4>4. [job[c] EXCEPT !.todo = @ \ {s}, !.count = n] \in Job
        BY <4>2, <4>3, ServedJob
      <4>5. job' = [job EXCEPT ![c] = [job[c] EXCEPT !.todo = @ \ {s}, !.count = n]]
        BY <4>1, <4>3
      <4>6. QED
        BY <4>3, <4>4, <4>5
    <3>7. QED
      BY <3>2, <3>5, <3>6 DEF TypeOK, Job
  <2>4. CASE PublishEnd(c)
    BY <2>4 DEF PublishEnd, TypeOK
  <2>5. CASE Reply(c)
    BY <2>5, FinishTyped DEF Reply, TypeOK
  <2>6. QED
    BY <1>4, <2>1, <2>2, <2>3, <2>4, <2>5 DEF Finishing
<1>5. ASSUME NEW c \in Conn, Ending(c) PROVE TypeOK'
  <2>1. CASE Leave(c)
    BY <2>1 DEF Leave, TypeOK
  <2>2. CASE Cleanup(c)
    <3>1. PICK ch \in Channel : Drop(c, ch)
      BY <2>2 DEF Cleanup
    <3>2. clientSubs[c][ch] \in Sub
      BY <3>1 DEF Drop, TypeOK
    <3>3. QED
      BY <2>2, <3>1, <3>2 DEF Cleanup, Drop, TypeOK
  <2>3. CASE CloseConn(c)
    BY <2>3 DEF CloseConn, TypeOK
  <2>4. QED
    BY <1>5, <2>1, <2>2, <2>3 DEF Ending
<1>6. ASSUME NEW c \in Conn, Stall(c) \/ Hangup(c) PROVE TypeOK'
  BY <1>6 DEF Stall, Hangup, TypeOK
<1>7. ASSUME NEW s \in Sub, Goroutine(s) PROVE TypeOK'
  <2>1. CASE Receive(s)
    <3>1. queue[s] \in Seq(Msg) /\ queue[s] # <<>>
      BY <2>1 DEF Receive, TypeOK
    <3>2. /\ Tail(queue[s]) \in Seq(Msg) /\ Len(Tail(queue[s])) <= Cap
          /\ <<Head(queue[s])>> \in Seq(Msg) /\ Len(<<Head(queue[s])>>) <= 1
      BY <3>1 DEF TypeOK
    <3>3. QED
      BY <2>1, <3>2 DEF Receive, TypeOK
  <2>2. CASE Deliver(s)
    <3>1. <<>> \in Seq(Msg) /\ Len(<<>>) <= 1
      OBVIOUS
    <3>2. QED
      BY <2>2, <3>1 DEF Deliver, TypeOK
  <2>3. CASE ReaderEnds(s)
    BY <2>3 DEF ReaderEnds, TypeOK
  <2>4. QED
    BY <1>7, <2>1, <2>2, <2>3 DEF Goroutine
<1>8. CASE UNCHANGED vars
  BY <1>8 DEF vars, TypeOK
<1>9. QED
  BY <1>1, <1>2, <1>3, <1>4, <1>5, <1>6, <1>7, <1>8 DEF Next, Command

LEMMA NextHasMsg == TypeOK /\ PublisherHasMsg /\ [Next]_vars => PublisherHasMsg'
<1> SUFFICES ASSUME TypeOK, PublisherHasMsg, [Next]_vars, NEW d \in Conn, pc'[d] = "publishing"
             PROVE  job'[d].msg \in Msg /\ job'[d].msg[1] = d /\ job'[d].msg[2] <= published'
  BY DEF PublisherHasMsg
<1> USE DEF broker, goroutines, conns, network
<1>1. ASSUME NEW c \in Conn, NEW ch \in Channel, PublishBegin(c, ch)
      PROVE  job'[d].msg \in Msg /\ job'[d].msg[1] = d /\ job'[d].msg[2] <= published'
  <2>1. published \in Nat /\ published' = published + 1 /\ published + 1 \in 1 .. MaxMsgs
    BY <1>1, BrokerAssumption DEF PublishBegin, TypeOK
  <2>2. CASE d = c
    BY <1>1, <2>1, <2>2 DEF PublishBegin, TypeOK, Work, Msg
  <2>3. CASE d # c
    <3>1. job'[d] = job[d] /\ pc[d] = "publishing"
      BY <1>1, <2>3 DEF PublishBegin, TypeOK
    <3>2. QED
      BY <2>1, <3>1 DEF PublisherHasMsg, Msg
  <2>4. QED
    BY <2>2, <2>3
<1>2. CASE /\ pc[d] = "publishing" /\ job'[d].msg = job[d].msg /\ published' = published
  BY <1>2 DEF PublisherHasMsg
<1>3. ASSUME NEW c \in Conn, NEW ch \in Channel, NEW s \in Sub, Subscribe(c, ch, s)
      PROVE  pc[d] = "publishing" /\ job'[d].msg = job[d].msg /\ published' = published
  BY <1>3 DEF Subscribe, TypeOK
<1>4. ASSUME NEW c \in Conn, NEW ch \in Channel, Unsubscribe(c, ch)
      PROVE  pc[d] = "publishing" /\ job'[d].msg = job[d].msg /\ published' = published
  BY <1>4 DEF Unsubscribe, TypeOK
<1>5. ASSUME NEW c \in Conn, Finishing(c)
      PROVE  pc[d] = "publishing" /\ job'[d].msg = job[d].msg /\ published' = published
  <2>1. CASE Finish(c) /\ published' = published
    BY <2>1 DEF Finish, TypeOK
  <2>2. CASE PublishSend(c)
    <3>1. PICK s \in job[c].todo, n \in {job[c].count, job[c].count + 1} :
            job' = [job EXCEPT ![c].todo = @ \ {s}, ![c].count = n]
      BY <2>2 DEF PublishSend
    <3>2. QED
      BY <2>2, <3>1 DEF PublishSend, TypeOK
  <2>3. CASE PublishEnd(c)
    BY <2>3 DEF PublishEnd, TypeOK
  <2>4. QED
    BY <1>5, <2>1, <2>2, <2>3 DEF Finishing, Confirm, ConfirmUnsubscribe, Reply
<1>6. ASSUME NEW c \in Conn, Ending(c) \/ Stall(c) \/ Hangup(c)
      PROVE  pc[d] = "publishing" /\ job'[d].msg = job[d].msg /\ published' = published
  BY <1>6 DEF Ending, Leave, Cleanup, CloseConn, Stall, Hangup, TypeOK
<1>7. ASSUME NEW s \in Sub, Goroutine(s)
      PROVE  pc[d] = "publishing" /\ job'[d].msg = job[d].msg /\ published' = published
  BY <1>7 DEF Goroutine, Receive, Deliver, ReaderEnds
<1>8. CASE UNCHANGED vars
  BY <1>2, <1>8 DEF vars
<1>9. QED
  BY <1>1, <1>2, <1>3, <1>4, <1>5, <1>6, <1>7, <1>8 DEF Next, Command

LEMMA InitTyped == Init => TypeOK /\ PublisherHasMsg
BY BrokerAssumption DEF Init, Idle, Work, TypeOK, PublisherHasMsg

LEMMA AlwaysTyped == Spec => [](TypeOK /\ PublisherHasMsg)
BY InitTyped, NextTyped, NextHasMsg, PTL DEF Spec

(* Every variable has its type, a channel holds at most Cap messages and a *)
(* goroutine at most one, whoever publishes and unsubscribes at the time   *)
(* (broker.go:64-79).                                                      *)
THEOREM TypeCorrect == Spec => []TypeOK
BY AlwaysTyped, PTL

-----------------------------------------------------------------------------
(* Panics, and what is left of a connection.                               *)

(* A publisher works on what is in the Broker now: the lock keeps others   *)
(* from changing it.                                                       *)
TodoIsCurrent ==
  \A c \in Conn : pc[c] = "publishing" =>
    job[c].channel \in Channel /\ job[c].todo \subseteq subs[job[c].channel]

SubsOpen == \A ch \in Channel : subs[ch] \cap closed = {}
ClosedMade == \A s \in closed : s \in Sub /\ owner[s] # None
EndedForgets ==
  \A c \in Conn \ Http : pc[c] = "closed" => \A ch \in Channel : clientSubs[c][ch] = None

(* NoPanic alone is not inductive: a fresh channel must be known not to be *)
(* closed, and what Unsubscribe closes not to be in another set.           *)
IInv == TodoIsCurrent /\ Agreed /\ SubsOpen /\ ClosedMade /\ EndedForgets

LEMMA InitIInv == Init => IInv
BY BrokerAssumption
DEF Init, Idle, Work, IInv, TodoIsCurrent, Agreed, SubsOpen, ClosedMade, EndedForgets

(* Closing what a connection has on a channel, with the lock.              *)
LEMMA DropKeeps ==
  ASSUME TypeOK, IInv, NEW c \in Conn, NEW ch \in Channel, Drop(c, ch)
  PROVE  Agreed' /\ SubsOpen' /\ ClosedMade'
<1> DEFINE s == clientSubs[c][ch]
<1>1. /\ s \in Sub /\ s # None /\ s \in subs[ch] /\ owner[s] = c
      /\ subs' = [subs EXCEPT ![ch] = @ \ {s}]
      /\ closed' = closed \cup {s}
      /\ clientSubs' = [clientSubs EXCEPT ![c][ch] = None]
      /\ owner' = owner
  BY DEF Drop, IInv, TypeOK, Agreed
<1> HIDE DEF s
<1>2. s = clientSubs[c][ch]
  BY DEF s
<1>3. \A c2 \in Conn, ch2 \in Channel :
        clientSubs'[c2][ch2] = IF c2 = c /\ ch2 = ch THEN None ELSE clientSubs[c2][ch2]
  BY <1>1 DEF IInv, TypeOK
<1>4. \A ch2 \in Channel : subs'[ch2] = IF ch2 = ch THEN subs[ch] \ {s} ELSE subs[ch2]
  BY <1>1 DEF IInv, TypeOK
<1>5. \A ch2 \in Channel : subs'[ch2] \subseteq subs[ch2]
  BY <1>4
<1>6. Agreed'
  <2>1. ASSUME NEW ch2 \in Channel, NEW s2 \in subs'[ch2]
        PROVE  owner'[s2] \in Conn /\ clientSubs'[owner'[s2]][ch2] = s2
    <3>1. /\ s2 \in subs[ch2] /\ owner[s2] \in Conn
          /\ clientSubs[owner[s2]][ch2] = s2
      BY <1>5, <2>1 DEF IInv, Agreed
    <3>2. ~(owner[s2] = c /\ ch2 = ch)
      BY <1>2, <1>4, <2>1, <3>1
    <3>3. QED
      BY <1>1, <1>3, <3>1, <3>2
  <2>2. ASSUME NEW c2 \in Conn, NEW ch2 \in Channel, clientSubs'[c2][ch2] # None
        PROVE  clientSubs'[c2][ch2] \in subs'[ch2] /\ owner'[clientSubs'[c2][ch2]] = c2
    <3>1. ~(c2 = c /\ ch2 = ch) /\ clientSubs'[c2][ch2] = clientSubs[c2][ch2]
      BY <1>3, <2>2
    <3>2. /\ clientSubs[c2][ch2] \in subs[ch2]
          /\ owner[clientSubs[c2][ch2]] = c2
      BY <2>2, <3>1 DEF IInv, Agreed
    <3>3. QED
      BY <1>1, <1>4, <3>1, <3>2
  <2>3. \A ch1, ch2 \in Channel : ch1 # ch2 => subs'[ch1] \cap subs'[ch2] = {}
    BY <1>5 DEF IInv, Agreed
  <2>4. QED
    BY <2>1, <2>2, <2>3 DEF Agreed
<1>7. SubsOpen'
  BY <1>1, <1>4 DEF IInv, Agreed, SubsOpen
<1>8. ClosedMade'
  BY <1>1, BrokerAssumption DEF IInv, ClosedMade
<1>9. QED
  BY <1>6, <1>7, <1>8

(* Most actions leave the Broker alone, and put no connection to publish   *)
(* or, over TCP, to its end.                                               *)
LEMMA QuietStep ==
  ASSUME TypeOK, IInv, UNCHANGED <<subs, closed, clientSubs, owner>>,
         \A c \in Conn : pc'[c] = "publishing" =>
           job'[c].channel \in Channel /\ job'[c].todo \subseteq subs[job'[c].channel],
         \A c \in Conn \ Http : pc'[c] = "closed" =>
           \A ch \in Channel : clientSubs[c][ch] = None
  PROVE  IInv'
BY DEF IInv, TypeOK, TodoIsCurrent, Agreed, SubsOpen, ClosedMade, EndedForgets

LEMMA FinishQuiet ==
  ASSUME TypeOK, IInv, NEW c \in Conn, Finish(c), UNCHANGED <<subs, closed, clientSubs, owner, published>>
  PROVE  IInv'
<1>1. /\ pc' = [pc EXCEPT ![c] = IF c \in Http THEN "closed" ELSE "idle"]
      /\ job' = [job EXCEPT ![c] = Idle]
  BY DEF Finish
<1>2. \A d \in Conn : pc'[d] = "publishing" => d # c /\ pc[d] = "publishing" /\ job'[d] = job[d]
  BY <1>1 DEF IInv, TypeOK
<1>3. \A d \in Conn \ Http : pc'[d] = "closed" => pc[d] = "closed"
  BY <1>1 DEF IInv, TypeOK
<1>4. QED
  BY <1>2, <1>3, QuietStep DEF IInv, TypeOK, TodoIsCurrent, EndedForgets

LEMMA SubscribeKeeps ==
  ASSUME TypeOK, IInv, NEW c \in Conn, NEW ch \in Channel, NEW s \in Sub, Subscribe(c, ch, s)
  PROVE  IInv'
<1> USE DEF IInv
<1>1. /\ pc[c] = "idle" /\ clientSubs[c][ch] = None /\ owner[s] = None
      /\ \A d \in Conn : pc[d] # "publishing"
      /\ subs' = [subs EXCEPT ![ch] = @ \cup {s}]
      /\ clientSubs' = [clientSubs EXCEPT ![c][ch] = s]
      /\ owner' = [owner EXCEPT ![s] = c]
      /\ pc' = [pc EXCEPT ![c] = "subscribed"]
      /\ job' = [job EXCEPT ![c] = Work(ch, s, None, {})]
      /\ closed' = closed /\ published' = published
  BY DEF Subscribe, LockFree
<1>2. \A c2 \in Conn, ch2 \in Channel :
        clientSubs'[c2][ch2] = IF c2 = c /\ ch2 = ch THEN s ELSE clientSubs[c2][ch2]
  BY <1>1 DEF TypeOK
<1>3. \A ch2 \in Channel : subs'[ch2] = IF ch2 = ch THEN subs[ch] \cup {s} ELSE subs[ch2]
  BY <1>1 DEF TypeOK
<1>4. \A ch2 \in Channel : s \notin subs[ch2]
  BY <1>1, BrokerAssumption DEF Agreed
<1>5. s \notin closed
  BY <1>1 DEF ClosedMade
<1>6. \A s2 \in Sub : owner'[s2] = IF s2 = s THEN c ELSE owner[s2]
  BY <1>1 DEF TypeOK
<1>7. TodoIsCurrent'
  BY <1>1 DEF TypeOK, TodoIsCurrent
<1>8. Agreed'
  <2>1. ASSUME NEW ch2 \in Channel, NEW s2 \in subs'[ch2]
        PROVE  owner'[s2] \in Conn /\ clientSubs'[owner'[s2]][ch2] = s2
    <3>1. CASE s2 = s
      <4>1. ch2 = ch
        BY <1>3, <1>4, <2>1, <3>1
      <4>2. QED
        BY <1>2, <1>6, <3>1, <4>1
    <3>2. CASE s2 # s
      <4>1. s2 \in subs[ch2] /\ s2 \in Sub
        BY <1>3, <2>1, <3>2 DEF TypeOK
      <4>2. owner[s2] \in Conn /\ clientSubs[owner[s2]][ch2] = s2
        BY <4>1 DEF Agreed
      <4>3. ~(owner[s2] = c /\ ch2 = ch)
        BY <1>1, <4>1, <4>2, BrokerAssumption
      <4>4. QED
        BY <1>2, <1>6, <3>2, <4>1, <4>2, <4>3
    <3>3. QED
      BY <3>1, <3>2
  <2>2. ASSUME NEW c2 \in Conn, NEW ch2 \in Channel, clientSubs'[c2][ch2] # None
        PROVE  clientSubs'[c2][ch2] \in subs'[ch2] /\ owner'[clientSubs'[c2][ch2]] = c2
    <3>1. CASE c2 = c /\ ch2 = ch
      BY <1>2, <1>3, <1>6, <3>1
    <3>2. CASE ~(c2 = c /\ ch2 = ch)
      <4>1. clientSubs'[c2][ch2] = clientSubs[c2][ch2]
        BY <1>2, <3>2
      <4>2. /\ clientSubs[c2][ch2] \in subs[ch2]
            /\ owner[clientSubs[c2][ch2]] = c2
        BY <2>2, <4>1 DEF Agreed
      <4>3. clientSubs[c2][ch2] \in Sub /\ clientSubs[c2][ch2] # s
        BY <1>4, <4>2 DEF TypeOK
      <4>4. QED
        BY <1>3, <1>6, <4>1, <4>2, <4>3
    <3>3. QED
      BY <3>1, <3>2
  <2>3. \A ch1, ch2 \in Channel : ch1 # ch2 => subs'[ch1] \cap subs'[ch2] = {}
    BY <1>3, <1>4 DEF Agreed
  <2>4. QED
    BY <2>1, <2>2, <2>3 DEF Agreed
<1>9. SubsOpen'
  BY <1>1, <1>3, <1>5 DEF SubsOpen
<1>10. ClosedMade'
  BY <1>1, <1>5, <1>6 DEF ClosedMade
<1>11. EndedForgets'
  <2>1. \A d \in Conn : pc'[d] = "closed" => d # c /\ pc[d] = "closed"
    BY <1>1 DEF TypeOK
  <2>2. QED
    BY <1>2, <2>1 DEF EndedForgets
<1>12. QED
  BY <1>7, <1>8, <1>9, <1>10, <1>11 DEF IInv

LEMMA UnsubscribeKeeps ==
  ASSUME TypeOK, IInv, NEW c \in Conn, NEW ch \in Channel, Unsubscribe(c, ch)
  PROVE  IInv'
<1>1. /\ Drop(c, ch) /\ pc[c] = "idle" /\ LockFree
      /\ pc' = [pc EXCEPT ![c] = "unsubscribed"]
      /\ job' = [job EXCEPT ![c] = Work(ch, clientSubs[c][ch], None, {})]
      /\ owner' = owner /\ published' = published
  BY DEF Unsubscribe, Drop, network
<1>2. Agreed' /\ SubsOpen' /\ ClosedMade'
  BY <1>1, DropKeeps
<1>3. TodoIsCurrent'
  BY <1>1 DEF LockFree, IInv, TypeOK, TodoIsCurrent
<1>4. EndedForgets'
  <2>1. \A d \in Conn : pc'[d] = "closed" => d # c /\ pc[d] = "closed"
    BY <1>1 DEF IInv, TypeOK
  <2>2. \A d \in Conn : d # c => clientSubs'[d] = clientSubs[d]
    BY <1>1 DEF Drop, IInv, TypeOK
  <2>3. QED
    BY <2>1, <2>2 DEF IInv, EndedForgets
<1>5. QED
  BY <1>2, <1>3, <1>4 DEF IInv

LEMMA CleanupKeeps ==
  ASSUME TypeOK, IInv, NEW c \in Conn, Cleanup(c)
  PROVE  IInv'
<1>1. PICK ch \in Channel : Drop(c, ch)
  BY DEF Cleanup
<1>2. /\ pc[c] = "leaving" /\ LockFree /\ pc' = pc /\ job' = job
      /\ owner' = owner /\ published' = published
  BY <1>1 DEF Cleanup, Drop
<1>3. Agreed' /\ SubsOpen' /\ ClosedMade'
  BY <1>1, DropKeeps
<1>4. TodoIsCurrent'
  BY <1>2 DEF LockFree, IInv, TypeOK, TodoIsCurrent
<1>5. EndedForgets'
  <2>1. \A d \in Conn : d # c => clientSubs'[d] = clientSubs[d]
    BY <1>1 DEF Drop, IInv, TypeOK
  <2>2. QED
    BY <1>2, <2>1 DEF IInv, EndedForgets
<1>6. QED
  BY <1>3, <1>4, <1>5 DEF IInv

LEMMA PublishBeginKeeps ==
  ASSUME TypeOK, IInv, NEW c \in Conn, NEW ch \in Channel, PublishBegin(c, ch)
  PROVE  IInv'
<1> DEFINE j == Work(ch, None, <<c, published + 1>>, subs[ch])
<1>1. /\ pc' = [pc EXCEPT ![c] = "publishing"]
      /\ job' = [job EXCEPT ![c] = j]
      /\ published' = published + 1
      /\ UNCHANGED <<subs, closed, clientSubs, owner>>
  BY DEF PublishBegin, broker
<1>2. j.channel = ch /\ j.todo = subs[ch]
  BY DEF Work
<1> HIDE DEF j
<1>3. \A d \in Conn : d # c => job'[d] = job[d] /\ pc'[d] = pc[d]
  BY <1>1 DEF IInv, TypeOK
<1>4. job'[c] = j /\ pc'[c] = "publishing"
  BY <1>1 DEF IInv, TypeOK
<1>5. QED
  BY <1>1, <1>2, <1>3, <1>4, QuietStep DEF IInv, TodoIsCurrent, EndedForgets

LEMMA PublishSendKeeps ==
  ASSUME TypeOK, IInv, NEW c \in Conn, PublishSend(c)
  PROVE  IInv'
<1>1. PICK s \in job[c].todo, n \in {job[c].count, job[c].count + 1} :
        job' = [job EXCEPT ![c].todo = @ \ {s}, ![c].count = n]
  BY DEF PublishSend
<1>2. /\ pc[c] = "publishing" /\ pc' = pc /\ published' = published
      /\ UNCHANGED <<subs, closed, clientSubs, owner>>
  BY DEF PublishSend
<1>3. /\ job'[c].channel = job[c].channel /\ job'[c].todo = job[c].todo \ {s}
      /\ \A d \in Conn : d # c => job'[d] = job[d]
  BY <1>1 DEF TypeOK
<1>4. QED
  BY <1>2, <1>3, QuietStep DEF IInv, TypeOK, TodoIsCurrent, EndedForgets

LEMMA NextIInv == TypeOK /\ IInv /\ [Next]_vars => IInv'
<1> SUFFICES ASSUME TypeOK, IInv, [Next]_vars PROVE IInv'
  OBVIOUS
<1> USE DEF broker, goroutines, conns, network
<1>1. ASSUME NEW c \in Conn, NEW ch \in Channel, NEW s \in Sub, Subscribe(c, ch, s) PROVE IInv'
  BY <1>1, SubscribeKeeps
<1>2. ASSUME NEW c \in Conn, NEW ch \in Channel, Unsubscribe(c, ch) PROVE IInv'
  BY <1>2, UnsubscribeKeeps
<1>3. ASSUME NEW c \in Conn, NEW ch \in Channel, PublishBegin(c, ch) PROVE IInv'
  BY <1>3, PublishBeginKeeps
<1>4. ASSUME NEW c \in Conn, Finishing(c) PROVE IInv'
  <2>1. CASE Confirm(c)
    BY <2>1, FinishQuiet DEF Confirm
  <2>2. CASE ConfirmUnsubscribe(c)
    BY <2>2, FinishQuiet DEF ConfirmUnsubscribe
  <2>3. CASE PublishSend(c)
    BY <2>3, PublishSendKeeps
  <2>4. CASE PublishEnd(c)
    <3>1. /\ pc' = [pc EXCEPT ![c] = "reply"]
          /\ UNCHANGED <<subs, closed, clientSubs, owner, job, published>>
      BY <2>4 DEF PublishEnd
    <3>2. \A d \in Conn : pc'[d] \in {"publishing", "closed"} => pc'[d] = pc[d]
      BY <3>1 DEF IInv, TypeOK
    <3>3. QED
      BY <3>1, <3>2, QuietStep DEF IInv, TypeOK, TodoIsCurrent, EndedForgets
  <2>5. CASE Reply(c)
    BY <2>5, FinishQuiet DEF Reply
  <2>6. QED
    BY <1>4, <2>1, <2>2, <2>3, <2>4, <2>5 DEF Finishing
<1>5. ASSUME NEW c \in Conn, Ending(c) PROVE IInv'
  <2>1. CASE Leave(c)
    <3>1. /\ pc' = [pc EXCEPT ![c] = "leaving"]
          /\ UNCHANGED <<subs, closed, clientSubs, owner, job, published>>
      BY <2>1 DEF Leave
    <3>2. \A d \in Conn : pc'[d] \in {"publishing", "closed"} => pc'[d] = pc[d]
      BY <3>1 DEF IInv, TypeOK
    <3>3. QED
      BY <3>1, <3>2, QuietStep DEF IInv, TypeOK, TodoIsCurrent, EndedForgets
  <2>2. CASE Cleanup(c)
    BY <2>2, CleanupKeeps
  <2>3. CASE CloseConn(c)
    <3>1. /\ pc' = [pc EXCEPT ![c] = "closed"]
          /\ \A ch \in Channel : clientSubs[c][ch] = None
          /\ UNCHANGED <<subs, closed, clientSubs, owner, job, published>>
      BY <2>3 DEF CloseConn
    <3>2. \A d \in Conn : d # c => pc'[d] = pc[d]
      BY <3>1 DEF IInv, TypeOK
    <3>3. pc'[c] = "closed"
      BY <3>1 DEF IInv, TypeOK
    <3>4. QED
      BY <3>1, <3>2, <3>3, QuietStep DEF IInv, TypeOK, TodoIsCurrent, EndedForgets
  <2>4. QED
    BY <1>5, <2>1, <2>2, <2>3 DEF Ending
<1>6. CASE UNCHANGED <<subs, closed, clientSubs, owner, pc, job, published>>
  BY <1>6, QuietStep DEF IInv, TypeOK, TodoIsCurrent, EndedForgets
<1>7. ASSUME NEW c \in Conn, Stall(c) \/ Hangup(c) PROVE IInv'
  BY <1>6, <1>7 DEF Stall, Hangup
<1>8. ASSUME NEW s \in Sub, Goroutine(s) PROVE IInv'
  BY <1>6, <1>8 DEF Goroutine, Receive, Deliver, ReaderEnds
<1>9. CASE UNCHANGED vars
  BY <1>6, <1>9 DEF vars
<1>10. QED
  BY <1>1, <1>2, <1>3, <1>4, <1>5, <1>7, <1>8, <1>9 DEF Next, Command

LEMMA AlwaysIInv == Spec => []IInv
BY InitIInv, NextIInv, AlwaysTyped, PTL DEF Spec

(* The process does not panic: no publisher sends on a closed channel, and *)
(* no channel is closed twice, whoever unsubscribes or leaves meanwhile.   *)
THEOREM NeverPanics == Spec => []NoPanic
<1>1. IInv => NoPanic
  BY DEF IInv, NoPanic, TodoIsCurrent, SubsOpen
<1>2. QED
  BY <1>1, AlwaysIInv, PTL

(* What the Broker sends to and what the connections know they have to     *)
(* drop are the same subscriptions, after every step of anybody.           *)
THEOREM BooksAgree == Spec => []Agreed
<1>1. IInv => Agreed
  BY DEF IInv
<1>2. QED
  BY <1>1, AlwaysIInv, PTL

(* Where every connection is a TCP connection, one that has ended holds no *)
(* subscription.  The assumption is needed: POST /api/exec leaves one.     *)
THEOREM TCPEndsClean ==
  ASSUME Http = {}
  PROVE  Spec => []EndedHoldsNothing
<1>1. TypeOK /\ IInv => EndedHoldsNothing
  <2> SUFFICES ASSUME TypeOK, IInv, NEW c \in Conn, NEW ch \in Channel, pc[c] = "closed",
                      NEW s \in subs[ch], owner[s] = c
               PROVE  FALSE
    BY DEF EndedHoldsNothing, MadeBy
  <2>1. clientSubs[c][ch] = s /\ s \in Sub
    BY DEF IInv, Agreed, TypeOK
  <2>2. clientSubs[c][ch] = None
    BY DEF IInv, EndedForgets
  <2>3. QED
    BY <2>1, <2>2, BrokerAssumption
<1>2. QED
  BY <1>1, AlwaysIInv, AlwaysTyped, PTL

-----------------------------------------------------------------------------
(* What a client reads.                                                    *)

Line ==
  ({"subscribe", "unsubscribe"} \X (Sub \cup {None})) \cup ({"message"} \X Sub \X Msg)
  \cup ({"count"} \X (Msg \cup {None}) \X Nat)

LinesTyped == out \in [Conn -> Seq(Line)]

(* A goroutine runs only after the reply to SUBSCRIBE, if there is anybody *)
(* to read it.                                                             *)
Told(s) == \E i \in DOMAIN out[owner[s]] : out[owner[s]][i] = <<"subscribe", s>>

StartedTold ==
  /\ \A c \in Conn : pc[c] = "subscribed" => job[c].sub \in Sub /\ owner[job[c].sub] = c
  /\ \A s \in Sub : hand[s] # <<>> => reader[s] # "none"
  /\ \A s \in Sub : reader[s] # "none" =>
       owner[s] \in Conn /\ (owner[s] \in gone \cup Http \/ Told(s))

(* Lines that are there stay, and what is new is one line to c.            *)
LinesKept == \A d \in Conn : \A i \in DOMAIN out[d] : i \in DOMAIN out'[d] /\ out'[d][i] = out[d][i]
NewLine(c, line) ==
  \A d \in Conn : \A i \in DOMAIN out'[d] :
    \/ i \in DOMAIN out[d]
    \/ d = c /\ i = Len(out[c]) + 1 /\ out'[d][i] = line

LEMMA WriteAdds ==
  ASSUME LinesTyped, NEW c \in Conn, NEW line \in Line, WriteLine(c, line)
  PROVE  /\ LinesTyped' /\ LinesKept /\ NewLine(c, line)
         /\ c \in gone \cup Http => out' = out
         /\ c \notin gone \cup Http => \E i \in DOMAIN out'[c] : out'[c][i] = line
<1>1. CASE c \in gone \cup Http
  BY <1>1 DEF WriteLine, LinesTyped, LinesKept, NewLine
<1>2. CASE c \notin gone \cup Http
  <2>1. out' = [out EXCEPT ![c] = Append(out[c], line)] /\ out \in [Conn -> Seq(Line)]
    BY <1>2 DEF WriteLine, LinesTyped
  <2>2. /\ out[c] \in Seq(Line) /\ Append(out[c], line) \in Seq(Line)
        /\ Len(out[c]) \in Nat /\ DOMAIN out[c] = 1 .. Len(out[c])
        /\ DOMAIN Append(out[c], line) = 1 .. Len(out[c]) + 1
        /\ Append(out[c], line)[Len(out[c]) + 1] = line
        /\ \A i \in 1 .. Len(out[c]) : Append(out[c], line)[i] = out[c][i]
    BY <2>1
  <2>3. /\ out'[c] = Append(out[c], line)
        /\ \A d \in Conn : d # c => out'[d] = out[d]
        /\ out' \in [Conn -> Seq(Line)]
    BY <2>1, <2>2
  <2>4. LinesTyped'
    BY <2>3 DEF LinesTyped
  <2>5. LinesKept
    <3> SUFFICES ASSUME NEW d \in Conn, NEW i \in DOMAIN out[d]
                 PROVE  i \in DOMAIN out'[d] /\ out'[d][i] = out[d][i]
      BY DEF LinesKept
    <3>1. CASE d = c
      BY <2>2, <2>3, <3>1
    <3>2. CASE d # c
      BY <2>3, <3>2
    <3>3. QED
      BY <3>1, <3>2
  <2>6. NewLine(c, line)
    BY <2>2, <2>3 DEF NewLine
  <2>7. QED
    BY <1>2, <2>2, <2>3, <2>4, <2>5, <2>6
<1>3. QED
  BY <1>1, <1>2

LEMMA SameLines == ASSUME out' = out, LinesTyped PROVE LinesTyped' /\ LinesKept
BY DEF LinesTyped, LinesKept

LEMMA MessageLine ==
  ASSUME NEW l \in Line, l[1] = "message"
  PROVE  l[2] \in Sub /\ l[3] \in Msg /\ l = <<"message", l[2], l[3]>>
BY DEF Line

(* A line other than a message changes neither what was written nor the    *)
(* two properties.                                                         *)
LEMMA OtherLine ==
  ASSUME LinesTyped, LinesTyped', NEW c \in Conn, NEW line \in Line, line[1] # "message",
         LinesKept, NewLine(c, line)
  PROVE  \A s \in Sub, m \in Msg : Wrote(s, m)' => Wrote(s, m)
<1> SUFFICES ASSUME NEW s \in Sub, NEW m \in Msg, Wrote(s, m)' PROVE Wrote(s, m)
  OBVIOUS
<1>1. PICK d \in Conn : \E i \in DOMAIN out'[d] : out'[d][i] = <<"message", s, m>>
  BY DEF Wrote
<1>2. PICK i \in DOMAIN out'[d] : out'[d][i] = <<"message", s, m>>
  BY <1>1
<1>3. i \in DOMAIN out[d]
  BY <1>2 DEF NewLine
<1>4. QED
  BY <1>2, <1>3 DEF Wrote, LinesKept

LEMMA OtherLineInOrder ==
  ASSUME LinesTyped, LinesTyped', NEW c \in Conn, NEW line \in Line, line[1] # "message",
         LinesKept, NewLine(c, line)
  PROVE  (ConfirmedFirst => ConfirmedFirst') /\ (InOrder => InOrder')
<1>1. \A d \in Conn : \A i \in DOMAIN out'[d] : out'[d][i][1] = "message" =>
        i \in DOMAIN out[d] /\ out'[d][i] = out[d][i]
  BY DEF NewLine, LinesKept
<1>2. ConfirmedFirst => ConfirmedFirst'
  <2> SUFFICES ASSUME ConfirmedFirst, NEW d \in Conn, NEW i \in DOMAIN out'[d],
                      out'[d][i][1] = "message"
               PROVE  \E j \in 1 .. i - 1 : out'[d][j] = <<"subscribe", out'[d][i][2]>>
    BY DEF ConfirmedFirst
  <2>1. i \in DOMAIN out[d] /\ out'[d][i] = out[d][i]
    BY <1>1
  <2>2. PICK j \in 1 .. i - 1 : out[d][j] = <<"subscribe", out[d][i][2]>>
    BY <2>1 DEF ConfirmedFirst
  <2>3. j \in DOMAIN out[d]
    BY <2>1, <2>2 DEF LinesTyped
  <2>4. QED
    BY <2>1, <2>2, <2>3 DEF LinesKept
<1>3. InOrder => InOrder'
  BY <1>1 DEF InOrder
<1>4. QED
  BY <1>2, <1>3

-----------------------------------------------------------------------------

LEMMA ToldStays ==
  ASSUME LinesKept, UNCHANGED owner
  PROVE  \A s \in Sub : owner[s] \in Conn /\ Told(s) => Told(s)'
BY DEF Told, LinesKept

(* Steps that start no goroutine and make no subscription.                 *)
LEMMA StartedTold1 ==
  ASSUME TypeOK, StartedTold, LinesKept, gone \subseteq gone', UNCHANGED owner,
         \A s \in Sub : reader'[s] # "none" => reader[s] # "none",
         \A s \in Sub : hand'[s] # <<>> => reader'[s] # "none",
         \A c \in Conn : pc'[c] = "subscribed" => pc[c] = "subscribed" /\ job'[c] = job[c]
  PROVE  StartedTold'
BY ToldStays DEF StartedTold

LEMMA NextTold ==
  ASSUME TypeOK, PublisherHasMsg, TypeOK', LinesTyped, StartedTold, ConfirmedFirst, [Next]_vars
  PROVE  LinesTyped' /\ StartedTold' /\ ConfirmedFirst'
<1> DEFINE Goal == LinesTyped' /\ StartedTold' /\ ConfirmedFirst'
<1> USE BrokerAssumption DEF broker, goroutines, conns, network
<1>1. ASSUME out' = out PROVE LinesTyped' /\ LinesKept /\ ConfirmedFirst'
  BY <1>1, SameLines DEF ConfirmedFirst
<1>2. ASSUME NEW c \in Conn, NEW ch \in Channel, NEW s \in Sub, Subscribe(c, ch, s)
      PROVE  Goal
  <2>1. /\ owner[s] = None /\ owner' = [owner EXCEPT ![s] = c]
        /\ pc' = [pc EXCEPT ![c] = "subscribed"]
        /\ job' = [job EXCEPT ![c] = Work(ch, s, None, {})]
        /\ UNCHANGED <<hand, reader, out, gone>>
    BY <1>2 DEF Subscribe
  <2>2. reader[s] = "none"
    BY <2>1 DEF StartedTold
  <2>3. owner'[s] = c /\ (\A r \in Sub : r # s => owner'[r] = owner[r])
    BY <2>1 DEF TypeOK
  <2>4. \A r \in Sub : r # s /\ Told(r) => Told(r)'
    BY <2>1, <2>3 DEF Told
  <2>5. \A d \in Conn : pc'[d] = "subscribed" =>
          job'[d].sub \in Sub /\ owner'[job'[d].sub] = d
    <3>1. job'[c].sub = s
      BY <2>1 DEF TypeOK, Work
    <3>2. \A d \in Conn : d # c => pc'[d] = pc[d] /\ job'[d] = job[d]
      BY <2>1 DEF TypeOK
    <3>3. QED
      BY <2>1, <2>3, <3>1, <3>2 DEF StartedTold
  <2>6. StartedTold'
    BY <2>1, <2>2, <2>3, <2>4, <2>5 DEF StartedTold
  <2>7. QED
    BY <1>1, <2>1, <2>6
<1>3. ASSUME NEW c \in Conn, NEW ch \in Channel, Unsubscribe(c, ch) \/ PublishBegin(c, ch)
      PROVE  Goal
  <2>1. /\ UNCHANGED <<owner, hand, reader, out, gone>>
        /\ \A d \in Conn : pc'[d] = "subscribed" => pc[d] = "subscribed" /\ job'[d] = job[d]
    BY <1>3 DEF Unsubscribe, Drop, PublishBegin, TypeOK
  <2>2. QED
    BY <1>1, <2>1, StartedTold1 DEF StartedTold
<1>4. ASSUME NEW c \in Conn, Confirm(c) PROVE Goal
  <2>1. PICK s \in Sub : s = job[c].sub
    BY <1>4 DEF Confirm, StartedTold
  <2>2. /\ owner[s] = c
        /\ WriteLine(c, <<"subscribe", s>>)
        /\ reader' = [reader EXCEPT ![s] = "running"]
        /\ UNCHANGED <<owner, hand, gone>>
        /\ \A d \in Conn : pc'[d] = "subscribed" => pc[d] = "subscribed" /\ job'[d] = job[d]
    BY <1>4, <2>1 DEF Confirm, StartedTold, Finish, TypeOK
  <2>3. <<"subscribe", s>> \in Line
    BY <2>2 DEF Line
  <2>4. /\ LinesTyped' /\ LinesKept /\ NewLine(c, <<"subscribe", s>>)
        /\ c \notin gone \cup Http => \E i \in DOMAIN out'[c] : out'[c][i] = <<"subscribe", s>>
    BY <2>2, <2>3, WriteAdds
  <2>5. ConfirmedFirst'
    BY <2>3, <2>4, OtherLineInOrder
  <2>6. reader'[s] = "running" /\ \A r \in Sub : r # s => reader'[r] = reader[r]
    BY <2>2 DEF TypeOK
  <2>7. c \notin gone \cup Http => Told(s)'
    <3>1. owner'[s] = c
      BY <2>2
    <3>2. QED
      BY <2>4, <3>1 DEF Told
  <2>8. \A r \in Sub : owner[r] \in Conn /\ Told(r) => Told(r)'
    BY <2>2, <2>4, ToldStays
  <2>9. StartedTold'
    <3>1. \A r \in Sub : reader'[r] # "none" =>
            owner'[r] \in Conn /\ (owner'[r] \in gone' \cup Http \/ Told(r)')
      <4> SUFFICES ASSUME NEW r \in Sub, reader'[r] # "none"
                   PROVE  owner[r] \in Conn /\ (owner[r] \in gone \cup Http \/ Told(r)')
        BY <2>2
      <4>1. CASE r = s
        BY <2>2, <2>7, <4>1
      <4>2. CASE r # s
        BY <2>6, <2>8, <4>2 DEF StartedTold
      <4>3. QED
        BY <4>1, <4>2
    <3>2. QED
      BY <2>2, <2>6, <3>1 DEF StartedTold
  <2>10. QED
    BY <2>4, <2>5, <2>9
<1>5. ASSUME NEW c \in Conn, ConfirmUnsubscribe(c) \/ Reply(c) PROVE Goal
  <2>1. PICK line \in Line : line[1] # "message" /\ WriteLine(c, line)
    <3>1. CASE ConfirmUnsubscribe(c)
      <4>1. <<"unsubscribe", job[c].sub>> \in Line
        BY DEF Line, TypeOK
      <4>2. QED
        BY <3>1, <4>1 DEF ConfirmUnsubscribe
    <3>2. CASE Reply(c)
      <4>1. <<"count", job[c].msg, job[c].count>> \in Line
        BY DEF Line, TypeOK
      <4>2. QED
        BY <3>2, <4>1 DEF Reply
    <3>3. QED
      BY <1>5, <3>1, <3>2
  <2>2. LinesTyped' /\ LinesKept /\ NewLine(c, line)
    BY <2>1, WriteAdds
  <2>3. /\ UNCHANGED <<owner, hand, reader, gone>>
        /\ \A d \in Conn : pc'[d] = "subscribed" => pc[d] = "subscribed" /\ job'[d] = job[d]
    BY <1>5 DEF ConfirmUnsubscribe, Reply, Finish, TypeOK
  <2>4. QED
    BY <2>1, <2>2, <2>3, StartedTold1, OtherLineInOrder DEF StartedTold
<1>6. ASSUME NEW c \in Conn, PublishSend(c) \/ PublishEnd(c) \/ Ending(c) \/ Stall(c) \/ Hangup(c)
      PROVE  Goal
  <2>1. /\ UNCHANGED <<owner, hand, reader, out>> /\ gone \subseteq gone'
    BY <1>6 DEF PublishSend, PublishEnd, Ending, Leave, Cleanup, Drop, CloseConn, Stall, Hangup
  <2>2. \A d \in Conn : pc'[d] = "subscribed" => pc[d] = "subscribed" /\ job'[d] = job[d]
    <3>1. CASE PublishSend(c)
      <4>1. \A d \in Conn : d # c => job'[d] = job[d]
        BY <3>1 DEF PublishSend, TypeOK
      <4>2. QED
        BY <3>1, <4>1 DEF PublishSend
    <3>2. CASE PublishEnd(c) \/ Ending(c) \/ Stall(c) \/ Hangup(c)
      BY <3>2 DEF PublishEnd, Ending, Leave, Cleanup, CloseConn, Stall, Hangup, TypeOK
    <3>3. QED
      BY <1>6, <3>1, <3>2
  <2>3. QED
    BY <1>1, <2>1, <2>2, StartedTold1 DEF StartedTold
<1>7. ASSUME NEW s \in Sub, Receive(s) \/ ReaderEnds(s) PROVE Goal
  <2>1. /\ UNCHANGED <<owner, out, gone, pc, job>> /\ reader[s] = "running"
        /\ \A r \in Sub : r # s => reader'[r] = reader[r] /\ hand'[r] = hand[r]
        /\ reader'[s] # "none"
    BY <1>7 DEF Receive, ReaderEnds, TypeOK
  <2>2. QED
    BY <1>1, <2>1, StartedTold1 DEF StartedTold
<1>8. ASSUME NEW s \in Sub, Deliver(s) PROVE Goal
  <2> DEFINE line == <<"message", s, hand[s][1]>>
  <2>1. /\ hand[s] # <<>> /\ hand[s] \in Seq(Msg)
        /\ WriteLine(owner[s], line)
        /\ hand' = [hand EXCEPT ![s] = <<>>]
        /\ UNCHANGED <<owner, reader, gone, pc, job>>
    BY <1>8 DEF Deliver, TypeOK
  <2>2. owner[s] \in Conn /\ (owner[s] \in gone \cup Http \/ Told(s))
    BY <2>1 DEF StartedTold
  <2>3. line \in Line
    BY <2>1 DEF Line
  <2>4. /\ LinesTyped' /\ LinesKept /\ NewLine(owner[s], line)
        /\ owner[s] \in gone \cup Http => out' = out
    BY <2>1, <2>2, <2>3, WriteAdds
  <2>5. StartedTold'
    <3>1. \A r \in Sub : hand'[r] # <<>> => hand[r] # <<>>
      BY <2>1 DEF TypeOK
    <3>2. QED
      BY <2>1, <2>4, <3>1, StartedTold1 DEF StartedTold
  <2>6. ConfirmedFirst'
    <3>1. CASE owner[s] \in gone \cup Http
      BY <1>1, <2>4, <3>1
    <3>2. CASE owner[s] \notin gone \cup Http
      <4> SUFFICES ASSUME NEW d \in Conn, NEW i \in DOMAIN out'[d], out'[d][i][1] = "message"
                   PROVE  \E j \in 1 .. i - 1 : out'[d][j] = <<"subscribe", out'[d][i][2]>>
        BY DEF ConfirmedFirst
      <4>1. out[d] \in Seq(Line) /\ DOMAIN out[d] = 1 .. Len(out[d]) /\ Len(out[d]) \in Nat
        BY DEF LinesTyped
      <4>2. CASE i \in DOMAIN out[d]
        <5>1. out'[d][i] = out[d][i]
          BY <2>4, <4>2 DEF LinesKept
        <5>2. PICK j \in 1 .. i - 1 : out[d][j] = <<"subscribe", out[d][i][2]>>
          BY <4>2, <5>1 DEF ConfirmedFirst
        <5>3. j \in DOMAIN out[d]
          BY <4>1, <4>2, <5>2
        <5>4. QED
          BY <2>4, <5>1, <5>2, <5>3 DEF LinesKept
      <4>3. CASE i \notin DOMAIN out[d]
        <5>1. d = owner[s] /\ i = Len(out[d]) + 1 /\ out'[d][i] = line
          BY <2>4, <4>3 DEF NewLine
        <5>2. PICK j \in DOMAIN out[d] : out[d][j] = <<"subscribe", s>>
          BY <2>2, <3>2, <5>1 DEF Told
        <5>3. j \in 1 .. i - 1 /\ out'[d][j] = <<"subscribe", s>>
          BY <2>4, <4>1, <5>1, <5>2 DEF LinesKept
        <5>4. QED
          BY <5>1, <5>3
      <4>4. QED
        BY <4>2, <4>3
    <3>3. QED
      BY <3>1, <3>2
  <2>7. QED
    BY <2>4, <2>5, <2>6
<1>9. CASE UNCHANGED vars
  <2>1. UNCHANGED <<owner, hand, reader, out, gone, pc, job>>
    BY <1>9 DEF vars
  <2>2. QED
    BY <1>1, <2>1, StartedTold1 DEF StartedTold
<1>10. QED
  BY <1>2, <1>3, <1>4, <1>5, <1>6, <1>7, <1>8, <1>9 DEF Next, Command, Finishing, Goroutine

(* What a subscription has yet to write, in order.                         *)
Waiting(s) == hand[s] \o queue[s]
Given(s, m) == Wrote(s, m) \/ \E i \in DOMAIN Waiting(s) : Waiting(s)[i] = m
Older(a, b) == a[1] = b[1] => a[2] < b[2]

(* The messages of a publisher reach a subscription in the order in which  *)
(* it sent them: written, then waiting, then those in its loop.            *)
WaitingInOrder ==
  \A s \in Sub : \A i, j \in DOMAIN Waiting(s) : i < j => Older(Waiting(s)[i], Waiting(s)[j])
WrittenFirst ==
  \A s \in Sub, m \in Msg : Wrote(s, m) =>
    \A i \in DOMAIN Waiting(s) : Older(m, Waiting(s)[i])
SentLast ==
  \A c \in Conn : pc[c] = "publishing" =>
    \A s \in job[c].todo, m \in Msg : Given(s, m) => Older(m, job[c].msg)
Numbered == \A s \in Sub, m \in Msg : Given(s, m) => m[2] <= published
OrderInv == WaitingInOrder /\ WrittenFirst /\ SentLast /\ Numbered /\ InOrder

LEMMA WaitingTyped ==
  ASSUME TypeOK, NEW s \in Sub
  PROVE  /\ Waiting(s) \in Seq(Msg) /\ DOMAIN Waiting(s) = 1 .. Len(Waiting(s))
         /\ Len(Waiting(s)) \in Nat
         /\ \A i \in DOMAIN Waiting(s) : Waiting(s)[i] \in Msg
<1>1. hand[s] \in Seq(Msg) /\ queue[s] \in Seq(Msg)
  BY DEF TypeOK
<1>2. Waiting(s) \in Seq(Msg)
  BY <1>1 DEF Waiting
<1>3. QED
  BY <1>2

(* A message to the end of a queue, and one from a queue to the hand.      *)
LEMMA AppendWaits ==
  ASSUME NEW h \in Seq(Msg), NEW q \in Seq(Msg), NEW m \in Msg
  PROVE  /\ DOMAIN (h \o Append(q, m)) = 1 .. Len(h \o q) + 1
         /\ \A i \in DOMAIN (h \o q) : (h \o Append(q, m))[i] = (h \o q)[i]
         /\ (h \o Append(q, m))[Len(h \o q) + 1] = m
<1>1. /\ Len(Append(q, m)) = Len(q) + 1 /\ Append(q, m)[Len(q) + 1] = m
      /\ \A i \in 1 .. Len(q) : Append(q, m)[i] = q[i]
      /\ Append(q, m) \in Seq(Msg) /\ Len(h) \in Nat /\ Len(q) \in Nat
  OBVIOUS
<1>2. QED
  BY <1>1

LEMMA TakeWaits ==
  ASSUME NEW q \in Seq(Msg), q # <<>>
  PROVE  <<Head(q)>> \o Tail(q) = <<>> \o q
<1>1. <<Head(q)>> \o Tail(q) = q
  OBVIOUS
<1>2. <<>> \o q = q
  OBVIOUS
<1>3. QED
  BY <1>1, <1>2

LEMMA HandWaits ==
  ASSUME NEW h \in Seq(Msg), NEW q \in Seq(Msg), h # <<>>, Len(h) <= 1
  PROVE  /\ 1 \in DOMAIN (h \o q) /\ (h \o q)[1] = h[1]
         /\ DOMAIN (<<>> \o q) = DOMAIN q
         /\ \A i \in DOMAIN q : /\ (<<>> \o q)[i] = q[i]
                                /\ i + 1 \in DOMAIN (h \o q) /\ (h \o q)[i + 1] = q[i]
OBVIOUS

LEMMA OrderQuiet ==
  ASSUME TypeOK, OrderInv, InOrder', published <= published', published \in Nat, published' \in Nat,
         \A s \in Sub : Waiting(s)' = Waiting(s),
         \A s \in Sub, m \in Msg : Wrote(s, m)' => Wrote(s, m),
         \A c \in Conn : pc'[c] = "publishing" =>
           pc[c] = "publishing" /\ job'[c].msg = job[c].msg /\ job'[c].todo \subseteq job[c].todo
  PROVE  OrderInv'
<1>1. \A s \in Sub, m \in Msg : Given(s, m)' => Given(s, m)
  BY DEF Given
<1>2. WaitingInOrder'
  BY DEF OrderInv, WaitingInOrder
<1>3. WrittenFirst'
  BY DEF OrderInv, WrittenFirst
<1>4. SentLast'
  BY <1>1 DEF OrderInv, SentLast, TypeOK
<1>5. Numbered'
  BY <1>1 DEF OrderInv, Numbered, Msg
<1>6. QED
  BY <1>2, <1>3, <1>4, <1>5 DEF OrderInv

LEMMA SameOut ==
  ASSUME out' = out
  PROVE  (InOrder => InOrder') /\ \A s \in Sub, m \in Msg : Wrote(s, m)' => Wrote(s, m)
BY DEF InOrder, Wrote

LEMMA PublishBeginOrder ==
  ASSUME TypeOK, OrderInv, NEW c \in Conn, NEW ch \in Channel, PublishBegin(c, ch)
  PROVE  OrderInv'
<1>1. /\ pc' = [pc EXCEPT ![c] = "publishing"]
      /\ job' = [job EXCEPT ![c] = Work(ch, None, <<c, published + 1>>, subs[ch])]
      /\ published' = published + 1 /\ published \in Nat
      /\ out' = out /\ hand' = hand /\ queue' = queue /\ subs[ch] \subseteq Sub
  BY DEF PublishBegin, broker, goroutines, network, TypeOK
<1>2. \A s \in Sub : Waiting(s)' = Waiting(s)
  BY <1>1 DEF Waiting
<1>3. \A s \in Sub, m \in Msg : Given(s, m)' => Given(s, m)
  BY <1>1, <1>2, SameOut DEF Given
<1>4. WaitingInOrder' /\ WrittenFirst' /\ InOrder'
  BY <1>1, <1>2, SameOut DEF OrderInv, WaitingInOrder, WrittenFirst
<1>5. Numbered'
  BY <1>1, <1>3 DEF OrderInv, Numbered, Msg
<1>6. SentLast'
  <2> SUFFICES ASSUME NEW d \in Conn, pc'[d] = "publishing", NEW s \in job'[d].todo,
                      NEW m \in Msg, Given(s, m)'
               PROVE  Older(m, job'[d].msg)
    BY DEF SentLast
  <2>1. CASE d = c
    <3>1. job'[d].msg = <<c, published + 1>> /\ job'[d].todo = subs[ch]
      BY <1>1, <2>1 DEF TypeOK, Work
    <3>2. Given(s, m) /\ s \in Sub
      BY <1>1, <1>3, <3>1
    <3>3. m[2] <= published /\ m[2] \in Nat
      BY <3>2 DEF OrderInv, Numbered, Msg
    <3>4. QED
      BY <1>1, <3>1, <3>3 DEF Older
  <2>2. CASE d # c
    <3>1. job'[d] = job[d] /\ pc[d] = "publishing"
      BY <1>1, <2>2 DEF TypeOK
    <3>2. s \in Sub /\ Given(s, m)
      BY <1>3, <3>1 DEF TypeOK
    <3>3. QED
      BY <3>1, <3>2 DEF OrderInv, SentLast
  <2>3. QED
    BY <2>1, <2>2
<1>7. QED
  BY <1>4, <1>5, <1>6 DEF OrderInv

LEMMA PublishSendOrder ==
  ASSUME TypeOK, PublisherHasMsg, OrderInv, NEW c \in Conn, PublishSend(c)
  PROVE  OrderInv'
<1>1. PICK s \in job[c].todo :
        LET room == Len(queue[s]) < Cap
        IN  /\ queue' = IF room THEN [queue EXCEPT ![s] = Append(@, job[c].msg)] ELSE queue
            /\ job' = [job EXCEPT ![c].todo = @ \ {s},
                                  ![c].count = IF room THEN @ + 1 ELSE @]
  BY DEF PublishSend
<1>2. /\ pc[c] = "publishing" /\ s \in Sub
      /\ UNCHANGED <<hand, pc, out, published>> /\ published \in Nat
  BY <1>1 DEF PublishSend, goroutines, network, TypeOK
<1>3. /\ job'[c].msg = job[c].msg /\ job'[c].todo = job[c].todo \ {s}
      /\ \A d \in Conn : d # c => job'[d] = job[d]
  BY <1>1 DEF TypeOK
<1>4. \A d \in Conn : job'[d].msg = job[d].msg /\ job'[d].todo \subseteq job[d].todo
  BY <1>3
<1>5. InOrder' /\ \A r \in Sub, n \in Msg : Wrote(r, n)' => Wrote(r, n)
  BY <1>2, SameOut DEF OrderInv
<1>6. CASE queue' = queue
  <2>1. \A r \in Sub : Waiting(r)' = Waiting(r)
    BY <1>2, <1>6 DEF Waiting
  <2>2. QED
    BY <1>2, <1>4, <1>5, <2>1, OrderQuiet
<1>7. CASE queue' = [queue EXCEPT ![s] = Append(queue[s], job[c].msg)]
  <2>1. PICK m \in Msg : m = job[c].msg /\ m[1] = c /\ m[2] <= published
    BY <1>2 DEF PublisherHasMsg
  <2>2. /\ hand[s] \in Seq(Msg) /\ queue[s] \in Seq(Msg)
        /\ queue'[s] = Append(queue[s], m) /\ hand'[s] = hand[s]
    BY <1>2, <1>7, <2>1 DEF TypeOK
  <2>3. /\ DOMAIN Waiting(s)' = 1 .. Len(Waiting(s)) + 1
        /\ \A i \in DOMAIN Waiting(s) : Waiting(s)'[i] = Waiting(s)[i]
        /\ Waiting(s)'[Len(Waiting(s)) + 1] = m
    <3>1. Waiting(s)' = hand[s] \o Append(queue[s], m) /\ Waiting(s) = hand[s] \o queue[s]
      BY <2>2 DEF Waiting
    <3>2. /\ DOMAIN (hand[s] \o Append(queue[s], m)) = 1 .. Len(hand[s] \o queue[s]) + 1
          /\ \A i \in DOMAIN (hand[s] \o queue[s]) :
               (hand[s] \o Append(queue[s], m))[i] = (hand[s] \o queue[s])[i]
          /\ (hand[s] \o Append(queue[s], m))[Len(hand[s] \o queue[s]) + 1] = m
      BY <2>2, AppendWaits
    <3>3. QED
      BY <3>1, <3>2
  <2>4. /\ DOMAIN Waiting(s) = 1 .. Len(Waiting(s)) /\ Len(Waiting(s)) \in Nat
        /\ \A i \in DOMAIN Waiting(s) : Waiting(s)[i] \in Msg
    BY <1>2, WaitingTyped
  <2>5. \A r \in Sub : r # s => Waiting(r)' = Waiting(r)
    BY <1>2, <1>7 DEF Waiting, TypeOK
  <2>6. \A r \in Sub, n \in Msg : Given(r, n)' => Given(r, n) \/ (r = s /\ n = m)
    <3> SUFFICES ASSUME NEW r \in Sub, NEW n \in Msg, Given(r, n)'
                 PROVE  Given(r, n) \/ (r = s /\ n = m)
      OBVIOUS
    <3>1. CASE Wrote(r, n)'
      BY <1>5, <3>1 DEF Given
    <3>2. CASE \E i \in DOMAIN Waiting(r)' : Waiting(r)'[i] = n
      BY <2>3, <2>4, <2>5, <3>2 DEF Given
    <3>3. QED
      BY <3>1, <3>2 DEF Given
  <2>7. \A n \in Msg : Given(s, n) => Older(n, m)
    BY <1>2, <2>1 DEF OrderInv, SentLast
  <2>8. \A i \in DOMAIN Waiting(s) : Given(s, Waiting(s)[i])
    BY DEF Given
  <2>9. WaitingInOrder'
    <3> SUFFICES ASSUME NEW r \in Sub, NEW i \in DOMAIN Waiting(r)', NEW j \in DOMAIN Waiting(r)', i < j
                 PROVE  Older(Waiting(r)'[i], Waiting(r)'[j])
      BY DEF WaitingInOrder
    <3>1. CASE r # s
      BY <2>5, <3>1 DEF OrderInv, WaitingInOrder
    <3>2. CASE r = s
      <4>1. i \in DOMAIN Waiting(s) /\ Waiting(s)'[i] = Waiting(s)[i]
        BY <2>3, <2>4, <3>2
      <4>2. CASE j \in DOMAIN Waiting(s)
        <5>1. Waiting(s)'[j] = Waiting(s)[j]
          BY <2>3, <4>2
        <5>2. QED
          BY <1>2, <3>2, <4>1, <4>2, <5>1 DEF OrderInv, WaitingInOrder
      <4>3. CASE j \notin DOMAIN Waiting(s)
        <5>1. Waiting(s)'[j] = m
          BY <2>3, <2>4, <3>2, <4>3
        <5>2. QED
          BY <2>4, <2>7, <2>8, <3>2, <4>1, <5>1
      <4>4. QED
        BY <4>2, <4>3
    <3>3. QED
      BY <3>1, <3>2
  <2>10. WrittenFirst'
    <3> SUFFICES ASSUME NEW r \in Sub, NEW n \in Msg, Wrote(r, n)', NEW i \in DOMAIN Waiting(r)'
                 PROVE  Older(n, Waiting(r)'[i])
      BY DEF WrittenFirst
    <3>1. Wrote(r, n) /\ Given(r, n)
      BY <1>5 DEF Given
    <3>2. CASE r # s
      BY <2>5, <3>1, <3>2 DEF OrderInv, WrittenFirst
    <3>3. CASE r = s /\ i \in DOMAIN Waiting(s)
      BY <1>2, <2>3, <3>1, <3>3 DEF OrderInv, WrittenFirst
    <3>4. CASE r = s /\ i \notin DOMAIN Waiting(s)
      <4>1. Waiting(s)'[i] = m
        BY <2>3, <2>4, <3>4
      <4>2. QED
        BY <2>7, <3>1, <3>4, <4>1
    <3>5. QED
      BY <3>2, <3>3, <3>4
  <2>11. SentLast'
    <3> SUFFICES ASSUME NEW d \in Conn, pc'[d] = "publishing", NEW r \in job'[d].todo,
                        NEW n \in Msg, Given(r, n)'
                 PROVE  Older(n, job'[d].msg)
      BY DEF SentLast
    <3>1. pc[d] = "publishing" /\ r \in job[d].todo /\ r \in Sub
      BY <1>2, <1>4 DEF TypeOK
    <3>2. CASE Given(r, n)
      BY <1>4, <3>1, <3>2 DEF OrderInv, SentLast
    <3>3. CASE r = s /\ n = m
      <4>1. d # c
        BY <1>3, <3>3
      <4>2. QED
        BY <1>4, <2>1, <3>1, <3>3, <4>1 DEF PublisherHasMsg, Older
    <3>4. QED
      BY <2>6, <3>1, <3>2, <3>3
  <2>12. Numbered'
    BY <1>2, <2>1, <2>6 DEF OrderInv, Numbered
  <2>13. QED
    BY <1>5, <2>9, <2>10, <2>11, <2>12 DEF OrderInv
<1>8. QED
  BY <1>1, <1>6, <1>7

LEMMA DeliverOrder ==
  ASSUME TypeOK, LinesTyped, LinesTyped', StartedTold, OrderInv, NEW s \in Sub, Deliver(s)
  PROVE  OrderInv'
<1>1. PICK c \in Conn : c = owner[s]
  BY DEF Deliver, StartedTold
<1>2. /\ hand[s] \in Seq(Msg) /\ queue[s] \in Seq(Msg) /\ hand[s] # <<>> /\ Len(hand[s]) <= 1
  BY DEF Deliver, TypeOK
<1>3. PICK m \in Msg : m = hand[s][1]
  BY <1>2
<1>4. /\ WriteLine(c, <<"message", s, m>>)
      /\ hand'[s] = <<>> /\ (\A r \in Sub : r # s => hand'[r] = hand[r])
      /\ UNCHANGED <<queue, pc, job, published>> /\ published \in Nat
  BY <1>1, <1>3 DEF Deliver, broker, conns, TypeOK
<1>5. /\ LinesKept /\ NewLine(c, <<"message", s, m>>)
  <2>1. <<"message", s, m>> \in Line
    BY DEF Line
  <2>2. QED
    BY <1>4, <2>1, WriteAdds
<1>6. \A r \in Sub : r # s => Waiting(r)' = Waiting(r)
  BY <1>4 DEF Waiting
<1>7. Waiting(s) = hand[s] \o queue[s] /\ Waiting(s)' = <<>> \o queue[s]
  BY <1>4 DEF Waiting
<1>8. /\ 1 \in DOMAIN Waiting(s) /\ Waiting(s)[1] = m
      /\ \A i \in DOMAIN Waiting(s)' :
           i \in Nat /\ i >= 1 /\ i + 1 \in DOMAIN Waiting(s) /\ Waiting(s)'[i] = Waiting(s)[i + 1]
  <2>1. DOMAIN queue[s] = 1 .. Len(queue[s]) /\ Len(queue[s]) \in Nat
    BY <1>2
  <2>2. QED
    <3>1. /\ 1 \in DOMAIN (hand[s] \o queue[s]) /\ (hand[s] \o queue[s])[1] = hand[s][1]
          /\ DOMAIN (<<>> \o queue[s]) = DOMAIN queue[s]
          /\ \A i \in DOMAIN queue[s] :
               /\ (<<>> \o queue[s])[i] = queue[s][i]
               /\ i + 1 \in DOMAIN (hand[s] \o queue[s])
               /\ (hand[s] \o queue[s])[i + 1] = queue[s][i]
      BY <1>2, HandWaits
    <3>2. \A i \in DOMAIN queue[s] : i \in Nat /\ i >= 1
      BY <2>1
    <3>3. QED
      BY <1>3, <1>7, <3>1, <3>2
<1>9. \A r \in Sub, n \in Msg : Wrote(r, n)' => Wrote(r, n) \/ (r = s /\ n = m)
  <2> SUFFICES ASSUME NEW r \in Sub, NEW n \in Msg, Wrote(r, n)'
               PROVE  Wrote(r, n) \/ (r = s /\ n = m)
    OBVIOUS
  <2>1. PICK d \in Conn : \E i \in DOMAIN out'[d] : out'[d][i] = <<"message", r, n>>
    BY DEF Wrote
  <2>2. PICK i \in DOMAIN out'[d] : out'[d][i] = <<"message", r, n>>
    BY <2>1
  <2>3. CASE i \in DOMAIN out[d]
    BY <1>5, <2>2, <2>3 DEF Wrote, LinesKept
  <2>4. CASE i \notin DOMAIN out[d]
    BY <1>5, <2>2, <2>4 DEF NewLine
  <2>5. QED
    BY <2>3, <2>4
<1>10. \A r \in Sub, n \in Msg : Given(r, n)' => Given(r, n)
  <2> SUFFICES ASSUME NEW r \in Sub, NEW n \in Msg, Given(r, n)' PROVE Given(r, n)
    OBVIOUS
  <2>1. CASE Wrote(r, n)'
    BY <1>8, <1>9, <2>1 DEF Given
  <2>2. CASE \E i \in DOMAIN Waiting(r)' : Waiting(r)'[i] = n
    BY <1>6, <1>8, <2>2 DEF Given
  <2>3. QED
    BY <2>1, <2>2 DEF Given
<1>11. \A i \in DOMAIN Waiting(s)' : Older(m, Waiting(s)'[i])
  <2> SUFFICES ASSUME NEW i \in DOMAIN Waiting(s)' PROVE Older(m, Waiting(s)'[i])
    OBVIOUS
  <2>1. 1 < i + 1
    BY <1>8
  <2>2. QED
    BY <1>8, <2>1 DEF OrderInv, WaitingInOrder
<1>12. WaitingInOrder'
  <2> SUFFICES ASSUME NEW r \in Sub, NEW i \in DOMAIN Waiting(r)', NEW j \in DOMAIN Waiting(r)', i < j
               PROVE  Older(Waiting(r)'[i], Waiting(r)'[j])
    BY DEF WaitingInOrder
  <2>1. CASE r # s
    BY <1>6, <2>1 DEF OrderInv, WaitingInOrder
  <2>2. CASE r = s
    <3>1. i + 1 < j + 1
      BY <1>8, <2>2
    <3>2. QED
      BY <1>8, <2>2, <3>1 DEF OrderInv, WaitingInOrder
  <2>3. QED
    BY <2>1, <2>2
<1>13. WrittenFirst'
  <2> SUFFICES ASSUME NEW r \in Sub, NEW n \in Msg, Wrote(r, n)', NEW i \in DOMAIN Waiting(r)'
               PROVE  Older(n, Waiting(r)'[i])
    BY DEF WrittenFirst
  <2>1. CASE r = s /\ n = m
    BY <1>11, <2>1
  <2>2. CASE Wrote(r, n) /\ r = s
    BY <1>8, <2>2 DEF OrderInv, WrittenFirst
  <2>3. CASE Wrote(r, n) /\ r # s
    BY <1>6, <2>3 DEF OrderInv, WrittenFirst
  <2>4. QED
    BY <1>9, <2>1, <2>2, <2>3
<1>14. SentLast' /\ Numbered'
  BY <1>4, <1>10 DEF OrderInv, SentLast, Numbered, TypeOK
<1>15. InOrder'
  <2> SUFFICES ASSUME NEW d \in Conn, NEW i \in DOMAIN out'[d], NEW j \in DOMAIN out'[d],
                      i < j, out'[d][i][1] = "message", out'[d][j][1] = "message",
                      out'[d][i][2] = out'[d][j][2], out'[d][i][3][1] = out'[d][j][3][1]
               PROVE  out'[d][i][3][2] < out'[d][j][3][2]
    BY DEF InOrder
  <2>1. /\ DOMAIN out[d] = 1 .. Len(out[d]) /\ Len(out[d]) \in Nat /\ DOMAIN out'[d] \subseteq Nat
        /\ \A k \in DOMAIN out[d] : out[d][k] \in Line
        /\ 1 <= i
    BY DEF LinesTyped
  <2>2. CASE j \in DOMAIN out[d]
    <3>1. i \in DOMAIN out[d]
      BY <2>1, <2>2
    <3>2. out'[d][i] = out[d][i] /\ out'[d][j] = out[d][j]
      BY <1>5, <2>2, <3>1 DEF LinesKept
    <3>3. QED
      BY <2>2, <3>1, <3>2 DEF OrderInv, InOrder
  <2>3. CASE j \notin DOMAIN out[d]
    <3>1. j = Len(out[d]) + 1 /\ out'[d][j] = <<"message", s, m>>
      BY <1>5, <2>3 DEF NewLine
    <3>2. i \in DOMAIN out[d] /\ out'[d][i] = out[d][i]
      BY <1>5, <2>1, <3>1 DEF LinesKept
    <3>3. PICK n \in Msg : out[d][i] = <<"message", s, n>>
      BY <2>1, <3>1, <3>2, MessageLine
    <3>4. Wrote(s, n)
      BY <3>2, <3>3 DEF Wrote
    <3>5. Older(n, m)
      BY <1>8, <3>4 DEF OrderInv, WrittenFirst
    <3>6. QED
      BY <3>1, <3>2, <3>3, <3>5 DEF Older
  <2>4. QED
    BY <2>2, <2>3
<1>16. QED
  BY <1>12, <1>13, <1>14, <1>15 DEF OrderInv

LEMMA NextOrder ==
  ASSUME TypeOK, TypeOK', PublisherHasMsg, LinesTyped, LinesTyped', StartedTold, OrderInv,
         [Next]_vars
  PROVE  OrderInv'
<1> USE DEF broker, goroutines, conns, network
<1>1. published \in Nat /\ published' \in Nat
  BY BrokerAssumption DEF TypeOK
<1>2. ASSUME UNCHANGED <<out, hand, queue, published>>,
             \A c \in Conn : pc'[c] = "publishing" =>
               pc[c] = "publishing" /\ job'[c].msg = job[c].msg
               /\ job'[c].todo \subseteq job[c].todo
      PROVE  OrderInv'
  <2>1. \A s \in Sub : Waiting(s)' = Waiting(s)
    BY <1>2 DEF Waiting
  <2>2. QED
    BY <1>1, <1>2, <2>1, SameOut, OrderQuiet DEF OrderInv
<1>3. ASSUME NEW c \in Conn, NEW ch \in Channel, NEW s \in Sub, Subscribe(c, ch, s)
      PROVE  OrderInv'
  BY <1>2, <1>3 DEF Subscribe, TypeOK
<1>4. ASSUME NEW c \in Conn, NEW ch \in Channel, Unsubscribe(c, ch) PROVE OrderInv'
  BY <1>2, <1>4 DEF Unsubscribe, Drop, TypeOK
<1>5. ASSUME NEW c \in Conn, NEW line \in Line, line[1] # "message", WriteLine(c, line), Finish(c),
             UNCHANGED <<queue, hand, published>>
      PROVE  OrderInv'
  <2>1. LinesKept /\ NewLine(c, line)
    BY <1>5, WriteAdds
  <2>2. InOrder' /\ \A s \in Sub, m \in Msg : Wrote(s, m)' => Wrote(s, m)
    BY <1>5, <2>1, OtherLine, OtherLineInOrder DEF OrderInv
  <2>3. \A d \in Conn : pc'[d] = "publishing" => pc[d] = "publishing" /\ job'[d] = job[d]
    BY <1>5 DEF Finish, TypeOK
  <2>4. \A s \in Sub : Waiting(s)' = Waiting(s)
    BY <1>5 DEF Waiting
  <2>5. QED
    BY <1>1, <1>5, <2>2, <2>3, <2>4, OrderQuiet
<1>6. ASSUME NEW c \in Conn, Finishing(c) PROVE OrderInv'
  <2>1. CASE Confirm(c)
    <3>1. <<"subscribe", job[c].sub>> \in Line
      BY DEF Line, TypeOK
    <3>2. QED
      BY <1>5, <2>1, <3>1 DEF Confirm
  <2>2. CASE ConfirmUnsubscribe(c)
    <3>1. <<"unsubscribe", job[c].sub>> \in Line
      BY DEF Line, TypeOK
    <3>2. QED
      BY <1>5, <2>2, <3>1 DEF ConfirmUnsubscribe
  <2>3. CASE PublishSend(c)
    BY <2>3, PublishSendOrder
  <2>4. CASE PublishEnd(c)
    BY <1>2, <2>4 DEF PublishEnd, TypeOK
  <2>5. CASE Reply(c)
    <3>1. <<"count", job[c].msg, job[c].count>> \in Line
      BY DEF Line, TypeOK
    <3>2. QED
      BY <1>5, <2>5, <3>1 DEF Reply
  <2>6. QED
    BY <1>6, <2>1, <2>2, <2>3, <2>4, <2>5 DEF Finishing
<1>7. ASSUME NEW c \in Conn, Ending(c) \/ Stall(c) \/ Hangup(c) PROVE OrderInv'
  BY <1>2, <1>7 DEF Ending, Leave, Cleanup, Drop, CloseConn, Stall, Hangup, TypeOK
<1>8. ASSUME NEW s \in Sub, Receive(s) PROVE OrderInv'
  <2>1. /\ hand[s] = <<>> /\ queue[s] \in Seq(Msg) /\ queue[s] # <<>>
        /\ hand'[s] = <<Head(queue[s])>> /\ queue'[s] = Tail(queue[s])
        /\ \A r \in Sub : r # s => hand'[r] = hand[r] /\ queue'[r] = queue[r]
        /\ UNCHANGED <<pc, job, out, published>>
    BY <1>8 DEF Receive, TypeOK
  <2>2. \A r \in Sub : Waiting(r)' = Waiting(r)
    BY <2>1, TakeWaits DEF Waiting
  <2>3. QED
    BY <1>1, <2>1, <2>2, SameOut, OrderQuiet DEF OrderInv
<1>9. ASSUME NEW s \in Sub, ReaderEnds(s) PROVE OrderInv'
  BY <1>2, <1>9 DEF ReaderEnds
<1>10. CASE UNCHANGED vars
  BY <1>2, <1>10 DEF vars
<1>11. QED
  BY <1>3, <1>4, <1>6, <1>7, <1>8, <1>9, <1>10, PublishBeginOrder, DeliverOrder
  DEF Next, Command, Goroutine

LEMMA InitLines == Init => LinesTyped /\ StartedTold /\ ConfirmedFirst /\ OrderInv
<1> SUFFICES ASSUME Init PROVE LinesTyped /\ StartedTold /\ ConfirmedFirst /\ OrderInv
  OBVIOUS
<1>1. /\ \A c \in Conn : out[c] = <<>> /\ DOMAIN out[c] = {} /\ pc[c] = "idle"
      /\ \A s \in Sub : hand[s] = <<>> /\ queue[s] = <<>> /\ reader[s] = "none"
  BY DEF Init
<1>2. LinesTyped
  <2>1. <<>> \in Seq(Line)
    OBVIOUS
  <2>2. QED
    BY <2>1 DEF Init, LinesTyped
<1>3. \A s \in Sub : Waiting(s) = <<>> /\ DOMAIN Waiting(s) = {}
  <2>1. <<>> \o <<>> = <<>> /\ DOMAIN <<>> = {}
    OBVIOUS
  <2>2. QED
    BY <1>1, <2>1 DEF Waiting
<1>4. \A s \in Sub, m \in Msg : ~Wrote(s, m) /\ ~Given(s, m)
  BY <1>1, <1>3 DEF Wrote, Given
<1>5. StartedTold /\ ConfirmedFirst /\ InOrder
  BY <1>1 DEF StartedTold, ConfirmedFirst, InOrder
<1>6. WaitingInOrder /\ WrittenFirst /\ SentLast /\ Numbered
  BY <1>1, <1>3, <1>4 DEF WaitingInOrder, WrittenFirst, SentLast, Numbered
<1>7. QED
  BY <1>2, <1>5, <1>6 DEF OrderInv

LEMMA AlwaysLines == Spec => [](LinesTyped /\ StartedTold /\ ConfirmedFirst /\ OrderInv)
<1> DEFINE I == LinesTyped /\ StartedTold /\ ConfirmedFirst /\ OrderInv
<1>1. TypeOK /\ TypeOK' /\ PublisherHasMsg /\ I /\ [Next]_vars => I'
  BY NextTold, NextOrder
<1>2. QED
  BY <1>1, InitLines, AlwaysTyped, PTL DEF Spec

(* A client reads of a subscription before it reads a message of it        *)
(* (server.go:243-258: the goroutine starts after the reply), also when it *)
(* is slow, gone, or has unsubscribed and subscribed again.                *)
THEOREM ConfirmationComesFirst == Spec => []ConfirmedFirst
BY AlwaysLines, PTL

(* What one publisher sends through one subscription is read in the order  *)
(* of sending and never twice, with publishers side by side and messages   *)
(* that did not fit left out.                                              *)
THEOREM PublisherOrderKept == Spec => []InOrder
<1>1. OrderInv => InOrder
  BY DEF OrderInv
<1>2. QED
  BY <1>1, AlwaysLines, PTL

=============================================================================
