------------------------------- MODULE Broker -------------------------------
(***************************************************************************)
(* Publish and subscribe: pubsub/broker.go and the parts of the server     *)
(* that use it, which are handleConn and the cases SUBSCRIBE, UNSUBSCRIBE  *)
(* and PUBLISH of Dispatch (networking/server.go), and handleExec          *)
(* (networking/http.go).                                                   *)
(*                                                                         *)
(* Every subscription is a Go channel with room for Cap messages and a     *)
(* goroutine that copies them to the connection.  A publisher goes through *)
(* the subscriptions under the read lock, which several publishers hold at *)
(* a time; Subscribe and Unsubscribe need the lock for themselves.         *)
(*                                                                         *)
(* Commands name one channel here: SUBSCRIBE a b does what SUBSCRIBE a and *)
(* SUBSCRIBE b do, and likewise UNSUBSCRIBE.                               *)
(***************************************************************************)
EXTENDS Integers, Sequences, FiniteSets

CONSTANTS
  Conn,      \* connections, and requests of the HTTP API
  Http,      \* those of Conn that are a POST /api/exec
  Subscriber, Publisher,  \* those that may send SUBSCRIBE, and PUBLISH
  Unreliable,             \* clients that may stop reading, or close
  Channel,
  Sub,       \* the Go channels that can be made; a bound when finite
  None,
  Cap,       \* subscriberBufSize, 256
  MaxMsgs    \* bound: messages published

ASSUME BrokerAssumption ==
  /\ Http \subseteq Conn /\ Unreliable \subseteq Conn \ Http
  /\ Subscriber \subseteq Conn /\ Publisher \subseteq Conn
  /\ None \notin Sub \cup Conn
  /\ Cap \in Nat \ {0}
  /\ MaxMsgs \in Nat

VARIABLES
  subs,       \* Broker.subs; a channel nobody subscribes to has the empty set
  clientSubs, \* of each connection: the subscription it has to a channel
  owner,      \* the connection that made a Go channel, or None
  queue,      \* what is in a Go channel
  hand,       \* the messages, at most one, its goroutine has taken and not written
  closed,     \* the Go channels that are closed
  reader,     \* the goroutine of a Go channel: "none", "running", "done"
  pc,         \* of each connection: what handleConn is doing
  job,        \* of each connection: the command it is working on
  out,        \* lines written to each client
  stalled,    \* clients that have stopped reading: a write to them blocks
  gone,       \* clients whose connection is closed: a write fails, unheeded
  published   \* messages so far

broker == <<subs, queue, closed>>
goroutines == <<hand, reader>>
conns == <<clientSubs, owner, pc, job>>
network == <<out, stalled, gone>>
vars == <<broker, goroutines, conns, network, published>>

Work(ch, s, m, todo) == [channel |-> ch, sub |-> s, msg |-> m, todo |-> todo, count |-> 0]

Idle == Work(None, None, None, {})

Init ==
  /\ subs = [ch \in Channel |-> {}]
  /\ clientSubs = [c \in Conn |-> [ch \in Channel |-> None]]
  /\ owner = [s \in Sub |-> None]
  /\ queue = [s \in Sub |-> <<>>]
  /\ hand = [s \in Sub |-> <<>>]
  /\ closed = {}
  /\ reader = [s \in Sub |-> "none"]
  /\ pc = [c \in Conn |-> "idle"]
  /\ job = [c \in Conn |-> Idle]
  /\ out = [c \in Conn |-> <<>>]
  /\ stalled = {} /\ gone = {}
  /\ published = 0

(* The RWMutex: nobody is inside Publish.                                  *)
LockFree == \A c \in Conn : pc[c] # "publishing"

(* writeLine: under writerMu, to the client; for HTTP it does nothing.     *)
CanWrite(c) == c \notin stalled \/ c \in gone \cup Http

WriteLine(c, line) ==
  /\ CanWrite(c)
  /\ out' = IF c \in gone \cup Http THEN out ELSE [out EXCEPT ![c] = Append(@, line)]

(* A connection goes on to its next command, a request is over: nobody     *)
(* looks at its clientSubs again.                                          *)
Finish(c) ==
  /\ pc' = [pc EXCEPT ![c] = IF c \in Http THEN "closed" ELSE "idle"]
  /\ job' = [job EXCEPT ![c] = Idle]

-----------------------------------------------------------------------------
(* SUBSCRIBE.                                                              *)

(* Mutant: the goroutine is started before the reply is written.           *)
SubscribeStarted(c, ch, s) ==
  /\ pc[c] = "idle"
  /\ clientSubs[c][ch] = None
  /\ owner[s] = None
  /\ LockFree
  /\ subs' = [subs EXCEPT ![ch] = @ \cup {s}]
  /\ clientSubs' = [clientSubs EXCEPT ![c][ch] = s]
  /\ owner' = [owner EXCEPT ![s] = c]
  /\ pc' = [pc EXCEPT ![c] = "subscribed"]
  /\ job' = [job EXCEPT ![c] = Work(ch, s, None, {})]
  /\ reader' = [reader EXCEPT ![s] = "running"]
  /\ UNCHANGED <<queue, closed, hand, network, published>>

(* A channel the connection already has is skipped.                        *)
Subscribe(c, ch, s) ==
  /\ pc[c] = "idle"
  /\ clientSubs[c][ch] = None
  /\ owner[s] = None
  /\ LockFree
  /\ subs' = [subs EXCEPT ![ch] = @ \cup {s}]
  /\ clientSubs' = [clientSubs EXCEPT ![c][ch] = s]
  /\ owner' = [owner EXCEPT ![s] = c]
  /\ pc' = [pc EXCEPT ![c] = "subscribed"]
  /\ job' = [job EXCEPT ![c] = Work(ch, s, None, {})]
  /\ UNCHANGED <<queue, closed, goroutines, network, published>>

(* The reply, and then the goroutine.                                      *)
Confirm(c) ==
  /\ pc[c] = "subscribed"
  /\ WriteLine(c, <<"subscribe", job[c].sub>>)
  /\ reader' = [reader EXCEPT ![job[c].sub] = "running"]
  /\ Finish(c)
  /\ UNCHANGED <<broker, hand, clientSubs, owner, stalled, gone, published>>

-----------------------------------------------------------------------------
(* UNSUBSCRIBE, and the end of a connection.                               *)

(* Mutant: the channel is closed while publishers are at work.             *)
DropUnlocked(c, ch) ==
  /\ clientSubs[c][ch] # None
  /\ subs' = [subs EXCEPT ![ch] = @ \ {clientSubs[c][ch]}]
  /\ closed' = closed \cup {clientSubs[c][ch]}
  /\ clientSubs' = [clientSubs EXCEPT ![c][ch] = None]
  /\ UNCHANGED <<queue, owner>>

(* Mutant: the channel is taken from the Broker and not closed.            *)
DropUnclosed(c, ch) ==
  /\ clientSubs[c][ch] # None
  /\ LockFree
  /\ subs' = [subs EXCEPT ![ch] = @ \ {clientSubs[c][ch]}]
  /\ clientSubs' = [clientSubs EXCEPT ![c][ch] = None]
  /\ UNCHANGED <<queue, closed, owner>>

(* Mutant: the connection does not delete what it has unsubscribed.        *)
DropRemembered(c, ch) ==
  /\ clientSubs[c][ch] # None
  /\ LockFree
  /\ subs' = [subs EXCEPT ![ch] = @ \ {clientSubs[c][ch]}]
  /\ closed' = closed \cup {clientSubs[c][ch]}
  /\ UNCHANGED <<queue, clientSubs, owner>>

(* Broker.Unsubscribe of what connection c has on ch.                      *)
Drop(c, ch) ==
  /\ clientSubs[c][ch] # None
  /\ LockFree
  /\ subs' = [subs EXCEPT ![ch] = @ \ {clientSubs[c][ch]}]
  /\ closed' = closed \cup {clientSubs[c][ch]}
  /\ clientSubs' = [clientSubs EXCEPT ![c][ch] = None]
  /\ UNCHANGED <<queue, owner>>

Unsubscribe(c, ch) ==
  /\ pc[c] = "idle"
  /\ Drop(c, ch)
  /\ pc' = [pc EXCEPT ![c] = "unsubscribed"]
  /\ job' = [job EXCEPT ![c] = Work(ch, clientSubs[c][ch], None, {})]
  /\ UNCHANGED <<goroutines, network, published>>

ConfirmUnsubscribe(c) ==
  /\ pc[c] = "unsubscribed"
  /\ WriteLine(c, <<"unsubscribe", job[c].sub>>)
  /\ Finish(c)
  /\ UNCHANGED <<broker, goroutines, clientSubs, owner, stalled, gone, published>>

(* The read fails: the client is gone, or has sent nothing for 10 minutes. *)
Leave(c) ==
  /\ pc[c] = "idle" /\ c \notin Http
  /\ pc' = [pc EXCEPT ![c] = "leaving"]
  /\ UNCHANGED <<broker, goroutines, clientSubs, owner, job, network, published>>

LeaveGone(c) == c \in gone /\ Leave(c)

(* The first deferred function: each subscription is dropped in turn.      *)
Cleanup(c) ==
  /\ pc[c] = "leaving"
  /\ \E ch \in Channel : Drop(c, ch)
  /\ UNCHANGED <<goroutines, pc, job, network, published>>

(* Mutant: the deferred function forgets the subscriptions.                *)
CloseConnEarly(c) ==
  /\ pc[c] = "leaving"
  /\ pc' = [pc EXCEPT ![c] = "closed"]
  /\ gone' = gone \cup {c}
  /\ UNCHANGED <<broker, goroutines, clientSubs, owner, job, out, stalled, published>>

(* The other one, which runs last.                                         *)
CloseConn(c) ==
  /\ pc[c] = "leaving"
  /\ \A ch \in Channel : clientSubs[c][ch] = None
  /\ pc' = [pc EXCEPT ![c] = "closed"]
  /\ gone' = gone \cup {c}
  /\ UNCHANGED <<broker, goroutines, clientSubs, owner, job, out, stalled, published>>

-----------------------------------------------------------------------------
(* PUBLISH.                                                                *)

PublishBegin(c, ch) ==
  /\ pc[c] = "idle"
  /\ published < MaxMsgs
  /\ published' = published + 1
  /\ pc' = [pc EXCEPT ![c] = "publishing"]
  /\ job' = [job EXCEPT ![c] = Work(ch, None, <<c, published + 1>>, subs[ch])]
  /\ UNCHANGED <<broker, goroutines, clientSubs, owner, network>>

(* Mutant: the publisher waits for a slow subscriber.                      *)
PublishSendBlocking(c) ==
  /\ pc[c] = "publishing"
  /\ \E s \in job[c].todo :
       /\ Len(queue[s]) < Cap
       /\ queue' = [queue EXCEPT ![s] = Append(@, job[c].msg)]
       /\ job' = [job EXCEPT ![c].todo = @ \ {s}, ![c].count = @ + 1]
  /\ UNCHANGED <<subs, closed, goroutines, clientSubs, owner, pc, network, published>>

(* One turn of the loop: a subscriber whose buffer is full is passed over. *)
PublishSend(c) ==
  /\ pc[c] = "publishing"
  /\ \E s \in job[c].todo :
       LET room == Len(queue[s]) < Cap
       IN  /\ queue' = IF room THEN [queue EXCEPT ![s] = Append(@, job[c].msg)] ELSE queue
           /\ job' = [job EXCEPT ![c].todo = @ \ {s},
                                 ![c].count = IF room THEN @ + 1 ELSE @]
  /\ UNCHANGED <<subs, closed, goroutines, clientSubs, owner, pc, network, published>>

PublishEnd(c) ==
  /\ pc[c] = "publishing"
  /\ job[c].todo = {}
  /\ pc' = [pc EXCEPT ![c] = "reply"]
  /\ UNCHANGED <<broker, goroutines, clientSubs, owner, job, network, published>>

Reply(c) ==
  /\ pc[c] = "reply"
  /\ WriteLine(c, <<"count", job[c].msg, job[c].count>>)
  /\ Finish(c)
  /\ UNCHANGED <<broker, goroutines, clientSubs, owner, stalled, gone, published>>

-----------------------------------------------------------------------------
(* The goroutine of a subscription.                                        *)

(* Mutant: a goroutine takes the newest message.                           *)
ReceiveNewest(s) ==
  /\ reader[s] = "running"
  /\ hand[s] = <<>>
  /\ queue[s] # <<>>
  /\ hand' = [hand EXCEPT ![s] = <<queue[s][Len(queue[s])]>>]
  /\ queue' = [queue EXCEPT ![s] = SubSeq(@, 1, Len(@) - 1)]
  /\ UNCHANGED <<subs, closed, reader, conns, network, published>>

Receive(s) ==
  /\ reader[s] = "running"
  /\ hand[s] = <<>>
  /\ queue[s] # <<>>
  /\ hand' = [hand EXCEPT ![s] = <<Head(queue[s])>>]
  /\ queue' = [queue EXCEPT ![s] = Tail(@)]
  /\ UNCHANGED <<subs, closed, reader, conns, network, published>>

Deliver(s) ==
  /\ hand[s] # <<>>
  /\ WriteLine(owner[s], <<"message", s, hand[s][1]>>)
  /\ hand' = [hand EXCEPT ![s] = <<>>]
  /\ UNCHANGED <<broker, reader, conns, stalled, gone, published>>

(* Mutant: the goroutine leaves with messages still in the channel.        *)
ReaderEndsEarly(s) ==
  /\ reader[s] = "running"
  /\ hand[s] = <<>>
  /\ s \in closed
  /\ reader' = [reader EXCEPT ![s] = "done"]
  /\ UNCHANGED <<broker, hand, conns, network, published>>

(* range over the channel ends when it is closed and empty.                *)
ReaderEnds(s) ==
  /\ reader[s] = "running"
  /\ hand[s] = <<>>
  /\ queue[s] = <<>>
  /\ s \in closed
  /\ reader' = [reader EXCEPT ![s] = "done"]
  /\ UNCHANGED <<broker, hand, conns, network, published>>

-----------------------------------------------------------------------------
(* Clients.                                                                *)

Stall(c) ==
  /\ c \in Unreliable \ (stalled \cup gone)
  /\ stalled' = stalled \cup {c}
  /\ UNCHANGED <<broker, goroutines, conns, out, gone, published>>

Hangup(c) ==
  /\ c \in Unreliable \ gone
  /\ gone' = gone \cup {c}
  /\ UNCHANGED <<broker, goroutines, conns, out, stalled, published>>

-----------------------------------------------------------------------------
Command(c) ==
  \E ch \in Channel :
    \/ c \in Subscriber /\ \E s \in Sub : Subscribe(c, ch, s)
    \/ Unsubscribe(c, ch)
    \/ c \in Publisher /\ PublishBegin(c, ch)

Finishing(c) ==
  Confirm(c) \/ ConfirmUnsubscribe(c) \/ PublishSend(c) \/ PublishEnd(c) \/ Reply(c)

Ending(c) == Leave(c) \/ Cleanup(c) \/ CloseConn(c)

Goroutine(s) == Receive(s) \/ Deliver(s) \/ ReaderEnds(s)

Next ==
  \/ \E c \in Conn : Command(c) \/ Finishing(c) \/ Ending(c) \/ Stall(c) \/ Hangup(c)
  \/ \E s \in Sub : Goroutine(s)

Spec == Init /\ [][Next]_vars

(* Goroutines that can run do.  Cleanup waits for a lock that publishers   *)
(* take again and again; sync.RWMutex lets a waiting writer in.            *)
Fairness ==
  /\ \A c \in Conn : /\ WF_vars(Finishing(c))
                     /\ WF_vars(LeaveGone(c)) /\ SF_vars(Cleanup(c)) /\ WF_vars(CloseConn(c))
  /\ \A s \in Sub : WF_vars(Goroutine(s))

FairSpec == Spec /\ Fairness

-----------------------------------------------------------------------------
(* Properties.                                                             *)

Msg == Conn \X (1 .. MaxMsgs)
MadeBy(c) == {s \in Sub : owner[s] = c}
Wrote(s, m) == \E c \in Conn : \E i \in DOMAIN out[c] : out[c][i] = <<"message", s, m>>

(* Every variable has its type, a channel its capacity, and a goroutine    *)
(* one message at most.                                                    *)
TypeOK ==
  /\ subs \in [Channel -> SUBSET Sub]
  /\ clientSubs \in [Conn -> [Channel -> Sub \cup {None}]]
  /\ owner \in [Sub -> Conn \cup {None}]
  /\ queue \in [Sub -> Seq(Msg)] /\ \A s \in Sub : Len(queue[s]) <= Cap
  /\ hand \in [Sub -> Seq(Msg)] /\ \A s \in Sub : Len(hand[s]) <= 1
  /\ closed \subseteq Sub
  /\ reader \in [Sub -> {"none", "running", "done"}]
  /\ pc \in [Conn -> {"idle", "subscribed", "unsubscribed", "publishing", "reply",
                      "leaving", "closed"}]
  /\ job \in [Conn -> [channel : Channel \cup {None}, sub : Sub \cup {None},
                       msg : Msg \cup {None}, todo : SUBSET Sub, count : Nat]]
  /\ stalled \subseteq Conn /\ gone \subseteq Conn
  /\ published \in 0 .. MaxMsgs

(* The Broker and the connections agree on who has subscribed to what: a   *)
(* connection finds what it must drop at its end (server.go:67), and is    *)
(* not taken for a subscriber of a channel it has left (server.go:246).    *)
Agreed ==
  /\ \A ch \in Channel : \A s \in subs[ch] :
       owner[s] \in Conn /\ clientSubs[owner[s]][ch] = s
  /\ \A c \in Conn, ch \in Channel : clientSubs[c][ch] # None =>
       clientSubs[c][ch] \in subs[ch] /\ owner[clientSubs[c][ch]] = c
  /\ \A ch1, ch2 \in Channel : ch1 # ch2 => subs[ch1] \cap subs[ch2] = {}

(* A send on a closed channel, and a second close, end the whole process.  *)
(* Neither happens: a publisher in its loop has only open channels before  *)
(* it, and what is in the Broker is open (broker.go:44-78).                *)
NoPanic ==
  /\ \A c \in Conn : pc[c] = "publishing" => job[c].todo \cap closed = {}
  /\ \A ch \in Channel : subs[ch] \cap closed = {}

(* broker.go:31: the caller unsubscribes when done.  A connection that has *)
(* ended holds no subscription, whatever it was doing when it broke.       *)
EndedHoldsNothing ==
  \A c \in Conn, ch \in Channel : pc[c] = "closed" => subs[ch] \cap MadeBy(c) = {}

(* A client learns of a subscription before any message comes from it.     *)
ConfirmedFirst ==
  \A c \in Conn : \A i \in DOMAIN out[c] :
    out[c][i][1] = "message" =>
      \E j \in 1 .. i - 1 : out[c][j] = <<"subscribe", out[c][i][2]>>

(* What one publisher sends comes through one subscription in order, and   *)
(* once, though publishers run side by side.                               *)
InOrder ==
  \A c \in Conn : \A i, j \in DOMAIN out[c] :
    LET a == out[c][i]
        b == out[c][j]
    IN  i < j /\ a[1] = "message" /\ b[1] = "message" /\ a[2] = b[2] /\ a[3][1] = b[3][1]
        => a[3][2] < b[3][2]

(* broker.go:74: a slow subscriber does not block a publisher, even one    *)
(* that does not read at all.                                              *)
PublisherNotBlocked == \A c \in Conn : pc[c] = "publishing" ~> pc[c] # "publishing"

(* A message that was counted is written, even if the subscriber has       *)
(* unsubscribed since; unless it does not read, or is gone.                *)
CountedIsWritten ==
  \A s \in Sub, m \in Msg :
    (\E i \in DOMAIN queue[s] : queue[s][i] = m)
      ~> (owner[s] \in stalled \cup gone \/ Wrote(s, m))

(* When a client goes, its connection and its goroutines come to an end.   *)
GoneIsForgotten ==
  \A c \in Conn \ Http :
    c \in gone ~> (pc[c] = "closed" /\ \A s \in MadeBy(c) : reader[s] = "done")

=============================================================================
