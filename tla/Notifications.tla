--------------------------- MODULE Notifications ---------------------------
(***************************************************************************)
(* The dashboard's notices: the queue with its timers                      *)
(* (frontend/src/hooks/useNotifications.ts), the panel under the bell      *)
(* (components/NotificationPanel.tsx) and the strip of toasts              *)
(* (components/ToastStrip.tsx).  A notice is its id; message and level are *)
(* for the eye only.  Every caller passes a duration above zero, so every  *)
(* notice has a timer; the timers run out in any order, since durations    *)
(* differ.  Who pushes is up to the module that extends this one.          *)
(***************************************************************************)
EXTENDS Naturals, SequencesExt

CONSTANTS
  QueueCap,   \* notices kept (20)
  StripSize   \* of these, shown as toasts (3 of the 4 the strip has room for)

ASSUME NotificationsAssumption == {QueueCap, StripSize} \subseteq Nat \ {0}

VARIABLES
  notices,  \* queue: ids, newest first; counter: the last id; timers: pending
  open      \* whether the panel is shown

noticeVars == <<notices, open>>

NoNotices == [queue |-> <<>>, counter |-> 0, timers |-> {}]

(* slice(0, size)                                                          *)
Slice(seq, size) == IF Len(seq) > size THEN SubSeq(seq, 1, size) ELSE seq

(* Mutant: the id is the place in the queue, not that of a counter.        *)
PushByLength(n) ==
  LET id == Len(n.queue) + 1
  IN  [queue |-> Slice(<<id>> \o n.queue, QueueCap), counter |-> id,
       timers |-> n.timers \cup {id}]

Push(n) ==
  LET id == n.counter + 1
  IN  [queue |-> Slice(<<id>> \o n.queue, QueueCap), counter |-> id,
       timers |-> n.timers \cup {id}]

(* filter(n => n.id !== id); ids are distinct.                             *)
WithoutId(queue, id) ==
  IF \E i \in DOMAIN queue : queue[i] = id
  THEN RemoveAt(queue, CHOOSE i \in DOMAIN queue : queue[i] = id)
  ELSE queue

-----------------------------------------------------------------------------
(* Mutant: the timer takes the newest notice away if it is its own, and    *)
(* otherwise none.                                                         *)
ExpireNewest(id) ==
  /\ id \in notices.timers
  /\ notices' = [notices EXCEPT
       !.queue = IF @ # <<>> /\ Head(@) = id THEN Tail(@) ELSE @,
       !.timers = @ \ {id}]
  /\ UNCHANGED open

(* The timeout of push fires, whether or not the notice is still there.    *)
Expire(id) ==
  /\ id \in notices.timers
  /\ notices' = [notices EXCEPT !.queue = WithoutId(@, id), !.timers = @ \ {id}]
  /\ UNCHANGED open

(* What is on the screen: the newest as toasts, and all in the panel.      *)
Toasts == Slice(notices.queue, StripSize)
Listed == IF open THEN notices.queue ELSE <<>>

(* The x of one of these.  Its timer goes on.                              *)
Dismiss ==
  /\ \E id \in Range(Toasts) \cup Range(Listed) :
       notices' = [notices EXCEPT !.queue = WithoutId(@, id)]
  /\ UNCHANGED open

(* "Clear all" is there while there is something to clear.                 *)
DismissAll ==
  /\ Listed # <<>>
  /\ notices' = [notices EXCEPT !.queue = <<>>]
  /\ UNCHANGED open

(* The bell.                                                               *)
Toggle == open' = ~open /\ UNCHANGED notices

(* mousedown: the handler looks for an element with data-notif-panel above *)
(* the target.  The root of the dashboard has that attribute, so that only *)
(* a click on the bare page beside the root closes the panel.              *)
ClickBesideRoot == open /\ open' = FALSE /\ UNCHANGED notices

Panel == Dismiss \/ DismissAll \/ Toggle \/ ClickBesideRoot

-----------------------------------------------------------------------------
(* Properties.                                                             *)

NoticesType ==
  /\ notices \in [queue: Seq(Nat), counter: Nat, timers: SUBSET Nat]
  /\ open \in BOOLEAN

(* The newest notice comes first, no id is shown twice (they are React's   *)
(* keys, and what the x goes by), and each notice on the screen has a      *)
(* timer that will take it away, however pushes, slices, timers and clicks *)
(* follow each other.                                                      *)
QueueSound ==
  /\ Len(notices.queue) <= QueueCap
  /\ \A i, j \in DOMAIN notices.queue : i < j => notices.queue[i] > notices.queue[j]
  /\ \A i \in DOMAIN notices.queue :
       notices.queue[i] \in 1 .. notices.counter /\ notices.queue[i] \in notices.timers

=============================================================================
