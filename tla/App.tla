-------------------------------- MODULE App --------------------------------
(***************************************************************************)
(* The root of the dashboard (frontend/src/App.tsx): the poll of the       *)
(* server's metrics, whose ticks overlap; the badge that says whether the  *)
(* server is online (components/Topbar.tsx); the command palette           *)
(* (components/CommandPalette.tsx); the log of commands; the region        *)
(* (hooks/useRegion.ts); and the notices all of these push.                *)
(*                                                                         *)
(* A handler is cut at its await, where anything may happen; null is what  *)
(* apiFetch makes of a refused connection, a bad status and a time-out.    *)
(* The numbers a tick brings are drawn by the pages: module Pages.  The    *)
(* poll of the keys is in module Dashboard; its handlers' notices arrive   *)
(* here at any time (KeyNotice).                                           *)
(***************************************************************************)
EXTENDS Notifications, Integers

CONSTANTS
  Ticks,      \* ticks in flight: one a second, each for 1.5 s at most (2)
  Execs,      \* bound: commands in flight
  Cmd,        \* commands a user may type
  NoCmd,      \* nothing is in flight, or there is no result yet
  Demo,       \* an entry of genLogEntry
  Seeded,     \* of these, how many there are at first (12)
  LogCap,     \* entries kept (60)
  MaxNotices, \* bound: notices that are followed; later ones are not modelled
  MaxEvents   \* bound: what happens outside: clicks, starts and stops of the
              \* server, time-outs, the error rate passing its threshold

ASSUME AppAssumption ==
  /\ {Ticks, Execs, LogCap} \subseteq Nat \ {0}
  /\ {Seeded, MaxNotices, MaxEvents} \subseteq Nat
  /\ Seeded <= LogCap
  /\ NoCmd \notin Cmd /\ Demo \notin Cmd

VARIABLES
  up,            \* the server answers
  failing,       \* of all its commands since it started, over 5 % failed
  ticks,         \* of each tick, how far it is
  prevOnline,    \* prevOnlineRef: "unknown", "online", "offline"
  serverOnline,  \* the badge
  balance,       \* history: notices "lost" less notices "back online"
  region,        \* "loading", then "known"
  result,        \* history: the command whose answer cmdResult is
  execs,         \* the commands in flight
  logs,          \* commands, newest first
  events         \* counter of the bound

status  == <<prevOnline, serverOnline, balance>>
palette == <<result, execs>>
vars == <<noticeVars, up, failing, ticks, status, region, palette, logs, events>>

Init ==
  /\ notices = NoNotices /\ open = FALSE
  /\ up \in BOOLEAN /\ failing \in BOOLEAN
  /\ ticks = [t \in 1 .. Ticks |-> "idle"]
  /\ prevOnline = "unknown" /\ serverOnline = FALSE /\ balance = 0
  /\ region = "loading"
  /\ result = NoCmd
  /\ execs = [e \in 1 .. Execs |-> NoCmd]
  /\ logs = [i \in 1 .. Seeded |-> Demo]
  /\ events = 0

(* What the user sees of serverOnline.                                     *)
Badge == IF serverOnline THEN "online" ELSE "offline"

(* push, as far as notices are followed.                                   *)
Noticed(n) == IF n.counter < MaxNotices THEN Push(n) ELSE n

Event == events < MaxEvents /\ events' = events + 1

(* Mutant: the log grows without end.                                      *)
LoggedAll(entry) == <<entry>> \o logs

Logged(entry) == Slice(<<entry>> \o logs, LogCap)

-----------------------------------------------------------------------------
(* The poll of the metrics.                                                *)

TickStarts ==
  /\ \E t \in 1 .. Ticks :
       /\ ticks[t] = "idle"
       /\ \A s \in 1 .. t - 1 : ticks[s] # "idle"
       /\ ticks' = [ticks EXCEPT ![t] = "sent"]
  /\ UNCHANGED <<noticeVars, up, failing, status, region, palette, logs, events>>

(* handleMetrics answers, if the server is there, with the totals since    *)
(* its start.                                                              *)
ServeTick(t) ==
  /\ ticks[t] = "sent"
  /\ ticks' = [ticks EXCEPT ![t] =
       IF ~up THEN "null" ELSE IF failing THEN "failing" ELSE "fine"]
  /\ UNCHANGED <<noticeVars, up, failing, status, region, palette, logs, events>>

(* Mutant: the closure of the effect sees the state at mount for ever.     *)
PreviousAtMount == "unknown"

Previous == prevOnline

(* Mutant: the badge is set only with the notice.                          *)
AnsweredOnce(high) ==
  LET back == Previous = "offline"
      once == IF back THEN Noticed(notices) ELSE notices
  IN  /\ notices' = IF high THEN Noticed(once) ELSE once
      /\ balance' = IF back THEN balance - 1 ELSE balance
      /\ prevOnline' = "online"
      /\ serverOnline' = IF back THEN TRUE ELSE serverOnline
      /\ UNCHANGED logs

(* The tick after its await, with data and without.  An error rate above   *)
(* the threshold is a notice on every tick, not on the first alone.        *)
Answered(high) ==
  LET back == Previous = "offline"
      once == IF back THEN Noticed(notices) ELSE notices
  IN  /\ notices' = IF high THEN Noticed(once) ELSE once
      /\ balance' = IF back THEN balance - 1 ELSE balance
      /\ prevOnline' = "online"
      /\ serverOnline' = TRUE
      /\ UNCHANGED logs

Missed ==
  LET first == Previous \in {"online", "unknown"}
  IN  /\ notices' = IF first THEN Noticed(notices) ELSE notices
      /\ balance' = IF first THEN balance + 1 ELSE balance
      /\ prevOnline' = "offline"
      /\ serverOnline' = FALSE
      /\ logs' = Logged(Demo)

TickEnds(t) ==
  /\ \/ ticks[t] \in {"fine", "failing"} /\ Answered(ticks[t] = "failing")
     \/ ticks[t] = "null" /\ Missed
  /\ ticks' = [ticks EXCEPT ![t] = "idle"]
  /\ UNCHANGED <<open, up, failing, region, palette, events>>

(* AbortSignal.timeout(1500), though the answer may be on its way.         *)
TickTimesOut(t) ==
  /\ ticks[t] # "idle"
  /\ Event
  /\ Missed
  /\ ticks' = [ticks EXCEPT ![t] = "idle"]
  /\ UNCHANGED <<open, up, failing, region, palette>>

(* The server is lost or comes back; if it was started anew, its totals    *)
(* begin at zero.                                                          *)
ServerFlips ==
  /\ Event
  /\ up' = ~up
  /\ failing' \in {failing, FALSE}
  /\ UNCHANGED <<noticeVars, ticks, status, region, palette, logs>>

(* Clients' commands carry the share of errors over the threshold or back. *)
ErrorRatePasses ==
  /\ Event
  /\ failing' = ~failing
  /\ UNCHANGED <<noticeVars, up, ticks, status, region, palette, logs>>

-----------------------------------------------------------------------------
(* The region arrives, once, and is a notice if it has a city.             *)
RegionArrives ==
  /\ Event
  /\ region = "loading"
  /\ region' = "known"
  /\ \E city \in BOOLEAN : notices' = IF city THEN Noticed(notices) ELSE notices
  /\ UNCHANGED <<open, up, failing, ticks, status, palette, logs>>

(* A handler of the Keys page has deleted or saved, or failed to.          *)
KeyNotice ==
  /\ Event
  /\ notices' = Noticed(notices)
  /\ UNCHANGED <<open, up, failing, ticks, status, region, palette, logs>>

-----------------------------------------------------------------------------
(* The command palette.                                                    *)

FreeExec == {e \in 1 .. Execs : execs[e] = NoCmd}

(* Enter or Execute: execCmd up to its await, with a command the user has  *)
(* typed or picked from the quick ones, which is all the input is for.     *)
(* The badge is not asked.                                                 *)
Execute ==
  /\ Event
  /\ FreeExec # {}
  /\ \E cmd \in Cmd : execs' = [execs EXCEPT ![Min(FreeExec)] = cmd]
  /\ UNCHANGED <<noticeVars, up, failing, ticks, status, region, result, logs>>

(* execCmd goes on: with a reply, with null, or with an error, which is a  *)
(* notice too.  Whether the server had the command does not matter here.   *)
ExecEnds(e) ==
  /\ execs[e] # NoCmd
  /\ \E error \in BOOLEAN : notices' = IF error THEN Noticed(notices) ELSE notices
  /\ result' = execs[e]
  /\ logs' = Logged(execs[e])
  /\ execs' = [execs EXCEPT ![e] = NoCmd]
  /\ UNCHANGED <<open, up, failing, ticks, status, region, events>>

-----------------------------------------------------------------------------
UsePanel ==
  /\ Panel
  /\ Event
  /\ UNCHANGED <<up, failing, ticks, status, region, palette, logs>>

TimerFires(id) ==
  /\ Expire(id)
  /\ UNCHANGED <<up, failing, ticks, status, region, palette, logs, events>>

Next ==
  \/ TickStarts
  \/ \E t \in 1 .. Ticks : ServeTick(t) \/ TickEnds(t) \/ TickTimesOut(t)
  \/ ServerFlips \/ ErrorRatePasses
  \/ RegionArrives \/ KeyNotice
  \/ Execute \/ \E e \in 1 .. Execs : ExecEnds(e)
  \/ UsePanel \/ \E id \in notices.timers : TimerFires(id)

Spec == Init /\ [][Next]_vars

(* The interval fires, requests come to an end, and so does each timer.    *)
(* Neither the user nor the server has to do anything more.                *)
Fairness ==
  /\ WF_vars(TickStarts)
  /\ \A id \in 1 .. MaxNotices : WF_vars(TimerFires(id))
  /\ \A t \in 1 .. Ticks : WF_vars(ServeTick(t)) /\ WF_vars(TickEnds(t))

FairSpec == Spec /\ Fairness

-----------------------------------------------------------------------------
(* Properties.                                                             *)

(* Every variable has its type.                                            *)
TypeOK ==
  /\ NoticesType
  /\ up \in BOOLEAN /\ failing \in BOOLEAN
  /\ ticks \in [1 .. Ticks -> {"idle", "sent", "fine", "failing", "null"}]
  /\ prevOnline \in {"unknown", "online", "offline"}
  /\ serverOnline \in BOOLEAN /\ balance \in Int
  /\ region \in {"loading", "known"}
  /\ result \in Cmd \cup {NoCmd}
  /\ execs \in [1 .. Execs -> Cmd \cup {NoCmd}]
  /\ logs \in Seq(Cmd \cup {Demo}) /\ Len(logs) <= LogCap
  /\ events \in 0 .. MaxEvents

(* "Connection lost" and "back online" take turns, beginning with "lost",  *)
(* and the badge agrees with the last of them, although ticks overlap and  *)
(* their answers come in any order (App.tsx:58, "only on transitions").    *)
LostAndBackAlternate ==
  /\ balance = IF prevOnline = "offline" THEN 1 ELSE 0
  /\ serverOnline <=> prevOnline = "online"

(* Every single notice leaves the screen, touched or not, whatever is      *)
(* pushed, cut off or dismissed around it.  The screen as a whole need not *)
(* become empty: while the error rate is high, every tick is a new notice. *)
EachNoticeLeaves ==
  \A id \in 1 .. MaxNotices :
    id \in Range(notices.queue) ~> id \notin Range(notices.queue)

(* The palette's input says of an offline server "commands won't be sent"  *)
(* (CommandPalette.tsx:27): while it says so, no command goes to a server  *)
(* that would carry it out.                                                *)
OfflineSendsNothing ==
  [][\A e \in 1 .. Execs :
       execs[e] = NoCmd /\ execs'[e] # NoCmd => serverOnline \/ ~up]_vars

(* When the server comes or goes and then stays as it is, so does the      *)
(* badge, after the last late answer.                                      *)
StatusSettles ==
  /\ <>[]up => <>[](Badge = "online")
  /\ <>[]~up => <>[](Badge = "offline")

=============================================================================
