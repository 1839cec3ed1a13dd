------------------------------- MODULE Pages -------------------------------
(***************************************************************************)
(* The pages of the dashboard: navigation and the two search boxes         *)
(* (frontend/src/App.tsx, components/Sidebar.tsx, components/Topbar.tsx,   *)
(* pages/KeyExplorerPage.tsx), the charts of the Dashboard and Metrics     *)
(* pages (hooks/useLineChart.ts, hooks/useBarChart.ts), and the Pub/Sub    *)
(* page with its stream of demonstration messages.                         *)
(*                                                                         *)
(* React draws first and runs the effects later, those whose dependencies  *)
(* have changed; before it draws again it runs what is still to be run.    *)
(* So every step that draws first settles the effects of the last drawing  *)
(* (Draw), and between the two a timer may fire (Message).  When a tick of *)
(* the metrics poll ends is up to module App; here it is Tick.  The rows   *)
(* of the Keys page are fixed: module Dashboard changes them.              *)
(***************************************************************************)
EXTENDS Naturals, SequencesExt

CONSTANTS
  Sample,     \* what a tick adds to the live windows: ops and memory; or a
              \* random pair of bars
  Window,     \* length of the windows (20, and 14 for the bars)
  Channel,    \* names of channels
  First,      \* the channels subscribed at first
  MsgCap,     \* messages kept (50)
  Letter,
  Lower,      \* toLowerCase of each letter: one letter, or for some several
  Space,
  Query,      \* what may be typed into a search box
  Rows,       \* the rows of the Keys page
  MaxEvents   \* bound: clicks and texts typed

Page == {"dashboard", "keys", "metrics", "logs", "pubsub"}
Type == {"string", "hash", "list", "set", "zset"}

ASSUME PagesAssumption ==
  /\ {Window, MsgCap} \subseteq Nat \ {0} /\ MaxEvents \in Nat
  /\ First \in Seq(Channel) /\ IsInjective(First)
  /\ Lower \in [Letter -> Seq(Letter) \ {<<>>}] /\ Space \in Letter
  /\ Query \subseteq Seq(Letter)
  /\ \A row \in Rows : row.key \in Seq(Letter) /\ row.type \in Type

VARIABLES
  page,
  search,   \* searchQuery, of the box at the top
  local,    \* localSearch, of the box on the Keys page
  type,     \* typeFilter
  live,     \* liveOps and liveMemTrend
  charts,   \* the Chart.js objects: how many are alive, and their data
  bars,     \* barDataRef, empty while the page is not there
  channels,
  stream,   \* the channels in the closure of the interval that runs
  messages, \* their channels, newest last
  changed,  \* what the last drawing changed and the effects have yet to see
  events    \* counter of the bound

searching == <<search, local, type>>
pubsub    == <<channels, messages>>
effects   == <<charts, bars, stream>>
vars == <<page, searching, live, pubsub, effects, changed, events>>

-----------------------------------------------------------------------------
(* Charts.                                                                 *)

(* Three StatCards with a line each, and two lines.                        *)
StatCards == {"totalKeys", "memoryUsage", "opsPerSecond"}
DashboardCharts == StatCards \cup {"opsPerSec", "memoryTrend"}
MetricsCharts   == {"opsLive", "memoryLive", "readWrite"}

ChartsOf(p) ==
  CASE p = "dashboard" -> DashboardCharts [] p = "metrics" -> MetricsCharts [] OTHER -> {}

Chart  == DashboardCharts \cup MetricsCharts
NoData == <<>>
Mounted(c) == charts[c].data # NoData

Windows == [1 .. Window -> Sample]
Shifted(window, sample) == Append(Tail(window), sample)

(* Mutant: the clean-up of the effect forgets to destroy the chart.        *)
DestroyedNot(chart) == [chart EXCEPT !.data = NoData]

(* useLineChart: the effect that runs on mounting, its clean-up, update.   *)
Destroyed(chart) == [alive |-> chart.alive - 1, data |-> NoData]
Created(chart, data) == [alive |-> chart.alive + 1, data |-> data]
Updated(chart, data) == [chart EXCEPT !.data = data]

(* useBarChart and the effect of MetricsPage: fresh random bars on         *)
(* mounting, one more for each new liveOps.                                *)
BarsAfter ==
  IF page # "metrics"      THEN {NoData}
  ELSE IF bars = NoData    THEN Windows
  ELSE IF changed = "live" THEN {Shifted(bars, sample) : sample \in Sample}
  ELSE {bars}

Plots(c, newBars) == IF c = "readWrite" THEN newBars ELSE live

ChartAfter(c, newBars) ==
  IF c \notin ChartsOf(page)
  THEN IF Mounted(c) THEN Destroyed(charts[c]) ELSE charts[c]
  ELSE IF ~Mounted(c) THEN Created(charts[c], Plots(c, newBars))
  ELSE IF changed = "live" THEN Updated(charts[c], Plots(c, newBars))
  ELSE charts[c]

-----------------------------------------------------------------------------
(* Effects.                                                                *)

(* Mutant: the effect of the stream has no dependencies.                   *)
StreamAfterMount == IF changed = "mount" THEN channels ELSE stream

(* The effect on channels starts a new interval, with these channels.      *)
StreamAfter == IF changed \in {"mount", "channels"} THEN channels ELSE stream

Settle ==
  /\ bars' \in BarsAfter
  /\ charts' = [c \in Chart |-> ChartAfter(c, bars')]
  /\ stream' = StreamAfter

Flush ==
  /\ changed # "nothing"
  /\ Settle
  /\ changed' = "nothing"
  /\ UNCHANGED <<page, searching, live, pubsub, events>>

Draw(what) == Settle /\ changed' = what

Event == events < MaxEvents /\ events' = events + 1

Init ==
  /\ page = "dashboard"
  /\ search = <<>> /\ local = <<>> /\ type = "all"
  /\ live \in Windows
  /\ charts = [c \in Chart |-> [alive |-> 0, data |-> NoData]]
  /\ bars = NoData
  /\ channels = First /\ stream = <<>> /\ messages = <<>>
  /\ changed = "mount"
  /\ events = 0

-----------------------------------------------------------------------------
(* A tick of the metrics poll has new numbers, real ones or drifting.      *)
Tick ==
  /\ \E sample \in Sample : live' = Shifted(live, sample)
  /\ Draw("live")
  /\ UNCHANGED <<page, searching, pubsub, events>>

(* Another page is shown; a Keys page is a new one, with empty filters.    *)
Show(p) == page' = p /\ local' = <<>> /\ type' = "all" /\ Draw("page")

Navigate ==
  /\ Event
  /\ \E p \in Page \ {page} : Show(p)
  /\ UNCHANGED <<search, live, pubsub>>

-----------------------------------------------------------------------------
(* Search.                                                                 *)

Lowered(text) == FlattenSeq([i \in DOMAIN text |-> Lower[text[i]]])
IsBlank(text) == \A i \in DOMAIN text : text[i] = Space

(* text.indexOf(part) and text.slice(from, to), from 0.                    *)
Places(text, part) ==
  {i \in 0 .. Len(text) : /\ i + Len(part) <= Len(text)
                          /\ SubSeq(text, i + 1, i + Len(part)) = part}
Slice(text, from, to) == SubSeq(text, from + 1, Min({to, Len(text)}))

(* handleSearchChange: the text goes into the box at the top, and to the   *)
(* Keys page unless it is blank.                                           *)
ChangeSearch ==
  /\ Event
  /\ \E query \in Query \ {search} :
       /\ search' = query
       /\ IF ~IsBlank(query) /\ page # "keys" THEN Show("keys")
          ELSE Draw("search") /\ UNCHANGED <<page, local, type>>
  /\ UNCHANGED <<live, pubsub>>

ChangeLocal ==
  /\ page = "keys" /\ Event
  /\ \E query \in Query \ {local} : local' = query
  /\ Draw("search")
  /\ UNCHANGED <<page, search, type, live, pubsub>>

ChooseType ==
  /\ page = "keys" /\ Event
  /\ \E t \in Type \cup {"all"} : t # type /\ type' = t
  /\ Draw("search")
  /\ UNCHANGED <<page, search, local, live, pubsub>>

ActiveSearch == IF local # <<>> THEN local ELSE search

Filtered ==
  {row \in Rows : /\ Places(Lowered(row.key), Lowered(ActiveSearch)) # {}
                  /\ type = "all" \/ row.type = type}

Cut(text, at, length) ==
  <<Slice(text, 0, at), Slice(text, at, at + length), Slice(text, at + length, Len(text))>>

(* Mutant: the case is not folded.                                         *)
HighlightExact(text, query) ==
  LET places == Places(text, query)
  IN  IF query = <<>> \/ places = {} THEN <<text, <<>>, <<>>>>
      ELSE Cut(text, Min(places), Len(query))

(* highlightMatch: before, match, after.                                   *)
Highlight(text, query) ==
  LET places == Places(Lowered(text), Lowered(query))
  IN  IF query = <<>> \/ places = {} THEN <<text, <<>>, <<>>>>
      ELSE Cut(text, Min(places), Len(query))

-----------------------------------------------------------------------------
(* Pub/Sub.                                                                *)

(* Mutant: a name that is there already is added again.                    *)
SubscribeAgain ==
  /\ page = "pubsub" /\ Event
  /\ \E ch \in Channel : channels' = Append(channels, ch)
  /\ Draw("channels")
  /\ UNCHANGED <<page, searching, live, messages>>

(* handleSub with the name typed, or a click on a tag: either way not on a *)
(* channel that is there already.                                          *)
Subscribe ==
  /\ page = "pubsub" /\ Event
  /\ \E ch \in Channel \ Range(channels) : channels' = Append(channels, ch)
  /\ Draw("channels")
  /\ UNCHANGED <<page, searching, live, messages>>

Unsubscribe ==
  /\ page = "pubsub" /\ Event
  /\ \E i \in DOMAIN channels : channels' = RemoveAt(channels, i)
  /\ Draw("channels")
  /\ UNCHANGED <<page, searching, live, messages>>

(* The interval makes up a message for a channel it knows; slice(-50).     *)
Message ==
  /\ \E ch \in Range(stream) :
       LET all == Append(messages, ch)
       IN  messages' = SubSeq(all, Max({1, Len(all) - MsgCap + 1}), Len(all))
  /\ Draw("messages")
  /\ UNCHANGED <<page, searching, live, channels, events>>

-----------------------------------------------------------------------------
Next ==
  \/ Flush \/ Tick \/ Navigate
  \/ ChangeSearch \/ ChangeLocal \/ ChooseType
  \/ Subscribe \/ Unsubscribe \/ Message

Spec == Init /\ [][Next]_vars

-----------------------------------------------------------------------------
(* Properties.                                                             *)

(* Every variable has its type; channels are distinct, for their names are *)
(* React's keys and what the x of a tag goes by.                           *)
TypeOK ==
  /\ page \in Page
  /\ search \in Query \cup {<<>>} /\ local \in Query \cup {<<>>} /\ type \in Type \cup {"all"}
  /\ live \in Windows
  /\ charts \in [Chart -> [alive: Nat, data: Windows \cup {NoData}]]
  /\ bars \in Windows \cup {NoData}
  /\ channels \in Seq(Channel) /\ stream \in Seq(Channel) /\ IsInjective(channels)
  /\ messages \in Seq(Channel) /\ Len(messages) <= MsgCap
  /\ changed \in {"nothing", "mount", "page", "live", "search", "channels", "messages"}
  /\ events \in 0 .. MaxEvents

(* When the effects have run, each canvas of the page has exactly one      *)
(* chart, which shows the numbers of now, and no chart of a page that was  *)
(* left is alive: through every order of ticks and navigation.             *)
ChartsFollow ==
  changed = "nothing" =>
    \A c \in Chart :
      charts[c] = IF c \in ChartsOf(page) THEN [alive |-> 1, data |-> Plots(c, bars)]
                  ELSE [alive |-> 0, data |-> NoData]

(* A message that arrives is for a channel subscribed now, not when the    *)
(* interval began, except between a click and its effect.                  *)
OnlySubscribedArrive ==
  [][ messages' # messages /\ changed # "channels" => Last(messages') \in Range(channels) ]_vars

(* Every row the search lets through shows why: its text is whole, and the *)
(* yellow part is what was searched for, whatever the case of either, if   *)
(* no letter of the two has a lower case of several letters.               *)
SameLength(text) == Len(Lowered(text)) = Len(text)

HighlightIsTheMatch ==
  page = "keys" => \A row \in Filtered :
    LET parts == Highlight(row.key, ActiveSearch)
    IN  /\ parts[1] \o parts[2] \o parts[3] = row.key
        /\ SameLength(row.key) /\ SameLength(ActiveSearch) =>
             Lowered(parts[2]) = Lowered(ActiveSearch)

(* highlightMatch "highlights the matching substring"                      *)
(* (KeyExplorerPage.tsx:126), whatever the letters.                        *)
MatchingPartHighlighted ==
  page = "keys" => \A row \in Filtered :
    Lowered(Highlight(row.key, ActiveSearch)[2]) = Lowered(ActiveSearch)

=============================================================================
