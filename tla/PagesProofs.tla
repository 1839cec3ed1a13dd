---------------------------- MODULE PagesProofs ----------------------------
(***************************************************************************)
(* Proofs about Pages, for windows, lists of messages, sets of channels and *)
(* keys of every size: each canvas has one chart with the numbers of now,  *)
(* messages come from the channels of now, and what is highlighted is what *)
(* was searched for.                                                       *)
(***************************************************************************)
EXTENDS Pages, FiniteSetTheorems, SequenceTheorems, TLAPS

-----------------------------------------------------------------------------
(* Sequences.                                                              *)

LEMMA WindowsHaveData == NoData \notin Windows
<1>1. SUFFICES ASSUME NoData \in Windows PROVE FALSE
  OBVIOUS
<1>2. DOMAIN NoData = 1 .. Window
  BY <1>1 DEF Windows
<1>3. DOMAIN NoData = 1 .. 0
  BY DEF NoData
<1>4. 1 \in 1 .. Window /\ 1 \notin 1 .. 0
  BY PagesAssumption
<1>5. QED
  BY <1>2, <1>3, <1>4

(* A window keeps its length.                                              *)
LEMMA ShiftedIsWindow ==
  ASSUME NEW window \in Windows, NEW sample \in Sample
  PROVE  Shifted(window, sample) \in Windows
<1>1. Window \in Nat \ {0}
  BY PagesAssumption
<1>2. window \in Seq(Sample) /\ Len(window) = Window
  BY <1>1 DEF Windows
<1>3. window # <<>>
  BY <1>1, <1>2
<1>4. Tail(window) \in Seq(Sample) /\ Len(Tail(window)) = Window - 1
  BY <1>2, <1>3, HeadTailProperties
<1>5. /\ Append(Tail(window), sample) \in Seq(Sample)
      /\ Len(Append(Tail(window), sample)) = Window
  BY <1>1, <1>4, AppendProperties
<1>6. QED
  BY <1>5, LenProperties DEF Shifted, Windows

LEMMA AppendedInjective ==
  ASSUME NEW S, NEW s \in Seq(S), IsInjective(s), NEW x \in S \ Range(s)
  PROVE  Append(s, x) \in Seq(S) /\ IsInjective(Append(s, x))
<1>1. /\ Append(s, x) \in Seq(S) /\ Len(Append(s, x)) = Len(s) + 1
      /\ \A i \in 1 .. Len(s) : Append(s, x)[i] = s[i]
      /\ Append(s, x)[Len(s) + 1] = x
  BY AppendProperties
<1>2. \A i \in 1 .. Len(s) : s[i] # x
  BY DEF Range
<1>3. QED
  BY <1>1, <1>2 DEF IsInjective

LEMMA RemovedInjective ==
  ASSUME NEW S, NEW s \in Seq(S), IsInjective(s), NEW k \in 1 .. Len(s)
  PROVE  RemoveAt(s, k) \in Seq(S) /\ IsInjective(RemoveAt(s, k))
<1> DEFINE a == SubSeq(s, 1, k - 1)
           b == SubSeq(s, k + 1, Len(s))
<1>1. a \in Seq(S) /\ Len(a) = k - 1 /\ \A i \in 1 .. k - 1 : a[i] = s[i]
  <2>1. \A i \in 1 .. k - 1 : s[i] \in S
    OBVIOUS
  <2>2. QED
    BY <2>1, SubSeqProperties
<1>2. b \in Seq(S) /\ Len(b) = Len(s) - k /\ \A i \in 1 .. Len(s) - k : b[i] = s[k + i]
  <2>1. \A i \in k + 1 .. Len(s) : s[i] \in S
    OBVIOUS
  <2>2. /\ b \in Seq(S)
        /\ Len(b) = IF k + 1 <= Len(s) THEN Len(s) - (k + 1) + 1 ELSE 0
        /\ \A i \in 1 .. Len(s) - (k + 1) + 1 : b[i] = s[k + 1 + i - 1]
    BY <2>1, SubSeqProperties
  <2>3. QED
    BY <2>2
<1>3. RemoveAt(s, k) = a \o b
  BY DEF RemoveAt
<1> HIDE DEF a, b
<1>4. /\ a \o b \in Seq(S) /\ Len(a \o b) = Len(s) - 1
      /\ \A i \in 1 .. Len(s) - 1 : (a \o b)[i] = IF i < k THEN s[i] ELSE s[i + 1]
  <2>1. /\ a \o b \in Seq(S) /\ Len(a \o b) = Len(a) + Len(b)
        /\ \A i \in 1 .. Len(a) + Len(b) : (a \o b)[i] = IF i <= Len(a) THEN a[i] ELSE b[i - Len(a)]
    BY <1>1, <1>2, ConcatProperties
  <2>2. QED
    BY <1>1, <1>2, <2>1
<1>5. \A i, j \in 1 .. Len(s) - 1 : (a \o b)[i] = (a \o b)[j] => i = j
  <2>1. \A i, j \in 1 .. Len(s) : s[i] = s[j] => i = j
    BY DEF IsInjective
  <2>2. SUFFICES ASSUME NEW i \in 1 .. Len(s) - 1, NEW j \in 1 .. Len(s) - 1,
                        (a \o b)[i] = (a \o b)[j]
        PROVE  i = j
    OBVIOUS
  <2>3. (IF i < k THEN i ELSE i + 1) = (IF j < k THEN j ELSE j + 1)
    <3>1. s[IF i < k THEN i ELSE i + 1] = s[IF j < k THEN j ELSE j + 1]
      BY <1>4, <2>2
    <3>2. /\ (IF i < k THEN i ELSE i + 1) \in 1 .. Len(s)
          /\ (IF j < k THEN j ELSE j + 1) \in 1 .. Len(s)
      OBVIOUS
    <3>3. QED
      BY <2>1, <3>1, <3>2
  <2>4. QED
    BY <2>3
<1>6. DOMAIN (a \o b) = 1 .. Len(s) - 1
  BY <1>4
<1>7. QED
  BY <1>3, <1>4, <1>5, <1>6 DEF IsInjective

(* slice(-size) keeps what is newest.                                      *)
LEMMA NewestKept ==
  ASSUME NEW S, NEW s \in Seq(S), s # <<>>, NEW size \in Nat \ {0}
  PROVE  LET kept == SubSeq(s, Max({1, Len(s) - size + 1}), Len(s))
         IN  kept \in Seq(S) /\ Len(kept) <= size /\ Last(kept) = Last(s)
<1> DEFINE m == Max({1, Len(s) - size + 1})
           kept == SubSeq(s, m, Len(s))
<1>1. Len(s) \in Nat \ {0}
  BY EmptySeq
<1>2. m \in {1, Len(s) - size + 1} /\ 1 <= m /\ Len(s) - size + 1 <= m
  <2> DEFINE both == {1, Len(s) - size + 1}
  <2>1. \E x \in both : \A y \in both : x >= y
    BY <1>1
  <2>2. Max(both) \in both /\ \A y \in both : Max(both) >= y
    <3> HIDE DEF both
    <3>1. QED
      BY <2>1 DEF Max
  <2>3. QED
    BY <1>1, <2>2
<1> HIDE DEF m
<1>3. m \in 1 .. Len(s) /\ Len(s) - m + 1 <= size
  BY <1>1, <1>2
<1>4. \A i \in m .. Len(s) : s[i] \in S
  BY <1>3
<1>5. /\ kept \in Seq(S)
      /\ Len(kept) = Len(s) - m + 1
      /\ \A i \in 1 .. Len(s) - m + 1 : kept[i] = s[m + i - 1]
  BY <1>1, <1>3, <1>4, SubSeqProperties
<1>6. Last(kept) = Last(s)
  BY <1>1, <1>3, <1>5 DEF Last
<1>7. QED
  BY <1>3, <1>5, <1>6 DEF m

-----------------------------------------------------------------------------
(* The inductive invariant.                                                *)

(* No chart, or one with the data of a window; the bars on the canvas are  *)
(* those of the ref.  What may be behind depends on what was drawn last:   *)
(* after a tick the numbers, after a navigation which charts there are.    *)
OneAtMost(chart) ==
  \/ chart = [alive |-> 0, data |-> NoData]
  \/ chart.alive = 1 /\ chart.data \in Windows

ChartsSound ==
  /\ \A c \in Chart : OneAtMost(charts[c])
  /\ charts["readWrite"].data = bars
  /\ changed # "live" =>
       \A c \in Chart \ {"readWrite"} : Mounted(c) => charts[c].data = live
  /\ changed \notin {"mount", "page"} =>
       \A c \in Chart : Mounted(c) <=> c \in ChartsOf(page)
  /\ changed = "mount" => \A c \in Chart : ~Mounted(c)

(* The interval that runs is that of the last effect.                      *)
StreamSound ==
  /\ changed = "mount" => stream = <<>>
  /\ changed \notin {"mount", "channels"} => stream = channels

IInv == TypeOK /\ ChartsSound /\ StreamSound

(* The charts, the bars and the interval belong to page p.                 *)
Follows(cs, bs, p, l) ==
  cs = [c \in Chart |-> IF c \notin ChartsOf(p) THEN [alive |-> 0, data |-> NoData]
                        ELSE [alive |-> 1, data |-> IF c = "readWrite" THEN bs ELSE l]]

LEMMA ChartsOfPages ==
  /\ \A p \in Page : ChartsOf(p) \subseteq Chart
  /\ \A p \in Page : "readWrite" \in ChartsOf(p) <=> p = "metrics"
  /\ "readWrite" \in Chart
BY DEF ChartsOf, Page, Chart, DashboardCharts, MetricsCharts, StatCards

(* Whatever was changed, the effects put it right.                         *)
LEMMA SettleFollows ==
  ASSUME IInv, Settle
  PROVE  /\ Follows(charts', bars', page, live)
         /\ bars' \in Windows \cup {NoData} /\ (bars' = NoData <=> page # "metrics")
         /\ stream' = channels
<1> USE DEF IInv
<1>1. bars' \in Windows \cup {NoData} /\ (bars' = NoData <=> page # "metrics")
  <2>1. bars' \in BarsAfter
    BY DEF Settle
  <2>2. bars \in Windows \cup {NoData}
    BY DEF TypeOK
  <2>3. CASE page # "metrics"
    BY <2>1, <2>3 DEF BarsAfter
  <2>4. CASE page = "metrics" /\ bars = NoData
    BY <2>1, <2>4, WindowsHaveData DEF BarsAfter
  <2>5. CASE page = "metrics" /\ bars # NoData /\ changed = "live"
    <3>1. \E sample \in Sample : bars' = Shifted(bars, sample)
      BY <2>1, <2>5 DEF BarsAfter
    <3>2. bars' \in Windows
      BY <2>2, <2>5, <3>1, ShiftedIsWindow
    <3>3. QED
      BY <2>5, <3>2, WindowsHaveData
  <2>6. CASE page = "metrics" /\ bars # NoData /\ changed # "live"
    BY <2>1, <2>2, <2>6 DEF BarsAfter
  <2>7. QED
    BY <2>3, <2>4, <2>5, <2>6
<1>2. Follows(charts', bars', page, live)
  <2>1. page \in Page
    BY DEF TypeOK
  <2>2. charts' = [c \in Chart |-> ChartAfter(c, bars')]
    BY DEF Settle
  <2>3. SUFFICES ASSUME NEW c \in Chart
        PROVE  ChartAfter(c, bars') =
                 IF c \notin ChartsOf(page) THEN [alive |-> 0, data |-> NoData]
                 ELSE [alive |-> 1, data |-> IF c = "readWrite" THEN bars' ELSE live]
    BY <2>2 DEF Follows
  <2>4. /\ OneAtMost(charts[c]) /\ charts[c] \in [alive: Nat, data: Windows \cup {NoData}]
    BY DEF ChartsSound, TypeOK
  <2>5. /\ Mounted(c) => charts[c].alive = 1
        /\ ~Mounted(c) => charts[c] = [alive |-> 0, data |-> NoData]
    BY <2>4, WindowsHaveData DEF OneAtMost, Mounted
  <2>6. CASE c \notin ChartsOf(page)
    <3>1. Mounted(c) => Destroyed(charts[c]) = [alive |-> 0, data |-> NoData]
      BY <2>5 DEF Destroyed
    <3>2. QED
      BY <2>5, <2>6, <3>1 DEF ChartAfter
  <2>7. CASE c \in ChartsOf(page) /\ ~Mounted(c)
    BY <2>5, <2>7 DEF ChartAfter, Created, Plots
  <2>8. CASE c \in ChartsOf(page) /\ Mounted(c) /\ changed = "live"
    <3>1. Updated(charts[c], Plots(c, bars')) = [alive |-> 1, data |-> Plots(c, bars')]
      BY <2>4, <2>5, <2>8 DEF Updated
    <3>2. QED
      BY <2>8, <3>1 DEF ChartAfter, Plots
  <2>9. CASE c \in ChartsOf(page) /\ Mounted(c) /\ changed # "live"
    <3>1. charts[c] = [alive |-> 1, data |-> charts[c].data]
      BY <2>4, <2>5, <2>9
    <3>2. CASE c # "readWrite"
      <4>1. charts[c].data = live
        BY <2>9, <3>2 DEF ChartsSound
      <4>2. QED
        BY <2>9, <3>1, <3>2, <4>1 DEF ChartAfter
    <3>3. CASE c = "readWrite"
      <4>1. page = "metrics" /\ bars # NoData /\ charts[c].data = bars
        BY <2>1, <2>9, <3>3, ChartsOfPages DEF ChartsSound, Mounted
      <4>2. bars' = bars
        BY <2>9, <4>1 DEF Settle, BarsAfter
      <4>3. QED
        BY <2>9, <3>1, <3>3, <4>1, <4>2 DEF ChartAfter
    <3>4. QED
      BY <3>2, <3>3
  <2>10. QED
    BY <2>6, <2>7, <2>8, <2>9
<1>3. stream' = channels
  BY DEF Settle, StreamAfter, StreamSound
<1>4. QED
  BY <1>1, <1>2, <1>3

(* Charts in step with their page are sound, whatever is drawn next: after *)
(* a tick the same page has new numbers, after a navigation another page   *)
(* has the same numbers, after anything else neither is new.               *)
LEMMA FollowingIsSound ==
  ASSUME page \in Page, page' \in Page, live \in Windows,
         Follows(charts', bars', page, live),
         bars' \in Windows \cup {NoData}, bars' = NoData <=> page # "metrics",
         changed' # "mount",
         changed' # "live" => live' = live,
         changed' # "page" => page' = page
  PROVE  ChartsSound' /\ charts' \in [Chart -> [alive: Nat, data: Windows \cup {NoData}]]
<1> DEFINE off == [alive |-> 0, data |-> NoData]
           on(c) == [alive |-> 1, data |-> IF c = "readWrite" THEN bars' ELSE live]
<1>1. charts' = [c \in Chart |-> IF c \notin ChartsOf(page) THEN off ELSE on(c)]
  BY DEF Follows
<1>2. \A c \in ChartsOf(page) : on(c).data \in Windows
  BY ChartsOfPages
<1>3. \A c \in Chart : /\ c \notin ChartsOf(page) => charts'[c] = off
                       /\ c \in ChartsOf(page) => charts'[c] = on(c)
  BY <1>1
<1>4. \A c \in Chart : OneAtMost(charts'[c])
  <2>1. SUFFICES ASSUME NEW c \in Chart PROVE OneAtMost(charts'[c])
    OBVIOUS
  <2>2. CASE c \in ChartsOf(page)
    <3>1. charts'[c] = on(c) /\ on(c).alive = 1
      BY <1>3, <2>2
    <3>2. QED
      BY <1>2, <2>2, <3>1 DEF OneAtMost
  <2>3. CASE c \notin ChartsOf(page)
    BY <1>3, <2>3 DEF OneAtMost
  <2>4. QED
    BY <2>2, <2>3
<1>5. charts' \in [Chart -> [alive: Nat, data: Windows \cup {NoData}]]
  BY <1>1, <1>2
<1>6. \A c \in Chart :
        charts'[c].data = IF c \notin ChartsOf(page) THEN NoData
                          ELSE IF c = "readWrite" THEN bars' ELSE live
  <2>1. off.data = NoData /\ \A c \in Chart : on(c).data = IF c = "readWrite" THEN bars' ELSE live
    OBVIOUS
  <2> HIDE DEF off, on
  <2>2. QED
    BY <1>3, <2>1
<1> HIDE DEF off, on
<1>7. charts'["readWrite"].data = bars'
  BY <1>6, ChartsOfPages
<1>8. \A c \in Chart : (charts'[c].data # NoData) <=> c \in ChartsOf(page)
  BY <1>6, WindowsHaveData, ChartsOfPages
<1>9. changed' # "live" =>
        \A c \in Chart \ {"readWrite"} : charts'[c].data # NoData => charts'[c].data = live'
  BY <1>6
<1>10. changed' # "page" =>
        \A c \in Chart : (charts'[c].data # NoData) <=> c \in ChartsOf(page')
  BY <1>8
<1>11. (\A c \in Chart : OneAtMost(charts[c]))'
  BY <1>4 DEF OneAtMost, Windows
<1>12. QED
  BY <1>5, <1>7, <1>9, <1>10, <1>11 DEF ChartsSound, Mounted

LEMMA InitIInv == Init => IInv
<1>1. SUFFICES ASSUME Init PROVE IInv
  OBVIOUS
<1>2. charts \in [Chart -> [alive: Nat, data: Windows \cup {NoData}]]
  BY <1>1 DEF Init
<1>3. First \in Seq(Channel) /\ IsInjective(First) /\ MaxEvents \in Nat /\ MsgCap \in Nat
  BY PagesAssumption
<1>4. TypeOK
  <2>1. page \in Page /\ type \in Type \cup {"all"}
    BY <1>1 DEF Init, Page, Type
  <2>2. stream \in Seq(Channel) /\ messages \in Seq(Channel) /\ Len(messages) <= MsgCap
    BY <1>1, <1>3 DEF Init
  <2>3. channels \in Seq(Channel) /\ IsInjective(channels)
    BY <1>1, <1>3 DEF Init
  <2>4. QED
    BY <1>1, <1>2, <1>3, <2>1, <2>2, <2>3 DEF Init, TypeOK
<1>5. ChartsSound
  <2>1. \A c \in Chart : charts[c] = [alive |-> 0, data |-> NoData]
    BY <1>1 DEF Init
  <2>2. bars = NoData /\ changed = "mount"
    BY <1>1 DEF Init
  <2>3. QED
    BY <2>1, <2>2, ChartsOfPages DEF ChartsSound, OneAtMost, Mounted
<1>6. StreamSound
  BY <1>1 DEF Init, StreamSound
<1>7. QED
  BY <1>4, <1>5, <1>6 DEF IInv

-----------------------------------------------------------------------------
(* The steps.                                                              *)

(* The variables an effect does not write, with their types.               *)
RestOK ==
  /\ page \in Page
  /\ search \in Query \cup {<<>>} /\ local \in Query \cup {<<>>} /\ type \in Type \cup {"all"}
  /\ live \in Windows
  /\ channels \in Seq(Channel) /\ IsInjective(channels)
  /\ messages \in Seq(Channel) /\ Len(messages) <= MsgCap
  /\ changed \in {"nothing", "mount", "page", "live", "search", "channels", "messages"}
  /\ events \in 0 .. MaxEvents

(* A step that settles the effects and says truly what it changes keeps    *)
(* the invariant.                                                          *)
LEMMA DrawingKeepsIInv ==
  ASSUME IInv, Settle, RestOK', changed' # "mount",
         changed' # "live" => live' = live,
         changed' # "page" => page' = page,
         changed' # "channels" => channels' = channels
  PROVE  IInv'
<1>1. /\ Follows(charts', bars', page, live)
      /\ bars' \in Windows \cup {NoData} /\ (bars' = NoData <=> page # "metrics")
      /\ stream' = channels
  BY SettleFollows
<1>2. page \in Page /\ page' \in Page /\ live \in Windows /\ channels \in Seq(Channel)
  BY DEF IInv, TypeOK, RestOK
<1>3. ChartsSound' /\ charts' \in [Chart -> [alive: Nat, data: Windows \cup {NoData}]]
  BY <1>1, <1>2, FollowingIsSound
<1>4. TypeOK'
  BY <1>1, <1>2, <1>3 DEF RestOK, TypeOK
<1>5. StreamSound'
  BY <1>1 DEF StreamSound
<1>6. QED
  BY <1>3, <1>4, <1>5 DEF IInv

LEMMA NextIInv == IInv /\ [Next]_vars => IInv'
<1>1. SUFFICES ASSUME IInv, [Next]_vars PROVE IInv'
  OBVIOUS
<1> USE DEF searching, pubsub, Event, Draw
<1>2. RestOK
  BY <1>1 DEF IInv, TypeOK, RestOK
<1>3. MaxEvents \in Nat /\ MsgCap \in Nat \ {0}
  BY PagesAssumption
<1>4. ASSUME Event PROVE events' \in 0 .. MaxEvents
  BY <1>2, <1>3, <1>4 DEF RestOK
<1>5. CASE Flush
  <2>1. RestOK'
    BY <1>2, <1>5 DEF Flush, RestOK
  <2>2. QED
    BY <1>1, <1>5, <2>1, DrawingKeepsIInv DEF Flush
<1>6. CASE Tick
  <2>1. live' \in Windows
    BY <1>2, <1>6, ShiftedIsWindow DEF Tick, RestOK
  <2>2. RestOK'
    BY <1>2, <1>6, <2>1 DEF Tick, RestOK
  <2>3. QED
    BY <1>1, <1>6, <2>2, DrawingKeepsIInv DEF Tick
<1>7. CASE Navigate
  <2>1. RestOK'
    BY <1>2, <1>4, <1>7 DEF Navigate, Show, RestOK
  <2>2. QED
    BY <1>1, <1>7, <2>1, DrawingKeepsIInv DEF Navigate, Show
<1>8. CASE ChangeSearch
  <2>1. search' \in Query \cup {<<>>} /\ page' \in Page
    BY <1>2, <1>8 DEF ChangeSearch, Show, RestOK, Page
  <2>2. RestOK'
    BY <1>2, <1>4, <1>8, <2>1 DEF ChangeSearch, Show, RestOK
  <2>3. /\ Settle /\ live' = live /\ channels' = channels
        /\ changed' \in {"page", "search"}
        /\ changed' # "page" => page' = page
    BY <1>8 DEF ChangeSearch, Show
  <2>4. QED
    BY <1>1, <2>2, <2>3, DrawingKeepsIInv
<1>9. CASE ChangeLocal
  <2>1. RestOK'
    BY <1>2, <1>4, <1>9 DEF ChangeLocal, RestOK
  <2>2. QED
    BY <1>1, <1>9, <2>1, DrawingKeepsIInv DEF ChangeLocal
<1>10. CASE ChooseType
  <2>1. RestOK'
    BY <1>2, <1>4, <1>10 DEF ChooseType, RestOK
  <2>2. QED
    BY <1>1, <1>10, <2>1, DrawingKeepsIInv DEF ChooseType
<1>11. CASE Subscribe
  <2>1. channels' \in Seq(Channel) /\ IsInjective(channels')
    BY <1>2, <1>11, AppendedInjective DEF Subscribe, RestOK
  <2>2. RestOK'
    BY <1>2, <1>4, <1>11, <2>1 DEF Subscribe, RestOK
  <2>3. QED
    BY <1>1, <1>11, <2>2, DrawingKeepsIInv DEF Subscribe
<1>12. CASE Unsubscribe
  <2>1. channels' \in Seq(Channel) /\ IsInjective(channels')
    <3>1. PICK i \in DOMAIN channels : channels' = RemoveAt(channels, i)
      BY <1>12 DEF Unsubscribe
    <3>2. i \in 1 .. Len(channels)
      BY <1>2, <3>1 DEF RestOK
    <3>3. QED
      BY <1>2, <3>1, <3>2, RemovedInjective DEF RestOK
  <2>2. RestOK'
    BY <1>2, <1>4, <1>12, <2>1 DEF Unsubscribe, RestOK
  <2>3. QED
    BY <1>1, <1>12, <2>2, DrawingKeepsIInv DEF Unsubscribe
<1>13. CASE Message
  <2>1. PICK ch \in Range(stream) :
          messages' = SubSeq(Append(messages, ch),
                             Max({1, Len(Append(messages, ch)) - MsgCap + 1}),
                             Len(Append(messages, ch)))
    BY <1>13 DEF Message
  <2>2. ch \in Channel
    BY <1>1 DEF IInv, TypeOK, Range
  <2>3. Append(messages, ch) \in Seq(Channel) /\ Append(messages, ch) # <<>>
    BY <1>2, <2>2, AppendProperties DEF RestOK
  <2>4. messages' \in Seq(Channel) /\ Len(messages') <= MsgCap
    BY <1>3, <2>1, <2>3, NewestKept
  <2>5. RestOK'
    BY <1>2, <1>13, <2>4 DEF Message, RestOK
  <2>6. QED
    BY <1>1, <1>13, <2>5, DrawingKeepsIInv DEF Message
<1>14. CASE UNCHANGED vars
  BY <1>1, <1>14 DEF vars, effects, IInv, TypeOK, ChartsSound, StreamSound, Mounted, OneAtMost
<1>15. QED
  BY <1>1, <1>5, <1>6, <1>7, <1>8, <1>9, <1>10, <1>11, <1>12, <1>13, <1>14 DEF Next

LEMMA SpecIInv == Spec => []IInv
BY InitIInv, NextIInv, PTL DEF Spec

-----------------------------------------------------------------------------
(* The theorems.                                                           *)

(* Every variable of the pages has its type, whatever the sizes: channels  *)
(* stay distinct, and the list of messages within its limit.               *)
THEOREM TypeCorrect == Spec => []TypeOK
<1>1. IInv => TypeOK
  BY DEF IInv
<1>2. QED
  BY <1>1, SpecIInv, PTL

(* For windows of any length and any navigation, each canvas of the page   *)
(* has one chart with the numbers of now, and other pages have none.       *)
THEOREM ChartsInStep == Spec => []ChartsFollow
<1>1. IInv => ChartsFollow
  <2>1. SUFFICES ASSUME IInv, changed = "nothing", NEW c \in Chart
        PROVE  charts[c] = IF c \in ChartsOf(page) THEN [alive |-> 1, data |-> Plots(c, bars)]
                           ELSE [alive |-> 0, data |-> NoData]
    BY DEF ChartsFollow
  <2>2. charts[c] \in [alive: Nat, data: Windows \cup {NoData}] /\ OneAtMost(charts[c])
    BY <2>1 DEF IInv, TypeOK, ChartsSound
  <2>3. Mounted(c) <=> c \in ChartsOf(page)
    BY <2>1 DEF IInv, ChartsSound
  <2>4. CASE Mounted(c)
    <3>1. charts[c].alive = 1
      BY <2>2, <2>4 DEF OneAtMost, Mounted
    <3>2. charts[c].data = Plots(c, bars)
      BY <2>1, <2>4 DEF IInv, ChartsSound, Plots
    <3>3. QED
      BY <2>2, <2>3, <2>4, <3>1, <3>2
  <2>5. CASE ~Mounted(c)
    BY <2>2, <2>3, <2>5, WindowsHaveData DEF OneAtMost, Mounted
  <2>6. QED
    BY <2>4, <2>5
<1>2. QED
  BY <1>1, SpecIInv, PTL

(* For any channels and any order of clicks and timers, a message that     *)
(* arrives is for a channel that is subscribed, unless a click on the      *)
(* channels has yet to have its effect.                                    *)
THEOREM NothingFromTheLeft == Spec => OnlySubscribedArrive
<1> DEFINE Arrives == messages' # messages /\ changed # "channels" => Last(messages') \in Range(channels)
<1>1. IInv /\ [Next]_vars => [Arrives]_vars
  <2>1. SUFFICES ASSUME IInv, Next, messages' # messages, changed # "channels"
        PROVE  Last(messages') \in Range(channels)
    OBVIOUS
  <2>2. Message
    BY <2>1 DEF Next, Flush, Tick, Navigate, ChangeSearch, ChangeLocal, ChooseType,
                Subscribe, Unsubscribe, pubsub
  <2>3. PICK ch \in Range(stream) :
          messages' = SubSeq(Append(messages, ch),
                             Max({1, Len(Append(messages, ch)) - MsgCap + 1}),
                             Len(Append(messages, ch)))
    BY <2>2 DEF Message
  <2>4. ch \in Channel /\ messages \in Seq(Channel)
    BY <2>1 DEF IInv, TypeOK, Range
  <2>5. /\ Append(messages, ch) \in Seq(Channel) /\ Append(messages, ch) # <<>>
        /\ Last(Append(messages, ch)) = ch
    BY <2>4, AppendProperties DEF Last
  <2>6. Last(messages') = ch
    BY <2>3, <2>5, NewestKept, PagesAssumption
  <2>7. stream = channels
    <3>1. stream # <<>>
      BY <2>3 DEF Range
    <3>2. QED
      BY <2>1, <3>1 DEF IInv, StreamSound
  <2>8. QED
    BY <2>3, <2>6, <2>7
<1>2. QED
  BY <1>1, SpecIInv, PTL DEF Spec, OnlySubscribedArrive

-----------------------------------------------------------------------------
(* Induction, and the first of some places.                                *)

LEMMA NatSets ==
  ASSUME NEW S \in SUBSET Nat, 0 \in S, \A n \in S : n + 1 \in S
  PROVE  Nat \subseteq S
<1> SUFFICES ASSUME NEW n \in Nat, n \notin S PROVE FALSE
  OBVIOUS
<1> DEFINE U == S \cap (0 .. n)
           f == [x \in U |-> x + 1]
<1>1. U \subseteq 0 .. n /\ 0 \in U /\ IsFiniteSet(0 .. n)
  BY FS_Interval
<1>2. IsFiniteSet(U) /\ IsFiniteSet(U \ {0})
  BY <1>1, FS_Subset
<1>3. Cardinality(U \ {0}) < Cardinality(U)
  <2>1. Cardinality(U) \in Nat /\ Cardinality(U \ {0}) = Cardinality(U) - 1
    BY <1>1, <1>2, FS_RemoveElement, FS_CardinalityType
  <2>2. QED
    BY <2>1
<1>4. f \in [U -> U \ {0}]
  OBVIOUS
<1>5. \A x, y \in U : f[x] = f[y] => x = y
  OBVIOUS
<1> HIDE DEF U, f
<1>6. QED
  BY <1>2, <1>3, <1>4, <1>5, FS_PigeonHole

LEMMA MinOf ==
  ASSUME NEW s \in SUBSET Nat, s # {}
  PROVE  Min(s) \in s /\ \A y \in s : Min(s) <= y
<1> DEFINE N == {n \in Nat : \A y \in s : y >= n}
<1>1. 0 \in N
  OBVIOUS
<1>2. \E n \in N : n + 1 \notin N
  <2>1. SUFFICES ASSUME \A n \in N : n + 1 \in N PROVE FALSE
    OBVIOUS
  <2>2. PICK y \in s : TRUE
    OBVIOUS
  <2>3. N \in SUBSET Nat /\ y + 1 \in Nat /\ y + 1 \notin N
    BY <2>2
  <2> HIDE DEF N
  <2>4. QED
    BY <1>1, <2>1, <2>3, NatSets
<1>3. \E x \in s : \A y \in s : x <= y
  BY <1>2
<1>4. QED
  BY <1>3 DEF Min

-----------------------------------------------------------------------------
(* Lower case.                                                             *)

(* g has the lower case of the first letters of a text.                    *)
IsLowering(g, text) ==
  /\ g[0] = <<>>
  /\ \A i \in 1 .. Len(text) : g[i] = g[i - 1] \o Lower[text[i]]

(* FlattenSeq is a recursive function; that there is one is shown by       *)
(* induction.                                                              *)
IsFlattening(h, n, seqs) ==
  h = [i \in 1 .. n |-> IF i = 1 THEN seqs[i] ELSE h[i - 1] \o seqs[i]]

LEMMA FlatteningExists ==
  ASSUME NEW seqs, NEW n \in Nat
  PROVE  \E h : IsFlattening(h, n, seqs)
<1> DEFINE N == {m \in Nat : \E h : IsFlattening(h, m, seqs)}
<1>1. 0 \in N
  <2> DEFINE h == [i \in 1 .. 0 |-> <<>>]
  <2>1. h = [i \in 1 .. 0 |-> IF i = 1 THEN seqs[i] ELSE h[i - 1] \o seqs[i]]
    OBVIOUS
  <2> HIDE DEF h
  <2>2. QED
    BY <2>1 DEF IsFlattening
<1>2. ASSUME NEW m \in N PROVE m + 1 \in N
  <2>1. PICK h : IsFlattening(h, m, seqs)
    OBVIOUS
  <2> DEFINE last == IF m + 1 = 1 THEN seqs[m + 1] ELSE h[m] \o seqs[m + 1]
             g == [i \in 1 .. m + 1 |-> IF i = m + 1 THEN last ELSE h[i]]
  <2>2. ASSUME NEW i \in 1 .. m + 1
        PROVE  g[i] = IF i = 1 THEN seqs[i] ELSE g[i - 1] \o seqs[i]
    <3>1. CASE i = m + 1
      <4>1. i # 1 => g[i - 1] = h[m]
        BY <3>1
      <4>2. g[i] = last
        BY <3>1
      <4> HIDE DEF g
      <4>3. QED
        BY <3>1, <4>1, <4>2
    <3>2. CASE i # m + 1
      <4>1. i \in 1 .. m /\ g[i] = h[i] /\ (i # 1 => g[i - 1] = h[i - 1])
        BY <3>2
      <4>2. h[i] = IF i = 1 THEN seqs[i] ELSE h[i - 1] \o seqs[i]
        BY <2>1, <4>1 DEF IsFlattening
      <4> HIDE DEF g
      <4>3. QED
        BY <4>1, <4>2
    <3>3. QED
      BY <3>1, <3>2
  <2>3. g = [i \in 1 .. m + 1 |-> g[i]]
    OBVIOUS
  <2> HIDE DEF g
  <2>4. IsFlattening(g, m + 1, seqs)
    BY <2>2, <2>3 DEF IsFlattening
  <2>5. QED
    BY <2>4
<1>3. n \in N
  <2>1. N \in SUBSET Nat
    OBVIOUS
  <2> HIDE DEF N
  <2>2. QED
    BY <1>1, <1>2, <2>1, NatSets
<1>4. QED
  BY <1>3

LEMMA LoweringExists ==
  ASSUME NEW text \in Seq(Letter)
  PROVE  \E g : IsLowering(g, text) /\ Lowered(text) = g[Len(text)]
<1> DEFINE n == Len(text)
           seqs == [i \in DOMAIN text |-> Lower[text[i]]]
           flatten == CHOOSE h : IsFlattening(h, n, seqs)
           g == [i \in 0 .. n |-> IF i = 0 THEN <<>> ELSE flatten[i]]
<1>1. n \in Nat /\ DOMAIN text = 1 .. n /\ \A i \in 1 .. n : text[i] \in Letter
  OBVIOUS
<1>2. Len(seqs) = n /\ \A i \in 1 .. n : seqs[i] = Lower[text[i]]
  BY <1>1
<1>3. IsFlattening(flatten, n, seqs)
  BY <1>1, FlatteningExists
<1>4. Lowered(text) = g[n]
  <2>1. Lowered(text) = FlattenSeq(seqs)
    BY DEF Lowered
  <2>2. CASE n = 0
    <3>1. seqs = <<>>
      BY <1>1, <2>2
    <3>2. FlattenSeq(seqs) = <<>>
      BY <1>2, <2>2, <3>1 DEF FlattenSeq
    <3>3. QED
      BY <2>1, <2>2, <3>2
  <2>3. CASE n # 0
    <3>1. FlattenSeq(seqs) = flatten[n]
      BY <1>2, <2>3 DEF FlattenSeq, IsFlattening
    <3>2. QED
      BY <1>1, <2>1, <2>3, <3>1
  <2>4. QED
    BY <2>2, <2>3
<1>5. ASSUME NEW i \in 1 .. n PROVE g[i] = g[i - 1] \o Lower[text[i]]
  <2>1. flatten[i] = IF i = 1 THEN seqs[i] ELSE flatten[i - 1] \o seqs[i]
    BY <1>3 DEF IsFlattening
  <2>2. seqs[i] = Lower[text[i]] /\ Lower[text[i]] \in Seq(Letter)
    BY <1>1, <1>2, PagesAssumption
  <2>3. i \in 0 .. n /\ i - 1 \in 0 .. n /\ i # 0 /\ (i = 1 <=> i - 1 = 0)
    BY <1>1
  <2>4. g[i] = flatten[i] /\ g[i - 1] = IF i = 1 THEN <<>> ELSE flatten[i - 1]
    <3> HIDE DEF flatten, n
    <3>1. QED
      BY <2>3
  <2> HIDE DEF flatten, seqs, g
  <2>5. CASE i = 1
    BY <2>1, <2>2, <2>4, <2>5, ConcatEmptySeq
  <2>6. CASE i # 1
    BY <2>1, <2>2, <2>4, <2>6
  <2>7. QED
    BY <2>5, <2>6
<1>6. g[0] = <<>>
  BY <1>1
<1> HIDE DEF g, n
<1>7. QED
  BY <1>4, <1>5, <1>6 DEF IsLowering, n

(* The lower case of a text is as long as the text just if each letter has *)
(* a lower case of one; then letter stands below letter.                   *)
Single(text, n) == \A j \in 1 .. n : Len(Lower[text[j]]) = 1

Below(low, text, n) ==
  /\ low \in Seq(Letter) /\ Len(low) >= n
  /\ Len(low) = n => Single(text, n)
  /\ Single(text, n) => Len(low) = n /\ \A j \in 1 .. n : low[j] = Lower[text[j]][1]

LEMMA LoweredLetter ==
  ASSUME NEW text \in Seq(Letter), NEW i \in Nat, i + 1 <= Len(text),
         NEW low, Below(low, text, i)
  PROVE  Below(low \o Lower[text[i + 1]], text, i + 1)
<1> DEFINE l == Lower[text[i + 1]]
           next == low \o l
<1>1. l \in Seq(Letter) /\ l # <<>>
  <2>1. text[i + 1] \in Letter
    OBVIOUS
  <2>2. QED
    BY <2>1, PagesAssumption
<1>2. Len(l) \in Nat \ {0} /\ low \in Seq(Letter) /\ Len(low) \in Nat /\ Len(low) >= i
  BY <1>1, EmptySeq DEF Below
<1> HIDE DEF l
<1>3. /\ next \in Seq(Letter) /\ Len(next) = Len(low) + Len(l)
      /\ \A j \in 1 .. Len(low) + Len(l) : next[j] = IF j <= Len(low) THEN low[j] ELSE l[j - Len(low)]
  BY <1>1, <1>2, ConcatProperties
<1> HIDE DEF next
<1>4. Single(text, i + 1) <=> Single(text, i) /\ Len(l) = 1
  <2>1. \A j \in 1 .. i + 1 : j \in 1 .. i \/ j = i + 1
    OBVIOUS
  <2>2. 1 .. i \subseteq 1 .. i + 1 /\ i + 1 \in 1 .. i + 1
    OBVIOUS
  <2>3. QED
    BY <2>1, <2>2 DEF Single, l
<1>5. Len(next) >= i + 1
  BY <1>2, <1>3
<1>6. ASSUME Len(next) = i + 1 PROVE Single(text, i + 1)
  <2>1. Len(low) = i /\ Len(l) = 1
    <3>1. Len(low) + Len(l) = i + 1
      BY <1>3, <1>6
    <3>2. \A m \in Nat, n \in Nat \ {0} : m >= i /\ m + n = i + 1 => m = i /\ n = 1
      OBVIOUS
    <3>3. QED
      BY <1>2, <3>1, <3>2
  <2>2. QED
    BY <1>4, <2>1 DEF Below
<1>7. ASSUME Single(text, i + 1)
      PROVE  Len(next) = i + 1 /\ \A j \in 1 .. i + 1 : next[j] = Lower[text[j]][1]
  <2>1. Len(l) = 1 /\ Len(low) = i /\ \A j \in 1 .. i : low[j] = Lower[text[j]][1]
    BY <1>4, <1>7 DEF Below
  <2>2. ASSUME NEW j \in 1 .. i + 1 PROVE next[j] = Lower[text[j]][1]
    <3>1. next[j] = IF j <= i THEN low[j] ELSE l[j - i]
      BY <1>3, <2>1
    <3>2. CASE j <= i
      BY <2>1, <3>1, <3>2
    <3>3. CASE j = i + 1
      BY <3>1, <3>3 DEF l
    <3>4. QED
      BY <3>2, <3>3
  <2>3. QED
    BY <1>3, <2>1, <2>2
<1>8. QED
  BY <1>3, <1>5, <1>6, <1>7 DEF Below, next, l

LEMMA LoweredBelow ==
  ASSUME NEW text \in Seq(Letter)
  PROVE  Below(Lowered(text), text, Len(text))
<1>1. PICK g : IsLowering(g, text) /\ Lowered(text) = g[Len(text)]
  BY LoweringExists
<1> DEFINE N == {i \in Nat : i <= Len(text) => Below(g[i], text, i)}
<1>2. 0 \in N
  <2>1. g[0] = <<>> /\ <<>> \in Seq(Letter) /\ Len(<<>>) = 0 /\ 1 .. 0 = {}
    BY <1>1, EmptySeq DEF IsLowering
  <2>2. Below(g[0], text, 0)
    BY <2>1 DEF Below, Single
  <2>3. QED
    BY <2>2
<1>3. ASSUME NEW i \in N PROVE i + 1 \in N
  <2> SUFFICES ASSUME i + 1 <= Len(text) PROVE Below(g[i + 1], text, i + 1)
    OBVIOUS
  <2>1. i \in Nat /\ Below(g[i], text, i) /\ Len(text) \in Nat
    OBVIOUS
  <2>2. g[i + 1] = g[i] \o Lower[text[i + 1]]
    <3>1. i + 1 \in 1 .. Len(text) /\ (i + 1) - 1 = i
      BY <2>1
    <3>2. g[i + 1] = g[(i + 1) - 1] \o Lower[text[i + 1]]
      BY <1>1, <3>1 DEF IsLowering
    <3>3. QED
      BY <3>1, <3>2
  <2> HIDE DEF N
  <2>3. QED
    BY <2>1, <2>2, LoweredLetter
<1>4. Len(text) \in N
  <2>1. N \in SUBSET Nat /\ Len(text) \in Nat
    OBVIOUS
  <2> HIDE DEF N
  <2>2. QED
    BY <1>2, <1>3, <2>1, NatSets
<1>5. QED
  BY <1>1, <1>4

-----------------------------------------------------------------------------
(* The parts of a key.                                                     *)

LEMMA MinOfTwo ==
  ASSUME NEW m \in Nat, NEW n \in Nat
  PROVE  Min({m, n}) = IF m <= n THEN m ELSE n
<1>1. Min({m, n}) \in {m, n} /\ \A y \in {m, n} : Min({m, n}) <= y
  BY MinOf
<1>2. QED
  BY <1>1

(* A part of a text, behind its first letters.                             *)
IsPart(part, text, from) ==
  part \in Seq(Letter) /\ \A i \in 1 .. Len(part) : part[i] = text[from + i]

LEMMA SliceIs ==
  ASSUME NEW text \in Seq(Letter), NEW from \in Nat, NEW to \in Nat
  PROVE  /\ IsPart(Slice(text, from, to), text, from)
         /\ to <= Len(text) => Len(Slice(text, from, to)) = IF from <= to THEN to - from ELSE 0
         /\ to > Len(text) => Len(Slice(text, from, to)) = IF from <= Len(text) THEN Len(text) - from ELSE 0
<1> DEFINE end == IF to <= Len(text) THEN to ELSE Len(text)
           part == SubSeq(text, from + 1, end)
<1>1. end \in Nat /\ end <= Len(text) /\ Slice(text, from, to) = part
  BY MinOfTwo DEF Slice
<1>2. \A i \in from + 1 .. end : text[i] \in Letter
  BY <1>1
<1>3. (to <= Len(text) => end = to) /\ (to > Len(text) => end = Len(text))
  OBVIOUS
<1> HIDE DEF end
<1>4. /\ part \in Seq(Letter)
      /\ Len(part) = IF from + 1 <= end THEN end - (from + 1) + 1 ELSE 0
      /\ \A i \in 1 .. end - (from + 1) + 1 : part[i] = text[(from + 1) + i - 1]
  BY <1>1, <1>2, SubSeqProperties
<1> HIDE DEF part
<1>5. Len(part) = IF from <= end THEN end - from ELSE 0
  BY <1>1, <1>4
<1>6. \A i \in 1 .. Len(part) : part[i] = text[from + i]
  BY <1>1, <1>4
<1>7. IsPart(part, text, from)
  BY <1>4, <1>6 DEF IsPart
<1>8. QED
  BY <1>1, <1>3, <1>5, <1>7

LEMMA JoinedIs ==
  ASSUME NEW text, NEW a, IsPart(a, text, 0), NEW b, IsPart(b, text, Len(a))
  PROVE  IsPart(a \o b, text, 0) /\ Len(a \o b) = Len(a) + Len(b)
<1> DEFINE ab == a \o b
<1>1. /\ ab \in Seq(Letter) /\ Len(ab) = Len(a) + Len(b)
      /\ \A i \in 1 .. Len(a) + Len(b) : ab[i] = IF i <= Len(a) THEN a[i] ELSE b[i - Len(a)]
  BY ConcatProperties DEF IsPart
<1>2. Len(a) \in Nat /\ Len(b) \in Nat
  BY DEF IsPart
<1> HIDE DEF ab
<1>3. ASSUME NEW i \in 1 .. Len(ab) PROVE ab[i] = text[0 + i]
  <2>1. i \in 1 .. Len(a) + Len(b)
    BY <1>1
  <2>2. CASE i <= Len(a)
    <3>1. i \in 1 .. Len(a) /\ ab[i] = a[i]
      BY <1>1, <1>2, <2>1, <2>2
    <3>2. QED
      BY <3>1 DEF IsPart
  <2>3. CASE i > Len(a)
    <3>1. i - Len(a) \in 1 .. Len(b) /\ Len(a) + (i - Len(a)) = i /\ 0 + i = i
      BY <1>2, <2>1, <2>3
    <3>2. ab[i] = b[i - Len(a)]
      BY <1>1, <1>2, <2>1, <2>3
    <3>3. b[i - Len(a)] = text[Len(a) + (i - Len(a))]
      BY <3>1 DEF IsPart
    <3>4. QED
      BY <3>1, <3>2, <3>3
  <2>4. QED
    BY <1>2, <2>1, <2>2, <2>3
<1>4. QED
  BY <1>1, <1>3 DEF ab, IsPart

(* Wherever the text is cut, the parts make the text.                      *)
LEMMA PartsMakeTheText ==
  ASSUME NEW text \in Seq(Letter), NEW at \in Nat, NEW length \in Nat
  PROVE  LET parts == Cut(text, at, length) IN parts[1] \o parts[2] \o parts[3] = text
<1> DEFINE n == Len(text)
           to == at + length
           a == Slice(text, 0, at)
           b == Slice(text, at, to)
           c == Slice(text, to, n)
<1>1. n \in Nat /\ to \in Nat /\ at <= to /\ 0 <= at /\ n <= n
  OBVIOUS
<1> HIDE DEF to
<1>2. /\ IsPart(a, text, 0) /\ IsPart(b, text, at) /\ IsPart(c, text, to)
      /\ Len(a) = IF at <= n THEN at ELSE n
      /\ Len(b) = IF to <= n THEN to - at ELSE IF at <= n THEN n - at ELSE 0
      /\ Len(c) = IF to <= n THEN n - to ELSE 0
  <2>1. /\ IsPart(a, text, 0)
        /\ at <= n => Len(a) = IF 0 <= at THEN at - 0 ELSE 0
        /\ at > n => Len(a) = IF 0 <= n THEN n - 0 ELSE 0
    BY <1>1, SliceIs
  <2>2. /\ IsPart(b, text, at)
        /\ to <= n => Len(b) = IF at <= to THEN to - at ELSE 0
        /\ to > n => Len(b) = IF at <= n THEN n - at ELSE 0
    BY <1>1, SliceIs
  <2>3. /\ IsPart(c, text, to)
        /\ n <= n => Len(c) = IF to <= n THEN n - to ELSE 0
    BY <1>1, SliceIs
  <2> HIDE DEF a, b, c, n
  <2>4. QED
    BY <1>1, <2>1, <2>2, <2>3
<1> DEFINE ab == a \o b
<1> HIDE DEF a, b, c
<1>3. IsPart(b, text, Len(a))
  <2>1. CASE at <= n
    BY <1>2, <2>1
  <2>2. CASE at > n
    <3> HIDE DEF n
    <3>1. Len(b) = 0
      BY <1>1, <1>2, <2>2
    <3>2. QED
      BY <1>2, <3>1 DEF IsPart
  <2>3. QED
    BY <1>1, <2>1, <2>2
<1>4. IsPart(ab, text, 0) /\ Len(ab) = Len(a) + Len(b)
  BY <1>2, <1>3, JoinedIs
<1> HIDE DEF ab
<1>5. Len(ab) = IF to <= n THEN to ELSE n
  <2> HIDE DEF n
  <2>1. QED
    BY <1>1, <1>2, <1>4
<1>6. IsPart(c, text, Len(ab))
  <2>1. CASE to <= n
    BY <1>2, <1>5, <2>1
  <2>2. CASE to > n
    <3> HIDE DEF n
    <3>1. Len(c) = 0
      BY <1>1, <1>2, <2>2
    <3>2. QED
      BY <1>2, <3>1 DEF IsPart
  <2>3. QED
    BY <1>1, <2>1, <2>2
<1>7. IsPart(ab \o c, text, 0) /\ Len(ab \o c) = Len(ab) + Len(c)
  BY <1>4, <1>6, JoinedIs
<1>8. Len(ab) + Len(c) = n
  <2> HIDE DEF n
  <2>1. QED
    BY <1>1, <1>2, <1>5
<1>9. ab \o c = text
  <2>1. \A i \in 1 .. Len(ab \o c) : (ab \o c)[i] = text[i]
    BY <1>1, <1>7, <1>8 DEF IsPart
  <2>2. ab \o c \in Seq(Letter) /\ Len(ab \o c) = Len(text)
    BY <1>7, <1>8 DEF IsPart
  <2>3. QED
    BY <2>1, <2>2, SeqEqual
<1>10. QED
  BY <1>9 DEF ab, Cut, a, b, c, n, to

LEMMA ActiveIsText ==
  ASSUME TypeOK
  PROVE  ActiveSearch \in Seq(Letter)
<1>1. search \in Query \cup {<<>>} /\ local \in Query \cup {<<>>}
  BY DEF TypeOK
<1>2. Query \cup {<<>>} \subseteq Seq(Letter)
  BY PagesAssumption, EmptySeq
<1>3. QED
  BY <1>1, <1>2 DEF ActiveSearch

LEMMA LowerOfPart ==
  ASSUME NEW text \in Seq(Letter), SameLength(text), NEW query \in Seq(Letter), SameLength(query),
         NEW at \in Places(Lowered(text), Lowered(query)),
         NEW part \in Seq(Letter), Len(part) = Len(query),
         \A i \in 1 .. Len(query) : part[i] = text[at + i]
  PROVE  Lowered(part) = Lowered(query)
<1> DEFINE low == Lowered(text)
           sought == Lowered(query)
           m == Len(query)
<1>1. /\ low \in Seq(Letter) /\ Len(low) = Len(text) /\ Single(text, Len(text))
      /\ \A i \in 1 .. Len(text) : low[i] = Lower[text[i]][1]
  BY LoweredBelow DEF SameLength, Below
<1>2. sought \in Seq(Letter) /\ Len(sought) = m /\ m \in Nat
  BY LoweredBelow DEF SameLength, Below
<1> HIDE DEF low, sought
<1>3. at \in Nat /\ at + m <= Len(text) /\ SubSeq(low, at + 1, at + m) = sought
  BY <1>1, <1>2 DEF Places, low, sought
<1> HIDE DEF m
<1>4. \A i \in 1 .. m : at + i \in 1 .. Len(text)
  BY <1>2, <1>3
<1>5. \A i \in 1 .. m : sought[i] = low[at + i]
  <2>1. at + 1 \in Int /\ at + m \in Int /\ \A i \in at + 1 .. at + m : low[i] \in Letter
    BY <1>1, <1>2, <1>3
  <2>2. \A i \in 1 .. (at + m) - (at + 1) + 1 : sought[i] = low[(at + 1) + i - 1]
    BY <1>3, <2>1, SubSeqProperties
  <2>3. (at + m) - (at + 1) + 1 = m /\ \A i \in 1 .. m : (at + 1) + i - 1 = at + i
    BY <1>2, <1>3
  <2>4. QED
    BY <2>2, <2>3
<1>6. Single(part, m)
  BY <1>1, <1>4 DEF Single, m
<1>7. /\ Lowered(part) \in Seq(Letter) /\ Len(Lowered(part)) = m
      /\ \A i \in 1 .. m : Lowered(part)[i] = Lower[part[i]][1]
  BY <1>6, LoweredBelow DEF Below, m
<1>8. \A i \in 1 .. m : Lowered(part)[i] = sought[i]
  BY <1>1, <1>4, <1>5, <1>7 DEF m
<1>9. QED
  BY <1>2, <1>7, <1>8, SeqEqual DEF sought

(* For any keys and texts searched for, the parts of every row shown make  *)
(* its key; if no letter of the two has a lower case of several letters,   *)
(* the one in the middle is the text searched for, whatever the case.      *)
THEOREM MatchIsHighlighted == Spec => []HighlightIsTheMatch
<1>1. IInv => HighlightIsTheMatch
  <2> SUFFICES ASSUME IInv, NEW row \in Filtered
               PROVE  LET parts == Highlight(row.key, ActiveSearch)
                      IN  /\ parts[1] \o parts[2] \o parts[3] = row.key
                          /\ SameLength(row.key) /\ SameLength(ActiveSearch) =>
                               Lowered(parts[2]) = Lowered(ActiveSearch)
    BY DEF HighlightIsTheMatch
  <2> DEFINE text == row.key
             query == ActiveSearch
             places == Places(Lowered(text), Lowered(query))
             at == Min(places)
             parts == Highlight(text, query)
  <2>1. text \in Seq(Letter) /\ query \in Seq(Letter) /\ places # {}
    BY ActiveIsText, PagesAssumption DEF Filtered, IInv
  <2>2. CASE query = <<>>
    <3>1. parts[1] = text /\ parts[2] = <<>> /\ parts[3] = <<>>
      BY <2>2 DEF Highlight
    <3> HIDE DEF parts, text, query
    <3>2. parts[1] \o parts[2] \o parts[3] = text
      BY <2>1, <3>1, ConcatEmptySeq
    <3>3. QED
      BY <2>2, <3>1, <3>2 DEF parts, text, query
  <2>3. CASE query # <<>>
    <3>1. parts = Cut(text, at, Len(query))
      BY <2>1, <2>3 DEF Highlight
    <3>2. Len(Lowered(text)) \in Nat /\ Len(query) \in Nat /\ Len(text) \in Nat
      BY <2>1, LoweredBelow DEF Below
    <3>3. places \in SUBSET Nat
      BY <3>2 DEF Places
    <3> HIDE DEF parts, text, query
    <3>4. at \in places /\ at \in Nat
      BY <2>1, <3>3, MinOf
    <3> HIDE DEF places, at
    <3>5. parts[1] \o parts[2] \o parts[3] = text
      BY <2>1, <3>1, <3>2, <3>4, PartsMakeTheText
    <3>6. ASSUME SameLength(text), SameLength(query)
          PROVE  Lowered(parts[2]) = Lowered(query)
      <4> DEFINE to == at + Len(query)
      <4>1. parts[2] = Slice(text, at, to)
        BY <3>1 DEF Cut
      <4>2. to \in Nat /\ to <= Len(text) /\ at <= to /\ to - at = Len(query)
        BY <3>2, <3>4, <3>6 DEF places, Places, SameLength
      <4> HIDE DEF to
      <4>3. /\ parts[2] \in Seq(Letter) /\ Len(parts[2]) = Len(query)
            /\ \A i \in 1 .. Len(query) : parts[2][i] = text[at + i]
        <5>1. IsPart(parts[2], text, at) /\ Len(parts[2]) = to - at
          BY <2>1, <3>4, <4>1, <4>2, SliceIs
        <5>2. QED
          BY <4>2, <5>1 DEF IsPart
      <4>4. QED
        BY <2>1, <3>4, <3>6, <4>3, LowerOfPart DEF places
    <3>7. QED
      BY <3>5, <3>6 DEF parts, text, query
  <2>4. QED
    BY <2>2, <2>3
<1>2. QED
  BY <1>1, SpecIInv, PTL

=============================================================================
