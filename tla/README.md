# CacheStack in TLA+

Specifications, model-checking configurations and proofs for CacheStack, an
in-memory data store in Go (`src/backend`) with a React dashboard
(`src/frontend`). Paths below are relative to the repository, `store.go` stands
for `src/backend/internal/store/store.go`, and likewise `server.go`, `http.go`
(`internal/networking`), `aof.go` (`internal/persistence`), `broker.go`
(`internal/pubsub`), `parser.go` (`internal/parser`) and `main.go`
(`cmd/server`).

## 1. Inventory

| Component | State it keeps | Operations | What makes it hard |
|---|---|---|---|
| Key-value store, `store.go` | map of entries, LRU list, memory counter, one RWMutex | strings, lists, sets, sorted sets, DEL, EXPIRE, FLUSHALL, the range reads, lazy expiry, eviction, the sweeper | map and list are linked by hand; the sweeper and multi-key DEL hold the lock over many keys while time passes; entries grow after they were accounted for |
| Dispatcher, `server.go` | none of its own | one case for each command; most call the store and then the AOF | store and AOF have separate locks; SET ... EX takes the store's lock twice; errors after half of the work |
| Connections, `server.go` | subscriptions of the connection, a writer and its mutex | the command loop, deferred clean-up, one goroutine per subscription | several goroutines write to one client; a client that does not read; a break between any two steps |
| Append-only file, `aof.go` | the file, a 64 KiB `bufio.Writer`, one mutex | Open, Append, Flush, Replay, periodicFsync | what is in the buffer is lost by a crash; the file is appended to while it is replayed; lines are cut where the buffer is full |
| Process, `main.go` | phase: replay, serving, stopping | start, signal, exit | replayed commands are appended again; connections go on between the last flush and `os.Exit` |
| Pub/sub broker, `broker.go` | for each channel the set of subscriptions, each a Go channel for 256 messages | Subscribe, Unsubscribe, Publish, two read-only queries | a send on a closed Go channel ends the process; slow subscribers; several publishers at a time |
| Parser, `parser.go` | none | Parse, tokenize | quotes; bytes taken for runes |
| HTTP API, `http.go` | none | exec, list, value, delete, channels, metrics | requests dispatch commands that expect a connection; reads in several critical sections |
| Metrics, `metrics.go` | atomic counters | open, close, op, error; a one-second window | counters are read one by one |
| Configuration, benchmark client | - | - | nothing |
| Keys page, `App.tsx`, `api/client.ts`, `KeyExplorerPage.tsx`, `ViewModal.tsx` | list of keys, a modal, requests in flight | polling, edit, delete | every handler awaits an answer and then uses what it knew before; requests time out and may be executed all the same; ids are positions in the last list |
| Notifications, `useNotifications.ts`, `NotificationPanel.tsx`, `ToastStrip.tsx` | a queue, a counter, one timer for each notice, whether the panel is open | push, dismiss, clear, the timers | timers run out in any order, for notices that may be gone |
| Dashboard shell, `App.tsx`, `CommandPalette.tsx`, `Topbar.tsx`, `useRegion.ts` | the badge, a ref with the last status, result and log of commands, the region | the metrics poll, commands | ticks overlap; answers come in any order; the closure of the poll is that of the first drawing |
| Pages and charts, `DashboardPage.tsx`, `MetricsPage.tsx`, `PubSubPage.tsx`, `KeyExplorerPage.tsx`, `useLineChart.ts`, `useBarChart.ts`, `Sidebar.tsx` | page, search texts and filter, windows of numbers, Chart.js objects, channels and messages | navigation, search, subscribe, ticks, the interval of messages | React runs effects after drawing: charts are created, updated and destroyed, and intervals restarted, with what the effect knew |
| Static views, `LogsPage.tsx`, `Icon.tsx` | - | - | nothing |

Interactions: a connection's goroutine calls Dispatch, which calls the store
(under `Store.mu`), then `AOF.Append` (under `AOF.mu`), or the broker (under
`Broker.mu`). Three goroutines run beside the connections: the sweeper on the
store, periodicFsync on the AOF, and for each subscription one that copies
messages to its connection. The replay calls Dispatch too, without a
connection. The HTTP API calls Dispatch or the store directly. The dashboard
sees nothing but the HTTP API. Inside the dashboard, all state is React's, in
`App`, and its handlers, polls and timers run one at a time.

`PROJECT.json` lists the components with what is modelled of each, and the
hazards with the line of code at which each bites.

## 2. Modules

| Module | Models | In brief |
|---|---|---|
| `StoreOps` | `store.go`, as operators from a store to a store | every operation with its lazy expiry, accounting and eviction; the read-only replies with their index arithmetic and sort |
| `Store` | `store.go`, as a state machine | clients, the sweeper, multi-key DEL and the clock around one mutex |
| `ExpiringMap` | specification | a map whose entries vanish the moment they expire |
| `BoundedCache` | specification | a cache that gives up its least recently used key and no other |
| `StoreRecency` | `Store` with a history | the order in which commands used the keys, with the range reads among the uses or without |
| `Commands` | the mutating cases of `Dispatch` | a command as a record, its first and second call on the store, the store a log stands for |
| `Replay` | start: `aof.go`, `main.go:43-59` | file and buffer by chunks of lines, the scanner at one end and the writer at the other |
| `Server` | `server.go` with `aof.go` and `main.go` | several connections, the AOF, flushes, crashes, signals and restarts, lines whole |
| `Broker` | `broker.go` with its callers | connections, Go channels, reader goroutines, clients that stall or vanish |
| `CommandText` | `parser.go`, `Append`, the line scanner, crashes | text as bytes: typed, tokenized, written, cut by a crash, read again |
| `Dashboard` | the Keys page: `App.tsx`, `client.ts`, `KeyExplorerPage.tsx`, `ViewModal.tsx`; `http.go` | polls, the buttons of a row, the Edit modal, requests in flight, other clients |
| `Notifications` | `useNotifications.ts`, `NotificationPanel.tsx`, `ToastStrip.tsx` | the queue, its timers, the panel |
| `App` | the shell: `App.tsx`, `CommandPalette.tsx`, `Topbar.tsx`, `useRegion.ts` | overlapping ticks of the metrics poll, the badge, commands in flight, the log, and who pushes notices |
| `Pages` | the pages, `useLineChart.ts`, `useBarChart.ts`, `Sidebar.tsx`, the two search boxes | navigation, charts, search and highlight, the Pub/Sub page |
| `StoreOpsProofs` | - | lemmas on the operators of `StoreOps` and `Commands`, used by the proofs of store, server and replay |
| `StoreProofs`, `LogProofs`, `ServerProofs`, `BrokerProofs`, `AppProofs`, `PagesProofs`, `DashboardProofs` | - | the theorems about each state machine and their proofs; `LogProofs` is about `Replay` and `CommandText` |
| `MCStore`, `MCStoreRecency`, `MCReplay`, `MCServer`, `MCRivals`, `MCBroker`, `MCDashboard`, `MCApp`, `MCPages` | - | instances for TLC |

`Store` and `Commands` extend `StoreOps`; `Replay` and `Server` extend
`Commands`, so that all of them run the same store. `App` extends
`Notifications`: it is the only one that pushes. `Store` implements
`ExpiringMap`, and `StoreRecency`, in its first form, implements `BoundedCache`.

### How state and actions correspond to the code

**Store.** `store` is the Go struct: `data` maps each key to an entry or to
`Absent`, `lruList` is `container/list` with its front first, `byteUsed` the
counter. `mu` and `todo` are the loop that holds `Store.mu` and the keys it has
still to visit; a command on one key is a single step, for it holds the mutex
from beginning to end. Values are model values with a length each, so that the
counter can be computed. The eviction loop of `setLocked` is one eviction in
`SetLocked`, and `WithinLimit` is the loop's exit condition: if one eviction
were not enough the invariant would fail. `now` is the clock in ticks; a second
is `Second` ticks, so that deadlines fall between seconds and TTL truncates.
Scores are integers and `NaN`, which `ParseFloat` accepts (`server.go:229`) and
which is neither less nor greater than any other (`Less`).

**StoreRecency.** `used` is the order of use. In `RecencySpec` the commands that lock
the mutex exclusively for a value count, in `ReadingSpec` LRANGE, SMEMBERS and
ZRANGE too (`RangeRead`), which hold the read lock and cannot move anything.

**Replay.** A line is `Width` chunks, the last with the newline. `unread` is what
the scanner has not consumed, `buffer` the `bufio.Writer`. `ReplayLine` does all
that one line causes: the store operation, the append to the buffer and, when
that is full, the spill to the end of the very file being read. `ReplayTorn` is
the scanner at an unfinished line; what a line without its end parses to is the
operator `CutShort`. The file is one FIFO of chunks, because it is opened with
`O_APPEND` and read through a second descriptor. After an end of file the
scanner never reads again, whatever is written later.

**Server.** `pc` says which lock a connection takes next: "read" the store's (a
new command), "expire" the store's again (the second half of SET ... EX),
"append" the AOF's. `file` and `buffer` are sequences of commands. `Signal` is
the flush in main's signal branch, `Exit` is `os.Exit`; connections take steps
between them, as they do in the code. `Lasting` are the keys without deadlines;
the others get SET ... EX and EXPIRE. `Open` starts the ticker of the periodic
flush before main replays the file (`aof.go:38`), so `Flush` may come while the
process serves and in the middle of a replay (`FlushDue`), where it adds to the
file being read; `midFlushes` counts the latter. Nothing obliges it to come, so
that a server with `-fsync 0` is among the behaviours. `Die` forgets memory and buffer. Disk
errors are not modelled, nor is a flush that a crash cuts in two: the chunks of
`Replay` show what cut lines do.

**Broker.** `pc` and `job` of a connection are where `handleConn` and the case it
runs are. A publisher is inside the read lock while its `pc` is "publishing";
`LockFree` is the writer's condition. Every Go channel has a `queue`, a `reader`
goroutine and a `hand`, the message the goroutine has received and not yet
written. `stalled` clients block every write; to those in `gone` writes fail and
nobody looks at the error. A request of the HTTP API is a connection that runs
one command and is over, with `writeLine` doing nothing.

**CommandText.** `Tokenize` is the fold of `TokenStep` over the bytes, with the
writes of `strings.Builder.WriteRune` for bytes taken for runes. `Serialise` is
`Append`'s join with spaces. `FileLines` and `Scanned` are `bufio.Scanner`,
which gives up at a line of `MaxScan` bytes. `CrashAndRestart` cuts the file
anywhere, and `main` then appends what it replays without looking how the file
ends; `glued` remembers the commands whose line begins with such a rest. That
the log is short enough for its replay to end is left to `Replay`. The
`strings.TrimSpace` of `aof.go:89` is left out, as the tokenizer drops what it
trims wherever a property that holds looks.

**Dashboard.** JavaScript runs one handler at a time; a handler is cut at its
`await`: `Poll`, `ClickDelete`, `OpenModal`, `ModalDelete` and `ModalSave` are
what comes before it, `KeysArrive`, `ValueArrives` and `ActionEnds` what comes
after, with the answer or, after `TimeOut`, with null. In between a request is
in `flight`, and what its handler has captured are fields of the request.
`rows` is the state `keys`, `modal` the state of KeyExplorerPage together with
that of ViewModal. The overlay keeps the mouse from the rows and the sidebar, not the
keyboard, so `ClickDelete` and `Navigate` are possible while the modal is open, and
View or Edit of another row, `ChangeItem`, gives the mounted modal another item.
The server is `store`, as the API shows it: `handleKeys` one
step, `handleKeyValue` two, for it takes the lock twice, `handleExec` one with
the parser's split into words. `shown`, `outdated`, and in the modal `typed`, `moved` and
`from`, are history. `Slots`
bounds how many requests are in flight; a new one takes a free slot.

**Notifications and App.** `notices` is the queue of ids with the counter they
come from and the pending timers; a timer fires whether its notice is still
there or not, each on its own. `failing` says that more than 5 % of all commands since the
server's start have failed: while it does, every tick pushes a notice
(`App.tsx:89-94`). Notices beyond `MaxNotices` are not followed. `ticks` are the runs of `tick` that may be in flight, two because
one starts every second and gives up after 1.5; each goes from "sent" to an
answer ("fine", "failing", "null") and from there through `Answered` or `Missed`,
which read `prevOnlineRef` when they run. `TickTimesOut` gives null though the
server may have answered. `execs` are the commands of the palette in flight.
`balance` is history: how many more notices said "lost" than "back"; `result` is
whose answer `cmdResult` is. The keys' poll and its handlers are in
`Dashboard`; the notices they push come as `KeyNotice`.

**Pages.** React draws, and runs effects later, but before it draws again:
`Draw` settles the effects of the last drawing, `Flush` does so with no new one,
and in between a timer may fire. `changed` is what the last drawing changed, which
decides the effects that run. `charts` counts the Chart.js objects alive for each
canvas and keeps their data; `stream` is the list of channels in the closure of
the interval. Texts are sequences of letters, and a letter may have a lower case
of two, as the Turkish capital I has.

## 3. Runs

Ten runs pass; between them they take every action and every disjunct of the
next-state relations. Two more, `replay_long` and `dashboard_modal`, each find a
disagreement between the code and what the repository says of it; `PROJECT.json`
lists these twelve. The other configurations are instances kept beside them, one
property each, which TLC too ends with the violation (`tlc -config server_order.cfg
MCRivals`); section 6 tells what all of them find.

| Run | Shows | Bounds, and why they are enough |
|---|---|---|
| `store_types` | `TypeOK`; `RangesAnswer`: the clamping and the sort, for every start and stop around the ends and every iteration order of the map, sorted where no score is NaN; `ExpiresOnTheDot`: the store is an `ExpiringMap`; `ExpiredKeysLeave`: the sweeper's promise | two keys, room for one, all four types, lists of three, two scores and NaN, three instants. Each write of the other key evicts, a write of another type replaces; an EXPIRE can renew and pass. A sweep meets one key at most |
| `store_recency` | `LRUCoherent`, `WithinLimit`, `BytesNeverOverstated`, `WrittenKeyKept`, and `EvictsLeastRecentlyTouched`: by the commands under the exclusive lock, the store is a `BoundedCache` | three keys, room for two, strings and lists: two keys to choose between at each eviction, sweeps over several keys, pushes that grow an entry |
| `replay` | `LogNeverDrains`; for short logs `ShortLogRestored` (once, and with a second copy in the buffer), `ShortLogServed` | lines of two chunks, a buffer of seven: it is full in the middle of a line. Logs of one to five lines: three fit, the fourth is the case between, where the replay ends with a torn line, five are long. With and without the periodic flush. Logs that are read again and again are of SET and LPOP, since pushes would grow without end |
| `server` | `LogMatchesStore`, `NoDurableLoss`, `DeadlineSet` | two clients, two commands each, two crashes or shutdowns (so one may fall in the replay after the other). Two lasting keys with one writer each, and commands that overwrite; a third key with SET ... EX, also with an EX that is no number, from one client and EXPIRE with positive and negative seconds from the other, with readers, the sweeper and time. One periodic flush in a replay, which `LogMatchesStore` withstands; `NoDurableLoss` is about behaviours without one, and `server_flush` about the others. `OwnersAreWriters` in `MCServer`, which TLC evaluates, says that these clients are as the theorems about `Server` assume |
| `broker_safety` | `NoPanic`, `EndedHoldsNothing`, `ConfirmedFirst`, `InOrder` | two connections that both subscribe and publish, one of them unreliable, two subscriptions, two messages, buffers of two. Subscriptions are interchangeable (symmetry) |
| `broker_progress` | `Agreed`: broker and connections keep the same books; `PublisherNotBlocked`, `CountedIsWritten`, `GoneIsForgotten` under `FairSpec` | one subscription with a buffer of one and two messages, so that it overflows; its client may stall and vanish |
| `text_tokens` | `TokensAreThePieces`, `DamageStaysInItsLine`, `OneRestartSettles` | all texts of up to seven bytes from a letter, a space, a quote, a newline (which an argument sent over HTTP may have) and byte 160, split into commands in every way, two crashes at every byte of the file, and a scanner whose room of eight bytes some lines exceed |
| `dashboard` | `OnlyNewListsMislead`, `TypedTextStays`, and `ListConverges` under `FairSpec` | two keys, so that lists change their order; one row of mock data; two requests in flight (a poll and an action, two polls, a value and a poll), two clicks that send, one change by another client, one request given up. Texts of at most one word, as no property depends on the split |
| `app` | `TypeOK`, `QueueSound`, `LostAndBackAlternate`, and `EachNoticeLeaves`, `StatusSettles` under `FairSpec` | two overlapping ticks, two commands, a queue and a log of two, of which one is shown as a toast, so that both are cut; three events from outside (starts and stops of the server, its error rate passing the threshold, time-outs, clicks), with which a late failure meets an earlier success; three notices are followed, one more than the queue holds. Ticks, and the notices a high error rate brings with each, are not bounded |
| `pages` | `TypeOK`, `ChartsFollow`, `HighlightIsTheMatch`, `OnlySubscribedArrive` | windows of two of two numbers, so that old and new differ; three channels of which two are subscribed at first; two messages kept; four clicks or texts: there and back between two pages with charts. Keys and queries in both cases, with and without the letter whose lower case is longer |

| Configuration that ends with a violation | Module | Property | Instance |
|---|---|---|---|
| `store_sorted` | `MCStore` | `SortedByScore` | one sorted set of three members, scores 0, 1 and NaN |
| `store_reads` | `MCStoreRecency` | `EvictsLeastRecentlyUsed` | `store_recency` with lists and `ReadingSpec` |
| `store_expired` | `MCStore` | `ExpiredNotRead` | one list |
| `replay_long` | `MCReplay` | `StateReconstructed`, under `FairSpec` | `replay` with logs of five lines and no flush |
| `server_flush` | `MCServer` | `DurableStays` | `server` |
| `server_order` | `MCRivals` | `LogMatchesStore` | two clients that SET one key |
| `server_doubled` | `MCRivals` | `LogMatchesStore` | a client that sends RPUSH, one crash |
| `server_badex` | `MCRivals` | `LogMatchesStore` | a client that sends SET k v EX x |
| `text_spaces`, `text_runes` | `CommandText` | `ArgumentsComeBack` | letters, spaces and quotes; letters, spaces and byte 195; no crash |
| `text_overlong` | `CommandText` | `LineErrorsSkipped` | letters and spaces, room for seven bytes, no crash |
| `broker_http` | `MCBroker` | `EndedHoldsNothing` | an HTTP request among the connections |
| `app_palette` | `MCApp` | `OfflineSendsNothing` | `app` |
| `dashboard_modal`, `dashboard_value` | `MCDashboard` | `ActsOnWhatItShows`, `ShowsValueOfItsKey` | `dashboard` |
| `dashboard_empty` | `MCDashboard` | `EmptyStoreShown`, under `FairSpec` | `dashboard` |
| `pages_highlight` | `MCPages` | `MatchingPartHighlighted` | `pages` |

`CHECK_DEADLOCK FALSE` is set where a behaviour really ends: a server that has
started, clients that have sent all they may, a line of the full length. The
store never stops: a client may always send GET, and the polls of the dashboard
never end.

Every property of a run that passes has a mutant in `PROJECT.json`, an operator beside the one it
replaces and with the comment "Mutant", which changes the code the way a slip
would; under it the property fails.

### Fairness

* `Store!FairSpec`: the body of a loop that holds the mutex runs on (weak
  fairness); SweepBegin has strong fairness because it waits for a `sync.Mutex`
  others keep taking, which Go hands to a waiter after a millisecond
  (starvation mode); the clock goes on. No client has to do anything.
* `Replay!FairSpec`: main's own loop goes on. The flush ticker need not fire.
* `Broker!FairSpec`: goroutines that can run do. Cleanup has strong fairness: it
  needs the write lock, and `sync.RWMutex` lets a waiting writer in before new
  readers. Clients are not fair: one that stalls may stall for ever. A read of
  a connection that is gone does fail.
* `Dashboard!FairSpec`: the interval fires, the server gets to its requests, a
  settled promise runs its handler. That not every request times out is the
  bound `MaxLost`, an assumption on the network. The user need not do anything.
* `App!FairSpec`: the interval fires, requests are answered or refused, handlers
  run, and each timer runs out, whatever others are started meanwhile. Server and
  user may do nothing more; how often a request times out is within `MaxEvents`.
* `Pages!Spec` has no fairness: its properties are about safety.

## 4. Proofs

`tlapm` checks these for every value of the constants that satisfies the named
assumptions (`StoreAssumption`, `ClockAssumption`, `ReplayAssumption`,
`ServerAssumption`, `RequestAssumption`, `BrokerAssumption`, `NotificationsAssumption`, `AppAssumption`,
`PagesAssumption`, `DashboardAssumption`, `TextAssumption`), where TLC checks a small instance.
TLC evaluates the assumptions in every run.

| Theorem | States | By |
|---|---|---|
| `StoreProofs!TypeCorrect` | `Spec => []TypeOK` | `IInv` |
| `StoreProofs!ListMatchesMap` | `Spec => []LRUCoherent` | `IInv` |
| `StoreProofs!LimitKept` | `Spec => []WithinLimit` | `IInv` |
| `StoreProofs!WriteKeepsKey` | `Spec => []WrittenKeyKept` | `IInv` and the lemmas on `SetLocked` |
| `StoreProofs!MemoryNotOverstated` | `Spec => []BytesNeverOverstated` | `IInv` and `Bounded` |
| `StoreProofs!RangesAnswered` | `Spec => []RangesAnswer` | `IInv`, `DataFits` and the lemmas on slice and sort |
| `StoreProofs!ExpiryIsExact` | `Spec => ExpiresOnTheDot`, the refinement of `ExpiringMap` | `IInv` and `View` |
| `StoreProofs!EvictionIsByTouch` | `RecencySpec => EvictsLeastRecentlyTouched`, the refinement of `BoundedCache` | `IInv` and `UsedInv` |
| `LogProofs!LogGoesRound` | `Spec => []LogNeverDrains` | `RingInv` |
| `LogProofs!LongLogReplayedForever` | `Spec => []LongLogNeverServed` | `RingInv` with the goal |
| `LogProofs!ShortLogReplayedOnce` | `Spec => []ShortLogRestored` | `RestoreInv` |
| `LogProofs!TokenizerFindsThePieces` | `TextSpec => []TokensAreThePieces` | `LineIsText` and the induction `TextTracks` |
| `LogProofs!DamageIsConfined` | `TextSpec => []DamageStaysInItsLine` | `TextInv` |
| `LogProofs!RestartSettles` | `TextSpec => []OneRestartSettles` | `TextInv` and the lemmas on lines and tokens |
| `ServerProofs!LogReplaysTheStore` | `OverwritesByOne` implies `Spec => []LogMatchesStore` | `BaseInv` and `LogInv` |
| `ServerProofs!NothingDurableLost` | `VersionsNumbered` implies `Spec => []NoDurableLoss` | `BaseInv` and `MidInv` |
| `ServerProofs!DeadlineComesWithValue` | `DeadlinesByOne` implies `Spec => []DeadlineSet` | `BaseInv` |
| `BrokerProofs!TypeCorrect` | `Spec => []TypeOK` | `TypeOK` and `PublisherHasMsg` |
| `BrokerProofs!ConfirmationComesFirst` | `Spec => []ConfirmedFirst` | `StartedTold` |
| `BrokerProofs!PublisherOrderKept` | `Spec => []InOrder` | `OrderInv` |
| `BrokerProofs!NeverPanics` | `Spec => []NoPanic` | `IInv` |
| `BrokerProofs!BooksAgree` | `Spec => []Agreed` | `IInv` |
| `BrokerProofs!TCPEndsClean` | `Http = {}` implies `Spec => []EndedHoldsNothing` | `IInv` |
| `AppProofs!TypeCorrect` | `Spec => []TypeOK` | `IInv` |
| `AppProofs!NoticesHaveTimers` | `Spec => []QueueSound` | `IInv` |
| `AppProofs!TurnsTaken` | `Spec => []LostAndBackAlternate` | `IInv` |
| `PagesProofs!TypeCorrect` | `Spec => []TypeOK` | `IInv` |
| `PagesProofs!ChartsInStep` | `Spec => []ChartsFollow` | `IInv` |
| `PagesProofs!NothingFromTheLeft` | `Spec => OnlySubscribedArrive` | `IInv` |
| `PagesProofs!MatchIsHighlighted` | `Spec => []HighlightIsTheMatch` | `IInv` and the lemmas on `Lowered` and `Cut` |
| `DashboardProofs!TypeCorrect` | `Spec => []TypeOK` | `IInv` |
| `DashboardProofs!IdsMeanWhatWasSeen` | `Spec => []OnlyNewListsMislead` | `IInv` |
| `DashboardProofs!LateValuesLeaveTypedText` | `Spec => TypedTextStays` | `IInv` |

**Store.** `IInv` is `TypeOK` together with `Sound(store)`: the list has the keys
of the map, each once, and the map is within the limit. None of the three is
inductive alone: one eviction is enough only if the store was within the limit
before and if the element at the back of the list is in the map, and the latter
is `LRUCoherent`. The proof is one lemma for each operator of `StoreOps` on top
of four about removing from and adding to a list without repetitions; each
action then leaves the store with a sound one (`RunIInv`). `WrittenKeyKept` uses
that the key just inserted is at the front and, if there was another, not at
the back. For the counter, `Share` is what a key adds to the right-hand side:
`Insert` adds exactly that much to the left, for every entry the code inserts is
a string or empty; `RemoveLocked` takes away at least that much, for an entry
only grows or shrinks above its share; and a command that works in place keeps
the type, so it moves neither side.

**The range reads.** `SliceIs` is about the three clamping steps: the places from
`ClampStart` to `ClampStop` are those between both bounds. For the sort,
`PlaceByScore` finds where an insertion goes, behind all that are not larger, and
`InsertKeepsSorted` says that what was sorted stays so. Without NaN, that is: `Less` is then the order of the integers.
`SortRuns` turns the fold
into the states after each insertion: the library defines a fold by a recursive
function on sets of places, so that one must first exist; that is shown by
induction (`NatSets`, from the pigeonhole principle). The answer for a key of
another type is empty, and so must be what its entry holds, which is `DataFits`:
an entry has elements only if it is a list, and members with scores only if it is
a sorted set.

**Store as an `ExpiringMap`.** What a client sees, `View`, depends on the map and
the clock alone. `SetLocked` changes it at its key and gives up at most one other
key, and only for a key that was not in the map before; if the key was there but
had expired, the old entry makes room for the new one and nothing is given up.
Lazy removal and the sweeper remove only what `View` no longer shows, and map to
a stutter; DEL with several keys maps to one `Delete` at a time; a tick of the
clock maps to `Advance`, which takes away all that expires at that instant.

**StoreRecency as a `BoundedCache`,** in the form `RecencySpec`. Lists are compared only by which of two keys
comes before the other (`Before`). `UsedInv` says that every key in the map has
been used, and that on these keys the history `used` and the LRU list have the
same order; `used` also has keys long gone, of which the list knows nothing. A command moves its key to the front of both
(`FrontBefore`), a removal keeps the order of the rest (`DropBefore`), and the
last of the list comes after all others (`LastBefore`), so that what `evictOne`
takes is the cache's `Oldest`. A command that writes twice, an insertion and then
a touch, is one move (`TouchAfter`).

**Replay.** `LogNeverDrains` speaks of lengths. `RingInv` adds that the buffer is
within its capacity, without which a spill could take more than there is, and
that both sequences are made of chunks of the log and their copies. A long log
then leaves at least a whole line unread in every state, so neither way out of
the loop is open. Lines, log and buffer are of any length.

For a short log, `RestoreInv` says how far the replay is: some number k of lines
is done, the buffer is their chunks and nothing was spilled, the rest of the file
is unread, and the store is the one after k steps of the fold in `Replayed`
(`ReplayedRuns`, as above). The scanner can stop only when k is all of them, and
never within a line.

**CommandText.** The tokenizer is a fold of the library over the bytes, and what is
written and read again goes through `FlattenSeq`; both are recursive functions,
of which it must first be shown that there is one (`TokenTableExists`,
`FlatteningExists`). `After(text)` is then the tokenizer's state after a text, and
`ByteRead` its step for one more byte. `Tracks` relates that state to the pieces: the
tokens are the pieces that have ended, in order, and `cur` is what the last run of
bytes without a cut has so far, empty just if there are only quotes in it. A byte
either cuts the text or lengthens the run (`TracksNext`), and the end of the line
ends the last piece (`EndedLists`).

For the file, `FileLines` numbers the ends of lines by how many there are up to each
(`LinesAre`), and every text is its whole lines and a rest without newline
(`TextSplits`). What is appended leaves the whole lines as they are (`SameLinesOfText`),
and so does cutting some bytes off, for the lines that are left (`BeginningOfText`).
`DamageStaysInItsLine` is not inductive: it speaks of plain commands if all commands
are on one line each, and a crash may take away the very commands that were not, or
glue the next one. `TextInv` says more. As far as the first commands are on one line
each, their lines are in the file, and a command that is not glued has a line of its
own, be it plain or not (`LinesHold`). If all commands are, there are no other lines,
and a file that ends within a line has the next command glued (`EndsHold`); that is
what makes the lines a crash leaves the commands it leaves (`CrashKeepsLines`), and
what a restart appends after them have the places that follow (`CommandsWritten`).
It also says that no quote is ever written: the tokenizer takes all of them out.
That a plain command is read as it was follows byte by byte (`PlainIsReread`).

`OneRestartSettles` rests on that absence of quotes: bytes below 128 without
quotes are read as words that are plain (`RereadIsSettled`), and the line written for
them is no longer than the one they were read from (`TokensFit`), so that the scanner
that had room for the one has room for the other.

**Server.** The theorems have a hypothesis each on who sends what, a condition on
the constant `Request` and not on a state; the server does not do these things for
clients that do not keep to it (section 6). `BaseInv` has the types, that the store is sound, that every line
of the log is a request of some client, and that a connection that is between
two locks has a command. For SET ... EX, no step of another connection can
then take a deadline from a key or make the key anew, and the connection's own
second call sets it. For versions, `VersionInv` says of each key: the last line
about it, in the file and with the buffer, is the newest version there
(`LastIsTop`: the lines are not in the order of the versions, for a restart
appends all of them again); what the server has is at least that; a connection
that has still to append has in hand the very version the store has (`Pending`,
here one writer matters); and within a replay the store has what the last line
so far says (`Replaying`). An eviction breaks `Served`, hence the rest of the
hypothesis, and a flush within a replay breaks `LastIsTop`: so `MidInv` is
`VersionInv` for as long as none has come (`midFlushes = 0`), and so is the
property.

For `LogMatchesStore`, `LogInv` says of each lasting key that the store has the
entry which the log, file and buffer, makes of an empty store; and if its writer
is between the two locks, that entry with the waiting command done (`Ahead`;
with a second writer the log could have the other order). A flush then moves
lines and changes nothing, and a crash or an exit leaves a file that says
something of its own. The work is in the replay, which appends every line again:
at its end the file holds the log and the buffer the log once more, and the store
is that of one pass. Two passes must come to the same, which they do for
commands that overwrite, and for SADD and ZADD though these also depend on what
was there. Lines that are done and not flushed yet have made the store's entry `e`
of some entry `b`; appended behind the file they would make `f` of what the file
makes of nothing, `old`. `Again(b, old, e, f)` relates the two: equal once a line has
overwritten the key, and before that `e` has what was in `b` and what the lines
added, and `f` what is in `old` and the same. It holds at the start, with `b`
nothing; each command keeps it (`AgainStays`); and where the replay ends, `e` is
`old` and so `f` is too (`AgainEnds`). A periodic flush in the middle makes file and
buffer together the new file, of which the lines just read are to come once more:
`b` is then what the store has (`MidFlushLog`), and a crash after it leaves a file
that says something of its own, too. The same holds at every instant the log may be
replayed at, which the invariant quantifies over, because the lines before the
key's may have deadlines. The hypothesis `OverwritesByOne` is: one writer for each
lasting key, SET, DEL, SADD or ZADD with proper arguments, no FLUSHALL, no limit on
the number of keys. RPUSH would be done twice, and an
eviction is not in the log.

**Broker.** `NoPanic` says that what is in the broker, and what a publisher has
before it, is open. `IInv` adds that broker and connections agree on who has
subscribed to what, that a subscription is in one channel's set only, that what
a publisher has yet to serve is in the current set, which the lock guarantees,
and that only channels that were made are closed. The agreement is a property of its
own, `Agreed`. `EndedHoldsNothing` follows
from the agreement, given that the deferred function of `handleConn` empties
the connection's subscriptions before the connection ends; that holds for TCP,
hence the assumption `Http = {}`, and `broker_http` is the counterexample
without it.

`ConfirmedFirst` rests on the order in `subscribe`: the goroutine is started when
the reply has been written, or could not be, so that whoever reads a message has
read the reply (`StartedTold`). For `InOrder`, messages on their way to one
subscription are in three places: written, waiting (in the goroutine's hand,
then in the Go channel), and in the loop of a publisher that has yet to reach
the subscription. `OrderInv` says that of one publisher those in the first are
older than those in the second, these in order, and those older than the third;
`Numbered` that a new message is newer than all.

**App.** `IInv` is `TypeOK`, that the queue is sound (`Sound(notices)`: newest
first, each with a timer, no id used twice), `LostAndBackAlternate`, and that the log
keeps its type and limit (`LogSound`). That the notices take turns rests on
`Answered` and `Missed` reading and writing the ref in one go, after the await; the
number of ticks in flight does not matter.

**Pages.** `IInv` is `TypeOK`, `ChartsSound` and `StreamSound`. Both say what holds
with the effects of the last drawing already run, and how far the state may be
from it before: the effects settle to the page and the channels of now whatever
the last drawing changed. Between a click and its effect the stream may still
bring a message of a channel that was left, and the property leaves that room.

`HighlightIsTheMatch` needs no more of the state than its types. `Lowered` is the
library's `FlattenSeq`, a recursive function, of which `LoweringExists` makes the
texts after each letter. By induction over these (`LoweredLetter`) the lower case
is as long as the text just if each letter has a lower case of one letter, and then
letter stands below letter (`Below`), so that a place in the lower case is that place
in the text. That the three parts make the text holds for every cut, also beyond
its end (`PartsMakeTheText`).

**Dashboard.** `IInv` is the types with `Sound(flight, rows, modal)`: ids of rows
are unique, and a request or a modal that no new list has overtaken names by its
id the key the user saw. A modal that is loading is, while it keeps the item it was
opened with, what exactly one awaited request for a value waits for, and nothing has
been typed into it (`Waited`), which is why a value that comes late finds no text to
overwrite. Once it has another item (`moved`), two may be awaited, and the property
says nothing.

**Left to TLC.** Liveness (`ExpiredKeysLeave`, `ShortLogServed`,
`PublisherNotBlocked`, `CountedIsWritten`, `GoneIsForgotten`, `ListConverges`,
`EachNoticeLeaves`, `StatusSettles`): the prover does not treat fairness and ENABLED.
Every safety property the passing runs check is also stated by a theorem, those of
`Server` and `EndedHoldsNothing` under the hypotheses named there. `TypeOK` of
`Broker` is proved and not run.

## 5. Not modelled

* Upper-casing of command names, wording of replies and argument errors, PING,
  ECHO, INFO, DBSIZE: they change no state and no property is about them.
* Len and BytesUsed, ActiveChannels and SubscriberCount, parser.Arity: single
  reads; the last is called by nobody.
* `metrics.go`: independent atomic counters. Nothing reads two of them together
  and decides anything by it, so that there is no property to state beyond each
  assignment. Likewise the six numbers a tick shows beside the charts.
* Configuration (its two relevant flags are constants), the benchmark client,
  and the views that draw what they are given (`LogsPage.tsx`, `Icon.tsx`).
* Errors of the disk and of `listen`; the overflow of seconds multiplied by
  `time.Second` in an int64 (a large EX becomes a deadline in the past).
* Of the HTTP API: TTL and type of a listed key, values that are no strings,
  channels, metrics, health.
* Of the dashboard: the texts of a row, options and colours of charts, the
  demonstration data of tiles, and the double mounting of React's StrictMode,
  which is for development only.

## 6. Where the code does not do what its comments say

Each of these is found by the configuration named; `replay_long` and
`dashboard_modal` are runs and findings of `PROJECT.json`:

* **A log longer than 64 KiB is replayed for ever** (`replay_long`; proved for every
  such log as `LongLogReplayedForever`). Each replayed line is dispatched and so
  appended to the same file; as soon as the buffer spills, the scanner finds new
  lines. The server never listens, and the file does not stop growing.
* **A periodic flush during a replay brings old values back** (`server_flush`):
  it puts the older lines just replayed behind the newer ones still to come.
* **The second restart does every RPUSH twice** (`server_doubled`), for every start
  appends the log once more.
* **Two writers of one key may be logged in the opposite order** (`server_order`),
  since the store and the AOF have separate locks.
* **SET with an EX that is not a number** has stored the value when it answers with
  an error, and is not logged (`server_badex`).
* **Arguments with spaces come back from the log as several** (`text_spaces`), text
  that is not ASCII encoded once more (`text_runes`), and one line of 64 KiB ends
  the replay (`text_overlong`).
* **LRANGE, SMEMBERS and ZRANGE** check no expiry (`store_expired`) and do not count
  as use (`store_reads`).
* **ZRANGE does not sort where a score is NaN** (`store_sorted`).
* **SUBSCRIBE through POST /api/exec leaks** (`broker_http`): the map of
  subscriptions is forgotten with the request; the goroutine never ends.
* **The Edit modal deletes or overwrites another key than the one in its title**
  (`dashboard_modal`). It hands over an id, which is a position in the list of
  when it was opened; the handler looks it up in the list of now. The page polls
  every three seconds, and the server lists its keys in the order of a map
  iteration, which changes from call to call.
* **With a second Edit by keyboard it shows another key's value**
  (`dashboard_value`), and a value that comes late overwrites typed text.
* **A server without keys is shown with the keys of before** (`dashboard_empty`),
  for an empty list is ignored.
* **The palette sends commands while it says that it will not** (`app_palette`).
* **The highlight is misplaced** beside letters whose lower case is longer
  (`pages_highlight`).

Others can be seen with the same modules, by changing a constant or a
requirement, or contradict nothing the repository says:

* After a crash in the middle of a line the next process appends its first line
  to the rest, and both are read as one command; the commands this happens to
  are the `glued` of `CommandText`.
* An argument with a newline becomes two lines of the log.
* After a deletion the row with the id is removed, whatever was answered and
  whatever key the id means by then (`App.tsx:181`); the toast says "deleted"
  even after a time-out. The next poll puts the list right.
* Saving a text of several words from the modal stores the first of them, since
  `SET key text` is sent without quotes (`App.tsx:187`).
* A command of the palette that is answered after a newer one replaces the newer
  one's result by its own, and comes before it in the log (`App.tsx:203`).
* The error rate is that of the server's whole life, and the notice about it has no
  guard (`App.tsx:89-94`): above 5 % one comes every second.
* "Close notification panel when clicking outside" (`App.tsx:163`): the root of
  the page carries the attribute the test looks for (`App.tsx:223`), so no click
  within the page closes the panel.
* The search box of the Keys page falls back on the search of the top bar when it
  is empty, so it cannot be emptied while there is one, and its cross clears the
  local text only.
* The log holds durations and neither expiry nor eviction: `LogMatchesStore`
  fails for keys with deadlines, and with `MaxKeys` and a reader.
* A command answered between the last flush and `os.Exit` is lost
  (`main.go:64-71`, "graceful shutdown"): in `Server`, `Exit` with a buffer that
  is not empty.
* LPUSH leaves its last argument at the front (`store.go:135`, "first arg ends
  up at front").
* Removing an entry that pushes have grown takes more from `byteUsed` than was
  added; it can be 0 while the map holds data (`store.go:47`, "approximate
  memory").

## 7. Plan

Done in this order: the store with its two abstract specifications and its
proofs; commands and replay with its proofs; the server with crashes; the
broker with its proofs; text, with lines cut by a crash; the Keys page with the
API behind it; notifications and the shell; pages, charts and the stream; the
proofs of the three dashboard modules; the refinements of `ExpiringMap` and
`BoundedCache` and the bound on the counter; the order of messages and replies in
the broker, deadlines and versions in the server; the range reads and the replay
of a short log; the log against the store, and the highlight; text, its lines and
what crashes do to them.

Next: the HTTP handlers that take the lock again for each key (`handleKeys`,
`handleChannels`) over `Store` and `Broker`, with all value types.
