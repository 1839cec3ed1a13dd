----------------------------- MODULE Dashboard -----------------------------
(***************************************************************************)
(* The Keys page of the dashboard and the HTTP API it talks to: polls of   *)
(* the key list, the buttons of a row, the Edit modal, and the requests in *)
(* flight between browser and server (frontend/src/App.tsx, api/client.ts, *)
(* pages/KeyExplorerPage.tsx, components/ViewModal.tsx, http.go).          *)
(*                                                                         *)
(* JavaScript runs one handler at a time, so what a handler does between   *)
(* two awaits is one step; everything else may happen during an await.     *)
(* The server is what the API shows of it: the string keys and their       *)
(* texts, which other clients change too; a text is a sequence of words,   *)
(* none of which holds a quote.  Left out: type, TTL and size of a row,    *)
(* the search box, notifications, and the line a change appends to the     *)
(* AOF, which is that of DEL or SET in module Server.                      *)
(***************************************************************************)
EXTENDS Naturals, FiniteSets, SequencesExt

CONSTANTS
  Key,        \* names of keys
  Word,       \* words of a text
  MaxWords,   \* bound: words in a text
  Mock,       \* INITIAL_KEYS: the rows shown until a list has arrived
  Slots,      \* bound: requests in flight
  MaxClicks,  \* bound: clicks of the user that send something
  MaxWrites,  \* bound: changes other clients make
  MaxLost,    \* bound: requests the client gives up
  Absent,     \* the server has no such key
  NoAnswer,   \* apiFetch returned null, or an object without the field
  NoRequest,  \* nothing is in flight in the slot
  NoModal     \* the modal is closed

Text == BoundedSeq(Word, MaxWords)

Row == [id: Nat \ {0}, key: Key, value: Text]

(* A request: what it asks, how far the server is, whether the client      *)
(* still waits.  Two fields are history: shown is the key the user saw     *)
(* when they clicked, and outdated says that the list has been replaced    *)
(* since then or, for a poll, that the page was left.                      *)
Request ==
  [kind: {"keys", "value", "delete", "set"}, key: Key \cup {Absent},
   text: Text, id: Nat, shown: Key \cup {Absent}, outdated: BOOLEAN,
   stage: {"sent", "typed", "done"}, awaited: BOOLEAN,
   answer: Text \cup Seq(Key) \cup {NoAnswer}]

(* The open modal.  Four fields are history: the user has typed; a list    *)
(* has come since the item was chosen; another item has taken the place of *)
(* the first; and whose value val is, if nobody has typed.                 *)
Modal ==
  [item: Row, val: Text, loading: BOOLEAN, typed: BOOLEAN, outdated: BOOLEAN,
   moved: BOOLEAN, from: Key]

ASSUME DashboardAssumption ==
  /\ IsFiniteSet(Key) /\ IsFiniteSet(Word)
  /\ Mock \in Seq(Row)
  /\ \A i \in DOMAIN Mock : Mock[i].id = i
  /\ {MaxWords, Slots, MaxClicks, MaxWrites, MaxLost} \subseteq Nat
  /\ NoRequest \notin Request /\ NoModal \notin Modal

VARIABLES
  store,   \* the server's keys
  flight,  \* requests on their way, by slot
  page,    \* "keys" or "other"
  rows,    \* App's state keys
  modal,   \* KeyExplorerPage's state modal with ViewModal's val and loading
  clicks, writes, lost  \* counters of the bounds

vars == <<store, flight, page, rows, modal, clicks, writes, lost>>

Present == {k \in Key : store[k] # Absent}

Busy(r) == r # NoRequest

Init ==
  /\ store \in [Key -> {Absent} \cup (Text \ {<<>>})]
  /\ flight = [s \in 1 .. Slots |-> NoRequest]
  /\ page = "other"
  /\ rows = Mock
  /\ modal = NoModal
  /\ clicks = 0 /\ writes = 0 /\ lost = 0

-----------------------------------------------------------------------------
(* apiFetch sends a request: it takes one of the free slots of f.          *)

FreeIn(f) == {s \in 1 .. Slots : ~Busy(f[s])}

Sent(f, kind, key, text, id, shown, outdated) ==
  [f EXCEPT ![CHOOSE s \in FreeIn(f) : TRUE] =
     [kind |-> kind, key |-> key, text |-> text, id |-> id, shown |-> shown,
      outdated |-> outdated, stage |-> "sent", awaited |-> TRUE, answer |-> NoAnswer]]

(* fetchKeys, at once and every three seconds while the page is shown; a   *)
(* request lives for a second and a half, so that a poll never meets the   *)
(* one before it, but may meet one from an earlier visit to the page.      *)
Poll ==
  /\ page = "keys"
  /\ \A s \in 1 .. Slots :
       Busy(flight[s]) /\ flight[s].kind = "keys" /\ flight[s].awaited => flight[s].outdated
  /\ FreeIn(flight) # {}
  /\ flight' = Sent(flight, "keys", Absent, <<>>, 0, Absent, FALSE)
  /\ UNCHANGED <<store, page, rows, modal, clicks, writes, lost>>

(* The modal is unmounted: nobody waits for its value any more.            *)
Unmounted ==
  [s \in 1 .. Slots |->
     IF ~Busy(flight[s]) \/ flight[s].kind # "value" THEN flight[s]
     ELSE IF flight[s].stage = "done" THEN NoRequest
     ELSE [flight[s] EXCEPT !.awaited = FALSE]]

(* Leaving stops the interval, not a request in flight, and unmounts the   *)
(* modal with the page.                                                    *)
Navigate ==
  /\ page' = IF page = "keys" THEN "other" ELSE "keys"
  /\ modal' = NoModal
  /\ flight' = [s \in 1 .. Slots |->
                  IF Busy(Unmounted[s]) /\ Unmounted[s].kind = "keys"
                  THEN [Unmounted[s] EXCEPT !.outdated = TRUE] ELSE Unmounted[s]]
  /\ UNCHANGED <<store, rows, clicks, writes, lost>>

-----------------------------------------------------------------------------
(* The user.                                                               *)

Click == page = "keys" /\ clicks < MaxClicks /\ clicks' = clicks + 1

(* The Del button of a row: handleDeleteKey up to its await.  Behind an    *)
(* open modal the buttons are out of the mouse's reach, not the keyboard's.*)
ClickDelete ==
  /\ Click /\ FreeIn(flight) # {}
  /\ \E row \in Range(rows) :
       flight' = Sent(flight, "delete", row.key, <<>>, row.id, row.key, FALSE)
  /\ UNCHANGED <<store, page, rows, modal, writes, lost>>

(* View and Edit: the modal keeps the row as it is now.  A row from a poll *)
(* has no value, so the effect fetches it.  View is Edit without buttons.  *)
OpenModal ==
  /\ modal = NoModal /\ Click /\ FreeIn(flight) # {}
  /\ \E row \in Range(rows) :
       /\ modal' = [item |-> row, val |-> row.value, loading |-> row.value = <<>>,
                    typed |-> FALSE, outdated |-> FALSE, moved |-> FALSE, from |-> row.key]
       /\ flight' = IF row.value = <<>>
                    THEN Sent(flight, "value", row.key, <<>>, row.id, row.key, FALSE)
                    ELSE flight
  /\ UNCHANGED <<store, page, rows, writes, lost>>

(* View and Edit while the modal is open: React gives the same ViewModal,  *)
(* which has no key, another item.  Its state stays; the effect runs anew  *)
(* if the item has another key or value.                                   *)
ChangeItem ==
  /\ modal # NoModal /\ Click /\ FreeIn(flight) # {}
  /\ \E row \in Range(rows) :
       LET differs == row.key # modal.item.key \/ row.value # modal.item.value
           fetches == differs /\ row.value = <<>>
       IN  /\ modal' = [modal EXCEPT !.item = row, !.loading = @ \/ fetches,
                                     !.outdated = FALSE, !.moved = @ \/ differs]
           /\ flight' = IF fetches
                        THEN Sent(flight, "value", row.key, <<>>, row.id, row.key, FALSE)
                        ELSE flight
  /\ UNCHANGED <<store, page, rows, writes, lost>>

(* Mutant: the textarea is not disabled while the value loads.             *)
TypeAnyTime ==
  /\ modal # NoModal
  /\ \E text \in Text : modal' = [modal EXCEPT !.val = text, !.typed = TRUE]
  /\ UNCHANGED <<store, flight, page, rows, clicks, writes, lost>>

Type ==
  /\ modal # NoModal /\ ~modal.loading
  /\ \E text \in Text : modal' = [modal EXCEPT !.val = text, !.typed = TRUE]
  /\ UNCHANGED <<store, flight, page, rows, clicks, writes, lost>>

Close ==
  /\ modal # NoModal
  /\ modal' = NoModal
  /\ flight' = Unmounted
  /\ UNCHANGED <<store, page, rows, clicks, writes, lost>>

(* handleDeleteKey or handleSaveKey, called by the modal with the id of    *)
(* its item: the key is looked up in the list of now.  If no row has the   *)
(* id, nothing is sent and there is nothing to change.                     *)
FromModal(kind, text) ==
  LET found == {row \in Range(rows) : row.id = modal.item.id}
      Named == (CHOOSE row \in found : TRUE).key
  IN  /\ flight' = IF found = {} THEN Unmounted
                   ELSE Sent(Unmounted, kind, Named, text, modal.item.id,
                             modal.item.key, modal.outdated)
      /\ modal' = NoModal
      /\ UNCHANGED <<store, page, rows, writes, lost>>

ModalDelete ==
  /\ modal # NoModal /\ Click /\ FreeIn(Unmounted) # {}
  /\ FromModal("delete", <<>>)

ModalSave ==
  /\ modal # NoModal /\ ~modal.loading /\ Click /\ FreeIn(Unmounted) # {}
  /\ FromModal("set", modal.val)

-----------------------------------------------------------------------------
(* The server.  It does not notice that a client has given up.             *)

Replies(s, answer) ==
  /\ flight' = [flight EXCEPT ![s] =
       IF @.awaited THEN [@ EXCEPT !.stage = "done", !.answer = answer] ELSE NoRequest]
  /\ UNCHANGED <<page, rows, modal, clicks, writes, lost>>

At(s, kind, stage) ==
  Busy(flight[s]) /\ flight[s].kind = kind /\ flight[s].stage = stage

(* handleKeys, GET: the keys in the order the map is ranged over.          *)
ServeKeys(s) ==
  /\ At(s, "keys", "sent")
  /\ \E order \in SetToSeqs(Present) : Replies(s, order)
  /\ UNCHANGED store

(* handleKeyValue looks at the type, lets the lock go, and then reads.     *)
ServeType(s) ==
  /\ At(s, "value", "sent")
  /\ IF flight[s].key \in Present
     THEN /\ flight' = [flight EXCEPT ![s].stage = "typed"]
          /\ UNCHANGED <<page, rows, modal, clicks, writes, lost>>
     ELSE Replies(s, NoAnswer)
  /\ UNCHANGED store

ServeValue(s) ==
  /\ At(s, "value", "typed")
  /\ Replies(s, IF flight[s].key \in Present THEN store[flight[s].key] ELSE <<>>)
  /\ UNCHANGED store

(* handleKeys, DELETE.                                                     *)
ServeDelete(s) ==
  /\ At(s, "delete", "sent")
  /\ store' = [store EXCEPT ![flight[s].key] = Absent]
  /\ Replies(s, <<>>)

(* handleExec with "SET key text": the parser splits the text, SET takes   *)
(* the first word for the value, and refuses to do without.                *)
ServeSet(s) ==
  /\ At(s, "set", "sent")
  /\ store' = IF flight[s].text = <<>> THEN store
              ELSE [store EXCEPT ![flight[s].key] = <<Head(flight[s].text)>>]
  /\ Replies(s, <<>>)

Serve(s) == ServeKeys(s) \/ ServeType(s) \/ ServeValue(s) \/ ServeDelete(s) \/ ServeSet(s)

(* Somebody else sets or deletes a key, or it expires.                     *)
OtherClient ==
  /\ writes < MaxWrites
  /\ \E k \in Key, v \in {Absent} \cup (Text \ {<<>>}) :
       v # store[k] /\ store' = [store EXCEPT ![k] = v]
  /\ writes' = writes + 1
  /\ UNCHANGED <<flight, page, rows, modal, clicks, lost>>

-----------------------------------------------------------------------------
(* The handlers after their await, with what apiFetch gave them.           *)

(* Mutant: a shorter list than the one shown is not taken for an answer.   *)
IsListLonger(answer) == answer # NoAnswer /\ Len(answer) > 0 /\ Len(answer) >= Len(rows)

IsList(answer) == answer # NoAnswer /\ Len(answer) > 0

Numbered(keys) == [i \in DOMAIN keys |-> [id |-> i, key |-> keys[i], value |-> <<>>]]

(* Mutant: after a deletion the rows are numbered anew.                    *)
WithoutRenumbered(id) ==
  LET left == SelectSeq(rows, LAMBDA row : row.id # id)
  IN  [i \in DOMAIN left |-> [left[i] EXCEPT !.id = i]]

(* filter(k => k.id !== id); ids are distinct.                             *)
Without(id) ==
  IF \E i \in DOMAIN rows : rows[i].id = id
  THEN RemoveAt(rows, CHOOSE i \in DOMAIN rows : rows[i].id = id)
  ELSE rows

Edited(id, text) ==
  [i \in DOMAIN rows |->
     IF rows[i].id = id THEN [rows[i] EXCEPT !.value = text] ELSE rows[i]]

Outdate(r) ==
  IF Busy(r) /\ r.kind \in {"delete", "set"} THEN [r EXCEPT !.outdated = TRUE] ELSE r

(* fetchKeys: the answer replaces the list, whatever page is shown now; an *)
(* empty one is ignored.                                                   *)
KeysArrive(s, answer, left) ==
  /\ flight[s].kind = "keys"
  /\ IF IsList(answer)
     THEN /\ rows' = Numbered(answer)
          /\ modal' = IF modal = NoModal THEN modal ELSE [modal EXCEPT !.outdated = TRUE]
          /\ flight' = [t \in 1 .. Slots |-> IF t = s THEN left ELSE Outdate(flight[t])]
     ELSE /\ UNCHANGED <<rows, modal>>
          /\ flight' = [flight EXCEPT ![s] = left]

ValueArrives(s, answer, left) ==
  /\ flight[s].kind = "value"
  /\ modal' = [modal EXCEPT !.val = IF answer = NoAnswer THEN @ ELSE answer,
                            !.from = IF answer = NoAnswer THEN @ ELSE flight[s].key,
                            !.loading = FALSE]
  /\ flight' = [flight EXCEPT ![s] = left]
  /\ UNCHANGED rows

(* handleDeleteKey and handleSaveKey go on by id, whatever the answer.     *)
ActionEnds(s, left) ==
  LET r == flight[s]
  IN  /\ r.kind \in {"delete", "set"}
      /\ rows' = IF r.kind = "delete" THEN Without(r.id) ELSE Edited(r.id, r.text)
      /\ flight' = [flight EXCEPT ![s] = left]
      /\ UNCHANGED modal

Resume(s, answer, left) ==
  KeysArrive(s, answer, left) \/ ValueArrives(s, answer, left) \/ ActionEnds(s, left)

Answer(s) ==
  /\ Busy(flight[s]) /\ flight[s].awaited /\ flight[s].stage = "done"
  /\ Resume(s, flight[s].answer, NoRequest)
  /\ UNCHANGED <<store, page, clicks, writes, lost>>

(* AbortSignal.timeout fires: the handler gets null.  The server may still *)
(* be at work on the request, or not have seen it yet.                     *)
TimeOut(s) ==
  /\ Busy(flight[s]) /\ flight[s].awaited
  /\ lost < MaxLost
  /\ lost' = lost + 1
  /\ Resume(s, NoAnswer, IF flight[s].stage = "done" THEN NoRequest
                         ELSE [flight[s] EXCEPT !.awaited = FALSE])
  /\ UNCHANGED <<store, page, clicks, writes>>

(* A request its client has given up never reaches the server.             *)
Drop(s) ==
  /\ Busy(flight[s]) /\ ~flight[s].awaited /\ flight[s].stage = "sent"
  /\ flight' = [flight EXCEPT ![s] = NoRequest]
  /\ UNCHANGED <<store, page, rows, modal, clicks, writes, lost>>

-----------------------------------------------------------------------------
User ==
  \/ Navigate \/ ClickDelete \/ OpenModal \/ ChangeItem
  \/ Type \/ Close \/ ModalDelete \/ ModalSave

Next ==
  \/ Poll
  \/ User
  \/ OtherClient
  \/ \E s \in 1 .. Slots : Serve(s) \/ Answer(s) \/ TimeOut(s) \/ Drop(s)

Spec == Init /\ [][Next]_vars

(* The interval fires, the server gets to its requests, and a promise that *)
(* is settled runs its handler.  The user has to do nothing.               *)
Fairness ==
  /\ WF_vars(Poll)
  /\ \A s \in 1 .. Slots : WF_vars(Serve(s)) /\ WF_vars(Answer(s))

FairSpec == Spec /\ Fairness

-----------------------------------------------------------------------------
(* Properties.                                                             *)

Actions == {flight[s] : s \in {t \in 1 .. Slots :
              Busy(flight[t]) /\ flight[t].kind \in {"delete", "set"}}}

(* Every variable has its type; no two rows have the same id, which is     *)
(* React's key and what the buttons go by; a loading modal has a request.  *)
TypeOK ==
  /\ store \in [Key -> Text \cup {Absent}]
  /\ flight \in [1 .. Slots -> Request \cup {NoRequest}]
  /\ page \in {"keys", "other"}
  /\ rows \in Seq(Row)
  /\ \A i, j \in DOMAIN rows : rows[i].id = rows[j].id => i = j
  /\ modal \in Modal \cup {NoModal}
  /\ modal # NoModal /\ modal.loading =>
       \E s \in 1 .. Slots : Busy(flight[s]) /\ flight[s].kind = "value" /\ flight[s].awaited
  /\ clicks \in 0 .. MaxClicks /\ writes \in 0 .. MaxWrites /\ lost \in 0 .. MaxLost

(* Ids are positions in the last list.  As long as no list arrives, an id  *)
(* that an open modal or a handler in its await holds on to means the key  *)
(* the user saw, whatever other handlers remove or edit meanwhile: both    *)
(* the request and the row to be changed afterwards are the right ones.    *)
OnlyNewListsMislead ==
  /\ \A r \in Actions : ~r.outdated =>
       /\ r.key = r.shown
       /\ \A row \in Range(rows) : row.id = r.id => row.key = r.shown
  /\ modal # NoModal /\ ~modal.outdated =>
       \A row \in Range(rows) : row.id = modal.item.id => row.key = modal.item.key

(* What the modal says it edits is what its buttons change: its title is   *)
(* the key (ViewModal.tsx:34, "Edit - <key>").                             *)
ActsOnWhatItShows == \A r \in Actions : r.key = r.shown

(* The value that an await brings never overwrites what the user has typed *)
(* in the meantime: a step that settles a request leaves the text alone.   *)
(* That is so while the modal keeps the item it was opened with; once a    *)
(* second one is chosen by keyboard, two values are awaited, and the first *)
(* to come lets the user type.                                             *)
TypedTextStays ==
  [][ (modal # NoModal /\ modal' # NoModal /\ modal.typed /\ ~modal.moved /\ flight' # flight)
        => modal'.val = modal.val ]_vars

(* A modal that no longer loads shows the value of the key in its title,   *)
(* or what the user has typed: the effect is there to "fetch real value    *)
(* from backend when modal opens" (ViewModal.tsx:19), for the item it is   *)
(* given.                                                                  *)
ShowsValueOfItsKey ==
  modal # NoModal /\ ~modal.loading /\ ~modal.typed => modal.from = modal.item.key

(* Once nobody changes the keys and the page stays open, it shows them and *)
(* no others, whatever late answers and removals by id have done to it.    *)
(* Not so for a server without keys, whose empty list is ignored.          *)
ListConverges ==
  <>[](page = "keys" /\ Present # {}) => <>[]({row.key : row \in Range(rows)} = Present)

(* The Keys page has a text for that, "No keys in store yet"               *)
(* (KeyExplorerPage.tsx:80): a page that stays open beside a server that   *)
(* stays empty comes to show it.                                           *)
EmptyStoreShown ==
  <>[](page = "keys" /\ Present = {}) => <>[](rows = <<>>)

=============================================================================
