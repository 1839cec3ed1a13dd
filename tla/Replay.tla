------------------------------- MODULE Replay -------------------------------
(***************************************************************************)
(* The start of the process: main.go opens the AOF and feeds every line of *)
(* it to Server.Dispatch, through which all mutating commands go, so that  *)
(* each replayed line is appended to the AOF again (aof.go: Open, Append,  *)
(* Flush, Replay, periodicFsync; main.go:43-59).                           *)
(*                                                                         *)
(* The file is read through a second descriptor while the bufio.Writer may *)
(* be adding to its end.  A line is a run of Width chunks, the last one    *)
(* with the newline; the writer spills its buffer in the middle of a line  *)
(* if that is where it is full.                                            *)
(***************************************************************************)
EXTENDS Commands

CONSTANTS
  Starts,       \* how a process may start: the log it finds, a sequence of
                \* commands, and whether -fsync has the periodic flush run
  Width,        \* chunks in a line
  BufCap,       \* chunks the 64 KiB buffer of the writer holds
  CutShort(_)   \* what a command parses to when the end of its line is missing:
                \* a set of commands, empty if Dispatch would refuse them all

ASSUME ReplayAssumption ==
  /\ \A s \in Starts : s.log \in Seq(ToSet(s.log)) /\ s.fsync \in BOOLEAN
  /\ Width \in Nat \ {0}
  /\ BufCap \in Nat /\ BufCap >= Width

VARIABLES
  log,      \* the file when the process starts
  fsync,    \* whether periodicFsync runs, from Open on
  unread,   \* chunks of the file the scanner has not consumed
  buffer,   \* chunks in the writer, not yet in the file
  store,
  phase     \* "replay", then "serving"

vars == <<log, fsync, unread, buffer, store, phase>>

Chunks(c) == [i \in 1 .. Width |-> <<c, i>>]

LogChunks == [i \in 1 .. Len(log) * Width |->
                <<log[((i - 1) \div Width) + 1], ((i - 1) % Width) + 1>>]

(* The clock plays no part here; see the README for replayed deadlines.    *)
Clock == 1

Init ==
  /\ \E s \in Starts : log = s.log /\ fsync = s.fsync
  /\ unread = LogChunks
  /\ buffer = <<>>
  /\ store = EmptyStore
  /\ phase = "replay"

(* WriteString: a full buffer goes to the file as it is.                   *)
Spilled(chunks) == IF Len(chunks) > BufCap THEN SubSeq(chunks, 1, BufCap) ELSE <<>>
Kept(chunks) == IF Len(chunks) > BufCap
                   THEN SubSeq(chunks, BufCap + 1, Len(chunks)) ELSE chunks

(* Mutant: replayed lines are not appended again.                          *)
ReplayLineOnce ==
  /\ phase = "replay"
  /\ Len(unread) >= Width
  /\ store' = Execute(store, unread[1][1], Clock)
  /\ unread' = SubSeq(unread, Width + 1, Len(unread))
  /\ UNCHANGED <<log, fsync, buffer, phase>>

(* The scanner hands a line to the handler, which dispatches it.           *)
ReplayLine ==
  /\ phase = "replay"
  /\ Len(unread) >= Width
  /\ LET c       == unread[1][1]
         written == buffer \o Chunks(c)
     IN  /\ store' = Execute(store, c, Clock)
         /\ unread' = SubSeq(unread, Width + 1, Len(unread)) \o Spilled(written)
         /\ buffer' = Kept(written)
  /\ UNCHANGED <<log, fsync, phase>>

(* At the end of the file the scanner hands out what is left of a line,    *)
(* and then stops, whatever is written to the file meanwhile.              *)
ReplayTorn ==
  /\ phase = "replay"
  /\ Len(unread) \in 1 .. Width - 1
  /\ \/ \E c \in CutShort(unread[1][1]) :
          /\ store' = Execute(store, c, Clock)
          /\ buffer' = Kept(buffer \o Chunks(c))
     \/ UNCHANGED <<store, buffer>>
  /\ unread' = <<>>
  /\ phase' = "serving"
  /\ UNCHANGED <<log, fsync>>

(* Mutant: the loop ends one line too early.                               *)
ReplayDoneEarly ==
  /\ phase = "replay"
  /\ Len(unread) < 2 * Width
  /\ phase' = "serving"
  /\ UNCHANGED <<log, fsync, unread, buffer, store>>

(* Mutant: the loop waits for the writer to have written everything.       *)
ReplayDoneWritten ==
  /\ phase = "replay"
  /\ unread = <<>>
  /\ buffer = <<>>
  /\ phase' = "serving"
  /\ UNCHANGED <<log, fsync, unread, buffer, store>>

ReplayDone ==
  /\ phase = "replay"
  /\ unread = <<>>
  /\ phase' = "serving"
  /\ UNCHANGED <<log, fsync, unread, buffer, store>>

(* The ticker of periodicFsync runs while the file is replayed.            *)
PeriodicFsync ==
  /\ fsync
  /\ phase = "replay"
  /\ buffer # <<>>
  /\ unread' = unread \o buffer
  /\ buffer' = <<>>
  /\ UNCHANGED <<log, fsync, store, phase>>

Next == ReplayLine \/ ReplayTorn \/ ReplayDone \/ PeriodicFsync

Spec == Init /\ [][Next]_vars

(* main runs the loop; nothing else has to happen for the replay to go on. *)
FairSpec == Spec /\ WF_vars(ReplayLine) /\ WF_vars(ReplayTorn) /\ WF_vars(ReplayDone)

-----------------------------------------------------------------------------
(* Properties.                                                             *)

(* A log whose copy fits the buffer, read with no flush in between.        *)
Short == ~fsync /\ Len(log) <= BufCap \div Width

(* Replaying moves the log round a ring: what Dispatch appends to the      *)
(* buffer is what the scanner took out of the file, so nothing drains.     *)
LogNeverDrains == phase = "replay" => Len(unread) + Len(buffer) = Len(log) * Width

(* What aof.go promises of every start: the file is replayed "line-by-line *)
(* to reconstruct state" (aof.go:3).  A log longer than the buffer never   *)
(* comes so far, and a flush in the middle can bring an older line back.   *)
StateReconstructed == <>(phase = "serving" /\ store = Replayed(log, Clock))

(* A short log is replayed to what its commands say, each applied once,    *)
(* and when the server starts a whole second copy of it is waiting in the  *)
(* buffer: the file doubles with every start.  (Without the conditions of  *)
(* Short this fails: a flush during the replay or a spill has commands     *)
(* executed twice or cut short.)                                           *)
ShortLogRestored ==
  phase = "serving" /\ Short => store = Replayed(log, Clock) /\ buffer = LogChunks

(* A short log is replayed to its end.                                     *)
ShortLogServed == Short ~> phase = "serving"

=============================================================================
