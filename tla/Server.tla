------------------------------- MODULE Server -------------------------------
(***************************************************************************)
(* The server as its clients and its disk see it: one goroutine for each   *)
(* connection runs Server.Dispatch (networking/server.go), which calls the *)
(* store and then the AOF (persistence/aof.go) under separate locks, while *)
(* the AOF is flushed periodically, the process crashes, is stopped by a   *)
(* signal, and starts again from the file (main.go).                       *)
(*                                                                         *)
(* A step of a connection is what it does under one lock.  The reply goes  *)
(* out in the step that appends the command.  Lines are whole here; module *)
(* Replay has their chunks and the capacity of the buffer.  Flush writes   *)
(* and syncs under one lock, hence one sequence for what is on the disk.   *)
(***************************************************************************)
EXTENDS Commands

CONSTANTS
  Client,
  Request(_, _),  \* the commands client c may send as its n-th
  ReadKeys,       \* keys that clients GET
  Invalid,        \* the arg of a SET ... EX whose seconds are not a number
  Lasting,        \* keys that no command gives a deadline
  NoCmd,
  MaxSends,       \* bound: commands a client sends
  MaxStops,       \* bound: crashes and shutdowns
  MaxMidFlushes,  \* bound: periodic flushes that fall into a replay
  Start,          \* the clock at first; deadlines in the past stay positive
  MaxTime         \* bound: the clock stops here

ASSUME ServerAssumption ==
  /\ MaxSends \in Nat /\ MaxStops \in Nat /\ MaxMidFlushes \in Nat /\ MaxTime \in Nat
  /\ Start \in 1 .. MaxTime
  /\ Lasting \subseteq Key /\ ReadKeys \subseteq Key

(* Commands that Dispatch finds no fault with, but for the EX of a SET.    *)
WellFormed(cmd) ==
  LET Seconds == cmd.arg \in Int /\ Start + cmd.arg * Second > 0
  IN  /\ cmd.key \in Key
      /\ \/ cmd.name \in {"DEL", "LPOP", "FLUSHALL"}
         \/ cmd.name \in {"LPUSH", "RPUSH", "SADD"} /\ cmd.vals \in Seq(Val)
         \/ cmd.name = "SET" /\ cmd.vals[1] \in Val /\ (cmd.arg \in {NoArg, Invalid} \/ Seconds)
         \/ cmd.name = "ZADD" /\ cmd.vals[1] \in Val /\ cmd.arg \in Score
         \/ cmd.name = "EXPIRE" /\ Seconds

ASSUME RequestAssumption ==
  \A c \in Client, n \in 1 .. MaxSends : \A cmd \in Request(c, n) : WellFormed(cmd)

VARIABLES
  store,
  now,
  file,     \* lines on the disk
  buffer,   \* lines in the bufio.Writer
  phase,    \* of the process: "serving", "stopping", "down", "replay"
  pos,      \* the line of the file the replay is at
  pc,       \* of each connection: "read", "expire", "append"
  req,      \* the command each connection is working on
  sent,     \* commands each client has sent
  stops,    \* crashes and shutdowns so far
  midFlushes   \* flushes so far that fell into a replay

conn == <<pc, req, sent>>
disk == <<file, buffer>>
process == <<phase, pos, stops, midFlushes>>
vars == <<store, now, disk, process, conn>>

Init ==
  /\ store = EmptyStore
  /\ now = Start
  /\ file = <<>> /\ buffer = <<>>
  /\ phase = "serving" /\ pos = 1 /\ stops = 0 /\ midFlushes = 0
  /\ pc = [c \in Client |-> "read"]
  /\ req = [c \in Client |-> NoCmd]
  /\ sent = [c \in Client |-> 0]

(* Goroutines run on while main is between the last flush and os.Exit.     *)
Running == phase \in {"serving", "stopping"}

-----------------------------------------------------------------------------
(* Connections.                                                            *)

(* Mutant: the deadline is set first, and the SET that follows clears it.  *)
CallDeadlineFirst(c, cmd) ==
  /\ Running
  /\ pc[c] = "read"
  /\ sent[c] < MaxSends
  /\ cmd.arg # Invalid
  /\ store' = FirstCall(IF HasSecondCall(cmd) THEN SecondCall(store, cmd, now) ELSE store,
                        cmd, now)
  /\ sent' = [sent EXCEPT ![c] = @ + 1]
  /\ pc' = [pc EXCEPT ![c] = "append"]
  /\ req' = [req EXCEPT ![c] = cmd]
  /\ UNCHANGED <<now, disk, process>>

(* A mutating command arrives and makes its first call on the store.  SET  *)
(* with an EX that is not a number has then done its work; it is answered  *)
(* with an error and never appended.                                       *)
Call(c, cmd) ==
  /\ Running
  /\ pc[c] = "read"
  /\ sent[c] < MaxSends
  /\ store' = FirstCall(store, cmd, now)
  /\ sent' = [sent EXCEPT ![c] = @ + 1]
  /\ IF cmd.arg = Invalid
     THEN UNCHANGED <<pc, req>>
     ELSE /\ pc' = [pc EXCEPT ![c] = IF HasSecondCall(cmd) THEN "expire" ELSE "append"]
          /\ req' = [req EXCEPT ![c] = cmd]
  /\ UNCHANGED <<now, disk, process>>

SetDeadline(c) ==
  /\ Running
  /\ pc[c] = "expire"
  /\ store' = SecondCall(store, req[c], now)
  /\ pc' = [pc EXCEPT ![c] = "append"]
  /\ UNCHANGED <<now, disk, process, req, sent>>

AppendAndReply(c) ==
  /\ Running
  /\ pc[c] = "append"
  /\ buffer' = Append(buffer, req[c])
  /\ pc' = [pc EXCEPT ![c] = "read"]
  /\ req' = [req EXCEPT ![c] = NoCmd]
  /\ UNCHANGED <<store, now, file, process, sent>>

Get(c, k) ==
  /\ Running
  /\ pc[c] = "read"
  /\ store' = GetLocked(store, k, now)
  /\ UNCHANGED <<now, disk, process, conn>>

-----------------------------------------------------------------------------
(* Background goroutines and the clock.                                    *)

(* The ticker runs from Open on, before main replays the file.             *)
FlushDue ==
  /\ buffer # <<>>
  /\ \/ Running /\ UNCHANGED midFlushes
     \/ phase = "replay" /\ midFlushes < MaxMidFlushes /\ midFlushes' = midFlushes + 1

(* Mutant: the file was opened without O_APPEND.                           *)
FlushTruncating ==
  /\ FlushDue
  /\ file' = buffer
  /\ buffer' = <<>>
  /\ UNCHANGED <<store, now, phase, pos, stops, conn>>

Flush ==
  /\ FlushDue
  /\ file' = file \o buffer
  /\ buffer' = <<>>
  /\ UNCHANGED <<store, now, phase, pos, stops, conn>>

SweepKey(k) ==
  /\ phase # "down"
  /\ Has(store, k) /\ IsExpired(store.data[k], now)
  /\ store' = RemoveLocked(store, k)
  /\ UNCHANGED <<now, disk, process, conn>>

Tick ==
  /\ now < MaxTime
  /\ now' = now + 1
  /\ UNCHANGED <<store, disk, process, conn>>

-----------------------------------------------------------------------------
(* The process.                                                            *)

(* Memory is gone, and with it the buffer; connections are closed.         *)
Die ==
  /\ phase' = "down"
  /\ stops' = stops + 1
  /\ store' = EmptyStore
  /\ buffer' = <<>>
  /\ pc' = [c \in Client |-> "read"]
  /\ req' = [c \in Client |-> NoCmd]
  /\ UNCHANGED <<now, file, pos, midFlushes, sent>>

Crash == phase # "down" /\ stops < MaxStops /\ Die

(* SIGTERM: flush first, then exit; connections are not told.              *)
Signal ==
  /\ phase = "serving"
  /\ stops < MaxStops
  /\ phase' = "stopping"
  /\ file' = file \o buffer
  /\ buffer' = <<>>
  /\ UNCHANGED <<store, now, pos, stops, midFlushes, conn>>

Exit == phase = "stopping" /\ Die

Restart ==
  /\ phase = "down"
  /\ phase' = "replay"
  /\ pos' = 1
  /\ UNCHANGED <<store, now, disk, stops, midFlushes, conn>>

(* The handler dispatches the line, and Dispatch appends it again.         *)
ReplayStep ==
  /\ phase = "replay"
  /\ pos <= Len(file)
  /\ store' = Execute(store, file[pos], now)
  /\ buffer' = Append(buffer, file[pos])
  /\ pos' = pos + 1
  /\ UNCHANGED <<now, file, phase, stops, midFlushes, conn>>

(* Mutant: the last line is not replayed.                                  *)
ReplayEndEarly ==
  /\ phase = "replay"
  /\ pos >= Len(file)
  /\ phase' = "serving"
  /\ UNCHANGED <<store, now, disk, pos, stops, midFlushes, conn>>

ReplayEnd ==
  /\ phase = "replay"
  /\ pos > Len(file)
  /\ phase' = "serving"
  /\ UNCHANGED <<store, now, disk, pos, stops, midFlushes, conn>>

-----------------------------------------------------------------------------
Connection(c) ==
  \/ \E cmd \in Request(c, sent[c] + 1) : Call(c, cmd)
  \/ SetDeadline(c)
  \/ AppendAndReply(c)
  \/ \E k \in ReadKeys : Get(c, k)

Next ==
  \/ \E c \in Client : Connection(c)
  \/ Flush
  \/ \E k \in Key : SweepKey(k)
  \/ Tick
  \/ Crash \/ Signal \/ Exit
  \/ Restart \/ ReplayStep \/ ReplayEnd

Spec == Init /\ [][Next]_vars

-----------------------------------------------------------------------------
(* Properties.                                                             *)

(* Between the commands, the log says what the store holds: replaying it   *)
(* here and now would give the same entries.  aof.go:2-3: every mutating   *)
(* command is serialised, and the file replayed to reconstruct state.      *)
(* Keys with deadlines are left out: the log has durations.                *)
Quiet == phase = "serving" /\ \A c \in Client : pc[c] = "read"

Entries(s) == [k \in Lasting |-> IF Live(s, k, now) THEN s.data[k] ELSE Absent]

LogMatchesStore == Quiet => Entries(store) = Entries(Replayed(file \o buffer, now))

(* Of the keys that have no deadline, those with a SET have one writer,    *)
(* which numbers its values; nothing is evicted or FLUSHALLed.             *)
VersionsNumbered ==
  /\ MaxKeys <= 0
  /\ \A c \in Client, n \in 1 .. MaxSends : \A x \in Request(c, n) :
       /\ x.name # "FLUSHALL"
       /\ x.name = "SET" /\ x.key \in Lasting =>
            \A d \in Client, m \in 1 .. MaxSends : \A y \in Request(d, m) :
              y.key = x.key => d = c /\ y = SetValue(x.key, m)

(* Each of these keys has one writer, and its commands overwrite what they *)
(* change.                                                                 *)
OverwritesByOne ==
  /\ MaxKeys <= 0
  /\ \A c \in Client, n \in 1 .. MaxSends : \A x \in Request(c, n) :
       /\ x.name # "FLUSHALL"
       /\ x.key \in Lasting =>
            /\ x.name \in {"SET", "DEL", "SADD", "ZADD"} /\ x.arg # Invalid
            /\ ~HasSecondCall(x)
            /\ \A d \in Client, m \in 1 .. MaxSends : \A y \in Request(d, m) : y.key = x.key => d = c

(* A version that has been on the disk is not lost.  Where each key has    *)
(* one writer and its values are numbered, what the server serves is at    *)
(* least as new as anything the file holds (aof.go:1-4: the log is there   *)
(* to reconstruct the state, and made durable periodically).               *)
Version(k) == IF Has(store, k) THEN store.data[k].str ELSE 0

DurableStays ==
  Running => \A i \in DOMAIN file :
    file[i].name = "SET" /\ file[i].key \in Lasting =>
      Version(file[i].key) >= file[i].vals[1]

(* This holds through crashes, in the middle of a replay too, shutdowns    *)
(* and restarts, as long as no periodic flush has fallen into a replay: a  *)
(* flush then appends the older lines just replayed behind the newer ones  *)
(* still to come.                                                          *)
NoDurableLoss == midFlushes = 0 => DurableStays

(* While one client sets a value with a deadline, the others do not make   *)
(* the same key.                                                           *)
DeadlinesByOne ==
  \A c, d \in Client, m, n \in 1 .. MaxSends : \A x \in Request(c, m), y \in Request(d, n) :
    c # d /\ HasSecondCall(x) /\ y.key = x.key =>
      y.name \in {"DEL", "EXPIRE", "LPOP", "FLUSHALL"}

(* SET ... EX takes the lock twice.  By the time it is appended, its key   *)
(* has the deadline, or is gone; it is not left without one.               *)
DeadlineSet ==
  \A c \in Client : pc[c] = "append" /\ HasSecondCall(req[c]) =>
    LET k == req[c].key IN Has(store, k) => store.data[k].expiresAt # NoExpiry

=============================================================================
