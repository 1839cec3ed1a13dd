------------------------------ MODULE MCReplay ------------------------------
(***************************************************************************)
(* An instance of Replay for TLC.                                          *)
(***************************************************************************)
EXTENDS Replay

CONSTANTS MaxLog, cut   \* bound on the log; the payload that a cut value reads as

LogCommands ==
  {SetValue(k, v) : k \in Key, v \in Val \ {cut}}
    \cup {Push(k, v) : k \in Key, v \in Val \ {cut}} \cup {Pop(k) : k \in Key}

(* A log that is replayed without end, or again and again, would make its  *)
(* lists grow without end: such logs are made of SET and LPOP.             *)
SteadyCommands == {c \in LogCommands : c.name # "RPUSH"}

LogsOf(commands, size) == UNION {[1 .. n -> commands] : n \in 1 .. size}

MCStarts ==
  [log : LogsOf(SteadyCommands, MaxLog), fsync : BOOLEAN]
    \cup [log : LogsOf(LogCommands, BufCap \div Width), fsync : {FALSE}]

(* Logs too long for the buffer, with no flush.                            *)
MCLong == [log : [1 .. MaxLog -> SteadyCommands], fsync : {FALSE}]

MCCutShort(c) == IF c.name = "SET" THEN {[c EXCEPT !.vals = <<cut>>]} ELSE {}

=============================================================================
