------------------------------ MODULE Commands ------------------------------
(***************************************************************************)
(* The mutating commands of Server.Dispatch (networking/server.go): which  *)
(* store operation each case of its switch calls, and the line it appends  *)
(* to the AOF.  A parsed command is a record; a line of the AOF is the     *)
(* command it parses to.                                                   *)
(***************************************************************************)
EXTENDS StoreOps

CONSTANT NoArg   \* SET without EX

(* arg is the number of seconds of SET ... EX and EXPIRE, the score of     *)
(* ZADD.  DEL of several keys is one DEL per key here, FLUSHALL ignores    *)
(* its key.                                                                *)
Cmd(name, key, vals, arg) == [name |-> name, key |-> key, vals |-> vals, arg |-> arg]

SetValue(k, v)       == Cmd("SET", k, <<v>>, NoArg)
SetFor(k, v, secs)   == Cmd("SET", k, <<v>>, secs)
Push(k, v)           == Cmd("RPUSH", k, <<v>>, NoArg)
Pop(k)               == Cmd("LPOP", k, <<>>, NoArg)
Delete(k)            == Cmd("DEL", k, <<>>, NoArg)
ExpireIn(k, secs)    == Cmd("EXPIRE", k, <<>>, secs)
AddMember(k, v)      == Cmd("SADD", k, <<v>>, NoArg)
Rank(k, score, v)    == Cmd("ZADD", k, <<v>>, score)

(* The first call a case makes on the store.                               *)
FirstCall(s, c, now) ==
  CASE c.name = "SET"      -> SetCmd(s, c.key, c.vals[1])
    [] c.name = "DEL"      -> DelOne(s, c.key)
    [] c.name = "EXPIRE"   -> ExpireCmd(s, c.key, c.arg * Second, now)
    [] c.name = "LPUSH"    -> LPushCmd(s, c.key, c.vals, now)
    [] c.name = "RPUSH"    -> RPushCmd(s, c.key, c.vals, now)
    [] c.name = "LPOP"     -> LPopCmd(s, c.key, now)
    [] c.name = "SADD"     -> SAddCmd(s, c.key, ToSet(c.vals), now)
    [] c.name = "ZADD"     -> ZAddCmd(s, c.key, c.arg, c.vals[1], now)
    [] c.name = "FLUSHALL" -> EmptyStore

(* SET ... EX makes a second call, under a lock of its own.                *)
HasSecondCall(c) == c.name = "SET" /\ c.arg # NoArg

SecondCall(s, c, now) == ExpireCmd(s, c.key, c.arg * Second, now)

(* A command that nothing interrupts.                                      *)
Execute(s, c, now) ==
  IF HasSecondCall(c)
  THEN SecondCall(FirstCall(s, c, now), c, now)
  ELSE FirstCall(s, c, now)

(* The store after the lines of a log, in order, at one instant.           *)
Replayed(lines, now) ==
  FoldLeft(LAMBDA s, c : Execute(s, c, now), EmptyStore, lines)

=============================================================================
