---------------------------- MODULE CommandText ----------------------------
(***************************************************************************)
(* Commands as text: what a client types is cut into tokens (parser.go:    *)
(* Parse, tokenize), a mutating command is written to the AOF as tokens    *)
(* with spaces between (aof.go: Append), and read again line by line at    *)
(* the next start (aof.go: Replay, main.go:45-56), when Dispatch writes it *)
(* once more.  Text is a sequence of bytes.  The command is RPUSH, which   *)
(* takes and appends all it is given; the client types its arguments.      *)
(* The file is what would be on the disk after a flush; a crash leaves     *)
(* some beginning of it.  That the log is short enough to be replayed to   *)
(* its end is left to module Replay.                                       *)
(***************************************************************************)
EXTENDS Integers, SequencesExt

CONSTANTS
  Byte,       \* the bytes a client may type
  MinArgs,    \* arguments the command needs
  MaxScan,    \* bufio.MaxScanTokenSize, 65536
  MaxBytes,   \* bound: bytes typed
  MaxCrashes  \* bound: crashes

ASSUME TextAssumption ==
  Byte \subseteq 0 .. 255 /\ {MinArgs, MaxScan, MaxBytes, MaxCrashes} \subseteq Nat

Space   == 32
Newline == 10
Quote   == 34
Name    == <<82>>

(* unicode.IsSpace of a byte taken for a rune: Latin-1.                    *)
IsSpace(b) == b \in (9 .. 13) \cup {Space, 133, 160}

(* strings.Builder.WriteRune: the UTF-8 of a rune below 256.               *)
WriteRune(b) == IF b < 128 THEN <<b>> ELSE <<192 + (b \div 64), 128 + (b % 64)>>

-----------------------------------------------------------------------------
(* The parser.                                                             *)

TokenEnded(st) ==
  [st EXCEPT !.tokens = IF st.cur = <<>> THEN @ ELSE Append(@, st.cur), !.cur = <<>>]

(* Mutant: a space ends a token, quotes or not.                            *)
TokenStepUnquoted(st, b) ==
  CASE b = Quote                 -> [st EXCEPT !.inQuote = ~@]
    [] IsSpace(b)                -> TokenEnded(st)
    [] b # Quote /\ ~IsSpace(b) -> [st EXCEPT !.cur = @ \o WriteRune(b)]

TokenStep(st, b) ==
  CASE b = Quote                     -> [st EXCEPT !.inQuote = ~@]
    [] ~st.inQuote /\ IsSpace(b)     -> TokenEnded(st)
    [] b # Quote /\ (st.inQuote \/ ~IsSpace(b)) -> [st EXCEPT !.cur = @ \o WriteRune(b)]

(* Mutant: the last token is forgotten when the line ends.                 *)
TokenizeUnfinished(line) ==
  LET end == FoldLeft(TokenStep, [tokens |-> <<>>, cur |-> <<>>, inQuote |-> FALSE], line)
  IN  [ok |-> ~end.inQuote, tokens |-> end.tokens]

Tokenize(line) ==
  LET end == FoldLeft(TokenStep, [tokens |-> <<>>, cur |-> <<>>, inQuote |-> FALSE], line)
  IN  [ok |-> ~end.inQuote, tokens |-> TokenEnded(end).tokens]

(* Dispatch takes the command if it parses and has arguments enough.       *)
Accepted(parsed) == parsed.ok /\ Len(parsed.tokens) >= MinArgs

-----------------------------------------------------------------------------
(* The file.                                                               *)

(* Mutant: no newline is written.                                          *)
SerialiseRunOn(args) == Name \o FlattenSeq([i \in DOMAIN args |-> <<Space>> \o args[i]])

Serialise(args) == Name \o FlattenSeq([i \in DOMAIN args |-> <<Space>> \o args[i]]) \o <<Newline>>

Ends(text) == {i \in DOMAIN text : text[i] = Newline}

Unended(text) == text # <<>> /\ Last(text) # Newline

(* bufio.ScanLines, without the newlines; what follows the last one is a   *)
(* line too.                                                               *)
FileLines(text) ==
  LET all  == Ends(text) \cup (IF Unended(text) THEN {Len(text) + 1} ELSE {})
      ends == [n \in 1 .. Cardinality(all) |->
                 CHOOSE e \in all : Cardinality({d \in all : d <= e}) = n]
      From(n) == IF n = 1 THEN 1 ELSE ends[n - 1] + 1
  IN  [n \in DOMAIN ends |-> SubSeq(text, From(n), ends[n] - 1)]

(* The scanner gives up at a line it has no room for.                      *)
Scanned(text) ==
  LET all == FileLines(text)
      fit == {n \in 0 .. Len(all) : \A i \in 1 .. n : Len(all[i]) < MaxScan}
  IN  SubSeq(all, 1, CHOOSE n \in fit : \A m \in fit : m <= n)

(* A line of the file as Dispatch gets it: a command of this name, or none *)
(* at all.  What follows the name is parsed like what a client types.      *)
(* Replay trims the line first, by runes.  For bytes below 128 Tokenize    *)
(* does as much at both ends of a line, unless a quote is left open there; *)
(* what trimming makes of other bytes, or of blanks after such a quote, is *)
(* left out.  No property that holds is about them.                        *)
Reread(line) ==
  LET parsed == Tokenize(line)
  IN  IF parsed.ok /\ parsed.tokens # <<>> /\ parsed.tokens[1] = Name
         /\ Len(parsed.tokens) > MinArgs
      THEN <<Tail(parsed.tokens)>> ELSE <<>>

ReadAgain(text) == LET all == Scanned(text)
                   IN  FlattenSeq([i \in DOMAIN all |-> Reread(all[i])])

-----------------------------------------------------------------------------
VARIABLES
  line,      \* what the client has typed since the last command
  commands,  \* the arguments of each command executed
  file,      \* the AOF: bytes
  glued,     \* commands whose line begins with what a crash left of another
  typed,     \* bytes typed so far
  crashes    \* crashes so far

textVars == <<line, commands, file, glued, typed, crashes>>

TextInit ==
  /\ line = <<>> /\ commands = <<>> /\ file = <<>> /\ glued = {}
  /\ typed = 0 /\ crashes = 0

TypeByte(b) ==
  /\ typed < MaxBytes
  /\ line' = Append(line, b)
  /\ typed' = typed + 1
  /\ UNCHANGED <<commands, file, glued, crashes>>

(* The line is sent: over TCP, where it ends at its first newline, or in   *)
(* the body of POST /api/exec, where it may have newlines in it.           *)
Send ==
  /\ line # <<>>
  /\ LET parsed == Tokenize(line)
     IN  /\ Accepted(parsed)
         /\ commands' = Append(commands, parsed.tokens)
         /\ file' = file \o Serialise(parsed.tokens)
  /\ line' = <<>>
  /\ UNCHANGED <<glued, typed, crashes>>

Refuse ==
  /\ line # <<>>
  /\ ~Accepted(Tokenize(line))
  /\ line' = <<>>
  /\ UNCHANGED <<commands, file, glued, typed, crashes>>

Rewritten(all) == FlattenSeq([n \in DOMAIN all |-> Serialise(all[n])])

(* The process crashes when the file has got so far, and starts again: it  *)
(* executes what it can read and appends it, without looking whether the   *)
(* file ends with a newline.  The client has a new connection.             *)
CrashAndRestart ==
  /\ crashes < MaxCrashes
  /\ \E size \in 0 .. Len(file) :
       LET left  == SubSeq(file, 1, size)
           whole == Cardinality(Ends(left))
       IN  /\ file' = left \o Rewritten(ReadAgain(left))
           /\ commands' = SubSeq(commands, 1, Min({whole, Len(commands)})) \o ReadAgain(left)
           /\ glued' = {n \in glued : n <= whole} \cup (IF Unended(left) THEN {whole + 1} ELSE {})
  /\ line' = <<>>
  /\ crashes' = crashes + 1
  /\ UNCHANGED typed

TextNext == (\E b \in Byte : TypeByte(b)) \/ Send \/ Refuse \/ CrashAndRestart

TextSpec == TextInit /\ [][TextNext]_textVars

-----------------------------------------------------------------------------
(* Properties.                                                             *)

(* Tokens without a parser: a line is cut at the spaces with an even       *)
(* number of quotes before them, and the quotes are taken out.             *)
Quoted(text, i) == Cardinality({j \in 1 .. i - 1 : text[j] = Quote}) % 2 = 1
Cut(text, i) == IsSpace(text[i]) /\ ~Quoted(text, i)

Pieces(text) ==
  {p \in (DOMAIN text) \X (DOMAIN text) :
     /\ \A i \in p[1] .. p[2] : ~Cut(text, i)
     /\ \E i \in p[1] .. p[2] : text[i] # Quote
     /\ p[1] = 1 \/ Cut(text, p[1] - 1)
     /\ p[2] = Len(text) \/ Cut(text, p[2] + 1)}

PieceText(text, p) ==
  FlattenSeq([i \in 1 .. p[2] - p[1] + 1 |->
    LET b == text[p[1] + i - 1] IN IF b = Quote THEN <<>> ELSE WriteRune(b)])

(* The tokenizer finds these tokens, all of them and in their order, and   *)
(* refuses a line whose quotes do not pair up.                             *)
TokensAreThePieces ==
  LET pieces == Pieces(line)
      got    == Tokenize(line)
  IN  /\ got.ok <=> ~Quoted(line, Len(line) + 1)
      /\ got.ok => \E order \in [DOMAIN got.tokens -> pieces] :
           /\ Range(order) = pieces
           /\ \A m, n \in DOMAIN order : m < n => order[m][1] < order[n][1]
           /\ got.tokens = [n \in DOMAIN order |-> PieceText(line, order[n])]

(* What is written to the file and read back as it was: bytes below 128    *)
(* and no spaces.                                                          *)
IsPlain(args) == \A i \in DOMAIN args : \A j \in DOMAIN args[i] :
                   args[i][j] < 128 /\ ~IsSpace(args[i][j])

OneLine(args) == \A i \in DOMAIN args : \A j \in DOMAIN args[i] : args[i][j] # Newline

(* A command that comes back changed, or not at all, leaves the others     *)
(* alone, and so does a crash in the middle of a line: each plain one is   *)
(* read back from its own line, but for the one that was appended to the   *)
(* half of another, and those after a line the scanner has no room for.    *)
DamageStaysInItsLine ==
  (\A n \in DOMAIN commands : OneLine(commands[n])) =>
    LET all == FileLines(file)
    IN  \A n \in DOMAIN commands : IsPlain(commands[n]) /\ n \notin glued =>
          /\ n \in DOMAIN all
          /\ Reread(all[n]) = <<commands[n]>>
          /\ n \in DOMAIN Scanned(file) \/ \E m \in 1 .. n : Len(all[m]) >= MaxScan

(* Text below 128 settles: what the first restart makes of a command, the  *)
(* second leaves as it is.                                                 *)
OneRestartSettles ==
  LET first == ReadAgain(file)
  IN  (\A i \in DOMAIN file : file[i] < 128) =>
        ReadAgain(Rewritten(first)) = first

(* "Errors in individual lines are logged and skipped" (aof.go:74): a line *)
(* the scanner has room for is handed on, whatever the lines before it.    *)
LineErrorsSkipped ==
  LET all == FileLines(file)
  IN  \A n \in DOMAIN all : Len(all[n]) < MaxScan => n \in DOMAIN Scanned(file)

(* The file is replayed "to reconstruct state" (aof.go:3) of a server      *)
(* whose "quoted strings support spaces" (parser.go:4): without crashes    *)
(* and with lines the scanner has room for, commands come back as sent.    *)
ArgumentsComeBack ==
  crashes = 0 /\ Len(Scanned(file)) = Len(FileLines(file)) => ReadAgain(file) = commands

=============================================================================
