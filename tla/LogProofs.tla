------------------------------ MODULE LogProofs ------------------------------
(***************************************************************************)
(* Proofs about the log of commands, module Replay and module CommandText. *)
(* Replay, for every log, every line width and every size of the buffer,   *)
(* with or without the periodic flush: the log goes round, and one that is *)
(* longer than the buffer by a line is replayed without end; one that fits *)
(* the buffer, with no flush in between, is replayed once.                 *)
(* CommandText, for every alphabet of bytes, every line and every number   *)
(* of crashes: the tokenizer finds the tokens, damage stays in its line,   *)
(* and one restart settles what the file says.                             *)
(***************************************************************************)
EXTENDS Replay, CommandText, StoreOpsProofs, FunctionTheorems

Logs == {s.log : s \in Starts}

(* What the file and the buffer are made of until the server starts: the   *)
(* chunks of the log and of its lines written anew.                        *)
Chunk ==
  LET old == ToSet(LogChunks)
  IN  old \cup {<<x[1], i>> : x \in old, i \in 1 .. Width}

(* LogNeverDrains is about lengths; its steps need the sequences typed and *)
(* the buffer within its capacity, or a spill could take more than a copy. *)
RingInv ==
  /\ log \in Logs
  /\ phase \in {"replay", "serving"}
  /\ phase = "replay" =>
       /\ unread \in Seq(Chunk)
       /\ buffer \in Seq(Chunk)
       /\ Len(buffer) <= BufCap
       /\ Len(unread) + Len(buffer) = Len(log) * Width

LEMMA LogLength ==
  ASSUME log \in Logs
  PROVE  Len(log) \in Nat /\ Len(log) * Width \in Nat
<1>1. log \in Seq(ToSet(log)) /\ Width \in Nat
  BY ReplayAssumption DEF Logs
<1>2. Len(log) \in Nat
  BY <1>1
<1>3. \A m, n \in Nat : m * n \in Nat
  OBVIOUS
<1>4. QED
  BY <1>1, <1>2, <1>3

(* A line written anew is made of the same chunks.                         *)
LEMMA ChunksTyped ==
  ASSUME NEW x \in Chunk
  PROVE  Chunks(x[1]) \in Seq(Chunk) /\ Len(Chunks(x[1])) = Width
<1>1. Width \in Nat
  BY ReplayAssumption
<1>2. ASSUME NEW i \in 1 .. Width PROVE <<x[1], i>> \in Chunk
  <2>1. PICK y \in ToSet(LogChunks) : x[1] = y[1]
    BY DEF Chunk
  <2>2. <<y[1], i>> \in Chunk
    BY <2>1 DEF Chunk
  <2>3. QED
    BY <2>1, <2>2
<1>3. QED
  BY <1>1, <1>2 DEF Chunks

(* A part of a sequence.                                                   *)
LEMMA PartOfSeq ==
  ASSUME NEW S, NEW s \in Seq(S), NEW m \in Nat \ {0}, NEW n \in Nat,
         m <= n + 1, n <= Len(s)
  PROVE  SubSeq(s, m, n) \in Seq(S) /\ Len(SubSeq(s, m, n)) = n + 1 - m
<1>1. Len(s) \in Nat
  BY LenProperties
<1>2. ASSUME NEW i \in m .. n PROVE s[i] \in S
  <2>1. i \in 1 .. Len(s)
    BY <1>1
  <2>2. QED
    BY <2>1, ElementOfSeq
<1>3. m \in Int /\ n \in Int
  OBVIOUS
<1>4. /\ SubSeq(s, m, n) \in Seq(S)
      /\ Len(SubSeq(s, m, n)) = IF m <= n THEN n - m + 1 ELSE 0
  BY <1>2, <1>3, SubSeqProperties
<1>5. QED
  BY <1>4

(* What WriteString spills and what it keeps is what it was given.         *)
LEMMA WriteKeepsLength ==
  ASSUME NEW S, NEW w \in Seq(S), Len(w) <= BufCap + Width
  PROVE  /\ Spilled(w) \in Seq(S) /\ Kept(w) \in Seq(S)
         /\ Len(Spilled(w)) + Len(Kept(w)) = Len(w)
         /\ Len(Kept(w)) <= BufCap
<1>1. BufCap \in Nat /\ Width \in Nat \ {0} /\ Width <= BufCap /\ Len(w) \in Nat
  BY ReplayAssumption, LenProperties
<1>2. CASE Len(w) > BufCap
  <2>1. /\ SubSeq(w, 1, BufCap) \in Seq(S)
        /\ Len(SubSeq(w, 1, BufCap)) = BufCap + 1 - 1
    BY <1>1, <1>2, PartOfSeq
  <2>2. /\ SubSeq(w, BufCap + 1, Len(w)) \in Seq(S)
        /\ Len(SubSeq(w, BufCap + 1, Len(w))) = Len(w) + 1 - (BufCap + 1)
    BY <1>1, <1>2, PartOfSeq
  <2>3. /\ Spilled(w) = SubSeq(w, 1, BufCap)
        /\ Kept(w) = SubSeq(w, BufCap + 1, Len(w))
    BY <1>2 DEF Spilled, Kept
  <2>4. Len(Spilled(w)) = BufCap /\ Len(Kept(w)) = Len(w) - BufCap
    BY <1>1, <2>1, <2>2, <2>3
  <2>5. Spilled(w) \in Seq(S) /\ Kept(w) \in Seq(S)
    BY <2>1, <2>2, <2>3
  <2> HIDE DEF Spilled, Kept
  <2>6. QED
    BY <1>1, <2>4, <2>5
<1>3. CASE ~(Len(w) > BufCap)
  BY <1>1, <1>3 DEF Spilled, Kept
<1>4. QED
  BY <1>2, <1>3

LEMMA InitRing == Init => RingInv
<1> SUFFICES ASSUME Init PROVE RingInv
  OBVIOUS
<1>1. log \in Logs /\ unread = LogChunks /\ buffer = <<>> /\ phase = "replay"
  BY DEF Init, Logs
<1>2. Len(log) * Width \in Nat
  BY <1>1, LogLength
<1>3. LogChunks \in Seq(ToSet(LogChunks)) /\ Len(LogChunks) = Len(log) * Width
  <2>1. PICK n \in Nat : n = Len(log) * Width
    BY <1>2
  <2>2. DOMAIN LogChunks = 1 .. n /\ LogChunks = [i \in 1 .. n |-> LogChunks[i]]
    BY <2>1 DEF LogChunks
  <2> HIDE DEF LogChunks
  <2>3. \A i \in 1 .. n : LogChunks[i] \in ToSet(LogChunks)
    BY <2>2 DEF ToSet
  <2>4. LogChunks \in [1 .. n -> ToSet(LogChunks)]
    BY <2>2, <2>3
  <2>5. QED
    BY <2>1, <2>4
<1>4. LogChunks \in Seq(Chunk)
  BY <1>3 DEF Chunk
<1>5. BufCap \in Nat
  BY ReplayAssumption
<1>6. QED
  BY <1>1, <1>2, <1>3, <1>4, <1>5 DEF RingInv

LEMMA NextRing == RingInv /\ [Next]_vars => RingInv'
<1> SUFFICES ASSUME RingInv, [Next]_vars PROVE RingInv'
  OBVIOUS
<1> USE DEF RingInv
<1>0. BufCap \in Nat /\ Width \in Nat \ {0} /\ Len(log) * Width \in Nat
  BY LogLength, ReplayAssumption
<1>1. CASE ReplayLine
  <2> DEFINE w    == buffer \o Chunks(unread[1][1])
             rest == SubSeq(unread, Width + 1, Len(unread))
  <2>1. /\ phase = "replay" /\ phase' = phase /\ log' = log
        /\ Len(unread) >= Width
        /\ unread' = rest \o Spilled(w) /\ buffer' = Kept(w)
    BY <1>1 DEF ReplayLine
  <2>2. unread[1] \in Chunk
    <3>1. unread \in Seq(Chunk) /\ Len(unread) \in Nat /\ 1 \in 1 .. Len(unread)
      BY <1>0, <2>1, LenProperties
    <3>2. QED
      BY <3>1, ElementOfSeq
  <2>3. /\ Chunks(unread[1][1]) \in Seq(Chunk)
        /\ Len(Chunks(unread[1][1])) = Width
    BY <2>2, ChunksTyped
  <2>4. w \in Seq(Chunk) /\ Len(w) = Len(buffer) + Width
    BY <2>1, <2>3, ConcatProperties
  <2>5. rest \in Seq(Chunk) /\ Len(rest) = Len(unread) - Width
    <3>1. unread \in Seq(Chunk) /\ Len(unread) \in Nat
      BY <2>1, LenProperties
    <3>2. /\ rest \in Seq(Chunk)
          /\ Len(rest) = Len(unread) + 1 - (Width + 1)
      BY <1>0, <2>1, <3>1, PartOfSeq
    <3>3. QED
      BY <1>0, <3>1, <3>2
  <2> HIDE DEF w, rest
  <2>6. /\ Spilled(w) \in Seq(Chunk) /\ Kept(w) \in Seq(Chunk)
        /\ Len(Spilled(w)) + Len(Kept(w)) = Len(w)
        /\ Len(Kept(w)) <= BufCap
    <3>1. Len(buffer) \in Nat /\ Len(buffer) <= BufCap
      BY <2>1, LenProperties
    <3>2. Len(w) <= BufCap + Width
      BY <1>0, <2>4, <3>1
    <3>3. QED
      BY <2>4, <3>2, WriteKeepsLength
  <2>7. /\ rest \o Spilled(w) \in Seq(Chunk)
        /\ Len(rest \o Spilled(w)) = Len(rest) + Len(Spilled(w))
    BY <2>5, <2>6, ConcatProperties
  <2>8. Chunk' = Chunk
    BY <2>1 DEF Chunk, LogChunks
  <2>9. Len(unread') + Len(buffer') = Len(log') * Width
    <3>1. /\ Len(buffer) \in Nat /\ Len(unread) \in Nat
          /\ Len(Spilled(w)) \in Nat /\ Len(Kept(w)) \in Nat
      BY <2>1, <2>6, LenProperties
    <3>2. PICK n \in Nat : n = Len(log) * Width /\ Len(unread) + Len(buffer) = n
      BY <1>0, <2>1
    <3>3. Len(rest) + Len(Spilled(w)) + Len(Kept(w)) = n
      <4>1. Len(Spilled(w)) + Len(Kept(w)) = Len(buffer) + Width
        BY <2>4, <2>6
      <4>2. Len(rest) = Len(unread) - Width
        BY <2>5
      <4>3. Width \in Nat
        BY <1>0
      <4>4. QED
        BY <3>1, <3>2, <4>1, <4>2, <4>3
    <3>4. /\ Len(unread') = Len(rest) + Len(Spilled(w))
          /\ Len(buffer') = Len(Kept(w))
      BY <2>1, <2>7
    <3>5. Len(log') * Width = n
      BY <2>1, <3>2
    <3>6. QED
      BY <3>3, <3>4, <3>5
  <2>10. QED
    BY <2>1, <2>6, <2>7, <2>8, <2>9
<1>2. CASE ReplayTorn
  BY <1>2 DEF ReplayTorn
<1>3. CASE ReplayDone
  BY <1>3 DEF ReplayDone
<1>4. CASE PeriodicFsync
  <2>1. /\ phase = "replay" /\ phase' = phase /\ log' = log
        /\ unread' = unread \o buffer /\ buffer' = <<>>
    BY <1>4 DEF PeriodicFsync
  <2>2. Chunk' = Chunk
    BY <2>1 DEF Chunk, LogChunks
  <2>3. unread' \in Seq(Chunk) /\ Len(unread') = Len(unread) + Len(buffer)
    BY <2>1, ConcatProperties
  <2>4. QED
    BY <1>0, <2>1, <2>2, <2>3
<1>5. CASE UNCHANGED vars
  BY <1>5 DEF vars, Chunk, LogChunks
<1>6. QED
  BY <1>1, <1>2, <1>3, <1>4, <1>5 DEF Next

(* The log goes round: whatever the scanner takes out of the file comes    *)
(* back to it through the buffer.                                          *)
THEOREM LogGoesRound == Spec => []LogNeverDrains
<1>1. RingInv => LogNeverDrains
  BY DEF RingInv, LogNeverDrains
<1>2. QED
  BY <1>1, InitRing, NextRing, PTL DEF Spec

(* A log longer than the 64 KiB buffer by a line feeds itself: the scanner *)
(* is never at the end of the file, and main never reaches ListenAndServe. *)
LongLogNeverServed == Len(log) * Width >= BufCap + Width => phase = "replay"

(* What StateReconstructed fails by, for every log, width and buffer.      *)
THEOREM LongLogReplayedForever == Spec => []LongLogNeverServed
<1> DEFINE Long == Len(log) * Width >= BufCap + Width
           Inv  == RingInv /\ LongLogNeverServed
<1>1. Init => Inv
  BY InitRing DEF Init, LongLogNeverServed
<1>2. Inv /\ [Next]_vars => Inv'
  <2> SUFFICES ASSUME Inv, [Next]_vars PROVE LongLogNeverServed'
    BY NextRing
  <2>1. log' = log
    BY DEF Next, ReplayLine, ReplayTorn, ReplayDone, PeriodicFsync, vars
  <2>2. SUFFICES ASSUME Long PROVE phase' = "replay"
    BY <2>1 DEF LongLogNeverServed
  <2>3. phase = "replay"
    BY <2>2 DEF LongLogNeverServed
  <2>4. Len(unread) >= Width
    <3>1. /\ Len(unread) \in Nat /\ Len(buffer) \in Nat
          /\ Len(buffer) <= BufCap
          /\ Len(unread) + Len(buffer) = Len(log) * Width
      BY <2>3 DEF RingInv
    <3>2. BufCap \in Nat /\ Width \in Nat /\ Len(log) * Width \in Nat
      BY LogLength, ReplayAssumption DEF RingInv
    <3>3. QED
      BY <2>2, <3>1, <3>2
  <2>5. ~ReplayTorn
    BY <2>4, ReplayAssumption DEF ReplayTorn
  <2>6. ~ReplayDone
    BY <2>4, ReplayAssumption DEF ReplayDone
  <2>7. QED
    BY <2>3, <2>5, <2>6 DEF Next, ReplayLine, PeriodicFsync, vars
<1>3. Inv => LongLogNeverServed
  OBVIOUS
<1>4. QED
  BY <1>1, <1>2, <1>3, PTL DEF Spec

-----------------------------------------------------------------------------
(* Lines and chunks, counted.                                              *)

LEMMA LineOfChunk ==
  ASSUME NEW w \in Nat \ {0}, NEW k \in Nat, NEW i \in 0 .. w - 1
  PROVE  (k * w + i) \div w = k /\ (k * w + i) % w = i
OBVIOUS

LEMMA OneLineMore ==
  ASSUME NEW w \in Nat \ {0}, NEW k \in Nat
  PROVE  (k + 1) * w = k * w + w /\ k * w \in Nat
OBVIOUS

LEMMA FewerLines ==
  ASSUME NEW w \in Nat \ {0}, NEW k \in Nat, NEW n \in Nat, k <= n
  PROVE  k * w <= n * w
OBVIOUS

LEMMA LinesThatFit ==
  ASSUME NEW w \in Nat \ {0}, NEW c \in Nat, NEW n \in Nat, n <= c \div w
  PROVE  n * w <= c
OBVIOUS

(* The chunks of line k + 1.                                               *)
LEMMA ChunksOfLine ==
  ASSUME log \in Logs, NEW k \in Nat, k < Len(log), NEW i \in 1 .. Width
  PROVE  /\ k * Width + i \in 1 .. Len(log) * Width
         /\ LogChunks[k * Width + i] = <<log[k + 1], i>>
<1>0. Width \in Nat \ {0} /\ Len(log) \in Nat /\ Len(log) * Width \in Nat
  BY LogLength, ReplayAssumption
<1>1. k * Width \in Nat /\ (k + 1) * Width = k * Width + Width
      /\ (k + 1) * Width <= Len(log) * Width
  BY <1>0, OneLineMore, FewerLines
<1>2. PICK p \in Nat : p = k * Width
  BY <1>1
<1>3. PICK n \in Nat : n = Len(log) * Width
  BY <1>0
<1>4. p + i \in 1 .. n /\ i - 1 \in 0 .. Width - 1 /\ p + i - 1 = p + (i - 1)
  BY <1>0, <1>1, <1>2, <1>3
<1>5. (p + i - 1) \div Width = k /\ (p + i - 1) % Width = i - 1
  BY <1>0, <1>2, <1>4, LineOfChunk
<1>6. LogChunks[p + i] = <<log[((p + i - 1) \div Width) + 1], ((p + i - 1) % Width) + 1>>
  BY <1>3, <1>4 DEF LogChunks
<1>7. QED
  BY <1>2, <1>3, <1>4, <1>5, <1>6

-----------------------------------------------------------------------------
(* A short log: k of its lines are done, their copies are the buffer and   *)
(* nothing was spilled, the rest is unread, and the store is what those k  *)
(* lines make of an empty one.                                             *)
Done(g, k) ==
  /\ IsRun(g, log, Clock) /\ Replayed(log, Clock) = g[Len(log)]
  /\ store = g[k]
  /\ Len(buffer) = k * Width
  /\ \A i \in 1 .. Len(buffer) : buffer[i] = LogChunks[i]
  /\ \A i \in 1 .. Len(unread) : unread[i] = LogChunks[k * Width + i]

RestoreInv ==
  /\ RingInv
  /\ phase = "replay" /\ Short => \E k \in 0 .. Len(log) : \E g : Done(g, k)
  /\ ShortLogRestored

LEMMA LogTyped ==
  ASSUME log \in Logs
  PROVE  /\ log \in Seq(ToSet(log)) /\ Len(log) \in Nat /\ Len(log) * Width \in Nat
         /\ LogChunks \in Seq(Chunk) /\ Len(LogChunks) = Len(log) * Width
         /\ Width \in Nat \ {0} /\ BufCap \in Nat
<1>1. log \in Seq(ToSet(log)) /\ Width \in Nat \ {0} /\ BufCap \in Nat
  BY ReplayAssumption DEF Logs
<1>2. Len(log) \in Nat /\ Len(log) * Width \in Nat
  BY LogLength
<1>3. PICK n \in Nat : n = Len(log) * Width
  BY <1>2
<1>4. DOMAIN LogChunks = 1 .. n /\ LogChunks = [i \in 1 .. n |-> LogChunks[i]]
  BY <1>3 DEF LogChunks
<1> HIDE DEF LogChunks
<1>5. \A i \in 1 .. n : LogChunks[i] \in Chunk
  BY <1>4 DEF Chunk, ToSet
<1>6. LogChunks \in Seq(Chunk) /\ Len(LogChunks) = n
  BY <1>3, <1>4, <1>5
<1>7. QED
  BY <1>1, <1>2, <1>3, <1>6

LEMMA InitRestore == Init => RestoreInv
<1> SUFFICES ASSUME Init PROVE RestoreInv
  OBVIOUS
<1>1. /\ log \in Logs /\ unread = LogChunks /\ buffer = <<>>
      /\ store = EmptyStore /\ phase = "replay"
  BY DEF Init, Logs
<1>2. PICK g : IsRun(g, log, Clock) /\ Replayed(log, Clock) = g[Len(log)]
  BY <1>1, LogTyped, ReplayedRuns
<1>3. 0 * Width = 0 /\ 0 \in 0 .. Len(log)
  BY <1>1, LogTyped
<1>4. \A i \in 1 .. Len(unread) : unread[i] = LogChunks[0 * Width + i]
  <2>1. \A i \in 1 .. Len(unread) : 0 * Width + i = i
    BY <1>3
  <2>2. QED
    BY <1>1, <2>1
<1>5. Done(g, 0)
  BY <1>1, <1>2, <1>3, <1>4 DEF Done, IsRun
<1>6. QED
  BY <1>1, <1>3, <1>5, InitRing DEF RestoreInv, ShortLogRestored

LEMMA LineRestored ==
  ASSUME RestoreInv, ReplayLine, Short
  PROVE  \E k \in 0 .. Len(log) : \E g : Done(g, k)'
<1>0. /\ RingInv /\ log \in Logs /\ phase = "replay" /\ log' = log
      /\ unread \in Seq(Chunk) /\ buffer \in Seq(Chunk)
      /\ Len(unread) + Len(buffer) = Len(log) * Width
      /\ Len(unread) >= Width
  BY DEF RestoreInv, RingInv, ReplayLine
<1>1. /\ Width \in Nat \ {0} /\ BufCap \in Nat /\ Len(log) \in Nat
      /\ Len(log) * Width \in Nat
      /\ Len(unread) \in Nat /\ Len(buffer) \in Nat
  BY <1>0, LogTyped, LenProperties
<1>2. PICK k \in 0 .. Len(log) : \E g : Done(g, k)
  BY <1>0 DEF RestoreInv
<1>3. PICK g : Done(g, k)
  BY <1>2
<1>4. PICK n \in Nat : n = Len(log) * Width
  BY <1>1
<1>5. PICK p \in Nat : p = k * Width
  BY <1>1, OneLineMore
<1>6. Len(buffer) = p /\ Len(unread) = n - p /\ n <= BufCap
  <2>1. Len(buffer) = p
    BY <1>3, <1>5 DEF Done
  <2>2. n <= BufCap
    BY <1>1, <1>4, LinesThatFit DEF Short
  <2>3. QED
    BY <1>0, <1>1, <1>4, <2>1, <2>2
<1>7. k < Len(log)
  <2>1. SUFFICES ASSUME k = Len(log) PROVE FALSE
    BY <1>1
  <2>2. p = n
    BY <2>1, <1>4, <1>5
  <2>3. QED
    BY <1>0, <1>1, <1>6, <2>2
<1>8. (k + 1) * Width = p + Width /\ p + Width <= n /\ k + 1 \in 0 .. Len(log)
  BY <1>1, <1>4, <1>5, <1>7, OneLineMore, FewerLines
<1>9. \A i \in 1 .. Width : LogChunks[p + i] = <<log[k + 1], i>>
  <2> SUFFICES ASSUME NEW i \in 1 .. Width PROVE LogChunks[p + i] = <<log[k + 1], i>>
    OBVIOUS
  <2>1. k \in Nat
    BY <1>1
  <2>2. LogChunks[k * Width + i] = <<log[k + 1], i>>
    BY <1>0, <1>7, <2>1, ChunksOfLine
  <2>3. QED
    BY <1>5, <2>2
<1>10. unread[1][1] = log[k + 1]
  <2>1. 1 \in 1 .. Len(unread) /\ 1 \in 1 .. Width
    BY <1>0, <1>1
  <2>2. unread[1] = LogChunks[p + 1]
    BY <1>3, <1>5, <2>1 DEF Done
  <2>3. QED
    BY <1>9, <2>1, <2>2
<1> DEFINE c == log[k + 1]
           w == buffer \o Chunks(c)
<1>11. /\ w \in Seq(Chunk) /\ Len(w) = p + Width
       /\ \A i \in 1 .. p + Width : w[i] = LogChunks[i]
  <2>1. unread[1] \in Chunk
    BY <1>0, <1>1, ElementOfSeq
  <2>2. Chunks(c) \in Seq(Chunk) /\ Len(Chunks(c)) = Width
    BY <1>10, <2>1, ChunksTyped
  <2>3. \A i \in 1 .. Width : Chunks(c)[i] = <<c, i>>
    BY DEF Chunks
  <2> HIDE DEF c
  <2>4. /\ w \in Seq(Chunk) /\ Len(w) = p + Width
        /\ \A i \in 1 .. p + Width : w[i] = IF i <= p THEN buffer[i] ELSE Chunks(c)[i - p]
    BY <1>0, <1>1, <1>6, <2>2, ConcatProperties
  <2> HIDE DEF w
  <2>5. ASSUME NEW i \in 1 .. p + Width PROVE w[i] = LogChunks[i]
    <3>1. CASE i <= p
      <4>1. i \in 1 .. Len(buffer)
        BY <1>6, <3>1
      <4>2. buffer[i] = LogChunks[i]
        BY <1>3, <4>1 DEF Done
      <4>3. QED
        BY <2>4, <3>1, <4>2
    <3>2. CASE ~(i <= p)
      <4>1. i - p \in 1 .. Width /\ p + (i - p) = i
        BY <1>1, <3>2
      <4>2. LogChunks[i] = <<c, i - p>>
        BY <1>9, <4>1 DEF c
      <4>3. QED
        BY <2>3, <2>4, <3>2, <4>1, <4>2
    <3>3. QED
      BY <3>1, <3>2
  <2>6. QED
    BY <2>4, <2>5
<1> HIDE DEF w
<1>12. Spilled(w) = <<>> /\ Kept(w) = w
  BY <1>1, <1>6, <1>8, <1>11 DEF Spilled, Kept
<1>13. /\ store' = Execute(store, c, Clock)
       /\ unread' = SubSeq(unread, Width + 1, Len(unread)) \o <<>>
       /\ buffer' = w
  BY <1>10, <1>12 DEF ReplayLine, w
<1> HIDE DEF c
<1> DEFINE rest == SubSeq(unread, Width + 1, Len(unread))
<1>14. /\ rest \in Seq(Chunk) /\ Len(rest) = Len(unread) - Width
       /\ \A i \in 1 .. Len(rest) : rest[i] = unread[Width + i]
  <2>1. Width + 1 \in 1 .. Len(unread) + 1 /\ Len(unread) \in 0 .. Len(unread)
    BY <1>0, <1>1
  <2>2. \A i \in Width + 1 .. Len(unread) : unread[i] \in Chunk
    <3>1. \A i \in Width + 1 .. Len(unread) : i \in 1 .. Len(unread)
      BY <1>1
    <3>2. QED
      BY <1>0, <3>1, ElementOfSeq
  <2>3. QED
    BY <1>0, <1>1, <2>1, <2>2, SubSeqProperties
<1>15. unread' = rest
  BY <1>13, <1>14
<1> HIDE DEF rest
<1>16. \A i \in 1 .. Len(unread') : unread'[i] = LogChunks[(k + 1) * Width + i]
  <2> SUFFICES ASSUME NEW i \in 1 .. Len(rest) PROVE rest[i] = LogChunks[(k + 1) * Width + i]
    BY <1>15
  <2>1. Width + i \in 1 .. Len(unread) /\ p + (Width + i) = (p + Width) + i
    BY <1>1, <1>14
  <2>2. rest[i] = unread[Width + i] /\ unread[Width + i] = LogChunks[k * Width + (Width + i)]
    BY <1>3, <1>14, <2>1 DEF Done
  <2>3. QED
    BY <1>5, <1>8, <2>1, <2>2
<1>17. store' = g[k + 1]
  <2>1. k + 1 \in 1 .. Len(log) /\ (k + 1) - 1 = k
    BY <1>1, <1>7
  <2>2. g[k + 1] = Execute(g[k], log[k + 1], Clock)
    BY <1>3, <2>1 DEF Done, IsRun
  <2>3. QED
    BY <1>3, <1>13, <2>2 DEF Done, c
<1>18. Len(buffer') = (k + 1) * Width /\ \A i \in 1 .. Len(buffer') : buffer'[i] = LogChunks[i]
  BY <1>8, <1>11, <1>13
<1>19. LogChunks' = LogChunks
  BY <1>0 DEF LogChunks
<1>20. Done(g, k + 1)'
  BY <1>0, <1>3, <1>16, <1>17, <1>18, <1>19 DEF Done
<1>21. QED
  BY <1>8, <1>20

(* The scanner is at the end of the file only when all lines are done.     *)
LEMMA EndRestored ==
  ASSUME RestoreInv, phase = "replay", Short, Len(unread) < Width
  PROVE  unread = <<>> /\ store = Replayed(log, Clock) /\ buffer = LogChunks
<1>0. /\ RingInv /\ log \in Logs
      /\ unread \in Seq(Chunk) /\ buffer \in Seq(Chunk)
      /\ Len(unread) + Len(buffer) = Len(log) * Width
  BY DEF RestoreInv, RingInv
<1>1. /\ Width \in Nat \ {0} /\ Len(log) \in Nat
      /\ Len(log) * Width \in Nat
      /\ Len(unread) \in Nat /\ Len(buffer) \in Nat
      /\ LogChunks \in Seq(Chunk) /\ Len(LogChunks) = Len(log) * Width
  BY <1>0, LogTyped, LenProperties
<1>2. PICK k \in 0 .. Len(log) : \E g : Done(g, k)
  BY DEF RestoreInv
<1>3. PICK g : Done(g, k)
  BY <1>2
<1>4. k = Len(log)
  <2>1. SUFFICES ASSUME k < Len(log) PROVE FALSE
    BY <1>1
  <2>2. (k + 1) * Width = k * Width + Width /\ k * Width \in Nat
        /\ (k + 1) * Width <= Len(log) * Width
    BY <1>1, <2>1, OneLineMore, FewerLines
  <2>3. Len(buffer) = k * Width
    BY <1>3 DEF Done
  <2>4. PICK p \in Nat, n \in Nat : p = k * Width /\ n = Len(log) * Width /\ p + Width <= n
    BY <1>1, <2>2
  <2>5. QED
    BY <1>0, <1>1, <2>3, <2>4
<1>5. Len(buffer) = Len(log) * Width /\ store = Replayed(log, Clock)
  BY <1>3, <1>4 DEF Done
<1>6. buffer = LogChunks
  <2>1. \A i \in 1 .. Len(buffer) : buffer[i] = LogChunks[i]
    BY <1>3 DEF Done
  <2>2. QED
    BY <1>0, <1>1, <1>5, <2>1, SeqEqual
<1>7. Len(unread) = 0
  BY <1>0, <1>1, <1>5
<1>8. QED
  BY <1>0, <1>5, <1>6, <1>7, EmptySeq

LEMMA NextRestore == RestoreInv /\ [Next]_vars => RestoreInv'
<1> SUFFICES ASSUME RestoreInv, [Next]_vars PROVE RestoreInv'
  OBVIOUS
<1>0. RingInv /\ RingInv'
  BY NextRing DEF RestoreInv
<1>1. CASE ReplayLine
  <2>1. phase' = "replay" /\ log' = log /\ (Short' => Short)
    BY <1>1 DEF ReplayLine, Short
  <2>2. QED
    BY <1>0, <1>1, <2>1, LineRestored DEF RestoreInv, ShortLogRestored
<1>2. CASE ReplayTorn
  <2>1. /\ phase = "replay" /\ phase' = "serving" /\ log' = log /\ (Short' => Short)
        /\ Len(unread) \in 1 .. Width - 1
    BY <1>2 DEF ReplayTorn, Short
  <2>2. ~Short
    <3> SUFFICES ASSUME Short PROVE FALSE
      OBVIOUS
    <3>1. Len(unread) < Width
      BY <2>1, ReplayAssumption
    <3>2. unread = <<>>
      BY <2>1, <3>1, EndRestored
    <3>3. QED
      BY <2>1, <3>2
  <2>3. QED
    BY <1>0, <2>1, <2>2 DEF RestoreInv, ShortLogRestored
<1>3. CASE ReplayDone
  <2>1. /\ phase = "replay" /\ phase' = "serving" /\ log' = log /\ (Short' => Short)
        /\ store' = store /\ buffer' = buffer /\ unread = <<>>
    BY <1>3 DEF ReplayDone, Short
  <2>2. Short => store = Replayed(log, Clock) /\ buffer = LogChunks
    <3>1. Len(unread) < Width
      BY <2>1, ReplayAssumption
    <3>2. QED
      BY <2>1, <3>1, EndRestored
  <2>3. LogChunks' = LogChunks
    BY <2>1 DEF LogChunks
  <2>4. QED
    BY <1>0, <2>1, <2>2, <2>3 DEF RestoreInv, ShortLogRestored
<1>4. CASE PeriodicFsync
  <2>1. ~Short' /\ phase' = "replay"
    BY <1>4 DEF PeriodicFsync, Short
  <2>2. QED
    BY <1>0, <2>1 DEF RestoreInv, ShortLogRestored
<1>5. CASE UNCHANGED vars
  <2>1. UNCHANGED <<log, fsync, unread, buffer, store, phase>>
    BY <1>5 DEF vars
  <2>2. LogChunks' = LogChunks /\ (Short' <=> Short)
    BY <2>1 DEF LogChunks, Short
  <2>3. \A k, g : Done(g, k)' <=> Done(g, k)
    BY <2>1, <2>2 DEF Done
  <2>4. QED
    BY <1>0, <2>1, <2>2, <2>3 DEF RestoreInv, ShortLogRestored
<1>6. QED
  BY <1>1, <1>2, <1>3, <1>4, <1>5 DEF Next

(* A log that fits the buffer, without a flush in between: when the server *)
(* starts, each of its commands was applied once, in order, and a second   *)
(* copy of the log is in the buffer.                                       *)
THEOREM ShortLogReplayedOnce == Spec => []ShortLogRestored
<1>1. RestoreInv => ShortLogRestored
  BY DEF RestoreInv
<1>2. QED
  BY <1>1, InitRestore, NextRestore, PTL DEF Spec

-----------------------------------------------------------------------------
(* Sequences.                                                              *)

LEMMA SeqWider ==
  ASSUME NEW S, NEW T, S \subseteq T, NEW s \in Seq(S)
  PROVE  s \in Seq(T)
<1>1. Len(s) \in Nat /\ s = [i \in 1 .. Len(s) |-> s[i]] /\ \A i \in 1 .. Len(s) : s[i] \in S
  OBVIOUS
<1>2. \A i \in 1 .. Len(s) : s[i] \in T
  BY <1>1
<1>3. QED
  BY <1>1, <1>2

LEMMA FrontAndLast ==
  ASSUME NEW S, NEW n \in Nat, NEW s \in Seq(S), Len(s) = n + 1
  PROVE  /\ SubSeq(s, 1, n) \in Seq(S) /\ Len(SubSeq(s, 1, n)) = n /\ s[n + 1] \in S
         /\ s = Append(SubSeq(s, 1, n), s[n + 1])
OBVIOUS

LEMMA ConcatAppend ==
  ASSUME NEW S, NEW a \in Seq(S), NEW b \in Seq(S), NEW x \in S
  PROVE  Append(b, x) = b \o <<x>> /\ a \o Append(b, x) = Append(a \o b, x)
<1>1. <<x>> \in Seq(S)
  OBVIOUS
<1>2. \A s \in Seq(S) : Append(s, x) = s \o <<x>>
  <2> SUFFICES ASSUME NEW s \in Seq(S) PROVE Append(s, x) = s \o <<x>>
    OBVIOUS
  <2>1. Append(s, x) \in Seq(S) /\ s \o <<x>> \in Seq(S)
    BY <1>1, AppendProperties, ConcatProperties
  <2>2. Len(s) \in Nat /\ Len(<<x>>) = 1 /\ Len(Append(s, x)) = Len(s) + 1 /\ Len(s \o <<x>>) = Len(s) + 1
    BY <1>1, ConcatProperties
  <2>3. ASSUME NEW i \in 1 .. Len(s) + 1 PROVE Append(s, x)[i] = (s \o <<x>>)[i]
    <3>1. CASE i = Len(s) + 1
      <4>1. (s \o <<x>>)[i] = x /\ Append(s, x)[i] = x
        BY <1>1, <2>2, <3>1, ConcatProperties
      <4>2. QED
        BY <4>1
    <3>2. CASE i # Len(s) + 1
      <4>1. i \in 1 .. Len(s)
        BY <3>2
      <4>2. (s \o <<x>>)[i] = s[i] /\ Append(s, x)[i] = s[i]
        BY <1>1, <2>2, <4>1, ConcatProperties, AppendProperties
      <4>3. QED
        BY <4>2
    <3>3. QED
      BY <3>1, <3>2
  <2>4. QED
    BY <2>1, <2>2, <2>3, SeqEqual
<1>3. a \o b \in Seq(S) /\ (a \o b) \o <<x>> = a \o (b \o <<x>>)
  BY <1>1, ConcatProperties, ConcatAssociative
<1>4. QED
  BY <1>2, <1>3

LEMMA HeadAndTail ==
  ASSUME NEW S, NEW s \in Seq(S), s # <<>>
  PROVE  s = <<s[1]>> \o Tail(s)
<1> DEFINE n == Len(s)
           t == Tail(s)
           all == <<s[1]>> \o t
<1>1. n \in Nat /\ n >= 1 /\ s[1] \in S
  OBVIOUS
<1>2. t \in Seq(S) /\ Len(t) = n - 1 /\ \A i \in 1 .. Len(t) : t[i] = s[i + 1]
  BY HeadTailProperties
<1>3. <<s[1]>> \in Seq(S) /\ Len(<<s[1]>>) = 1 /\ <<s[1]>>[1] = s[1]
  BY <1>1
<1>4. /\ all \in Seq(S) /\ Len(all) = 1 + (n - 1)
      /\ \A i \in 1 .. 1 + (n - 1) : all[i] = IF i <= 1 THEN <<s[1]>>[i] ELSE t[i - 1]
  BY <1>2, <1>3, ConcatProperties
<1> HIDE DEF all, t, n
<1>5. Len(all) = n
  BY <1>1, <1>4
<1>6. ASSUME NEW i \in 1 .. n PROVE all[i] = s[i]
  <2>1. CASE i = 1
    <3>1. 1 \in 1 .. 1 + (n - 1)
      BY <1>1
    <3>2. QED
      BY <1>3, <1>4, <2>1, <3>1
  <2>2. CASE i # 1
    <3>1. i \in 1 .. 1 + (n - 1) /\ ~(i <= 1) /\ i - 1 \in 1 .. Len(t) /\ (i - 1) + 1 = i
      BY <1>1, <1>2, <2>2
    <3>2. QED
      BY <1>2, <1>4, <3>1
  <2>3. QED
    BY <2>1, <2>2
<1>7. all = s
  BY <1>4, <1>5, <1>6, SeqEqual DEF n
<1>8. QED
  BY <1>7 DEF all, t

-----------------------------------------------------------------------------
(* FlattenSeq, sequence by sequence.                                       *)

(* The recursive function of FlattenSeq; that there is one is shown by     *)
(* induction.                                                              *)
IsFlattening(h, n, seqs) ==
  h = [i \in 1 .. n |-> IF i = 1 THEN seqs[i] ELSE h[i - 1] \o seqs[i]]

LEMMA FlatteningExists ==
  ASSUME NEW seqs, NEW n \in Nat
  PROVE  \E h : IsFlattening(h, n, seqs)
<1> DEFINE N == {m \in Nat : \E h : IsFlattening(h, m, seqs)}
<1>1. 0 \in N
  <2> DEFINE h == [i \in 1 .. 0 |-> <<>>]
  <2>1. h = [i \in 1 .. 0 |-> IF i = 1 THEN seqs[i] ELSE h[i - 1] \o seqs[i]]
    OBVIOUS
  <2> HIDE DEF h
  <2>2. QED
    BY <2>1 DEF IsFlattening
<1>2. ASSUME NEW m \in N PROVE m + 1 \in N
  <2>1. PICK h : IsFlattening(h, m, seqs)
    OBVIOUS
  <2> DEFINE last == IF m + 1 = 1 THEN seqs[m + 1] ELSE h[m] \o seqs[m + 1]
             g == [i \in 1 .. m + 1 |-> IF i = m + 1 THEN last ELSE h[i]]
  <2>2. ASSUME NEW i \in 1 .. m + 1
        PROVE  g[i] = IF i = 1 THEN seqs[i] ELSE g[i - 1] \o seqs[i]
    <3>1. CASE i = m + 1
      <4>1. i # 1 => g[i - 1] = h[m]
        BY <3>1
      <4>2. g[i] = last
        BY <3>1
      <4> HIDE DEF g
      <4>3. QED
        BY <3>1, <4>1, <4>2
    <3>2. CASE i # m + 1
      <4>1. i \in 1 .. m /\ g[i] = h[i] /\ (i # 1 => g[i - 1] = h[i - 1])
        BY <3>2
      <4>2. h[i] = IF i = 1 THEN seqs[i] ELSE h[i - 1] \o seqs[i]
        BY <2>1, <4>1 DEF IsFlattening
      <4> HIDE DEF g
      <4>3. QED
        BY <4>1, <4>2
    <3>3. QED
      BY <3>1, <3>2
  <2>3. g = [i \in 1 .. m + 1 |-> g[i]]
    OBVIOUS
  <2> HIDE DEF g
  <2>4. IsFlattening(g, m + 1, seqs)
    BY <2>2, <2>3 DEF IsFlattening
  <2>5. QED
    BY <2>4
<1>3. n \in N
  <2>1. N \in SUBSET Nat
    OBVIOUS
  <2> HIDE DEF N
  <2>2. QED
    BY <1>1, <1>2, <2>1, NatSets
<1>4. QED
  BY <1>3

(* g has what the first sequences make, for each number of them.           *)
IsJoining(g, seqs) ==
  /\ g[0] = <<>>
  /\ \A i \in 1 .. Len(seqs) : g[i] = g[i - 1] \o seqs[i]

LEMMA JoiningExists ==
  ASSUME NEW S, NEW seqs \in Seq(Seq(S))
  PROVE  \E g : IsJoining(g, seqs) /\ FlattenSeq(seqs) = g[Len(seqs)]
<1> DEFINE n == Len(seqs)
           flatten == CHOOSE h : IsFlattening(h, n, seqs)
           g == [i \in 0 .. n |-> IF i = 0 THEN <<>> ELSE flatten[i]]
<1>1. n \in Nat /\ \A i \in 1 .. n : seqs[i] \in Seq(S)
  OBVIOUS
<1>2. IsFlattening(flatten, n, seqs)
  BY <1>1, FlatteningExists
<1>3. FlattenSeq(seqs) = g[n]
  <2>1. CASE n = 0
    <3>1. seqs = <<>>
      BY <2>1
    <3>2. FlattenSeq(seqs) = <<>>
      BY <2>1, <3>1 DEF FlattenSeq
    <3>3. QED
      BY <2>1, <3>2
  <2>2. CASE n # 0
    <3>1. FlattenSeq(seqs) = flatten[n]
      BY <2>2 DEF FlattenSeq, IsFlattening
    <3>2. QED
      BY <1>1, <2>2, <3>1
  <2>3. QED
    BY <2>1, <2>2
<1>4. ASSUME NEW i \in 1 .. n PROVE g[i] = g[i - 1] \o seqs[i]
  <2>1. flatten[i] = IF i = 1 THEN seqs[i] ELSE flatten[i - 1] \o seqs[i]
    BY <1>2 DEF IsFlattening
  <2>2. seqs[i] \in Seq(S)
    BY <1>1
  <2>3. i \in 0 .. n /\ i - 1 \in 0 .. n /\ i # 0 /\ (i = 1 <=> i - 1 = 0)
    BY <1>1
  <2>4. g[i] = flatten[i] /\ g[i - 1] = IF i = 1 THEN <<>> ELSE flatten[i - 1]
    <3> HIDE DEF flatten, n
    <3>1. QED
      BY <2>3
  <2> HIDE DEF flatten, g
  <2>5. CASE i = 1
    BY <2>1, <2>2, <2>4, <2>5, ConcatEmptySeq
  <2>6. CASE i # 1
    BY <2>1, <2>4, <2>6
  <2>7. QED
    BY <2>5, <2>6
<1>5. g[0] = <<>>
  BY <1>1
<1> HIDE DEF g, n
<1>6. QED
  BY <1>3, <1>4, <1>5 DEF IsJoining, n

LEMMA JoiningTyped ==
  ASSUME NEW S, NEW seqs \in Seq(Seq(S)), NEW g, IsJoining(g, seqs)
  PROVE  g[Len(seqs)] \in Seq(S)
<1> DEFINE N == {i \in Nat : i <= Len(seqs) => g[i] \in Seq(S)}
<1>1. 0 \in N
  BY EmptySeq DEF IsJoining
<1>2. ASSUME NEW i \in N PROVE i + 1 \in N
  <2> SUFFICES ASSUME i + 1 <= Len(seqs) PROVE g[i + 1] \in Seq(S)
    OBVIOUS
  <2>1. i + 1 \in 1 .. Len(seqs) /\ (i + 1) - 1 = i /\ g[i] \in Seq(S) /\ seqs[i + 1] \in Seq(S)
    OBVIOUS
  <2>2. g[i + 1] = g[(i + 1) - 1] \o seqs[i + 1]
    BY <2>1 DEF IsJoining
  <2>3. QED
    BY <2>1, <2>2, ConcatProperties
<1>3. Len(seqs) \in N
  <2>1. N \in SUBSET Nat /\ Len(seqs) \in Nat
    OBVIOUS
  <2> HIDE DEF N
  <2>2. QED
    BY <1>1, <1>2, <2>1, NatSets
<1>4. QED
  BY <1>3

LEMMA JoiningsAgree ==
  ASSUME NEW seqs, NEW more, Len(seqs) \in Nat, Len(more) \in Nat, Len(seqs) <= Len(more),
         \A i \in 1 .. Len(seqs) : more[i] = seqs[i],
         NEW g, IsJoining(g, seqs), NEW h, IsJoining(h, more)
  PROVE  h[Len(seqs)] = g[Len(seqs)]
<1> DEFINE n == Len(seqs)
           N == {i \in Nat : i <= n => h[i] = g[i]}
<1>1. 0 \in N
  BY DEF IsJoining
<1>2. ASSUME NEW i \in N PROVE i + 1 \in N
  <2> SUFFICES ASSUME i + 1 <= n PROVE h[i + 1] = g[i + 1]
    OBVIOUS
  <2>1. i + 1 \in 1 .. n /\ i + 1 \in 1 .. Len(more) /\ (i + 1) - 1 = i /\ h[i] = g[i]
    OBVIOUS
  <2>2. g[i + 1] = g[(i + 1) - 1] \o seqs[i + 1]
    BY <2>1 DEF IsJoining
  <2>3. h[i + 1] = h[(i + 1) - 1] \o more[i + 1]
    BY <2>1 DEF IsJoining
  <2>4. QED
    BY <2>1, <2>2, <2>3
<1>3. n \in N
  <2>1. N \in SUBSET Nat
    OBVIOUS
  <2> HIDE DEF N
  <2>2. QED
    BY <1>1, <1>2, <2>1, NatSets
<1>4. QED
  BY <1>3

LEMMA FlattenEmpty == FlattenSeq(<<>>) = <<>>
BY DEF FlattenSeq

LEMMA FlattenAppend ==
  ASSUME NEW S, NEW seqs \in Seq(Seq(S)), NEW x \in Seq(S)
  PROVE  /\ FlattenSeq(seqs) \in Seq(S)
         /\ FlattenSeq(Append(seqs, x)) = FlattenSeq(seqs) \o x
<1> DEFINE n == Len(seqs)
           more == Append(seqs, x)
<1>1. /\ n \in Nat /\ more \in Seq(Seq(S)) /\ Len(more) = n + 1
      /\ \A i \in 1 .. n : more[i] = seqs[i]
      /\ more[n + 1] = x
  OBVIOUS
<1>2. PICK g : IsJoining(g, seqs) /\ FlattenSeq(seqs) = g[n]
  BY JoiningExists
<1>3. PICK h : IsJoining(h, more) /\ FlattenSeq(more) = h[n + 1]
  BY <1>1, JoiningExists
<1> HIDE DEF n, more
<1>4. h[n] = g[n]
  <2>1. /\ Len(seqs) \in Nat /\ Len(more) \in Nat /\ Len(seqs) <= Len(more)
        /\ \A i \in 1 .. Len(seqs) : more[i] = seqs[i]
    BY <1>1 DEF n
  <2>2. QED
    BY <1>2, <1>3, <2>1, JoiningsAgree DEF n
<1>5. h[n + 1] = h[n] \o more[n + 1]
  <2>1. n + 1 \in 1 .. Len(more) /\ (n + 1) - 1 = n
    BY <1>1
  <2>2. h[n + 1] = h[(n + 1) - 1] \o more[n + 1]
    BY <1>3, <2>1 DEF IsJoining
  <2>3. QED
    BY <2>1, <2>2
<1>6. g[n] \in Seq(S)
  BY <1>2, JoiningTyped DEF n
<1>7. QED
  BY <1>1, <1>2, <1>3, <1>4, <1>5, <1>6 DEF more

(* g of each element of a sequence, and of one more.                       *)
IsMap(image, g, s) == image = [i \in DOMAIN s |-> g[s[i]]]

IsOneMore(more, s, x) == more = Append(s, x)

Makes(g, S, U) == g \in [S -> Seq(U)]

LEMMA FlattenMap ==
  ASSUME NEW S, NEW U, NEW g, Makes(g, S, U), NEW s \in Seq(S), NEW x \in S,
         NEW more, IsOneMore(more, s, x), NEW old, IsMap(old, g, s), NEW new, IsMap(new, g, more)
  PROVE  FlattenSeq(old) \in Seq(U) /\ FlattenSeq(new) = FlattenSeq(old) \o g[x]
<1> DEFINE n == Len(s)
           T == Seq(U)
<1>1. n \in Nat /\ DOMAIN s = 1 .. n /\ \A i \in 1 .. n : s[i] \in S
  OBVIOUS
<1>2. more \in Seq(S) /\ Len(more) = n + 1 /\ more[n + 1] = x /\ \A i \in 1 .. n : more[i] = s[i]
  <2>1. more = Append(s, x)
    BY DEF IsOneMore
  <2>2. QED
    BY <2>1, AppendProperties
<1> HIDE DEF n, T
<1>3. DOMAIN more = 1 .. n + 1
  BY <1>2
<1>4. old = [i \in 1 .. n |-> g[s[i]]]
  BY <1>1 DEF IsMap
<1>5. new = [i \in 1 .. n + 1 |-> g[more[i]]]
  BY <1>3 DEF IsMap
<1>6. g \in [S -> T]
  BY DEF T, Makes
<1>7. old \in [1 .. n -> T] /\ \A i \in 1 .. n : old[i] = g[s[i]]
  BY <1>1, <1>4, <1>6
<1>8. old \in Seq(T) /\ Len(old) = n
  <2>1. n \in Nat /\ old \in [1 .. n -> T]
    BY <1>1, <1>7
  <2>2. QED
    BY <2>1
<1>9. g[x] \in T
  BY <1>6
<1> DEFINE appended == Append(old, g[x])
<1>10. /\ appended \in Seq(T) /\ Len(appended) = n + 1
      /\ appended[n + 1] = g[x] /\ \A i \in 1 .. n : appended[i] = old[i]
  BY <1>8, <1>9, AppendProperties
<1> HIDE DEF appended
<1>11. appended = [i \in 1 .. n + 1 |-> appended[i]]
  BY <1>10
<1>12. ASSUME NEW i \in 1 .. n + 1 PROVE appended[i] = g[more[i]]
  <2>1. i = n + 1 \/ i \in 1 .. n
    BY <1>1
  <2>2. QED
    BY <1>2, <1>7, <1>10, <2>1
<1>13. appended = new
  BY <1>5, <1>11, <1>12
<1>14. QED
  BY <1>8, <1>9, <1>13, FlattenAppend DEF appended, T

LEMMA FlattenTyped ==
  ASSUME NEW S, NEW seqs \in Seq(Seq(S))
  PROVE  FlattenSeq(seqs) \in Seq(S)
BY JoiningExists, JoiningTyped

LEMMA FlattenSingles ==
  ASSUME NEW S, NEW s \in Seq(S)
  PROVE  FlattenSeq([i \in DOMAIN s |-> <<s[i]>>]) = s
<1> DEFINE Single(t) == [i \in DOMAIN t |-> <<t[i]>>]
           N == {n \in Nat : \A t \in Seq(S) : Len(t) = n => FlattenSeq(Single(t)) = t}
<1>1. 0 \in N
  <2>1. \A t \in Seq(S) : Len(t) = 0 => t = <<>>
    OBVIOUS
  <2>2. Single(<<>>) = <<>>
    OBVIOUS
  <2> HIDE DEF Single
  <2>3. QED
    BY <2>1, <2>2, FlattenEmpty
<1>2. ASSUME NEW n \in N PROVE n + 1 \in N
  <2> SUFFICES ASSUME NEW t \in Seq(S), Len(t) = n + 1 PROVE FlattenSeq(Single(t)) = t
    OBVIOUS
  <2>1. n \in Nat
    OBVIOUS
  <2> DEFINE front == SubSeq(t, 1, n)
             x == t[n + 1]
  <2>2. front \in Seq(S) /\ Len(front) = n /\ x \in S /\ t = Append(front, x)
    BY <2>1, FrontAndLast
  <2> HIDE DEF Single
  <2>3. FlattenSeq(Single(front)) = front
    BY <2>2
  <2> DEFINE g == [y \in S |-> <<y>>]
             old == Single(front)
             new == Single(t)
  <2>4. Makes(g, S, S)
    BY DEF Makes
  <2> HIDE DEF front, x, N
  <2>5. \A i \in DOMAIN front : front[i] \in S
    BY <2>2
  <2>6. \A i \in DOMAIN t : t[i] \in S
    OBVIOUS
  <2>7. IsMap(old, g, front) /\ IsMap(new, g, t)
    BY <2>5, <2>6 DEF IsMap, Single
  <2>8. IsOneMore(t, front, x)
    BY <2>2 DEF IsOneMore
  <2>9. g[x] = <<x>>
    BY <2>2
  <2> HIDE DEF g, old, new
  <2>10. FlattenSeq(new) = FlattenSeq(old) \o g[x]
    BY <2>2, <2>4, <2>7, <2>8, FlattenMap
  <2>11. FlattenSeq(new) = front \o <<x>>
    BY <2>3, <2>9, <2>10 DEF old
  <2>12. QED
    BY <2>2, <2>11, ConcatAppend DEF new
<1>3. Len(s) \in N
  <2>1. N \in SUBSET Nat /\ Len(s) \in Nat
    OBVIOUS
  <2> HIDE DEF N
  <2>2. QED
    BY <1>1, <1>2, <2>1, NatSets
<1>4. QED
  BY <1>3

-----------------------------------------------------------------------------
(* The tokenizer, byte by byte.                                            *)

Fresh == [tokens |-> <<>>, cur |-> <<>>, inQuote |-> FALSE]

(* What the loop of tokenize has after a text.                             *)
After(text) == FoldLeft(TokenStep, Fresh, text)

(* The fold, as a table of what it is for each set of places; that there   *)
(* is one is shown by induction.                                           *)
IsTokenTable(h, n, text) ==
  h = [s \in SUBSET (1 .. n) |->
         IF s = {} THEN Fresh ELSE TokenStep(h[s \ {Max(s)}], text[Max(s)])]

LEMMA TokenTableGrows ==
  ASSUME NEW text, NEW m \in Nat, NEW h, IsTokenTable(h, m, text)
  PROVE  \E g : IsTokenTable(g, m + 1, text)
<1> DEFINE g == [s \in SUBSET (1 .. m + 1) |->
                   IF m + 1 \in s THEN TokenStep(h[s \ {m + 1}], text[m + 1]) ELSE h[s]]
<1>1. ASSUME NEW s \in SUBSET (1 .. m + 1)
      PROVE  g[s] = IF s = {} THEN Fresh
                    ELSE TokenStep(g[s \ {Max(s)}], text[Max(s)])
  <2>1. CASE m + 1 \in s
    <3>1. m + 1 \in Nat /\ s # {}
      BY <2>1
    <3>2. Max(s) \in 1 .. m + 1 /\ Max(s) >= m + 1
      BY <2>1, <3>1, MaxOf
    <3>3. Max(s) = m + 1
      BY <3>2
    <3>4. s \ {m + 1} \in SUBSET (1 .. m)
      OBVIOUS
    <3>5. g[s \ {m + 1}] = h[s \ {m + 1}]
      BY <3>4
    <3>6. QED
      BY <2>1, <3>3, <3>5
  <2>2. CASE m + 1 \notin s
    <3>1. s \in SUBSET (1 .. m) /\ g[s] = h[s]
      BY <2>2
    <3>2. CASE s = {}
      BY <3>1, <3>2 DEF IsTokenTable
    <3>3. CASE s # {}
      <4>1. Max(s) \in s
        BY <3>1, <3>3, MaxOf
      <4>2. g[s \ {Max(s)}] = h[s \ {Max(s)}]
        BY <2>2, <3>1
      <4>3. h[s] = TokenStep(h[s \ {Max(s)}], text[Max(s)])
        BY <3>1, <3>3 DEF IsTokenTable
      <4>4. QED
        BY <3>1, <3>3, <4>2, <4>3
    <3>4. QED
      BY <3>2, <3>3
  <2>3. QED
    BY <2>1, <2>2
<1>2. g = [s \in SUBSET (1 .. m + 1) |-> g[s]]
  OBVIOUS
<1> HIDE DEF g
<1>3. IsTokenTable(g, m + 1, text)
  BY <1>1, <1>2 DEF IsTokenTable
<1>4. QED
  BY <1>3

LEMMA TokenTableExists ==
  ASSUME NEW text, NEW n \in Nat
  PROVE  \E h : IsTokenTable(h, n, text)
<1> DEFINE N == {m \in Nat : \E h : IsTokenTable(h, m, text)}
<1>1. 0 \in N
  <2> DEFINE h == [s \in SUBSET (1 .. 0) |-> Fresh]
  <2>1. \A s \in SUBSET (1 .. 0) : s = {}
    OBVIOUS
  <2>2. IsTokenTable(h, 0, text)
    BY <2>1 DEF IsTokenTable
  <2>3. QED
    BY <2>2
<1>2. \A m \in N : m + 1 \in N
  BY TokenTableGrows
<1>3. N \in SUBSET Nat
  OBVIOUS
<1>4. n \in N
  <2> HIDE DEF N
  <2>1. QED
    BY <1>1, <1>2, <1>3, NatSets
<1>5. QED
  BY <1>4

(* g has what the loop has after each number of bytes.                     *)
IsTokenRun(g, text) ==
  g[0] = Fresh /\ \A i \in 1 .. Len(text) : g[i] = TokenStep(g[i - 1], text[i])

LEMMA AfterRuns ==
  ASSUME NEW S, NEW text \in Seq(S)
  PROVE  \E g : IsTokenRun(g, text) /\ After(text) = g[Len(text)]
<1> DEFINE n == Len(text)
           iter == CHOOSE h : IsTokenTable(h, n, text)
<1>1. n \in Nat /\ DOMAIN text = 1 .. n
  OBVIOUS
<1>2. IsTokenTable(iter, n, text)
  BY <1>1, TokenTableExists
<1>3. After(text) = iter[1 .. n]
  BY <1>1 DEF After, FoldLeft, MapThenFoldSet, IsTokenTable
<1> HIDE DEF iter, n
<1> DEFINE g == [i \in 0 .. n |-> iter[1 .. i]]
<1>4. g[0] = Fresh
  <2>1. 1 .. 0 = {} /\ 1 .. 0 \in SUBSET (1 .. n)
    OBVIOUS
  <2>2. QED
    BY <1>1, <1>2, <2>1 DEF IsTokenTable
<1>5. ASSUME NEW i \in 1 .. n PROVE g[i] = TokenStep(g[i - 1], text[i])
  <2>1. 1 .. i \in SUBSET (1 .. n) /\ 1 .. i # {} /\ i \in Nat
    BY <1>1
  <2>2. Max(1 .. i) = i
    <3>1. Max(1 .. i) \in 1 .. i /\ \A y \in 1 .. i : Max(1 .. i) >= y
      BY <2>1, MaxOf
    <3>2. QED
      BY <3>1
  <2>3. (1 .. i) \ {i} = 1 .. i - 1
    BY <2>1
  <2>4. iter[1 .. i] = TokenStep(iter[1 .. i - 1], text[i])
    BY <1>2, <2>1, <2>2, <2>3 DEF IsTokenTable
  <2>5. QED
    BY <1>1, <2>4
<1>6. g[n] = After(text)
  BY <1>1, <1>3
<1> HIDE DEF g
<1>7. QED
  BY <1>4, <1>5, <1>6 DEF n, IsTokenRun

LEMMA TokenRunsAgree ==
  ASSUME NEW n \in Nat, NEW text, n = Len(text), NEW more, Len(more) \in Nat, n <= Len(more),
         \A i \in 1 .. n : more[i] = text[i],
         NEW g, IsTokenRun(g, text), NEW h, IsTokenRun(h, more)
  PROVE  h[n] = g[n]
<1> DEFINE N == {i \in Nat : i <= n => h[i] = g[i]}
<1>1. 0 \in N
  BY DEF IsTokenRun
<1>2. ASSUME NEW i \in N PROVE i + 1 \in N
  <2> SUFFICES ASSUME i + 1 <= n PROVE h[i + 1] = g[i + 1]
    OBVIOUS
  <2>1. i + 1 \in 1 .. n /\ i + 1 \in 1 .. Len(more) /\ (i + 1) - 1 = i /\ h[i] = g[i]
    OBVIOUS
  <2>2. g[i + 1] = TokenStep(g[(i + 1) - 1], text[i + 1])
    BY <2>1 DEF IsTokenRun
  <2>3. h[i + 1] = TokenStep(h[(i + 1) - 1], more[i + 1])
    BY <2>1 DEF IsTokenRun
  <2>4. QED
    BY <2>1, <2>2, <2>3
<1>3. n \in N
  <2>1. N \in SUBSET Nat
    OBVIOUS
  <2> HIDE DEF N
  <2>2. QED
    BY <1>1, <1>2, <2>1, NatSets
<1>4. QED
  BY <1>3

LEMMA NothingRead == After(<<>>) = Fresh
<1>1. <<>> \in Seq({}) /\ Len(<<>>) = 0
  OBVIOUS
<1>2. PICK g : IsTokenRun(g, <<>>) /\ After(<<>>) = g[Len(<<>>)]
  BY <1>1, AfterRuns
<1>3. QED
  BY <1>1, <1>2 DEF IsTokenRun

LEMMA ByteRead ==
  ASSUME NEW S, NEW text \in Seq(S), NEW b \in S
  PROVE  After(Append(text, b)) = TokenStep(After(text), b)
<1> DEFINE n == Len(text)
           more == Append(text, b)
<1>1. /\ n \in Nat /\ more \in Seq(S) /\ Len(more) = n + 1
      /\ \A i \in 1 .. n : more[i] = text[i]
      /\ more[n + 1] = b
  OBVIOUS
<1>2. PICK g : IsTokenRun(g, text) /\ After(text) = g[n]
  BY AfterRuns
<1>3. PICK h : IsTokenRun(h, more) /\ After(more) = h[n + 1]
  BY <1>1, AfterRuns
<1> HIDE DEF n, more
<1>4. h[n] = g[n]
  <2>1. n = Len(text) /\ Len(more) \in Nat /\ n <= Len(more)
    BY <1>1 DEF n
  <2>2. QED
    BY <1>1, <1>2, <1>3, <2>1, TokenRunsAgree
<1>5. h[n + 1] = TokenStep(h[n], more[n + 1])
  <2>1. n + 1 \in 1 .. Len(more) /\ (n + 1) - 1 = n
    BY <1>1
  <2>2. h[n + 1] = TokenStep(h[(n + 1) - 1], more[n + 1])
    BY <1>3, <2>1 DEF IsTokenRun
  <2>3. QED
    BY <2>1, <2>2
<1>6. QED
  BY <1>1, <1>2, <1>3, <1>4, <1>5 DEF more

LEMMA TokenizeIs ==
  ASSUME NEW text
  PROVE  Tokenize(text) = [ok |-> ~After(text).inQuote, tokens |-> TokenEnded(After(text)).tokens]
BY DEF Tokenize, After, Fresh

-----------------------------------------------------------------------------
(* Tokens and pieces.                                                      *)

Octet == 0 .. 255

TokenState == [tokens: Seq(Seq(Octet)), cur: Seq(Octet), inQuote: BOOLEAN]

LEMMA RuneIs ==
  ASSUME NEW b \in Octet
  PROVE  /\ WriteRune(b) \in Seq(Octet) /\ WriteRune(b) # <<>>
         /\ b < 128 => WriteRune(b) = <<b>>
         /\ b >= 128 => /\ Len(WriteRune(b)) = 2
                        /\ \A i \in 1 .. 2 : WriteRune(b)[i] >= 128
<1>1. CASE b < 128
  BY <1>1 DEF WriteRune, Octet
<1>2. CASE b >= 128
  <2> DEFINE c == 192 + (b \div 64)
             d == 128 + (b % 64)
  <2>1. c \in 128 .. 255 /\ d \in 128 .. 255
    BY <1>2 DEF Octet
  <2>2. WriteRune(b) = <<c, d>>
    BY <1>2 DEF WriteRune, Octet
  <2> HIDE DEF c, d
  <2>3. QED
    BY <1>2, <2>1, <2>2 DEF Octet
<1>3. QED
  BY <1>1, <1>2 DEF Octet

LEMMA QuoteIsNoSpace == Quote \in Octet /\ ~IsSpace(Quote)
BY DEF Quote, Octet, IsSpace, Space

(* The three cases of the loop.                                            *)
LEMMA StepIs ==
  ASSUME NEW st \in TokenState, NEW b
  PROVE  /\ b = Quote => TokenStep(st, b) = [st EXCEPT !.inQuote = ~@]
         /\ ~st.inQuote /\ IsSpace(b) => TokenStep(st, b) = TokenEnded(st)
         /\ b # Quote /\ (st.inQuote \/ ~IsSpace(b)) =>
              TokenStep(st, b) = [st EXCEPT !.cur = @ \o WriteRune(b)]
BY QuoteIsNoSpace DEF TokenStep

LEMMA EndedIs ==
  ASSUME NEW st \in TokenState
  PROVE  /\ TokenEnded(st) \in TokenState
         /\ TokenEnded(st).cur = <<>> /\ TokenEnded(st).inQuote = st.inQuote
         /\ st.cur = <<>> => TokenEnded(st).tokens = st.tokens
         /\ st.cur # <<>> => TokenEnded(st).tokens = Append(st.tokens, st.cur)
<1>1. /\ st.tokens \in Seq(Seq(Octet)) /\ st.cur \in Seq(Octet) /\ st.inQuote \in BOOLEAN
      /\ DOMAIN st = {"tokens", "cur", "inQuote"}
  BY DEF TokenState
<1>2. Append(st.tokens, st.cur) \in Seq(Seq(Octet)) /\ <<>> \in Seq(Octet)
  BY <1>1, EmptySeq, AppendProperties
<1>3. QED
  BY <1>1, <1>2 DEF TokenEnded, TokenState

LEMMA StepTyped ==
  ASSUME NEW st \in TokenState, NEW b \in Octet
  PROVE  TokenStep(st, b) \in TokenState
<1>1. st.tokens \in Seq(Seq(Octet)) /\ st.cur \in Seq(Octet) /\ st.inQuote \in BOOLEAN
  BY DEF TokenState
<1>2. CASE b = Quote
  <2>1. [st EXCEPT !.inQuote = ~@] \in TokenState
    BY <1>1 DEF TokenState
  <2>2. QED
    BY <1>2, <2>1, StepIs
<1>3. CASE ~st.inQuote /\ IsSpace(b)
  BY <1>3, StepIs, EndedIs
<1>4. CASE b # Quote /\ (st.inQuote \/ ~IsSpace(b))
  <2>1. st.cur \o WriteRune(b) \in Seq(Octet)
    BY <1>1, RuneIs, ConcatProperties
  <2>2. [st EXCEPT !.cur = @ \o WriteRune(b)] \in TokenState
    BY <2>1 DEF TokenState
  <2>3. QED
    BY <1>4, <2>2, StepIs
<1>5. QED
  BY <1>1, <1>2, <1>3, <1>4, QuoteIsNoSpace

(* The runes of a byte in a token.                                         *)
Rune(b) == IF b = Quote THEN <<>> ELSE WriteRune(b)

LEMMA RuneTyped ==
  ASSUME NEW b \in Octet
  PROVE  Rune(b) \in Seq(Octet) /\ (Rune(b) = <<>> <=> b = Quote)
BY RuneIs, EmptySeq DEF Rune

Runes(text, p) == [i \in 1 .. p[2] - p[1] + 1 |-> Rune(text[p[1] + i - 1])]

LEMMA PieceTextIs ==
  ASSUME NEW text, NEW p
  PROVE  PieceText(text, p) = FlattenSeq(Runes(text, p))
BY DEF PieceText, Runes, Rune

(* A text with one more byte.                                              *)
LEMMA PieceSame ==
  ASSUME NEW text \in Seq(Octet), NEW b \in Octet,
         NEW p \in (1 .. Len(text)) \X (1 .. Len(text))
  PROVE  PieceText(Append(text, b), p) = PieceText(text, p)
<1> DEFINE more == Append(text, b)
           n == Len(text)
<1>1. n \in Nat /\ p[1] \in 1 .. n /\ p[2] \in 1 .. n /\ \A i \in 1 .. n : more[i] = text[i]
  OBVIOUS
<1> HIDE DEF more, n
<1>2. \A i \in 1 .. p[2] - p[1] + 1 : p[1] + i - 1 \in 1 .. n
  BY <1>1
<1>3. Runes(more, p) = Runes(text, p)
  BY <1>1, <1>2 DEF Runes
<1>4. QED
  BY <1>3, PieceTextIs DEF more

LEMMA PieceGrows ==
  ASSUME NEW text \in Seq(Octet), NEW b \in Octet, NEW s \in 1 .. Len(text) + 1
  PROVE  /\ PieceText(text, <<s, Len(text)>>) \in Seq(Octet)
         /\ PieceText(Append(text, b), <<s, Len(text) + 1>>) =
              PieceText(text, <<s, Len(text)>>) \o Rune(b)
<1> DEFINE more == Append(text, b)
           n == Len(text)
           old == Runes(text, <<s, n>>)
           new == Runes(more, <<s, n + 1>>)
<1>1. /\ n \in Nat /\ s \in 1 .. n + 1 /\ Len(more) = n + 1
      /\ \A i \in 1 .. n : more[i] = text[i] /\ text[i] \in Octet
      /\ more[n + 1] = b
  OBVIOUS
<1> HIDE DEF more, n
<1> DEFINE m == n - s + 1
<1>2. m \in Nat /\ (n + 1) - s + 1 = m + 1 /\ \A i \in 1 .. m : s + i - 1 \in 1 .. n
  BY <1>1
<1>3. old = [i \in 1 .. m |-> Rune(text[s + i - 1])]
  BY DEF Runes
<1>4. new = [i \in 1 .. m + 1 |-> Rune(more[s + i - 1])]
  BY <1>2 DEF Runes
<1>5. s + (m + 1) - 1 = n + 1
  BY <1>1
<1> HIDE DEF m, old, new
<1>6. old \in Seq(Seq(Octet)) /\ Len(old) = m
  <2>1. \A i \in 1 .. m : Rune(text[s + i - 1]) \in Seq(Octet)
    BY <1>1, <1>2, RuneTyped
  <2>2. QED
    BY <1>2, <1>3, <2>1
<1>7. new = Append(old, Rune(b))
  <2>1. Append(old, Rune(b)) = [i \in 1 .. m + 1 |-> IF i = m + 1 THEN Rune(b) ELSE old[i]]
    <3> DEFINE x == Rune(b)
    <3>1. x \in Seq(Octet)
      BY RuneTyped
    <3> HIDE DEF x
    <3>2. Append(old, x) = [i \in 1 .. m + 1 |-> IF i = m + 1 THEN x ELSE old[i]]
      <4> DEFINE appended == Append(old, x)
      <4>1. /\ appended \in Seq(Seq(Octet)) /\ Len(appended) = m + 1
            /\ \A i \in 1 .. m : appended[i] = old[i]
            /\ appended[m + 1] = x
        BY <1>2, <1>6, <3>1, AppendProperties
      <4> HIDE DEF appended
      <4>2. appended = [i \in 1 .. m + 1 |-> appended[i]]
        BY <4>1
      <4>3. ASSUME NEW i \in 1 .. m + 1
            PROVE  appended[i] = IF i = m + 1 THEN x ELSE old[i]
        <5>1. m \in Nat
          BY <1>2
        <5>2. i = m + 1 \/ (i \in 1 .. m /\ i # m + 1)
          BY <5>1
        <5>3. QED
          BY <4>1, <5>2
      <4>4. appended = [i \in 1 .. m + 1 |-> IF i = m + 1 THEN x ELSE old[i]]
        BY <4>2, <4>3
      <4>5. QED
        BY <4>4 DEF appended
    <3>3. QED
      BY <3>2 DEF x
  <2>2. \A i \in 1 .. m + 1 : Rune(more[s + i - 1]) = IF i = m + 1 THEN Rune(b) ELSE old[i]
    <3>1. ASSUME NEW i \in 1 .. m PROVE i # m + 1 /\ Rune(more[s + i - 1]) = old[i]
      BY <1>1, <1>2, <1>3
    <3>2. Rune(more[s + (m + 1) - 1]) = Rune(b)
      BY <1>1, <1>5
    <3>3. \A i \in 1 .. m + 1 : i \in 1 .. m \/ i = m + 1
      BY <1>2
    <3>4. QED
      BY <3>1, <3>2, <3>3
  <2>3. QED
    BY <1>4, <2>1, <2>2
<1>8. Rune(b) \in Seq(Octet)
  BY RuneTyped
<1>9. FlattenSeq(old) \in Seq(Octet) /\ FlattenSeq(new) = FlattenSeq(old) \o Rune(b)
  BY <1>6, <1>7, <1>8, FlattenAppend
<1>10. QED
  BY <1>9, PieceTextIs DEF old, new, more, n

LEMMA QuotedSame ==
  ASSUME NEW text \in Seq(Octet), NEW b \in Octet
  PROVE  /\ \A i \in 1 .. Len(text) + 1 : Quoted(Append(text, b), i) <=> Quoted(text, i)
         /\ \A i \in 1 .. Len(text) : Cut(Append(text, b), i) <=> Cut(text, i)
         /\ Cut(Append(text, b), Len(text) + 1) <=> IsSpace(b) /\ ~Quoted(text, Len(text) + 1)
         /\ Quoted(Append(text, b), Len(text) + 2) <=> ((b = Quote) # Quoted(text, Len(text) + 1))
<1> DEFINE more == Append(text, b)
           n == Len(text)
           Quotes(t, i) == {j \in 1 .. i - 1 : t[j] = Quote}
<1>1. n \in Nat /\ (\A i \in 1 .. n : more[i] = text[i]) /\ more[n + 1] = b
  OBVIOUS
<1> HIDE DEF more, n
<1>2. ASSUME NEW i \in 1 .. n + 1 PROVE Quoted(more, i) <=> Quoted(text, i)
  <2>1. 1 .. i - 1 \subseteq 1 .. n
    BY <1>1
  <2>2. Quotes(more, i) = Quotes(text, i)
    BY <1>1, <2>1
  <2>3. QED
    BY <2>2 DEF Quoted
<1>3. \A i \in 1 .. n : Cut(more, i) <=> Cut(text, i)
  BY <1>1, <1>2 DEF Cut
<1>4. Cut(more, n + 1) <=> IsSpace(b) /\ ~Quoted(text, n + 1)
  <2>1. n + 1 \in 1 .. n + 1
    BY <1>1
  <2>2. QED
    BY <1>1, <1>2, <2>1 DEF Cut
<1>5. Quoted(more, n + 2) <=> ((b = Quote) # Quoted(text, n + 1))
  <2> DEFINE few == Quotes(text, n + 1)
             many == Quotes(more, n + 2)
  <2>1. many = IF b = Quote THEN few \cup {n + 1} ELSE few
    <3>1. (n + 2) - 1 = n + 1 /\ (n + 1) - 1 = n /\ \A j \in 1 .. n + 1 : j \in 1 .. n \/ j = n + 1
      BY <1>1
    <3>2. 1 .. n \subseteq 1 .. n + 1 /\ n + 1 \in 1 .. n + 1
      BY <1>1
    <3>3. QED
      BY <1>1, <3>1, <3>2
  <2>2. few \in SUBSET (1 .. n) /\ n + 1 \notin few
    BY <1>1
  <2> HIDE DEF few, many
  <2>3. IsFiniteSet(few) /\ Cardinality(few) \in Nat
    <3>1. IsFiniteSet(1 .. n)
      BY <1>1, FS_Interval
    <3>2. IsFiniteSet(few)
      BY <2>2, <3>1, FS_Subset
    <3>3. QED
      BY <3>2, FS_CardinalityType
  <2>4. Cardinality(many) = IF b = Quote THEN Cardinality(few) + 1 ELSE Cardinality(few)
    <3>1. Cardinality(few \cup {n + 1}) = Cardinality(few) + 1
      BY <2>2, <2>3, FS_AddElement
    <3>2. QED
      BY <2>1, <3>1
  <2>5. \A c \in Nat : ((c + 1) % 2 = 1) <=> ~(c % 2 = 1)
    OBVIOUS
  <2>6. /\ Quoted(more, n + 2) <=> Cardinality(many) % 2 = 1
        /\ Quoted(text, n + 1) <=> Cardinality(few) % 2 = 1
    BY DEF Quoted, few, many
  <2>7. Quoted(more, n + 2) \in BOOLEAN /\ Quoted(text, n + 1) \in BOOLEAN
    BY DEF Quoted
  <2>8. CASE b = Quote
    <3>1. Quoted(more, n + 2) <=> ~Quoted(text, n + 1)
      BY <2>3, <2>4, <2>5, <2>6, <2>8
    <3>2. QED
      BY <2>7, <2>8, <3>1
  <2>9. CASE b # Quote
    <3>1. Quoted(more, n + 2) <=> Quoted(text, n + 1)
      BY <2>4, <2>6, <2>9
    <3>2. QED
      BY <2>7, <2>9, <3>1
  <2>10. QED
    BY <2>8, <2>9
<1>6. QED
  BY <1>2, <1>3, <1>4, <1>5 DEF more, n

-----------------------------------------------------------------------------
(* The last run without a cut, and the pieces it ends.                     *)

(* From s on, no byte of the text cuts it.                                 *)
Run(text, s) ==
  /\ s \in 1 .. Len(text) + 1
  /\ s = 1 \/ Cut(text, s - 1)
  /\ \A i \in s .. Len(text) : ~Cut(text, i)

AllQuotes(text, s) == \A i \in s .. Len(text) : text[i] = Quote

(* The pieces that ended before the text did.                              *)
Left(text) == {p \in Pieces(text) : p[2] < Len(text)}

LEMMA PieceIs ==
  ASSUME NEW text \in Seq(Octet), NEW p
  PROVE  p \in Pieces(text) <=>
           /\ p \in (1 .. Len(text)) \X (1 .. Len(text))
           /\ \A i \in p[1] .. p[2] : ~Cut(text, i)
           /\ \E i \in p[1] .. p[2] : text[i] # Quote
           /\ p[1] = 1 \/ Cut(text, p[1] - 1)
           /\ p[2] = Len(text) \/ Cut(text, p[2] + 1)
<1>1. DOMAIN text = 1 .. Len(text)
  OBVIOUS
<1>2. QED
  BY <1>1 DEF Pieces

LEMMA LeftIsBefore ==
  ASSUME NEW text \in Seq(Octet), NEW s, Run(text, s), NEW p \in Left(text)
  PROVE  p[1] < s /\ p \in (1 .. Len(text)) \X (1 .. Len(text))
<1> DEFINE n == Len(text)
<1>1. /\ p \in (1 .. n) \X (1 .. n) /\ p[2] < n
      /\ (\E i \in p[1] .. p[2] : text[i] # Quote)
      /\ (p[2] = n \/ Cut(text, p[2] + 1))
  BY PieceIs DEF Left
<1>2. n \in Nat /\ p[1] \in 1 .. n /\ p[2] \in 1 .. n /\ s \in 1 .. n + 1
  BY <1>1 DEF Run
<1>3. \A i \in s .. n : ~Cut(text, i)
  BY DEF Run
<1> HIDE DEF n
<1>4. p[1] <= p[2] /\ p[2] + 1 <= n /\ Cut(text, p[2] + 1)
  BY <1>1, <1>2
<1>5. p[2] + 1 \notin s .. n
  BY <1>3, <1>4
<1>6. QED
  BY <1>1, <1>2, <1>4, <1>5 DEF n

LEMMA PiecesAre ==
  ASSUME NEW text \in Seq(Octet), NEW s, Run(text, s)
  PROVE  Pieces(text) = Left(text) \cup (IF AllQuotes(text, s) THEN {} ELSE {<<s, Len(text)>>})
<1> DEFINE n == Len(text)
<1>1. /\ n \in Nat /\ s \in 1 .. n + 1
      /\ s = 1 \/ Cut(text, s - 1)
      /\ \A i \in s .. n : ~Cut(text, i)
  BY DEF Run
<1>2. ASSUME NEW p \in Pieces(text), p \notin Left(text)
      PROVE  p = <<s, n>> /\ ~AllQuotes(text, s)
  <2>1. /\ p \in (1 .. n) \X (1 .. n)
        /\ \A i \in p[1] .. p[2] : ~Cut(text, i)
        /\ \E i \in p[1] .. p[2] : text[i] # Quote
        /\ p[1] = 1 \/ Cut(text, p[1] - 1)
    BY PieceIs
  <2>2. p[1] \in 1 .. n /\ p[2] = n /\ p = <<p[1], p[2]>>
    BY <1>1, <1>2, <2>1 DEF Left
  <2> HIDE DEF n
  <2>3. ~(p[1] < s)
    <3> SUFFICES ASSUME p[1] < s PROVE FALSE
      OBVIOUS
    <3>1. s # 1 /\ s - 1 \in p[1] .. p[2]
      BY <1>1, <2>2
    <3>2. QED
      BY <1>1, <2>1, <3>1
  <2>4. ~(s < p[1])
    <3> SUFFICES ASSUME s < p[1] PROVE FALSE
      OBVIOUS
    <3>1. p[1] # 1 /\ p[1] - 1 \in s .. n
      BY <1>1, <2>2
    <3>2. QED
      BY <1>1, <2>1, <3>1
  <2>5. p[1] = s
    BY <1>1, <2>2, <2>3, <2>4
  <2>6. \E i \in s .. n : text[i] # Quote
    BY <2>1, <2>2, <2>5
  <2>7. QED
    BY <2>2, <2>5, <2>6 DEF AllQuotes, n
<1>3. ASSUME ~AllQuotes(text, s)
      PROVE  <<s, n>> \in Pieces(text)
  <2>1. PICK i \in s .. n : text[i] # Quote
    BY <1>3 DEF AllQuotes
  <2> DEFINE p == <<s, n>>
  <2>2. p[1] = s /\ p[2] = n
    OBVIOUS
  <2>3. s \in 1 .. n /\ n \in 1 .. n
    <3> HIDE DEF n
    <3>1. QED
      BY <1>1, <2>1
  <2>4. p \in (1 .. n) \X (1 .. n)
    BY <2>3
  <2> HIDE DEF p
  <2>5. p \in Pieces(text)
    BY <1>1, <2>1, <2>2, <2>4, PieceIs
  <2>6. QED
    BY <2>5 DEF p
<1>4. Left(text) \subseteq Pieces(text)
  BY DEF Left
<1> HIDE DEF n
<1>5. QED
  <2>1. CASE AllQuotes(text, s)
    BY <1>2, <1>4, <2>1
  <2>2. CASE ~AllQuotes(text, s)
    <3>1. Pieces(text) = Left(text) \cup {<<s, n>>}
      BY <1>2, <1>3, <1>4, <2>2
    <3>2. QED
      BY <2>2, <3>1 DEF n
  <2>3. QED
    BY <2>1, <2>2

(* A byte more: it cuts the text and ends a piece, or it does not.         *)
LEMMA LeftMore ==
  ASSUME NEW text \in Seq(Octet), NEW b \in Octet
  PROVE  Left(Append(text, b)) =
           IF Cut(Append(text, b), Len(text) + 1) THEN Pieces(text) ELSE Left(text)
<1> DEFINE more == Append(text, b)
           n == Len(text)
<1>1. /\ n \in Nat /\ more \in Seq(Octet) /\ Len(more) = n + 1
      /\ \A i \in 1 .. n : more[i] = text[i]
  OBVIOUS
<1>2. \A i \in 1 .. n : Cut(more, i) <=> Cut(text, i)
  BY QuotedSame
<1>3. \A p : p \in Pieces(more) <=>
           /\ p \in (1 .. n + 1) \X (1 .. n + 1)
           /\ \A i \in p[1] .. p[2] : ~Cut(more, i)
           /\ \E i \in p[1] .. p[2] : more[i] # Quote
           /\ p[1] = 1 \/ Cut(more, p[1] - 1)
           /\ p[2] = n + 1 \/ Cut(more, p[2] + 1)
  BY <1>1, PieceIs
<1>4. \A p : p \in Pieces(text) <=>
           /\ p \in (1 .. n) \X (1 .. n)
           /\ \A i \in p[1] .. p[2] : ~Cut(text, i)
           /\ \E i \in p[1] .. p[2] : text[i] # Quote
           /\ p[1] = 1 \/ Cut(text, p[1] - 1)
           /\ p[2] = n \/ Cut(text, p[2] + 1)
  BY PieceIs
<1>5. Left(more) = {p \in Pieces(more) : p[2] < n + 1} /\ Left(text) = {p \in Pieces(text) : p[2] < n}
  BY <1>1 DEF Left
<1> HIDE DEF more, n
<1>6. ASSUME NEW p \in (1 .. n) \X (1 .. n), p[1] <= p[2]
      PROVE  /\ (\A i \in p[1] .. p[2] : ~Cut(more, i)) <=> (\A i \in p[1] .. p[2] : ~Cut(text, i))
             /\ (\E i \in p[1] .. p[2] : more[i] # Quote) <=> (\E i \in p[1] .. p[2] : text[i] # Quote)
             /\ (p[1] = 1 \/ Cut(more, p[1] - 1)) <=> (p[1] = 1 \/ Cut(text, p[1] - 1))
             /\ p[2] < n => (Cut(more, p[2] + 1) <=> Cut(text, p[2] + 1))
  <2>1. p[1] \in 1 .. n /\ p[2] \in 1 .. n
    OBVIOUS
  <2>2. \A i \in p[1] .. p[2] : i \in 1 .. n
    BY <1>1, <2>1
  <2>3. p[1] = 1 \/ p[1] - 1 \in 1 .. n
    BY <1>1, <2>1
  <2>4. p[2] < n => p[2] + 1 \in 1 .. n
    BY <1>1, <2>1
  <2>5. QED
    BY <1>1, <1>2, <2>2, <2>3, <2>4
<1>7. ASSUME NEW p \in Left(more)
      PROVE  p \in IF Cut(more, n + 1) THEN Pieces(text) ELSE Left(text)
  <2>1. /\ p \in (1 .. n + 1) \X (1 .. n + 1)
        /\ \A i \in p[1] .. p[2] : ~Cut(more, i)
        /\ \E i \in p[1] .. p[2] : more[i] # Quote
        /\ p[1] = 1 \/ Cut(more, p[1] - 1)
        /\ p[2] = n + 1 \/ Cut(more, p[2] + 1)
        /\ p[2] < n + 1
    BY <1>3, <1>5
  <2>2. p[1] \in 1 .. n + 1 /\ p[2] \in 1 .. n + 1 /\ p = <<p[1], p[2]>> /\ p[1] <= p[2]
    BY <2>1
  <2>3. p[1] \in 1 .. n /\ p[2] \in 1 .. n /\ Cut(more, p[2] + 1)
    BY <1>1, <2>1, <2>2
  <2>4. p \in (1 .. n) \X (1 .. n)
    BY <2>2, <2>3
  <2>5. CASE p[2] = n
    <3>1. p \in Pieces(text) /\ Cut(more, n + 1)
      BY <1>4, <1>6, <2>1, <2>2, <2>3, <2>4, <2>5
    <3>2. QED
      BY <3>1
  <2>6. CASE p[2] # n
    <3>1. p[2] < n
      BY <1>1, <2>3, <2>6
    <3>2. p \in Pieces(text)
      BY <1>4, <1>6, <2>1, <2>2, <2>3, <2>4, <3>1
    <3>3. QED
      BY <1>5, <3>1, <3>2
  <2>7. QED
    BY <2>5, <2>6
<1>8. ASSUME NEW p \in Pieces(text), p[2] < n \/ Cut(more, n + 1)
      PROVE  p \in Left(more)
  <2>1. /\ p \in (1 .. n) \X (1 .. n)
        /\ \A i \in p[1] .. p[2] : ~Cut(text, i)
        /\ \E i \in p[1] .. p[2] : text[i] # Quote
        /\ p[1] = 1 \/ Cut(text, p[1] - 1)
        /\ p[2] = n \/ Cut(text, p[2] + 1)
    BY <1>4
  <2>2. p[1] \in 1 .. n /\ p[2] \in 1 .. n /\ p = <<p[1], p[2]>> /\ p[1] <= p[2]
    BY <2>1
  <2>3. p[1] \in 1 .. n + 1 /\ p[2] \in 1 .. n + 1 /\ p[2] < n + 1
    BY <1>1, <2>2
  <2>4. p \in (1 .. n + 1) \X (1 .. n + 1)
    BY <2>2, <2>3
  <2>5. Cut(more, p[2] + 1)
    <3>1. CASE p[2] = n
      BY <1>1, <1>8, <2>2, <3>1
    <3>2. CASE p[2] # n
      BY <1>1, <1>6, <2>1, <2>2, <3>2
    <3>3. QED
      BY <3>1, <3>2
  <2>6. QED
    BY <1>3, <1>5, <1>6, <2>1, <2>2, <2>3, <2>4, <2>5
<1>9. Left(text) \subseteq Pieces(text)
  BY <1>5
<1>10. Left(more) = IF Cut(more, n + 1) THEN Pieces(text) ELSE Left(text)
  <2>1. CASE Cut(more, n + 1)
    BY <1>7, <1>8, <2>1
  <2>2. CASE ~Cut(more, n + 1)
    BY <1>5, <1>7, <1>8, <2>2
  <2>3. QED
    BY <2>1, <2>2
<1>11. QED
  BY <1>10 DEF more, n

LEMMA RunMore ==
  ASSUME NEW text \in Seq(Octet), NEW b \in Octet, NEW s, Run(text, s)
  PROVE  Run(Append(text, b), IF Cut(Append(text, b), Len(text) + 1) THEN Len(text) + 2 ELSE s)
<1> DEFINE more == Append(text, b)
           n == Len(text)
<1>1. n \in Nat /\ Len(more) = n + 1
  OBVIOUS
<1>2. \A i \in 1 .. n : Cut(more, i) <=> Cut(text, i)
  BY QuotedSame
<1>3. s \in 1 .. n + 1 /\ (s = 1 \/ Cut(text, s - 1)) /\ \A i \in s .. n : ~Cut(text, i)
  BY DEF Run
<1> HIDE DEF more, n
<1>4. CASE Cut(more, n + 1)
  <2>1. n + 2 \in 1 .. (n + 1) + 1 /\ (n + 2) - 1 = n + 1 /\ (n + 2) .. (n + 1) = {}
    BY <1>1
  <2>2. Run(more, n + 2)
    BY <1>1, <1>4, <2>1 DEF Run
  <2>3. QED
    BY <1>4, <2>2 DEF more, n
<1>5. CASE ~Cut(more, n + 1)
  <2>1. s \in 1 .. (n + 1) + 1
    BY <1>1, <1>3
  <2>2. s = 1 \/ Cut(more, s - 1)
    <3>1. s = 1 \/ s - 1 \in 1 .. n
      BY <1>1, <1>3
    <3>2. QED
      BY <1>2, <1>3, <3>1
  <2>3. ASSUME NEW i \in s .. n + 1 PROVE ~Cut(more, i)
    <3>1. i = n + 1 \/ (i \in s .. n /\ i \in 1 .. n)
      BY <1>1, <1>3
    <3>2. QED
      BY <1>2, <1>3, <1>5, <3>1
  <2>4. Run(more, s)
    BY <1>1, <2>1, <2>2, <2>3 DEF Run
  <2>5. QED
    BY <1>5, <2>4 DEF more, n
<1>6. QED
  BY <1>4, <1>5

-----------------------------------------------------------------------------
(* The tokenizer lists the pieces.                                         *)

(* The tokens are the texts of the pieces of S, each of them, in order.    *)
Lists(order, tokens, text, S) ==
  /\ order \in [DOMAIN tokens -> S]
  /\ Range(order) = S
  /\ \A m, n \in DOMAIN order : m < n => order[m][1] < order[n][1]
  /\ tokens = [n \in DOMAIN order |-> PieceText(text, order[n])]

Tracks(text) ==
  /\ After(text) \in TokenState
  /\ After(text).inQuote <=> Quoted(text, Len(text) + 1)
  /\ \E order : Lists(order, After(text).tokens, text, Left(text))
  /\ \E s : /\ Run(text, s)
            /\ After(text).cur = PieceText(text, <<s, Len(text)>>)
            /\ After(text).cur = <<>> <=> AllQuotes(text, s)

LEMMA ListsMore ==
  ASSUME NEW text \in Seq(Octet), NEW b \in Octet, NEW S,
         S \subseteq (1 .. Len(text)) \X (1 .. Len(text)),
         NEW order, NEW tokens, Lists(order, tokens, text, S)
  PROVE  Lists(order, tokens, Append(text, b), S)
<1> DEFINE more == Append(text, b)
<1>1. /\ order \in [DOMAIN tokens -> S] /\ Range(order) = S
      /\ \A m, n \in DOMAIN order : m < n => order[m][1] < order[n][1]
      /\ tokens = [n \in DOMAIN order |-> PieceText(text, order[n])]
  BY DEF Lists
<1>2. ASSUME NEW n \in DOMAIN order PROVE PieceText(more, order[n]) = PieceText(text, order[n])
  <2>1. order[n] \in (1 .. Len(text)) \X (1 .. Len(text))
    BY <1>1
  <2>2. QED
    BY <2>1, PieceSame
<1> HIDE DEF more
<1>3. [n \in DOMAIN order |-> PieceText(text, order[n])] = [n \in DOMAIN order |-> PieceText(more, order[n])]
  BY <1>2
<1>4. QED
  BY <1>1, <1>3 DEF Lists, more

LEMMA ListsOneMore ==
  ASSUME NEW text, NEW S, NEW order, NEW tokens \in Seq(Seq(Octet)), Lists(order, tokens, text, S),
         NEW p, \A q \in S : q[1] < p[1], NEW x \in Seq(Octet), x = PieceText(text, p)
  PROVE  \E longer : Lists(longer, Append(tokens, x), text, S \cup {p})
<1> DEFINE n == Len(tokens)
           all == Append(tokens, x)
           longer == [i \in 1 .. n + 1 |-> IF i = n + 1 THEN p ELSE order[i]]
<1>1. /\ n \in Nat /\ DOMAIN tokens = 1 .. n /\ DOMAIN all = 1 .. n + 1
      /\ all[n + 1] = x /\ \A i \in 1 .. n : all[i] = tokens[i]
      /\ all = [i \in 1 .. n + 1 |-> all[i]]
  <2>1. /\ all \in Seq(Seq(Octet)) /\ Len(all) = n + 1
        /\ all[n + 1] = x /\ \A i \in 1 .. n : all[i] = tokens[i]
    BY AppendProperties
  <2> HIDE DEF all
  <2>2. QED
    BY <2>1
<1>2. /\ order \in [1 .. n -> S] /\ Range(order) = S
      /\ \A i, j \in 1 .. n : i < j => order[i][1] < order[j][1]
      /\ \A i \in 1 .. n : tokens[i] = PieceText(text, order[i])
  BY <1>1 DEF Lists
<1>3. \A i \in 1 .. n + 1 : i = n + 1 \/ (i \in 1 .. n /\ i # n + 1)
  BY <1>1
<1>4. longer[n + 1] = p /\ \A i \in 1 .. n : longer[i] = order[i]
  BY <1>1, <1>3
<1>5. DOMAIN longer = 1 .. n + 1
  OBVIOUS
<1> HIDE DEF longer, all, n
<1>6. longer \in [1 .. n + 1 -> S \cup {p}]
  <2>1. \A i \in 1 .. n + 1 : longer[i] \in S \cup {p}
    BY <1>2, <1>3, <1>4
  <2>2. longer = [i \in 1 .. n + 1 |-> longer[i]]
    BY DEF longer
  <2>3. QED
    BY <2>1, <2>2
<1>7. Range(longer) = S \cup {p}
  <2>1. ASSUME NEW q \in S PROVE \E i \in 1 .. n + 1 : longer[i] = q
    <3>1. PICK i \in 1 .. n : order[i] = q
      BY <1>2 DEF Range
    <3>2. i \in 1 .. n + 1
      BY <1>1
    <3>3. QED
      BY <1>4, <3>1, <3>2
  <2>2. n + 1 \in 1 .. n + 1
    BY <1>1
  <2>3. QED
    BY <1>4, <1>5, <1>6, <2>1, <2>2 DEF Range
<1>8. ASSUME NEW i \in 1 .. n + 1, NEW j \in 1 .. n + 1, i < j
      PROVE  longer[i][1] < longer[j][1]
  <2>1. i \in 1 .. n
    BY <1>1, <1>8
  <2>2. CASE j = n + 1
    BY <1>2, <1>4, <2>1, <2>2
  <2>3. CASE j # n + 1
    BY <1>2, <1>3, <1>4, <1>8, <2>1, <2>3
  <2>4. QED
    BY <2>2, <2>3
<1>9. all = [i \in 1 .. n + 1 |-> PieceText(text, longer[i])]
  <2>1. \A i \in 1 .. n + 1 : all[i] = PieceText(text, longer[i])
    BY <1>1, <1>2, <1>3, <1>4
  <2>2. QED
    BY <1>1, <2>1
<1>10. Lists(longer, all, text, S \cup {p})
  BY <1>1, <1>5, <1>6, <1>7, <1>8, <1>9 DEF Lists
<1>11. QED
  BY <1>10 DEF all

(* When the text ends, so does its last piece.                             *)
LEMMA EndedLists ==
  ASSUME NEW text \in Seq(Octet), Tracks(text)
  PROVE  \E order : Lists(order, TokenEnded(After(text)).tokens, text, Pieces(text))
<1> DEFINE st == After(text)
           n == Len(text)
<1>1. st \in TokenState
  BY DEF Tracks
<1>2. PICK order : Lists(order, st.tokens, text, Left(text))
  BY DEF Tracks
<1>3. PICK s : Run(text, s) /\ st.cur = PieceText(text, <<s, n>>) /\ (st.cur = <<>> <=> AllQuotes(text, s))
  BY DEF Tracks
<1>4. Pieces(text) = Left(text) \cup (IF AllQuotes(text, s) THEN {} ELSE {<<s, n>>})
  BY <1>3, PiecesAre
<1>5. \A q \in Left(text) : q[1] < <<s, n>>[1]
  BY <1>3, LeftIsBefore
<1> HIDE DEF st, n
<1>6. CASE st.cur = <<>>
  <2>1. Pieces(text) = Left(text) /\ TokenEnded(st).tokens = st.tokens
    BY <1>1, <1>3, <1>4, <1>6, EndedIs
  <2>2. QED
    BY <1>2, <2>1 DEF st
<1>7. CASE st.cur # <<>>
  <2>1. Pieces(text) = Left(text) \cup {<<s, n>>} /\ TokenEnded(st).tokens = Append(st.tokens, st.cur)
    BY <1>1, <1>3, <1>4, <1>7, EndedIs
  <2>2. st.tokens \in Seq(Seq(Octet)) /\ st.cur \in Seq(Octet)
    BY <1>1 DEF TokenState
  <2>3. PICK longer : Lists(longer, Append(st.tokens, st.cur), text, Left(text) \cup {<<s, n>>})
    BY <1>2, <1>3, <1>5, <2>2, ListsOneMore
  <2>4. QED
    BY <2>1, <2>3 DEF st
<1>8. QED
  BY <1>6, <1>7

LEMMA NoTextTracks == Tracks(<<>>)
<1>1. <<>> \in Seq(Octet) /\ Len(<<>>) = 0 /\ After(<<>>) = Fresh
  BY NothingRead
<1>2. Fresh \in TokenState /\ Fresh.cur = <<>> /\ Fresh.tokens = <<>> /\ Fresh.inQuote = FALSE
  <2>1. <<>> \in Seq(Seq(Octet)) /\ <<>> \in Seq(Octet)
    OBVIOUS
  <2>2. QED
    BY <2>1 DEF Fresh, TokenState
<1>3. ~Quoted(<<>>, 0 + 1)
  <2>1. {j \in 1 .. (0 + 1) - 1 : <<>>[j] = Quote} = {}
    OBVIOUS
  <2>2. Cardinality({}) % 2 # 1
    BY FS_EmptySet
  <2>3. QED
    BY <2>1, <2>2 DEF Quoted
<1>4. Left(<<>>) = {}
  <2> SUFFICES ASSUME NEW p \in Left(<<>>) PROVE FALSE
    OBVIOUS
  <2>1. p \in Pieces(<<>>)
    BY DEF Left
  <2>2. p \in (1 .. Len(<<>>)) \X (1 .. Len(<<>>))
    BY <1>1, <2>1, PieceIs
  <2>3. QED
    BY <1>1, <2>2
<1>5. Lists(<<>>, <<>>, <<>>, {})
  BY DEF Lists, Range
<1>6. Run(<<>>, 1) /\ AllQuotes(<<>>, 1)
  BY <1>1 DEF Run, AllQuotes
<1>7. PieceText(<<>>, <<1, 0>>) = <<>>
  <2>1. Runes(<<>>, <<1, 0>>) = <<>>
    BY DEF Runes
  <2>2. QED
    BY <2>1, PieceTextIs, FlattenEmpty
<1>8. QED
  BY <1>1, <1>2, <1>3, <1>4, <1>5, <1>6, <1>7 DEF Tracks

(* One byte more is read.                                                  *)
LEMMA TracksNext ==
  ASSUME NEW text \in Seq(Octet), Tracks(text), NEW b \in Octet
  PROVE  Tracks(Append(text, b))
<1> DEFINE more == Append(text, b)
           n == Len(text)
           st == After(text)
           next == After(more)
<1>1. /\ n \in Nat /\ more \in Seq(Octet) /\ Len(more) = n + 1
      /\ more[n + 1] = b /\ \A i \in 1 .. n : more[i] = text[i]
  OBVIOUS
<1>2. st \in TokenState /\ next = TokenStep(st, b)
  BY ByteRead DEF Tracks
<1>3. next \in TokenState
  BY <1>2, StepTyped
<1>4. st.inQuote <=> Quoted(text, n + 1)
  BY DEF Tracks
<1>5. PICK s : Run(text, s) /\ st.cur = PieceText(text, <<s, n>>) /\ (st.cur = <<>> <=> AllQuotes(text, s))
  BY DEF Tracks
<1>6. /\ Cut(more, n + 1) <=> IsSpace(b) /\ ~Quoted(text, n + 1)
      /\ Quoted(more, n + 2) <=> ((b = Quote) # Quoted(text, n + 1))
  BY QuotedSame
<1>7. st.tokens \in Seq(Seq(Octet)) /\ st.cur \in Seq(Octet) /\ st.inQuote \in BOOLEAN
  BY <1>2 DEF TokenState
<1>8. next.inQuote <=> Quoted(more, n + 2)
  <2>1. Quoted(text, n + 1) \in BOOLEAN /\ Quoted(more, n + 2) \in BOOLEAN
    BY DEF Quoted
  <2>2. CASE b = Quote
    <3>1. next.inQuote = ~st.inQuote
      BY <1>2, <1>7, <2>2, StepIs DEF TokenState
    <3>2. QED
      BY <1>4, <1>6, <1>7, <2>1, <2>2, <3>1
  <2>3. CASE b # Quote
    <3>1. next.inQuote = st.inQuote
      <4>1. CASE ~st.inQuote /\ IsSpace(b)
        BY <1>2, <4>1, StepIs, EndedIs
      <4>2. CASE st.inQuote \/ ~IsSpace(b)
        BY <1>2, <2>3, <4>2, StepIs DEF TokenState
      <4>3. QED
        BY <1>7, <4>1, <4>2
    <3>2. QED
      BY <1>4, <1>6, <1>7, <2>1, <2>3, <3>1
  <2>4. QED
    BY <2>2, <2>3
<1>9. Left(more) = IF Cut(more, n + 1) THEN Pieces(text) ELSE Left(text)
  BY LeftMore
<1>10. Run(more, IF Cut(more, n + 1) THEN n + 2 ELSE s)
  BY <1>5, RunMore
<1>11. \E order : Lists(order, TokenEnded(st).tokens, text, Pieces(text))
  BY EndedLists
<1>12. \E order : Lists(order, st.tokens, text, Left(text))
  BY DEF Tracks
<1>13. Pieces(text) \subseteq (1 .. n) \X (1 .. n) /\ Left(text) \subseteq (1 .. n) \X (1 .. n)
  BY PieceIs DEF Left
<1>14. \A order, tokens, S : S \subseteq (1 .. n) \X (1 .. n) /\ Lists(order, tokens, text, S)
                               => Lists(order, tokens, more, S)
  BY ListsMore
<1>15. CASE Cut(more, n + 1)
  <2>1. IsSpace(b) /\ ~st.inQuote
    BY <1>4, <1>6, <1>15
  <2>2. next = TokenEnded(st)
    BY <1>2, <2>1, StepIs
  <2>3. next.cur = <<>>
    BY <1>2, <2>2, EndedIs
  <2>4. \E order : Lists(order, next.tokens, more, Left(more))
    BY <1>9, <1>11, <1>13, <1>14, <1>15, <2>2
  <2>5. PieceText(more, <<n + 2, n + 1>>) = <<>>
    <3>1. (n + 1) - (n + 2) + 1 = 0
      BY <1>1
    <3> HIDE DEF more, n
    <3>2. Runes(more, <<n + 2, n + 1>>) = <<>>
      BY <3>1 DEF Runes
    <3>3. QED
      BY <3>2, PieceTextIs, FlattenEmpty
  <2>6. AllQuotes(more, n + 2)
    <3>1. (n + 2) .. Len(more) = {}
      BY <1>1
    <3>2. QED
      BY <3>1 DEF AllQuotes
  <2>7. Run(more, n + 2)
    BY <1>10, <1>15
  <2> HIDE DEF next, more, n
  <2>8. (n + 1) + 1 = n + 2
    BY <1>1
  <2>9. next.inQuote <=> Quoted(more, (n + 1) + 1)
    BY <1>8, <2>8
  <2>10. \E r : Run(more, r) /\ next.cur = PieceText(more, <<r, n + 1>>) /\ (next.cur = <<>> <=> AllQuotes(more, r))
    BY <2>3, <2>5, <2>6, <2>7
  <2>11. Tracks(more)
    BY <1>1, <1>3, <2>4, <2>9, <2>10 DEF Tracks, next
  <2>12. QED
    BY <2>11 DEF more
<1>16. CASE ~Cut(more, n + 1)
  <2>1. ~(IsSpace(b) /\ ~st.inQuote)
    BY <1>4, <1>6, <1>16
  <2>2. next.tokens = st.tokens /\ next.cur = st.cur \o Rune(b)
    <3>1. CASE b = Quote
      <4>1. next.tokens = st.tokens /\ next.cur = st.cur
        BY <1>2, <3>1, StepIs DEF TokenState
      <4>2. st.cur \o <<>> = st.cur
        BY <1>7, ConcatEmptySeq
      <4>3. QED
        BY <3>1, <4>1, <4>2 DEF Rune
    <3>2. CASE b # Quote
      <4>1. st.inQuote \/ ~IsSpace(b)
        BY <1>7, <2>1
      <4>2. next = [st EXCEPT !.cur = @ \o WriteRune(b)]
        BY <1>2, <3>2, <4>1, StepIs
      <4>3. QED
        BY <1>2, <3>2, <4>2 DEF Rune, TokenState
    <3>3. QED
      BY <3>1, <3>2
  <2>3. \E order : Lists(order, next.tokens, more, Left(more))
    BY <1>9, <1>12, <1>13, <1>14, <1>16, <2>2
  <2>4. s \in 1 .. n + 1
    BY <1>5 DEF Run
  <2>5. next.cur = PieceText(more, <<s, n + 1>>)
    BY <1>5, <2>2, <2>4, PieceGrows
  <2>6. next.cur = <<>> <=> AllQuotes(more, s)
    <3>1. next.cur = <<>> <=> st.cur = <<>> /\ b = Quote
      <4>1. Rune(b) \in Seq(Octet) /\ (Rune(b) = <<>> <=> b = Quote)
        BY RuneTyped
      <4> HIDE DEF st, next
      <4>2. st.cur \o Rune(b) = <<>> <=> st.cur = <<>> /\ Rune(b) = <<>>
        BY <1>7, <4>1, ConcatEmptySeq, ConcatProperties
      <4>3. QED
        BY <2>2, <4>1, <4>2
    <3> HIDE DEF st, next, more, n
    <3>2. AllQuotes(more, s) <=> AllQuotes(text, s) /\ b = Quote
      <4>1. s \in 1 .. n + 1 /\ Len(text) = n
        BY <2>4 DEF n
      <4>2. \A i \in s .. n + 1 : i = n + 1 \/ (i \in s .. n /\ i \in 1 .. n)
        BY <1>1, <4>1
      <4>3. n + 1 \in s .. n + 1 /\ \A i \in s .. n : i \in s .. n + 1 /\ i \in 1 .. n
        BY <1>1, <4>1
      <4>4. QED
        BY <1>1, <4>1, <4>2, <4>3 DEF AllQuotes
    <3>3. QED
      BY <1>5, <3>1, <3>2
  <2>7. Run(more, s)
    BY <1>10, <1>16
  <2> HIDE DEF next, more, n
  <2>8. (n + 1) + 1 = n + 2
    BY <1>1
  <2>9. next.inQuote <=> Quoted(more, (n + 1) + 1)
    BY <1>8, <2>8
  <2>10. \E r : Run(more, r) /\ next.cur = PieceText(more, <<r, n + 1>>) /\ (next.cur = <<>> <=> AllQuotes(more, r))
    BY <2>5, <2>6, <2>7
  <2>11. Tracks(more)
    BY <1>1, <1>3, <2>3, <2>9, <2>10 DEF Tracks, next
  <2>12. QED
    BY <2>11 DEF more
<1>17. QED
  BY <1>15, <1>16

LEMMA TextTracks ==
  ASSUME NEW text \in Seq(Octet)
  PROVE  Tracks(text)
<1> DEFINE N == {n \in Nat : \A t \in Seq(Octet) : Len(t) = n => Tracks(t)}
<1>1. 0 \in N
  <2>1. \A t \in Seq(Octet) : Len(t) = 0 => t = <<>>
    OBVIOUS
  <2>2. QED
    BY <2>1, NoTextTracks
<1>2. ASSUME NEW n \in N PROVE n + 1 \in N
  <2> SUFFICES ASSUME NEW t \in Seq(Octet), Len(t) = n + 1 PROVE Tracks(t)
    OBVIOUS
  <2>1. n \in Nat
    OBVIOUS
  <2> DEFINE front == SubSeq(t, 1, n)
  <2>2. front \in Seq(Octet) /\ Len(front) = n /\ t[n + 1] \in Octet /\ t = Append(front, t[n + 1])
    BY <2>1
  <2>3. Tracks(front)
    BY <2>2
  <2> HIDE DEF front, N
  <2>4. Tracks(Append(front, t[n + 1]))
    BY <2>2, <2>3, TracksNext
  <2>5. QED
    BY <2>2, <2>4
<1>3. Len(text) \in N
  <2>1. N \in SUBSET Nat /\ Len(text) \in Nat
    OBVIOUS
  <2> HIDE DEF N
  <2>2. QED
    BY <1>1, <1>2, <2>1, NatSets
<1>4. QED
  BY <1>3

-----------------------------------------------------------------------------
(* What the client has typed is text.                                      *)
LineIsText == line \in Seq(Byte)

LEMMA ListOfPieces ==
  ASSUME NEW text \in Seq(Octet)
  PROVE  LET got == Tokenize(text)
         IN  /\ got.ok <=> ~Quoted(text, Len(text) + 1)
             /\ \E order \in [DOMAIN got.tokens -> Pieces(text)] :
                  /\ Range(order) = Pieces(text)
                  /\ \A m, n \in DOMAIN order : m < n => order[m][1] < order[n][1]
                  /\ got.tokens = [n \in DOMAIN order |-> PieceText(text, order[n])]
<1>1. Tracks(text)
  BY TextTracks
<1>2. PICK order : Lists(order, TokenEnded(After(text)).tokens, text, Pieces(text))
  BY <1>1, EndedLists
<1>3. After(text).inQuote <=> Quoted(text, Len(text) + 1)
  BY <1>1 DEF Tracks
<1>4. Tokenize(text).ok = ~After(text).inQuote /\ Tokenize(text).tokens = TokenEnded(After(text)).tokens
  BY TokenizeIs
<1>5. QED
  BY <1>2, <1>3, <1>4 DEF Lists

(* Whatever a client types, byte by byte, the tokenizer of parser.go finds *)
(* the pieces between its unquoted spaces, each of them once and in order, *)
(* and refuses it exactly when its quotes do not pair up.                  *)
THEOREM TokenizerFindsThePieces == TextSpec => []TokensAreThePieces
<1>1. TextInit => LineIsText
  BY DEF TextInit, LineIsText
<1>2. LineIsText /\ [TextNext]_textVars => LineIsText'
  <2> SUFFICES ASSUME LineIsText, [TextNext]_textVars PROVE LineIsText'
    OBVIOUS
  <2>1. ASSUME NEW b \in Byte, TypeByte(b) PROVE LineIsText'
    BY <2>1, AppendProperties DEF LineIsText, TypeByte
  <2>2. CASE Send
    BY <2>2 DEF Send, LineIsText
  <2>3. CASE Refuse
    BY <2>3 DEF Refuse, LineIsText
  <2>4. CASE CrashAndRestart
    BY <2>4 DEF CrashAndRestart, LineIsText
  <2>5. CASE UNCHANGED textVars
    BY <2>5 DEF textVars, LineIsText
  <2>6. QED
    BY <2>1, <2>2, <2>3, <2>4, <2>5 DEF TextNext
<1>3. LineIsText => TokensAreThePieces
  <2> SUFFICES ASSUME LineIsText PROVE TokensAreThePieces
    OBVIOUS
  <2>1. line \in Seq(Octet)
    <3>1. Byte \subseteq Octet
      BY TextAssumption DEF Octet
    <3>2. line \in Seq(Byte)
      BY DEF LineIsText
    <3>3. Len(line) \in Nat /\ line = [i \in 1 .. Len(line) |-> line[i]]
          /\ \A i \in 1 .. Len(line) : line[i] \in Byte
      BY <3>2
    <3>4. \A i \in 1 .. Len(line) : line[i] \in Octet
      BY <3>1, <3>3
    <3>5. QED
      BY <3>3, <3>4
  <2>2. QED
    BY <2>1, ListOfPieces DEF TokensAreThePieces
<1>4. QED
  BY <1>1, <1>2, <1>3, PTL DEF TextSpec

-----------------------------------------------------------------------------
(* The lines of a file.                                                    *)

(* f numbers the elements of S, the smallest first.                        *)
Numbers(f, m, S) ==
  /\ \A n \in 1 .. m : f[n] \in S
  /\ \A x \in S : \E n \in 1 .. m : f[n] = x
  /\ \A i, j \in 1 .. m : i < j => f[i] < f[j]

LEMMA NumberedCardinality ==
  ASSUME NEW S \in SUBSET Nat, NEW m \in Nat, NEW f, Numbers(f, m, S)
  PROVE  Cardinality(S) = m
<1> DEFINE g == [n \in 1 .. m |-> f[n]]
<1>1. g \in [1 .. m -> S] /\ \A n \in 1 .. m : g[n] = f[n]
  BY DEF Numbers
<1>2. \A x \in S : \E n \in 1 .. m : g[n] = x
  BY <1>1 DEF Numbers
<1> HIDE DEF g
<1>3. ASSUME NEW i \in 1 .. m, NEW j \in 1 .. m, g[i] = g[j] PROVE i = j
  <2>1. f[i] = f[j] /\ f[i] \in Nat
    BY <1>1, <1>3
  <2>2. i \in Nat /\ j \in Nat
    OBVIOUS
  <2>3. ~(i < j) /\ ~(j < i)
    BY <2>1 DEF Numbers
  <2>4. QED
    BY <2>2, <2>3
<1>4. g \in Bijection(1 .. m, S)
  BY <1>1, <1>2, <1>3, Fun_IsBij
<1>5. ExistsBijection(1 .. m, S)
  BY <1>4, Fun_ExistsBij
<1>6. QED
  BY <1>5, FS_CountingElements

LEMMA NumberIsRank ==
  ASSUME NEW S \in SUBSET Nat, NEW m \in Nat, NEW f, Numbers(f, m, S), NEW n \in 1 .. m
  PROVE  Cardinality({d \in S : d <= f[n]}) = n
<1> DEFINE T == {d \in S : d <= f[n]}
<1>1. n \in Nat /\ (\A i \in 1 .. n : i \in 1 .. m) /\ T \in SUBSET Nat
  <2>1. T \in SUBSET Nat
    OBVIOUS
  <2>2. n \in Nat /\ \A i \in 1 .. n : i \in 1 .. m
    OBVIOUS
  <2>3. QED
    BY <2>1, <2>2
<1>2. \A i \in 1 .. m : f[i] \in Nat /\ f[i] \in S
  BY DEF Numbers
<1>3. ASSUME NEW i \in 1 .. m PROVE f[i] <= f[n] <=> i <= n
  <2>1. i \in Nat /\ f[i] \in Nat /\ f[n] \in Nat
    BY <1>2
  <2>2. CASE i < n
    BY <2>1, <2>2 DEF Numbers
  <2>3. CASE i = n
    BY <2>1, <2>3
  <2>4. CASE n < i
    <3>1. f[n] < f[i]
      BY <2>4 DEF Numbers
    <3>2. QED
      BY <1>1, <2>1, <2>4, <3>1
  <2>5. QED
    BY <1>1, <2>1, <2>2, <2>3, <2>4
<1>4. Numbers(f, n, T)
  <2>1. ASSUME NEW i \in 1 .. n PROVE f[i] \in T
    <3>1. i \in 1 .. m /\ i <= n
      BY <1>1
    <3>2. QED
      BY <1>2, <1>3, <3>1
  <2>2. ASSUME NEW x \in T PROVE \E i \in 1 .. n : f[i] = x
    <3>1. PICK i \in 1 .. m : f[i] = x
      BY DEF Numbers
    <3>2. i <= n
      BY <1>3, <3>1
    <3>3. i \in 1 .. n
      BY <1>1, <3>2
    <3>4. QED
      BY <3>1, <3>3
  <2>3. \A i, j \in 1 .. n : i < j => f[i] < f[j]
    BY <1>1 DEF Numbers
  <2>4. QED
    BY <2>1, <2>2, <2>3 DEF Numbers
<1> HIDE DEF T
<1>5. Cardinality(T) = n
  BY <1>1, <1>4, NumberedCardinality
<1>6. QED
  BY <1>5 DEF T

AllEnds(text) == Ends(text) \cup (IF Unended(text) THEN {Len(text) + 1} ELSE {})

(* Where line n begins, if f numbers the ends of the lines.                *)
Begins(f, n) == IF n = 1 THEN 1 ELSE f[n - 1] + 1

LEMMA LinesAre ==
  ASSUME NEW text \in Seq(Octet), NEW m \in Nat, NEW f, Numbers(f, m, AllEnds(text))
  PROVE  FileLines(text) = [n \in 1 .. m |-> SubSeq(text, Begins(f, n), f[n] - 1)]
<1> DEFINE all == AllEnds(text)
           ends == [n \in 1 .. Cardinality(all) |->
                      CHOOSE e \in all : Cardinality({d \in all : d <= e}) = n]
           From(n) == IF n = 1 THEN 1 ELSE ends[n - 1] + 1
<1>1. all \in SUBSET Nat
  <2>1. Len(text) \in Nat /\ DOMAIN text \subseteq Nat
    OBVIOUS
  <2>2. QED
    BY <2>1 DEF AllEnds, Ends
<1>2. FileLines(text) = [n \in DOMAIN ends |-> SubSeq(text, From(n), ends[n] - 1)]
  BY DEF FileLines, AllEnds
<1> HIDE DEF all
<1>3. Cardinality(all) = m
  BY <1>1, NumberedCardinality DEF all
<1>4. ASSUME NEW n \in 1 .. m PROVE ends[n] = f[n]
  <2> DEFINE Place(e) == Cardinality({d \in all : d <= e})
  <2>1. f[n] \in all /\ Place(f[n]) = n
    BY <1>1, NumberIsRank DEF all, Numbers
  <2>2. ASSUME NEW e \in all, Place(e) = n PROVE e = f[n]
    <3>1. PICK i \in 1 .. m : f[i] = e
      BY DEF all, Numbers
    <3>2. Place(f[i]) = i
      BY <1>1, NumberIsRank DEF all
    <3> HIDE DEF Place
    <3>3. QED
      BY <2>2, <3>1, <3>2
  <2>3. ends[n] = CHOOSE e \in all : Place(e) = n
    BY <1>3
  <2> HIDE DEF Place, ends
  <2>4. QED
    BY <2>1, <2>2, <2>3
<1>5. DOMAIN ends = 1 .. m
  BY <1>3
<1> HIDE DEF ends
<1>6. ASSUME NEW n \in 1 .. m PROVE From(n) = Begins(f, n)
  <2>1. n = 1 \/ n - 1 \in 1 .. m
    OBVIOUS
  <2>2. QED
    BY <1>4, <2>1 DEF Begins
<1> HIDE DEF From
<1>7. QED
  BY <1>2, <1>4, <1>5, <1>6

(* A text whose lines have ended goes on.                                  *)
LEMMA LineAdded ==
  ASSUME NEW a \in Seq(Octet), ~Unended(a), NEW b \in Seq(Octet), Len(a) <= Len(b),
         \A i \in 1 .. Len(a) : b[i] = a[i],
         NEW x \in Nat, x > Len(a), x <= Len(b) + 1,
         AllEnds(b) = Ends(a) \cup {x},
         NEW m \in Nat, NEW f, Numbers(f, m, Ends(a))
  PROVE  /\ FileLines(b) = Append(FileLines(a), SubSeq(b, Len(a) + 1, x - 1))
         /\ FileLines(a) \in Seq(Seq(Octet)) /\ Len(FileLines(a)) = m
<1> DEFINE n == Len(a)
           g == [i \in 1 .. m + 1 |-> IF i = m + 1 THEN x ELSE f[i]]
<1>1. n \in Nat /\ DOMAIN a = 1 .. n /\ Len(b) \in Nat /\ \A i \in 1 .. n : a[i] \in Octet
  OBVIOUS
<1>2. \A i \in 1 .. m + 1 : i = m + 1 \/ (i \in 1 .. m /\ i # m + 1)
  OBVIOUS
<1>3. g[m + 1] = x /\ \A i \in 1 .. m : g[i] = f[i]
  BY <1>2
<1>4. /\ \A i \in 1 .. m : f[i] \in 1 .. n /\ a[f[i]] = Newline
      /\ \A e \in 1 .. n : a[e] = Newline => \E i \in 1 .. m : f[i] = e
      /\ \A i, j \in 1 .. m : i < j => f[i] < f[j]
  BY <1>1 DEF Numbers, Ends
<1> HIDE DEF g, n
<1>5. Numbers(g, m + 1, AllEnds(b))
  <2>1. \A i \in 1 .. m + 1 : g[i] \in Ends(a) \cup {x}
    BY <1>2, <1>3 DEF Numbers
  <2>2. ASSUME NEW y \in Ends(a) \cup {x} PROVE \E i \in 1 .. m + 1 : g[i] = y
    <3>1. CASE y = x
      BY <1>3, <3>1
    <3>2. CASE y \in Ends(a)
      <4>1. PICK i \in 1 .. m : f[i] = y
        BY <3>2 DEF Numbers
      <4>2. i \in 1 .. m + 1
        OBVIOUS
      <4>3. QED
        BY <1>3, <4>1, <4>2
    <3>3. QED
      BY <3>1, <3>2
  <2>3. ASSUME NEW i \in 1 .. m + 1, NEW j \in 1 .. m + 1, i < j PROVE g[i] < g[j]
    <3>1. i \in 1 .. m
      BY <2>3
    <3>2. CASE j = m + 1
      <4>1. f[i] \in 1 .. n /\ g[i] = f[i] /\ g[j] = x
        BY <1>3, <1>4, <3>1, <3>2
      <4>2. x > n
        BY DEF n
      <4>3. QED
        BY <1>1, <4>1, <4>2
    <3>3. CASE j # m + 1
      BY <1>2, <1>3, <1>4, <2>3, <3>1, <3>3
    <3>4. QED
      BY <3>2, <3>3
  <2>4. QED
    BY <2>1, <2>2, <2>3 DEF Numbers
<1>6. AllEnds(a) = Ends(a)
  BY DEF AllEnds
<1>7. FileLines(a) = [i \in 1 .. m |-> SubSeq(a, Begins(f, i), f[i] - 1)]
  BY <1>6, LinesAre
<1>8. FileLines(b) = [i \in 1 .. m + 1 |-> SubSeq(b, Begins(g, i), g[i] - 1)]
  <2>1. m + 1 \in Nat
    OBVIOUS
  <2>2. QED
    BY <1>5, <2>1, LinesAre
<1>9. ASSUME NEW i \in 1 .. m
      PROVE  /\ SubSeq(a, Begins(f, i), f[i] - 1) \in Seq(Octet)
             /\ SubSeq(b, Begins(g, i), g[i] - 1) = SubSeq(a, Begins(f, i), f[i] - 1)
  <2>1. Begins(g, i) = Begins(f, i) /\ g[i] = f[i] /\ Begins(f, i) \in Nat \ {0}
    <3>1. i = 1 \/ i - 1 \in 1 .. m
      OBVIOUS
    <3>2. i = 1 => Begins(g, i) = 1 /\ Begins(f, i) = 1
      BY DEF Begins
    <3>3. i # 1 => /\ Begins(g, i) = g[i - 1] + 1 /\ Begins(f, i) = f[i - 1] + 1
                   /\ g[i - 1] = f[i - 1] /\ f[i - 1] \in 1 .. n
      BY <1>3, <1>4, <3>1 DEF Begins
    <3>4. QED
      BY <1>1, <1>3, <3>2, <3>3
  <2> DEFINE l == Begins(f, i)
             h == f[i] - 1
  <2>2. l \in Nat \ {0} /\ h \in Int /\ h <= n
    BY <1>1, <1>4, <2>1
  <2> HIDE DEF l, h
  <2>3. \A j \in l .. h : j \in 1 .. n
    BY <1>1, <2>2
  <2>4. \A j \in l .. h : a[j] \in Octet /\ b[j] = a[j]
    BY <1>1, <2>3 DEF n
  <2>5. /\ SubSeq(a, l, h) \in Seq(Octet) /\ Len(SubSeq(a, l, h)) = IF l <= h THEN h - l + 1 ELSE 0
        /\ \A j \in 1 .. h - l + 1 : SubSeq(a, l, h)[j] = a[l + j - 1]
    BY <2>2, <2>4, SubSeqProperties
  <2>6. /\ SubSeq(b, l, h) \in Seq(Octet) /\ Len(SubSeq(b, l, h)) = IF l <= h THEN h - l + 1 ELSE 0
        /\ \A j \in 1 .. h - l + 1 : SubSeq(b, l, h)[j] = b[l + j - 1]
    BY <2>2, <2>4, SubSeqProperties
  <2>7. \A j \in 1 .. h - l + 1 : l + j - 1 \in l .. h
    BY <2>2
  <2>8. SubSeq(b, l, h) = SubSeq(a, l, h)
    <3>1. Len(SubSeq(a, l, h)) = Len(SubSeq(b, l, h))
      BY <2>5, <2>6
    <3>2. \A j \in 1 .. Len(SubSeq(a, l, h)) : j \in 1 .. h - l + 1
      BY <2>2, <2>5
    <3>3. \A j \in 1 .. Len(SubSeq(a, l, h)) : SubSeq(a, l, h)[j] = SubSeq(b, l, h)[j]
      BY <2>4, <2>5, <2>6, <2>7, <3>2
    <3>4. QED
      BY <2>5, <2>6, <3>1, <3>3, SeqEqual
  <2>9. QED
    BY <2>1, <2>5, <2>8 DEF l, h
<1>10. Begins(g, m + 1) = n + 1
  <2>1. CASE m = 0
    <3>1. n = 0
      <4> SUFFICES ASSUME n # 0 PROVE FALSE
        OBVIOUS
      <4>1. a # <<>> /\ n \in 1 .. n
        BY <1>1 DEF n
      <4>2. a[n] = Newline
        BY <4>1 DEF Unended, Last, n
      <4>3. \E i \in 1 .. m : f[i] = n
        BY <1>4, <4>1, <4>2
      <4>4. QED
        BY <2>1, <4>3
    <3>2. QED
      BY <2>1, <3>1 DEF Begins
  <2>2. CASE m # 0
    <3>1. m \in 1 .. m /\ f[m] \in 1 .. n
      BY <1>4, <2>2
    <3>2. n \in 1 .. n /\ a # <<>>
      BY <1>1, <3>1 DEF n
    <3>3. a[n] = Newline
      BY <3>2 DEF Unended, Last, n
    <3>4. PICK i \in 1 .. m : f[i] = n
      BY <1>4, <3>2, <3>3
    <3>5. i = m
      <4>1. ~(i < m)
        BY <1>1, <1>4, <3>1, <3>4
      <4>2. QED
        BY <4>1
    <3>6. m + 1 # 1 /\ (m + 1) - 1 = m /\ g[m] = f[m]
      BY <1>3, <2>2, <3>1
    <3>7. QED
      BY <3>4, <3>5, <3>6 DEF Begins
  <2>3. QED
    BY <2>1, <2>2
<1> DEFINE body == SubSeq(b, n + 1, x - 1)
           lines == FileLines(a)
<1>11. lines \in Seq(Seq(Octet)) /\ Len(lines) = m
  <2>1. \A i \in 1 .. m : SubSeq(a, Begins(f, i), f[i] - 1) \in Seq(Octet)
    BY <1>9
  <2>2. lines = [i \in 1 .. m |-> lines[i]] /\ \A i \in 1 .. m : lines[i] \in Seq(Octet)
    BY <1>7, <2>1
  <2> HIDE DEF lines
  <2>3. lines \in [1 .. m -> Seq(Octet)]
    BY <2>2
  <2>4. lines \in Seq(Seq(Octet))
    BY <2>3
  <2>5. Len(lines) = m
    BY <2>3
  <2>6. QED
    BY <2>4, <2>5
<1>12. body \in Seq(Octet)
  <2>1. \A j \in n + 1 .. x - 1 : b[j] \in Octet
    <3>1. x - 1 <= Len(b)
      BY <1>1
    <3>2. \A j \in n + 1 .. x - 1 : j \in 1 .. Len(b)
      BY <1>1, <3>1
    <3>3. QED
      BY <3>2
  <2>2. n + 1 \in Int /\ x - 1 \in Int
    BY <1>1
  <2>3. QED
    BY <2>1, <2>2, SubSeqProperties
<1>13. FileLines(b) = Append(lines, body)
  <2>1. SubSeq(b, Begins(g, m + 1), g[m + 1] - 1) = body
    BY <1>3, <1>10
  <2>2. \A i \in 1 .. m : SubSeq(b, Begins(g, i), g[i] - 1) = lines[i]
    BY <1>7, <1>9
  <2> HIDE DEF body, lines
  <2>3. /\ Append(lines, body) \in Seq(Seq(Octet)) /\ Len(Append(lines, body)) = m + 1
        /\ Append(lines, body)[m + 1] = body /\ \A i \in 1 .. m : Append(lines, body)[i] = lines[i]
    BY <1>11, <1>12, AppendProperties
  <2> DEFINE appended == Append(lines, body)
  <2> HIDE DEF appended
  <2>4. appended = [i \in 1 .. m + 1 |-> appended[i]]
    <3>1. appended \in Seq(Seq(Octet)) /\ Len(appended) = m + 1
      BY <2>3 DEF appended
    <3>2. QED
      BY <3>1
  <2>5. ASSUME NEW i \in 1 .. m + 1 PROVE SubSeq(b, Begins(g, i), g[i] - 1) = appended[i]
    BY <1>2, <2>1, <2>2, <2>3 DEF appended
  <2>6. FileLines(b) = appended
    BY <1>8, <2>4, <2>5
  <2>7. QED
    BY <2>6 DEF appended
<1>14. QED
  BY <1>11, <1>13 DEF body, lines, n

LEMMA EndsNumbered ==
  ASSUME NEW text \in Seq(Octet)
  PROVE  \E m \in Nat : \E f : Numbers(f, m, Ends(text))
<1> DEFINE n == Len(text)
           Until(k) == {i \in 1 .. k : text[i] = Newline}
           N == {k \in Nat : \E m \in Nat : \E f : Numbers(f, m, Until(k))}
<1>1. 0 \in N
  <2>1. Numbers(<<>>, 0, Until(0))
    BY DEF Numbers
  <2>2. QED
    BY <2>1
<1>2. ASSUME NEW k \in N PROVE k + 1 \in N
  <2>1. PICK m \in Nat : \E f : Numbers(f, m, Until(k))
    OBVIOUS
  <2>2. PICK f : Numbers(f, m, Until(k))
    BY <2>1
  <2>3. k \in Nat /\ \A i \in 1 .. k + 1 : i = k + 1 \/ i \in 1 .. k
    OBVIOUS
  <2>4. k + 1 \in 1 .. k + 1 /\ \A i \in 1 .. k : i \in 1 .. k + 1 /\ i < k + 1
    BY <2>3
  <2>5. CASE text[k + 1] = Newline
    <3> DEFINE g == [i \in 1 .. m + 1 |-> IF i = m + 1 THEN k + 1 ELSE f[i]]
    <3>1. \A i \in 1 .. m + 1 : i = m + 1 \/ (i \in 1 .. m /\ i # m + 1)
      OBVIOUS
    <3>2. m + 1 \in 1 .. m + 1 /\ \A i \in 1 .. m : i \in 1 .. m + 1
      OBVIOUS
    <3>3. g[m + 1] = k + 1 /\ \A i \in 1 .. m : g[i] = f[i]
      BY <3>1
    <3> HIDE DEF g
    <3>4. \A i \in 1 .. m : f[i] \in 1 .. k /\ text[f[i]] = Newline
      BY <2>2 DEF Numbers
    <3>5. \A i \in 1 .. m + 1 : g[i] \in Until(k + 1)
      BY <2>4, <2>5, <3>1, <3>3, <3>4
    <3>6. ASSUME NEW x \in Until(k + 1) PROVE \E i \in 1 .. m + 1 : g[i] = x
      <4>1. CASE x = k + 1
        BY <3>2, <3>3, <4>1
      <4>2. CASE x # k + 1
        <5>1. x \in Until(k)
          BY <2>3, <4>2
        <5>2. PICK i \in 1 .. m : f[i] = x
          BY <2>2, <5>1 DEF Numbers
        <5>3. QED
          BY <3>2, <3>3, <5>2
      <4>3. QED
        BY <4>1, <4>2
    <3>7. ASSUME NEW i \in 1 .. m + 1, NEW j \in 1 .. m + 1, i < j PROVE g[i] < g[j]
      <4>1. i \in 1 .. m
        BY <3>7
      <4>2. CASE j = m + 1
        BY <2>4, <3>3, <3>4, <4>1, <4>2
      <4>3. CASE j # m + 1
        <5>1. j \in 1 .. m /\ f[i] < f[j]
          BY <2>2, <3>1, <3>7, <4>1, <4>3 DEF Numbers
        <5>2. QED
          BY <3>3, <4>1, <5>1
      <4>4. QED
        BY <4>2, <4>3
    <3>8. Numbers(g, m + 1, Until(k + 1))
      BY <3>5, <3>6, <3>7 DEF Numbers
    <3>9. m + 1 \in Nat /\ k + 1 \in Nat
      BY <2>3
    <3>10. QED
      BY <3>8, <3>9
  <2>6. CASE text[k + 1] # Newline
    <3>1. Until(k + 1) = Until(k)
      BY <2>3, <2>4, <2>6
    <3>2. k + 1 \in Nat
      BY <2>3
    <3>3. QED
      BY <2>2, <3>1, <3>2
  <2>7. QED
    BY <2>5, <2>6
<1>3. n \in N
  <2>1. N \in SUBSET Nat /\ n \in Nat
    OBVIOUS
  <2> HIDE DEF N
  <2>2. QED
    BY <1>1, <1>2, <2>1, NatSets
<1>4. Until(n) = Ends(text)
  <2>1. DOMAIN text = 1 .. n
    OBVIOUS
  <2>2. QED
    BY <2>1 DEF Ends
<1>5. QED
  BY <1>3, <1>4

(* A line in full.                                                         *)
LEMMA LineEnds ==
  ASSUME NEW a \in Seq(Octet), ~Unended(a), NEW body \in Seq(Octet \ {Newline})
  PROVE  LET b == a \o body \o <<Newline>>
         IN  /\ b \in Seq(Octet) /\ ~Unended(b)
             /\ FileLines(b) = Append(FileLines(a), body)
             /\ FileLines(a) \in Seq(Seq(Octet)) /\ Len(FileLines(a)) = Cardinality(Ends(a))
             /\ Cardinality(Ends(b)) = Cardinality(Ends(a)) + 1
<1> DEFINE n == Len(a)
           k == Len(body)
           b == a \o body \o <<Newline>>
<1>1. body \in Seq(Octet) /\ <<Newline>> \in Seq(Octet) /\ Len(<<Newline>>) = 1
  <2>1. body \in Seq(Octet)
    BY SeqWider
  <2>2. QED
    BY <2>1 DEF Newline, Octet
<1>2. n \in Nat /\ k \in Nat /\ DOMAIN a = 1 .. n
  BY <1>1
<1>3. /\ a \o body \in Seq(Octet) /\ Len(a \o body) = n + k
      /\ \A i \in 1 .. n + k : (a \o body)[i] = IF i <= n THEN a[i] ELSE body[i - n]
  BY <1>1, ConcatProperties
<1>4. /\ b \in Seq(Octet) /\ Len(b) = n + k + 1
      /\ \A i \in 1 .. n + k + 1 : b[i] = IF i <= n + k THEN (a \o body)[i] ELSE <<Newline>>[i - (n + k)]
  BY <1>1, <1>3, ConcatProperties
<1>5. \A i \in 1 .. k : body[i] \in Octet /\ body[i] # Newline
  OBVIOUS
<1> HIDE DEF b, n, k
<1>6. /\ \A i \in 1 .. n : b[i] = a[i]
      /\ \A i \in 1 .. k : b[n + i] = body[i]
      /\ b[n + k + 1] = Newline
  <2>1. ASSUME NEW i \in 1 .. n PROVE b[i] = a[i]
    <3>1. i \in 1 .. n + k /\ i \in 1 .. n + k + 1 /\ i <= n + k /\ i <= n
      BY <1>2
    <3>2. QED
      BY <1>3, <1>4, <3>1
  <2>2. ASSUME NEW i \in 1 .. k PROVE b[n + i] = body[i]
    <3>1. n + i \in 1 .. n + k /\ n + i \in 1 .. n + k + 1 /\ n + i <= n + k /\ ~(n + i <= n) /\ (n + i) - n = i
      BY <1>2
    <3>2. QED
      BY <1>3, <1>4, <3>1
  <2>3. b[n + k + 1] = Newline
    <3>1. n + k + 1 \in 1 .. n + k + 1 /\ ~(n + k + 1 <= n + k) /\ (n + k + 1) - (n + k) = 1
      BY <1>2
    <3>2. QED
      BY <1>4, <3>1
  <2>4. QED
    BY <2>1, <2>2, <2>3
<1> DEFINE x == n + k + 1
<1>7. x \in Nat /\ x > n /\ x <= Len(b) + 1 /\ n <= Len(b) /\ Len(b) = x
  BY <1>2, <1>4
<1>8. Ends(b) = Ends(a) \cup {x}
  <2>1. DOMAIN b = 1 .. x
    BY <1>4
  <2>2. \A i \in 1 .. x : i \in 1 .. n \/ i = x \/ (i - n \in 1 .. k /\ n + (i - n) = i)
    BY <1>2
  <2>3. \A i \in 1 .. x : b[i] = Newline => i = x \/ (i \in 1 .. n /\ a[i] = Newline)
    BY <1>5, <1>6, <2>2
  <2>4. x \in 1 .. x /\ \A i \in 1 .. n : i \in 1 .. x
    BY <1>2
  <2>5. QED
    BY <1>2, <1>6, <2>1, <2>3, <2>4 DEF Ends
<1>9. ~Unended(b)
  BY <1>6, <1>7 DEF Unended, Last
<1>10. AllEnds(b) = Ends(a) \cup {x}
  BY <1>8, <1>9 DEF AllEnds
<1>11. PICK m \in Nat : \E f : Numbers(f, m, Ends(a))
  BY EndsNumbered
<1>12. PICK f : Numbers(f, m, Ends(a))
  BY <1>11
<1> HIDE DEF x
<1>13. /\ FileLines(b) = Append(FileLines(a), SubSeq(b, n + 1, x - 1))
       /\ FileLines(a) \in Seq(Seq(Octet)) /\ Len(FileLines(a)) = m
  BY <1>4, <1>6, <1>7, <1>10, <1>12, LineAdded DEF n
<1>14. SubSeq(b, n + 1, x - 1) = body
  <2>1. x - 1 = n + k
    BY <1>2 DEF x
  <2>2. \A i \in n + 1 .. n + k : i \in 1 .. Len(b)
    BY <1>2, <1>4
  <2>3. n + 1 \in Int /\ n + k \in Int /\ \A i \in n + 1 .. n + k : b[i] \in Octet
    BY <1>2, <1>4, <2>2
  <2>4. /\ SubSeq(b, n + 1, n + k) \in Seq(Octet)
        /\ Len(SubSeq(b, n + 1, n + k)) = IF n + 1 <= n + k THEN (n + k) - (n + 1) + 1 ELSE 0
        /\ \A i \in 1 .. (n + k) - (n + 1) + 1 : SubSeq(b, n + 1, n + k)[i] = b[n + 1 + i - 1]
    BY <2>3, SubSeqProperties
  <2>5. (n + k) - (n + 1) + 1 = k /\ \A i \in 1 .. k : n + 1 + i - 1 = n + i
    BY <1>2
  <2>6. Len(SubSeq(b, n + 1, n + k)) = k
    BY <1>2, <2>4
  <2>7. \A i \in 1 .. k : SubSeq(b, n + 1, n + k)[i] = body[i]
    BY <1>6, <2>4, <2>5
  <2>8. SubSeq(b, n + 1, n + k) = body
    BY <1>1, <2>4, <2>6, <2>7, SeqEqual DEF k
  <2>9. QED
    BY <2>1, <2>8
<1>15. Cardinality(Ends(a)) = m /\ Cardinality(Ends(b)) = m + 1
  <2>1. IsFiniteSet(1 .. n) /\ Ends(a) \in SUBSET (1 .. n) /\ Ends(a) \in SUBSET Nat
    BY <1>2, FS_Interval DEF Ends
  <2>2. Cardinality(Ends(a)) = m
    BY <1>12, <2>1, NumberedCardinality
  <2>3. IsFiniteSet(Ends(a))
    BY <2>1, FS_Subset
  <2>4. x \notin Ends(a)
    BY <1>2, <1>7, <2>1
  <2>5. QED
    BY <1>8, <2>2, <2>3, <2>4, FS_AddElement
<1>16. QED
  BY <1>4, <1>9, <1>13, <1>14, <1>15 DEF b

(* The beginning of a line.                                                *)
LEMMA LineBegins ==
  ASSUME NEW a \in Seq(Octet), ~Unended(a), NEW rest \in Seq(Octet \ {Newline}), rest # <<>>
  PROVE  LET b == a \o rest
         IN  /\ b \in Seq(Octet) /\ Unended(b)
             /\ FileLines(b) = Append(FileLines(a), rest)
             /\ Ends(b) = Ends(a)
<1> DEFINE n == Len(a)
           k == Len(rest)
           b == a \o rest
<1>1. rest \in Seq(Octet)
  BY SeqWider
<1>2. n \in Nat /\ k \in Nat /\ k > 0 /\ DOMAIN a = 1 .. n
  BY <1>1
<1>3. /\ b \in Seq(Octet) /\ Len(b) = n + k
      /\ \A i \in 1 .. n + k : b[i] = IF i <= n THEN a[i] ELSE rest[i - n]
  BY <1>1, ConcatProperties
<1>4. \A i \in 1 .. k : rest[i] \in Octet /\ rest[i] # Newline
  OBVIOUS
<1> HIDE DEF b, n, k
<1>5. /\ \A i \in 1 .. n : b[i] = a[i]
      /\ \A i \in 1 .. k : b[n + i] = rest[i]
  <2>1. ASSUME NEW i \in 1 .. n PROVE b[i] = a[i]
    <3>1. i \in 1 .. n + k /\ i <= n
      BY <1>2
    <3>2. QED
      BY <1>3, <3>1
  <2>2. ASSUME NEW i \in 1 .. k PROVE b[n + i] = rest[i]
    <3>1. n + i \in 1 .. n + k /\ ~(n + i <= n) /\ (n + i) - n = i
      BY <1>2
    <3>2. QED
      BY <1>3, <3>1
  <2>3. QED
    BY <2>1, <2>2
<1> DEFINE x == n + k + 1
<1>6. x \in Nat /\ x > n /\ x <= Len(b) + 1 /\ n <= Len(b) /\ Len(b) = n + k
  BY <1>2, <1>3
<1>7. Ends(b) = Ends(a)
  <2>1. DOMAIN b = 1 .. n + k
    BY <1>3
  <2>2. \A i \in 1 .. n + k : i \in 1 .. n \/ (i - n \in 1 .. k /\ n + (i - n) = i)
    BY <1>2
  <2>3. \A i \in 1 .. n + k : b[i] = Newline => i \in 1 .. n /\ a[i] = Newline
    BY <1>4, <1>5, <2>2
  <2>4. \A i \in 1 .. n : i \in 1 .. n + k
    BY <1>2
  <2>5. QED
    BY <1>2, <1>5, <2>1, <2>3, <2>4 DEF Ends
<1>8. Unended(b)
  <2>1. k \in 1 .. k /\ b # <<>>
    BY <1>2, <1>6
  <2>2. b[n + k] # Newline
    BY <1>4, <1>5, <2>1
  <2>3. QED
    BY <1>6, <2>1, <2>2 DEF Unended, Last
<1>9. AllEnds(b) = Ends(a) \cup {x}
  BY <1>6, <1>7, <1>8 DEF AllEnds
<1>10. PICK m \in Nat : \E f : Numbers(f, m, Ends(a))
  BY EndsNumbered
<1>11. PICK f : Numbers(f, m, Ends(a))
  BY <1>10
<1> HIDE DEF x
<1>12. FileLines(b) = Append(FileLines(a), SubSeq(b, n + 1, x - 1))
  BY <1>3, <1>5, <1>6, <1>9, <1>11, LineAdded DEF n
<1>13. SubSeq(b, n + 1, x - 1) = rest
  <2>1. x - 1 = n + k
    BY <1>2 DEF x
  <2>2. \A i \in n + 1 .. n + k : i \in 1 .. Len(b)
    BY <1>2, <1>3
  <2>3. n + 1 \in Int /\ n + k \in Int /\ \A i \in n + 1 .. n + k : b[i] \in Octet
    BY <1>2, <1>3, <2>2
  <2>4. /\ SubSeq(b, n + 1, n + k) \in Seq(Octet)
        /\ Len(SubSeq(b, n + 1, n + k)) = IF n + 1 <= n + k THEN (n + k) - (n + 1) + 1 ELSE 0
        /\ \A i \in 1 .. (n + k) - (n + 1) + 1 : SubSeq(b, n + 1, n + k)[i] = b[n + 1 + i - 1]
    BY <2>3, SubSeqProperties
  <2>5. (n + k) - (n + 1) + 1 = k /\ \A i \in 1 .. k : n + 1 + i - 1 = n + i
    BY <1>2
  <2>6. Len(SubSeq(b, n + 1, n + k)) = k
    BY <1>2, <2>4
  <2>7. \A i \in 1 .. k : SubSeq(b, n + 1, n + k)[i] = rest[i]
    BY <1>5, <2>4, <2>5
  <2>8. SubSeq(b, n + 1, n + k) = rest
    BY <1>1, <2>4, <2>6, <2>7, SeqEqual DEF k
  <2>9. QED
    BY <2>1, <2>8
<1>14. QED
  BY <1>3, <1>7, <1>8, <1>12, <1>13 DEF b

LEMMA NoLines == ~Unended(<<>>) /\ FileLines(<<>>) = <<>> /\ Ends(<<>>) = {}
<1>1. <<>> \in Seq(Octet) /\ ~Unended(<<>>) /\ Ends(<<>>) = {}
  BY DEF Unended, Ends
<1>2. Numbers(<<>>, 0, AllEnds(<<>>))
  BY <1>1 DEF AllEnds, Numbers
<1>3. FileLines(<<>>) = [n \in 1 .. 0 |-> SubSeq(<<>>, Begins(<<>>, n), <<>>[n] - 1)]
  BY <1>1, <1>2, LinesAre
<1>4. QED
  BY <1>1, <1>3

(* A text is its lines and what follows the last newline.                  *)
Splits(text, a, rest, S) ==
  /\ a \in Seq(S) /\ ~Unended(a) /\ rest \in Seq(S \ {Newline}) /\ text = a \o rest
  /\ FileLines(a) \in Seq(Seq(S \ {Newline}))

LEMMA SplitMore ==
  ASSUME NEW S, S \subseteq Octet, NEW text \in Seq(S), NEW a, NEW rest, Splits(text, a, rest, S),
         NEW x \in S
  PROVE  /\ x = Newline => Splits(Append(text, x), a \o rest \o <<Newline>>, <<>>, S)
         /\ x # Newline => Splits(Append(text, x), a, Append(rest, x), S)
<1>1. /\ a \in Seq(S) /\ a \in Seq(Octet) /\ ~Unended(a)
      /\ rest \in Seq(S \ {Newline}) /\ rest \in Seq(S) /\ rest \in Seq(Octet \ {Newline})
      /\ text = a \o rest /\ FileLines(a) \in Seq(Seq(S \ {Newline}))
  <2>1. S \ {Newline} \subseteq S /\ S \ {Newline} \subseteq Octet \ {Newline}
    OBVIOUS
  <2>2. QED
    BY <2>1, SeqWider DEF Splits
<1>2. CASE x = Newline
  <2> DEFINE b == a \o rest \o <<Newline>>
  <2>1. b \in Seq(Octet) /\ ~Unended(b) /\ FileLines(b) = Append(FileLines(a), rest)
    BY <1>1, LineEnds
  <2>2. Append(text, x) = b
    BY <1>1, <1>2, ConcatAppend
  <2>3. b \in Seq(S)
    BY <2>2, AppendProperties
  <2> HIDE DEF b
  <2>4. b \o <<>> = b /\ <<>> \in Seq(S \ {Newline})
    BY <2>3, ConcatEmptySeq, EmptySeq
  <2>5. FileLines(b) \in Seq(Seq(S \ {Newline}))
    BY <1>1, <2>1, AppendProperties
  <2>6. Splits(Append(text, x), b, <<>>, S)
    BY <2>1, <2>2, <2>3, <2>4, <2>5 DEF Splits
  <2>7. QED
    BY <1>2, <2>6 DEF b
<1>3. CASE x # Newline
  <2>1. x \in S \ {Newline}
    BY <1>3
  <2>2. Append(rest, x) \in Seq(S \ {Newline})
    BY <1>1, <2>1, AppendProperties
  <2>3. Append(text, x) = a \o Append(rest, x)
    <3>1. a \in Seq(S) /\ rest \in Seq(S) /\ text = a \o rest
      BY <1>1
    <3>2. a \o Append(rest, x) = Append(a \o rest, x)
      BY <3>1, ConcatAppend
    <3>3. QED
      BY <3>1, <3>2
  <2>4. QED
    BY <1>1, <1>3, <2>2, <2>3 DEF Splits
<1>4. QED
  BY <1>2, <1>3

LEMMA TextSplits ==
  ASSUME NEW S, S \subseteq Octet, NEW text \in Seq(S)
  PROVE  \E a, rest : Splits(text, a, rest, S)
<1> DEFINE N == {n \in Nat : \A t \in Seq(S) : Len(t) = n => \E a, rest : Splits(t, a, rest, S)}
<1>1. 0 \in N
  <2> SUFFICES ASSUME NEW t \in Seq(S), Len(t) = 0 PROVE \E a, rest : Splits(t, a, rest, S)
    OBVIOUS
  <2>1. t = <<>> /\ <<>> \in Seq(S \ {Newline}) /\ <<>> \in Seq(Seq(S \ {Newline}))
    OBVIOUS
  <2>2. <<>> = <<>> \o <<>>
    BY <2>1, ConcatEmptySeq
  <2>3. Splits(<<>>, <<>>, <<>>, S)
    BY <2>1, <2>2, NoLines DEF Splits
  <2>4. QED
    BY <2>1, <2>3
<1>2. ASSUME NEW n \in N PROVE n + 1 \in N
  <2> SUFFICES ASSUME NEW t \in Seq(S), Len(t) = n + 1 PROVE \E a, rest : Splits(t, a, rest, S)
    OBVIOUS
  <2>1. n \in Nat
    OBVIOUS
  <2> DEFINE front == SubSeq(t, 1, n)
  <2>2. front \in Seq(S) /\ Len(front) = n /\ t[n + 1] \in S /\ t = Append(front, t[n + 1])
    BY <2>1, FrontAndLast
  <2>3. PICK a, rest : Splits(front, a, rest, S)
    BY <2>2
  <2> HIDE DEF front, N
  <2>4. \/ Splits(Append(front, t[n + 1]), a \o rest \o <<Newline>>, <<>>, S)
        \/ Splits(Append(front, t[n + 1]), a, Append(rest, t[n + 1]), S)
    BY <2>2, <2>3, SplitMore
  <2>5. QED
    BY <2>2, <2>4
<1>3. Len(text) \in N
  <2>1. N \in SUBSET Nat /\ Len(text) \in Nat
    OBVIOUS
  <2> HIDE DEF N
  <2>2. QED
    BY <1>1, <1>2, <2>1, NatSets
<1>4. QED
  BY <1>3

(* The lines of a text, once it is split.                                  *)
LinesOf(lines, rest) == IF rest = <<>> THEN lines ELSE Append(lines, rest)

LEMMA SplitLines ==
  ASSUME NEW S, S \subseteq Octet, NEW text, NEW a, NEW rest, Splits(text, a, rest, S)
  PROVE  /\ a \in Seq(Octet) /\ rest \in Seq(Octet \ {Newline})
         /\ FileLines(text) = LinesOf(FileLines(a), rest)
         /\ Len(FileLines(a)) = Cardinality(Ends(text))
         /\ Cardinality(Ends(a)) = Cardinality(Ends(text))
         /\ Unended(text) <=> rest # <<>>
<1>1. /\ a \in Seq(Octet) /\ ~Unended(a) /\ rest \in Seq(Octet \ {Newline})
      /\ text = a \o rest
  <2>1. S \ {Newline} \subseteq Octet \ {Newline}
    OBVIOUS
  <2>2. QED
    BY <2>1, SeqWider DEF Splits
<1>2. Len(FileLines(a)) = Cardinality(Ends(a))
  BY <1>1, LineEnds
<1>3. CASE rest = <<>>
  <2>1. text = a
    BY <1>1, <1>3, ConcatEmptySeq
  <2>2. FileLines(text) = LinesOf(FileLines(a), rest)
    BY <1>3, <2>1 DEF LinesOf
  <2>3. QED
    BY <1>1, <1>2, <1>3, <2>1, <2>2
<1>4. CASE rest # <<>>
  <2>1. Unended(a \o rest) /\ FileLines(a \o rest) = Append(FileLines(a), rest) /\ Ends(a \o rest) = Ends(a)
    BY <1>1, <1>4, LineBegins
  <2>2. Unended(text) /\ FileLines(text) = Append(FileLines(a), rest) /\ Ends(text) = Ends(a)
    BY <1>1, <2>1
  <2>3. a \in Seq(Octet) /\ rest \in Seq(Octet \ {Newline})
    BY <1>1
  <2>4. Unended(text) <=> rest # <<>>
    BY <1>4, <2>2
  <2>5. Len(FileLines(a)) = Cardinality(Ends(text)) /\ Cardinality(Ends(a)) = Cardinality(Ends(text))
    BY <1>2, <2>2
  <2>6. FileLines(text) = LinesOf(FileLines(a), rest)
    BY <1>4, <2>2 DEF LinesOf
  <2>7. QED
    BY <1>4, <2>3, <2>4, <2>5, <2>6
<1>5. QED
  BY <1>1, <1>3, <1>4

LEMMA LinesTyped ==
  ASSUME NEW S, S \subseteq Octet, NEW text \in Seq(S)
  PROVE  /\ FileLines(text) \in Seq(Seq(S \ {Newline}))
         /\ Cardinality(Ends(text)) \in Nat
         /\ Cardinality(Ends(text)) <= Len(FileLines(text))
<1>1. PICK a, rest : Splits(text, a, rest, S)
  BY TextSplits
<1>2. /\ FileLines(text) = LinesOf(FileLines(a), rest)
      /\ Len(FileLines(a)) = Cardinality(Ends(text))
  BY <1>1, SplitLines
<1>3. FileLines(a) \in Seq(Seq(S \ {Newline})) /\ rest \in Seq(S \ {Newline})
  BY <1>1 DEF Splits
<1> DEFINE lines == FileLines(a)
           T == Seq(S \ {Newline})
<1>4. lines \in Seq(T) /\ rest \in T
  BY <1>3
<1> HIDE DEF lines, T
<1>5. Append(lines, rest) \in Seq(T) /\ Len(Append(lines, rest)) = Len(lines) + 1 /\ Len(lines) \in Nat
  BY <1>4, AppendProperties
<1>6. QED
  <2>1. LinesOf(lines, rest) \in Seq(T) /\ Len(lines) <= Len(LinesOf(lines, rest))
    BY <1>4, <1>5 DEF LinesOf
  <2>2. QED
    BY <1>2, <1>5, <2>1 DEF lines, T

(* What is written after a text leaves the lines it has ended alone.       *)
SameLines(text, more) ==
  /\ Cardinality(Ends(text)) <= Cardinality(Ends(more))
  /\ \A n \in 1 .. Cardinality(Ends(text)) : FileLines(more)[n] = FileLines(text)[n]

LEMMA SameLinesOfByte ==
  ASSUME NEW text \in Seq(Octet), NEW x \in Octet
  PROVE  SameLines(text, Append(text, x))
<1> DEFINE more == Append(text, x)
           m == Cardinality(Ends(text))
<1>1. PICK a, rest : Splits(text, a, rest, Octet)
  BY TextSplits
<1> DEFINE lines == FileLines(a)
<1>2. /\ FileLines(text) = LinesOf(lines, rest)
      /\ Len(lines) = m /\ m \in Nat /\ Cardinality(Ends(a)) = m
  <2>1. FileLines(text) = LinesOf(lines, rest)
    BY <1>1, SplitLines
  <2>2. Len(lines) = m /\ Cardinality(Ends(a)) = m
    BY <1>1, SplitLines
  <2>3. m \in Nat
    BY LinesTyped
  <2>4. QED
    BY <2>1, <2>2, <2>3, Zenon
<1>3. /\ a \in Seq(Octet) /\ ~Unended(a) /\ rest \in Seq(Octet \ {Newline}) /\ rest \in Seq(Octet)
      /\ lines \in Seq(Seq(Octet))
  <2>1. \A s \in Seq(Octet \ {Newline}) : s \in Seq(Octet)
    BY SeqWider
  <2>2. FileLines(a) \in Seq(Seq(Octet \ {Newline}))
    BY <1>1 DEF Splits
  <2>3. Seq(Octet \ {Newline}) \subseteq Seq(Octet)
    BY <2>1
  <2>4. FileLines(a) \in Seq(Seq(Octet))
    BY <2>2, <2>3, SeqWider
  <2>5. QED
    BY <1>1, <2>1, <2>4 DEF Splits
<1> HIDE DEF m, lines, more
<1>4. ASSUME NEW l \in Seq(Octet) PROVE \A n \in 1 .. m : LinesOf(lines, l)[n] = lines[n]
  <2>1. \A n \in 1 .. m : Append(lines, l)[n] = lines[n]
    BY <1>2, <1>3, AppendProperties
  <2>2. QED
    BY <2>1 DEF LinesOf
<1>5. \A n \in 1 .. m : FileLines(text)[n] = lines[n]
  BY <1>2, <1>3, <1>4
<1>6. CASE x = Newline
  <2> DEFINE b == a \o rest \o <<Newline>>
  <2>1. Splits(more, b, <<>>, Octet)
    BY <1>1, <1>6, SplitMore DEF more
  <2>2. FileLines(b) = Append(lines, rest) /\ Cardinality(Ends(b)) = m + 1
    BY <1>2, <1>3, LineEnds DEF lines
  <2> HIDE DEF b
  <2>3. \A n \in 1 .. m : FileLines(b)[n] = lines[n]
    <3>1. \A n \in 1 .. m : Append(lines, rest)[n] = lines[n]
      BY <1>2, <1>3, AppendProperties
    <3>2. QED
      BY <2>2, <3>1
  <2>4. FileLines(more) = FileLines(b) /\ Cardinality(Ends(more)) = Cardinality(Ends(b))
    BY <2>1, SplitLines DEF LinesOf
  <2>5. \A n \in 1 .. m : FileLines(more)[n] = lines[n]
    BY <2>4, <2>3
  <2>6. m <= Cardinality(Ends(more))
    BY <1>2, <2>2, <2>4
  <2>7. QED
    BY <1>5, <2>5, <2>6 DEF SameLines, m, more
<1>7. CASE x # Newline
  <2>1. Splits(more, a, Append(rest, x), Octet)
    BY <1>1, <1>7, SplitMore DEF more
  <2>2. Append(rest, x) \in Seq(Octet) /\ Append(rest, x) # <<>>
    BY <1>3, AppendProperties
  <2>3. FileLines(more) = LinesOf(lines, Append(rest, x)) /\ Cardinality(Ends(more)) = m
    BY <1>2, <2>1, SplitLines DEF lines
  <2>4. \A n \in 1 .. m : FileLines(more)[n] = lines[n]
    BY <1>4, <2>2, <2>3
  <2>5. m <= Cardinality(Ends(more))
    BY <1>2, <2>3
  <2>6. QED
    BY <1>5, <2>4, <2>5 DEF SameLines, m, more
<1>8. QED
  BY <1>6, <1>7

LEMMA SameLinesOfText ==
  ASSUME NEW text \in Seq(Octet), NEW b \in Seq(Octet)
  PROVE  SameLines(text, text \o b)
<1> DEFINE N == {n \in Nat : \A t \in Seq(Octet) : Len(t) = n => SameLines(text, text \o t)}
           m == Cardinality(Ends(text))
<1>1. m \in Nat
  BY LinesTyped
<1>2. 0 \in N
  <2> SUFFICES ASSUME NEW t \in Seq(Octet), Len(t) = 0 PROVE SameLines(text, text \o t)
    OBVIOUS
  <2>1. t = <<>>
    OBVIOUS
  <2>2. text \o t = text
    BY <2>1, ConcatEmptySeq
  <2>3. QED
    BY <1>1, <2>2 DEF SameLines
<1>3. ASSUME NEW n \in N PROVE n + 1 \in N
  <2> SUFFICES ASSUME NEW t \in Seq(Octet), Len(t) = n + 1 PROVE SameLines(text, text \o t)
    OBVIOUS
  <2>1. n \in Nat
    OBVIOUS
  <2> DEFINE front == SubSeq(t, 1, n)
             x == t[n + 1]
  <2>2. front \in Seq(Octet) /\ Len(front) = n /\ x \in Octet /\ t = Append(front, x)
    BY <2>1, FrontAndLast
  <2>3. SameLines(text, text \o front)
    BY <2>2
  <2> HIDE DEF front, x, N
  <2>4. text \o front \in Seq(Octet) /\ text \o t = Append(text \o front, x)
    BY <2>2, ConcatProperties, ConcatAppend
  <2>5. SameLines(text \o front, text \o t)
    BY <2>2, <2>4, SameLinesOfByte
  <2> DEFINE some == text \o front
             all == text \o t
             k == Cardinality(Ends(some))
             l == Cardinality(Ends(all))
  <2>6. all \in Seq(Octet)
    BY ConcatProperties
  <2>7. k \in Nat /\ l \in Nat
    BY <2>4, <2>6, LinesTyped
  <2>8. m <= k /\ k <= l
    BY <2>3, <2>5 DEF SameLines
  <2>9. ASSUME NEW i \in 1 .. m PROVE FileLines(all)[i] = FileLines(text)[i]
    <3>1. FileLines(some)[i] = FileLines(text)[i]
      BY <2>3 DEF SameLines
    <3>2. i \in 1 .. k
      BY <1>1, <2>7, <2>8
    <3>3. FileLines(all)[i] = FileLines(some)[i]
      BY <2>5, <3>2 DEF SameLines
    <3>4. QED
      BY <3>1, <3>3
  <2> HIDE DEF some, k
  <2>10. m <= l
    BY <1>1, <2>7, <2>8
  <2>11. QED
    BY <2>9, <2>10 DEF SameLines
<1>4. Len(b) \in N
  <2>1. N \in SUBSET Nat /\ Len(b) \in Nat
    OBVIOUS
  <2> HIDE DEF N
  <2>2. QED
    BY <1>2, <1>3, <2>1, NatSets
<1>5. QED
  BY <1>4

(* So has some beginning of a file the lines of the file.                  *)
LEMMA BeginningOfText ==
  ASSUME NEW text \in Seq(Octet), NEW size \in 0 .. Len(text)
  PROVE  SubSeq(text, 1, size) \in Seq(Octet) /\ SameLines(SubSeq(text, 1, size), text)
<1> DEFINE n == Len(text)
           a == SubSeq(text, 1, size)
           b == SubSeq(text, size + 1, n)
<1>1. n \in Nat /\ size \in Nat /\ size <= n
  OBVIOUS
<1>2. a \o b = text
  <2>1. 1 \in 1 .. n + 1 /\ size \in 1 - 1 .. n /\ n \in size .. n
    BY <1>1
  <2>2. a \o b = SubSeq(text, 1, n)
    BY <2>1, ConcatAdjacentSubSeq
  <2>3. QED
    BY <2>2, SubSeqFull
<1>3. a \in Seq(Octet) /\ b \in Seq(Octet)
  <2>1. \A i \in 1 .. size : text[i] \in Octet
    OBVIOUS
  <2>2. \A i \in size + 1 .. n : text[i] \in Octet
    OBVIOUS
  <2>3. 1 \in Int /\ size \in Int /\ size + 1 \in Int /\ n \in Int
    BY <1>1
  <2>4. QED
    BY <2>1, <2>2, <2>3, SubSeqProperties
<1> HIDE DEF a, b, n
<1>4. SameLines(a, text)
  BY <1>2, <1>3, SameLinesOfText
<1>5. QED
  BY <1>3, <1>4 DEF a

-----------------------------------------------------------------------------
(* Lines are written.                                                      *)

Letter == Octet \ {Newline}

Spaced(args) == FlattenSeq([i \in DOMAIN args |-> <<Space>> \o args[i]])

(* The line of a command.                                                  *)
Body(args) == Name \o Spaced(args)

LEMMA SerialiseIs ==
  ASSUME NEW args
  PROVE  Serialise(args) = Body(args) \o <<Newline>>
BY DEF Serialise, Body, Spaced

LEMMA SpacedEmpty == Spaced(<<>>) = <<>>
<1>1. [i \in DOMAIN <<>> |-> <<Space>> \o <<>>[i]] = <<>>
  OBVIOUS
<1>2. QED
  BY <1>1, FlattenEmpty DEF Spaced

LEMMA SpacedAppend ==
  ASSUME NEW K, Space \in K, NEW args \in Seq(Seq(K)), NEW word \in Seq(K)
  PROVE  /\ Spaced(args) \in Seq(K) /\ <<Space>> \o word \in Seq(K)
         /\ Spaced(Append(args, word)) = Spaced(args) \o (<<Space>> \o word)
<1> DEFINE n == Len(args)
           more == Append(args, word)
           Put(w) == <<Space>> \o w
           old == [i \in DOMAIN args |-> Put(args[i])]
           new == [i \in DOMAIN more |-> Put(more[i])]
<1>1. \A w \in Seq(K) : Put(w) \in Seq(K)
  <2>1. <<Space>> \in Seq(K)
    OBVIOUS
  <2>2. QED
    BY <2>1, ConcatProperties
<1>2. /\ n \in Nat /\ DOMAIN args = 1 .. n /\ \A i \in 1 .. n : args[i] \in Seq(K)
      /\ more \in Seq(Seq(K)) /\ Len(more) = n + 1 /\ more[n + 1] = word
      /\ \A i \in 1 .. n : more[i] = args[i]
  BY AppendProperties
<1>3. DOMAIN more = 1 .. n + 1
  <2> HIDE DEF more, n
  <2>1. QED
    BY <1>2
<1> HIDE DEF n, more, Put
<1>4. old \in Seq(Seq(K)) /\ Len(old) = n /\ \A i \in 1 .. n : old[i] = Put(args[i])
  <2>1. old = [i \in 1 .. n |-> Put(args[i])]
    BY <1>2
  <2> HIDE DEF old
  <2>2. \A i \in 1 .. n : old[i] = Put(args[i])
    BY <2>1
  <2>3. old \in [1 .. n -> Seq(K)]
    BY <1>1, <1>2, <2>1
  <2> DEFINE T == Seq(K)
  <2>4. n \in Nat /\ old \in [1 .. n -> T]
    BY <1>2, <2>3
  <2> HIDE DEF T
  <2>5. old \in Seq(T)
    BY <2>4
  <2>6. Len(old) = n
    BY <2>4
  <2>7. QED
    BY <2>2, <2>5, <2>6 DEF T
<1>5. new = Append(old, Put(word))
  <2>1. new = [i \in 1 .. n + 1 |-> Put(more[i])]
    BY <1>3
  <2>2. Put(word) \in Seq(K)
    BY <1>1
  <2> DEFINE appended == Append(old, Put(word))
  <2> HIDE DEF old, new
  <2>3. /\ appended \in Seq(Seq(K)) /\ Len(appended) = n + 1
        /\ \A i \in 1 .. n : appended[i] = old[i]
        /\ appended[n + 1] = Put(word)
    BY <1>4, <2>2, AppendProperties
  <2> HIDE DEF appended
  <2>4. appended = [i \in 1 .. n + 1 |-> appended[i]]
    BY <2>3
  <2>5. \A i \in 1 .. n + 1 : i = n + 1 \/ i \in 1 .. n
    BY <1>2
  <2>6. \A i \in 1 .. n + 1 : appended[i] = Put(more[i])
    BY <1>2, <1>4, <2>3, <2>5
  <2>7. appended = new
    BY <2>1, <2>4, <2>6
  <2>8. QED
    BY <2>7 DEF appended
<1>6. Put(word) \in Seq(K)
  BY <1>1
<1>7. Spaced(args) = FlattenSeq(old) /\ Spaced(more) = FlattenSeq(new)
  BY DEF Spaced, Put
<1> HIDE DEF old, new
<1>8. FlattenSeq(old) \in Seq(K) /\ FlattenSeq(new) = FlattenSeq(old) \o Put(word)
  BY <1>4, <1>5, <1>6, FlattenAppend
<1>9. QED
  BY <1>6, <1>7, <1>8 DEF Put, more

LEMMA BodyTyped ==
  ASSUME NEW K, Space \in K, 82 \in K, NEW args \in Seq(Seq(K))
  PROVE  Body(args) \in Seq(K) /\ Len(Body(args)) = Len(Spaced(args)) + 1
<1>1. Spaced(args) \in Seq(K)
  <2>1. <<>> \in Seq(K)
    OBVIOUS
  <2>2. QED
    BY <2>1, SpacedAppend
<1>2. Name \in Seq(K) /\ Len(Name) = 1
  BY DEF Name
<1>3. Len(Spaced(args)) \in Nat
  BY <1>1
<1>4. QED
  <2>1. Name \o Spaced(args) \in Seq(K) /\ Len(Name \o Spaced(args)) = 1 + Len(Spaced(args))
    BY <1>1, <1>2, ConcatProperties
  <2>2. QED
    BY <1>3, <2>1 DEF Body

LEMMA LetterBytes == Space \in Letter /\ 82 \in Letter /\ Newline \in Octet /\ Letter \subseteq Octet
BY DEF Letter, Space, Newline, Octet

LEMMA LineWritten ==
  ASSUME NEW text \in Seq(Octet), NEW body \in Seq(Letter)
  PROVE  LET new == text \o (body \o <<Newline>>)
         IN  /\ new \in Seq(Octet) /\ ~Unended(new) /\ SameLines(text, new)
             /\ Cardinality(Ends(new)) = Cardinality(Ends(text)) + 1
             /\ ~Unended(text) => FileLines(new)[Cardinality(Ends(text)) + 1] = body
<1> DEFINE new == text \o (body \o <<Newline>>)
           m == Cardinality(Ends(text))
<1>1. PICK a, rest : Splits(text, a, rest, Octet)
  BY TextSplits
<1>2. /\ a \in Seq(Octet) /\ ~Unended(a) /\ rest \in Seq(Letter) /\ rest \in Seq(Octet)
      /\ text = a \o rest
  BY <1>1, LetterBytes, SeqWider DEF Splits, Letter
<1>3. Cardinality(Ends(a)) = m /\ (Unended(text) <=> rest # <<>>) /\ Len(FileLines(a)) = m /\ m \in Nat
  BY <1>1, SplitLines, LinesTyped
<1>4. body \in Seq(Octet) /\ <<Newline>> \in Seq(Octet) /\ body \o <<Newline>> \in Seq(Octet)
  <2>1. body \in Seq(Octet) /\ <<Newline>> \in Seq(Octet)
    BY LetterBytes, SeqWider
  <2>2. QED
    BY <2>1, ConcatProperties
<1> DEFINE whole == rest \o body
<1>5. whole \in Seq(Letter) /\ whole \in Seq(Octet)
  BY <1>2, <1>4, ConcatProperties
<1>6. new = a \o whole \o <<Newline>>
  <2>1. new = a \o (rest \o (body \o <<Newline>>))
    BY <1>2, <1>4, ConcatAssociative
  <2>2. rest \o (body \o <<Newline>>) = whole \o <<Newline>>
    BY <1>2, <1>4, ConcatAssociative
  <2>3. a \o (whole \o <<Newline>>) = a \o whole \o <<Newline>>
    BY <1>2, <1>4, <1>5, ConcatAssociative
  <2>4. QED
    BY <2>1, <2>2, <2>3
<1>7. SameLines(text, new)
  BY <1>4, SameLinesOfText
<1>8. whole \in Seq(Octet \ {Newline})
  BY <1>5 DEF Letter
<1> HIDE DEF whole
<1>9. /\ a \o whole \o <<Newline>> \in Seq(Octet) /\ ~Unended(a \o whole \o <<Newline>>)
      /\ FileLines(a \o whole \o <<Newline>>) = Append(FileLines(a), whole)
      /\ FileLines(a) \in Seq(Seq(Octet))
      /\ Cardinality(Ends(a \o whole \o <<Newline>>)) = Cardinality(Ends(a)) + 1
  BY <1>2, <1>8, LineEnds
<1>10. Append(FileLines(a), whole)[m + 1] = whole
  BY <1>3, <1>5, <1>9, AppendProperties
<1>11. ~Unended(text) => whole = body
  BY <1>3, <1>4, ConcatEmptySeq DEF whole
<1> HIDE DEF new, m
<1>12. QED
  BY <1>3, <1>6, <1>7, <1>9, <1>10, <1>11 DEF new, m

-----------------------------------------------------------------------------
(* Commands as they are written.                                           *)

LEMMA RewrittenAppend ==
  ASSUME NEW cs \in Seq(Seq(Seq(Letter))), NEW c \in Seq(Seq(Letter))
  PROVE  /\ Rewritten(cs) \in Seq(Octet)
         /\ Body(c) \in Seq(Letter)
         /\ Rewritten(Append(cs, c)) = Rewritten(cs) \o (Body(c) \o <<Newline>>)
<1> DEFINE S == Seq(Seq(Letter))
           g == [x \in S |-> Serialise(x)]
           more == Append(cs, c)
           old == [i \in DOMAIN cs |-> g[cs[i]]]
           new == [i \in DOMAIN more |-> g[more[i]]]
<1>1. ASSUME NEW x \in S PROVE Body(x) \in Seq(Letter) /\ Serialise(x) \in Seq(Octet)
  <2>1. Body(x) \in Seq(Letter)
    BY LetterBytes, BodyTyped
  <2>2. Body(x) \in Seq(Octet) /\ <<Newline>> \in Seq(Octet)
    BY <2>1, LetterBytes, SeqWider
  <2>3. QED
    BY <2>1, <2>2, ConcatProperties, SerialiseIs
<1>2. g \in [S -> Seq(Octet)]
  BY <1>1
<1>3. more \in Seq(S) /\ \A i \in DOMAIN more : more[i] \in S
  BY AppendProperties
<1>4. \A i \in DOMAIN cs : cs[i] \in S
  OBVIOUS
<1>5. Rewritten(cs) = FlattenSeq(old) /\ Rewritten(more) = FlattenSeq(new)
  <2>1. [i \in DOMAIN cs |-> Serialise(cs[i])] = old
    BY <1>4
  <2>2. [i \in DOMAIN more |-> Serialise(more[i])] = new
    BY <1>3
  <2> HIDE DEF old, new
  <2>3. QED
    BY <2>1, <2>2 DEF Rewritten
<1>6. g[c] = Body(c) \o <<Newline>>
  BY SerialiseIs
<1>7. Makes(g, S, Octet) /\ IsMap(old, g, cs) /\ IsMap(new, g, more) /\ IsOneMore(more, cs, c)
  BY <1>2 DEF Makes, IsMap, IsOneMore
<1>8. cs \in Seq(S) /\ c \in S
  OBVIOUS
<1> HIDE DEF old, new, g, S, more
<1>9. FlattenSeq(old) \in Seq(Octet) /\ FlattenSeq(new) = FlattenSeq(old) \o g[c]
  BY <1>7, <1>8, FlattenMap
<1>10. QED
  BY <1>1, <1>5, <1>9, <1>6, <1>8 DEF more

LEMMA RewrittenEmpty == Rewritten(<<>>) = <<>>
<1>1. [n \in DOMAIN <<>> |-> Serialise(<<>>[n])] = <<>>
  OBVIOUS
<1>2. QED
  BY <1>1, FlattenEmpty DEF Rewritten

(* Commands written after a text: each has a line, but for the first if    *)
(* the text does not end with a newline.                                   *)
HasLines(text, cs) ==
  LET new == text \o Rewritten(cs)
      m   == Cardinality(Ends(text))
  IN  /\ new \in Seq(Octet)
      /\ SameLines(text, new)
      /\ Cardinality(Ends(new)) = m + Len(cs)
      /\ Unended(new) <=> cs = <<>> /\ Unended(text)
      /\ \A i \in 1 .. Len(cs) : i > 1 \/ ~Unended(text) => FileLines(new)[m + i] = Body(cs[i])

LEMMA HasNoLines ==
  ASSUME NEW text \in Seq(Octet)
  PROVE  HasLines(text, <<>>)
<1>1. text \o Rewritten(<<>>) = text
  BY RewrittenEmpty, ConcatEmptySeq
<1>2. Cardinality(Ends(text)) \in Nat
  BY LinesTyped
<1>3. SameLines(text, text)
  BY <1>2 DEF SameLines
<1>4. Len(<<>>) = 0 /\ 1 .. 0 = {} /\ Cardinality(Ends(text)) + 0 = Cardinality(Ends(text))
  BY <1>2
<1>5. QED
  BY <1>1, <1>3, <1>4 DEF HasLines

LEMMA HasOneMore ==
  ASSUME NEW text \in Seq(Octet), NEW cs \in Seq(Seq(Seq(Letter))), NEW c \in Seq(Seq(Letter)),
         HasLines(text, cs)
  PROVE  HasLines(text, Append(cs, c))
<1> DEFINE more == Append(cs, c)
           a == text \o Rewritten(cs)
           b == text \o Rewritten(more)
           m == Cardinality(Ends(text))
           k == Len(cs)
<1>1. /\ a \in Seq(Octet) /\ SameLines(text, a) /\ Cardinality(Ends(a)) = m + k
      /\ Unended(a) <=> cs = <<>> /\ Unended(text)
      /\ \A i \in 1 .. k : i > 1 \/ ~Unended(text) => FileLines(a)[m + i] = Body(cs[i])
  BY DEF HasLines
<1>2. m \in Nat /\ k \in Nat /\ (cs = <<>> <=> k = 0)
  <2>1. m \in Nat
    BY LinesTyped
  <2>2. k \in Nat /\ (cs = <<>> <=> k = 0)
    OBVIOUS
  <2>3. QED
    BY <2>1, <2>2
<1>3. /\ Body(c) \in Seq(Letter) /\ Rewritten(cs) \in Seq(Octet)
      /\ Rewritten(more) = Rewritten(cs) \o (Body(c) \o <<Newline>>)
  BY RewrittenAppend
<1>4. b = a \o (Body(c) \o <<Newline>>)
  <2>1. Body(c) \in Seq(Octet) /\ <<Newline>> \in Seq(Octet)
    BY <1>3, LetterBytes, SeqWider
  <2>2. Body(c) \o <<Newline>> \in Seq(Octet)
    BY <2>1, ConcatProperties
  <2>3. (text \o Rewritten(cs)) \o (Body(c) \o <<Newline>>) = text \o (Rewritten(cs) \o (Body(c) \o <<Newline>>))
    <3> DEFINE r == Rewritten(cs)
               l == Body(c) \o <<Newline>>
    <3>1. r \in Seq(Octet) /\ l \in Seq(Octet)
      BY <1>3, <2>2
    <3> HIDE DEF r, l
    <3>2. \A x, y, z \in Seq(Octet) : (x \o y) \o z = x \o (y \o z)
      BY ConcatAssociative
    <3>3. (text \o r) \o l = text \o (r \o l)
      BY <3>1, <3>2
    <3>4. QED
      BY <3>3 DEF r, l
  <2>4. QED
    BY <1>3, <2>3
<1>5. /\ Len(more) = k + 1 /\ more # <<>> /\ more[k + 1] = c /\ \A i \in 1 .. k : more[i] = cs[i]
  BY AppendProperties
<1> HIDE DEF a, b, more, m, k
<1>6. /\ b \in Seq(Octet) /\ ~Unended(b) /\ SameLines(a, b)
      /\ Cardinality(Ends(b)) = Cardinality(Ends(a)) + 1
      /\ ~Unended(a) => FileLines(b)[Cardinality(Ends(a)) + 1] = Body(c)
  BY <1>1, <1>3, <1>4, LineWritten
<1>7. Cardinality(Ends(b)) = m + (k + 1)
  BY <1>1, <1>2, <1>6
<1>8. SameLines(text, b)
  <2>1. \A i \in 1 .. m : i \in 1 .. m + k
    BY <1>2
  <2>2. \A i \in 1 .. m : FileLines(b)[i] = FileLines(text)[i]
    BY <1>1, <1>6, <2>1 DEF SameLines, m
  <2>3. m <= Cardinality(Ends(b))
    BY <1>2, <1>7
  <2>4. QED
    BY <2>2, <2>3 DEF SameLines, m
<1>9. ASSUME NEW i \in 1 .. k + 1, i > 1 \/ ~Unended(text)
      PROVE  FileLines(b)[m + i] = Body(more[i])
  <2>1. CASE i \in 1 .. k
    <3>1. FileLines(a)[m + i] = Body(cs[i])
      BY <1>1, <1>9, <2>1
    <3>2. m + i \in 1 .. m + k
      BY <1>2, <2>1
    <3>3. FileLines(b)[m + i] = FileLines(a)[m + i]
      BY <1>1, <1>6, <3>2 DEF SameLines
    <3>4. QED
      BY <1>5, <2>1, <3>1, <3>3
  <2>2. CASE i = k + 1
    <3>1. ~Unended(a)
      BY <1>1, <1>2, <1>9, <2>2
    <3>2. (m + k) + 1 = m + i
      BY <1>2, <2>2
    <3>3. QED
      BY <1>1, <1>5, <1>6, <2>2, <3>1, <3>2
  <2>3. i \in 1 .. k \/ i = k + 1
    BY <1>2
  <2>4. QED
    BY <2>1, <2>2, <2>3
<1>10. HasLines(text, more)
  BY <1>5, <1>6, <1>7, <1>8, <1>9 DEF HasLines, b, m
<1>11. QED
  BY <1>10 DEF more

LEMMA CommandsWritten ==
  ASSUME NEW text \in Seq(Octet), NEW cs \in Seq(Seq(Seq(Letter)))
  PROVE  HasLines(text, cs)
<1> DEFINE S == Seq(Seq(Letter))
           N == {n \in Nat : \A s \in Seq(S) : Len(s) = n => HasLines(text, s)}
<1>1. 0 \in N
  <2>1. \A s \in Seq(S) : Len(s) = 0 => s = <<>>
    OBVIOUS
  <2>2. QED
    BY <2>1, HasNoLines
<1>2. ASSUME NEW n \in N PROVE n + 1 \in N
  <2> SUFFICES ASSUME NEW s \in Seq(S), Len(s) = n + 1 PROVE HasLines(text, s)
    OBVIOUS
  <2>1. n \in Nat
    OBVIOUS
  <2> DEFINE front == SubSeq(s, 1, n)
  <2>2. front \in Seq(S) /\ Len(front) = n /\ s[n + 1] \in S /\ s = Append(front, s[n + 1])
    BY <2>1, FrontAndLast
  <2>3. HasLines(text, front)
    BY <2>2
  <2> HIDE DEF front, N
  <2>4. HasLines(text, Append(front, s[n + 1]))
    BY <2>2, <2>3, HasOneMore
  <2>5. QED
    BY <2>2, <2>4
<1>3. Len(cs) \in N
  <2>1. N \in SUBSET Nat /\ Len(cs) \in Nat
    OBVIOUS
  <2> HIDE DEF N
  <2>2. QED
    BY <1>1, <1>2, <2>1, NatSets
<1>4. QED
  BY <1>3

-----------------------------------------------------------------------------
(* What the scanner reads.                                                 *)

Fitting(lines, n) == \A i \in 1 .. n : Len(lines[i]) < MaxScan

LEMMA ScannedIs ==
  ASSUME NEW text, NEW T, FileLines(text) \in Seq(T)
  PROVE  LET lines == FileLines(text)
         IN  \E k \in 0 .. Len(lines) :
               /\ Scanned(text) = SubSeq(lines, 1, k)
               /\ Fitting(lines, k)
               /\ \A m \in 0 .. Len(lines) : Fitting(lines, m) => m <= k
<1> DEFINE lines == FileLines(text)
           n == Len(lines)
           fit == {m \in 0 .. n : Fitting(lines, m)}
           longest == CHOOSE m \in fit : \A l \in fit : l <= m
<1>1. n \in Nat
  OBVIOUS
<1>2. Scanned(text) = SubSeq(lines, 1, longest)
  BY DEF Scanned, Fitting
<1> HIDE DEF lines, n
<1>3. 0 \in fit
  BY <1>1 DEF Fitting
<1>4. \E m \in fit : \A l \in fit : l <= m
  <2> DEFINE some == fit \ {0}
  <2>1. some \in SUBSET (1 .. n)
    BY <1>1
  <2>2. \A l \in fit : l = 0 \/ l \in some
    OBVIOUS
  <2>3. some \subseteq fit
    OBVIOUS
  <2> HIDE DEF some, fit
  <2>4. CASE some = {}
    BY <1>3, <2>2, <2>4
  <2>5. CASE some # {}
    <3>1. Max(some) \in some /\ \A l \in some : Max(some) >= l
      BY <1>1, <2>1, <2>5, MaxOf
    <3>2. Max(some) \in Nat /\ \A l \in some : l \in Nat
      <4>1. \A l \in some : l \in Nat
        BY <2>1
      <4>2. QED
        BY <3>1, <4>1
    <3>3. \A l \in fit : l <= Max(some)
      BY <2>2, <3>1, <3>2
    <3>4. QED
      BY <2>3, <3>1, <3>3
  <2>6. QED
    BY <2>4, <2>5
<1>5. longest \in fit /\ \A l \in fit : l <= longest
  <2> HIDE DEF fit
  <2>1. QED
    BY <1>4
<1> HIDE DEF longest
<1>6. QED
  BY <1>2, <1>5 DEF lines, n

LEMMA ReadAgainTyped ==
  ASSUME NEW T, NEW U, NEW text, FileLines(text) \in Seq(T),
         \A l \in T : Len(l) < MaxScan => Reread(l) \in Seq(U)
  PROVE  ReadAgain(text) \in Seq(U)
<1> DEFINE lines == FileLines(text)
           all == Scanned(text)
           each == [i \in DOMAIN all |-> Reread(all[i])]
<1>1. PICK k \in 0 .. Len(lines) : all = SubSeq(lines, 1, k) /\ Fitting(lines, k)
  BY ScannedIs
<1>2. k \in Nat /\ k <= Len(lines) /\ lines \in Seq(T)
  OBVIOUS
<1> HIDE DEF lines, all
<1>3. DOMAIN all = 1 .. k /\ \A i \in 1 .. k : all[i] = lines[i] /\ lines[i] \in T
  BY <1>1, <1>2
<1>4. \A i \in 1 .. k : Reread(all[i]) \in Seq(U)
  BY <1>1, <1>3 DEF Fitting
<1> DEFINE V == Seq(U)
<1>5. each = [i \in 1 .. k |-> Reread(all[i])]
  BY <1>3
<1> HIDE DEF V, each
<1>6. each \in [1 .. k -> V]
  BY <1>4, <1>5 DEF V
<1>7. each \in Seq(V)
  BY <1>2, <1>6
<1>8. FlattenSeq(each) \in Seq(U)
  BY <1>7, FlattenTyped DEF V
<1>9. QED
  BY <1>8 DEF ReadAgain, each, all

-----------------------------------------------------------------------------
(* What tokens are made of.                                                *)

Word(K) == {w \in Seq(K) : w # <<>>}

(* Of the bytes S the bytes K come into tokens.                            *)
Keeps(S, K) ==
  /\ S \subseteq Octet
  /\ K \subseteq Octet
  /\ \A b \in S : b # Quote /\ (Quote \in S \/ ~IsSpace(b)) => WriteRune(b) \in Seq(K)

TokensOf(st, S, K) ==
  /\ st \in TokenState
  /\ st.tokens \in Seq(Word(K))
  /\ st.cur \in Seq(K)
  /\ Quote \notin S => ~st.inQuote

LEMMA EndedTokensOf ==
  ASSUME NEW S, NEW K, NEW st, TokensOf(st, S, K)
  PROVE  TokensOf(TokenEnded(st), S, K)
<1>1. st \in TokenState /\ st.tokens \in Seq(Word(K)) /\ st.cur \in Seq(K) /\ (Quote \notin S => ~st.inQuote)
  BY DEF TokensOf
<1>2. st.cur # <<>> => st.cur \in Word(K)
  BY <1>1 DEF Word
<1>3. TokenEnded(st).tokens \in Seq(Word(K))
  <2>1. CASE st.cur = <<>>
    BY <1>1, <2>1, EndedIs
  <2>2. CASE st.cur # <<>>
    <3>1. Append(st.tokens, st.cur) \in Seq(Word(K))
      BY <1>1, <1>2, <2>2, AppendProperties
    <3>2. QED
      BY <1>1, <2>2, <3>1, EndedIs
  <2>3. QED
    BY <2>1, <2>2
<1>4. <<>> \in Seq(K)
  OBVIOUS
<1>5. QED
  BY <1>1, <1>3, <1>4, EndedIs DEF TokensOf

LEMMA StepTokensOf ==
  ASSUME NEW S, NEW K, Keeps(S, K), NEW st, TokensOf(st, S, K), NEW b \in S
  PROVE  TokensOf(TokenStep(st, b), S, K)
<1>1. st \in TokenState /\ st.tokens \in Seq(Word(K)) /\ st.cur \in Seq(K) /\ (Quote \notin S => ~st.inQuote)
  BY DEF TokensOf
<1>2. b \in Octet /\ st.inQuote \in BOOLEAN
  BY <1>1 DEF Keeps, TokenState
<1>3. TokenStep(st, b) \in TokenState
  BY <1>1, <1>2, StepTyped
<1>4. CASE b = Quote
  <2>1. TokenStep(st, b).tokens = st.tokens /\ TokenStep(st, b).cur = st.cur
    BY <1>1, <1>4, StepIs DEF TokenState
  <2>2. Quote \in S
    BY <1>4
  <2>3. QED
    BY <1>1, <1>3, <2>1, <2>2 DEF TokensOf
<1>5. CASE ~st.inQuote /\ IsSpace(b)
  BY <1>1, <1>5, StepIs, EndedTokensOf
<1>6. CASE b # Quote /\ (st.inQuote \/ ~IsSpace(b))
  <2>1. TokenStep(st, b) = [st EXCEPT !.cur = @ \o WriteRune(b)]
    BY <1>1, <1>6, StepIs
  <2>2. /\ TokenStep(st, b).tokens = st.tokens /\ TokenStep(st, b).cur = st.cur \o WriteRune(b)
        /\ TokenStep(st, b).inQuote = st.inQuote
    BY <1>1, <2>1 DEF TokenState
  <2>3. Quote \in S \/ ~IsSpace(b)
    BY <1>1, <1>6
  <2>4. WriteRune(b) \in Seq(K)
    BY <1>6, <2>3 DEF Keeps
  <2>5. st.cur \o WriteRune(b) \in Seq(K)
    BY <1>1, <2>4, ConcatProperties
  <2>6. QED
    BY <1>1, <1>3, <2>2, <2>5 DEF TokensOf
<1>7. QED
  BY <1>2, <1>4, <1>5, <1>6, QuoteIsNoSpace

LEMMA TextTokensOf ==
  ASSUME NEW S, NEW K, Keeps(S, K), NEW text \in Seq(S)
  PROVE  TokensOf(After(text), S, K)
<1> DEFINE N == {n \in Nat : \A t \in Seq(S) : Len(t) = n => TokensOf(After(t), S, K)}
<1>1. 0 \in N
  <2>1. \A t \in Seq(S) : Len(t) = 0 => t = <<>>
    OBVIOUS
  <2>2. TokensOf(Fresh, S, K)
    <3>1. <<>> \in Seq(Seq(Octet)) /\ <<>> \in Seq(Octet) /\ <<>> \in Seq(Word(K)) /\ <<>> \in Seq(K)
      OBVIOUS
    <3>2. QED
      BY <3>1 DEF TokensOf, Fresh, TokenState
  <2>3. QED
    BY <2>1, <2>2, NothingRead
<1>2. ASSUME NEW n \in N PROVE n + 1 \in N
  <2> SUFFICES ASSUME NEW t \in Seq(S), Len(t) = n + 1 PROVE TokensOf(After(t), S, K)
    OBVIOUS
  <2>1. n \in Nat
    OBVIOUS
  <2> DEFINE front == SubSeq(t, 1, n)
  <2>2. front \in Seq(S) /\ Len(front) = n /\ t[n + 1] \in S /\ t = Append(front, t[n + 1])
    BY <2>1, FrontAndLast
  <2>3. TokensOf(After(front), S, K)
    BY <2>2
  <2> HIDE DEF front, N
  <2>4. After(Append(front, t[n + 1])) = TokenStep(After(front), t[n + 1])
    BY <2>2, ByteRead
  <2>5. TokensOf(TokenStep(After(front), t[n + 1]), S, K)
    BY <2>2, <2>3, StepTokensOf
  <2>6. QED
    BY <2>2, <2>4, <2>5
<1>3. Len(text) \in N
  <2>1. N \in SUBSET Nat /\ Len(text) \in Nat
    OBVIOUS
  <2> HIDE DEF N
  <2>2. QED
    BY <1>1, <1>2, <2>1, NatSets
<1>4. QED
  BY <1>3

LEMMA TokensTyped ==
  ASSUME NEW S, NEW K, Keeps(S, K), NEW text \in Seq(S)
  PROVE  Tokenize(text).tokens \in Seq(Word(K))
<1>1. TokensOf(TokenEnded(After(text)), S, K)
  BY TextTokensOf, EndedTokensOf
<1>2. QED
  BY <1>1, TokenizeIs DEF TokensOf

(* Of bytes below 128 a text has as many as its tokens, and the spaces     *)
(* between them.                                                           *)
Below128 == {b \in Octet : b < 128}

Fits(st, n) == st \in TokenState /\ Len(Spaced(st.tokens)) + Len(st.cur) <= n

LEMMA SpacedOctets ==
  ASSUME NEW args \in Seq(Seq(Octet)), NEW word \in Seq(Octet)
  PROVE  /\ Len(Spaced(args)) \in Nat /\ Len(word) \in Nat
         /\ Len(Spaced(Append(args, word))) = Len(Spaced(args)) + 1 + Len(word)
<1>1. Space \in Octet
  BY LetterBytes
<1>2. /\ Spaced(args) \in Seq(Octet) /\ <<Space>> \o word \in Seq(Octet)
      /\ Spaced(Append(args, word)) = Spaced(args) \o (<<Space>> \o word)
  BY <1>1, SpacedAppend
<1>3. Len(<<Space>> \o word) = 1 + Len(word)
  <2>1. <<Space>> \in Seq(Octet) /\ Len(<<Space>>) = 1
    BY <1>1
  <2>2. QED
    BY <2>1, ConcatProperties
<1>4. Len(Spaced(args) \o (<<Space>> \o word)) = Len(Spaced(args)) + Len(<<Space>> \o word)
  BY <1>2, ConcatProperties
<1>5. Len(Spaced(args)) \in Nat /\ Len(word) \in Nat
  BY <1>2
<1>6. QED
  BY <1>2, <1>3, <1>4, <1>5

LEMMA EndedFits ==
  ASSUME NEW n \in Nat, NEW st, Fits(st, n)
  PROVE  Fits(TokenEnded(st), n + 1)
<1>1. /\ st \in TokenState /\ st.tokens \in Seq(Seq(Octet)) /\ st.cur \in Seq(Octet)
      /\ Len(Spaced(st.tokens)) + Len(st.cur) <= n
  BY DEF Fits, TokenState
<1>2. /\ Len(Spaced(st.tokens)) \in Nat /\ Len(st.cur) \in Nat
      /\ Len(Spaced(Append(st.tokens, st.cur))) = Len(Spaced(st.tokens)) + 1 + Len(st.cur)
  BY <1>1, SpacedOctets
<1>3. TokenEnded(st) \in TokenState /\ TokenEnded(st).cur = <<>>
  BY <1>1, EndedIs
<1> DEFINE s == Len(Spaced(st.tokens))
           c == Len(st.cur)
           t == Len(Spaced(TokenEnded(st).tokens))
<1>4. s \in Nat /\ c \in Nat /\ s + c <= n
  BY <1>1, <1>2
<1>5. t = s \/ t = s + 1 + c
  <2>1. CASE st.cur = <<>>
    <3>1. TokenEnded(st).tokens = st.tokens
      BY <1>1, <2>1, EndedIs
    <3>2. QED
      BY <3>1
  <2>2. CASE st.cur # <<>>
    <3>1. TokenEnded(st).tokens = Append(st.tokens, st.cur)
      BY <1>1, <2>2, EndedIs
    <3>2. t = Len(Spaced(Append(st.tokens, st.cur)))
      BY <3>1
    <3>3. QED
      BY <1>2, <3>2
  <2>3. QED
    BY <2>1, <2>2
<1> HIDE DEF s, c, t
<1>6. t + 0 <= n + 1
  BY <1>4, <1>5
<1>7. Len(TokenEnded(st).cur) = 0
  BY <1>3
<1>8. Len(Spaced(TokenEnded(st).tokens)) + Len(TokenEnded(st).cur) <= n + 1
  BY <1>6, <1>7 DEF t
<1>9. QED
  BY <1>3, <1>8 DEF Fits

LEMMA StepFits ==
  ASSUME NEW n \in Nat, NEW st, Fits(st, n), NEW b \in Below128
  PROVE  Fits(TokenStep(st, b), n + 1)
<1>1. /\ st \in TokenState /\ st.tokens \in Seq(Seq(Octet)) /\ st.cur \in Seq(Octet)
      /\ Len(Spaced(st.tokens)) + Len(st.cur) <= n /\ st.inQuote \in BOOLEAN
  BY DEF Fits, TokenState
<1>2. b \in Octet /\ WriteRune(b) = <<b>>
  BY RuneIs DEF Below128
<1>3. TokenStep(st, b) \in TokenState
  BY <1>1, <1>2, StepTyped
<1> DEFINE s == Len(Spaced(st.tokens))
           c == Len(st.cur)
<1>4. s \in Nat /\ c \in Nat /\ s + c <= n
  BY <1>1, SpacedOctets
<1> HIDE DEF s, c
<1>5. s + c <= n + 1 /\ s + (c + 1) <= n + 1
  BY <1>4
<1>6. CASE b = Quote
  <2>1. TokenStep(st, b).tokens = st.tokens /\ TokenStep(st, b).cur = st.cur
    BY <1>1, <1>6, StepIs DEF TokenState
  <2>2. Len(Spaced(st.tokens)) + Len(st.cur) <= n + 1
    BY <1>5 DEF s, c
  <2>3. QED
    BY <1>3, <2>1, <2>2 DEF Fits
<1>7. CASE ~st.inQuote /\ IsSpace(b)
  BY <1>1, <1>7, StepIs, EndedFits
<1>8. CASE b # Quote /\ (st.inQuote \/ ~IsSpace(b))
  <2>1. TokenStep(st, b) = [st EXCEPT !.cur = @ \o WriteRune(b)]
    BY <1>1, <1>8, StepIs
  <2>2. TokenStep(st, b).tokens = st.tokens /\ TokenStep(st, b).cur = st.cur \o <<b>>
    BY <1>1, <1>2, <2>1 DEF TokenState
  <2>3. Len(st.cur \o <<b>>) = Len(st.cur) + 1
    <3>1. <<b>> \in Seq(Octet) /\ Len(<<b>>) = 1
      BY <1>2
    <3>2. QED
      BY <1>1, <3>1, ConcatProperties
  <2>4. Len(Spaced(st.tokens)) + Len(st.cur \o <<b>>) <= n + 1
    BY <1>5, <2>3 DEF s, c
  <2>5. QED
    BY <1>3, <2>2, <2>4 DEF Fits
<1>9. QED
  BY <1>1, <1>6, <1>7, <1>8, QuoteIsNoSpace

LEMMA TextFits ==
  ASSUME NEW text \in Seq(Below128)
  PROVE  Fits(After(text), Len(text))
<1> DEFINE N == {n \in Nat : \A t \in Seq(Below128) : Len(t) = n => Fits(After(t), n)}
<1>1. 0 \in N
  <2>1. \A t \in Seq(Below128) : Len(t) = 0 => t = <<>>
    OBVIOUS
  <2>2. Fits(Fresh, 0)
    <3>1. <<>> \in Seq(Seq(Octet)) /\ <<>> \in Seq(Octet) /\ Len(<<>>) = 0
      OBVIOUS
    <3>2. QED
      BY <3>1, SpacedEmpty DEF Fits, Fresh, TokenState
  <2>3. QED
    BY <2>1, <2>2, NothingRead
<1>2. ASSUME NEW n \in N PROVE n + 1 \in N
  <2> SUFFICES ASSUME NEW t \in Seq(Below128), Len(t) = n + 1 PROVE Fits(After(t), n + 1)
    OBVIOUS
  <2>1. n \in Nat
    OBVIOUS
  <2> DEFINE front == SubSeq(t, 1, n)
  <2>2. front \in Seq(Below128) /\ Len(front) = n /\ t[n + 1] \in Below128 /\ t = Append(front, t[n + 1])
    BY <2>1, FrontAndLast
  <2>3. Fits(After(front), n)
    BY <2>2
  <2> HIDE DEF front, N
  <2>4. After(Append(front, t[n + 1])) = TokenStep(After(front), t[n + 1])
    BY <2>2, ByteRead
  <2>5. Fits(TokenStep(After(front), t[n + 1]), n + 1)
    BY <2>1, <2>2, <2>3, StepFits
  <2>6. QED
    BY <2>2, <2>4, <2>5
<1>3. Len(text) \in N
  <2>1. N \in SUBSET Nat /\ Len(text) \in Nat
    OBVIOUS
  <2> HIDE DEF N
  <2>2. QED
    BY <1>1, <1>2, <2>1, NatSets
<1>4. QED
  BY <1>3

LEMMA TokensFit ==
  ASSUME NEW text \in Seq(Below128)
  PROVE  /\ Tokenize(text).tokens \in Seq(Seq(Octet))
         /\ Len(Spaced(Tokenize(text).tokens)) <= Len(text) + 1
<1> DEFINE st == TokenEnded(After(text))
<1>1. Len(text) \in Nat
  OBVIOUS
<1>2. Fits(st, Len(text) + 1)
  BY <1>1, TextFits, EndedFits
<1>3. Tokenize(text).tokens = st.tokens
  BY TokenizeIs
<1> HIDE DEF st
<1>4. st.tokens \in Seq(Seq(Octet)) /\ st.cur \in Seq(Octet) /\ Len(Spaced(st.tokens)) + Len(st.cur) <= Len(text) + 1
  BY <1>2 DEF Fits, TokenState
<1> DEFINE s == Len(Spaced(st.tokens))
           c == Len(st.cur)
           n == Len(text)
<1>5. s \in Nat /\ c \in Nat /\ n \in Nat /\ s + c <= n + 1
  BY <1>1, <1>4, SpacedOctets
<1> HIDE DEF s, c, n
<1>6. s <= n + 1
  BY <1>5
<1>7. QED
  BY <1>3, <1>4, <1>6 DEF s, n

-----------------------------------------------------------------------------
(* A plain command is read back as it was.                                 *)

PlainByte == {b \in Octet : b < 128 /\ b # Quote /\ ~IsSpace(b)}

(* The tokenizer is in a word, and has no quote to close.                  *)
Reading(text, tokens, cur) ==
  /\ After(text) \in TokenState
  /\ After(text).tokens = tokens
  /\ After(text).cur = cur
  /\ ~After(text).inQuote

LEMMA ByteOfWord ==
  ASSUME NEW text \in Seq(Octet), NEW tokens, NEW cur, Reading(text, tokens, cur), NEW b \in PlainByte
  PROVE  Reading(Append(text, b), tokens, Append(cur, b))
<1> DEFINE st == After(text)
<1>1. st \in TokenState /\ st.tokens = tokens /\ st.cur = cur /\ ~st.inQuote
  BY DEF Reading
<1>2. b \in Octet /\ b < 128 /\ b # Quote /\ ~IsSpace(b)
  BY DEF PlainByte
<1>3. After(Append(text, b)) = TokenStep(st, b)
  BY <1>2, ByteRead
<1> HIDE DEF st
<1>4. TokenStep(st, b) = [st EXCEPT !.cur = @ \o WriteRune(b)]
  BY <1>1, <1>2, StepIs
<1>5. TokenStep(st, b) \in TokenState
  BY <1>1, <1>2, StepTyped
<1>6. /\ TokenStep(st, b).tokens = tokens /\ TokenStep(st, b).cur = cur \o <<b>>
      /\ ~TokenStep(st, b).inQuote
  BY <1>1, <1>2, <1>4, RuneIs DEF TokenState
<1>7. cur \o <<b>> = Append(cur, b)
  <2>1. cur \in Seq(Octet)
    BY <1>1 DEF TokenState
  <2>2. QED
    BY <1>2, <2>1, ConcatAppend
<1>8. QED
  BY <1>3, <1>5, <1>6, <1>7 DEF Reading

LEMMA ReadWord ==
  ASSUME NEW text \in Seq(Octet), NEW tokens, Reading(text, tokens, <<>>), NEW word \in Seq(PlainByte)
  PROVE  Reading(text \o word, tokens, word)
<1> DEFINE N == {n \in Nat : \A w \in Seq(PlainByte) : Len(w) = n => Reading(text \o w, tokens, w)}
<1>1. \A w \in Seq(PlainByte) : w \in Seq(Octet)
  <2>1. PlainByte \subseteq Octet
    BY DEF PlainByte
  <2>2. QED
    BY <2>1, SeqWider
<1>2. 0 \in N
  <2>1. \A w \in Seq(PlainByte) : Len(w) = 0 => w = <<>>
    OBVIOUS
  <2>2. text \o <<>> = text
    BY ConcatEmptySeq
  <2>3. QED
    BY <2>1, <2>2
<1>3. ASSUME NEW n \in N PROVE n + 1 \in N
  <2> SUFFICES ASSUME NEW w \in Seq(PlainByte), Len(w) = n + 1 PROVE Reading(text \o w, tokens, w)
    OBVIOUS
  <2>1. n \in Nat
    OBVIOUS
  <2> DEFINE front == SubSeq(w, 1, n)
             b == w[n + 1]
  <2>2. front \in Seq(PlainByte) /\ Len(front) = n /\ b \in PlainByte /\ w = Append(front, b)
    BY <2>1, FrontAndLast
  <2>3. Reading(text \o front, tokens, front)
    BY <2>2
  <2> HIDE DEF front, b, N
  <2>4. text \o front \in Seq(Octet) /\ front \in Seq(Octet) /\ b \in Octet
    BY <1>1, <2>2, ConcatProperties DEF PlainByte
  <2>5. Reading(Append(text \o front, b), tokens, Append(front, b))
    BY <2>2, <2>3, <2>4, ByteOfWord
  <2>6. text \o Append(front, b) = Append(text \o front, b)
    BY <2>4, ConcatAppend
  <2>7. QED
    BY <2>2, <2>5, <2>6
<1>4. Len(word) \in N
  <2>1. N \in SUBSET Nat /\ Len(word) \in Nat
    OBVIOUS
  <2> HIDE DEF N
  <2>2. QED
    BY <1>2, <1>3, <2>1, NatSets
<1>5. QED
  BY <1>4

(* What has been read is a word, and with it the tokens are these.         *)
HasRead(text, tokens) ==
  /\ text \in Seq(Octet)
  /\ After(text) \in TokenState
  /\ ~After(text).inQuote
  /\ After(text).cur # <<>>
  /\ TokenEnded(After(text)).tokens = tokens

LEMMA NameByte == 82 \in PlainByte /\ Name \in Seq(PlainByte) /\ Name # <<>>
BY DEF PlainByte, Name, Octet, Quote, IsSpace, Space

LEMMA ReadName == HasRead(Name, <<Name>>)
<1>1. Reading(<<>>, <<>>, <<>>)
  <2>1. <<>> \in Seq(Seq(Octet)) /\ <<>> \in Seq(Octet)
    OBVIOUS
  <2>2. Fresh \in TokenState /\ Fresh.tokens = <<>> /\ Fresh.cur = <<>> /\ ~Fresh.inQuote
    BY <2>1 DEF Fresh, TokenState
  <2>3. QED
    BY <2>2, NothingRead DEF Reading
<1>2. Name \in Seq(Octet)
  <2>1. PlainByte \subseteq Octet
    BY DEF PlainByte
  <2>2. QED
    BY <2>1, NameByte, SeqWider
<1>3. Reading(<<>> \o Name, <<>>, Name)
  <2>1. <<>> \in Seq(Octet)
    OBVIOUS
  <2>2. QED
    BY <1>1, <2>1, NameByte, ReadWord
<1>4. Reading(Name, <<>>, Name)
  BY <1>2, <1>3, ConcatEmptySeq
<1>5. Append(<<>>, Name) = <<Name>>
  OBVIOUS
<1>6. TokenEnded(After(Name)).tokens = <<Name>>
  BY <1>4, <1>5, NameByte, EndedIs DEF Reading
<1>7. QED
  BY <1>2, <1>4, <1>6, NameByte DEF Reading, HasRead

LEMMA ReadOneMore ==
  ASSUME NEW text, NEW tokens, HasRead(text, tokens), NEW word \in Seq(PlainByte), word # <<>>
  PROVE  HasRead(text \o (<<Space>> \o word), Append(tokens, word))
<1> DEFINE more == Append(text, Space)
<1>1. /\ text \in Seq(Octet) /\ After(text) \in TokenState /\ ~After(text).inQuote
      /\ After(text).cur # <<>> /\ TokenEnded(After(text)).tokens = tokens
  BY DEF HasRead
<1>2. Space \in Octet /\ IsSpace(Space)
  BY LetterBytes DEF IsSpace
<1>3. After(more) = TokenEnded(After(text))
  BY <1>1, <1>2, ByteRead, StepIs
<1>4. more \in Seq(Octet)
  BY <1>1, <1>2, AppendProperties
<1> HIDE DEF more
<1>5. Reading(more, tokens, <<>>)
  BY <1>1, <1>3, EndedIs DEF Reading
<1>6. Reading(more \o word, tokens, word)
  BY <1>4, <1>5, ReadWord
<1>7. word \in Seq(Octet) /\ <<Space>> \in Seq(Octet)
  <2>1. PlainByte \subseteq Octet
    BY DEF PlainByte
  <2>2. QED
    BY <1>2, <2>1, SeqWider
<1>8. more \o word = text \o (<<Space>> \o word)
  <2>1. more = text \o <<Space>>
    BY <1>1, <1>2, ConcatAppend DEF more
  <2>2. (text \o <<Space>>) \o word = text \o (<<Space>> \o word)
    BY <1>1, <1>7, ConcatAssociative
  <2>3. QED
    BY <2>1, <2>2
<1>9. more \o word \in Seq(Octet)
  BY <1>4, <1>7, ConcatProperties
<1> DEFINE st == After(more \o word)
<1>10. st \in TokenState /\ st.tokens = tokens /\ st.cur = word /\ ~st.inQuote
  BY <1>6 DEF Reading
<1>11. TokenEnded(st).tokens = Append(tokens, word)
  BY <1>10, EndedIs
<1>12. HasRead(more \o word, Append(tokens, word))
  BY <1>9, <1>10, <1>11 DEF HasRead
<1>13. QED
  BY <1>8, <1>12

LEMMA ReadBody ==
  ASSUME NEW args \in Seq(Word(PlainByte))
  PROVE  HasRead(Body(args), <<Name>> \o args)
<1> DEFINE A == Word(PlainByte)
           N == {n \in Nat : \A s \in Seq(A) : Len(s) = n => HasRead(Body(s), <<Name>> \o s)}
<1>1. A \subseteq Seq(Octet) /\ Name \in A /\ \A w \in A : w \in Seq(PlainByte) /\ w # <<>>
  <2>1. PlainByte \subseteq Octet
    BY DEF PlainByte
  <2>2. QED
    BY <2>1, SeqWider, NameByte DEF Word
<1> HIDE DEF A
<1>2. 0 \in N
  <2>1. \A s \in Seq(A) : Len(s) = 0 => s = <<>>
    OBVIOUS
  <2>2. <<Name>> \in Seq(A) /\ Name \in Seq(PlainByte)
    BY <1>1
  <2>3. Body(<<>>) = Name /\ <<Name>> \o <<>> = <<Name>>
    BY <2>2, SpacedEmpty, ConcatEmptySeq DEF Body
  <2>4. QED
    BY <2>1, <2>3, ReadName
<1>3. ASSUME NEW n \in N PROVE n + 1 \in N
  <2> SUFFICES ASSUME NEW s \in Seq(A), Len(s) = n + 1 PROVE HasRead(Body(s), <<Name>> \o s)
    OBVIOUS
  <2>1. n \in Nat
    OBVIOUS
  <2> DEFINE front == SubSeq(s, 1, n)
             w == s[n + 1]
  <2>2. front \in Seq(A) /\ Len(front) = n /\ w \in A /\ s = Append(front, w)
    BY <2>1, FrontAndLast
  <2>3. HasRead(Body(front), <<Name>> \o front)
    BY <2>2
  <2> HIDE DEF front, w, N
  <2>4. HasRead(Body(front) \o (<<Space>> \o w), Append(<<Name>> \o front, w))
    BY <1>1, <2>2, <2>3, ReadOneMore
  <2>5. <<Name>> \in Seq(A)
    BY <1>1
  <2>6. <<Name>> \o Append(front, w) = Append(<<Name>> \o front, w)
    BY <2>2, <2>5, ConcatAppend
  <2>7. Body(Append(front, w)) = Body(front) \o (<<Space>> \o w)
    <3>1. front \in Seq(Seq(Octet)) /\ w \in Seq(Octet)
      BY <1>1, <2>2, SeqWider
    <3>2. /\ Spaced(front) \in Seq(Octet) /\ <<Space>> \o w \in Seq(Octet)
          /\ Spaced(Append(front, w)) = Spaced(front) \o (<<Space>> \o w)
      BY <3>1, LetterBytes, SpacedAppend
    <3>3. Name \in Seq(Octet)
      BY <1>1
    <3> DEFINE l == <<Space>> \o w
               r == Spaced(front)
    <3>4. l \in Seq(Octet) /\ r \in Seq(Octet)
      BY <3>2
    <3> HIDE DEF l, r
    <3>5. (Name \o r) \o l = Name \o (r \o l)
      BY <3>3, <3>4, ConcatAssociative
    <3>6. QED
      BY <3>2, <3>5 DEF Body, l, r
  <2>8. QED
    BY <2>2, <2>4, <2>6, <2>7
<1>4. Len(args) \in N
  <2>1. N \in SUBSET Nat /\ Len(args) \in Nat
    OBVIOUS
  <2> HIDE DEF N
  <2>2. QED
    BY <1>2, <1>3, <2>1, NatSets
<1>5. QED
  BY <1>4 DEF A

LEMMA PlainIsReread ==
  ASSUME NEW args \in Seq(Word(PlainByte)), Len(args) >= MinArgs
  PROVE  Reread(Body(args)) = <<args>>
<1> DEFINE all == <<Name>> \o args
           parsed == Tokenize(Body(args))
<1>1. HasRead(Body(args), all)
  BY ReadBody
<1>2. parsed.ok /\ parsed.tokens = all
  BY <1>1, TokenizeIs DEF HasRead
<1>3. Name \in Word(PlainByte)
  BY NameByte DEF Word
<1>4. /\ all \in Seq(Word(PlainByte)) /\ Len(all) = Len(args) + 1 /\ all[1] = Name
      /\ \A i \in 1 .. Len(args) : all[i + 1] = args[i]
  <2>1. <<Name>> \in Seq(Word(PlainByte)) /\ Len(<<Name>>) = 1
    BY <1>3
  <2>2. Len(args) \in Nat
    OBVIOUS
  <2> DEFINE n == Len(args)
  <2>3. /\ all \in Seq(Word(PlainByte)) /\ Len(all) = 1 + n
        /\ \A i \in 1 .. 1 + n : all[i] = IF i <= 1 THEN <<Name>>[i] ELSE args[i - 1]
    BY <2>1, ConcatProperties
  <2> HIDE DEF all, n
  <2>4. n \in Nat
    BY <2>2 DEF n
  <2>5. 1 \in 1 .. 1 + n /\ \A i \in 1 .. n : i + 1 \in 1 .. 1 + n /\ ~(i + 1 <= 1) /\ (i + 1) - 1 = i
    BY <2>4
  <2>6. all[1] = Name /\ \A i \in 1 .. n : all[i + 1] = args[i]
    BY <2>3, <2>5
  <2>7. 1 + n = n + 1
    BY <2>4
  <2>8. QED
    BY <2>3, <2>6, <2>7 DEF n
<1>5. Len(args) \in Nat /\ MinArgs \in Nat
  BY TextAssumption
<1> HIDE DEF all
<1>6. all # <<>> /\ Len(all) > MinArgs
  BY <1>4, <1>5
<1>7. Tail(all) = args
  <2>1. /\ Tail(all) \in Seq(Word(PlainByte)) /\ Len(Tail(all)) = Len(all) - 1
        /\ \A i \in 1 .. Len(Tail(all)) : Tail(all)[i] = all[i + 1]
    BY <1>4, <1>6, HeadTailProperties
  <2>2. Len(Tail(all)) = Len(args)
    BY <1>4, <1>5, <2>1
  <2>3. \A i \in 1 .. Len(Tail(all)) : Tail(all)[i] = args[i]
    BY <1>4, <2>1, <2>2
  <2>4. QED
    BY <2>1, <2>2, <2>3, SeqEqual
<1> HIDE DEF parsed
<1>8. QED
  BY <1>2, <1>4, <1>6, <1>7 DEF Reread, parsed

-----------------------------------------------------------------------------
(* Commands and their lines.                                               *)

Clean == Octet \ {Quote}

(* Commands of words of these bytes.                                       *)
Commanded(K) == {args \in Seq(Word(K)) : Len(args) >= MinArgs}

UpTo(cs, n) == \A m \in 1 .. n : OneLine(cs[m])

(* The first commands, as long as each is on one line, have their lines in *)
(* the file, and a command that is not glued has a line of its own.        *)
LinesHold(cs, f, g) ==
  \A n \in 1 .. Len(cs) : UpTo(cs, n) =>
    /\ n <= Cardinality(Ends(f))
    /\ n \notin g => FileLines(f)[n] = Body(cs[n])

(* If all are, the file has no other lines, and what follows the last      *)
(* newline is where the next command will be glued.                        *)
EndsHold(cs, f, g) ==
  UpTo(cs, Len(cs)) =>
    /\ Cardinality(Ends(f)) = Len(cs)
    /\ Unended(f) => Len(cs) + 1 \in g

TextInv ==
  /\ line \in Seq(Byte)
  /\ commands \in Seq(Commanded(Clean))
  /\ file \in Seq(Clean)
  /\ LinesHold(commands, file, glued)
  /\ EndsHold(commands, file, glued)

LEMMA CleanBytes ==
  /\ Clean \subseteq Octet /\ Space \in Clean /\ 82 \in Clean /\ Newline \in Clean
  /\ Keeps(Octet, Clean)
  /\ Keeps(Letter, Clean \ {Newline})
<1>1. Clean \subseteq Octet /\ Space \in Clean /\ 82 \in Clean /\ Newline \in Clean
  BY DEF Clean, Octet, Quote, Space, Newline
<1>2. ASSUME NEW b \in Octet, b # Quote
      PROVE  WriteRune(b) \in Seq(Clean) /\ (b # Newline => WriteRune(b) \in Seq(Clean \ {Newline}))
  <2>1. CASE b < 128
    <3>1. WriteRune(b) = <<b>> /\ b \in Clean
      BY <1>2, <2>1, RuneIs DEF Clean
    <3>2. QED
      BY <3>1
  <2>2. CASE b >= 128
    <3> DEFINE r == WriteRune(b)
    <3>1. r \in Seq(Octet) /\ Len(r) = 2 /\ \A i \in 1 .. 2 : r[i] >= 128
      BY <2>2, RuneIs
    <3> HIDE DEF r
    <3>2. \A i \in 1 .. 2 : r[i] \in Octet
      BY <3>1
    <3>3. \A i \in 1 .. 2 : r[i] \in Clean \ {Newline}
      BY <3>1, <3>2 DEF Clean, Quote, Newline
    <3>4. r = [i \in 1 .. 2 |-> r[i]]
      BY <3>1
    <3>5. r \in Seq(Clean \ {Newline})
      BY <3>3, <3>4
    <3>6. r \in Seq(Clean)
      BY <3>5, SeqWider
    <3>7. QED
      BY <3>5, <3>6 DEF r
  <2>3. QED
    BY <2>1, <2>2 DEF Octet
<1>3. Letter \subseteq Octet /\ \A b \in Letter : b # Newline
  BY DEF Letter
<1>4. QED
  BY <1>1, <1>2, <1>3 DEF Keeps

LEMMA CommandBytes ==
  ASSUME NEW K, K \subseteq Octet, Space \in K, 82 \in K, NEW args \in Commanded(K)
  PROVE  args \in Seq(Seq(K)) /\ Body(args) \in Seq(K) /\ (Newline \in K => Serialise(args) \in Seq(K))
<1>1. Word(K) \subseteq Seq(K)
  BY DEF Word
<1>2. args \in Seq(Seq(K))
  BY <1>1, SeqWider DEF Commanded
<1>3. Body(args) \in Seq(K)
  BY <1>2, BodyTyped
<1>4. ASSUME Newline \in K PROVE Serialise(args) \in Seq(K)
  <2>1. <<Newline>> \in Seq(K)
    BY <1>4
  <2>2. QED
    BY <1>3, <2>1, SerialiseIs, ConcatProperties
<1>5. QED
  BY <1>2, <1>3, <1>4

LEMMA OneLineBytes ==
  ASSUME NEW args \in Commanded(Clean)
  PROVE  OneLine(args) <=> args \in Seq(Seq(Letter))
<1>1. args \in Seq(Word(Clean)) /\ DOMAIN args = 1 .. Len(args) /\ Len(args) \in Nat
  BY DEF Commanded
<1>2. ASSUME NEW i \in 1 .. Len(args) PROVE args[i] \in Seq(Octet) /\ DOMAIN args[i] = 1 .. Len(args[i])
  <2>1. args[i] \in Seq(Clean)
    BY <1>1 DEF Word
  <2>2. args[i] \in Seq(Octet)
    BY <2>1, CleanBytes, SeqWider
  <2>3. QED
    BY <2>2
<1>3. ASSUME OneLine(args) PROVE args \in Seq(Seq(Letter))
  <2>1. ASSUME NEW i \in 1 .. Len(args) PROVE args[i] \in Seq(Letter)
    <3> DEFINE w == args[i]
    <3>1. w \in Seq(Octet) /\ \A j \in 1 .. Len(w) : w[j] # Newline
      BY <1>1, <1>2, <1>3 DEF OneLine
    <3> HIDE DEF w
    <3>2. \A j \in 1 .. Len(w) : w[j] \in Letter
      BY <3>1 DEF Letter
    <3>3. w = [j \in 1 .. Len(w) |-> w[j]] /\ Len(w) \in Nat
      BY <3>1
    <3>4. w \in Seq(Letter)
      BY <3>2, <3>3
    <3>5. QED
      BY <3>4 DEF w
  <2> DEFINE T == Seq(Letter)
  <2>2. \A i \in 1 .. Len(args) : args[i] \in T
    BY <2>1
  <2>3. args = [i \in 1 .. Len(args) |-> args[i]]
    BY <1>1
  <2> HIDE DEF T
  <2>4. args \in Seq(T)
    BY <1>1, <2>2, <2>3
  <2>5. QED
    BY <2>4 DEF T
<1>4. ASSUME args \in Seq(Seq(Letter)) PROVE OneLine(args)
  <2>1. ASSUME NEW i \in DOMAIN args, NEW j \in DOMAIN args[i] PROVE args[i][j] # Newline
    <3>1. args[i] \in Seq(Letter)
      BY <1>4
    <3>2. args[i][j] \in Letter
      BY <3>1
    <3>3. QED
      BY <3>2 DEF Letter
  <2>2. QED
    BY <2>1 DEF OneLine
<1>5. QED
  BY <1>3, <1>4 DEF OneLine

LEMMA SentIsCommand ==
  ASSUME NEW S, NEW K, Keeps(S, K), NEW text \in Seq(S), Accepted(Tokenize(text))
  PROVE  Tokenize(text).tokens \in Commanded(K)
BY TokensTyped DEF Accepted, Commanded

LEMMA RereadIsCommand ==
  ASSUME NEW S, NEW K, Keeps(S, K), NEW text \in Seq(S)
  PROVE  Reread(text) \in Seq(Commanded(K))
<1> DEFINE parsed == Tokenize(text)
           tokens == parsed.tokens
<1>1. tokens \in Seq(Word(K))
  BY TokensTyped
<1>2. MinArgs \in Nat
  BY TextAssumption
<1> HIDE DEF parsed
<1>3. CASE parsed.ok /\ tokens # <<>> /\ tokens[1] = Name /\ Len(tokens) > MinArgs
  <2>1. Tail(tokens) \in Seq(Word(K)) /\ Len(Tail(tokens)) = Len(tokens) - 1
    BY <1>1, <1>3, HeadTailProperties
  <2>2. Len(tokens) \in Nat
    BY <1>1
  <2>3. Len(Tail(tokens)) >= MinArgs
    BY <1>2, <1>3, <2>1, <2>2
  <2>4. Tail(tokens) \in Commanded(K)
    BY <2>1, <2>3 DEF Commanded
  <2>5. Reread(text) = <<Tail(tokens)>>
    BY <1>3 DEF Reread, parsed
  <2>6. QED
    BY <2>4, <2>5
<1>4. CASE ~(parsed.ok /\ tokens # <<>> /\ tokens[1] = Name /\ Len(tokens) > MinArgs)
  <2>1. Reread(text) = <<>>
    BY <1>4 DEF Reread, parsed
  <2>2. QED
    BY <2>1
<1>5. QED
  BY <1>3, <1>4

LEMMA ReadAgainCommands ==
  ASSUME NEW text \in Seq(Octet)
  PROVE  ReadAgain(text) \in Seq(Commanded(Clean \ {Newline}))
<1>1. FileLines(text) \in Seq(Seq(Letter))
  BY LinesTyped DEF Letter
<1>2. \A l \in Seq(Letter) : Reread(l) \in Seq(Commanded(Clean \ {Newline}))
  BY CleanBytes, RereadIsCommand
<1>3. QED
  BY <1>1, <1>2, ReadAgainTyped

-----------------------------------------------------------------------------
(* A command is sent.                                                      *)

LEMMA MoreLines ==
  ASSUME NEW cs \in Seq(Commanded(Clean)), NEW f, NEW more, NEW g, LinesHold(cs, f, g),
         SameLines(f, more), Cardinality(Ends(f)) \in Nat, Cardinality(Ends(more)) \in Nat
  PROVE  LinesHold(cs, more, g)
<1> DEFINE m == Cardinality(Ends(f))
           k == Cardinality(Ends(more))
<1>1. m <= k /\ \A n \in 1 .. m : FileLines(more)[n] = FileLines(f)[n]
  BY DEF SameLines
<1>2. ASSUME NEW n \in 1 .. Len(cs), UpTo(cs, n)
      PROVE  n <= m /\ (n \notin g => FileLines(f)[n] = Body(cs[n]))
  BY <1>2 DEF LinesHold
<1>3. m \in Nat /\ k \in Nat /\ \A n \in 1 .. Len(cs) : n \in Nat /\ n >= 1
  OBVIOUS
<1> HIDE DEF m, k
<1>4. ASSUME NEW n \in 1 .. Len(cs), UpTo(cs, n)
      PROVE  n <= k /\ (n \notin g => FileLines(more)[n] = Body(cs[n]))
  <2>1. n \in 1 .. m /\ n <= k
    BY <1>1, <1>2, <1>3, <1>4
  <2>2. QED
    BY <1>1, <1>2, <1>4, <2>1
<1>5. QED
  BY <1>4 DEF LinesHold, k

LEMMA UpToAppend ==
  ASSUME NEW cs \in Seq(Commanded(Clean)), NEW args \in Commanded(Clean), NEW n \in 1 .. Len(cs) + 1
  PROVE  /\ Len(cs) \in Nat /\ Len(Append(cs, args)) = Len(cs) + 1
         /\ n <= Len(cs) => n \in 1 .. Len(cs) /\ Append(cs, args)[n] = cs[n]
         /\ n = Len(cs) + 1 => Append(cs, args)[n] = args
         /\ n <= Len(cs) => (UpTo(Append(cs, args), n) <=> UpTo(cs, n))
         /\ n = Len(cs) + 1 => (UpTo(Append(cs, args), n) <=> UpTo(cs, Len(cs)) /\ OneLine(args))
<1> DEFINE k == Len(cs)
           more == Append(cs, args)
<1>1. k \in Nat /\ Len(more) = k + 1 /\ more[k + 1] = args /\ \A i \in 1 .. k : more[i] = cs[i]
  BY AppendProperties
<1> HIDE DEF k, more
<1>2. n \in 1 .. k + 1
  BY DEF k
<1>3. n <= k => n \in 1 .. k /\ \A i \in 1 .. n : i \in 1 .. k
  BY <1>1, <1>2
<1>4. n <= k => (UpTo(more, n) <=> UpTo(cs, n))
  BY <1>1, <1>3 DEF UpTo
<1>5. \A i \in 1 .. k + 1 : i = k + 1 \/ i \in 1 .. k
  BY <1>1
<1>6. k + 1 \in 1 .. k + 1 /\ \A i \in 1 .. k : i \in 1 .. k + 1
  BY <1>1
<1>7. UpTo(more, k + 1) <=> UpTo(cs, k) /\ OneLine(args)
  BY <1>1, <1>5, <1>6 DEF UpTo
<1>8. QED
  BY <1>1, <1>3, <1>4, <1>7 DEF k, more

LEMMA SendKeepsLines ==
  ASSUME NEW cs \in Seq(Commanded(Clean)), NEW f \in Seq(Clean), NEW g,
         LinesHold(cs, f, g), EndsHold(cs, f, g), NEW args \in Commanded(Clean)
  PROVE  /\ LinesHold(Append(cs, args), f \o Serialise(args), g)
         /\ EndsHold(Append(cs, args), f \o Serialise(args), g)
<1> DEFINE new == f \o Serialise(args)
           more == Append(cs, args)
           k == Len(cs)
           m == Cardinality(Ends(f))
<1>1. f \in Seq(Octet) /\ Serialise(args) \in Seq(Octet) /\ new \in Seq(Octet)
  <2>1. Serialise(args) \in Seq(Clean)
    BY CleanBytes, CommandBytes
  <2>2. f \in Seq(Octet) /\ Serialise(args) \in Seq(Octet)
    BY <2>1, CleanBytes, SeqWider
  <2>3. QED
    BY <2>2, ConcatProperties
<1>2. SameLines(f, new) /\ m \in Nat /\ Cardinality(Ends(new)) \in Nat
  BY <1>1, SameLinesOfText, LinesTyped
<1>3. LinesHold(cs, new, g)
  BY <1>2, MoreLines
<1>4. /\ k \in Nat /\ Len(more) = k + 1
      /\ \A n \in 1 .. k + 1 :
           /\ n <= k => n \in 1 .. k /\ more[n] = cs[n] /\ (UpTo(more, n) <=> UpTo(cs, n))
           /\ n = k + 1 => more[n] = args /\ (UpTo(more, n) <=> UpTo(cs, k) /\ OneLine(args))
  <2>1. k \in Nat /\ 1 \in 1 .. k + 1
    OBVIOUS
  <2>2. \A n \in 1 .. k + 1 : 
           /\ n <= k => n \in 1 .. k /\ more[n] = cs[n] /\ (UpTo(more, n) <=> UpTo(cs, n))
           /\ n = k + 1 => more[n] = args /\ (UpTo(more, n) <=> UpTo(cs, k) /\ OneLine(args))
    BY UpToAppend
  <2>3. Len(more) = k + 1
    BY <2>1, UpToAppend
  <2>4. QED
    BY <2>1, <2>2, <2>3
<1>5. ASSUME UpTo(cs, k), OneLine(args)
      PROVE  /\ m = k /\ (Unended(f) => k + 1 \in g) /\ ~Unended(new) /\ Cardinality(Ends(new)) = m + 1
             /\ ~Unended(f) => FileLines(new)[m + 1] = Body(args)
  <2>1. args \in Seq(Seq(Letter))
    BY <1>5, OneLineBytes
  <2>2. Body(args) \in Seq(Letter)
    BY <2>1, LetterBytes, BodyTyped
  <2>3. new = f \o (Body(args) \o <<Newline>>)
    BY SerialiseIs
  <2>4. m = k /\ (Unended(f) => k + 1 \in g)
    BY <1>5 DEF EndsHold
  <2> HIDE DEF new, k
  <2>5. QED
    BY <1>1, <2>2, <2>3, <2>4, LineWritten
<1> HIDE DEF new, more, k, m
<1>6. ASSUME NEW n \in 1 .. k + 1, UpTo(more, n)
      PROVE  n <= Cardinality(Ends(new)) /\ (n \notin g => FileLines(new)[n] = Body(more[n]))
  <2>1. CASE n <= k
    BY <1>3, <1>4, <1>6, <2>1 DEF LinesHold, k
  <2>2. CASE n = k + 1
    <3>1. UpTo(cs, k) /\ OneLine(args) /\ more[n] = args
      BY <1>4, <1>6, <2>2
    <3>2. QED
      BY <1>4, <1>5, <2>2, <3>1
  <2>3. QED
    BY <1>4, <2>1, <2>2
<1>7. LinesHold(more, new, g)
  BY <1>4, <1>6 DEF LinesHold
<1>8. EndsHold(more, new, g)
  <2>1. k + 1 \in 1 .. k + 1
    BY <1>4
  <2>2. UpTo(more, k + 1) => UpTo(cs, k) /\ OneLine(args)
    BY <1>4, <2>1
  <2>3. QED
    BY <1>4, <1>5, <2>2 DEF EndsHold
<1>9. QED
  BY <1>7, <1>8 DEF new, more

-----------------------------------------------------------------------------
(* A crash and a restart.                                                  *)

LEMMA MinOfTwo ==
  ASSUME NEW a \in Nat, NEW b \in Nat
  PROVE  LET k == Min({a, b}) IN k \in Nat /\ k <= a /\ k <= b /\ (k = a \/ k = b)
<1> DEFINE S == {a, b}
           k == Min(S)
<1>1. \E x \in S : \A y \in S : x <= y
  <2>1. a <= b \/ b <= a
    OBVIOUS
  <2>2. a <= a /\ b <= b
    OBVIOUS
  <2>3. QED
    BY <2>1, <2>2
<1>2. k \in S /\ \A y \in S : k <= y
  <2> HIDE DEF S
  <2>1. QED
    BY <1>1 DEF Min
<1> HIDE DEF k
<1>3. QED
  BY <1>2 DEF k

(* What is left of the commands, and those executed again.                 *)
LEMMA LeftAndAgain ==
  ASSUME NEW cs \in Seq(Commanded(Clean)), NEW again \in Seq(Commanded(Clean)),
         NEW k \in 0 .. Len(cs)
  PROVE  LET new == SubSeq(cs, 1, k) \o again
         IN  /\ new \in Seq(Commanded(Clean)) /\ Len(new) = k + Len(again)
             /\ \A n \in 1 .. k : new[n] = cs[n]
             /\ \A i \in 1 .. Len(again) : new[k + i] = again[i]
<1> DEFINE T == Commanded(Clean)
           r == Len(again)
           some == SubSeq(cs, 1, k)
           new == some \o again
<1>1. k \in Nat /\ r \in Nat /\ k <= Len(cs)
  OBVIOUS
<1> HIDE DEF T
<1>2. some \in Seq(T) /\ Len(some) = k /\ \A n \in 1 .. k : some[n] = cs[n]
  <2>1. cs \in Seq(T)
    BY DEF T
  <2>2. QED
    BY <1>1, <2>1
<1>3. again \in Seq(T)
  BY DEF T
<1> HIDE DEF some
<1>4. /\ new \in Seq(T) /\ Len(new) = k + r
      /\ \A n \in 1 .. k + r : new[n] = IF n <= k THEN some[n] ELSE again[n - k]
  BY <1>2, <1>3, ConcatProperties
<1> HIDE DEF new, r
<1>5. \A n \in 1 .. k : n \in 1 .. k + r /\ n <= k
  BY <1>1
<1>6. \A i \in 1 .. r : k + i \in 1 .. k + r /\ ~(k + i <= k) /\ (k + i) - k = i
  BY <1>1
<1>7. \A n \in 1 .. k : new[n] = cs[n]
  BY <1>2, <1>4, <1>5
<1>8. \A i \in 1 .. r : new[k + i] = again[i]
  BY <1>4, <1>6
<1>9. QED
  BY <1>4, <1>7, <1>8 DEF T, r, new, some

LEMMA CrashKeepsLines ==
  ASSUME NEW cs \in Seq(Commanded(Clean)), NEW f \in Seq(Clean), NEW g,
         LinesHold(cs, f, g), EndsHold(cs, f, g), NEW size \in 0 .. Len(f),
         NEW again \in Seq(Commanded(Clean \ {Newline}))
  PROVE  LET left  == SubSeq(f, 1, size)
             whole == Cardinality(Ends(left))
             more  == SubSeq(cs, 1, Min({whole, Len(cs)})) \o again
             new   == left \o Rewritten(again)
             glue  == {n \in g : n <= whole} \cup (IF Unended(left) THEN {whole + 1} ELSE {})
         IN  more \in Seq(Commanded(Clean)) /\ LinesHold(more, new, glue) /\ EndsHold(more, new, glue)
<1> DEFINE left  == SubSeq(f, 1, size)
           whole == Cardinality(Ends(left))
           k     == Min({whole, Len(cs)})
           more  == SubSeq(cs, 1, k) \o again
           new   == left \o Rewritten(again)
           glue  == {n \in g : n <= whole} \cup (IF Unended(left) THEN {whole + 1} ELSE {})
           m     == Cardinality(Ends(f))
           r     == Len(again)
           l     == Len(cs)
<1>1. left \in Seq(Octet) /\ SameLines(left, f)
  <2>1. f \in Seq(Octet)
    BY CleanBytes, SeqWider
  <2>2. QED
    BY <2>1, BeginningOfText
<1>2. whole \in Nat /\ m \in Nat /\ r \in Nat /\ l \in Nat
  <2>1. f \in Seq(Octet)
    BY CleanBytes, SeqWider
  <2> HIDE DEF left
  <2>2. whole \in Nat /\ m \in Nat
    BY <1>1, <2>1, LinesTyped
  <2>3. r \in Nat /\ l \in Nat
    OBVIOUS
  <2>4. QED
    BY <2>2, <2>3
<1>3. again \in Seq(Commanded(Clean)) /\ again \in Seq(Seq(Seq(Letter)))
  <2> DEFINE C == Commanded(Clean \ {Newline})
  <2>1. C \subseteq Commanded(Clean) /\ C \subseteq Seq(Seq(Letter))
    <3>1. Clean \ {Newline} \subseteq Clean /\ Clean \ {Newline} \subseteq Letter
      BY CleanBytes DEF Letter
    <3>2. Word(Clean \ {Newline}) \subseteq Word(Clean) /\ Word(Clean \ {Newline}) \subseteq Seq(Letter)
      BY <3>1, SeqWider DEF Word
    <3>3. QED
      BY <3>2, SeqWider DEF Commanded
  <2> HIDE DEF C
  <2>2. again \in Seq(C)
    BY DEF C
  <2>3. QED
    BY <2>1, <2>2, SeqWider
<1>4. \A i \in 1 .. r : again[i] \in Commanded(Clean \ {Newline})
  OBVIOUS
<1>5. k \in Nat /\ k <= whole /\ k <= l /\ (k = whole \/ k = l)
  <2> HIDE DEF left, whole, l
  <2>1. QED
    BY <1>2, MinOfTwo DEF l
<1>6. /\ new \in Seq(Octet) /\ SameLines(left, new) /\ Cardinality(Ends(new)) = whole + r
      /\ Unended(new) <=> again = <<>> /\ Unended(left)
      /\ \A i \in 1 .. r : i > 1 \/ ~Unended(left) => FileLines(new)[whole + i] = Body(again[i])
  <2> HIDE DEF left
  <2>1. HasLines(left, again)
    BY <1>1, <1>3, CommandsWritten
  <2>2. QED
    BY <2>1 DEF HasLines
<1>7. /\ more \in Seq(Commanded(Clean)) /\ Len(more) = k + r
      /\ \A n \in 1 .. k : more[n] = cs[n]
      /\ \A i \in 1 .. r : more[k + i] = again[i]
  <2>1. k \in 0 .. l
    BY <1>2, <1>5
  <2> HIDE DEF k
  <2>2. QED
    BY <1>3, <2>1, LeftAndAgain
<1>8. whole <= m /\ \A n \in 1 .. whole : FileLines(new)[n] = FileLines(f)[n]
  <2> HIDE DEF left, new
  <2>1. QED
    BY <1>1, <1>6 DEF SameLines
<1>9. /\ \A n \in g : n <= whole => n \in glue
      /\ Unended(left) => whole + 1 \in glue
  <2> HIDE DEF left, whole
  <2>1. QED
    OBVIOUS
<1>10. r = 0 <=> again = <<>>
  OBVIOUS
<1> HIDE DEF left, whole, k, more, new, glue, m, r, l
(* The commands left are those whose lines are left, if they are on one.   *)
<1>11. UpTo(cs, k) => k = whole
  <2>1. ASSUME UpTo(cs, k), k = l PROVE k = whole
    <3>1. m = l
      BY <2>1 DEF EndsHold, l, m
    <3>2. QED
      BY <1>2, <1>5, <1>8, <2>1, <3>1
  <2>2. QED
    BY <1>5, <2>1
<1>12. ASSUME NEW n \in 1 .. k + r, UpTo(more, n)
       PROVE  n <= whole + r /\ (n \notin glue => FileLines(new)[n] = Body(more[n]))
  <2>1. CASE n <= k
    <3>1. n \in 1 .. k /\ n \in 1 .. l /\ n \in 1 .. whole /\ n <= whole + r
      BY <1>2, <1>5, <2>1
    <3>2. \A i \in 1 .. n : i \in 1 .. k
      BY <1>5, <3>1
    <3>3. UpTo(cs, n)
      BY <1>7, <1>12, <3>2 DEF UpTo
    <3>4. n \notin g => FileLines(f)[n] = Body(cs[n])
      BY <3>1, <3>3 DEF LinesHold, l
    <3>5. n \notin glue => n \notin g
      BY <1>9, <3>1
    <3>6. QED
      BY <1>7, <1>8, <3>1, <3>4, <3>5
  <2>2. CASE n > k
    <3>1. \A i \in 1 .. k : i \in 1 .. n
      BY <1>5, <2>2
    <3>2. UpTo(cs, k)
      BY <1>7, <1>12, <3>1 DEF UpTo
    <3>3. k = whole
      BY <1>11, <3>2
    <3> DEFINE i == n - k
    <3>4. i \in 1 .. r /\ n = whole + i /\ n = k + i /\ n <= whole + r /\ (i > 1 \/ n = whole + 1)
      BY <1>2, <1>5, <2>2, <3>3
    <3> HIDE DEF i
    <3>5. n \notin glue => i > 1 \/ ~Unended(left)
      BY <1>9, <3>4
    <3>6. QED
      BY <1>6, <1>7, <3>4, <3>5
  <2>3. QED
    BY <1>2, <1>5, <2>1, <2>2
<1>13. LinesHold(more, new, glue)
  BY <1>6, <1>7, <1>12 DEF LinesHold
<1>14. EndsHold(more, new, glue)
  <2>1. ASSUME UpTo(more, k + r) PROVE k = whole
    <3>1. \A i \in 1 .. k : i \in 1 .. k + r
      BY <1>2, <1>5
    <3>2. UpTo(cs, k)
      BY <1>7, <2>1, <3>1 DEF UpTo
    <3>3. QED
      BY <1>11, <3>2
  <2>2. ASSUME k = whole, Unended(new) PROVE (k + r) + 1 \in glue
    <3>1. r = 0 /\ Unended(left)
      BY <1>6, <1>10, <2>2
    <3>2. (k + r) + 1 = whole + 1
      BY <1>2, <1>5, <2>2, <3>1
    <3>3. QED
      BY <1>9, <3>1, <3>2
  <2>3. QED
    BY <1>6, <1>7, <2>1, <2>2 DEF EndsHold
<1>15. QED
  BY <1>7, <1>13, <1>14 DEF more, new, glue, k, whole, left, l

LEMMA RewrittenTyped ==
  ASSUME NEW cs \in Seq(Commanded(Clean))
  PROVE  Rewritten(cs) \in Seq(Clean)
<1> DEFINE T == Seq(Clean)
           each == [n \in DOMAIN cs |-> Serialise(cs[n])]
<1>1. Len(cs) \in Nat /\ DOMAIN cs = 1 .. Len(cs) /\ \A n \in 1 .. Len(cs) : cs[n] \in Commanded(Clean)
  OBVIOUS
<1>2. \A n \in 1 .. Len(cs) : Serialise(cs[n]) \in T
  BY <1>1, CleanBytes, CommandBytes
<1> HIDE DEF T
<1>3. each = [n \in 1 .. Len(cs) |-> Serialise(cs[n])]
  BY <1>1
<1> HIDE DEF each
<1>4. each \in [1 .. Len(cs) -> T]
  BY <1>2, <1>3
<1>5. each \in Seq(T)
  BY <1>1, <1>4
<1>6. FlattenSeq(each) \in Seq(Clean)
  BY <1>5, FlattenTyped DEF T
<1>7. QED
  BY <1>6 DEF Rewritten, each

LEMMA TextInvInit == TextInit => TextInv
<1> SUFFICES ASSUME TextInit PROVE TextInv
  OBVIOUS
<1>1. /\ line \in Seq(Byte) /\ commands \in Seq(Commanded(Clean)) /\ file \in Seq(Clean)
      /\ commands = <<>> /\ file = <<>> /\ glued = {}
  BY DEF TextInit
<1>2. Len(commands) = 0 /\ 1 .. 0 = {}
  BY <1>1
<1>3. LinesHold(commands, file, glued)
  BY <1>2 DEF LinesHold
<1>4. Cardinality(Ends(<<>>)) = 0
  <2>1. Cardinality({}) = 0
    BY FS_EmptySet
  <2>2. QED
    BY <2>1, NoLines
<1>5. EndsHold(commands, file, glued)
  BY <1>1, <1>2, <1>4, NoLines DEF EndsHold
<1>6. QED
  BY <1>1, <1>3, <1>5 DEF TextInv

LEMMA TextInvSend == TextInv /\ Send => TextInv'
<1> SUFFICES ASSUME TextInv, Send PROVE TextInv'
  OBVIOUS
<1> DEFINE args == Tokenize(line).tokens
<1>1. /\ line \in Seq(Byte) /\ commands \in Seq(Commanded(Clean)) /\ file \in Seq(Clean)
      /\ LinesHold(commands, file, glued) /\ EndsHold(commands, file, glued)
  BY DEF TextInv
<1>2. /\ Accepted(Tokenize(line))
      /\ commands' = Append(commands, args) /\ file' = file \o Serialise(args)
      /\ line' = <<>> /\ glued' = glued
  BY DEF Send
<1>3. args \in Commanded(Clean)
  <2>1. Byte \subseteq Octet
    BY TextAssumption DEF Octet
  <2>2. line \in Seq(Octet)
    BY <1>1, <2>1, SeqWider
  <2>3. QED
    BY <1>2, <2>2, CleanBytes, SentIsCommand
<1> HIDE DEF args
<1>4. Serialise(args) \in Seq(Clean)
  BY <1>3, CleanBytes, CommandBytes
<1>5. line' \in Seq(Byte) /\ commands' \in Seq(Commanded(Clean)) /\ file' \in Seq(Clean)
  BY <1>1, <1>2, <1>3, <1>4, AppendProperties, ConcatProperties
<1>6. LinesHold(commands, file, glued)' /\ EndsHold(commands, file, glued)'
  <2>1. /\ LinesHold(Append(commands, args), file \o Serialise(args), glued)
        /\ EndsHold(Append(commands, args), file \o Serialise(args), glued)
    BY <1>1, <1>3, SendKeepsLines
  <2>2. LinesHold(commands', file', glued') /\ EndsHold(commands', file', glued')
    BY <1>2, <2>1
  <2>3. QED
    BY <2>2 DEF LinesHold, EndsHold, UpTo
<1>7. QED
  BY <1>5, <1>6 DEF TextInv

LEMMA TextInvCrash == TextInv /\ CrashAndRestart => TextInv'
<1> SUFFICES ASSUME TextInv, CrashAndRestart PROVE TextInv'
  OBVIOUS
<1>1. /\ commands \in Seq(Commanded(Clean)) /\ file \in Seq(Clean)
      /\ LinesHold(commands, file, glued) /\ EndsHold(commands, file, glued)
  BY DEF TextInv
<1>2. PICK size \in 0 .. Len(file) :
        LET left  == SubSeq(file, 1, size)
            whole == Cardinality(Ends(left))
        IN  /\ file' = left \o Rewritten(ReadAgain(left))
            /\ commands' = SubSeq(commands, 1, Min({whole, Len(commands)})) \o ReadAgain(left)
            /\ glued' = {n \in glued : n <= whole} \cup (IF Unended(left) THEN {whole + 1} ELSE {})
  BY DEF CrashAndRestart
<1> DEFINE left  == SubSeq(file, 1, size)
           again == ReadAgain(left)
<1>3. line' = <<>>
  BY DEF CrashAndRestart
<1>4. left \in Seq(Octet) /\ left \in Seq(Clean)
  <2>1. file \in Seq(Octet)
    BY <1>1, CleanBytes, SeqWider
  <2>2. left \in Seq(Octet)
    BY <2>1, BeginningOfText
  <2>3. left \in Seq(Clean)
    BY <1>1
  <2>4. QED
    BY <2>2, <2>3
<1>5. again \in Seq(Commanded(Clean \ {Newline})) /\ again \in Seq(Commanded(Clean))
  <2> HIDE DEF left
  <2>1. again \in Seq(Commanded(Clean \ {Newline}))
    BY <1>4, ReadAgainCommands
  <2>2. Commanded(Clean \ {Newline}) \subseteq Commanded(Clean)
    <3>1. Word(Clean \ {Newline}) \subseteq Word(Clean)
      BY SeqWider DEF Word
    <3>2. QED
      BY <3>1, SeqWider DEF Commanded
  <2>3. QED
    BY <2>1, <2>2, SeqWider
<1>6. file' \in Seq(Clean)
  <2> HIDE DEF left, again
  <2>1. Rewritten(again) \in Seq(Clean)
    BY <1>5, RewrittenTyped
  <2>2. file' = left \o Rewritten(again)
    BY <1>2 DEF left, again
  <2>3. QED
    BY <1>4, <2>1, <2>2, ConcatProperties
<1> HIDE DEF again
<1>7. /\ commands' \in Seq(Commanded(Clean))
      /\ LinesHold(commands', file', glued') /\ EndsHold(commands', file', glued')
  BY <1>1, <1>2, <1>5, CrashKeepsLines DEF again
<1>8. LinesHold(commands, file, glued)' /\ EndsHold(commands, file, glued)'
  BY <1>7 DEF LinesHold, EndsHold, UpTo
<1>9. line' \in Seq(Byte)
  BY <1>3
<1>10. QED
  BY <1>6, <1>7, <1>8, <1>9 DEF TextInv

LEMMA TextInvNext == TextInv /\ [TextNext]_textVars => TextInv'
<1> SUFFICES ASSUME TextInv, [TextNext]_textVars PROVE TextInv'
  OBVIOUS
<1>1. ASSUME line' \in Seq(Byte), UNCHANGED <<commands, file, glued>> PROVE TextInv'
  BY <1>1 DEF TextInv, LinesHold, EndsHold, UpTo
<1>2. ASSUME NEW b \in Byte, TypeByte(b) PROVE TextInv'
  <2>1. line' = Append(line, b) /\ UNCHANGED <<commands, file, glued>> /\ line \in Seq(Byte)
    BY <1>2 DEF TypeByte, TextInv
  <2>2. QED
    BY <1>1, <2>1, AppendProperties
<1>3. CASE Send
  BY <1>3, TextInvSend
<1>4. CASE Refuse
  <2>1. line' = <<>> /\ UNCHANGED <<commands, file, glued>>
    BY <1>4 DEF Refuse
  <2>2. line' \in Seq(Byte)
    BY <2>1
  <2>3. QED
    BY <1>1, <2>1, <2>2
<1>5. CASE CrashAndRestart
  BY <1>5, TextInvCrash
<1>6. CASE UNCHANGED textVars
  BY <1>1, <1>6 DEF textVars, TextInv
<1>7. QED
  BY <1>2, <1>3, <1>4, <1>5, <1>6 DEF TextNext

-----------------------------------------------------------------------------
(* Damage stays in its line.                                               *)

LEMMA PlainWords ==
  ASSUME NEW args \in Commanded(Clean), IsPlain(args)
  PROVE  args \in Seq(Word(PlainByte)) /\ Len(args) >= MinArgs
<1> DEFINE n == Len(args)
           T == Word(PlainByte)
<1>1. args \in Seq(Word(Clean)) /\ n >= MinArgs /\ n \in Nat /\ DOMAIN args = 1 .. n
  BY DEF Commanded
<1>2. ASSUME NEW i \in 1 .. n PROVE args[i] \in T
  <2> DEFINE w == args[i]
  <2>1. w \in Seq(Clean) /\ w # <<>>
    BY <1>1 DEF Word
  <2>2. Len(w) \in Nat /\ DOMAIN w = 1 .. Len(w) /\ w = [j \in 1 .. Len(w) |-> w[j]]
    BY <2>1
  <2>3. \A j \in 1 .. Len(w) : w[j] < 128 /\ ~IsSpace(w[j])
    BY <1>1, <2>2 DEF IsPlain
  <2> HIDE DEF w
  <2>4. \A j \in 1 .. Len(w) : w[j] \in Clean
    BY <2>1
  <2>5. \A j \in 1 .. Len(w) : w[j] \in PlainByte
    BY <2>3, <2>4 DEF PlainByte, Clean
  <2>6. w \in Seq(PlainByte)
    BY <2>2, <2>5
  <2>7. w \in T
    BY <2>1, <2>6 DEF Word
  <2>8. QED
    BY <2>7 DEF w
<1>3. args = [i \in 1 .. n |-> args[i]]
  BY <1>1
<1> HIDE DEF T, n
<1>4. args \in Seq(T)
  BY <1>1, <1>2, <1>3
<1>5. QED
  BY <1>1, <1>4 DEF T, n

(* A line is scanned, or is not before one that is too long.               *)
LEMMA ScannedOrTooLong ==
  ASSUME NEW text \in Seq(Octet), NEW n \in 1 .. Len(FileLines(text))
  PROVE  n \in DOMAIN Scanned(text) \/ \E m \in 1 .. n : Len(FileLines(text)[m]) >= MaxScan
<1> DEFINE lines == FileLines(text)
           T == Seq(Octet \ {Newline})
           all == Len(lines)
<1>1. lines \in Seq(T)
  BY LinesTyped
<1>2. PICK k \in 0 .. all :
        /\ Scanned(text) = SubSeq(lines, 1, k)
        /\ \A m \in 0 .. all : Fitting(lines, m) => m <= k
  BY <1>1, ScannedIs
<1> HIDE DEF lines
<1>3. all \in Nat /\ n \in 1 .. all /\ \A m \in 1 .. all : lines[m] \in T
  BY <1>1 DEF lines
<1>4. MaxScan \in Nat
  BY TextAssumption
<1>5. \A m \in 1 .. all : Len(lines[m]) \in Nat
  <2>1. \A l \in T : Len(l) \in Nat
    OBVIOUS
  <2> HIDE DEF T
  <2>2. QED
    BY <1>3, <2>1
<1>6. CASE n <= k
  <2>1. DOMAIN SubSeq(lines, 1, k) = 1 .. k
    <3> HIDE DEF T
    <3>1. k <= Len(lines) /\ k \in Nat
      BY <1>2, <1>3
    <3>2. QED
      BY <1>1, <3>1
  <2>2. n \in 1 .. k
    BY <1>3, <1>6
  <2>3. QED
    BY <1>2, <2>1, <2>2
<1>7. CASE n > k
  <2>1. n \in 0 .. all /\ k \in Nat /\ n \in Nat
    BY <1>3
  <2> HIDE DEF T, all
  <2>2. ~Fitting(lines, n)
    BY <1>2, <1>7, <2>1
  <2>3. PICK m \in 1 .. n : ~(Len(lines[m]) < MaxScan)
    BY <2>2 DEF Fitting
  <2>4. m \in 1 .. all
    BY <1>3, <2>3
  <2>5. Len(lines[m]) >= MaxScan
    BY <1>4, <1>5, <2>3, <2>4
  <2>6. QED
    BY <2>5 DEF lines
<1>8. QED
  BY <1>2, <1>3, <1>6, <1>7

(* Commands of one line each that come back changed or not at all, through *)
(* any number of crashes in the middle of a line, leave the plain ones     *)
(* where they are in the file of aof.go, and a restart reads these as they *)
(* were.                                                                   *)
THEOREM DamageIsConfined == TextSpec => []DamageStaysInItsLine
<1>1. TextInv => DamageStaysInItsLine
  <2> SUFFICES ASSUME TextInv, \A n \in DOMAIN commands : OneLine(commands[n]),
                      NEW n \in DOMAIN commands, IsPlain(commands[n]), n \notin glued
               PROVE  /\ n \in DOMAIN FileLines(file)
                      /\ Reread(FileLines(file)[n]) = <<commands[n]>>
                      /\ \/ n \in DOMAIN Scanned(file)
                         \/ \E m \in 1 .. n : Len(FileLines(file)[m]) >= MaxScan
    BY DEF DamageStaysInItsLine
  <2>1. commands \in Seq(Commanded(Clean)) /\ file \in Seq(Clean) /\ LinesHold(commands, file, glued)
    BY DEF TextInv
  <2>2. DOMAIN commands = 1 .. Len(commands) /\ Len(commands) \in Nat /\ n \in 1 .. Len(commands)
        /\ commands[n] \in Commanded(Clean)
    BY <2>1
  <2>3. UpTo(commands, n)
    BY <2>2 DEF UpTo
  <2>4. n <= Cardinality(Ends(file)) /\ FileLines(file)[n] = Body(commands[n])
    BY <2>2, <2>3, <2>1 DEF LinesHold
  <2>5. file \in Seq(Octet)
    BY <2>1, CleanBytes, SeqWider
  <2>6. /\ FileLines(file) \in Seq(Seq(Octet \ {Newline}))
        /\ Cardinality(Ends(file)) \in Nat /\ Cardinality(Ends(file)) <= Len(FileLines(file))
    BY <2>5, LinesTyped
  <2>7. Len(FileLines(file)) \in Nat /\ DOMAIN FileLines(file) = 1 .. Len(FileLines(file))
    BY <2>6
  <2>8. n \in 1 .. Len(FileLines(file))
    BY <2>2, <2>4, <2>6, <2>7
  <2>9. Reread(FileLines(file)[n]) = <<commands[n]>>
    BY <2>2, <2>4, PlainWords, PlainIsReread
  <2>10. QED
    BY <2>5, <2>7, <2>8, <2>9, ScannedOrTooLong
<1>2. QED
  BY <1>1, TextInvInit, TextInvNext, PTL DEF TextSpec

-----------------------------------------------------------------------------
(* One restart settles.                                                    *)

AddsToSpaced(word, args) ==
  Len(Spaced(<<word>> \o args)) = (1 + Len(word)) + Len(Spaced(args))

LEMMA SpacedHead ==
  ASSUME NEW word \in Seq(Octet), NEW args \in Seq(Seq(Octet))
  PROVE  /\ Len(Spaced(args)) \in Nat
         /\ Len(Spaced(<<word>> \o args)) = (1 + Len(word)) + Len(Spaced(args))
<1> DEFINE A == Seq(Octet)
           N == {n \in Nat : \A s \in Seq(A) : Len(s) = n => AddsToSpaced(word, s)}
<1>1. /\ <<word>> \in Seq(A) /\ <<>> \in Seq(A) /\ Len(word) \in Nat
      /\ \A s \in Seq(A) : Len(Spaced(s)) \in Nat
  <2>1. <<word>> \in Seq(A) /\ <<>> \in Seq(A) /\ Len(word) \in Nat
    OBVIOUS
  <2>2. QED
    BY <2>1, SpacedOctets
<1>2. 0 \in N
  <2>1. \A s \in Seq(A) : Len(s) = 0 => s = <<>>
    OBVIOUS
  <2>2. <<word>> \o <<>> = <<word>> /\ Append(<<>>, word) = <<word>>
    BY <1>1, ConcatEmptySeq
  <2>3. Len(Spaced(Append(<<>>, word))) = Len(Spaced(<<>>)) + 1 + Len(word)
    BY <1>1, SpacedOctets
  <2>4. Len(Spaced(<<>>)) = 0
    BY SpacedEmpty
  <2>5. Len(Spaced(<<word>> \o <<>>)) = (1 + Len(word)) + Len(Spaced(<<>>))
    BY <1>1, <2>2, <2>3, <2>4
  <2>6. QED
    BY <2>1, <2>5 DEF AddsToSpaced
<1>3. ASSUME NEW n \in N PROVE n + 1 \in N
  <2> SUFFICES ASSUME NEW s \in Seq(A), Len(s) = n + 1 PROVE AddsToSpaced(word, s)
    OBVIOUS
  <2>1. n \in Nat
    OBVIOUS
  <2> DEFINE front == SubSeq(s, 1, n)
             w == s[n + 1]
  <2> HIDE DEF A
  <2>2. front \in Seq(A) /\ Len(front) = n /\ w \in A /\ s = Append(front, w)
    BY <2>1, FrontAndLast
  <2>3. Len(Spaced(<<word>> \o front)) = (1 + Len(word)) + Len(Spaced(front))
    BY <2>2 DEF AddsToSpaced
  <2> HIDE DEF front, w, N
  <2>4. <<word>> \o Append(front, w) = Append(<<word>> \o front, w) /\ <<word>> \o front \in Seq(A)
    BY <1>1, <2>2, ConcatAppend, ConcatProperties
  <2>5. /\ Len(Spaced(Append(<<word>> \o front, w))) = Len(Spaced(<<word>> \o front)) + 1 + Len(w)
        /\ Len(Spaced(Append(front, w))) = Len(Spaced(front)) + 1 + Len(w)
    BY <2>2, <2>4, SpacedOctets DEF A
  <2>6. Len(Spaced(front)) \in Nat /\ Len(w) \in Nat
    BY <1>1, <2>2 DEF A
  <2> DEFINE a == Len(Spaced(front))
             b == Len(w)
             c == Len(word)
             d == Len(Spaced(<<word>> \o front))
  <2>7. a \in Nat /\ b \in Nat /\ c \in Nat /\ d = (1 + c) + a
    BY <1>1, <2>3, <2>6
  <2> HIDE DEF a, b, c, d
  <2>8. d + 1 + b = (1 + c) + (a + 1 + b)
    BY <2>7
  <2>9. Len(Spaced(Append(<<word>> \o front, w))) = (1 + c) + Len(Spaced(Append(front, w)))
    BY <2>5, <2>8 DEF a, b, d
  <2>10. Len(Spaced(<<word>> \o s)) = (1 + c) + Len(Spaced(s))
    BY <2>2, <2>4, <2>9
  <2>11. QED
    BY <2>10 DEF AddsToSpaced, c
<1>4. Len(args) \in N
  <2>1. N \in SUBSET Nat /\ Len(args) \in Nat
    OBVIOUS
  <2> HIDE DEF N
  <2>2. QED
    BY <1>2, <1>3, <2>1, NatSets
<1>5. QED
  BY <1>1, <1>4 DEF AddsToSpaced

(* Commands that are read back, from lines the scanner has room for.       *)
Settled ==
  {args \in Seq(Word(PlainByte)) : Len(args) >= MinArgs /\ Len(Body(args)) < MaxScan}

LEMMA RereadIsSettled ==
  ASSUME NEW text \in Seq({b \in Letter : b < 128 /\ b # Quote}), Len(text) < MaxScan
  PROVE  Reread(text) \in Seq(Settled)
<1> DEFINE S == {b \in Letter : b < 128 /\ b # Quote}
           parsed == Tokenize(text)
           tokens == parsed.tokens
           args == Tail(tokens)
<1>1. Keeps(S, PlainByte) /\ S \subseteq Below128
  <2>1. S \subseteq Octet /\ PlainByte \subseteq Octet /\ Quote \notin S /\ S \subseteq Below128
    BY DEF Letter, PlainByte, Below128
  <2>2. ASSUME NEW b \in S, ~IsSpace(b) PROVE WriteRune(b) \in Seq(PlainByte)
    <3>1. b \in Octet /\ b < 128 /\ b # Quote
      BY DEF Letter
    <3>2. b \in PlainByte /\ WriteRune(b) = <<b>>
      BY <2>2, <3>1, RuneIs DEF PlainByte
    <3>3. QED
      BY <3>2
  <2> HIDE DEF S
  <2>3. QED
    BY <2>1, <2>2 DEF Keeps
<1>2. tokens \in Seq(Word(PlainByte))
  <2> HIDE DEF S
  <2>1. text \in Seq(S)
    BY DEF S
  <2>2. QED
    BY <1>1, <2>1, TokensTyped
<1>3. Len(Spaced(tokens)) <= Len(text) + 1 /\ Len(text) \in Nat
  <2> HIDE DEF S
  <2>1. text \in Seq(S)
    BY DEF S
  <2>2. text \in Seq(Below128)
    BY <1>1, <2>1, SeqWider
  <2>3. QED
    BY <2>2, TokensFit
<1>4. MinArgs \in Nat /\ MaxScan \in Nat
  BY TextAssumption
<1> HIDE DEF parsed
<1>5. CASE parsed.ok /\ tokens # <<>> /\ tokens[1] = Name /\ Len(tokens) > MinArgs
  <2>1. args \in Seq(Word(PlainByte)) /\ Len(args) = Len(tokens) - 1
        /\ \A i \in 1 .. Len(args) : args[i] = tokens[i + 1]
    BY <1>2, <1>5, HeadTailProperties
  <2>2. Len(tokens) \in Nat
    BY <1>2
  <2>3. Len(args) >= MinArgs
    BY <1>4, <1>5, <2>1, <2>2
  <2>4. PlainByte \subseteq Octet /\ Word(PlainByte) \subseteq Seq(Octet)
    <3>1. PlainByte \subseteq Octet
      BY DEF PlainByte
    <3>2. QED
      BY <3>1, SeqWider DEF Word
  <2>5. args \in Seq(Seq(Octet)) /\ Name \in Seq(Octet) /\ Len(Name) = 1
    BY <2>1, <2>4, SeqWider, NameByte DEF Name
  <2>6. tokens = <<Name>> \o args
    BY <1>2, <1>5, HeadAndTail
  <2>7. Len(Spaced(args)) \in Nat /\ Len(Spaced(tokens)) = (1 + 1) + Len(Spaced(args))
    BY <2>5, <2>6, SpacedHead
  <2>8. Len(Body(args)) = Len(Spaced(args)) + 1
    BY <2>5, LetterBytes, BodyTyped
  <2> DEFINE s == Len(Spaced(args))
             t == Len(Spaced(tokens))
             n == Len(text)
  <2>9. s \in Nat /\ n \in Nat /\ t = (1 + 1) + s /\ t <= n + 1 /\ n < MaxScan
    BY <1>3, <2>7
  <2> HIDE DEF s, t, n
  <2>10. s + 1 < MaxScan
    BY <1>4, <2>9
  <2>11. args \in Settled
    BY <2>1, <2>3, <2>8, <2>10 DEF Settled, s
  <2>12. Reread(text) = <<args>>
    BY <1>5 DEF Reread, parsed
  <2>13. QED
    BY <2>11, <2>12
<1>6. CASE ~(parsed.ok /\ tokens # <<>> /\ tokens[1] = Name /\ Len(tokens) > MinArgs)
  <2>1. Reread(text) = <<>>
    BY <1>6 DEF Reread, parsed
  <2>2. QED
    BY <2>1
<1>7. QED
  BY <1>5, <1>6

(* What is written of settled commands is read back as it is.              *)
LEMMA SettledIsReread ==
  ASSUME NEW cs \in Seq(Settled)
  PROVE  ReadAgain(Rewritten(cs)) = cs
<1> DEFINE text == Rewritten(cs)
           lines == FileLines(text)
           r == Len(cs)
           all == Scanned(text)
<1>1. r \in Nat /\ DOMAIN cs = 1 .. r /\ \A i \in 1 .. r : cs[i] \in Settled
  OBVIOUS
<1>2. Settled \subseteq Seq(Seq(Letter))
  <2>1. PlainByte \subseteq Letter
    BY DEF PlainByte, Letter, IsSpace, Newline
  <2>2. Word(PlainByte) \subseteq Seq(Letter)
    BY <2>1, SeqWider DEF Word
  <2>3. QED
    BY <2>2, SeqWider DEF Settled
<1>3. <<>> \in Seq(Octet) /\ ~Unended(<<>>) /\ Cardinality(Ends(<<>>)) = 0
  <2>1. Cardinality({}) = 0
    BY FS_EmptySet
  <2>2. <<>> \in Seq(Octet)
    OBVIOUS
  <2>3. QED
    BY <2>1, <2>2, NoLines
<1>4. HasLines(<<>>, cs) /\ text \in Seq(Octet)
  <2>1. cs \in Seq(Seq(Seq(Letter)))
    BY <1>2, SeqWider
  <2>2. Rewritten(cs) \in Seq(Octet)
    <3>1. <<>> \in Seq(Seq(Letter))
      OBVIOUS
    <3>2. QED
      BY <2>1, <3>1, RewrittenAppend
  <2>3. QED
    BY <1>3, <2>1, <2>2, CommandsWritten
<1>5. <<>> \o text = text
  BY <1>4, ConcatEmptySeq
<1> HIDE DEF text, r
<1>6. /\ Cardinality(Ends(text)) = r /\ ~Unended(text)
      /\ \A i \in 1 .. r : lines[i] = Body(cs[i])
  <2>1. \A i \in 1 .. r : 0 + i = i
    BY <1>1
  <2>2. 0 + r = r
    BY <1>1
  <2>3. QED
    BY <1>3, <1>4, <1>5, <2>1, <2>2 DEF HasLines, text, r
<1>7. lines \in Seq(Seq(Letter)) /\ Len(lines) = r
  <2>1. lines \in Seq(Seq(Letter))
    BY <1>4, LinesTyped DEF Letter
  <2>2. PICK a, rest : Splits(text, a, rest, Octet)
    BY <1>4, TextSplits
  <2>3. lines = LinesOf(FileLines(a), rest) /\ Len(FileLines(a)) = Cardinality(Ends(text)) /\ rest = <<>>
    BY <1>6, <2>2, SplitLines
  <2>4. QED
    BY <1>6, <2>1, <2>3 DEF LinesOf
<1> HIDE DEF lines
<1>8. PICK k \in 0 .. r :
        all = SubSeq(lines, 1, k) /\ \A m \in 0 .. r : Fitting(lines, m) => m <= k
  BY <1>7, ScannedIs DEF lines
<1>9. Fitting(lines, r)
  BY <1>1, <1>6 DEF Fitting, Settled
<1>10. k = r
  <2>1. r \in 0 .. r /\ k \in Nat /\ k <= r
    BY <1>1
  <2>2. r <= k
    BY <1>8, <1>9, <2>1
  <2>3. QED
    BY <1>1, <2>1, <2>2
<1>11. DOMAIN all = 1 .. r /\ \A i \in 1 .. r : all[i] = lines[i]
  <2> DEFINE T == Seq(Letter)
  <2>1. lines \in Seq(T)
    BY <1>7
  <2> HIDE DEF T
  <2>2. QED
    BY <1>1, <1>7, <1>8, <1>10, <2>1
<1> HIDE DEF all
<1>12. ASSUME NEW i \in 1 .. r PROVE Reread(all[i]) = <<cs[i]>>
  <2>1. all[i] = Body(cs[i])
    BY <1>6, <1>11
  <2>2. cs[i] \in Seq(Word(PlainByte)) /\ Len(cs[i]) >= MinArgs
    BY <1>1 DEF Settled
  <2>3. QED
    BY <2>1, <2>2, PlainIsReread
<1>13. [i \in DOMAIN all |-> Reread(all[i])] = [i \in DOMAIN cs |-> <<cs[i]>>]
  BY <1>1, <1>11, <1>12
<1>14. FlattenSeq([i \in DOMAIN cs |-> <<cs[i]>>]) = cs
  BY FlattenSingles
<1>15. QED
  BY <1>13, <1>14 DEF ReadAgain, all, text

(* Commands of bytes below 128 that one restart has read back, changed as  *)
(* they may be, the next reads back as they are, in any file the server    *)
(* can have written.                                                       *)
THEOREM RestartSettles == TextSpec => []OneRestartSettles
<1>1. TextInv => OneRestartSettles
  <2> SUFFICES ASSUME TextInv, \A i \in DOMAIN file : file[i] < 128
               PROVE  ReadAgain(Rewritten(ReadAgain(file))) = ReadAgain(file)
    BY DEF OneRestartSettles
  <2> DEFINE S == {b \in Octet : b < 128 /\ b # Quote}
             T == {b \in Letter : b < 128 /\ b # Quote}
  <2>1. S \subseteq Octet /\ S \ {Newline} = T
    BY DEF Letter
  <2>2. file \in Seq(S)
    <3>1. file \in Seq(Clean)
      BY DEF TextInv
    <3>2. Len(file) \in Nat /\ file = [i \in 1 .. Len(file) |-> file[i]]
          /\ \A i \in 1 .. Len(file) : file[i] \in Clean /\ file[i] < 128
      BY <3>1
    <3>3. \A i \in 1 .. Len(file) : file[i] \in S
      BY <3>2 DEF Clean
    <3> HIDE DEF S
    <3>4. QED
      BY <3>2, <3>3
  <2> HIDE DEF S
  <2>3. FileLines(file) \in Seq(Seq(T))
    BY <2>1, <2>2, LinesTyped
  <2>4. \A l \in Seq(T) : Len(l) < MaxScan => Reread(l) \in Seq(Settled)
    BY RereadIsSettled
  <2> HIDE DEF T
  <2>5. ReadAgain(file) \in Seq(Settled)
    BY <2>3, <2>4, ReadAgainTyped
  <2>6. QED
    BY <2>5, SettledIsReread
<1>2. QED
  BY <1>1, TextInvInit, TextInvNext, PTL DEF TextSpec

=============================================================================
