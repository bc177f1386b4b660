------------------------------- MODULE Stream -------------------------------
(***************************************************************************)
(* Streams: lib/intersys/bindings/stream.rb.  The position is kept by the  *)
(* server, one for everybody who holds the stream; read_all moves it block *)
(* by block, and write writes where it stands.  A step is one call to the  *)
(* server.  A character is the place it was at first; one written by the   *)
(* program is minus the place it was written to.                           *)
(***************************************************************************)
EXTENDS Integers, Sequences, FiniteSets, SequencesExt

CONSTANTS
  BLOCK_SIZE,    \* characters per read
  MaxContent,    \* bound on the size of the stream
  MaxDisturbed   \* bound on what others do to the stream

ASSUME BlockAssumption ==
  BLOCK_SIZE \in Nat \ {0} /\ MaxContent \in Nat /\ MaxDisturbed \in Nat

VARIABLES
  content,    \* what the stream holds
  position,   \* where the server stands: characters before it
  reader,     \* read_all in progress
  got,        \* result, as far as it has been read
  outcome,    \* how the last operation of the program ended
  cuts,       \* the blocks of which a read gave a part only
  disturbed   \* what others did to the position or the content so far

streamVars == <<content, position, reader, got, outcome, cuts, disturbed>>

NotReading == [pc |-> "idle", size |-> 0, left |-> 0, next |-> 0]

StreamTypeOK ==
  /\ content \in Seq(Int) /\ Len(content) <= MaxContent
  /\ position \in 0..Len(content)
  /\ reader \in [pc: {"idle", "rewind", "read", "move"}, size: Nat, left: Nat, next: Nat]
  /\ got \in Seq(Int)
  /\ outcome \in {"nothing", "read_all", "nil", "raised", "write", "moved"}
  /\ cuts \in SUBSET Nat /\ disturbed \in 0..MaxDisturbed

StreamInit ==
  /\ \E n \in 0..MaxContent : content = [i \in 1..n |-> i]
  /\ position \in 0..Len(content)   \* where an earlier owner left it
  /\ reader = NotReading /\ got = <<>> /\ outcome = "nothing" /\ cuts = {} /\ disturbed = 0

-----------------------------------------------------------------------------
(* read_all.                                                               *)

\* size; an empty stream is answered with nil, and not moved.
BeginReadAll ==
  LET size == Len(content) IN
  /\ reader = NotReading
  /\ IF size = 0
       THEN outcome' = "nil" /\ UNCHANGED reader
       ELSE reader' = [pc |-> "rewind", size |-> size, left |-> size, next |-> 0] /\ outcome' = "nothing"
  /\ got' = <<>> /\ cuts' = {} /\ disturbed' = 0
  /\ UNCHANGED <<content, position>>

RewindFirst ==
  /\ reader.pc = "rewind"
  /\ reader' = [reader EXCEPT !.pc = "read"] /\ position' = 0
  /\ UNCHANGED <<content, got, outcome, cuts, disturbed>>

ToRead == IF reader.left > BLOCK_SIZE THEN BLOCK_SIZE ELSE reader.left

\* Slip: the reader moves by what it got.
ReadBlockRelative ==
  /\ reader.pc = "read"
  /\ \E n \in 1..ToRead :
       /\ position + n <= Len(content)
       /\ got' = got \o SubSeq(content, position + 1, position + n)
       /\ position' = position + n
       /\ cuts' = IF n < ToRead THEN cuts \cup {reader.next} ELSE cuts
       /\ reader' = [reader EXCEPT !.pc = "move", !.left = @ - ToRead, !.next = @ + n]
  /\ UNCHANGED <<content, outcome, disturbed>>

\* The server answers as much as it was asked for, or less; both counters go by
\* what was asked.
ReadBlock ==
  /\ reader.pc = "read"
  /\ \E n \in 1..ToRead :
       /\ position + n <= Len(content)
       /\ got' = got \o SubSeq(content, position + 1, position + n)
       /\ position' = position + n
       /\ cuts' = IF n < ToRead THEN cuts \cup {reader.next} ELSE cuts
       /\ reader' = [reader EXCEPT !.pc = "move", !.left = @ - ToRead, !.next = @ + ToRead]
  /\ UNCHANGED <<content, outcome, disturbed>>

\* move_to(position), and around the loop while there is something left.
MoveOn ==
  /\ reader.pc = "move" /\ reader.next <= Len(content)
  /\ position' = reader.next
  /\ IF reader.left > 0
       THEN reader' = [reader EXCEPT !.pc = "read"] /\ UNCHANGED outcome
       ELSE reader' = NotReading /\ outcome' = "read_all"
  /\ UNCHANGED <<content, got, cuts, disturbed>>

\* A call raises, or nothing was read and nil cannot be appended to a string: the
\* stream stays where it is.
ReadAllRaises ==
  /\ reader # NotReading
  /\ reader' = NotReading /\ outcome' = "raised"
  /\ UNCHANGED <<content, position, got, cuts, disturbed>>

-----------------------------------------------------------------------------
(* The other operations.                                                   *)

\* rewind, move_to, move_to_end and read.
Moves ==
  /\ reader = NotReading
  /\ position' \in 0..Len(content) /\ outcome' = "moved"
  /\ UNCHANGED <<content, reader, got, cuts, disturbed>>

\* The server writes over what follows the position and beyond it.
Write ==
  /\ reader = NotReading /\ position < MaxContent
  /\ content' = SubSeq(content, 1, position) \o <<-(position + 1)>>
                 \o SubSeq(content, position + 2, Len(content))
  /\ position' = position + 1 /\ outcome' = "write"
  /\ UNCHANGED <<reader, got, cuts, disturbed>>

\* Somebody else who holds the stream moves it, or appends to it.
OthersMove ==
  /\ disturbed < MaxDisturbed /\ disturbed' = disturbed + 1
  /\ position' \in 0..Len(content)
  /\ UNCHANGED <<content, reader, got, outcome, cuts>>

OthersAppend ==
  /\ disturbed < MaxDisturbed /\ disturbed' = disturbed + 1
  /\ Len(content) < MaxContent
  /\ content' = Append(content, Len(content) + 1) /\ position' = Len(content')
  /\ UNCHANGED <<reader, got, outcome, cuts>>

StreamNext ==
  \/ BeginReadAll \/ RewindFirst \/ ReadBlock \/ MoveOn \/ ReadAllRaises
  \/ Moves \/ Write \/ OthersMove \/ OthersAppend

StreamSpec == StreamInit /\ [][StreamNext]_streamVars

-----------------------------------------------------------------------------
(* Properties.                                                             *)

\* The blocks a stream is read by, and how much of each there is.
Blocks == {b \in 0..Len(content) : b * BLOCK_SIZE < Len(content)}

BlockSize(b) ==
  LET rest == Len(content) - b * BLOCK_SIZE IN IF rest < BLOCK_SIZE THEN rest ELSE BLOCK_SIZE

\* What was read is the beginnings of the first n blocks, block by block and in order,
\* each as far as ends says; a block no read gave a part of only is there as a whole.
MadeOf(n, ends) ==
  /\ ends[0] = 0 /\ ends[n] = Len(got)
  /\ \A b \in 0..(n - 1) :
       LET taken == ends[b + 1] - ends[b] IN
       /\ taken \in 1..BlockSize(b)
       /\ b * BLOCK_SIZE \notin cuts => taken = BlockSize(b)
       /\ \A k \in 1..taken : got[ends[b] + k] = content[b * BLOCK_SIZE + k]

\* "Read a whole stream content by BLOCK_SIZE" (stream.rb:13): with whole reads, it
\* does, for every size below, at and beyond a multiple of the block, as long as nobody
\* else touches the stream; a read that is answered with less costs the rest of its own
\* block and nothing else.
ShortReadsLoseTheirTail ==
  outcome = "read_all" /\ disturbed = 0 =>
    LET n == Cardinality(Blocks) IN
    \E ends \in [0..n -> 0..Len(got)] : MadeOf(n, ends)
=============================================================================
