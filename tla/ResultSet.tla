----------------------------- MODULE ResultSet -----------------------------
(***************************************************************************)
(* What a reader of a statement is promised: the rows of the requested     *)
(* slice, in order, each once; all of them before the reading ends, unless *)
(* an exception or the reader itself ends it.                              *)
(***************************************************************************)
EXTENDS Naturals, Sequences

VARIABLES
  slice,      \* the rows the reading has to deliver
  delivered,  \* the rows delivered so far
  status      \* "idle", "reading", or how the last reading ended: "returned",
              \*   "raised" or "left"

rvars == <<slice, delivered, status>>

RInit == slice = <<>> /\ delivered = <<>> /\ status = "idle"

\* A reading starts: what it has to deliver is fixed here, and is a run of
\* consecutive rows.
Begin ==
  /\ status # "reading" /\ status' = "reading"
  /\ \A k \in 1..(Len(slice') - 1) : slice'[k + 1] = slice'[k] + 1
  /\ delivered' = <<>>

Deliver ==
  /\ status = "reading" /\ Len(delivered) < Len(slice)
  /\ delivered' = Append(delivered, slice[Len(delivered) + 1])
  /\ UNCHANGED <<slice, status>>

\* The reading returns: everything was delivered.
Return ==
  /\ status = "reading" /\ delivered = slice
  /\ status' = "returned"
  /\ UNCHANGED <<slice, delivered>>

\* An exception ends it, which the reader gets.
Raise ==
  /\ status = "reading" /\ status' = "raised"
  /\ UNCHANGED <<slice, delivered>>

\* The reader ends it, having got a row.
Leave ==
  /\ status = "reading" /\ delivered # <<>>
  /\ status' = "left"
  /\ UNCHANGED <<slice, delivered>>

RNext == Begin \/ Deliver \/ Return \/ Raise \/ Leave

RSpec == RInit /\ [][RNext]_rvars
=============================================================================
