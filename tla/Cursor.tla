------------------------------- MODULE Cursor -------------------------------
(***************************************************************************)
(* Reading the rows of one executed statement: Query#each, #fetch, #close, *)
(* #limit=, #offset= of ext/query.c and Query#rows, #fill of sql.rb.       *)
(*                                                                         *)
(* The result set is numbered 1..total; a row is its number.  One step is  *)
(* one call of fetch together with what each does with its answer.         *)
(***************************************************************************)
EXTENDS Integers, Sequences

CONSTANTS
  MaxRows,      \* bound on the size of a result set
  Limits,       \* values of #limit=; zero and negative ones mean no limit
  Offsets,      \* values of #offset=
  ClosedFetch,  \* what fetching from a closed cursor may do: "raise", "no_data"
  Wires,        \* the connections considered, see wire below
  MaxFaults,    \* bound on the number of faults
  MaxReads      \* bound on the number of readings of the statement

ASSUME BoundsAssumption == MaxRows \in Nat /\ MaxFaults \in Nat /\ MaxReads \in Nat
ASSUME SlicesAssumption == -1 \in Limits /\ Limits \subseteq Int
                           /\ 0 \in Offsets /\ Offsets \subseteq Int
ASSUME AnswersAssumption == ClosedFetch # {} /\ ClosedFetch \subseteq {"raise", "no_data"}
ASSUME WiresAssumption == Wires \subseteq {"loud", "lossy"}

VARIABLES
  total,    \* rows of the result set
  pos,      \* rows the server has handed out
  closed,   \* rbQuery.closed
  limit,    \* rbQuery.limit
  offset,   \* rbQuery.offset
  pc,       \* where each is: "idle", "skip" or "emit"
  skipped,  \* i of the skipping loop
  call,     \* the reading in progress or the last one
  out,      \* the rows it yielded; its length is row_count
  memo,     \* @rows: whether it is defined, and the list
  result,   \* how the last reading ended
  faults,   \* faults so far
  reads,    \* readings so far
  wire      \* fixed: "loud" if all that can go wrong in a fetch is an exception,
            \*   "lossy" if it may also answer an sql_code other than 0 and 100

vars == <<total, pos, closed, limit, offset, pc, skipped, call, out, memo,
          result, faults, reads, wire>>

\* What each copies or relies on while it runs: the kind of reading, the
\* slice asked for, and the position at which its two loops began.
Calls == [mode: {"rows", "each"}, limit: Int, offset: Nat,
          start: Nat, from: Nat, closed: BOOLEAN]

TypeOK ==
  /\ total \in Nat /\ pos \in 0..total
  /\ closed \in BOOLEAN
  /\ limit \in Limits /\ offset \in Offsets
  /\ pc \in {"idle", "skip", "emit"}
  /\ skipped \in Nat
  /\ call \in Calls
  /\ out \in Seq(Nat)
  /\ memo \in [defined: BOOLEAN, list: Seq(Nat)]
  /\ result \in {"none", "returned", "raised", "left"}
  /\ faults \in Nat /\ reads \in Nat
  /\ wire \in Wires

\* A statement that has just been executed, with the defaults of initialize.
Init ==
  /\ total \in 0..MaxRows /\ pos = 0
  /\ closed = FALSE
  /\ limit = -1 /\ offset = 0
  /\ pc = "idle" /\ skipped = 0
  /\ call = [mode |-> "each", limit |-> -1, offset |-> 0,
             start |-> 0, from |-> 0, closed |-> FALSE]
  /\ out = <<>> /\ memo = [defined |-> FALSE, list |-> <<>>]
  /\ result = "none" /\ faults = 0 /\ reads = 0
  /\ wire \in Wires

-----------------------------------------------------------------------------
(* The setters, and the calls that begin a reading.                        *)

SetLimit(n) ==
  /\ pc = "idle" /\ limit' = n
  /\ UNCHANGED <<total, pos, closed, offset, pc, skipped, call, out, memo,
                 result, faults, reads, wire>>

SetOffset(n) ==
  /\ pc = "idle" /\ offset' = n
  /\ UNCHANGED <<total, pos, closed, limit, pc, skipped, call, out, memo,
                 result, faults, reads, wire>>

\* The entry of intersys_query_each.  limit is copied to a local, -1 unless
\* positive; without rows to skip the emitting loop is next.
Enter(mode) ==
  /\ pc = "idle" /\ reads < MaxReads /\ reads' = reads + 1
  /\ pc' = IF offset > 0 THEN "skip" ELSE "emit"
  /\ skipped' = 0 /\ out' = <<>>
  /\ call' = [mode |-> mode, limit |-> IF limit > 0 THEN limit ELSE -1,
              offset |-> IF offset > 0 THEN offset ELSE 0,
              start |-> pos, from |-> pos, closed |-> closed]
  /\ UNCHANGED <<total, pos, closed, limit, offset, result, faults, wire>>

\* Query#each, or Query#fill, which appends each row to an array.
Each == Enter("each") /\ UNCHANGED memo

\* Query#rows without a memo: @rows is the empty array before the first fetch.
\* With one, rows answers it, complete or not, and changes nothing.
Rows ==
  /\ ~memo.defined
  /\ Enter("rows")
  /\ memo' = [defined |-> TRUE, list |-> <<>>]

-----------------------------------------------------------------------------
(* intersys_query_fetch, by what the binding answers.                      *)

TakesRow == ~closed /\ pos < total /\ pos' = pos + 1 /\ UNCHANGED faults

\* sql_code 100.
ReachesEnd == ~closed /\ pos = total /\ UNCHANGED <<pos, faults>>

\* The cursor is closed already and the binding reports that there is no data.
FindsClosed ==
  /\ closed /\ "no_data" \in ClosedFetch
  /\ UNCHANGED <<pos, faults>>

\* Something goes wrong on an open cursor; the row may be consumed or not.
Fails ==
  /\ ~closed /\ faults < MaxFaults
  /\ faults' = faults + 1
  /\ pos' \in {pos, pos + 1} /\ pos' <= total

\* Any sql_code but 0 and 100: nil, as at the end, and no exception.
HitsSqlCode == wire = "lossy" /\ Fails

-----------------------------------------------------------------------------
(* intersys_query_each, by what its loops do with the answer.              *)

\* Slip: the skipping loop runs once too often.
SkipRowOneMore ==
  /\ pc = "skip" /\ TakesRow
  /\ skipped' = skipped + 1
  /\ pc' = IF skipped' > call.offset THEN "emit" ELSE "skip"
  /\ call' = [call EXCEPT !.from = pos']
  /\ UNCHANGED <<total, closed, limit, offset, out, memo, result, reads, wire>>

SkipRow ==
  /\ pc = "skip" /\ TakesRow
  /\ skipped' = skipped + 1
  /\ pc' = IF skipped' = call.offset THEN "emit" ELSE "skip"
  /\ call' = [call EXCEPT !.from = pos']
  /\ UNCHANGED <<total, closed, limit, offset, out, memo, result, reads, wire>>

\* nil: the skipping loop breaks, and the emitting loop fetches again.  Only
\* the end of the data closes the statement.
SkipEnds ==
  /\ pc = "skip"
  /\ \/ ReachesEnd /\ closed' = TRUE
     \/ (FindsClosed \/ HitsSqlCode) /\ UNCHANGED closed
  /\ pc' = "emit"
  /\ call' = [call EXCEPT !.from = pos']
  /\ UNCHANGED <<total, limit, offset, skipped, out, memo, result, reads, wire>>

\* Slip: the row in hand counts as yielded, and the last one is dropped.
EmitEndsEarly ==
  /\ pc = "emit"
  /\ (Len(out) + 1 = call.limit /\ TakesRow) \/ ReachesEnd \/ FindsClosed \/ HitsSqlCode
  /\ closed' = TRUE
  /\ pc' = "idle" /\ result' = "returned"
  /\ UNCHANGED <<total, limit, offset, skipped, call, out, memo, reads, wire>>

\* rb_yield of the row; the block of rows pushes it to @rows.
EmitRow ==
  /\ pc = "emit" /\ Len(out) # call.limit /\ TakesRow
  /\ out' = Append(out, pos')
  /\ memo' = IF call.mode = "rows" THEN [memo EXCEPT !.list = Append(@, pos')] ELSE memo
  /\ UNCHANGED <<total, closed, limit, offset, pc, skipped, call, result, reads, wire>>

\* Slip: nil does not end the loop.
EmitEndsAtLimitOnly ==
  /\ pc = "emit" /\ Len(out) = call.limit /\ TakesRow
  /\ closed' = TRUE
  /\ pc' = "idle" /\ result' = "returned"
  /\ UNCHANGED <<total, limit, offset, skipped, call, out, memo, reads, wire>>

\* The row after the last one asked for is fetched and dropped, or there is no
\* row: query_close, and each returns.
EmitEnds ==
  /\ pc = "emit"
  /\ (Len(out) = call.limit /\ TakesRow) \/ ReachesEnd \/ FindsClosed \/ HitsSqlCode
  /\ closed' = TRUE
  /\ pc' = "idle" /\ result' = "returned"
  /\ UNCHANGED <<total, limit, offset, skipped, call, out, memo, reads, wire>>

\* The fetch, a conversion in get_data or a query_close raises: there is no
\* handler in between, so closed, @rows and the rows yielded stay as they are.
Raises ==
  /\ pc # "idle"
  /\ \/ Fails
     \/ closed /\ "raise" \in ClosedFetch /\ UNCHANGED <<pos, faults>>
  /\ pc' = "idle" /\ result' = "raised"
  /\ UNCHANGED <<total, closed, limit, offset, skipped, call, out, memo, reads, wire>>

\* The block given to each leaves the loop with break or an exception.
Leave ==
  /\ pc = "emit" /\ call.mode = "each" /\ out # <<>>
  /\ pc' = "idle" /\ result' = "left"
  /\ UNCHANGED <<total, pos, closed, limit, offset, skipped, call, out, memo,
                 faults, reads, wire>>

\* intersys_query_close called from outside.
Close ==
  /\ pc = "idle" /\ ~closed /\ closed' = TRUE
  /\ UNCHANGED <<total, pos, limit, offset, pc, skipped, call, out, memo,
                 result, faults, reads, wire>>

Step == SkipRow \/ SkipEnds \/ EmitRow \/ EmitEnds \/ Raises

Next ==
  \/ \E n \in Limits : SetLimit(n)
  \/ \E n \in Offsets : SetOffset(n)
  \/ Each \/ Rows
  \/ Step
  \/ Leave
  \/ Close

\* The loops of each run in the calling thread: once entered, they go on.
Spec == Init /\ [][Next]_vars /\ WF_vars(Step)

-----------------------------------------------------------------------------
(* What a reading is asked for.                                            *)

\* Rows that were left when the reading began.
Available == IF call.closed THEN 0 ELSE total - call.start

\* How many of them the caller's slice has, and which.
PromisedLen ==
  LET rest == IF call.offset < Available THEN Available - call.offset ELSE 0
  IN  IF call.limit # -1 /\ call.limit < rest THEN call.limit ELSE rest

Promised == [k \in 1..PromisedLen |-> call.start + call.offset + k]

-----------------------------------------------------------------------------
(* Properties.                                                             *)

\* A reading that returns has yielded the whole slice it was asked for, with
\* every combination of limit, offset and size, unless the server answered a
\* code that fetch takes for the end (query.c:307).
FullSlice ==
  (pc = "idle" /\ result = "returned" /\ (wire = "loud" \/ faults = 0))
    => out = Promised

\* Whatever goes wrong, the rows yielded follow one another without a gap or a
\* repetition, and never run past the limit.
OutContiguous ==
  /\ \A k \in 1..Len(out) : out[k] = call.from + k
  /\ call.limit # -1 => Len(out) <= call.limit

\* A limited reading takes at most one row that it does not yield, so that the
\* rest of a large result set stays on the server.
OverreadsByOne ==
  call.limit # -1 => pos <= call.from + call.limit + 1

\* Every reading ends, whatever the limit: the loop of each has no other way
\* out than a fetch that answers nil, the limit, or an exception.
ReadingEnds == (pc # "idle") ~> (pc = "idle")

-----------------------------------------------------------------------------
(* The abstract reading this one implements.                               *)

Status ==
  IF wire = "lossy" THEN "idle"
  ELSE IF pc # "idle" THEN "reading"
  ELSE IF reads = 0 THEN "idle"
  ELSE result

Wanted == IF reads = 0 \/ wire = "lossy" THEN <<>> ELSE Promised

Delivered == IF wire = "lossy" THEN <<>> ELSE out

\* The wire is fixed, so that lossy ones map to no reading at all.
R == INSTANCE ResultSet WITH slice <- Wanted, delivered <- Delivered, status <- Status

\* Over a loud wire the cursor implements the reading ResultSet promises: one that
\* returns has delivered its whole slice, and one that did not has raised or was
\* left by its block (query.c:320-348).
ReadsAsPromised == R!RSpec
=============================================================================
