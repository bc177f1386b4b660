---------------------------- MODULE CursorProofs ----------------------------
(***************************************************************************)
(* What holds of a reading for every size of the result set, every limit   *)
(* and offset, and every number of faults and readings.                    *)
(***************************************************************************)
EXTENDS Cursor, TLAPS

\* The places of each, and what the cursor, the loops and the rows yielded
\* have to do with one another there.
Places ==
  /\ pc = "skip" => /\ out = <<>> /\ call.from = pos
                    /\ skipped < call.offset
  /\ pc = "emit" => pos = call.from + Len(out)
  /\ pos <= call.from + Len(out) + 1
  /\ call.limit = -1 \/ call.limit \in Nat \ {0}

IInv == TypeOK /\ OutContiguous /\ Places

\* The answers of fetch move the cursor by one row at most.
LEMMA FetchMoves ==
  ASSUME TypeOK, TakesRow \/ ReachesEnd \/ FindsClosed \/ Fails
  PROVE  /\ pos' \in {pos, pos + 1} /\ pos' \in 0..total
         /\ faults' \in Nat
<1>0. total \in Nat /\ pos \in 0..total /\ faults \in Nat
  BY DEF TypeOK
<1>1. CASE TakesRow
  BY <1>0, <1>1 DEF TakesRow
<1>2. CASE ReachesEnd
  BY <1>0, <1>2 DEF ReachesEnd
<1>3. CASE FindsClosed
  BY <1>0, <1>3 DEF FindsClosed
<1>4. CASE Fails
  BY <1>0, <1>4 DEF Fails
<1>5. QED
  BY <1>1, <1>2, <1>3, <1>4

\* The loops move only the from field of the reading.
LEMMA FromMoves ==
  ASSUME NEW c \in Calls, NEW p \in Nat
  PROVE  /\ [c EXCEPT !.from = p] \in Calls
         /\ [c EXCEPT !.from = p].from = p
         /\ [c EXCEPT !.from = p].limit = c.limit
         /\ [c EXCEPT !.from = p].offset = c.offset
         /\ [c EXCEPT !.from = p].start = c.start
         /\ [c EXCEPT !.from = p].closed = c.closed
BY DEF Calls

\* Appending the next number keeps a list of consecutive numbers one.
LEMMA AppendNext ==
  ASSUME NEW b \in Nat, NEW s \in Seq(Nat), \A k \in 1..Len(s) : s[k] = b + k
  PROVE  /\ Append(s, b + Len(s) + 1) \in Seq(Nat)
         /\ Len(Append(s, b + Len(s) + 1)) = Len(s) + 1
         /\ \A k \in 1..Len(Append(s, b + Len(s) + 1)) :
              Append(s, b + Len(s) + 1)[k] = b + k
<1> DEFINE v == b + Len(s) + 1
<1>1. v \in Nat /\ v = b + Len(s) + 1
  OBVIOUS
<1> HIDE DEF v
<1>2. /\ Append(s, v) \in Seq(Nat)
      /\ Len(Append(s, v)) = Len(s) + 1
      /\ \A k \in 1..Len(Append(s, v)) : Append(s, v)[k] = b + k
  BY <1>1
<1>3. QED
  BY <1>2 DEF v

LEMMA IInvInit == Init => IInv
<1> SUFFICES ASSUME Init PROVE IInv
  OBVIOUS
<1>1. total \in Nat /\ pos \in 0..total
  BY BoundsAssumption DEF Init
<1>2. call \in Calls /\ out \in Seq(Nat) /\ memo \in [defined: BOOLEAN, list: Seq(Nat)]
  BY DEF Init, Calls
<1>3. TypeOK
  BY <1>1, <1>2, SlicesAssumption DEF Init, TypeOK
<1>4. OutContiguous /\ Places
  BY <1>1 DEF Init, OutContiguous, Places
<1>5. QED
  BY <1>3, <1>4 DEF IInv

LEMMA IInvNext ==
  ASSUME IInv, [Next]_vars
  PROVE  IInv'
<1> USE DEF IInv, TypeOK, OutContiguous, Places
<1>1. ASSUME NEW n \in Limits, SetLimit(n) PROVE IInv'
  BY <1>1 DEF SetLimit
<1>2. ASSUME NEW n \in Offsets, SetOffset(n) PROVE IInv'
  BY <1>2 DEF SetOffset
<1>3. ASSUME NEW mode \in {"rows", "each"}, Enter(mode),
             memo' \in [defined: BOOLEAN, list: Seq(Nat)]
      PROVE  IInv'
  <2>1. call' \in Calls
    BY <1>3, SlicesAssumption DEF Enter, Calls
  <2>2. out' = <<>> /\ call'.from = pos /\ pos' = pos
    BY <1>3 DEF Enter
  <2>3. call'.limit = -1 \/ call'.limit \in Nat \ {0}
    BY <1>3, SlicesAssumption DEF Enter
  <2>4. pc' = "skip" => skipped' < call'.offset
    BY <1>3, SlicesAssumption DEF Enter
  <2>5. TypeOK'
    BY <1>3, <2>1, <2>2 DEF Enter
  <2>6. QED
    BY <2>2, <2>3, <2>4, <2>5
<1>4. CASE SkipRow
  <2>1. /\ pos' = pos + 1 /\ pos' \in 0..total /\ out' = <<>> /\ out = <<>>
        /\ skipped' = skipped + 1
        /\ pc' = IF skipped' = call.offset THEN "emit" ELSE "skip"
        /\ call' = [call EXCEPT !.from = pos']
    BY <1>4 DEF SkipRow, TakesRow
  <2>2. call' \in Calls /\ call'.from = pos' /\ call'.offset = call.offset
        /\ call'.limit = call.limit
    BY <2>1, FromMoves
  <2>3. pc' = "skip" => skipped' < call'.offset
    BY <1>4, <2>1, <2>2, SMTT(30) DEF SkipRow, Calls
  <2>4. QED
    BY <1>4, <2>1, <2>2, <2>3 DEF SkipRow, TakesRow
<1>5. CASE SkipEnds
  <2>1. /\ pos' \in 0..total /\ out' = <<>> /\ out = <<>> /\ pc' = "emit"
        /\ call' = [call EXCEPT !.from = pos']
        /\ faults' \in Nat /\ closed' \in BOOLEAN
    BY <1>5, FetchMoves DEF SkipEnds, HitsSqlCode
  <2>2. call' \in Calls /\ call'.from = pos' /\ call'.limit = call.limit
    BY <2>1, FromMoves
  <2>3. QED
    BY <1>5, <2>1, <2>2 DEF SkipEnds
<1>6. CASE EmitRow
  <2>1. /\ pos = call.from + Len(out) /\ pos' = pos + 1 /\ pos' \in 0..total
        /\ out' = Append(out, pos') /\ Len(out) # call.limit
        /\ UNCHANGED <<total, closed, limit, offset, pc, skipped, call, result,
                       reads, faults, wire>>
    BY <1>6 DEF EmitRow, TakesRow
  <2>2. call.from \in Nat
    BY DEF Calls
  <2>3. pos' = call.from + Len(out) + 1
    BY <2>1
  <2>4. /\ out' \in Seq(Nat) /\ Len(out') = Len(out) + 1
        /\ \A k \in 1..Len(out') : out'[k] = call.from + k
    <3>1. out \in Seq(Nat) /\ \A k \in 1..Len(out) : out[k] = call.from + k
      OBVIOUS
    <3>2. out' = Append(out, call.from + Len(out) + 1)
      BY ONLY <2>1, <2>3
    <3>3. QED
      BY ONLY <2>2, <3>1, <3>2, AppendNext, Zenon
  <2>5. call'.limit # -1 => Len(out') <= call'.limit
    BY <2>1, <2>4
  <2>6. memo' \in [defined: BOOLEAN, list: Seq(Nat)]
    <3>1. memo' = IF call.mode = "rows"
                  THEN [memo EXCEPT !.list = Append(memo.list, pos')] ELSE memo
      BY <1>6 DEF EmitRow
    <3>2. memo.list \in Seq(Nat) /\ pos' \in Nat
      BY <2>1
    <3>3. Append(memo.list, pos') \in Seq(Nat)
      BY ONLY <3>2
    <3>4. QED
      BY <3>1, <3>3
  <2>7. TypeOK'
    BY <2>1, <2>4, <2>6
  <2>8. OutContiguous'
    BY <2>1, <2>4, <2>5
  <2>9. Places'
    <3>1. pc = "emit" /\ Len(out) \in Nat
      BY <1>6 DEF EmitRow
    <3>2. pc' = "emit" /\ pos' = call'.from + Len(out')
      BY ONLY <2>1, <2>2, <2>4, <3>1
    <3>3. Len(out') \in Nat /\ call'.from \in Nat
      BY ONLY <2>1, <2>2, <2>4, <3>1
    <3>4. pos' <= call'.from + Len(out') + 1
      BY ONLY <3>2, <3>3
    <3>5. call'.limit = -1 \/ call'.limit \in Nat \ {0}
      BY <2>1
    <3>6. QED
      BY ONLY <3>2, <3>4, <3>5 DEF Places
  <2>10. QED
    BY <2>7, <2>8, <2>9
<1>7. CASE EmitEnds
  <2>1. pos = call.from + Len(out) /\ pos' \in {pos, pos + 1}
    BY <1>7, FetchMoves DEF EmitEnds, HitsSqlCode
  <2>2. pos' \in 0..total /\ faults' \in Nat
    BY <1>7, FetchMoves DEF EmitEnds, HitsSqlCode
  <2>3. /\ closed' = TRUE /\ pc' = "idle" /\ result' = "returned"
        /\ UNCHANGED <<total, limit, offset, skipped, call, out, memo, reads, wire>>
    BY <1>7 DEF EmitEnds
  <2>4. call.from \in Nat
    BY DEF Calls
  <2>5. TypeOK'
    BY <2>2, <2>3
  <2>6. OutContiguous' /\ Places'
    BY <2>1, <2>3, <2>4
  <2>7. QED
    BY <2>5, <2>6
<1>8. CASE Raises
  <2>1. /\ pos' \in {pos, pos + 1} /\ pos' \in 0..total
        /\ faults' \in Nat
    BY <1>8, FetchMoves DEF Raises, Fails
  <2>2. call.from \in Nat /\ Len(out) \in Nat
    BY DEF Calls
  <2>3. pos <= call.from + Len(out)
    BY <1>8, <2>2 DEF Raises
  <2>4. QED
    BY <1>8, <2>1, <2>2, <2>3 DEF Raises
<1>9. CASE Leave
  BY <1>9 DEF Leave
<1>10. CASE Close
  BY <1>10 DEF Close
<1>11. CASE UNCHANGED vars
  BY <1>11 DEF vars
<1>12. CASE Each
  BY <1>3, <1>12 DEF Each
<1>13. CASE Rows
  BY <1>3, <1>13 DEF Rows
<1>14. QED
  BY <1>1, <1>2, <1>4, <1>5, <1>6, <1>7, <1>8, <1>9, <1>10, <1>11, <1>12,
     <1>13 DEF Next, Step

THEOREM Inductive == Spec => []IInv
<1>1. IInv /\ [Next]_vars => IInv'
  BY IInvNext
<1>2. QED
  BY IInvInit, <1>1, PTL DEF Spec

\* Every step of a reading keeps the types of the statement and of @rows.
THEOREM TypeCorrect == Spec => []TypeOK
BY Inductive, PTL DEF IInv

\* The rows yielded are consecutive and within the limit, whatever fails.
THEOREM OutContiguousHolds == Spec => []OutContiguous
BY Inductive, PTL DEF IInv

\* A limited reading takes at most one row that it does not yield.
THEOREM OverreadsByOneHolds == Spec => []OverreadsByOne
<1>1. IInv => OverreadsByOne
  BY DEF IInv, TypeOK, Calls, OutContiguous, Places, OverreadsByOne
<1>2. QED
  BY <1>1, Inductive, PTL

-----------------------------------------------------------------------------
(* The whole slice.                                                        *)

\* No answer of the server has been taken for the end of the data.
Clean == wire = "loud" \/ faults = 0

\* A step leaves the wire as it is and meets one fault at most.
LEMMA WireFixed ==
  ASSUME [Next]_vars PROVE wire' = wire /\ (faults' = faults \/ faults' = faults + 1)
BY DEF Next, vars, SetLimit, SetOffset, Each, Rows, Enter, Step, SkipRow, SkipEnds,
         EmitRow, EmitEnds, Raises, Leave, Close, TakesRow, ReachesEnd, FindsClosed,
         HitsSqlCode, Fails

\* What is clean after a step was clean before.
LEMMA CleanBefore ==
  ASSUME TypeOK, [Next]_vars, Clean' PROVE Clean
BY WireFixed DEF Clean, TypeOK

\* A silent code leaves no clean reading.
LEMMA SilentIsUnclean ==
  ASSUME TypeOK, Clean', UNCHANGED wire PROVE ~HitsSqlCode
BY DEF TypeOK, Clean, HitsSqlCode, Fails

\* Where a reading stands without silent codes.  Skipping counts rows of an
\* open cursor; emitting goes on from the offset, or the cursor is closed
\* because the offset lies beyond the end or the statement was closed before.
Progress ==
  /\ call.start <= total
  /\ reads = 0 => pc = "idle" /\ result = "none" /\ out = <<>>
  /\ pc = "skip" => \/ closed /\ call.closed
                    \/ ~closed /\ ~call.closed /\ pos = call.start + skipped
  /\ pc = "emit" => \/ /\ ~closed /\ ~call.closed
                       /\ call.from = call.start + call.offset
                    \/ /\ closed /\ out = <<>>
                       /\ call.closed \/ total <= call.start + call.offset
  /\ (pc = "idle" /\ result = "returned") => out = Promised

\* The integers that Available and PromisedLen are made of.
LEMMA CallNumbers ==
  ASSUME TypeOK
  PROVE  /\ total \in Nat /\ pos \in Nat /\ pos <= total
         /\ call.start \in Nat /\ call.from \in Nat /\ call.offset \in Nat
         /\ call.limit \in Int /\ call.closed \in BOOLEAN
         /\ out \in Seq(Nat) /\ Len(out) \in Nat
BY DEF TypeOK, Calls

\* The slice promised is a run of consecutive rows.
LEMMA PromisedIsRun ==
  ASSUME TypeOK, Places, call.start <= total
  PROVE  /\ PromisedLen \in Nat
         /\ Promised \in Seq(Nat)
         /\ Len(Promised) = PromisedLen
         /\ \A k \in 1..PromisedLen : Promised[k] = call.start + call.offset + k
<1>1. Available \in Nat
  BY CallNumbers DEF Available
<1>2. PromisedLen \in Nat
  BY <1>1, CallNumbers, SMTT(30) DEF PromisedLen, Places
<1>3. \A k \in 1..PromisedLen : call.start + call.offset + k \in Nat
  BY <1>2, CallNumbers
<1>4. QED
  BY <1>2, <1>3 DEF Promised

\* A list of consecutive numbers is determined by its first and its length.
LEMMA RunsAgree ==
  ASSUME NEW s \in Seq(Nat), NEW t \in Seq(Nat), Len(s) = Len(t),
         \A k \in 1..Len(s) : s[k] = t[k]
  PROVE  s = t
OBVIOUS

\* When the emitting loop returns it has yielded what was promised.
LEMMA ReturnIsFull ==
  ASSUME ~HitsSqlCode, IInv, Progress, EmitEnds
  PROVE  out = Promised
<1> USE CallNumbers DEF IInv
<1>1. pc = "emit" /\ pos = call.from + Len(out)
  BY DEF EmitEnds, Places
<1>2. Len(out) = PromisedLen
  <2>1. CASE Len(out) = call.limit /\ TakesRow
    <3>1. ~closed /\ ~call.closed /\ call.from = call.start + call.offset /\ pos < total
      BY <1>1, <2>1 DEF Progress, TakesRow
    <3>2. QED
      BY <1>1, <2>1, <3>1, SMTT(30) DEF PromisedLen, Available
  <2>2. CASE ReachesEnd
    <3>1. ~closed /\ ~call.closed /\ call.from = call.start + call.offset /\ pos = total
      BY <1>1, <2>2 DEF Progress, ReachesEnd
    <3>2. call.limit # -1 => Len(out) <= call.limit
      BY DEF OutContiguous
    <3>3. Available = total - call.start /\ Available - call.offset = Len(out)
      BY <1>1, <3>1 DEF Available
    <3>4. (IF call.offset < Available THEN Available - call.offset ELSE 0) = Len(out)
      BY <3>3
    <3>5. QED
      BY <3>2, <3>4 DEF PromisedLen
  <2>3. CASE FindsClosed
    <3>1. out = <<>> /\ (call.closed \/ total <= call.start + call.offset)
      BY <1>1, <2>3 DEF Progress, FindsClosed
    <3>2. Available \in Nat /\ Available <= call.offset
      BY <3>1 DEF Available, Progress
    <3>3. PromisedLen = 0
      BY <3>2 DEF PromisedLen, Places
    <3>4. QED
      BY <3>1, <3>3
  <2>4. QED
    BY <2>1, <2>2, <2>3 DEF EmitEnds
<1>3. \A k \in 1..Len(out) : out[k] = Promised[k]
  <2>1. CASE out = <<>>
    BY <2>1
  <2>2. CASE out # <<>>
    <3>1. call.from = call.start + call.offset
      BY <1>1, <2>2 DEF Progress
    <3>2. QED
      BY <1>2, <3>1, PromisedIsRun DEF OutContiguous, Progress
  <2>3. QED
    BY <2>1, <2>2
<1>4. Promised \in Seq(Nat) /\ Len(Promised) = Len(out)
  BY <1>2, PromisedIsRun DEF Progress
<1>5. QED
  BY <1>3, <1>4, RunsAgree

\* Progress is kept by every step, and with it the promise.
LEMMA ProgressNext ==
  ASSUME Clean', IInv, Progress, [Next]_vars
  PROVE  Progress'
<1>0. ~HitsSqlCode
  BY WireFixed, SilentIsUnclean DEF IInv
<1> USE CallNumbers DEF IInv
<1> DEFINE Same == UNCHANGED <<total, call, out, pc, result, closed, reads, pos, skipped>>
<1>1. ASSUME Same PROVE Progress'
  <2>1. Promised' = Promised
    BY <1>1 DEF Promised, PromisedLen, Available
  <2>2. QED
    BY <1>1, <2>1 DEF Progress
<1>2. ASSUME NEW mode \in {"rows", "each"}, Enter(mode) PROVE Progress'
  <2>1. /\ call'.start = pos /\ call'.from = pos /\ call'.closed = closed
        /\ call'.offset = IF offset > 0 THEN offset ELSE 0
        /\ UNCHANGED <<total, pos, closed>> /\ out' = <<>> /\ skipped' = 0
        /\ pc' = IF offset > 0 THEN "skip" ELSE "emit"
        /\ reads' = reads + 1
    BY <1>2 DEF Enter
  <2>2. reads' # 0
    BY <2>1 DEF TypeOK
  <2>3. closed \in BOOLEAN /\ offset \in Int
    BY SlicesAssumption DEF TypeOK
  <2>4. QED
    BY <2>1, <2>2, <2>3 DEF Progress
<1>3. CASE SkipRow
  <2>1. /\ pc = "skip" /\ ~closed /\ pos' = pos + 1 /\ skipped' = skipped + 1
        /\ call' = [call EXCEPT !.from = pos']
        /\ pc' = IF skipped' = call.offset THEN "emit" ELSE "skip"
        /\ UNCHANGED <<total, closed, out, result, reads>>
    BY <1>3 DEF SkipRow, TakesRow
  <2>2. /\ call'.start = call.start /\ call'.offset = call.offset
        /\ call'.closed = call.closed /\ call'.from = pos'
    BY <2>1, FromMoves DEF TypeOK
  <2>3. pos = call.start + skipped /\ ~call.closed /\ reads # 0
    BY <2>1 DEF Progress
  <2>4. skipped \in Nat
    BY DEF TypeOK
  <2>5. QED
    BY <2>1, <2>2, <2>3, <2>4 DEF Progress
<1>4. CASE SkipEnds
  <2>1. /\ pc = "skip" /\ pc' = "emit"
        /\ call' = [call EXCEPT !.from = pos']
        /\ UNCHANGED <<total, out, result, reads>>
        /\ \/ ReachesEnd /\ closed' = TRUE
           \/ FindsClosed /\ UNCHANGED closed
    BY <1>0, <1>4 DEF SkipEnds
  <2>2. pos' = pos
    BY <2>1 DEF ReachesEnd, FindsClosed
  <2>3. /\ call'.start = call.start /\ call'.offset = call.offset
        /\ call'.closed = call.closed
    BY <2>1, <2>2, FromMoves DEF TypeOK
  <2>4. out = <<>> /\ skipped < call.offset /\ reads # 0
    BY <2>1 DEF Places, Progress
  <2>5. closed' = TRUE
    BY <2>1 DEF FindsClosed
  <2>6. call.closed \/ total <= call.start + call.offset
    <3>1. CASE FindsClosed
      BY <2>1, <3>1 DEF FindsClosed, Progress
    <3>2. CASE ReachesEnd
      <4>1. pos = call.start + skipped /\ pos = total
        BY <2>1, <3>2 DEF ReachesEnd, Progress
      <4>2. skipped \in Nat
        BY DEF TypeOK
      <4>3. QED
        BY <2>4, <4>1, <4>2
    <3>3. QED
      BY <2>1, <3>1, <3>2
  <2>7. QED
    BY <2>1, <2>3, <2>4, <2>5, <2>6 DEF Progress
<1>5. CASE EmitRow
  <2>1. /\ pc = "emit" /\ pc' = "emit" /\ ~closed
        /\ UNCHANGED <<total, closed, call, result, reads>>
    BY <1>5 DEF EmitRow, TakesRow
  <2>2. reads # 0
    BY <2>1 DEF Progress
  <2>3. QED
    BY <2>1, <2>2 DEF Progress
<1>6. CASE EmitEnds
  <2>1. out = Promised
    BY <1>0, <1>6, ReturnIsFull
  <2>2. /\ pc = "emit" /\ pc' = "idle"
        /\ UNCHANGED <<total, call, out, reads>>
    BY <1>6 DEF EmitEnds
  <2>3. Promised' = Promised
    BY <2>2 DEF Promised, PromisedLen, Available
  <2>4. reads # 0
    BY <2>2 DEF Progress
  <2>5. QED
    BY <2>1, <2>2, <2>3, <2>4 DEF Progress
<1>7. CASE Raises \/ Leave
  <2>1. /\ pc # "idle" /\ pc' = "idle" /\ result' # "returned"
        /\ UNCHANGED <<total, call, out, reads>>
    BY <1>7 DEF Raises, Leave
  <2>2. reads # 0
    BY <2>1 DEF Progress
  <2>3. QED
    BY <2>1, <2>2 DEF Progress
<1>8. CASE Close
  <2>1. UNCHANGED <<total, call, out, pc, result, reads>> /\ pc = "idle"
    BY <1>8 DEF Close
  <2>2. Promised' = Promised
    BY <2>1 DEF Promised, PromisedLen, Available
  <2>3. QED
    BY <2>1, <2>2 DEF Progress
<1>9. CASE \/ \E n \in Limits : SetLimit(n)
           \/ \E n \in Offsets : SetOffset(n)
           \/ UNCHANGED vars
  BY <1>1, <1>9 DEF SetLimit, SetOffset, vars
<1>10. QED
  BY <1>2, <1>3, <1>4, <1>5, <1>6, <1>7, <1>8, <1>9
     DEF Next, Step, Each, Rows

\* Progress of every clean reading.
CleanProgress == Clean => Progress

THEOREM CleanProgressHolds == Spec => []CleanProgress
<1>1. Init => CleanProgress
  BY BoundsAssumption DEF Init, CleanProgress, Progress
<1>2. IInv /\ CleanProgress /\ [Next]_vars => CleanProgress'
  BY CleanBefore, ProgressNext DEF CleanProgress, IInv
<1>3. QED
  BY <1>1, <1>2, Inductive, PTL DEF Spec

\* A reading that returns, and met no silent code, has yielded the whole slice.
THEOREM FullSliceHolds == Spec => []FullSlice
<1>1. CleanProgress => FullSlice
  BY DEF CleanProgress, Clean, Progress, FullSlice
<1>2. QED
  BY <1>1, CleanProgressHolds, PTL

-----------------------------------------------------------------------------
(* The abstract reading.                                                   *)

\* The result of a reading that is not running is its status.
LEMMA StatusRange ==
  ASSUME TypeOK
  PROVE  Status = "reading" <=> pc # "idle" /\ wire # "lossy"
BY DEF Status, TypeOK

\* PromisedIsRun as a formula, so that it can be had of the next state too.
PromisedRun ==
  /\ PromisedLen \in Nat /\ Len(Promised) = PromisedLen
  /\ call.start + call.offset \in Nat
  /\ \A k \in 1..PromisedLen : Promised[k] = call.start + call.offset + k

LEMMA PromisedRunHolds ==
  TypeOK /\ Places /\ call.start <= total => PromisedRun
BY PromisedIsRun, CallNumbers DEF PromisedRun

\* A number below the length of a run and the next one are places of the run.
LEMMA Neighbours ==
  ASSUME NEW n \in Nat, NEW k \in 1..(n - 1)
  PROVE  k \in 1..n /\ k + 1 \in 1..n
OBVIOUS

\* Every step of the cursor is a step of the abstract reading, or none.
LEMMA StepImplements ==
  ASSUME wire = "loud", IInv, Progress, IInv', Progress', [Next]_vars
  PROVE  [R!RNext]_(R!rvars)
<1>0. wire' = "loud"
  BY WireFixed
<1> USE <1>0 DEF IInv, R!rvars, Delivered
<1> DEFINE Same == UNCHANGED <<total, call, out, pc, result, reads>>
<1>1. ASSUME Same PROVE UNCHANGED R!rvars
  BY <1>1 DEF Wanted, Status, Promised, PromisedLen, Available
<1>2. ASSUME NEW mode \in {"rows", "each"}, Enter(mode) PROVE R!Begin
  <2>1. pc = "idle" /\ pc' # "idle" /\ out' = <<>> /\ reads' = reads + 1
    BY <1>2 DEF Enter
  <2>2. Status # "reading" /\ Status' = "reading"
    BY <2>1, StatusRange DEF Status
  <2>3. reads' # 0
    BY <2>1 DEF TypeOK
  <2>4. Wanted' = Promised'
    BY <2>3 DEF Wanted
  <2>5. PromisedRun'
    <3>1. (TypeOK /\ Places /\ call.start <= total)'
      BY DEF Progress
    <3>2. QED
      BY <3>1, PromisedRunHolds, PTL
  <2>6. \A k \in 1..(Len(Promised') - 1) : Promised'[k + 1] = Promised'[k] + 1
    <3>1. SUFFICES ASSUME NEW k \in 1..(Len(Promised') - 1)
                   PROVE  Promised'[k + 1] = Promised'[k] + 1
      OBVIOUS
    <3>2. PromisedLen' \in Nat /\ Len(Promised') = PromisedLen'
      BY <2>5 DEF PromisedRun
    <3>3. k \in 1..PromisedLen' /\ k + 1 \in 1..PromisedLen'
      <4>1. k \in 1..(PromisedLen' - 1)
        BY ONLY <3>1, <3>2
      <4>2. QED
        BY <3>2, <4>1, Neighbours
    <3>4. /\ Promised'[k] = (call.start + call.offset)' + k
          /\ Promised'[k + 1] = (call.start + call.offset)' + (k + 1)
          /\ (call.start + call.offset)' \in Nat
      BY <2>5, <3>3 DEF PromisedRun
    <3>5. QED
      BY ONLY <3>3, <3>4
  <2>7. QED
    BY <2>1, <2>2, <2>4, <2>6 DEF R!Begin
<1>3. CASE SkipRow \/ SkipEnds
  <2>1. /\ call' = [call EXCEPT !.from = pos']
        /\ UNCHANGED <<total, out, result, reads>> /\ pc = "skip"
        /\ pc' \in {"skip", "emit"}
    BY <1>3 DEF SkipRow, SkipEnds
  <2>2. pos' \in Nat /\ call \in Calls
    BY DEF TypeOK
  <2>3. /\ call'.start = call.start /\ call'.offset = call.offset
        /\ call'.closed = call.closed /\ call'.limit = call.limit
    BY <2>1, <2>2, FromMoves
  <2>4. Promised' = Promised
    BY <2>1, <2>3 DEF Promised, PromisedLen, Available
  <2>5. QED
    BY <2>1, <2>4 DEF Wanted, Status
<1>4. CASE EmitRow
  <2>1. /\ pc = "emit" /\ Len(out) # call.limit /\ ~closed /\ pos < total
        /\ pos' = pos + 1 /\ out' = Append(out, pos')
        /\ UNCHANGED <<total, pc, call, result, reads>>
    BY <1>4 DEF EmitRow, TakesRow
  <2>2. /\ call.from = call.start + call.offset /\ ~call.closed /\ reads # 0
        /\ pos = call.from + Len(out)
    BY <2>1 DEF Progress, Places
  <2>3. call.limit # -1 => Len(out) < call.limit
    BY <2>1, CallNumbers DEF OutContiguous
  <2>4. Len(out) < PromisedLen /\ PromisedLen \in Nat
    <3>1. Available = total - call.start /\ Len(out) < Available - call.offset
      BY <2>1, <2>2, CallNumbers, SMTT(30) DEF Available
    <3>2. call.offset < Available
      BY <3>1, CallNumbers
    <3>3. Len(out) < PromisedLen
      BY <2>3, <3>1, <3>2 DEF PromisedLen
    <3>4. QED
      BY <3>3, PromisedIsRun DEF Progress
  <2>5. Promised[Len(out) + 1] = pos' /\ Len(out) < Len(Promised)
    BY <2>1, <2>2, <2>4, CallNumbers, PromisedIsRun DEF Progress
  <2>6. Wanted = Promised /\ Wanted' = Wanted
    BY <2>1, <2>2 DEF Wanted, Promised, PromisedLen, Available
  <2>7. Status = "reading" /\ Status' = "reading"
    BY <2>1 DEF Status
  <2>8. QED
    BY <2>1, <2>5, <2>6, <2>7 DEF R!RNext, R!Deliver
<1>5. CASE EmitEnds
  <2>1. out = Promised
    BY <1>5, ReturnIsFull DEF HitsSqlCode
  <2>2. /\ pc = "emit" /\ pc' = "idle" /\ result' = "returned"
        /\ UNCHANGED <<total, call, out, reads>>
    BY <1>5 DEF EmitEnds
  <2>3. reads # 0
    BY <2>2 DEF Progress
  <2>4. Promised' = Promised
    BY <2>2 DEF Promised, PromisedLen, Available
  <2>5. Wanted = Promised /\ Wanted' = Wanted
    BY <2>2, <2>3, <2>4 DEF Wanted
  <2>6. Status = "reading" /\ Status' = "returned"
    BY <2>2, <2>3 DEF Status
  <2>7. QED
    BY <2>1, <2>2, <2>5, <2>6 DEF R!RNext, R!Return
<1>6. CASE Raises \/ Leave
  <2>1. /\ pc # "idle" /\ pc' = "idle"
        /\ \/ result' = "raised"
           \/ result' = "left" /\ out # <<>>
        /\ UNCHANGED <<total, call, out, reads>>
    BY <1>6 DEF Raises, Leave
  <2>2. reads # 0
    BY <2>1 DEF Progress
  <2>3. Wanted' = Wanted
    BY <2>1 DEF Wanted, Promised, PromisedLen, Available
  <2>4. Status = "reading" /\ Status' = result'
    BY <2>1, <2>2 DEF Status
  <2>5. CASE result' = "raised"
    BY <2>1, <2>3, <2>4, <2>5 DEF R!RNext, R!Raise
  <2>6. CASE result' = "left" /\ out # <<>>
    BY <2>1, <2>3, <2>4, <2>6 DEF R!RNext, R!Leave
  <2>7. QED
    BY <2>1, <2>5, <2>6
<1>7. CASE \/ \E n \in Limits : SetLimit(n)
           \/ \E n \in Offsets : SetOffset(n)
           \/ Close
           \/ UNCHANGED vars
  BY <1>1, <1>7 DEF SetLimit, SetOffset, Close, vars
<1>8. QED
  BY <1>2, <1>3, <1>4, <1>5, <1>6, <1>7 DEF Next, Step, Each, Rows, R!RNext

\* Over a loud wire every reading is the reading ResultSet promises.
THEOREM Implements == Spec => ReadsAsPromised
<1>1. Init => R!RInit
  BY DEF Init, R!RInit, Wanted, Delivered, Status
<1>2. IInv /\ CleanProgress /\ IInv' /\ CleanProgress' /\ [Next]_vars
        => [R!RNext]_(R!rvars)
  <2> SUFFICES ASSUME IInv, CleanProgress, IInv', CleanProgress', [Next]_vars
               PROVE  [R!RNext]_(R!rvars)
    OBVIOUS
  <2>1. wire' = wire
    BY WireFixed
  <2>2. CASE wire = "loud"
    BY <2>1, <2>2, StepImplements DEF CleanProgress, Clean
  <2>3. CASE wire = "lossy"
    BY <2>1, <2>3 DEF R!rvars, Wanted, Delivered, Status
  <2>4. QED
    BY <2>2, <2>3, WiresAssumption DEF IInv, TypeOK
<1>3. QED
  BY <1>1, <1>2, CleanProgressHolds, Inductive, PTL
     DEF Spec, ReadsAsPromised, R!RSpec

-----------------------------------------------------------------------------
(* The end of a reading.                                                   *)

\* What a reading has left to do: rows, and the loops it has yet to leave.
Left == (total - pos) + (CASE pc = "skip" -> 2 [] pc = "emit" -> 1 [] pc = "idle" -> 0)

\* Each fetch of a reading brings its end nearer, whatever the limit and the offset and
\* whatever the binding answers, faults without number included: no loop of
\* intersys_query_each goes round without a row.  What ReadingEnds adds is that the next
\* fetch is made.
EndsNearer == [][pc # "idle" => Left' < Left]_vars

\* So a reading makes at most two fetches more than there are rows left.
THEOREM EndsNearerHolds == Spec => [](Left \in 0..(total - pos + 2)) /\ EndsNearer
<1>1. TypeOK => Left \in 0..(total - pos + 2)
  BY DEF TypeOK, Left
<1>2. TypeOK /\ [Next]_vars => [pc # "idle" => Left' < Left]_vars
  <2> SUFFICES ASSUME TypeOK, Next, pc # "idle" PROVE Left' < Left
    BY DEF vars
  <2>1. /\ Step \/ Leave
        /\ total \in Nat /\ pos \in 0..total /\ pc \in {"skip", "emit"}
    BY DEF Next, SetLimit, SetOffset, Each, Rows, Enter, Close, TypeOK
  <2>2. ASSUME total' = total, pos' \in {pos, pos + 1}, pc' \in {"skip", "emit", "idle"},
               \/ pos' = pos + 1 /\ (pc' = pc \/ pc' = "emit")
               \/ pc = "skip" /\ pc' = "emit"
               \/ pc' = "idle"
        PROVE  Left' < Left
    BY <2>1, <2>2 DEF Left
  <2>3. CASE SkipRow
    BY <2>1, <2>2, <2>3 DEF SkipRow, TakesRow
  <2>4. CASE SkipEnds
    BY <2>1, <2>2, <2>4, FetchMoves DEF SkipEnds, HitsSqlCode
  <2>5. CASE EmitRow
    BY <2>1, <2>2, <2>5 DEF EmitRow, TakesRow
  <2>6. CASE EmitEnds
    BY <2>1, <2>2, <2>6, FetchMoves DEF EmitEnds, HitsSqlCode
  <2>7. CASE Raises
    BY <2>1, <2>2, <2>7, FetchMoves DEF Raises
  <2>8. CASE Leave
    BY <2>1, <2>2, <2>8 DEF Leave
  <2>9. QED
    BY <2>1, <2>3, <2>4, <2>5, <2>6, <2>7, <2>8 DEF Step
<1>3. QED
  BY <1>1, <1>2, TypeCorrect, PTL DEF Spec, EndsNearer
=============================================================================
