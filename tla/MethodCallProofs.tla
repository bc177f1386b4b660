-------------------------- MODULE MethodCallProofs --------------------------
(***************************************************************************)
(* The properties of MethodCall for any number of Method objects, with any *)
(* number of parameters, and calls nested in one another to any depth.     *)
(***************************************************************************)
EXTENDS MethodCall, SequenceTheorems, TLAPS

-----------------------------------------------------------------------------
(* The invariant.                                                          *)

\* What the place of a frame says of it.
Placed(f) ==
  /\ f.id <= calls
  /\ f.i <= f.n
  /\ f.lost <= f.i
  /\ (f.kind = "missing") <=> (f.pc \in {"first", "percent"})
  /\ (f.pc = "block") => (f.kind = "each")
  /\ (f.pc = "converting") => (f.kind \in {"call", "set"})
  /\ (f.kind = "set") => (f.n = 1)
  /\ (f.kind = "each") => (f.n = NumArgs)
  /\ (f.pc \in {"converting", "block"}) => (f.i < f.n)

\* The calls in progress are numbered in the order they were begun in.
Stacked ==
  /\ stack \in Seq(Frame)
  /\ calls \in Nat
  /\ \A d \in 1..Len(stack) : Placed(stack[d])
  /\ \A d \in 1..Len(stack), e \in 1..Len(stack) :
       (d < e /\ stack[e].kind # "missing") => (stack[d].id < stack[e].id)

\* The iterator of a call that rewound it last is where the call is.
Turn(f) ==
  /\ (f.kind \in {"call", "each"}) => (f.id <= rewinder[f.m])
  /\ (f.kind \in {"call", "each"} /\ rewinder[f.m] = f.id) => (at[f.m] = f.i + 1)
  /\ (f.pc \in {"converting", "block"} /\ (f.kind = "set" \/ rewinder[f.m] = f.id))
       => (f.param = f.i + 1)

InTurn ==
  /\ at \in [Methods -> 1..(NumArgs + 1)]
  /\ rewinder \in [Methods -> Nat]
  /\ \A m \in Methods : rewinder[m] <= calls
  /\ \A d \in 1..Len(stack) : Turn(stack[d])

\* Only the innermost call has slots in the list; they are its last ones, and all of
\* them if it emptied the list last.
Own(d) ==
  /\ \A k \in 1..Len(slots) :
       (slots[k].by = stack[d].id) =>
         /\ \A e \in 1..Len(stack) : d < e => stack[e].kind = "missing"
         /\ 1 <= slots[k].arg
         /\ slots[k].arg <= stack[d].i
         /\ \A j \in 1..Len(slots) :
              k < j => slots[j].by = stack[d].id /\ slots[k].arg < slots[j].arg
  /\ (owner = stack[d].id /\ stack[d].kind # "each") =>
         /\ \A e \in 1..Len(stack) : d < e => stack[e].kind = "missing"
         /\ Len(slots) = stack[d].i - stack[d].lost
         /\ \A k \in 1..Len(slots) : slots[k].by = stack[d].id

OwnSlots ==
  /\ slots \in Seq(Slot)
  /\ owner \in Nat
  /\ owner <= calls
  /\ \A d \in 1..Len(stack) : (stack[d].kind # "missing") => Own(d)

\* What reached the server last.
InOrder ==
  /\ last.list \in Seq(Slot) /\ last.id \in Nat
  /\ SentAsGiven
  /\ AnswerIsOwn
  /\ OwnComeLast

IInv == Stacked /\ InTurn /\ OwnSlots /\ InOrder

-----------------------------------------------------------------------------
(* Sequences.                                                              *)

\* The last element and what is before it.
LEMMA FrontAndLast ==
  ASSUME NEW S, NEW s \in Seq(S), s # <<>>
  PROVE  /\ Len(s) \in Nat \ {0}
         /\ Last(s) = s[Len(s)]
         /\ Last(s) \in S
         /\ Front(s) \in Seq(S)
         /\ Len(Front(s)) = Len(s) - 1
         /\ \A i \in 1..(Len(s) - 1) : Front(s)[i] = s[i]
<1>1. Len(s) \in Nat \ {0}
  BY EmptySeq
<1>2. Last(s) = s[Len(s)] /\ Last(s) \in S
  BY <1>1, ElementOfSeq DEF Last
<1>3. \A i \in 1..(Len(s) - 1) : s[i] \in S
  BY <1>1, ElementOfSeq
<1>4. 1 \in Int /\ Len(s) - 1 \in Int
  BY <1>1
<1>5. /\ SubSeq(s, 1, Len(s) - 1) \in Seq(S)
      /\ Len(SubSeq(s, 1, Len(s) - 1)) = IF 1 <= Len(s) - 1 THEN (Len(s) - 1) - 1 + 1 ELSE 0
      /\ \A i \in 1..((Len(s) - 1) - 1 + 1) : SubSeq(s, 1, Len(s) - 1)[i] = s[1 + i - 1]
  BY <1>3, <1>4, SubSeqProperties
<1>6. /\ Front(s) \in Seq(S)
      /\ Len(Front(s)) = IF 1 <= Len(s) - 1 THEN (Len(s) - 1) - 1 + 1 ELSE 0
      /\ \A i \in 1..((Len(s) - 1) - 1 + 1) : Front(s)[i] = s[1 + i - 1]
  BY <1>5 DEF Front
<1>7. Len(Front(s)) = Len(s) - 1
  <2>1. \A n \in Nat \ {0} : (IF 1 <= n - 1 THEN (n - 1) - 1 + 1 ELSE 0) = n - 1
    OBVIOUS
  <2>2. (IF 1 <= Len(s) - 1 THEN (Len(s) - 1) - 1 + 1 ELSE 0) = Len(s) - 1
    BY <1>1, <2>1
  <2>3. QED
    BY <1>6, <2>2
<1>8. ASSUME NEW i \in 1..(Len(s) - 1) PROVE Front(s)[i] = s[i]
  <2>1. i \in 1..((Len(s) - 1) - 1 + 1) /\ 1 + i - 1 = i
    BY <1>1
  <2>2. QED
    BY <1>6, <2>1
<1>9. QED
  BY <1>1, <1>2, <1>6, <1>7, <1>8

\* The last element is replaced.
LEMMA Replaced ==
  ASSUME NEW S, NEW s \in Seq(S), s # <<>>, NEW g \in S
  PROVE  /\ Append(Front(s), g) \in Seq(S)
         /\ Len(Append(Front(s), g)) = Len(s)
         /\ \A i \in 1..Len(s) :
              Append(Front(s), g)[i] = IF i = Len(s) THEN g ELSE s[i]
<1>1. /\ Len(s) \in Nat \ {0} /\ Front(s) \in Seq(S) /\ Len(Front(s)) = Len(s) - 1
      /\ \A i \in 1..(Len(s) - 1) : Front(s)[i] = s[i]
  BY FrontAndLast
<1> DEFINE front == Front(s)
<1>2. front \in Seq(S) /\ Len(front) = Len(s) - 1 /\ \A i \in 1..(Len(s) - 1) : front[i] = s[i]
  BY <1>1
<1> HIDE DEF front
<1>3. /\ Append(front, g) \in Seq(S) /\ Len(Append(front, g)) = Len(front) + 1
      /\ \A i \in 1..(Len(front) + 1) :
           Append(front, g)[i] = IF i = Len(front) + 1 THEN g ELSE front[i]
  BY <1>2
<1>4. QED
  BY <1>1, <1>2, <1>3 DEF front

\* An element is added.
LEMMA Pushed ==
  ASSUME NEW S, NEW s \in Seq(S), NEW g \in S
  PROVE  /\ Append(s, g) \in Seq(S)
         /\ Len(Append(s, g)) = Len(s) + 1
         /\ \A i \in 1..(Len(s) + 1) :
              Append(s, g)[i] = IF i = Len(s) + 1 THEN g ELSE s[i]
OBVIOUS

-----------------------------------------------------------------------------
(* The stack grows, moves and unwinds.                                     *)

\* A call begins with a frame of its own number.
LEMMA PushKeepsOrder ==
  ASSUME Stacked, NEW g \in Frame, stack' = Append(stack, g), calls' \in Nat, calls <= calls',
         Placed(g)', (g.kind # "missing") => (calls < g.id)
  PROVE  Stacked'
<1>1. /\ stack' \in Seq(Frame) /\ Len(stack') = Len(stack) + 1
      /\ \A i \in 1..(Len(stack) + 1) : stack'[i] = IF i = Len(stack) + 1 THEN g ELSE stack[i]
  BY Pushed DEF Stacked
<1>2. Len(stack) \in Nat /\ calls \in Nat
  BY LenProperties DEF Stacked
<1>3. \A d \in 1..Len(stack) : Placed(stack[d]) /\ stack[d].id \in Nat
  <2> SUFFICES ASSUME NEW d \in 1..Len(stack) PROVE Placed(stack[d]) /\ stack[d].id \in Nat
    OBVIOUS
  <2>1. stack[d] \in Frame
    BY <1>2, ElementOfSeq DEF Stacked
  <2>2. QED
    BY <2>1 DEF Stacked, Frame
<1>4. \A d \in 1..Len(stack) : stack[d].id <= calls /\ Placed(stack[d])'
  BY <1>2, <1>3 DEF Placed
<1>5. \A d \in 1..Len(stack') : Placed(stack[d])'
  BY <1>1, <1>2, <1>4
<1>6. ASSUME NEW d \in 1..Len(stack'), NEW e \in 1..Len(stack'), d < e, stack'[e].kind # "missing"
      PROVE  stack'[d].id < stack'[e].id
  <2>1. d \in 1..Len(stack) /\ stack'[d] = stack[d]
    BY <1>1, <1>2, <1>6
  <2>2. CASE e = Len(stack) + 1
    <3>1. calls < g.id /\ stack'[e] = g /\ g.id \in Nat
      BY <1>1, <1>2, <1>6, <2>2 DEF Frame
    <3>2. QED
      BY <1>2, <1>3, <1>4, <2>1, <3>1
  <2>3. CASE e # Len(stack) + 1
    <3>1. e \in 1..Len(stack) /\ stack'[e] = stack[e]
      BY <1>1, <1>2, <1>6, <2>3
    <3>2. stack[d].id < stack[e].id
      BY <1>6, <2>1, <3>1 DEF Stacked
    <3>3. QED
      BY <2>1, <3>1, <3>2
  <2>4. QED
    BY <2>2, <2>3
<1>7. QED
  BY <1>1, <1>5, <1>6 DEF Stacked

\* The innermost call moves on.
LEMMA MoveKeepsOrder ==
  ASSUME Stacked, stack # <<>>, NEW g \in Frame, stack' = Append(Front(stack), g),
         calls' = calls, Placed(g), g.kind = Last(stack).kind, g.id = Last(stack).id
  PROVE  Stacked'
<1>1. /\ stack' \in Seq(Frame) /\ Len(stack') = Len(stack)
      /\ \A i \in 1..Len(stack) : stack'[i] = IF i = Len(stack) THEN g ELSE stack[i]
  BY Replaced DEF Stacked
<1>2. Len(stack) \in Nat \ {0} /\ Last(stack) = stack[Len(stack)] /\ calls \in Nat
  BY FrontAndLast DEF Stacked
<1>3. \A d \in 1..Len(stack) : stack'[d].kind = stack[d].kind /\ stack'[d].id = stack[d].id
  BY <1>1, <1>2
<1>4. \A d \in 1..Len(stack) : Placed(stack'[d])
  BY <1>1 DEF Stacked
<1>5. \A d \in 1..Len(stack) : Placed(stack[d])'
  BY <1>4, <1>1 DEF Placed
<1>6. QED
  BY <1>1, <1>2, <1>3, <1>5 DEF Stacked

\* What is left of the stack is as it was, but for the attempt a method_missing is at.
Unwinds ==
  /\ stack' \in Seq(Frame)
  /\ Len(stack') <= Len(stack)
  /\ \A d \in 1..Len(stack') :
       \/ stack'[d] = stack[d]
       \/ stack[d].kind = "missing" /\ stack'[d] = [stack[d] EXCEPT !.pc = "percent"]

\* Frame by frame.
LEMMA Kept ==
  ASSUME Stacked, Unwinds
  PROVE  /\ Len(stack) \in Nat /\ Len(stack') \in Nat
         /\ \A d \in 1..Len(stack') :
              /\ d \in 1..Len(stack)
              /\ stack'[d].kind = stack[d].kind /\ stack'[d].id = stack[d].id
              /\ stack'[d].m = stack[d].m /\ stack'[d].n = stack[d].n
              /\ stack'[d].i = stack[d].i /\ stack'[d].lost = stack[d].lost
              /\ stack'[d].param = stack[d].param
              /\ Placed(stack'[d])
              /\ (stack[d].kind # "missing") => (stack'[d].pc = stack[d].pc)
<1>1. Len(stack) \in Nat /\ Len(stack') \in Nat /\ Len(stack') <= Len(stack)
  BY LenProperties DEF Stacked, Unwinds
<1>2. SUFFICES ASSUME NEW d \in 1..Len(stack')
      PROVE  /\ d \in 1..Len(stack)
             /\ stack'[d].kind = stack[d].kind /\ stack'[d].id = stack[d].id
             /\ stack'[d].m = stack[d].m /\ stack'[d].n = stack[d].n
             /\ stack'[d].i = stack[d].i /\ stack'[d].lost = stack[d].lost
             /\ stack'[d].param = stack[d].param
             /\ Placed(stack'[d])
             /\ (stack[d].kind # "missing") => (stack'[d].pc = stack[d].pc)
  BY <1>1
<1>3. d \in 1..Len(stack)
  BY <1>1
<1>4. stack[d] \in Frame /\ Placed(stack[d])
  BY <1>3, ElementOfSeq DEF Stacked
<1>5. CASE stack'[d] = stack[d]
  BY <1>3, <1>4, <1>5
<1>6. CASE stack[d].kind = "missing" /\ stack'[d] = [stack[d] EXCEPT !.pc = "percent"]
  BY <1>3, <1>4, <1>6 DEF Frame, Placed
<1>7. QED
  BY <1>5, <1>6 DEF Unwinds

\* A call returns or raises: the order stays.
LEMMA UnwindKeepsOrder ==
  ASSUME Stacked, Unwinds, calls' = calls
  PROVE  Stacked'
<1>1. \A d \in 1..Len(stack') : Placed(stack'[d])
  BY Kept
<1>2. \A d \in 1..Len(stack') : Placed(stack[d])'
  BY <1>1 DEF Placed
<1>3. \A d \in 1..Len(stack'), e \in 1..Len(stack') :
        (d < e /\ stack'[e].kind # "missing") => (stack'[d].id < stack'[e].id)
  BY Kept DEF Stacked
<1>4. QED
  BY <1>2, <1>3 DEF Stacked, Unwinds

\* So do the turns.
LEMMA UnwindKeepsTurn ==
  ASSUME Stacked, InTurn, Unwinds, UNCHANGED <<at, rewinder, calls>>
  PROVE  InTurn'
<1>1. \A d \in 1..Len(stack') : Turn(stack'[d])
  <2> SUFFICES ASSUME NEW d \in 1..Len(stack') PROVE Turn(stack'[d])
    OBVIOUS
  <2>1. Turn(stack[d]) /\ d \in 1..Len(stack) /\ Placed(stack[d])
    BY Kept DEF InTurn, Stacked
  <2>2. CASE stack[d].kind = "missing"
    BY <2>1, <2>2, Kept DEF Turn, Placed
  <2>3. CASE stack[d].kind # "missing"
    BY <2>1, <2>3, Kept DEF Turn
  <2>4. QED
    BY <2>2, <2>3
<1>2. \A d \in 1..Len(stack') : Turn(stack[d])'
  BY <1>1 DEF Turn
<1>3. QED
  BY <1>2 DEF InTurn

\* And the claims to slots.
LEMMA UnwindKeepsSlots ==
  ASSUME Stacked, OwnSlots, Unwinds, UNCHANGED <<slots, owner, calls>>
  PROVE  OwnSlots'
<1>1. SUFFICES ASSUME NEW d \in 1..Len(stack'), stack'[d].kind # "missing" PROVE Own(d)'
  BY DEF OwnSlots
<1>2. Own(d) /\ d \in 1..Len(stack)
  BY <1>1, Kept DEF OwnSlots
<1>3. QED
  BY <1>1, <1>2, Kept DEF Own

-----------------------------------------------------------------------------
(* The slots and the turns when a call begins and when it moves.           *)

\* What the stack and its innermost frame are.
LEMMA Innermost ==
  ASSUME Stacked, stack # <<>>
  PROVE  /\ Len(stack) \in Nat \ {0} /\ Len(stack) \in 1..Len(stack)
         /\ Last(stack) = stack[Len(stack)] /\ Last(stack) \in Frame /\ Placed(Last(stack))
<1>1. /\ Len(stack) \in Nat \ {0} /\ Last(stack) = stack[Len(stack)]
      /\ Last(stack) \in Frame
  BY FrontAndLast DEF Stacked
<1>2. Len(stack) \in 1..Len(stack)
  BY <1>1
<1>3. Placed(stack[Len(stack)])
  BY <1>2 DEF Stacked
<1>4. QED
  BY <1>1, <1>2, <1>3

\* Frames are frames.
LEMMA FrameTypes ==
  ASSUME Stacked, NEW d \in 1..Len(stack)
  PROVE  stack[d] \in Frame /\ Placed(stack[d]) /\ Len(stack) \in Nat
BY ElementOfSeq, LenProperties DEF Stacked

\* Slots are slots.
LEMMA SlotTypes ==
  ASSUME OwnSlots, NEW k \in 1..Len(slots)
  PROVE  /\ slots[k] \in Slot /\ slots[k].arg \in Nat /\ slots[k].by \in Nat
         /\ Len(slots) \in Nat
<1>1. slots[k] \in Slot /\ Len(slots) \in Nat
  BY ElementOfSeq, LenProperties DEF OwnSlots
<1>2. QED
  BY <1>1 DEF Slot

\* A call that empties the list is the only one with a claim to it.
LEMMA ResetKeepsSlots ==
  ASSUME Stacked, OwnSlots, NEW g \in Frame, stack' = Append(stack, g), calls' = calls + 1,
         g.id = calls + 1, g.i = 0, g.lost = 0, Resets
  PROVE  OwnSlots'
<1>1. /\ Len(stack') = Len(stack) + 1
      /\ \A i \in 1..(Len(stack) + 1) : stack'[i] = IF i = Len(stack) + 1 THEN g ELSE stack[i]
  BY Pushed DEF Stacked
<1>2. Len(stack) \in Nat /\ calls \in Nat
  BY LenProperties DEF Stacked
<1>3. slots' = <<>> /\ owner' = calls + 1 /\ slots' \in Seq(Slot) /\ Len(slots') = 0
  <2>1. slots' = <<>> /\ owner' = calls + 1
    BY DEF Resets
  <2>2. QED
    BY <2>1, EmptySeq
<1>4. ASSUME NEW d \in 1..Len(stack'), stack'[d].kind # "missing" PROVE Own(d)'
  <2>1. CASE d = Len(stack) + 1
    <3>1. stack'[d] = g /\ \A e \in 1..Len(stack') : ~(d < e)
      BY <1>1, <1>2, <2>1
    <3>2. QED
      BY <1>1, <1>2, <1>3, <3>1 DEF Own
  <2>2. CASE d # Len(stack) + 1
    <3>1. d \in 1..Len(stack) /\ stack'[d] = stack[d]
      BY <1>1, <1>2, <2>2
    <3>2. stack[d] \in Frame /\ Placed(stack[d])
      BY <3>1, FrameTypes
    <3>3. owner' # stack'[d].id
      BY <1>2, <1>3, <3>1, <3>2 DEF Frame, Placed
    <3>4. QED
      BY <1>3, <3>3 DEF Own
  <2>3. QED
    BY <2>1, <2>2
<1>5. QED
  BY <1>2, <1>3, <1>4 DEF OwnSlots

\* A call that rewinds its Method takes its turn there.
LEMMA RewindKeepsTurn ==
  ASSUME Stacked, InTurn, NEW g \in Frame, stack' = Append(stack, g), calls' = calls + 1,
         g.kind \in {"call", "each"}, g.id = calls + 1, g.i = 0, g.pc = "args", Rewinds(g.m)
  PROVE  InTurn'
<1>1. /\ Len(stack') = Len(stack) + 1
      /\ \A i \in 1..(Len(stack) + 1) : stack'[i] = IF i = Len(stack) + 1 THEN g ELSE stack[i]
  BY Pushed DEF Stacked
<1>2. Len(stack) \in Nat /\ calls \in Nat /\ g.m \in Methods
  BY LenProperties DEF Stacked, Frame
<1>3. /\ at' = [at EXCEPT ![g.m] = 1] /\ rewinder' = [rewinder EXCEPT ![g.m] = calls + 1]
      /\ at' \in [Methods -> 1..(NumArgs + 1)] /\ rewinder' \in [Methods -> Nat]
  BY <1>2, CountsAssumption DEF Rewinds, InTurn
<1>4. ASSUME NEW m \in Methods PROVE rewinder'[m] <= calls' /\ rewinder[m] <= rewinder'[m]
  BY <1>2, <1>3 DEF InTurn
<1>5. ASSUME NEW d \in 1..Len(stack') PROVE Turn(stack[d])'
  <2>1. CASE d = Len(stack) + 1
    <3>1. stack'[d] = g
      BY <1>1, <1>2, <2>1
    <3>2. at'[g.m] = 1 /\ rewinder'[g.m] = calls + 1
      BY <1>2, <1>3 DEF InTurn
    <3>3. QED
      BY <1>2, <3>1, <3>2 DEF Turn, Frame
  <2>2. CASE d # Len(stack) + 1
    <3>1. d \in 1..Len(stack) /\ stack'[d] = stack[d]
      BY <1>1, <1>2, <2>2
    <3>2. stack[d] \in Frame /\ Placed(stack[d]) /\ Turn(stack[d])
      BY <3>1, FrameTypes DEF InTurn
    <3>3. stack[d].m \in Methods /\ stack[d].id \in Nat /\ stack[d].id <= calls
      BY <3>2 DEF Frame, Placed
    <3>4. CASE stack[d].m = g.m
      <4>1. rewinder'[stack[d].m] = calls + 1 /\ rewinder[stack[d].m] \in Nat
        BY <1>2, <1>3, <3>4 DEF InTurn
      <4>2. stack[d].id <= rewinder'[stack[d].m] /\ rewinder'[stack[d].m] # stack[d].id
        BY <1>2, <3>3, <4>1
      <4>3. stack[d].pc \in {"converting", "block"} /\ stack[d].kind = "set"
              => stack[d].param = stack[d].i + 1
        BY <3>2 DEF Turn
      <4>4. QED
        BY <3>1, <4>2, <4>3 DEF Turn
    <3>5. CASE stack[d].m # g.m
      <4>1. rewinder'[stack[d].m] = rewinder[stack[d].m] /\ at'[stack[d].m] = at[stack[d].m]
        BY <1>3, <3>3, <3>5 DEF InTurn
      <4>2. QED
        BY <3>1, <3>2, <4>1 DEF Turn
    <3>6. QED
      BY <3>4, <3>5
  <2>3. QED
    BY <2>1, <2>2
<1>6. QED
  BY <1>3, <1>4, <1>5 DEF InTurn

\* A frame that is no call of a Method takes no turn.
LEMMA OtherKeepsTurn ==
  ASSUME Stacked, InTurn, NEW g \in Frame, stack' = Append(stack, g), calls' \in Nat, calls <= calls',
         g.kind \in {"set", "missing"}, g.pc \in {"args", "first"}, UNCHANGED <<at, rewinder>>
  PROVE  InTurn'
<1>1. /\ Len(stack') = Len(stack) + 1
      /\ \A i \in 1..(Len(stack) + 1) : stack'[i] = IF i = Len(stack) + 1 THEN g ELSE stack[i]
  BY Pushed DEF Stacked
<1>2. Len(stack) \in Nat /\ calls \in Nat
  BY LenProperties DEF Stacked
<1>3. ASSUME NEW d \in 1..Len(stack') PROVE Turn(stack[d])'
  <2>1. CASE d = Len(stack) + 1
    BY <1>1, <1>2, <2>1 DEF Turn
  <2>2. CASE d # Len(stack) + 1
    <3>1. d \in 1..Len(stack) /\ stack'[d] = stack[d]
      BY <1>1, <1>2, <2>2
    <3>2. QED
      BY <3>1 DEF Turn, InTurn
  <2>3. QED
    BY <2>1, <2>2
<1>4. \A m \in Methods : rewinder'[m] <= calls'
  BY <1>2 DEF InTurn
<1>5. QED
  BY <1>3, <1>4 DEF InTurn

\* The calls around the innermost one have no slots.
LEMMA OthersHaveNone ==
  ASSUME Stacked, OwnSlots, stack # <<>>, Last(stack).kind # "missing",
         NEW d \in 1..Len(stack), d # Len(stack), stack[d].kind # "missing"
  PROVE  /\ \A k \in 1..Len(slots) : slots[k].by # stack[d].id
         /\ owner = stack[d].id => stack[d].kind = "each"
         /\ stack[d].id < Last(stack).id
<1>1. /\ Len(stack) \in 1..Len(stack) /\ d < Len(stack)
      /\ Last(stack) = stack[Len(stack)] /\ stack[Len(stack)].kind # "missing"
  BY Innermost
<1>2. Own(d)
  BY DEF OwnSlots
<1>3. QED
  BY <1>1, <1>2 DEF Own, Stacked

\* One argument is done: the turn passes to the next.
LEMMA AdvanceKeepsTurn ==
  ASSUME Stacked, InTurn, stack # <<>>, NEW g \in Frame, stack' = Append(Front(stack), g),
         UNCHANGED <<rewinder, calls>>, Last(stack).kind # "missing",
         Last(stack).pc \in {"converting", "block"}, Advances(Last(stack)),
         g.kind = Last(stack).kind, g.id = Last(stack).id, g.m = Last(stack).m,
         g.i = Last(stack).i + 1, g.pc = "args"
  PROVE  InTurn'
<1> DEFINE f == stack[Len(stack)]
<1>1. /\ stack' \in Seq(Frame) /\ Len(stack') = Len(stack)
      /\ \A i \in 1..Len(stack) : stack'[i] = IF i = Len(stack) THEN g ELSE stack[i]
  BY Replaced DEF Stacked
<1>2. /\ Len(stack) \in Nat \ {0} /\ Len(stack) \in 1..Len(stack) /\ Last(stack) = f
      /\ f \in Frame /\ Placed(f) /\ Turn(f)
  BY Innermost DEF InTurn
<1>3. /\ f.m \in Methods /\ f.id \in Nat /\ f.i \in 0..NumArgs /\ f.n \in 0..NumArgs
      /\ f.i < f.n /\ NumArgs \in Nat
  BY <1>2, CountsAssumption DEF Frame, Placed
<1>4. /\ at' \in [Methods -> 1..(NumArgs + 1)]
      /\ \A m \in Methods : m # f.m => at'[m] = at[m]
      /\ (f.kind = "set") => (at' = at)
      /\ (f.kind # "set") => (at'[f.m] = IF at[f.m] <= NumArgs THEN at[f.m] + 1 ELSE at[f.m])
  <2>1. CASE f.kind = "set"
    BY <1>2, <2>1 DEF Advances, InTurn
  <2>2. CASE f.kind # "set"
    <3>1. at' = [at EXCEPT ![f.m] = IF at[f.m] <= NumArgs THEN at[f.m] + 1 ELSE at[f.m]]
      BY <1>2, <2>2 DEF Advances
    <3>2. (IF at[f.m] <= NumArgs THEN at[f.m] + 1 ELSE at[f.m]) \in 1..(NumArgs + 1)
      BY <1>3 DEF InTurn
    <3>3. QED
      BY <1>3, <2>2, <3>1, <3>2 DEF InTurn
  <2>3. QED
    BY <2>1, <2>2
<1>5. ASSUME NEW d \in 1..Len(stack') PROVE Turn(stack[d])'
  <2>1. CASE d = Len(stack)
    <3>1. stack'[d] = g
      BY <1>1, <1>2, <2>1
    <3>2. CASE f.kind = "set"
      BY <1>2, <3>1, <3>2 DEF Turn
    <3>3. CASE f.kind # "set"
      <4>1. (rewinder[f.m] = f.id) => (at[f.m] = f.i + 1)
        BY <1>2, <3>3 DEF Turn, Frame
      <4>2. (rewinder[f.m] = f.id) => (at'[f.m] = f.i + 2)
        BY <1>3, <1>4, <3>3, <4>1, SMTT(30)
      <4>3. f.id <= rewinder[f.m]
        BY <1>2, <3>3 DEF Turn, Frame
      <4>4. QED
        BY <1>2, <1>3, <3>1, <4>2, <4>3 DEF Turn
    <3>4. QED
      BY <3>2, <3>3
  <2>2. CASE d # Len(stack)
    <3>1. d \in 1..Len(stack) /\ stack'[d] = stack[d] /\ d < Len(stack)
      BY <1>1, <1>2, <2>2
    <3>2. stack[d] \in Frame /\ Placed(stack[d]) /\ Turn(stack[d])
      BY <3>1, FrameTypes DEF InTurn
    <3>3. stack[d].id < f.id /\ stack[d].m \in Methods /\ stack[d].id \in Nat
      BY <1>2, <3>1, <3>2 DEF Stacked, Frame
    <3>4. CASE stack[d].m = f.m /\ f.kind # "set"
      <4>1. f.id <= rewinder[f.m] /\ rewinder[f.m] \in Nat
        BY <1>2, <1>3, <3>4 DEF Turn, InTurn, Frame
      <4>2. rewinder[f.m] # stack[d].id
        BY <1>3, <3>3, <4>1
      <4>3. QED
        BY <3>1, <3>2, <3>4, <4>2 DEF Turn
    <3>5. CASE stack[d].m # f.m \/ f.kind = "set"
      <4>1. at'[stack[d].m] = at[stack[d].m]
        BY <1>4, <3>3, <3>5
      <4>2. QED
        BY <3>1, <3>2, <4>1 DEF Turn
    <3>6. QED
      BY <3>4, <3>5
  <2>3. QED
    BY <2>1, <2>2
<1>6. QED
  BY <1>4, <1>5 DEF InTurn

\* Where no slot is filled the claims stay as they are.
LEMMA IdleKeepsSlots ==
  ASSUME Stacked, OwnSlots, stack # <<>>, NEW g \in Frame, stack' = Append(Front(stack), g),
         UNCHANGED <<slots, owner, calls>>,
         g.kind = Last(stack).kind, g.id = Last(stack).id, Last(stack).i <= g.i,
         (g.kind # "each") => (g.i - g.lost = Last(stack).i - Last(stack).lost)
  PROVE  OwnSlots'
<1> DEFINE f == stack[Len(stack)]
<1>1. /\ Len(stack') = Len(stack)
      /\ \A i \in 1..Len(stack) : stack'[i] = IF i = Len(stack) THEN g ELSE stack[i]
  BY Replaced DEF Stacked
<1>2. /\ Len(stack) \in Nat \ {0} /\ Len(stack) \in 1..Len(stack) /\ Last(stack) = f
      /\ f \in Frame
  BY Innermost
<1>3. \A d \in 1..Len(stack) : stack'[d].kind = stack[d].kind /\ stack'[d].id = stack[d].id
  BY <1>1, <1>2
<1>4. ASSUME NEW d \in 1..Len(stack'), stack'[d].kind # "missing" PROVE Own(d)'
  <2>1. Own(d) /\ d \in 1..Len(stack)
    BY <1>1, <1>3, <1>4 DEF OwnSlots
  <2>2. stack[d].i \in Nat /\ stack'[d].i \in Nat /\ stack[d].i <= stack'[d].i
    <3>1. stack[d] \in Frame
      BY <2>1, FrameTypes
    <3>2. stack[d].i \in Nat /\ g.i \in Nat
      BY <3>1, CountsAssumption DEF Frame
    <3>3. QED
      BY <1>1, <1>2, <2>1, <3>2
  <2>3. (stack[d].kind # "each") => (stack'[d].i - stack'[d].lost = stack[d].i - stack[d].lost)
    BY <1>1, <1>2, <2>1
  <2>4. ASSUME NEW k \in 1..Len(slots), slots[k].by = stack[d].id
        PROVE  /\ \A e \in 1..Len(stack) : d < e => stack'[e].kind = "missing"
               /\ 1 <= slots[k].arg /\ slots[k].arg <= stack'[d].i
               /\ \A j \in 1..Len(slots) :
                    k < j => slots[j].by = stack[d].id /\ slots[k].arg < slots[j].arg
    <3>1. /\ \A e \in 1..Len(stack) : d < e => stack[e].kind = "missing"
          /\ 1 <= slots[k].arg /\ slots[k].arg <= stack[d].i
          /\ \A j \in 1..Len(slots) :
               k < j => slots[j].by = stack[d].id /\ slots[k].arg < slots[j].arg
      BY <2>1, <2>4 DEF Own
    <3>2. slots[k].arg \in Nat
      BY SlotTypes
    <3>3. slots[k].arg <= stack'[d].i
      BY <2>2, <3>1, <3>2
    <3>4. QED
      BY <1>3, <3>1, <3>3
  <2>5. ASSUME owner = stack[d].id, stack[d].kind # "each"
        PROVE  /\ \A e \in 1..Len(stack) : d < e => stack'[e].kind = "missing"
               /\ Len(slots) = stack'[d].i - stack'[d].lost
               /\ \A k \in 1..Len(slots) : slots[k].by = stack[d].id
    BY <1>3, <2>1, <2>3, <2>5 DEF Own
  <2>6. stack'[d].id = stack[d].id /\ stack'[d].kind = stack[d].kind
    BY <1>3, <2>1
  <2>7. QED
    BY <1>1, <2>4, <2>5, <2>6 DEF Own
<1>5. QED
  BY <1>4 DEF OwnSlots

\* A slot that is filled is the last one of the innermost call.
LEMMA FillKeepsSlots ==
  ASSUME Stacked, OwnSlots, stack # <<>>, NEW g \in Frame, stack' = Append(Front(stack), g),
         UNCHANGED <<owner, calls>>, Last(stack).kind \in {"call", "set"},
         g.kind = Last(stack).kind, g.id = Last(stack).id, g.lost = Last(stack).lost,
         g.i = Last(stack).i + 1,
         slots' = Append(slots, [by |-> Last(stack).id, arg |-> Last(stack).i + 1])
  PROVE  OwnSlots'
<1> DEFINE f == stack[Len(stack)]
           new == [by |-> f.id, arg |-> f.i + 1]
<1>1. /\ Len(stack') = Len(stack)
      /\ \A i \in 1..Len(stack) : stack'[i] = IF i = Len(stack) THEN g ELSE stack[i]
  BY Replaced DEF Stacked
<1>2. /\ Len(stack) \in Nat \ {0} /\ Len(stack) \in 1..Len(stack) /\ Last(stack) = f
      /\ f \in Frame /\ Own(Len(stack)) /\ f.kind \notin {"missing", "each"}
  BY Innermost DEF OwnSlots
<1>3. /\ f.id \in Nat /\ f.i \in Nat /\ f.lost \in Nat /\ new \in Slot
      /\ new.by = f.id /\ new.arg = f.i + 1
  BY <1>2, CountsAssumption DEF Frame, Slot
<1>4. slots' = Append(slots, new)
  BY <1>2
<1> HIDE DEF new
<1>5. /\ slots' \in Seq(Slot) /\ Len(slots') = Len(slots) + 1 /\ Len(slots) \in Nat
      /\ \A k \in 1..(Len(slots) + 1) : slots'[k] = IF k = Len(slots) + 1 THEN new ELSE slots[k]
  BY <1>3, <1>4, Pushed DEF OwnSlots
<1>6. ASSUME NEW d \in 1..Len(stack'), stack'[d].kind # "missing" PROVE Own(d)'
  <2>1. CASE d = Len(stack)
    <3>1. stack'[d] = g /\ stack'[d].id = f.id /\ stack'[d].i = f.i + 1 /\ stack'[d].lost = f.lost
          /\ \A e \in 1..Len(stack') : ~(d < e)
      BY <1>1, <1>2, <2>1
    <3>2. ASSUME NEW k \in 1..Len(slots'), slots'[k].by = f.id
          PROVE  /\ 1 <= slots'[k].arg /\ slots'[k].arg <= f.i + 1
                 /\ \A j \in 1..Len(slots') :
                      k < j => slots'[j].by = f.id /\ slots'[k].arg < slots'[j].arg
      <4>1. CASE k = Len(slots) + 1
        <5>1. slots'[k] = new /\ \A j \in 1..Len(slots') : ~(k < j)
          BY <1>5, <4>1
        <5>2. QED
          BY <1>3, <5>1
      <4>2. CASE k # Len(slots) + 1
        <5>1. k \in 1..Len(slots) /\ slots'[k] = slots[k] /\ slots[k].arg \in Nat
          BY <1>5, <4>2, SlotTypes
        <5>2. /\ 1 <= slots[k].arg /\ slots[k].arg <= f.i
              /\ \A j \in 1..Len(slots) : k < j => slots[j].by = f.id /\ slots[k].arg < slots[j].arg
          BY <1>2, <3>2, <5>1 DEF Own
        <5>3. ASSUME NEW j \in 1..Len(slots'), k < j
              PROVE  slots'[j].by = f.id /\ slots'[k].arg < slots'[j].arg
          <6>1. CASE j = Len(slots) + 1
            BY <1>3, <1>5, <5>1, <5>2, <6>1, SMTT(30)
          <6>2. CASE j # Len(slots) + 1
            <7>1. j \in 1..Len(slots) /\ slots'[j] = slots[j]
              BY <1>5, <6>2
            <7>2. QED
              BY <5>1, <5>2, <5>3, <7>1
          <6>3. QED
            BY <6>1, <6>2
        <5>4. 1 <= slots'[k].arg /\ slots'[k].arg <= f.i + 1
          BY <1>3, <5>1, <5>2
        <5>5. QED
          BY <5>3, <5>4
      <4>3. QED
        BY <4>1, <4>2
    <3>3. ASSUME owner = f.id
          PROVE  /\ Len(slots') = (f.i + 1) - f.lost
                 /\ \A k \in 1..Len(slots') : slots'[k].by = f.id
      <4>1. Len(slots) = f.i - f.lost /\ \A k \in 1..Len(slots) : slots[k].by = f.id
        BY <1>2, <3>3 DEF Own
      <4>2. QED
        BY <1>3, <1>5, <4>1, SMTT(30)
    <3>4. QED
      BY <3>1, <3>2, <3>3 DEF Own
  <2>2. CASE d # Len(stack)
    <3>1. d \in 1..Len(stack) /\ stack'[d] = stack[d]
      BY <1>1, <1>2, <2>2
    <3>2. /\ \A k \in 1..Len(slots) : slots[k].by # stack[d].id
          /\ owner = stack[d].id => stack[d].kind = "each"
          /\ stack[d].id < f.id /\ stack[d].id \in Nat
      BY <1>2, <1>6, <2>2, <3>1, OthersHaveNone, FrameTypes, SMTT(30) DEF Frame
    <3>3. \A k \in 1..Len(slots') : slots'[k].by # stack'[d].id
      BY <1>3, <1>5, <3>1, <3>2
    <3>4. QED
      BY <3>1, <3>2, <3>3 DEF Own
  <2>3. QED
    BY <2>1, <2>2
<1>7. QED
  BY <1>5, <1>6 DEF OwnSlots

-----------------------------------------------------------------------------
(* The stack when a call ends.                                             *)

\* The next attempt of a method_missing: its frame moves on or goes.
LEMMA AttemptUnwinds ==
  ASSUME NEW s \in Seq(Frame), s # <<>>, Last(s).kind = "missing"
  PROVE  /\ NextAttempt(s) \in Seq(Frame) /\ Len(NextAttempt(s)) <= Len(s)
         /\ \A d \in 1..Len(NextAttempt(s)) :
              \/ NextAttempt(s)[d] = s[d]
              \/ s[d].kind = "missing" /\ NextAttempt(s)[d] = [s[d] EXCEPT !.pc = "percent"]
<1>1. /\ Len(s) \in Nat \ {0} /\ Last(s) = s[Len(s)] /\ Last(s) \in Frame
      /\ Front(s) \in Seq(Frame) /\ Len(Front(s)) = Len(s) - 1
      /\ \A i \in 1..(Len(s) - 1) : Front(s)[i] = s[i]
  BY FrontAndLast
<1> DEFINE f == Last(s)
           g == [f EXCEPT !.pc = "percent"]
<1>2. g \in Frame /\ g = [s[Len(s)] EXCEPT !.pc = "percent"]
  BY <1>1 DEF Frame
<1>3. CASE f.pc = "first"
  <2>1. NextAttempt(s) = Append(Front(s), g)
    BY <1>3 DEF NextAttempt
  <2> HIDE DEF g
  <2>2. /\ NextAttempt(s) \in Seq(Frame) /\ Len(NextAttempt(s)) = Len(s)
        /\ \A d \in 1..Len(s) : NextAttempt(s)[d] = IF d = Len(s) THEN g ELSE s[d]
    BY <1>2, <2>1, Replaced
  <2> DEFINE t == NextAttempt(s)
  <2>3. t \in Seq(Frame) /\ Len(t) = Len(s) /\ \A d \in 1..Len(s) : t[d] = IF d = Len(s) THEN g ELSE s[d]
    BY <2>2
  <2> HIDE DEF t
  <2>4. s[Len(s)].kind = "missing" /\ g = [s[Len(s)] EXCEPT !.pc = "percent"]
    BY <1>1, <1>2
  <2>5. \A d \in 1..Len(t) :
          \/ t[d] = s[d]
          \/ s[d].kind = "missing" /\ t[d] = [s[d] EXCEPT !.pc = "percent"]
    BY <1>1, <2>3, <2>4
  <2>6. Len(t) <= Len(s)
    BY <1>1, <2>3
  <2>7. QED
    BY <2>3, <2>5, <2>6 DEF t
<1>4. CASE f.pc # "first"
  <2>1. NextAttempt(s) = Front(s)
    BY <1>4 DEF NextAttempt
  <2> DEFINE t == Front(s)
  <2>2. /\ t \in Seq(Frame) /\ Len(t) = Len(s) - 1
        /\ \A i \in 1..(Len(s) - 1) : t[i] = s[i]
    BY <1>1
  <2>3. NextAttempt(s) = t
    BY <2>1
  <2> HIDE DEF t
  <2>4. Len(t) <= Len(s) /\ \A d \in 1..Len(t) : t[d] = s[d]
    BY <1>1, <2>2
  <2>5. QED
    BY <2>2, <2>3, <2>4
<1>5. QED
  BY <1>3, <1>4

\* The frames below the innermost.
LEMMA FrontUnwinds ==
  ASSUME NEW s \in Seq(Frame), s # <<>>
  PROVE  /\ Front(s) \in Seq(Frame) /\ Len(Front(s)) < Len(s)
         /\ \A d \in 1..Len(Front(s)) : Front(s)[d] = s[d]
<1>1. /\ Len(s) \in Nat \ {0} /\ Front(s) \in Seq(Frame) /\ Len(Front(s)) = Len(s) - 1
      /\ \A i \in 1..(Len(s) - 1) : Front(s)[i] = s[i]
  BY FrontAndLast
<1>2. QED
  BY <1>1

\* Two lots of frames.
LEMMA TwoFrontsUnwind ==
  ASSUME NEW s \in Seq(Frame), s # <<>>, Front(s) # <<>>
  PROVE  /\ Front(Front(s)) \in Seq(Frame) /\ Len(Front(Front(s))) < Len(s)
         /\ \A d \in 1..Len(Front(Front(s))) : Front(Front(s))[d] = s[d]
<1>1. /\ Front(s) \in Seq(Frame) /\ Len(Front(s)) < Len(s) /\ Len(s) \in Nat /\ Len(Front(s)) \in Nat
      /\ \A d \in 1..Len(Front(s)) : Front(s)[d] = s[d]
  BY FrontUnwinds, LenProperties
<1> DEFINE t == Front(s)
<1> HIDE DEF t
<1>2. t \in Seq(Frame) /\ t # <<>>
  BY <1>1 DEF t
<1>3. /\ Front(t) \in Seq(Frame) /\ Len(Front(t)) < Len(t) /\ Len(Front(t)) \in Nat
      /\ \A d \in 1..Len(Front(t)) : Front(t)[d] = t[d]
  BY <1>2, FrontUnwinds, LenProperties
<1>4. /\ Len(t) < Len(s) /\ Len(s) \in Nat /\ Len(t) \in Nat /\ \A d \in 1..Len(t) : t[d] = s[d]
  BY <1>1 DEF t
<1>5. /\ Front(t) \in Seq(Frame) /\ Len(Front(t)) < Len(s)
      /\ \A d \in 1..Len(Front(t)) : Front(t)[d] = s[d]
  BY <1>3, <1>4
<1>6. QED
  BY <1>5 DEF t

\* A call that returns.
LEMMA ReturnUnwinds ==
  ASSUME Stacked, stack # <<>>, Returns
  PROVE  Unwinds /\ Len(stack') < Len(stack)
<1>0. stack \in Seq(Frame)
  BY DEF Stacked
<1>1. CASE Front(stack) # <<>> /\ Last(Front(stack)).kind = "missing"
  <2>1. stack' = Front(Front(stack))
    BY <1>1 DEF Returns
  <2>2. Len(stack') < Len(stack) /\ stack' \in Seq(Frame)
        /\ \A d \in 1..Len(stack') : stack'[d] = stack[d]
    BY <1>0, <1>1, <2>1, TwoFrontsUnwind
  <2>3. QED
    BY <1>0, <2>2, LenProperties DEF Unwinds
<1>2. CASE ~(Front(stack) # <<>> /\ Last(Front(stack)).kind = "missing")
  <2>1. stack' = Front(stack)
    BY <1>2 DEF Returns
  <2>2. Len(stack') < Len(stack) /\ stack' \in Seq(Frame)
        /\ \A d \in 1..Len(stack') : stack'[d] = stack[d]
    BY <1>0, <2>1, FrontUnwinds
  <2>3. QED
    BY <1>0, <2>2, LenProperties DEF Unwinds
<1>3. QED
  BY <1>1, <1>2

\* A call that raises.
LEMMA RaiseUnwinds ==
  ASSUME Stacked, stack # <<>>, NEW error, stack' = Unwound(error)
  PROVE  Unwinds /\ Len(stack') < Len(stack)
<1>0. stack \in Seq(Frame)
  BY DEF Stacked
<1>1. CASE Front(stack) # <<>> /\ Last(Front(stack)).kind = "missing" /\ error = "no_method"
  <2> DEFINE below == Front(stack)
  <2>1. stack' = NextAttempt(below)
    BY <1>1 DEF Unwound
  <2>2. /\ below \in Seq(Frame) /\ Len(below) < Len(stack) /\ Len(stack) \in Nat /\ Len(below) \in Nat
        /\ \A d \in 1..Len(below) : below[d] = stack[d]
    BY <1>0, FrontUnwinds, LenProperties
  <2>3. below # <<>> /\ Last(below).kind = "missing"
    BY <1>1
  <2> HIDE DEF below
  <2>4. /\ stack' \in Seq(Frame) /\ Len(stack') <= Len(below)
        /\ \A d \in 1..Len(stack') :
             \/ stack'[d] = below[d]
             \/ below[d].kind = "missing" /\ stack'[d] = [below[d] EXCEPT !.pc = "percent"]
    BY <2>1, <2>2, <2>3, AttemptUnwinds
  <2>5. Len(stack') \in Nat
    BY <2>4, LenProperties
  <2>6. QED
    BY <2>2, <2>4, <2>5 DEF Unwinds
<1>2. CASE Front(stack) # <<>> /\ Last(Front(stack)).kind = "missing" /\ error # "no_method"
  <2>1. stack' = Front(Front(stack))
    BY <1>2 DEF Unwound
  <2>2. Len(stack') < Len(stack) /\ stack' \in Seq(Frame)
        /\ \A d \in 1..Len(stack') : stack'[d] = stack[d]
    BY <1>0, <1>2, <2>1, TwoFrontsUnwind
  <2>3. QED
    BY <1>0, <2>2, LenProperties DEF Unwinds
<1>3. CASE ~(Front(stack) # <<>> /\ Last(Front(stack)).kind = "missing")
  <2>1. stack' = Front(stack)
    BY <1>3 DEF Unwound
  <2>2. Len(stack') < Len(stack) /\ stack' \in Seq(Frame)
        /\ \A d \in 1..Len(stack') : stack'[d] = stack[d]
    BY <1>0, <2>1, FrontUnwinds
  <2>3. QED
    BY <1>0, <2>2, LenProperties DEF Unwinds
<1>4. QED
  BY <1>1, <1>2, <1>3

\* The result slot of a call that ends is nobody's.
LEMMA EndKeepsSlots ==
  ASSUME Stacked, OwnSlots, stack # <<>>, Last(stack).kind = "call", Unwinds,
         Len(stack') < Len(stack), UNCHANGED <<owner, calls>>,
         slots' = slots \/ slots' = Append(slots, [by |-> Last(stack).id, arg |-> 0])
  PROVE  OwnSlots'
<1> DEFINE f == Last(stack)
           new == [by |-> f.id, arg |-> 0]
<1>1. /\ Len(stack) \in Nat \ {0} /\ f \in Frame
  BY Innermost
<1>2. f.id \in Nat /\ new \in Slot /\ new.by = f.id
  BY <1>1 DEF Frame, Slot
<1>3. slots' = slots \/ slots' = Append(slots, new)
  OBVIOUS
<1> HIDE DEF new
<1>4. /\ slots' \in Seq(Slot) /\ Len(slots) \in Nat
      /\ \A k \in 1..Len(slots') : slots'[k] = new \/ (k \in 1..Len(slots) /\ slots'[k] = slots[k])
  <2>1. slots \in Seq(Slot) /\ Len(slots) \in Nat
    BY LenProperties DEF OwnSlots
  <2>2. CASE slots' = slots
    BY <2>1, <2>2
  <2>3. CASE slots' = Append(slots, new)
    <3>1. /\ slots' \in Seq(Slot) /\ Len(slots') = Len(slots) + 1
          /\ \A k \in 1..(Len(slots) + 1) : slots'[k] = IF k = Len(slots) + 1 THEN new ELSE slots[k]
      BY <1>2, <2>1, <2>3, Pushed
    <3>2. QED
      BY <2>1, <3>1
  <2>4. QED
    BY <1>3, <2>2, <2>3
<1>5. ASSUME NEW d \in 1..Len(stack'), stack'[d].kind # "missing" PROVE Own(d)'
  <2>1. d \in 1..Len(stack) /\ d # Len(stack) /\ stack'[d].kind = stack[d].kind
        /\ stack'[d].id = stack[d].id
    BY <1>1, <1>5, Kept
  <2>2. /\ \A k \in 1..Len(slots) : slots[k].by # stack[d].id
        /\ owner = stack[d].id => stack[d].kind = "each"
        /\ stack[d].id < f.id /\ stack[d].id \in Nat
    BY <1>5, <2>1, OthersHaveNone, FrameTypes DEF Frame
  <2>5. f.id # stack[d].id
    BY <1>2, <2>2
  <2>3. \A k \in 1..Len(slots') : slots'[k].by # stack'[d].id
    <3>1. ASSUME NEW k \in 1..Len(slots') PROVE slots'[k].by # stack[d].id
      <4>1. CASE slots'[k] = new
        BY <1>2, <2>5, <4>1
      <4>2. CASE k \in 1..Len(slots) /\ slots'[k] = slots[k]
        BY <2>2, <4>2
      <4>3. QED
        BY <1>4, <4>1, <4>2
    <3>2. QED
      BY <2>1, <3>1
  <2>4. QED
    BY <2>1, <2>2, <2>3 DEF Own
<1>6. QED
  BY <1>4, <1>5 DEF OwnSlots

-----------------------------------------------------------------------------
(* What is sent.                                                           *)

\* As long as nothing is sent, what was sent last stays in order.
LEMMA NothingSent ==
  ASSUME InOrder, UNCHANGED last
  PROVE  InOrder'
BY DEF InOrder, SentAsGiven, AnswerIsOwn, OwnComeLast

\* What the innermost call sends when all its arguments are done.
LEMMA SendInOrder ==
  ASSUME Stacked, OwnSlots, stack # <<>>, Last(stack).kind \in {"call", "set"},
         Last(stack).i = Last(stack).n, NEW void \in BOOLEAN, Sends(Last(stack), void),
         Last(stack).kind = "set" => void = TRUE,
         Last(stack).kind = "call" =>
           /\ passed'[Last(stack).m] = Last(stack).n
           /\ ResultSlot(Last(stack), void)
  PROVE  InOrder'
<1> DEFINE f == Last(stack)
<1>1. /\ Len(stack) \in Nat \ {0} /\ Len(stack) \in 1..Len(stack) /\ f = stack[Len(stack)]
      /\ f \in Frame /\ Placed(f)
  BY Innermost
<1>2. /\ f.id \in Nat /\ f.n \in Nat /\ f.lost \in Nat /\ f.lost <= f.n /\ f.kind # "missing"
      /\ f.kind # "each" /\ f.i = f.n
  BY <1>1, CountsAssumption DEF Frame, Placed
<1>3. Own(Len(stack))
  BY <1>1, <1>2 DEF OwnSlots
<1>4. slots \in Seq(Slot) /\ Len(slots) \in Nat /\ DOMAIN slots = 1..Len(slots)
  BY LenProperties DEF OwnSlots
<1>5. /\ last'.id = f.id /\ last'.n = f.n /\ last'.lost = f.lost /\ last'.list = slots
      /\ last'.void = void
      /\ last'.read = IF f.kind = "set" THEN <<>> ELSE ReadAt(slots', passed'[f.m], void)
  BY DEF Sends
<1>6. last'.mine = (owner = f.id)
  BY DEF Sends
<1>7. /\ \A k \in 1..Len(slots) : slots[k].by = f.id =>
           \A j \in 1..Len(slots) : k < j => slots[j].by = f.id /\ slots[k].arg < slots[j].arg
      /\ owner = f.id =>
           /\ Len(slots) = f.n - f.lost
           /\ \A k \in 1..Len(slots) : slots[k].by = f.id
  BY <1>1, <1>2, <1>3 DEF Own
<1> HIDE DEF f
<1>8. OwnComeLast'
  BY <1>4, <1>5, <1>7 DEF OwnComeLast
<1>9. SentAsGiven'
  <2> SUFFICES ASSUME last'.mine
               PROVE  /\ Len(last'.list) = last'.n - last'.lost
                      /\ \A k \in DOMAIN last'.list : last'.list[k].by = last'.id
                      /\ \A j, k \in DOMAIN last'.list :
                           j < k => last'.list[j].arg < last'.list[k].arg
    BY DEF SentAsGiven
  <2>1. owner = f.id
    BY <1>6
  <2>2. QED
    BY <1>4, <1>5, <1>7, <2>1
<1>10. AnswerIsOwn'
  <2> SUFFICES ASSUME last'.mine, ~last'.void
               PROVE  last'.read = <<[by |-> last'.id, arg |-> 0]>> <=> last'.lost = 0
    BY DEF AnswerIsOwn
  <2> DEFINE new == [by |-> f.id, arg |-> 0]
  <2>1. owner = f.id /\ ~void
    BY <1>5, <1>6
  <2>2. f.kind = "call"
    BY <2>1 DEF f
  <2>3. slots' = Append(slots, new) /\ passed'[f.m] = f.n
    BY <2>1, <2>2 DEF ResultSlot, f
  <2>4. new \in Slot
    BY <1>2 DEF Slot
  <2>5. last'.read = IF f.n >= Len(slots') THEN <<>> ELSE <<slots'[f.n + 1]>>
    BY <1>5, <2>1, <2>2, <2>3 DEF ReadAt
  <2> HIDE DEF new
  <2>6. /\ Len(slots') = Len(slots) + 1
        /\ \A k \in 1..(Len(slots) + 1) : slots'[k] = IF k = Len(slots) + 1 THEN new ELSE slots[k]
    BY <1>4, <2>3, <2>4, Pushed
  <2>7. Len(slots) = f.n - f.lost
    BY <1>7, <2>1
  <2>8. CASE f.lost = 0
    <3>1. Len(slots) = f.n /\ ~(f.n >= Len(slots'))
      BY <1>2, <2>6, <2>7, <2>8
    <3>2. slots'[f.n + 1] = new
      BY <1>2, <2>6, <3>1
    <3>3. last'.read = <<new>>
      BY <2>5, <3>1, <3>2
    <3>4. QED
      BY <1>5, <2>8, <3>3 DEF new
  <2>9. CASE f.lost # 0
    <3>1. f.n >= Len(slots')
      BY <1>2, <2>6, <2>7, <2>9
    <3>2. last'.read = <<>>
      BY <2>5, <3>1
    <3>3. <<>> # <<new>>
      OBVIOUS
    <3>4. QED
      BY <1>5, <2>9, <3>2, <3>3 DEF new
  <2>10. QED
    BY <2>8, <2>9
<1>11. QED
  BY <1>2, <1>4, <1>5, <1>8, <1>9, <1>10 DEF InOrder

-----------------------------------------------------------------------------
(* The invariant holds.                                                    *)

\* A frame that Pushes adds.
LEMMA NewFrame ==
  ASSUME NEW kind \in {"call", "set", "each", "missing"}, NEW id \in Nat, NEW m \in Methods,
         NEW n \in 0..NumArgs, NEW pc \in {"args", "first"}, Pushes(kind, id, m, n, pc)
  PROVE  \E g \in Frame :
           /\ stack' = Append(stack, g)
           /\ g.kind = kind /\ g.id = id /\ g.m = m /\ g.n = n /\ g.i = 0 /\ g.lost = 0 /\ g.pc = pc
<1> DEFINE g == [kind |-> kind, id |-> id, m |-> m, n |-> n, i |-> 0,
                 lost |-> 0, param |-> 0, pc |-> pc]
<1>1. g \in Frame
  BY CountsAssumption DEF Frame
<1>2. stack' = Append(stack, g)
  BY DEF Pushes
<1>3. g.kind = kind /\ g.id = id /\ g.m = m /\ g.n = n /\ g.i = 0 /\ g.lost = 0 /\ g.pc = pc
  OBVIOUS
<1>4. QED
  BY <1>1, <1>2, <1>3

\* A call of a Method begins.
LEMMA BeginsInOrder ==
  ASSUME IInv, NEW kind \in {"call", "each"}, NEW m \in Methods, NEW n \in 0..NumArgs,
         kind = "each" => n = NumArgs,
         Begins, Resets, Rewinds(m), Pushes(kind, calls', m, n, "args"), UNCHANGED last
  PROVE  IInv'
<1>1. calls \in Nat /\ calls' = calls + 1 /\ calls' \in Nat
  BY DEF Begins, IInv, Stacked
<1>2. PICK g \in Frame :
        /\ stack' = Append(stack, g) /\ g.kind = kind /\ g.id = calls' /\ g.m = m /\ g.n = n
        /\ g.i = 0 /\ g.lost = 0 /\ g.pc = "args"
  BY <1>1, NewFrame
<1>3. Placed(g)'
  BY <1>1, <1>2 DEF Placed
<1>4. Stacked'
  BY <1>1, <1>2, <1>3, PushKeepsOrder DEF IInv
<1>5. InTurn'
  BY <1>1, <1>2, RewindKeepsTurn DEF IInv
<1>6. OwnSlots'
  BY <1>1, <1>2, ResetKeepsSlots DEF IInv
<1>7. QED
  BY <1>4, <1>5, <1>6, NothingSent DEF IInv

\* Setting a property begins.
LEMMA SetInOrder ==
  ASSUME IInv, NEW m \in Methods, Set(m)
  PROVE  IInv'
<1>1. calls \in Nat /\ calls' = calls + 1 /\ calls' \in Nat /\ calls <= calls' /\ 1 \in 0..NumArgs
  BY CountsAssumption DEF Set, Begins, IInv, Stacked
<1>2. PICK g \in Frame :
        /\ stack' = Append(stack, g) /\ g.kind = "set" /\ g.id = calls' /\ g.m = m /\ g.n = 1
        /\ g.i = 0 /\ g.lost = 0 /\ g.pc = "args"
  BY <1>1, NewFrame DEF Set
<1>3. Placed(g)'
  BY <1>1, <1>2 DEF Placed
<1>4. Stacked'
  BY <1>1, <1>2, <1>3, PushKeepsOrder DEF IInv
<1>5. InTurn'
  BY <1>1, <1>2, OtherKeepsTurn DEF IInv, Set
<1>6. OwnSlots'
  BY <1>1, <1>2, ResetKeepsSlots DEF IInv, Set
<1>7. QED
  BY <1>4, <1>5, <1>6, NothingSent DEF IInv, Set

\* A method that is missing is tried.
LEMMA MissingInOrder ==
  ASSUME IInv, NEW m \in Methods, NEW n \in 0..NumArgs, Missing(m, n)
  PROVE  IInv'
<1>1. calls \in Nat /\ calls' = calls /\ calls <= calls'
  BY DEF Missing, IInv, Stacked
<1>2. PICK g \in Frame :
        /\ stack' = Append(stack, g) /\ g.kind = "missing" /\ g.id = calls /\ g.m = m /\ g.n = n
        /\ g.i = 0 /\ g.lost = 0 /\ g.pc = "first"
  BY <1>1, NewFrame DEF Missing
<1>3. Placed(g)'
  BY <1>1, <1>2 DEF Placed
<1>4. Stacked'
  BY <1>1, <1>2, <1>3, PushKeepsOrder DEF IInv
<1>5. InTurn'
  BY <1>1, <1>2, OtherKeepsTurn DEF IInv, Missing
<1>6. OwnSlots'
  <2>1. /\ Len(stack') = Len(stack) + 1 /\ Len(stack) \in Nat
        /\ \A i \in 1..(Len(stack) + 1) : stack'[i] = IF i = Len(stack) + 1 THEN g ELSE stack[i]
    BY <1>2, Pushed, LenProperties DEF IInv, Stacked
  <2>2. UNCHANGED <<slots, owner>>
    BY DEF Missing
  <2>3. ASSUME NEW d \in 1..Len(stack'), stack'[d].kind # "missing" PROVE Own(d)'
    <3>1. d \in 1..Len(stack) /\ stack'[d] = stack[d]
      BY <1>2, <2>1, <2>3
    <3>2. Own(d)
      BY <2>3, <3>1 DEF IInv, OwnSlots
    <3>3. ASSUME \A e \in 1..Len(stack) : d < e => stack[e].kind = "missing"
          PROVE  \A e \in 1..Len(stack') : d < e => stack'[e].kind = "missing"
      BY <1>2, <2>1, <3>3
    <3>4. QED
      BY <2>2, <3>1, <3>2, <3>3 DEF Own
  <2>4. QED
    BY <1>1, <2>2, <2>3 DEF IInv, OwnSlots
<1>7. QED
  BY <1>4, <1>5, <1>6, NothingSent DEF IInv, Missing

\* A property is read.
LEMMA GetInOrder ==
  ASSUME IInv, Get
  PROVE  IInv'
<1> DEFINE new == [by |-> calls', arg |-> 0]
<1>1. /\ calls \in Nat /\ calls' = calls + 1 /\ calls' \in Nat /\ owner' = calls'
      /\ slots' = <<new>> /\ UNCHANGED <<at, rewinder, stack>>
  BY DEF Get, Begins, IInv, Stacked
<1>2. new \in Slot /\ new.by = calls' /\ slots' \in Seq(Slot) /\ Len(slots') = 1 /\ slots'[1] = new
  BY <1>1 DEF Slot
<1>3. \A d \in 1..Len(stack) : stack[d] \in Frame /\ Placed(stack[d])
  BY FrameTypes DEF IInv
<1>4. Stacked'
  <2>1. \A d \in 1..Len(stack) : Placed(stack[d])'
    <3>1. SUFFICES ASSUME NEW d \in 1..Len(stack) PROVE Placed(stack[d])'
      OBVIOUS
    <3>2. stack[d].id \in Nat /\ stack[d].id <= calls /\ Placed(stack[d])
      BY <1>3 DEF Frame, Placed
    <3>3. stack'[d] = stack[d] /\ stack[d].id <= calls'
      BY <1>1, <3>2
    <3>4. QED
      BY <3>2, <3>3 DEF Placed
  <2>2. QED
    BY <1>1, <2>1 DEF IInv, Stacked
<1>5. InTurn'
  <2>1. \A d \in 1..Len(stack) : Turn(stack[d])'
    BY <1>1 DEF IInv, InTurn, Turn
  <2>2. \A m \in Methods : rewinder'[m] <= calls'
    BY <1>1 DEF IInv, InTurn
  <2>3. QED
    BY <1>1, <2>1, <2>2 DEF IInv, InTurn
<1>6. OwnSlots'
  <2>1. ASSUME NEW d \in 1..Len(stack') PROVE Own(d)'
    <3>1. stack'[d] = stack[d] /\ stack[d].id # calls'
      BY <1>1, <1>3, <2>1 DEF Frame, Placed
    <3>2. \A k \in 1..Len(slots') : slots'[k].by = calls'
      <4> HIDE DEF new
      <4>1. QED
        BY <1>2
    <3>3. QED
      BY <1>1, <3>1, <3>2 DEF Own
  <2>2. QED
    BY <1>1, <1>2, <2>1 DEF OwnSlots
<1>7. InOrder'
  <2>1. /\ last'.id = calls' /\ last'.n = 0 /\ last'.lost = 0 /\ last'.list = <<>>
        /\ last'.read = slots'
    BY DEF Get
  <2>2. last'.list \in Seq(Slot) /\ Len(last'.list) = 0 /\ DOMAIN last'.list = {}
    BY <2>1
  <2>3. last'.read = <<[by |-> last'.id, arg |-> 0]>>
    BY <1>1, <2>1
  <2>4. SentAsGiven'
    BY <2>1, <2>2 DEF SentAsGiven
  <2>5. AnswerIsOwn'
    BY <2>1, <2>3 DEF AnswerIsOwn
  <2>6. OwnComeLast'
    BY <2>2 DEF OwnComeLast
  <2>7. QED
    BY <1>1, <2>1, <2>2, <2>4, <2>5, <2>6 DEF InOrder
<1>8. QED
  BY <1>4, <1>5, <1>6, <1>7 DEF IInv

\* A call returns or raises and nothing is sent.
LEMMA UnwindInOrder ==
  ASSUME IInv, Unwinds, UNCHANGED <<slots, owner, at, rewinder, calls, last>>
  PROVE  IInv'
BY UnwindKeepsOrder, UnwindKeepsTurn, UnwindKeepsSlots, NothingSent DEF IInv

\* The conversion or the block of an argument begins.
LEMMA TakesInOrder ==
  ASSUME IInv, Takes
  PROVE  IInv'
<1> DEFINE f == Last(stack)
           p == IF f.kind = "set" THEN 1 ELSE at[f.m]
           g == [f EXCEPT !.param = p, !.pc = IF f.kind = "each" THEN "block" ELSE "converting"]
<1>1. /\ stack # <<>> /\ f.kind \in {"call", "set", "each"} /\ f.pc = "args"
      /\ f.i < f.n /\ stack' = Append(Front(stack), g)
      /\ UNCHANGED <<slots, owner, at, rewinder, calls, last>>
  BY DEF Takes, Running, Moves
<1>2. /\ Len(stack) \in Nat \ {0} /\ Len(stack) \in 1..Len(stack) /\ f = stack[Len(stack)]
      /\ f \in Frame /\ Placed(f) /\ Turn(f)
  <2>1. Stacked
    BY DEF IInv
  <2>2. QED
    BY <1>1, <2>1, Innermost DEF IInv, InTurn
<1>3. p \in Nat
  BY <1>2, CountsAssumption DEF Frame, IInv, InTurn
<1>4. /\ g \in Frame /\ g.kind = f.kind /\ g.id = f.id /\ g.m = f.m /\ g.n = f.n /\ g.i = f.i
      /\ g.lost = f.lost /\ g.param = p
      /\ g.pc = IF f.kind = "each" THEN "block" ELSE "converting"
  <2> HIDE DEF p
  <2>1. QED
    BY <1>1, <1>2, <1>3 DEF Frame
<1> HIDE DEF g
<1>5. Placed(g)
  BY <1>1, <1>2, <1>4 DEF Placed
<1>6. f.i \in Nat /\ f.n \in Nat /\ f.lost \in Nat
  BY <1>2, CountsAssumption DEF Frame
<1>7. Turn(g)
  <2>1. CASE f.kind = "set"
    <3>1. f.i = 0 /\ p = 1
      BY <1>1, <1>2, <1>6, <2>1 DEF Placed
    <3>2. QED
      BY <1>4, <2>1, <3>1 DEF Turn
  <2>2. CASE f.kind # "set"
    <3>1. p = at[f.m] /\ f.kind \in {"call", "each"}
      BY <1>1, <2>2
    <3>2. QED
      BY <1>2, <1>4, <3>1 DEF Turn
  <2>3. QED
    BY <2>1, <2>2
<1> HIDE DEF f
<1>8. Stacked'
  BY <1>1, <1>4, <1>5, MoveKeepsOrder DEF IInv, f
<1>9. InTurn'
  <2>1. /\ Len(stack') = Len(stack)
        /\ \A i \in 1..Len(stack) : stack'[i] = IF i = Len(stack) THEN g ELSE stack[i]
    BY <1>1, <1>4, Replaced DEF IInv, Stacked
  <2>2. \A d \in 1..Len(stack') : Turn(stack'[d])
    BY <1>7, <2>1 DEF IInv, InTurn
  <2>3. \A d \in 1..Len(stack') : Turn(stack[d])'
    BY <1>1, <2>2 DEF Turn
  <2>4. QED
    BY <1>1, <2>3 DEF IInv, InTurn
<1>10. OwnSlots'
  <2>1. f.i <= g.i /\ g.i - g.lost = f.i - f.lost
    BY <1>4, <1>6
  <2>2. QED
    BY <1>1, <1>4, <2>1, IdleKeepsSlots DEF IInv, f
<1>11. QED
  BY <1>1, <1>8, <1>9, <1>10, NothingSent DEF IInv

\* A step that changes nothing.
LEMMA UnchangedInOrder ==
  ASSUME IInv, UNCHANGED vars
  PROVE  IInv'
<1>1. stack \in Seq(Frame)
  BY DEF IInv, Stacked
<1>2. Len(stack) \in Nat
  BY <1>1, LenProperties
<1>3. Unwinds
  BY <1>1, <1>2 DEF Unwinds, vars
<1>4. QED
  BY <1>3, UnwindInOrder DEF vars

\* An argument is done, with a slot, without one, or in each_argument.
LEMMA ArgumentInOrder ==
  ASSUME IInv, Sets \/ SetsNothing \/ BlockReturns
  PROVE  IInv'
<1> DEFINE f == Last(stack)
<1>1. /\ stack # <<>> /\ f.kind \in {"call", "set", "each"} /\ f.pc \in {"converting", "block"}
      /\ Advances(f) /\ UNCHANGED <<owner, rewinder, calls, last>>
  BY DEF Sets, SetsNothing, BlockReturns, Running
<1>2. f \in Frame /\ Placed(f)
  <2>1. Stacked
    BY DEF IInv
  <2>2. QED
    BY <1>1, <2>1, Innermost
<1>3. /\ f.i \in Nat /\ f.n \in Nat /\ f.lost \in Nat /\ f.i < f.n /\ f.n <= NumArgs
      /\ f.i + 1 \in 0..NumArgs /\ f.lost <= f.i
  BY <1>1, <1>2, CountsAssumption DEF Frame, Placed
<1>4. \/ /\ Sets /\ f.kind \in {"call", "set"}
         /\ stack' = Append(Front(stack), [f EXCEPT !.i = f.i + 1, !.pc = "args"])
         /\ slots' = Append(slots, [by |-> f.id, arg |-> f.i + 1])
      \/ /\ SetsNothing /\ slots' = slots
         /\ stack' = Append(Front(stack), [f EXCEPT !.i = f.i + 1, !.lost = f.lost + 1, !.pc = "args"])
      \/ /\ BlockReturns /\ slots' = slots /\ f.kind = "each"
         /\ stack' = Append(Front(stack), [f EXCEPT !.i = f.i + 1, !.pc = "args"])
  BY DEF Sets, SetsNothing, BlockReturns, Running, Moves
<1>5. PICK g \in Frame :
        /\ stack' = Append(Front(stack), g)
        /\ g.kind = f.kind /\ g.id = f.id /\ g.m = f.m /\ g.n = f.n /\ g.i = f.i + 1 /\ g.pc = "args"
        /\ \/ /\ g.lost = f.lost /\ f.kind \in {"call", "set"}
              /\ slots' = Append(slots, [by |-> f.id, arg |-> f.i + 1])
           \/ /\ g.lost = f.lost + 1 /\ slots' = slots
           \/ /\ g.lost = f.lost /\ f.kind = "each" /\ slots' = slots
  <2> DEFINE one == [f EXCEPT !.i = f.i + 1, !.pc = "args"]
             none == [f EXCEPT !.i = f.i + 1, !.lost = f.lost + 1, !.pc = "args"]
  <2>1. /\ one \in Frame /\ one.kind = f.kind /\ one.id = f.id /\ one.m = f.m /\ one.n = f.n
        /\ one.i = f.i + 1 /\ one.pc = "args" /\ one.lost = f.lost
    BY <1>2, <1>3 DEF Frame
  <2>2. f.lost + 1 \in 0..NumArgs
    BY <1>3, CountsAssumption
  <2>3. /\ none \in Frame /\ none.kind = f.kind /\ none.id = f.id /\ none.m = f.m /\ none.n = f.n
        /\ none.i = f.i + 1 /\ none.pc = "args" /\ none.lost = f.lost + 1
    BY <1>2, <1>3, <2>2 DEF Frame
  <2> HIDE DEF one, none
  <2>4. \/ /\ f.kind \in {"call", "set"} /\ stack' = Append(Front(stack), one)
           /\ slots' = Append(slots, [by |-> f.id, arg |-> f.i + 1])
        \/ slots' = slots /\ stack' = Append(Front(stack), none)
        \/ slots' = slots /\ f.kind = "each" /\ stack' = Append(Front(stack), one)
    BY <1>4 DEF one, none
  <2>5. QED
    BY <2>1, <2>3, <2>4
<1> HIDE DEF f
<1>6. Placed(g)
  <2>1. g.lost <= g.i
    BY <1>3, <1>5
  <2>2. g.i <= g.n
    BY <1>3, <1>5
  <2>3. f.kind # "missing"
    BY <1>1
  <2>4. QED
    BY <1>2, <1>5, <2>1, <2>2, <2>3 DEF Placed
<1>7. Stacked'
  BY <1>1, <1>5, <1>6, MoveKeepsOrder DEF IInv, f
<1>8. InTurn'
  BY <1>1, <1>5, AdvanceKeepsTurn DEF IInv, f
<1>9. OwnSlots'
  <2>1. CASE /\ g.lost = f.lost /\ f.kind \in {"call", "set"}
             /\ slots' = Append(slots, [by |-> f.id, arg |-> f.i + 1])
    BY <1>1, <1>5, <2>1, FillKeepsSlots DEF IInv, f
  <2>2. CASE slots' = slots /\ (g.lost = f.lost + 1 \/ f.kind = "each")
    <3>1. f.i <= g.i /\ (g.kind # "each" => g.i - g.lost = f.i - f.lost)
      BY <1>3, <1>5, <2>2
    <3>2. QED
      BY <1>1, <1>5, <2>2, <3>1, IdleKeepsSlots DEF IInv, f
  <2>3. QED
    BY <1>5, <2>1, <2>2
<1>10. QED
  BY <1>1, <1>7, <1>8, <1>9, NothingSent DEF IInv

\* A call is sent, and answers or raises.
LEMMA RunInOrder ==
  ASSUME IInv, NEW void \in BOOLEAN, Run(void), passed \in [Methods -> 0..NumArgs]
  PROVE  IInv'
<1> DEFINE f == Last(stack)
<1>1. /\ stack # <<>> /\ f.kind = "call" /\ f.i = f.n
      /\ passed' = [passed EXCEPT ![f.m] = f.n] /\ ResultSlot(f, void) /\ Sends(f, void)
      /\ Returns \/ \E error \in {"no_method", "other"} : stack' = Unwound(error)
      /\ UNCHANGED <<owner, at, rewinder, calls>>
  BY DEF Run, Ready, Running
<1>2. Stacked
  BY DEF IInv
<1>3. f \in Frame
  BY <1>1, <1>2, Innermost
<1>4. passed'[f.m] = f.n
  BY <1>1, <1>3 DEF Frame
<1>5. Unwinds /\ Len(stack') < Len(stack)
  BY <1>1, <1>2, ReturnUnwinds, RaiseUnwinds
<1>6. InOrder'
  BY <1>1, <1>4, SendInOrder DEF IInv
<1>7. slots' = slots \/ slots' = Append(slots, [by |-> f.id, arg |-> 0])
  BY <1>1 DEF ResultSlot
<1>8. OwnSlots'
  BY <1>1, <1>5, <1>7, EndKeepsSlots DEF IInv
<1>9. QED
  BY <1>1, <1>5, <1>6, <1>8, UnwindKeepsOrder, UnwindKeepsTurn DEF IInv

\* A property is set.
LEMMA RunSetInOrder ==
  ASSUME IInv, RunSet
  PROVE  IInv'
<1> DEFINE f == Last(stack)
<1>1. /\ stack # <<>> /\ f.kind = "set" /\ f.i = f.n /\ Sends(f, TRUE) /\ stack' = Front(stack)
      /\ UNCHANGED <<slots, owner, at, rewinder, calls>>
  BY DEF RunSet, Ready, Running
<1>2. stack \in Seq(Frame)
  BY DEF IInv, Stacked
<1>3. Unwinds
  <2>1. /\ stack' \in Seq(Frame) /\ Len(stack') < Len(stack) /\ \A d \in 1..Len(stack') : stack'[d] = stack[d]
    BY <1>1, <1>2, FrontUnwinds
  <2>2. QED
    BY <1>2, <2>1, LenProperties DEF Unwinds
<1>4. InOrder'
  BY <1>1, SendInOrder DEF IInv
<1>5. QED
  BY <1>1, <1>3, <1>4, UnwindKeepsOrder, UnwindKeepsTurn, UnwindKeepsSlots DEF IInv

\* The values of passed_args.
Counted == passed \in [Methods -> 0..NumArgs]

\* passed_args counts arguments.
LEMMA CountedStays ==
  ASSUME IInv, Counted, [Next]_vars
  PROVE  Counted'
<1>1. ASSUME NEW void \in BOOLEAN, Run(void) PROVE Counted'
  <2>1. stack # <<>> /\ passed' = [passed EXCEPT ![Last(stack).m] = Last(stack).n]
    BY <1>1 DEF Run, Ready, Running
  <2>2. Last(stack) \in Frame
    BY <2>1, FrontAndLast DEF IInv, Stacked
  <2>3. QED
    BY <2>1, <2>2 DEF Frame, Counted
<1>2. CASE UNCHANGED passed
  BY <1>2 DEF Counted
<1>3. QED
  BY <1>1, <1>2 DEF Next, vars, Call, Missing, Set, EachArgument, Get, NoSuchMethod, Takes, Sets,
                    SetsNothing, BlockReturns, EachReturns, RunSet, Raises

\* Every step keeps the invariant.
LEMMA InvarianceStep ==
  ASSUME IInv, Counted, [Next]_vars
  PROVE  IInv'
<1>0. Stacked /\ calls \in Nat
  BY DEF IInv, Stacked
<1>1. ASSUME NEW m \in Methods, NEW n \in 0..(NumArgs + 1), Call(m, n) PROVE IInv'
  <2>1. n \in 0..NumArgs
    BY <1>1, CountsAssumption DEF Call
  <2>2. QED
    BY <1>1, <2>1, BeginsInOrder DEF Call
<1>2. ASSUME NEW m \in Methods, NEW n \in 0..NumArgs, Missing(m, n) PROVE IInv'
  BY <1>2, MissingInOrder
<1>3. ASSUME NEW m \in Methods, Set(m) \/ EachArgument(m) PROVE IInv'
  <2>1. CASE Set(m)
    BY <2>1, SetInOrder
  <2>2. CASE EachArgument(m)
    <3>1. NumArgs \in 0..NumArgs
      BY CountsAssumption
    <3>2. QED
      BY <2>2, <3>1, BeginsInOrder DEF EachArgument
  <2>3. QED
    BY <1>3, <2>1, <2>2
<1>4. CASE Get
  BY <1>4, GetInOrder
<1>5. CASE NoSuchMethod
  <2>1. /\ stack # <<>> /\ Last(stack).kind = "missing"
        /\ stack' = NextAttempt(stack)
        /\ UNCHANGED <<slots, owner, at, rewinder, calls, last>>
    BY <1>5 DEF NoSuchMethod, Attempting, Running
  <2>2. stack \in Seq(Frame)
    BY <1>0 DEF Stacked
  <2>3. Unwinds
    BY <2>1, <2>2, AttemptUnwinds DEF Unwinds
  <2>4. QED
    BY <2>1, <2>3, UnwindInOrder
<1>6. CASE Takes
  BY <1>6, TakesInOrder
<1>7. CASE Sets \/ SetsNothing \/ BlockReturns
  BY <1>7, ArgumentInOrder
<1>8. CASE EachReturns
  <2>1. stack # <<>> /\ Returns /\ UNCHANGED <<slots, owner, at, rewinder, calls, last>>
    BY <1>8 DEF EachReturns, Running
  <2>2. QED
    BY <1>0, <2>1, ReturnUnwinds, UnwindInOrder
<1>9. ASSUME NEW void \in BOOLEAN, Run(void) PROVE IInv'
  BY <1>9, RunInOrder DEF Counted
<1>10. CASE RunSet
  BY <1>10, RunSetInOrder
<1>11. ASSUME NEW error \in {"no_method", "other"}, Raises(error) PROVE IInv'
  <2>1. stack # <<>> /\ stack' = Unwound(error)
        /\ UNCHANGED <<slots, owner, at, rewinder, calls, last>>
    BY <1>11 DEF Raises
  <2>2. QED
    BY <1>0, <2>1, RaiseUnwinds, UnwindInOrder
<1>12. CASE UNCHANGED vars
  BY <1>12, UnchangedInOrder
<1>13. QED
  BY <1>1, <1>2, <1>3, <1>4, <1>5, <1>6, <1>7, <1>8, <1>9, <1>10, <1>11, <1>12 DEF Next

\* The invariant, for any nesting of calls that return and raise anywhere.
LEMMA Invariance == Spec => [](IInv /\ Counted)
<1>1. Init => IInv /\ Counted
  <2> SUFFICES ASSUME Init PROVE IInv /\ Counted
    OBVIOUS
  <2>1. stack = <<>> /\ slots = <<>> /\ calls = 0 /\ owner = 0
    BY DEF Init
  <2>2. /\ stack \in Seq(Frame) /\ Len(stack) = 0 /\ slots \in Seq(Slot)
        /\ \A d \in 1..Len(stack) : FALSE
    BY <2>1
  <2>3. Stacked /\ OwnSlots
    BY <2>1, <2>2 DEF Stacked, OwnSlots
  <2>4. InTurn /\ Counted
    BY <2>1, <2>2, CountsAssumption DEF Init, InTurn, Counted
  <2>5. /\ last.list = <<>> /\ last.id = 0 /\ last.n = 0 /\ last.lost = 0
    BY DEF Init
  <2>6. last.mine = FALSE
    BY DEF Init
  <2>7. last.list \in Seq(Slot) /\ DOMAIN last.list = {}
    BY <2>5
  <2>8. SentAsGiven /\ AnswerIsOwn
    BY <2>6 DEF SentAsGiven, AnswerIsOwn
  <2>9. OwnComeLast
    BY <2>7 DEF OwnComeLast
  <2>10. QED
    BY <2>3, <2>4, <2>5, <2>6, <2>7, <2>8, <2>9 DEF IInv, InOrder
<1>2. IInv /\ Counted /\ [Next]_vars => IInv' /\ Counted'
  BY InvarianceStep, CountedStays
<1>3. QED
  BY <1>1, <1>2, PTL DEF Spec

-----------------------------------------------------------------------------
(* The theorems.                                                           *)

\* A call whose conversions make no call sends its own arguments, all that fill a slot,
\* in order, whatever was abandoned before it or is in progress around it.
THEOREM SentAsGivenHolds == Spec => []SentAsGiven
<1>1. IInv => SentAsGiven
  BY DEF IInv, InOrder
<1>2. QED
  BY <1>1, Invariance, PTL

\* Such a call answers its own result exactly if every argument filled a slot.
THEOREM AnswerIsOwnHolds == Spec => []AnswerIsOwn
<1>1. IInv => AnswerIsOwn
  BY DEF IInv, InOrder
<1>2. QED
  BY <1>1, Invariance, PTL

\* A call whose list another one emptied still sends its own arguments last, in order.
THEOREM OwnComeLastHolds == Spec => []OwnComeLast
<1>1. IInv => OwnComeLast
  BY DEF IInv, InOrder
<1>2. QED
  BY <1>1, Invariance, PTL

\* A call whose Method nobody rewound converts each argument by its own parameter.
THEOREM ParametersInTurnHolds == Spec => []ParametersInTurn
<1>1. IInv => ParametersInTurn
  <2>1. SUFFICES ASSUME IInv PROVE ParametersInTurn
    OBVIOUS
  <2>2. DOMAIN stack = 1..Len(stack) /\ \A d \in 1..Len(stack) : Turn(stack[d])
    BY <2>1, LenProperties DEF IInv, Stacked, InTurn
  <2>3. QED
    BY <2>2 DEF ParametersInTurn, Turn
<1>2. QED
  BY <1>1, Invariance, PTL

\* What was sent last keeps its type.
Sent == [id: Nat, n: Nat, lost: Nat, list: Seq(Slot), mine: BOOLEAN,
         read: Seq(Slot), void: BOOLEAN]

SentTyped == last \in Sent

\* A record of what was sent, field by field.
LEMMA SentIs ==
  ASSUME NEW id \in Nat, NEW n \in Nat, NEW lost \in Nat, NEW list \in Seq(Slot),
         NEW mine \in BOOLEAN, NEW read \in Seq(Slot), NEW void \in BOOLEAN
  PROVE  [id |-> id, n |-> n, lost |-> lost, list |-> list, mine |-> mine,
          read |-> read, void |-> void] \in Sent
BY DEF Sent

\* What the innermost call sends is one.
LEMMA SendsIs ==
  ASSUME IInv, IInv', stack # <<>>, NEW void \in BOOLEAN, Sends(Last(stack), void),
         Last(stack).kind = "set" \/ passed'[Last(stack).m] = Last(stack).n
  PROVE  last' \in Sent
<1> DEFINE f == Last(stack)
           read == IF f.kind = "set" THEN <<>> ELSE ReadAt(slots', passed'[f.m], void)
           mine == owner = f.id
<1>1. f.id \in Nat /\ f.n \in Nat /\ f.lost \in Nat /\ slots \in Seq(Slot) /\ slots' \in Seq(Slot)
  <2>1. f \in Frame
    BY FrontAndLast DEF IInv, Stacked
  <2>2. QED
    BY <2>1, CountsAssumption DEF Frame, IInv, OwnSlots
<1>2. read \in Seq(Slot)
  <2>1. <<>> \in Seq(Slot)
    OBVIOUS
  <2>2. CASE f.kind # "set"
    <3>1. read = IF void \/ f.n >= Len(slots') THEN <<>> ELSE <<slots'[f.n + 1]>>
      BY <2>2 DEF ReadAt
    <3>2. CASE ~(void \/ f.n >= Len(slots'))
      <4>1. slots'[f.n + 1] \in Slot
        <5>1. Len(slots') \in Nat /\ ~(f.n >= Len(slots'))
          BY <1>1, <3>2, LenProperties
        <5>2. f.n + 1 \in 1..Len(slots')
          BY <1>1, <5>1
        <5>3. QED
          BY <1>1, <5>2, ElementOfSeq
      <4>2. <<slots'[f.n + 1]>> \in Seq(Slot)
        BY <4>1
      <4>3. QED
        BY <3>1, <3>2, <4>2
    <3>3. QED
      BY <2>1, <3>1, <3>2
  <2>3. QED
    BY <2>1, <2>2
<1>3. mine \in BOOLEAN
  OBVIOUS
<1>4. last' = [id |-> f.id, n |-> f.n, lost |-> f.lost, list |-> slots, mine |-> mine,
               read |-> read, void |-> void]
  BY DEF Sends
<1> HIDE DEF f, read, mine
<1>5. QED
  BY <1>1, <1>2, <1>3, <1>4, SentIs

\* Every step keeps it one.
LEMMA SentStays ==
  ASSUME IInv, Counted, last \in Sent, [Next]_vars
  PROVE  last' \in Sent
<1>0. IInv'
  BY InvarianceStep
<1>1. ASSUME NEW void \in BOOLEAN, Run(void) PROVE last' \in Sent
  <2>1. stack # <<>> /\ passed' = [passed EXCEPT ![Last(stack).m] = Last(stack).n]
        /\ Sends(Last(stack), void)
    BY <1>1 DEF Run, Ready, Running
  <2>2. Last(stack) \in Frame
    BY <2>1, FrontAndLast DEF IInv, Stacked
  <2>3. passed'[Last(stack).m] = Last(stack).n
    BY <2>1, <2>2 DEF Frame, Counted
  <2>4. QED
    BY <1>0, <2>1, <2>3, SendsIs
<1>2. CASE RunSet
  <2>1. stack # <<>> /\ Last(stack).kind = "set" /\ Sends(Last(stack), TRUE) /\ TRUE \in BOOLEAN
    BY <1>2 DEF RunSet, Ready, Running
  <2>2. QED
    BY <1>0, <2>1, SendsIs
<1>3. CASE Get
  <2>1. slots' = <<[by |-> calls', arg |-> 0]>> /\ calls' \in Nat
    BY <1>3 DEF Get, Begins, IInv, Stacked
  <2>2. slots' \in Seq(Slot)
    BY <1>0 DEF IInv, OwnSlots
  <2>3. last' = [id |-> calls', n |-> 0, lost |-> 0, list |-> <<>>, mine |-> TRUE,
                 read |-> slots', void |-> FALSE]
    BY <1>3 DEF Get
  <2>4. <<>> \in Seq(Slot) /\ TRUE \in BOOLEAN /\ FALSE \in BOOLEAN /\ 0 \in Nat
    OBVIOUS
  <2>5. QED
    BY <2>1, <2>2, <2>3, <2>4, SentIs
<1>4. CASE UNCHANGED last
  BY <1>4
<1>5. QED
  BY <1>1, <1>2, <1>3, <1>4 DEF Next, vars, Call, Missing, Set, EachArgument, NoSuchMethod, Takes, Sets,
                                SetsNothing, BlockReturns, EachReturns, Raises

\* The types of the argument list, the iterators and the stack.
THEOREM TypeCorrect == Spec => []TypeOK
<1>1. Init => SentTyped
  <2> SUFFICES ASSUME Init PROVE last \in Sent
    BY DEF SentTyped
  <2>1. last = [id |-> 0, n |-> 0, lost |-> 0, list |-> <<>>, mine |-> FALSE,
                read |-> <<>>, void |-> TRUE]
    BY DEF Init
  <2>2. <<>> \in Seq(Slot) /\ TRUE \in BOOLEAN /\ FALSE \in BOOLEAN /\ 0 \in Nat
    OBVIOUS
  <2>3. QED
    BY <2>1, <2>2, SentIs
<1>2. IInv /\ Counted /\ SentTyped /\ [Next]_vars => SentTyped'
  BY SentStays DEF SentTyped
<1>3. IInv /\ Counted /\ SentTyped => TypeOK
  <2> SUFFICES ASSUME IInv, Counted, last \in Sent PROVE TypeOK
    BY DEF SentTyped
  <2>1. stack \in Seq(Frame)
    BY DEF IInv, Stacked
  <2>2. calls \in Nat /\ owner \in 0..calls /\ slots \in Seq(Slot)
    BY DEF IInv, Stacked, OwnSlots
  <2>3. rewinder \in [Methods -> 0..calls] /\ at \in [Methods -> 1..(NumArgs + 1)]
    BY <2>2 DEF IInv, InTurn
  <2>4. QED
    BY <2>1, <2>2, <2>3 DEF TypeOK, Counted, Sent
<1>4. Spec => []SentTyped
  BY <1>1, <1>2, Invariance, PTL DEF Spec
<1>5. QED
  BY <1>3, <1>4, Invariance, PTL
=============================================================================
