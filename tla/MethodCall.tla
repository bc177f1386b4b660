----------------------------- MODULE MethodCall -----------------------------
(***************************************************************************)
(* Calls of methods and properties: ext/definition.c, and #intersys_call   *)
(* and #method_missing of callable.rb.                                     *)
(*                                                                         *)
(* The arguments of a call are collected one by one in a list that belongs *)
(* to the connection.  Ruby code that runs meanwhile (the to_s, to_i, read *)
(* or year of a value, the block of each_argument) may make calls of its   *)
(* own, which use the same list: a stream given as a string argument reads *)
(* itself from the server (stream.rb:79), a relationship its elements      *)
(* (reflection.rb:82).                                                     *)
(***************************************************************************)
EXTENDS Integers, Sequences, SequencesExt

CONSTANTS
  Methods,   \* Method objects; a call may use a new one or one held by the caller
  NumArgs,   \* the parameters each of them has
  MaxCalls   \* bound on the number of calls

ASSUME CountsAssumption == NumArgs \in Nat \ {0} /\ MaxCalls \in Nat

VARIABLES
  slots,     \* the connection's argument list
  owner,     \* the call that emptied it last
  at,        \* the argument each Method is at: the iterator of its def
  rewinder,  \* the call that rewound the iterator last
  passed,    \* passed_args of each Method
  stack,     \* the calls in progress, innermost last
  calls,     \* calls so far; a call is named by its number
  last       \* the call that reached the server last, and what it sent

vars == <<slots, owner, at, rewinder, passed, stack, calls, last>>

\* A slot was filled by a call with one of its arguments; 0 is its result.
Slot == [by: Nat, arg: Nat]

\* i arguments are done, lost of them without filling a slot; param is the
\* parameter of the Argument in use.
Frame == [kind: {"call", "set", "each", "missing"}, id: Nat, m: Methods,
          n: 0..NumArgs, i: 0..NumArgs, lost: 0..NumArgs, param: Nat,
          pc: {"args", "converting", "block", "first", "percent"}]

TypeOK ==
  /\ slots \in Seq(Slot)
  /\ owner \in 0..calls /\ calls \in Nat
  /\ at \in [Methods -> 1..(NumArgs + 1)]
  /\ rewinder \in [Methods -> 0..calls]
  /\ passed \in [Methods -> 0..NumArgs]
  /\ stack \in Seq(Frame)
  /\ last \in [id: Nat, n: Nat, lost: Nat, list: Seq(Slot), mine: BOOLEAN,
               read: Seq(Slot), void: BOOLEAN]

Init ==
  /\ slots = <<>> /\ owner = 0
  /\ at = [m \in Methods |-> 1] /\ rewinder = [m \in Methods |-> 0]
  /\ passed = [m \in Methods |-> 0]
  /\ stack = <<>> /\ calls = 0
  /\ last = [id |-> 0, n |-> 0, lost |-> 0, list |-> <<>>, mine |-> FALSE,
             read |-> <<>>, void |-> TRUE]

-----------------------------------------------------------------------------
(* The stack of calls.                                                     *)

Running(kinds, pcs) == stack # <<>> /\ Last(stack).kind \in kinds /\ Last(stack).pc \in pcs

\* Ruby code runs, outside of every call, in a conversion, or in a block.
InRuby == stack # <<>> => Last(stack).pc \in {"converting", "block"}

\* An attempt of method_missing is due.
Attempting == Running({"missing"}, {"first", "percent"})

Begins == calls < MaxCalls /\ calls' = calls + 1

Pushes(kind, id, m, n, pc) ==
  stack' = Append(stack, [kind |-> kind, id |-> id, m |-> m, n |-> n, i |-> 0,
                          lost |-> 0, param |-> 0, pc |-> pc])

Moves(f) == stack' = Append(Front(stack), f)

\* The innermost call returns, and with it the method_missing it was made by.
Returns ==
  LET below == Front(stack)
  IN  stack' = IF below # <<>> /\ Last(below).kind = "missing" THEN Front(below) ELSE below

\* The attempt after this one: the same name with a percent sign, then super,
\* which raises NoMethodError itself.
NextAttempt(frames) ==
  LET f == Last(frames) IN
  IF f.pc = "first" THEN Append(Front(frames), [f EXCEPT !.pc = "percent"])
  ELSE Front(frames)

\* The innermost call raises.  method_missing rescues NoMethodError alone,
\* wherever it comes from; a conversion or block further out may rescue, or
\* raise in its turn.
Unwound(error) ==
  LET below == Front(stack) IN
  IF below # <<>> /\ Last(below).kind = "missing"
  THEN IF error = "no_method" THEN NextAttempt(below) ELSE Front(below)
  ELSE below

-----------------------------------------------------------------------------
(* Beginning a call.                                                       *)

\* cbind_reset_args.
Resets == slots' = <<>> /\ owner' = calls'

\* cbind_mtd_rewind_args.
Rewinds(m) == at' = [at EXCEPT ![m] = 1] /\ rewinder' = [rewinder EXCEPT ![m] = calls']

\* Slip: the list is emptied only where it holds a finished call.
CallSparing(m, n) ==
  /\ InRuby \/ (Attempting /\ n = Last(stack).n)
  /\ Begins
  /\ IF stack = <<>> THEN Resets ELSE UNCHANGED <<slots, owner>>
  /\ Rewinds(m)
  /\ Pushes("call", calls', m, n, "args")
  /\ UNCHANGED <<passed, last>>

\* Slip: the iterator goes on from where it is.
CallUnrewound(m, n) ==
  /\ InRuby \/ (Attempting /\ n = Last(stack).n)
  /\ Begins /\ Resets
  /\ rewinder' = [rewinder EXCEPT ![m] = calls']
  /\ Pushes("call", calls', m, n, "args")
  /\ UNCHANGED <<at, passed, last>>

\* Method#call! with n arguments; more than the method has are refused first.
\* method_missing makes it with its own arguments.
Call(m, n) ==
  /\ n <= NumArgs
  /\ InRuby \/ (Attempting /\ n = Last(stack).n)
  /\ Begins /\ Resets /\ Rewinds(m)
  /\ Pushes("call", calls', m, n, "args")
  /\ UNCHANGED <<passed, last>>

\* Method.new raises NoMethodError: the class has no such method.
NoSuchMethod ==
  /\ Attempting
  /\ stack' = NextAttempt(stack)
  /\ UNCHANGED <<slots, owner, at, rewinder, passed, calls, last>>

\* method_missing with n arguments, for a name that is not an assignment and
\* not that of a property without arguments (these are Set and Get).
Missing(m, n) ==
  /\ InRuby /\ calls < MaxCalls
  /\ Pushes("missing", calls, m, n, "first")
  /\ UNCHANGED <<slots, owner, at, rewinder, passed, calls, last>>

\* Property#set, which is its own Argument.
Set(m) ==
  /\ InRuby /\ Begins /\ Resets
  /\ Pushes("set", calls', m, 1, "args")
  /\ UNCHANGED <<at, rewinder, passed, last>>

\* Property#get, in one go: reset, result slot, get_prop, extract_retval at
\* passed_args, which a Property never changes from 0.
Get ==
  /\ InRuby /\ Begins
  /\ slots' = <<[by |-> calls', arg |-> 0]>> /\ owner' = calls'
  /\ last' = [id |-> calls', n |-> 0, lost |-> 0, list |-> <<>>, mine |-> TRUE,
              read |-> slots', void |-> FALSE]
  /\ UNCHANGED <<at, rewinder, passed, stack>>

\* Method#each_argument.
EachArgument(m) ==
  /\ InRuby /\ Begins /\ Resets /\ Rewinds(m)
  /\ Pushes("each", calls', m, NumArgs, "args")
  /\ UNCHANGED <<passed, last>>

-----------------------------------------------------------------------------
(* One argument.                                                           *)

\* Argument.new for the parameter the iterator is at, and the start of its
\* conversion or of the block.  Past the last parameter it raises.
Takes ==
  /\ Running({"call", "set", "each"}, {"args"})
  /\ LET f == Last(stack)
         p == IF f.kind = "set" THEN 1 ELSE at[f.m]
     IN  /\ f.i < f.n /\ p <= NumArgs
         /\ Moves([f EXCEPT !.param = p, !.pc = IF f.kind = "each" THEN "block" ELSE "converting"])
  /\ UNCHANGED <<slots, owner, at, rewinder, passed, calls, last>>

\* cbind_mtd_arg_next; a Property has no iterator.
Advances(f) ==
  at' = IF f.kind = "set" THEN at
        ELSE [at EXCEPT ![f.m] = IF @ <= NumArgs THEN @ + 1 ELSE @]

\* argument_set ends with one of the cbind_set_next_arg functions.
Sets ==
  /\ Running({"call", "set"}, {"converting"})
  /\ LET f == Last(stack)
     IN  /\ Moves([f EXCEPT !.i = @ + 1, !.pc = "args"])
         /\ slots' = Append(slots, [by |-> f.id, arg |-> f.i + 1])
         /\ Advances(f)
  /\ UNCHANGED <<owner, rewinder, passed, calls, last>>

\* argument_set does nothing for a status, for a parameter without a type and
\* for a time that does not parse: no slot is filled.
SetsNothing ==
  /\ Running({"call", "set"}, {"converting"})
  /\ LET f == Last(stack)
     IN  Moves([f EXCEPT !.i = @ + 1, !.lost = @ + 1, !.pc = "args"]) /\ Advances(f)
  /\ UNCHANGED <<slots, owner, rewinder, passed, calls, last>>

\* The block of each_argument returns.
BlockReturns ==
  /\ Running({"each"}, {"block"})
  /\ LET f == Last(stack)
     IN  Moves([f EXCEPT !.i = @ + 1, !.pc = "args"]) /\ Advances(f)
  /\ UNCHANGED <<slots, owner, rewinder, passed, calls, last>>

EachReturns ==
  /\ Running({"each"}, {"args"}) /\ Last(stack).i = NumArgs
  /\ Returns
  /\ UNCHANGED <<slots, owner, at, rewinder, passed, calls, last>>

-----------------------------------------------------------------------------
(* Sending it.                                                             *)

\* All arguments are done.
Ready(kind) == Running({kind}, {"args"}) /\ Last(stack).i = Last(stack).n

\* What extract_retval reads: the slot after the first passed, or none where
\* the list is shorter or the method is void.
ReadAt(list, count, void) ==
  IF void \/ count >= Len(list) THEN <<>> ELSE <<list[count + 1]>>

Sends(f, void) ==
  last' = [id |-> f.id, n |-> f.n, lost |-> f.lost, list |-> slots, mine |-> owner = f.id,
           read |-> IF f.kind = "set" THEN <<>> ELSE ReadAt(slots', passed'[f.m], void),
           void |-> void]

ResultSlot(f, void) ==
  slots' = IF void THEN slots ELSE Append(slots, [by |-> f.id, arg |-> 0])

\* Slip: passed_args is set only by a call with arguments.
RunCountingSome(void) ==
  /\ Ready("call")
  /\ LET f == Last(stack)
     IN  /\ passed' = IF f.n > 0 THEN [passed EXCEPT ![f.m] = f.n] ELSE passed
         /\ ResultSlot(f, void) /\ Sends(f, void)
         /\ Returns \/ \E error \in {"no_method", "other"} : stack' = Unwound(error)
  /\ UNCHANGED <<owner, at, rewinder, calls>>

\* passed_args, the result slot of a method that is not void, run_method and
\* extract_retval.  It answers, or raises what run makes of an error of the
\* server, the status the method answers, or whatever the class of an object
\* raises when it is made: after a NoMethodError method_missing makes the call
\* again.  (Its slot has been read by then: a call made meanwhile is one after.)
Run(void) ==
  /\ Ready("call")
  /\ LET f == Last(stack)
     IN  /\ passed' = [passed EXCEPT ![f.m] = f.n]
         /\ ResultSlot(f, void) /\ Sends(f, void)
         /\ Returns \/ \E error \in {"no_method", "other"} : stack' = Unwound(error)
  /\ UNCHANGED <<owner, at, rewinder, calls>>

\* cbind_set_prop.
RunSet ==
  /\ Ready("set")
  /\ LET f == Last(stack) IN Sends(f, TRUE) /\ stack' = Front(stack)
  /\ UNCHANGED <<slots, owner, at, rewinder, passed, calls>>

\* A conversion, a block, Argument.new or an error of the server raises before
\* the call is sent, or too many arguments are given to method_missing.  What
\* was collected stays where it is.
Raises(error) ==
  /\ stack # <<>> /\ (Attempting => error = "other")
  /\ stack' = Unwound(error)
  /\ UNCHANGED <<slots, owner, at, rewinder, passed, calls, last>>

Next ==
  \/ \E m \in Methods, n \in 0..(NumArgs + 1) : Call(m, n)
  \/ \E m \in Methods, n \in 0..NumArgs : Missing(m, n)
  \/ \E m \in Methods : Set(m) \/ EachArgument(m)
  \/ Get
  \/ NoSuchMethod
  \/ Takes
  \/ Sets
  \/ SetsNothing
  \/ BlockReturns
  \/ EachReturns
  \/ \E void \in BOOLEAN : Run(void)
  \/ RunSet
  \/ \E error \in {"no_method", "other"} : Raises(error)

Spec == Init /\ [][Next]_vars

-----------------------------------------------------------------------------
(* Properties.                                                             *)

\* A call whose conversions make no call sends exactly the arguments that fill
\* a slot, in their order: nothing of an abandoned call before it, of the call
\* in whose conversion it is made, or of an earlier use of the same Method.
SentAsGiven ==
  last.mine =>
    /\ Len(last.list) = last.n - last.lost
    /\ \A k \in DOMAIN last.list : last.list[k].by = last.id
    /\ \A j, k \in DOMAIN last.list : j < k => last.list[j].arg < last.list[k].arg

\* A call answers its own result unless an argument filled no slot: then it
\* asks for the slot after its result.
AnswerIsOwn ==
  (last.mine /\ ~last.void) =>
    (last.read = <<[by |-> last.id, arg |-> 0]>> <=> last.lost = 0)

\* Even a call whose list was emptied by another in the middle sends its own
\* remaining arguments in order and after everything that is not its own.
OwnComeLast ==
  \A j, k \in DOMAIN last.list :
    (j < k /\ last.list[j].by = last.id)
      => last.list[k].by = last.id /\ last.list[j].arg < last.list[k].arg

\* As long as no other call rewinds its Method, every call converts its i-th
\* argument by the type of the i-th parameter, and each_argument yields the
\* parameters in order, whatever is called in between on other Methods.
ParametersInTurn ==
  \A d \in DOMAIN stack :
    LET f == stack[d] IN
    (f.pc \in {"converting", "block"} /\ (f.kind = "set" \/ rewinder[f.m] = f.id))
      => f.param = f.i + 1
=============================================================================
