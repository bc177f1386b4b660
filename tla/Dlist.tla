------------------------------- MODULE Dlist -------------------------------
(***************************************************************************)
(* A list that a method answers: the CBIND_DLIST_ID case of                *)
(* intersys_method_extract_retval with extract_next_dlist_elem.  The       *)
(* elements follow each other in a buffer; a step extracts one.            *)
(*                                                                         *)
(* A word of the interpreter (VALUE) is a number: an odd one is an integer *)
(* of half its size, 0 is false, others are constants (nil and true among  *)
(* them, which version of it decides), floats or addresses.                *)
(***************************************************************************)
EXTENDS Integers, Sequences

CONSTANTS
  Sent32,    \* integers that are sent in lists
  Strays,    \* what NUM2INT may make of a word that is no integer
  MaxElems   \* bound on the length of a list

ASSUME SentAssumption == Sent32 \subseteq Int /\ Strays \subseteq Int /\ MaxElems \in Nat

VARIABLES
  buf,       \* the elements as they were sent
  p,         \* elements before the place that is read
  list,      \* what has been extracted
  extracting \* whether it goes on, or how it ended

dlistVars == <<buf, p, list, extracting>>

\* Elements, of the list and in Ruby.
Elems == [kind: {"integer"}, n: Sent32]
           \cup [kind: {"null", "double", "string", "unknown"}, n: {0}]
RubyElems == [kind: {"integer"}, n: Int]
               \cup [kind: {"nil", "double", "string", "false", "wild"}, n: {0}]

DlistInit ==
  /\ \E size \in 0..MaxElems : buf \in [1..size -> Elems]
  /\ p = 0 /\ list = <<>> /\ extracting = "no"

\* The sizes are asked for and the buffer is filled.
TakeBuffer ==
  /\ extracting = "no" /\ extracting' = "yes"
  /\ UNCHANGED <<buf, p, list>>

Plain(kind) == [kind |-> kind, n |-> 0]

\* What a word is to Ruby.
Word(value) ==
  IF value % 2 = 1 THEN [kind |-> "integer", n |-> value \div 2]
  ELSE IF value = 0 THEN Plain("false") ELSE Plain("wild")

\* An element that has been extracted, and the place moves on by its size.
Pushed(elem) ==
  /\ list' = Append(list, elem) /\ p' = p + 1
  /\ UNCHANGED <<buf, extracting>>

\* The element that is next.
Due(kind) == extracting = "yes" /\ Len(list) < Len(buf) /\ buf[p + 1].kind = kind

\* Slip: the size of a null element is not asked for, and it is read again.
NullElemUnsized ==
  /\ Due("null")
  /\ list' = Append(list, Plain("nil"))
  /\ UNCHANGED <<buf, p, extracting>>

NullElem == Due("null") /\ Pushed(Plain("nil"))

\* NUM2INT, meant for a word, is given the integer, and its result is answered as
\* one.  An odd integer passes as a word of half its size; 0 is false, which is no
\* number; the others are what lies there: it raises, crashes, or finds a number.
IntElem ==
  /\ Due("integer")
  /\ LET val == buf[p + 1].n IN
     IF val % 2 = 1 THEN Pushed(Word(val \div 2))
     ELSE \/ extracting' = "raised" /\ UNCHANGED <<buf, p, list>>
          \/ val # 0 /\ extracting' = "crashed" /\ UNCHANGED <<buf, p, list>>
          \/ val # 0 /\ \E number \in Strays : Pushed(Word(number))

DoubleElem == Due("double") /\ Pushed(Plain("double"))

StringElem == Due("string") /\ Pushed(Plain("string"))

UnknownElem ==
  /\ Due("unknown") /\ extracting' = "raised"
  /\ UNCHANGED <<buf, p, list>>

AnswerList ==
  /\ extracting = "yes" /\ Len(list) = Len(buf)
  /\ extracting' = "answered"
  /\ UNCHANGED <<buf, p, list>>

DlistNext ==
  \/ TakeBuffer \/ NullElem \/ IntElem \/ DoubleElem \/ StringElem \/ UnknownElem \/ AnswerList

DlistSpec == DlistInit /\ [][DlistNext]_dlistVars

-----------------------------------------------------------------------------
(* Properties.                                                             *)

\* A list that is answered has every element in its place, and nulls, floats and
\* strings as they were sent.  Of the odd integers those of the form 4q + 3 arrive as q,
\* so that -1 alone arrives as itself, and the others not as integers at all; of the
\* even ones nothing can be said, but that no list with a zero is answered
\* (definition.c:172-212, 434-441).
IntegersAreQuartered ==
  extracting = "answered" =>
    /\ Len(list) = Len(buf)
    /\ \A i \in DOMAIN buf :
         /\ buf[i].kind = "null" => list[i].kind = "nil"
         /\ \A kind \in {"double", "string"} : buf[i].kind = kind => list[i].kind = kind
         /\ buf[i].kind = "integer" /\ buf[i].n % 2 = 1 =>
              IF buf[i].n % 4 = 3 THEN list[i] = [kind |-> "integer", n |-> buf[i].n \div 4]
              ELSE list[i].kind # "integer"
         /\ buf[i] # [kind |-> "integer", n |-> 0]
=============================================================================
