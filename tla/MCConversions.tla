--------------------------- MODULE MCConversions ---------------------------
(***************************************************************************)
(* The conversions of values: the calendar of Horolog to the end of the    *)
(* 400-year cycle in a zone that stays or moves by an hour, the types of   *)
(* Marshal and the lists of Dlist.  They share nothing; a behaviour is one *)
(* of one of them.                                                         *)
(***************************************************************************)
EXTENDS Horolog, Marshal, Dlist

VARIABLE part  \* which

ZoneHours == {-3600, 0, 3600}

\* A day and its hour.
SpringGap == <<1, 2>>

Small == -5..5

\* What NUM2INT may make of an even integer.
AnyNumbers == {-3, 0, 2, 3}

\* Numbers within and beyond an int of four values on either side, one of which, as a
\* decimal, has too many digits for a double.
Amounts == {-5, -4, 0, 1, 3, 4, 9}
Rounded == [n \in Amounts |-> IF n = 9 THEN 4 ELSE n]

ConversionsInit ==
  /\ Init /\ MarshalInit /\ DlistInit
  /\ part \in {"horolog", "marshal", "dlist"}
  /\ part # "marshal" => path = "query" /\ type = "other" /\ zone = "even" /\ first = Null
  /\ part # "dlist" => buf = <<>>

OnlyIn(which, others) == part = which /\ UNCHANGED <<part, others>>

ConversionsNext ==
  \/ OnlyIn("horolog", <<marshalVars, dlistVars>>) /\ Tomorrow
  \/ OnlyIn("marshal", <<vars, dlistVars>>) /\ Read
  \/ OnlyIn("marshal", <<vars, dlistVars>>) /\ GiveBack
  \/ OnlyIn("marshal", <<vars, dlistVars>>) /\ Refuses
  \/ OnlyIn("dlist", <<vars, marshalVars>>) /\ TakeBuffer
  \/ OnlyIn("dlist", <<vars, marshalVars>>) /\ NullElem
  \/ OnlyIn("dlist", <<vars, marshalVars>>) /\ IntElem
  \/ OnlyIn("dlist", <<vars, marshalVars>>) /\ DoubleElem
  \/ OnlyIn("dlist", <<vars, marshalVars>>) /\ StringElem
  \/ OnlyIn("dlist", <<vars, marshalVars>>) /\ UnknownElem
  \/ OnlyIn("dlist", <<vars, marshalVars>>) /\ AnswerList

ConversionsSpec == ConversionsInit /\ [][ConversionsNext]_<<part, vars, marshalVars, dlistVars>>

=============================================================================
