------------------------------ MODULE Marshal ------------------------------
(***************************************************************************)
(* Values between Cache and Ruby: get_data and query_bind_one_param of     *)
(* query.c for the columns and parameters of a statement, extract_retval   *)
(* and argument_set of definition.c for the answers and arguments of a     *)
(* method, time_to_string of common.c.                                     *)
(*                                                                         *)
(* A program reads a value and gives it back where it came from, as one    *)
(* does that copies a row, looks for it again or passes an answer on.  A   *)
(* value is a tuple of numbers: a text or a byte string by what it begins  *)
(* with, 0 for nothing, and what follows beyond a NUL or beyond a buffer;  *)
(* a list by a number of its own; a date by its day; a time by hour,       *)
(* minute and second; a timestamp by all of these and its fraction.        *)
(***************************************************************************)
EXTENDS Integers, Sequences, FiniteSets

CONSTANTS
  Texts, Numbers, Days,  \* what values there are
  Hours, Sixtieths,      \* on the clock
  Gap,                   \* the day and the hour the clocks skip, in a zone that does
  HalfInt,               \* an int of C is one of -HalfInt..HalfInt-1, 2^31 in the code
  Double                 \* what is left of a decimal that was a double

ASSUME BlanksAssumption == 0 \in Texts /\ 0 \in Numbers
ASSUME NumbersAssumption == Numbers \subseteq Int /\ HalfInt \in Nat \ {0}
ASSUME DoubleAssumption ==
  /\ Double \in [Numbers -> Numbers] /\ Double[0] = 0
  /\ \A n \in Numbers : Double[Double[n]] = Double[n]
ASSUME ClockAssumption ==
  Days \subseteq Int /\ Hours \subseteq 0..23 /\ Sixtieths \subseteq 0..59

VARIABLES
  path,   \* fixed: "query" or "method"
  type,   \* fixed: of the column and the parameter, of the answer and the argument
  zone,   \* fixed: whether local time has a gap
  first,  \* what the server had
  stored, \* what it has
  held,   \* what Ruby has, or Nothing
  copies  \* times a value was given back and taken

marshalVars == <<path, type, zone, first, stored, held, copies>>

Null == <<>>

\* What follows the beginning of a text: nothing, more after a NUL, more than the
\* 32767 of a buffer.
Whole == 0
Nul   == 1
Long  == 2

TextTypes == {"char", "wchar", "binary", "string"}

\* The empty text, zero or the empty list.
Blank == IF type \in TextTypes THEN <<0, Whole>> ELSE <<0>>

Clock  == Hours \X Sixtieths \X Sixtieths
Stamps == Days \X Hours \X Sixtieths \X Sixtieths \X {0, 1}

\* The families of cases in the switches.
QueryTypes  == {"char", "wchar", "binary", "integer", "bit", "double", "decimal", "date",
                "time", "timestamp", "other"}
MethodTypes == {"string", "binary", "integer", "boolean", "double", "currency", "time",
                "timestamp", "list"}

Content(t) ==
  CASE t \in TextTypes -> {<<x, y>> : x \in Texts, y \in {Whole, Nul, Long}}
    [] t \in {"integer", "double", "decimal", "currency"} -> {<<n>> : n \in Numbers}
    [] t \in {"bit", "boolean"} -> {<<0>>, <<1>>}
    [] t = "date" -> {<<d>> : d \in Days}
    [] t = "time" -> Clock
    [] t = "timestamp" -> Stamps
    [] OTHER -> {<<x>> : x \in Texts}

Nothing == [class |-> "nothing", of |-> <<>>]
Nil     == [class |-> "NilClass", of |-> <<>>]

MarshalInit ==
  /\ \/ path = "query"  /\ type \in QueryTypes
     \/ path = "method" /\ type \in MethodTypes
  /\ zone \in {"even", "gap"}
  /\ first \in Content(type) \cup {Null} /\ stored = first
  /\ held = Nothing /\ copies = 0

-----------------------------------------------------------------------------
(* The conversions that change a value.                                    *)

\* The int the binding copies a number into: the low word of one that is wider (if it
\* refuses instead, nothing is read).
CInt(n) == ((n + HalfInt) % (2 * HalfInt)) - HalfInt

\* A text without what follows, if that is one of these.
Cut(text, tails) == IF text[2] \in tails THEN <<text[1], Whole>> ELSE text

\* "%2u" of a number below 100: the first character is a blank below ten, -1 here.
Printed(n) == <<IF n < 10 THEN -1 ELSE n \div 10, n % 10>>

\* The digits of "hh:mm:ss", printed with blanks, and every first blank a zero.
TimeToString(h, m, s) ==
  LET buf == Printed(h) \o Printed(m) \o Printed(s)
  IN  [i \in 1..6 |-> IF i % 2 = 1 /\ buf[i] = -1 THEN 0 ELSE buf[i]]

\* Slip: minutes for hours.
SecondsCountSwapped(buf) ==
  LET number(i) == (IF buf[i] = -1 THEN 0 ELSE 10 * buf[i]) + buf[i + 1]
  IN  number(5) + number(1) * 60 + number(3) * 3600

\* sscanf of "%2u:%2u:%2u", which skips blanks, and the seconds since midnight.
SecondsCount(buf) ==
  LET number(i) == (IF buf[i] = -1 THEN 0 ELSE 10 * buf[i]) + buf[i + 1]
  IN  number(5) + number(3) * 60 + number(1) * 3600

\* Time.local: where the clocks skip the hour, the time is one later.
Local(t) == IF zone = "gap" /\ <<t[1], t[2]>> = Gap THEN [t EXCEPT ![2] = @ + 1] ELSE t

-----------------------------------------------------------------------------
(* A statement.                                                            *)

\* The class of what get_data answers.
ClassOfColumn ==
  [char |-> "String", wchar |-> "String", binary |-> "String", integer |-> "Integer",
   bit |-> "Boolean", double |-> "Float", decimal |-> "Float", date |-> "Date",
   time |-> "Clock", timestamp |-> "Time"]

\* get_data: nil for NULL and, with a warning, for a type it does not know.  A text goes
\* through a buffer and, unless it is binary, ends at the first NUL.
GetData ==
  IF stored = Null \/ type = "other" THEN Nil
  ELSE [class |-> ClassOfColumn[type],
        of |-> CASE type \in {"char", "wchar"} -> Cut(stored, {Nul, Long})
                 [] type = "binary" -> Cut(stored, {Long})
                 [] type = "integer" -> <<CInt(stored[1])>>
                 [] type = "decimal" -> <<Double[stored[1]]>>
                 [] type = "time" -> TimeToString(stored[1], stored[2], stored[3])
                 [] type = "timestamp" -> Local(stored)
                 [] OTHER -> stored]

\* The methods query_bind_one_param calls on a value; it raises for other types.
Asks ==
  [char |-> {"to_s"}, binary |-> {"to_s"}, integer |-> {"to_i"}, bit |-> {"to_i"},
   double |-> {"to_f"}, decimal |-> {"to_f"}, date |-> {"year", "month", "day"}, time |-> {"hour", "min", "sec"},
   timestamp |-> {"year", "month", "day", "hour", "min", "sec"}]

\* The methods that classes of Ruby have.
Responds ==
  LET basic == {"to_s", "to_i", "to_f"} IN
  [NilClass |-> basic, String |-> basic, Clock |-> basic, Integer |-> basic, Float |-> basic,
   Boolean |-> {"to_s"}, Date |-> {"to_s", "year", "month", "day"},
   Time |-> basic \cup {"year", "month", "day", "hour", "min", "sec"}]

Bindable == type \in DOMAIN Asks /\ Asks[type] \subseteq Responds[held.class]

\* What is bound: of nil an empty string or zero, of a timestamp no fraction (of a decimal
\* the double it was read as).
Bound ==
  IF held = Nil THEN Blank
  ELSE IF type = "timestamp" THEN [held.of EXCEPT ![5] = 0] ELSE held.of

-----------------------------------------------------------------------------
(* A method.                                                               *)

ClassOfAnswer ==
  [string |-> "String", binary |-> "String", integer |-> "Integer", boolean |-> "Boolean",
   double |-> "Float", currency |-> "Float", time |-> "Clock", timestamp |-> "Time",
   list |-> "Array"]

\* intersys_method_extract_retval, which leaves the fraction out.  Its buffers are of the
\* size of the value, and a string ends at the first NUL.
ExtractRetval ==
  IF stored = Null THEN Nil
  ELSE [class |-> ClassOfAnswer[type],
        of |-> CASE type = "string" -> Cut(stored, {Nul})
                 [] type = "integer" -> <<CInt(stored[1])>>
                 [] type = "currency" -> <<Double[stored[1]]>>
                 [] type = "time" -> TimeToString(stored[1], stored[2], stored[3])
                 [] type = "timestamp" -> [Local(stored) EXCEPT ![5] = 0]
                 [] OTHER -> stored]

\* intersys_argument_set has no case for a currency and raises for a list with elements.
Settable == held = Nil \/ (type # "currency" /\ (type = "list" => held.of = Blank))

\* What an argument says to the server, which counts the seconds of a time.
Sent ==
  IF held = Nil THEN Null
  ELSE IF type = "time"
    THEN LET n == SecondsCount(held.of) IN <<n \div 3600, (n \div 60) % 60, n % 60>>
    ELSE held.of

-----------------------------------------------------------------------------
(* The program.                                                            *)

Read ==
  /\ held = Nothing
  /\ held' = IF path = "query" THEN GetData ELSE ExtractRetval
  /\ UNCHANGED <<path, type, zone, first, stored, copies>>

GiveBack ==
  /\ held # Nothing /\ copies < 2 /\ copies' = copies + 1
  /\ IF path = "query" THEN Bindable /\ stored' = Bound ELSE Settable /\ stored' = Sent
  /\ held' = Nothing
  /\ UNCHANGED <<path, type, zone, first>>

\* The conversion raises.
Refuses ==
  /\ held # Nothing
  /\ IF path = "query" THEN ~Bindable ELSE ~Settable
  /\ held' = Nothing
  /\ UNCHANGED <<path, type, zone, first, stored, copies>>

MarshalNext == Read \/ GiveBack \/ Refuses

MarshalSpec == MarshalInit /\ [][MarshalNext]_marshalVars

-----------------------------------------------------------------------------
(* Properties.                                                             *)

\* A value that is read and given back is what it was, and again after a second
\* time, but: a NULL read by a query becomes an empty string or zero (not by a method);
\* an integer beyond a C int is its low word and a decimal what a double leaves of it; a
\* text ends at its first NUL unless it is binary, and a query's at the end of the buffer;
\* a timestamp loses its fraction on both paths and, in the hour the clocks skip, moves
\* by an hour, out of it, so that the second time changes nothing more.
CopiesKeepTheRest ==
  copies > 0 =>
    IF first = Null THEN stored = IF path = "query" THEN Blank ELSE Null
    ELSE CASE type = "timestamp" ->
                /\ stored[5] = 0
                /\ \A i \in {1, 3, 4} : stored[i] = first[i]
                /\ stored[2] # first[2] =>
                     zone = "gap" /\ <<first[1], first[2]>> = Gap /\ stored[2] = first[2] + 1
           [] type = "integer" ->
                /\ stored = <<CInt(first[1])>>
                /\ first[1] \in -HalfInt..(HalfInt - 1) => stored = first
           [] type = "decimal" -> stored = <<Double[first[1]]>>
           [] type \in TextTypes ->
                /\ stored[1] = first[1]
                /\ stored[2] = IF \/ first[2] = Nul /\ type # "binary"
                                  \/ first[2] = Long /\ path = "query"
                               THEN Whole ELSE first[2]
           [] OTHER -> stored = first
=============================================================================
