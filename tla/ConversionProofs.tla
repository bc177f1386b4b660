-------------------------- MODULE ConversionProofs --------------------------
(***************************************************************************)
(* Values between Cache and Ruby: the day number of a date, for every date *)
(* from 1841 on, the elements of a list, for every list, and what a value  *)
(* is after it was read and given back, for every value.                   *)
(***************************************************************************)
EXTENDS MCConversions, SequenceTheorems, TLAPS

-----------------------------------------------------------------------------
(* Dates.                                                                  *)

\* January 1 of a year, in closed form: the leap days before it are counted by
\* divisions that round down, as divisions of TLA+ do.
NewYear(y) == (y - 1841) * 365 + 1
              + ((y - 1) \div 4 - 460) - ((y - 1) \div 100 - 18) + ((y - 1) \div 400 - 4)

\* Counting multiples: one more at each of them.
LEMMA Multiples ==
  ASSUME NEW y \in Nat, y > 0, NEW n \in {4, 100, 400}
  PROVE  y \div n = ((y - 1) \div n) + (IF y % n = 0 THEN 1 ELSE 0)
<1>1. CASE n = 4
  BY <1>1
<1>2. CASE n = 100
  BY <1>2
<1>3. CASE n = 400
  BY <1>3
<1>4. QED
  BY <1>1, <1>2, <1>3

\* A year divisible by 400 is divisible by 100, and one divisible by 100 by 4.
LEMMA Divisors ==
  ASSUME NEW y \in Nat
  PROVE  (y % 400 = 0 => y % 100 = 0) /\ (y % 100 = 0 => y % 4 = 0)
OBVIOUS

\* The closed form moves by the length of the year.
LEMMA NewYearMoves ==
  ASSUME NEW y \in Nat, y >= 1841
  PROVE  NewYear(y + 1) = NewYear(y) + YearLength(y)
<1>1. /\ y \div 4 = ((y - 1) \div 4) + (IF y % 4 = 0 THEN 1 ELSE 0)
      /\ y \div 100 = ((y - 1) \div 100) + (IF y % 100 = 0 THEN 1 ELSE 0)
      /\ y \div 400 = ((y - 1) \div 400) + (IF y % 400 = 0 THEN 1 ELSE 0)
  BY Multiples
<1>2. (y + 1) - 1 = y
  OBVIOUS
<1>3. (y + 1 - 1841) * 365 = (y - 1841) * 365 + 365
  OBVIOUS
<1>4. (y % 400 = 0 => y % 100 = 0) /\ (y % 100 = 0 => y % 4 = 0)
  BY Divisors
<1>5. QED
  BY <1>1, <1>2, <1>3, <1>4 DEF NewYear, YearLength, Leap

\* The division of C in the range the formula meets it.
LEMMA Quotients ==
  ASSUME NEW y \in Nat, y >= 1841
  PROVE  /\ Quotient(y - 1900 - 1, 4) =
              (y - 1) \div 4 - 475 + (IF y < 1900 /\ y % 4 # 1 THEN 1 ELSE 0)
                                   + (IF y = 1900 THEN 1 ELSE 0)
         /\ Quotient(y - 1900 - 1, 100) =
              (y - 1) \div 100 - 19 + (IF y <= 1900 THEN 1 ELSE 0)
         /\ Quotient(y - 1900 + 300 - 1, 400) = (y - 1) \div 400 - 4
<1>1. CASE y > 1900
  BY <1>1 DEF Quotient
<1>2. CASE y <= 1900
  BY <1>2 DEF Quotient
<1>3. QED
  BY <1>1, <1>2

\* A day shortened by less than a day is cut to the one before, but never below
\* the first of the year.
LEMMA YearDays ==
  ASSUME NEW days \in Nat, NEW shift \in Int, shift > -86400, shift < 86400
  PROVE  year_days(days, shift) = days - (IF shift > 0 /\ days > 0 THEN 1 ELSE 0)
<1>1. CASE days * 86400 - shift >= 0 /\ shift > 0
  <2>1. days > 0
    BY <1>1
  <2>2. (days * 86400 - shift) \div 86400 = days - 1
    BY <1>1
  <2>3. QED
    BY <1>1, <2>1, <2>2 DEF year_days, Quotient
<1>2. CASE days * 86400 - shift >= 0 /\ shift <= 0
  <2>1. (days * 86400 - shift) \div 86400 = days
    BY <1>2
  <2>2. QED
    BY <1>2, <2>1 DEF year_days, Quotient
<1>3. CASE days * 86400 - shift < 0
  <2>1. days = 0 /\ shift > 0
    BY <1>3
  <2>2. (-(days * 86400 - shift)) \div 86400 = 0
    BY <1>3, <2>1
  <2>3. QED
    BY <1>3, <2>1, <2>2 DEF year_days, Quotient
<1>4. QED
  BY <1>1, <1>2, <1>3

\* The formula of the C code, against the count in closed form.
LEMMA Formula ==
  ASSUME NEW y \in Nat, y >= 1841, NEW days \in Nat, NEW shift \in Int, shift > -86400, shift < 86400
  PROVE  days_count(y, days, shift) =
           NewYear(y) + days - (IF y < 1900 /\ y % 4 = 1 THEN 1 ELSE 0)
                             - (IF shift > 0 /\ days > 0 THEN 1 ELSE 0)
<1> DEFINE q4 == (y - 1) \div 4
           q100 == (y - 1) \div 100
           q400 == (y - 1) \div 400
           short == IF y < 1900 /\ y % 4 # 1 THEN 1 ELSE 0
           dayOne == IF y = 1900 THEN 1 ELSE 0
           old == IF y <= 1900 THEN 1 ELSE 0
           behind == IF y < 1900 /\ y % 4 = 1 THEN 1 ELSE 0
           cut == IF shift > 0 /\ days > 0 THEN 1 ELSE 0
<1>1. /\ Quotient(y - 1900 - 1, 4) = q4 - 475 + short + dayOne
      /\ Quotient(y - 1900 - 1, 100) = q100 - 19 + old
      /\ Quotient(y - 1900 + 300 - 1, 400) = q400 - 4
  BY Quotients
<1>2. year_days(days, shift) = days - cut
  BY YearDays
<1>3. NewYear(y) = (y - 1841) * 365 + 1 + (q4 - 460) - (q100 - 18) + (q400 - 4)
  BY DEF NewYear
<1>4. days_count(y, days, shift) =
        (y - 1900) * 365 + Quotient(y - 1900 - 1, 4) - Quotient(y - 1900 - 1, 100)
        + Quotient(y - 1900 + 300 - 1, 400) + year_days(days, shift) + 21550
  BY DEF days_count
<1>5. q4 \in Int /\ q100 \in Int /\ q400 \in Int
  OBVIOUS
<1>6. short \in Int /\ dayOne \in Int /\ old \in Int /\ cut \in Int
  OBVIOUS
<1>7. behind \in Int
  OBVIOUS
<1>8. short + dayOne - old = -behind
  OBVIOUS
<1> HIDE DEF q4, q100, q400, short, dayOne, old, behind, cut
<1>9. days_count(y, days, shift) = NewYear(y) + days - behind - cut
  BY ONLY <1>1, <1>2, <1>3, <1>4, <1>5, <1>6, <1>7, <1>8, y \in Nat, days \in Nat
<1>10. QED
  BY ONLY <1>9 DEF behind, cut

\* The walk of the calendar counts what the closed form gives.
Counted == elapsed = NewYear(year) + yday /\ yday < YearLength(year)

IInv == TypeOK /\ Counted

\* The calendar keeps its types, and its count is the closed form, day after day.
THEOREM CalendarCounts == Spec => []IInv
<1>1. Init => IInv
  BY DEF Init, IInv, TypeOK, Counted, NewYear, YearLength, Leap
<1>2. IInv /\ [Tomorrow]_vars => IInv'
  <2> SUFFICES ASSUME IInv, [Tomorrow]_vars
               PROVE  IInv'
    OBVIOUS
  <2>1. CASE Tomorrow /\ yday + 1 < YearLength(year)
    <3>1. year' = year /\ yday' = yday + 1 /\ elapsed' = elapsed + 1
      BY <2>1 DEF Tomorrow
    <3>2. NewYear(year) \in Int
      BY DEF IInv, TypeOK, NewYear
    <3>3. QED
      BY <2>1, <3>1, <3>2 DEF IInv, TypeOK, Counted
  <2>2. CASE Tomorrow /\ ~(yday + 1 < YearLength(year))
    <3>1. year' = year + 1 /\ yday' = 0 /\ elapsed' = elapsed + 1
      BY <2>2 DEF Tomorrow
    <3>2. yday + 1 = YearLength(year)
      BY <2>2 DEF IInv, TypeOK, Counted, YearLength
    <3>3. NewYear(year + 1) = NewYear(year) + YearLength(year)
      BY NewYearMoves DEF IInv, TypeOK
    <3>4. NewYear(year) \in Int /\ YearLength(year + 1) > 0
      BY DEF IInv, TypeOK, NewYear, YearLength
    <3>5. elapsed + 1 = NewYear(year + 1) + 0
      BY <3>2, <3>3, <3>4 DEF IInv, TypeOK, Counted
    <3>6. QED
      BY <3>1, <3>4, <3>5 DEF IInv, TypeOK, Counted
  <2>3. CASE UNCHANGED vars
    BY <2>3 DEF vars, IInv, TypeOK, Counted
  <2>4. QED
    BY <2>1, <2>2, <2>3
<1>3. QED
  BY <1>1, <1>2, PTL DEF Spec

\* From January 1, 1841 on, whatever the year, the number sent is short of the one
\* Cache counts by exactly the days DeviationIsExact names.
THEOREM DeviationIsExactHolds == Spec => []DeviationIsExact
<1>1. IInv => DeviationIsExact
  <2> SUFFICES ASSUME IInv, NEW shift \in Shifts
               PROVE  elapsed - days_count(year, yday, shift) =
                        (IF year < 1900 /\ year % 4 = 1 THEN 1 ELSE 0)
                        + (IF shift > 0 /\ yday > 0 THEN 1 ELSE 0)
    BY DEF DeviationIsExact
  <2>1. shift \in Int /\ shift > -86400 /\ shift < 86400
    BY ShiftsAssumption
  <2>2. year \in Nat /\ year >= 1841 /\ yday \in Nat /\ elapsed = NewYear(year) + yday
    BY DEF IInv, TypeOK, Counted
  <2>3. NewYear(year) \in Int
    BY <2>2 DEF NewYear
  <2>4. days_count(year, yday, shift) =
          NewYear(year) + yday - (IF year < 1900 /\ year % 4 = 1 THEN 1 ELSE 0)
                               - (IF shift > 0 /\ yday > 0 THEN 1 ELSE 0)
    BY <2>1, <2>2, Formula
  <2>5. QED
    BY ONLY <2>2, <2>3, <2>4
<1>2. QED
  BY <1>1, CalendarCounts, PTL

\* From 1900 on, in a zone that stays where it is, the day after a date has the
\* number after its number.
THEOREM ConsecutiveDaysHolds == Spec => ConsecutiveDays
<1>1. IInv /\ IInv' /\ [Tomorrow]_vars =>
        [year >= 1900 => days_count(year', yday', 0) = days_count(year, yday, 0) + 1]_vars
  <2> SUFFICES ASSUME IInv, IInv', Tomorrow, year >= 1900
               PROVE  days_count(year', yday', 0) = days_count(year, yday, 0) + 1
    BY DEF vars
  <2>1. /\ year \in Nat /\ year >= 1900 /\ yday \in Nat
        /\ year' \in Nat /\ year' >= 1900 /\ yday' \in Nat
        /\ elapsed = NewYear(year) + yday
        /\ elapsed' = NewYear(year') + yday'
        /\ elapsed' = elapsed + 1
    BY DEF IInv, TypeOK, Counted, Tomorrow
  <2>2. days_count(year, yday, 0) = NewYear(year) + yday
    <3>1. NewYear(year) \in Int
      BY <2>1 DEF NewYear
    <3>2. QED
      BY <2>1, <3>1, Formula
  <2>3. days_count(year', yday', 0) = NewYear(year') + yday'
    <3>1. NewYear(year') \in Int
      BY <2>1 DEF NewYear
    <3>2. QED
      BY <2>1, <3>1, Formula
  <2>4. QED
    BY ONLY <2>1, <2>2, <2>3
<1>2. QED
  BY <1>1, CalendarCounts, PTL DEF Spec, ConsecutiveDays

-----------------------------------------------------------------------------
(* Lists.                                                                  *)

\* What a list that is answered says of an element and what became of it.
Becomes(sent, elem) ==
  /\ sent.kind = "null" => elem.kind = "nil"
  /\ \A kind \in {"double", "string"} : sent.kind = kind => elem.kind = kind
  /\ sent.kind = "integer" /\ sent.n % 2 = 1 =>
       IF sent.n % 4 = 3 THEN elem = [kind |-> "integer", n |-> sent.n \div 4]
       ELSE elem.kind # "integer"
  /\ sent # [kind |-> "integer", n |-> 0]

\* The elements extracted so far are the first of the buffer, each in its place and
\* each what the element there becomes.
Extracted ==
  /\ DOMAIN buf = 1..Len(buf) /\ Len(buf) \in Nat
  /\ \A i \in 1..Len(buf) : buf[i] \in Elems
  /\ list \in Seq(RubyElems)
  /\ p = Len(list) /\ Len(list) <= Len(buf)
  /\ \A i \in 1..Len(list) : Becomes(buf[i], list[i])
  /\ extracting = "answered" => Len(list) = Len(buf)

\* An element that becomes what it should keeps the list in order.
LEMMA PushedInOrder ==
  ASSUME Extracted, Len(list) < Len(buf), extracting = "yes",
         NEW elem \in RubyElems, Becomes(buf[p + 1], elem), Pushed(elem)
  PROVE  Extracted'
<1>1. list \in Seq(RubyElems) /\ Len(list) \in Nat
  BY DEF Extracted
<1>2. /\ list' \in Seq(RubyElems) /\ Len(list') = Len(list) + 1
      /\ list'[Len(list) + 1] = elem
      /\ \A i \in 1..Len(list) : list'[i] = list[i]
  BY <1>1 DEF Pushed
<1>3. \A i \in 1..Len(list') : Becomes(buf'[i], list'[i])
  <2> SUFFICES ASSUME NEW i \in 1..Len(list') PROVE Becomes(buf[i], list'[i])
    BY DEF Pushed
  <2>1. CASE i = Len(list) + 1
    BY <1>2, <2>1 DEF Extracted
  <2>2. CASE i \in 1..Len(list)
    BY <1>2, <2>2 DEF Extracted
  <2>3. QED
    BY <1>1, <1>2, <2>1, <2>2
<1>4. QED
  BY <1>1, <1>2, <1>3 DEF Extracted, Pushed

\* An odd integer and its half.
LEMMA Quarters ==
  ASSUME NEW n \in Int, n % 2 = 1
  PROVE  /\ n % 4 = 3 => (n \div 2) % 2 = 1 /\ (n \div 2) \div 2 = n \div 4
         /\ n % 4 # 3 => (n \div 2) % 2 = 0
         /\ n \div 2 \in Int
<1>1. PICK q \in Int : n = 4 * q + 3 \/ n = 4 * q + 1
  <2>1. n = 4 * (n \div 4) + (n % 4) /\ n % 4 \in {0, 1, 2, 3}
    OBVIOUS
  <2>2. n % 4 \in {1, 3}
    BY <2>1
  <2>3. QED
    BY <2>1, <2>2
<1>2. QED
  BY <1>1

\* An integer, if it is pushed, becomes what it should.
LEMMA IntegerBecomes ==
  ASSUME NEW n \in Int, n # 0, NEW elem \in RubyElems,
         n % 2 = 1 => elem = Word(n \div 2)
  PROVE  Becomes([kind |-> "integer", n |-> n], elem)
<1>1. CASE n % 2 = 1 /\ n % 4 = 3
  <2>1. elem = [kind |-> "integer", n |-> n \div 4]
    BY <1>1, Quarters DEF Word
  <2>2. QED
    BY <1>1, <2>1 DEF Becomes
<1>2. CASE n % 2 = 1 /\ n % 4 # 3
  <2>1. elem \in {Plain("false"), Plain("wild")}
    BY <1>2, Quarters DEF Word
  <2>2. elem.kind \in {"false", "wild"}
    BY <2>1 DEF Plain
  <2>3. QED
    BY <1>2, <2>2 DEF Becomes
<1>3. CASE n % 2 # 1
  BY <1>3 DEF Becomes
<1>4. QED
  BY <1>1, <1>2, <1>3

\* A word is an element of an array in Ruby.
LEMMA WordElem ==
  ASSUME NEW value \in Int
  PROVE  Word(value) \in RubyElems
BY DEF Word, Plain, RubyElems

\* Whatever the lists and integers: the elements that are answered are what
\* IntegersAreQuartered says of those that were sent.
THEOREM IntegersAreQuarteredHolds == DlistSpec => []IntegersAreQuartered
<1>1. DlistInit => Extracted
  <2> SUFFICES ASSUME NEW size \in 0..MaxElems, buf \in [1..size -> Elems], p = 0, list = <<>>,
                      extracting = "no"
               PROVE  Extracted
    BY DEF DlistInit
  <2>1. size \in Nat
    BY SentAssumption
  <2>2. Len(buf) = size /\ DOMAIN buf = 1..size
    BY <2>1
  <2>3. QED
    BY <2>1, <2>2 DEF Extracted
<1>2. Extracted /\ [DlistNext]_dlistVars => Extracted'
  <2> SUFFICES ASSUME Extracted, [DlistNext]_dlistVars PROVE Extracted'
    OBVIOUS
  <2>1. CASE TakeBuffer
    BY <2>1 DEF TakeBuffer, Extracted
  <2> DEFINE next == buf[p + 1]
  <2>2. ASSUME NEW kind, Due(kind)
        PROVE  /\ Len(list) < Len(buf) /\ extracting = "yes"
               /\ next \in Elems /\ next.kind = kind
    BY <2>2 DEF Due, Extracted
  <2>3. ASSUME Due("null") PROVE Becomes(next, Plain("nil")) /\ Plain("nil") \in RubyElems
    BY <2>2, <2>3 DEF Becomes, Plain, RubyElems
  <2>4. CASE NullElem
    BY <2>2, <2>3, <2>4, PushedInOrder DEF NullElem
  <2>5. CASE DoubleElem
    <3>1. Becomes(next, Plain("double")) /\ Plain("double") \in RubyElems
      BY <2>2, <2>5 DEF DoubleElem, Becomes, Plain, RubyElems
    <3>2. QED
      BY <2>2, <2>5, <3>1, PushedInOrder DEF DoubleElem
  <2>6. CASE StringElem
    <3>1. Becomes(next, Plain("string")) /\ Plain("string") \in RubyElems
      BY <2>2, <2>6 DEF StringElem, Becomes, Plain, RubyElems
    <3>2. QED
      BY <2>2, <2>6, <3>1, PushedInOrder DEF StringElem
  <2>7. CASE IntElem
    <3>1. /\ Due("integer") /\ next.n \in Int
          /\ next = [kind |-> "integer", n |-> next.n]
      <4>1. Due("integer")
        BY <2>7 DEF IntElem
      <4>2. next \in Elems /\ next.kind = "integer"
        BY <2>2, <4>1
      <4>3. next \in [kind: {"integer"}, n: Sent32]
        BY <4>2 DEF Elems
      <4>4. QED
        BY <4>1, <4>3, SentAssumption
    <3>2. ASSUME NEW elem \in RubyElems, Pushed(elem), next.n # 0,
                 next.n % 2 = 1 => elem = Word(next.n \div 2)
          PROVE  Extracted'
      <4>1. Becomes(next, elem)
        BY <3>1, <3>2, IntegerBecomes
      <4>2. QED
        BY <2>2, <3>1, <3>2, <4>1, PushedInOrder
    <3>3. CASE next.n % 2 = 1 /\ Pushed(Word(next.n \div 2))
      <4>1. Word(next.n \div 2) \in RubyElems
        BY <3>1, <3>3, Quarters, WordElem
      <4>2. QED
        BY <3>1, <3>2, <3>3, <4>1
    <3>4. CASE next.n % 2 # 1 /\ next.n # 0 /\ \E number \in Strays : Pushed(Word(number))
      <4>1. PICK number \in Strays : Pushed(Word(number))
        BY <3>4
      <4>2. Word(number) \in RubyElems
        BY SentAssumption, WordElem
      <4>3. QED
        BY <3>2, <3>4, <4>1, <4>2
    <3>5. CASE extracting' \in {"raised", "crashed"} /\ UNCHANGED <<buf, p, list>>
      BY <3>5 DEF Extracted
    <3>6. QED
      BY <2>7, <3>3, <3>4, <3>5 DEF IntElem
  <2>8. CASE UnknownElem
    BY <2>8 DEF UnknownElem, Extracted
  <2>9. CASE AnswerList
    BY <2>9 DEF AnswerList, Extracted
  <2>10. CASE UNCHANGED dlistVars
    BY <2>10 DEF dlistVars, Extracted
  <2>11. QED
    BY <2>1, <2>4, <2>5, <2>6, <2>7, <2>8, <2>9, <2>10 DEF DlistNext
<1>3. Extracted => IntegersAreQuartered
  BY DEF Extracted, IntegersAreQuartered, Becomes
<1>4. QED
  BY <1>1, <1>2, <1>3, PTL DEF DlistSpec

-----------------------------------------------------------------------------
(* Values that are read and given back.                                    *)

\* The number two digits are, of which the first may be a blank.
Number(a, b) == (IF a = -1 THEN 0 ELSE 10 * a) + b

Digits == 0..9

\* Hours, minutes and seconds, of a number of seconds.
Split(n) == <<n \div 3600, (n \div 60) % 60, n % 60>>

\* A number that is printed with two places.
LEMMA PrintedIsRead ==
  ASSUME NEW n \in 0..99
  PROVE  \E a \in Digits \cup {-1}, b \in Digits : Printed(n) = <<a, b>> /\ Number(a, b) = n
<1>1. PICK q \in Int : q = n \div 10
  OBVIOUS
<1>2. PICK r \in Int : r = n % 10
  OBVIOUS
<1>3. q \in Digits /\ r \in Digits
  BY <1>1, <1>2 DEF Digits
<1>4. 10 * q + r = n
  BY <1>1, <1>2
<1>5. Printed(n) = <<IF n < 10 THEN -1 ELSE q, r>>
  BY <1>1, <1>2 DEF Printed
<1>6. CASE n < 10
  <2>1. q = 0
    BY <1>3, <1>4, <1>6 DEF Digits
  <2>2. Number(-1, r) = n
    BY <1>4, <2>1 DEF Number
  <2>3. Printed(n) = <<-1, r>>
    BY <1>5, <1>6
  <2>4. QED
    BY <1>3, <2>2, <2>3
<1>7. CASE ~(n < 10)
  <2>1. q # -1 /\ Number(q, r) = n
    BY <1>3, <1>4 DEF Number, Digits
  <2>2. Printed(n) = <<q, r>>
    BY <1>5, <1>7
  <2>3. QED
    BY <1>3, <2>1, <2>2
<1>8. QED
  BY <1>6, <1>7

\* The parts of two sequences, one after the other.
LEMMA Joined ==
  ASSUME NEW u \in Seq(Int), NEW v \in Seq(Int)
  PROVE  /\ u \o v \in Seq(Int)
         /\ Len(u \o v) = Len(u) + Len(v)
         /\ \A i \in 1..Len(u) : (u \o v)[i] = u[i]
         /\ \A i \in 1..Len(v) : (u \o v)[Len(u) + i] = v[i]
<1> DEFINE s == u \o v
<1>1. /\ s \in Seq(Int) /\ Len(s) = Len(u) + Len(v)
      /\ \A i \in 1..Len(u) + Len(v) : s[i] = IF i <= Len(u) THEN u[i] ELSE v[i - Len(u)]
  BY ConcatProperties
<1>2. Len(u) \in Nat /\ Len(v) \in Nat
  OBVIOUS
<1> HIDE DEF s
<1>3. ASSUME NEW i \in 1..Len(u)
      PROVE  s[i] = u[i]
  <2>1. i \in 1..Len(u) + Len(v) /\ i <= Len(u)
    BY <1>2
  <2>2. QED
    BY <1>1, <2>1, Zenon
<1>4. ASSUME NEW i \in 1..Len(v)
      PROVE  s[Len(u) + i] = v[i]
  <2>1. PICK j \in Nat : j = Len(u) + i
    BY <1>2
  <2>2. j \in 1..Len(u) + Len(v) /\ ~(j <= Len(u)) /\ j - Len(u) = i
    BY <1>2, <2>1
  <2>3. s[j] = v[j - Len(u)]
    BY <1>1, <2>2, Zenon
  <2>4. QED
    BY <2>1, <2>2, <2>3
<1>5. QED
  BY <1>1, <1>3, <1>4 DEF s

\* The digits of three numbers, one after the other.
LEMMA SixDigits ==
  ASSUME NEW a \in Int, NEW b \in Int, NEW c \in Int, NEW d \in Int, NEW e \in Int, NEW f \in Int
  PROVE  LET s == <<a, b>> \o <<c, d>> \o <<e, f>>
         IN  s[1] = a /\ s[2] = b /\ s[3] = c /\ s[4] = d /\ s[5] = e /\ s[6] = f
<1> DEFINE x == <<a, b>>  y == <<c, d>>  z == <<e, f>>  w == x \o y
<1>1. x \in Seq(Int) /\ Len(x) = 2 /\ x[1] = a /\ x[2] = b
  OBVIOUS
<1>2. y \in Seq(Int) /\ Len(y) = 2 /\ y[1] = c /\ y[2] = d
  OBVIOUS
<1>3. z \in Seq(Int) /\ Len(z) = 2 /\ z[1] = e /\ z[2] = f
  OBVIOUS
<1>4. SUFFICES LET s == w \o z
               IN  s[1] = a /\ s[2] = b /\ s[3] = c /\ s[4] = d /\ s[5] = e /\ s[6] = f
  OBVIOUS
<1> HIDE DEF x, y, z
<1>5. /\ w \in Seq(Int) /\ Len(w) = 4
      /\ w[1] = a /\ w[2] = b /\ w[3] = c /\ w[4] = d
  <2>1. /\ w \in Seq(Int) /\ Len(w) = Len(x) + Len(y)
        /\ \A i \in 1..Len(x) : w[i] = x[i]
        /\ \A i \in 1..Len(y) : w[Len(x) + i] = y[i]
    BY <1>1, <1>2, Joined
  <2> HIDE DEF w
  <2>2. w[1] = x[1] /\ w[2] = x[2]
    BY <1>1, <1>2, <2>1
  <2>3. w[2 + 1] = y[1] /\ w[2 + 2] = y[2]
    BY <1>1, <1>2, <2>1
  <2>4. QED
    BY <1>1, <1>2, <2>1, <2>2, <2>3
<1> DEFINE s == w \o z
<1> HIDE DEF w
<1>6. /\ \A i \in 1..Len(w) : s[i] = w[i]
      /\ \A i \in 1..Len(z) : s[Len(w) + i] = z[i]
  BY <1>3, <1>5, Joined
<1> HIDE DEF s
<1>7. /\ s[1] = w[1] /\ s[2] = w[2] /\ s[3] = w[3] /\ s[4] = w[4]
      /\ s[4 + 1] = z[1] /\ s[4 + 2] = z[2]
  <2>1. s[1] = w[1] /\ s[2] = w[2] /\ s[3] = w[3] /\ s[4] = w[4]
    BY <1>5, <1>6
  <2>2. s[4 + 1] = z[1] /\ s[4 + 2] = z[2]
    BY <1>3, <1>5, <1>6
  <2>3. QED
    BY <2>1, <2>2
<1>8. s[5] = e /\ s[6] = f
  BY <1>3, <1>7
<1>9. s[1] = a /\ s[2] = b /\ s[3] = c /\ s[4] = d
  BY <1>5, <1>7
<1>10. QED
  BY <1>8, <1>9 DEF s

\* A time on the clock.
LEMMA ClockTimes ==
  ASSUME NEW t \in Clock
  PROVE  \E h \in 0..23, m \in 0..59, s \in 0..59 :
           t = <<h, m, s>> /\ t[1] = h /\ t[2] = m /\ t[3] = s
<1>1. t[1] \in Hours /\ t[2] \in Sixtieths /\ t[3] \in Sixtieths /\ t = <<t[1], t[2], t[3]>>
  BY DEF Clock
<1>2. QED
  BY <1>1, ClockAssumption

\* What time_to_string prints is read as the time it was printed of.
LEMMA TimeIsRead ==
  ASSUME NEW t \in Clock
  PROVE  Split(SecondsCount(TimeToString(t[1], t[2], t[3]))) = t
<1>1. PICK h \in 0..23, m \in 0..59, s \in 0..59 :
        t = <<h, m, s>> /\ t[1] = h /\ t[2] = m /\ t[3] = s
  BY ClockTimes
<1>2. PICK a \in Digits \cup {-1}, b \in Digits : Printed(h) = <<a, b>> /\ Number(a, b) = h
  <2>1. h \in 0..99
    OBVIOUS
  <2>2. QED
    BY <2>1, PrintedIsRead
<1>3. PICK c \in Digits \cup {-1}, d \in Digits : Printed(m) = <<c, d>> /\ Number(c, d) = m
  <2>1. m \in 0..99
    OBVIOUS
  <2>2. QED
    BY <2>1, PrintedIsRead
<1>4. PICK e \in Digits \cup {-1}, f \in Digits : Printed(s) = <<e, f>> /\ Number(e, f) = s
  <2>1. s \in 0..99
    OBVIOUS
  <2>2. QED
    BY <2>1, PrintedIsRead
<1>5. PICK printed : printed = <<a, b>> \o <<c, d>> \o <<e, f>>
  OBVIOUS
<1>6. /\ printed[1] = a /\ printed[2] = b /\ printed[3] = c
      /\ printed[4] = d /\ printed[5] = e /\ printed[6] = f
  BY <1>5, SixDigits DEF Digits
<1>7. PICK z : z = TimeToString(t[1], t[2], t[3])
  OBVIOUS
<1>8. z = [i \in 1..6 |-> IF i % 2 = 1 /\ printed[i] = -1 THEN 0 ELSE printed[i]]
  BY <1>1, <1>2, <1>3, <1>4, <1>5, <1>7 DEF TimeToString
<1>9. /\ z[1] = (IF a = -1 THEN 0 ELSE a) /\ z[2] = b
      /\ z[3] = (IF c = -1 THEN 0 ELSE c) /\ z[4] = d
      /\ z[5] = (IF e = -1 THEN 0 ELSE e) /\ z[6] = f
  BY <1>6, <1>8 DEF Digits
<1>10. SecondsCount(z) = Number(z[5], z[6]) + Number(z[3], z[4]) * 60 + Number(z[1], z[2]) * 3600
  BY DEF SecondsCount, Number
<1>11. Number(z[1], z[2]) = h /\ Number(z[3], z[4]) = m /\ Number(z[5], z[6]) = s
  BY <1>2, <1>3, <1>4, <1>9 DEF Number, Digits
<1>12. PICK n \in Nat : n = s + m * 60 + h * 3600
  OBVIOUS
<1>13. n \div 3600 = h /\ (n \div 60) % 60 = m /\ n % 60 = s
  <2>1. n \div 60 = m + h * 60 /\ n % 60 = s
    BY <1>12
  <2>2. n \div 3600 = h
    BY <1>12
  <2>3. (m + h * 60) % 60 = m
    OBVIOUS
  <2>4. QED
    BY <2>1, <2>2, <2>3
<1>14. SecondsCount(z) = n
  BY <1>10, <1>11, <1>12
<1>15. Split(n) = t
  BY <1>1, <1>13 DEF Split
<1>16. QED
  BY <1>7, <1>14, <1>15

\* The parts of a timestamp are numbers.
LEMMA StampParts ==
  ASSUME NEW t \in Stamps
  PROVE  t \in [1..5 -> Int]
<1>1. PICK d \in Int, h \in Int, m \in Int, s \in Int, f \in Int : t = <<d, h, m, s, f>>
  <2>1. /\ t[1] \in Days /\ t[2] \in Hours /\ t[3] \in Sixtieths /\ t[4] \in Sixtieths
        /\ t[5] \in {0, 1} /\ t = <<t[1], t[2], t[3], t[4], t[5]>>
    BY DEF Stamps
  <2>2. QED
    BY <2>1, ClockAssumption
<1>2. <<d, h, m, s, f>> \in [1..5 -> Int]
  OBVIOUS
<1>3. QED
  BY <1>1, <1>2

\* What values of the two types on the clock are.
LEMMA StampContent ==
  Content("timestamp") = Stamps
BY DEF Content

LEMMA TimeContent ==
  Content("time") = Clock
BY DEF Content

\* A timestamp that was read or copied: the hour it had or the one it was moved to.
Moved(t) ==
  /\ t \in [1..5 -> Int]
  /\ t[1] = first[1] /\ t[3] = first[3] /\ t[4] = first[4]
  /\ t[2] = first[2] \/ (zone = "gap" /\ <<first[1], first[2]>> = Gap /\ t[2] = first[2] + 1)

\* The types of which a query copies a NULL.
Blanks == {"char", "binary", "integer", "bit", "double", "decimal"}

\* The types without a clock.
Clockless == (QueryTypes \cup MethodTypes) \ {"time", "timestamp", "other"}

\* What is left of such a value when it is read.
Left(v) ==
  CASE type \in {"char", "wchar"} -> Cut(v, {Nul, Long})
    [] type = "binary" -> IF path = "query" THEN Cut(v, {Long}) ELSE v
    [] type = "string" -> Cut(v, {Nul})
    [] type = "integer" -> <<CInt(v[1])>>
    [] type \in {"decimal", "currency"} -> <<Double[v[1]]>>
    [] OTHER -> v

\* Ruby holds nothing, or a value of the server's.
Holds(values) == held = Nothing \/ (held.class # "NilClass" /\ held.of \in values)

\* What never changes.
Paths ==
  /\ path \in {"query", "method"} /\ type \in (IF path = "query" THEN QueryTypes ELSE MethodTypes)
  /\ first \in Content(type) \cup {Null} /\ copies \in Nat

\* A NULL: gone from a query once it was given back, kept by a method.
NullCopied ==
  first = Null =>
    IF path = "method" THEN stored = Null /\ held \in {Nothing, Nil}
    ELSE \/ copies = 0 /\ stored = Null /\ held \in {Nothing, Nil}
         \/ stored = Blank /\ type \in Blanks /\ Holds({Blank})

\* A timestamp.
StampCopied ==
  first # Null /\ type = "timestamp" =>
    /\ Moved(stored) /\ (copies > 0 => stored[5] = 0)
    /\ \/ held = Nothing
       \/ held.class # "NilClass" /\ Moved(held.of) /\ (path = "method" => held.of[5] = 0)

\* A time of day: its digits, which a query has no type to take back as.
TimeCopied ==
  first # Null /\ type = "time" =>
    /\ stored = first
    /\ Holds({TimeToString(first[1], first[2], first[3])})
    /\ path = "query" => held = Nothing \/ held.class = "Clock"

\* A value without a clock: what reading leaves of it, once it was given back (there is
\* no type to give a currency back as).
PlainCopied ==
  first # Null /\ type \in Clockless =>
    /\ stored \in {first, Left(first)} /\ (copies > 0 => stored = Left(first))
    /\ type = "currency" => copies = 0
    /\ Holds({Left(first)})

\* get_data answers nil, which has no type to be bound as.
OtherCopied == type = "other" => copies = 0 /\ stored = first

\* What holds between reading and giving back, whatever was copied before.
Copied == Paths /\ NullCopied /\ StampCopied /\ TimeCopied /\ PlainCopied /\ OtherCopied

-----------------------------------------------------------------------------
\* What is there has a class of its own, and a time read by a query is a Clock.
LEMMA ColumnClasses ==
  ASSUME NEW t \in QueryTypes, t # "other"
  PROVE  /\ ClassOfColumn[t] # "NilClass" /\ ClassOfColumn[t] # "nothing"
         /\ t = "time" => ClassOfColumn[t] = "Clock"
BY DEF QueryTypes, ClassOfColumn

\* An answer that is there has a class of its own too.
LEMMA AnswerClasses ==
  ASSUME NEW t \in MethodTypes
  PROVE  ClassOfAnswer[t] # "NilClass" /\ ClassOfAnswer[t] # "nothing"
BY DEF MethodTypes, ClassOfAnswer

\* Making a timestamp of local time moves it at most once.
LEMMA LocalMoves ==
  ASSUME NEW t, Moved(t)
  PROVE  Moved(Local(t)) /\ Local(t)[5] = t[5]
<1>1. t \in [1..5 -> Int]
  BY DEF Moved
<1>2. CASE zone = "gap" /\ <<t[1], t[2]>> = Gap
  <2>1. Local(t) = [t EXCEPT ![2] = t[2] + 1]
    BY <1>2 DEF Local
  <2>2. t[2] = first[2]
    <3>1. t[1] \in Int /\ t[2] \in Int
      BY <1>1
    <3>2. ASSUME <<first[1], first[2]>> = Gap, t[2] = first[2] + 1
          PROVE  FALSE
      <4>1. first[2] = t[2]
        BY <1>2, <3>2
      <4>2. QED
        BY <3>1, <3>2, <4>1
    <3>3. QED
      BY <3>2 DEF Moved
  <2>3. <<first[1], first[2]>> = Gap
    BY <1>2, <2>2 DEF Moved
  <2>4. QED
    BY <1>1, <1>2, <2>1, <2>2, <2>3 DEF Moved
<1>3. CASE ~(zone = "gap" /\ <<t[1], t[2]>> = Gap)
  BY <1>3 DEF Local
<1>4. QED
  BY <1>2, <1>3

\* A fraction that is dropped changes nothing else.
LEMMA NoFraction ==
  ASSUME NEW t, Moved(t)
  PROVE  Moved([t EXCEPT ![5] = 0]) /\ [t EXCEPT ![5] = 0][5] = 0
BY DEF Moved

\* An int is copied into an int as it is.
LEMMA IntIsCopied ==
  ASSUME NEW n \in Int
  PROVE  /\ CInt(n) \in -HalfInt..(HalfInt - 1)
         /\ n \in -HalfInt..(HalfInt - 1) => CInt(n) = n
<1>1. 2 * HalfInt \in Nat /\ 2 * HalfInt > 0 /\ HalfInt \in Nat
  BY NumbersAssumption
<1>2. (n + HalfInt) % (2 * HalfInt) \in 0..(2 * HalfInt - 1)
  BY <1>1
<1>3. ASSUME n \in -HalfInt..(HalfInt - 1)
      PROVE  (n + HalfInt) % (2 * HalfInt) = n + HalfInt
  <2>1. n + HalfInt \in Nat /\ n + HalfInt < 2 * HalfInt
    BY <1>1, <1>3
  <2>2. PICK k \in Nat, m \in Nat : k = n + HalfInt /\ m = 2 * HalfInt
    BY <1>1, <2>1
  <2>3. k % m = k
    BY <2>1, <2>2
  <2>4. QED
    BY <2>2, <2>3
<1>4. QED
  BY <1>1, <1>2, <1>3 DEF CInt

\* A second reading leaves what the first one left.
LEMMA LeftTwice ==
  ASSUME first \in Content(type), type \in Clockless
  PROVE  Left(Left(first)) = Left(first) /\ Left(first) # Null
<1>1. CASE type \in TextTypes
  <2>1. first \in {<<x, y>> : x \in Texts, y \in {Whole, Nul, Long}}
    BY <1>1 DEF Content, TextTypes
  <2>2. PICK x \in Texts, y \in {Whole, Nul, Long} : first = <<x, y>>
    BY <2>1
  <2>3. Left(first) \in {<<x, y>>, <<x, Whole>>}
    BY <1>1, <2>2 DEF Left, Cut, TextTypes
  <2>4. Left(<<x, Whole>>) = <<x, Whole>>
    BY <1>1 DEF Left, Cut, TextTypes, Whole, Nul, Long
  <2>5. QED
    BY <2>2, <2>3, <2>4 DEF Null
<1>2. CASE type \in {"integer", "decimal", "currency"}
  <2>1. PICK n \in Numbers : first = <<n>>
    BY <1>2 DEF Content, TextTypes
  <2>2. n \in Int /\ Double[Double[n]] = Double[n]
    BY NumbersAssumption, DoubleAssumption
  <2>3. CInt(CInt(n)) = CInt(n)
    <3>1. PICK low : low = CInt(n)
      OBVIOUS
    <3>2. low \in -HalfInt..(HalfInt - 1)
      BY <2>2, <3>1, IntIsCopied
    <3>3. low \in Int
      BY <3>2, NumbersAssumption
    <3>4. QED
      BY <3>1, <3>2, <3>3, IntIsCopied
  <2>4. Left(first) = IF type = "integer" THEN <<CInt(n)>> ELSE <<Double[n]>>
    BY <1>2, <2>1 DEF Left
  <2>5. CASE type = "integer"
    <3>1. Left(<<CInt(n)>>) = <<CInt(CInt(n))>>
      BY <2>5 DEF Left
    <3>2. QED
      BY <2>3, <2>4, <2>5, <3>1 DEF Null
  <2>6. CASE type # "integer"
    <3>1. Left(<<Double[n]>>) = <<Double[Double[n]]>>
      BY <1>2, <2>6 DEF Left
    <3>2. QED
      BY <2>2, <2>4, <2>6, <3>1 DEF Null
  <2>7. QED
    BY <2>5, <2>6
<1>3. CASE type \in {"bit", "boolean", "double", "date", "list"}
  <2>1. Left(first) = first
    BY <1>3 DEF Left
  <2>2. first # Null
    BY <1>3 DEF Content, TextTypes, Null
  <2>3. QED
    BY <2>1, <2>2
<1>4. type \in TextTypes \/ type \in {"integer", "decimal", "currency"}
        \/ type \in {"bit", "boolean", "double", "date", "list"}
  BY DEF Clockless, QueryTypes, MethodTypes, TextTypes
<1>5. QED
  BY <1>1, <1>2, <1>3, <1>4

\* What a NULL becomes is read as it is.
LEMMA BlankIsLeft ==
  ASSUME type \in Blanks
  PROVE  Left(Blank) = Blank /\ Blank # Null
<1>1. CInt(0) = 0
  <2>1. 0 \in -HalfInt..(HalfInt - 1)
    BY NumbersAssumption
  <2>2. QED
    BY <2>1, IntIsCopied
<1>2. CASE type \in TextTypes
  BY <1>2 DEF Blank, Left, Cut, TextTypes, Whole, Nul, Long, Null
<1>3. CASE type \notin TextTypes
  <2>1. Blank = <<0>>
    BY <1>3 DEF Blank
  <2>2. Left(<<0>>) = <<0>>
    BY <1>1, <1>3, DoubleAssumption DEF Left, TextTypes
  <2>3. QED
    BY <2>1, <2>2 DEF Null
<1>4. QED
  BY <1>2, <1>3

\* A value that is read.
LEMMA ReadData ==
  ASSUME stored # Null, path = "query", type \in QueryTypes, type # "other"
  PROVE  /\ GetData.class = ClassOfColumn[type]
         /\ type = "time" => GetData.of = TimeToString(stored[1], stored[2], stored[3])
         /\ type = "timestamp" => GetData.of = Local(stored)
         /\ type \notin {"time", "timestamp"} => GetData.of = Left(stored)
BY DEF GetData, Left, QueryTypes

\* The same of a method.
LEMMA ReadAnswer ==
  ASSUME stored # Null, path = "method", type \in MethodTypes
  PROVE  /\ ExtractRetval.class = ClassOfAnswer[type]
         /\ type = "time" => ExtractRetval.of = TimeToString(stored[1], stored[2], stored[3])
         /\ type = "timestamp" => ExtractRetval.of = [Local(stored) EXCEPT ![5] = 0]
         /\ type \notin {"time", "timestamp"} => ExtractRetval.of = Left(stored)
BY DEF ExtractRetval, Left, MethodTypes

\* A value that is there is not the NULL.
LEMMA ThereIsOne ==
  ASSUME Copied, first # Null
  PROVE  stored # Null
<1>1. CASE type = "timestamp"
  <2>1. stored \in [1..5 -> Int]
    BY <1>1 DEF Copied, StampCopied, Moved
  <2>2. DOMAIN stored = 1..5 /\ DOMAIN Null = 1..0
    BY <2>1 DEF Null
  <2>3. 1 \in 1..5 /\ 1 \notin 1..0
    OBVIOUS
  <2>4. QED
    BY <2>2, <2>3
<1>2. CASE type = "time"
  BY <1>2 DEF Copied, TimeCopied
<1>3. CASE type \in Clockless
  <2>1. stored \in {first, Left(first)} /\ first \in Content(type)
    BY <1>3 DEF Copied, PlainCopied, Paths
  <2>2. QED
    BY <1>3, <2>1, LeftTwice
<1>4. CASE type = "other"
  BY <1>4 DEF Copied, OtherCopied
<1>5. QED
  BY <1>1, <1>2, <1>3, <1>4 DEF Copied, Paths, Clockless

\* What is read.
LEMMA ReadKeeps ==
  ASSUME Copied, Read
  PROVE  Copied'
<1>1. /\ path' = path /\ type' = type /\ zone' = zone /\ first' = first /\ stored' = stored
      /\ copies' = copies /\ held = Nothing
  BY DEF Read
<1>2. held' = IF path = "query" THEN GetData ELSE ExtractRetval
  BY DEF Read
<1>3. /\ path \in {"query", "method"}
      /\ path = "query" => type \in QueryTypes
      /\ path = "method" => type \in MethodTypes
  BY DEF Copied, Paths
<1>4. Paths'
  BY <1>1 DEF Copied, Paths
<1>5. OtherCopied'
  BY <1>1 DEF Copied, OtherCopied
<1>6. NullCopied'
  <2>1. SUFFICES ASSUME first = Null
                 PROVE  NullCopied'
    BY <1>1 DEF NullCopied
  <2>2. CASE path = "method"
    <3>1. stored = Null
      BY <2>1, <2>2 DEF Copied, NullCopied
    <3>2. held' = Nil
      BY <1>2, <2>2, <3>1 DEF ExtractRetval
    <3>3. QED
      BY <1>1, <2>2, <3>1, <3>2 DEF NullCopied
  <2>3. CASE path = "query" /\ copies = 0 /\ stored = Null
    <3>1. held' = Nil
      BY <1>2, <2>3 DEF GetData
    <3>2. QED
      BY <1>1, <2>3, <3>1 DEF NullCopied
  <2>4. CASE path = "query" /\ stored = Blank /\ type \in Blanks
    <3>1. stored # Null /\ Left(stored) = Blank
      BY <2>4, BlankIsLeft
    <3>2. type \in QueryTypes /\ type \notin {"other", "time", "timestamp"}
      BY <2>4 DEF Blanks, QueryTypes
    <3>3. held'.class # "NilClass" /\ held'.of = Blank
      BY <1>2, <2>4, <3>1, <3>2, ReadData, ColumnClasses
    <3>4. QED
      BY <1>1, <2>4, <3>3 DEF NullCopied, Holds, Blank
  <2>5. QED
    BY <1>3, <2>1, <2>2, <2>3, <2>4 DEF Copied, NullCopied
<1>7. StampCopied'
  <2>1. SUFFICES ASSUME first # Null, type = "timestamp"
                 PROVE  StampCopied'
    BY <1>1 DEF StampCopied
  <2>2. Moved(stored) /\ (copies > 0 => stored[5] = 0) /\ stored # Null
    BY <2>1, ThereIsOne DEF Copied, StampCopied
  <2>3. Moved(Local(stored))
    BY <2>2, LocalMoves
  <2>4. Moved([Local(stored) EXCEPT ![5] = 0]) /\ [Local(stored) EXCEPT ![5] = 0][5] = 0
    BY <2>3, NoFraction
  <2>5. held'.class # "NilClass" /\ Moved(held'.of) /\ (path = "method" => held'.of[5] = 0)
    <3>1. CASE path = "query"
      <4>1. type \in QueryTypes /\ type # "other"
        BY <1>3, <2>1, <3>1
      <4>2. held'.class # "NilClass" /\ held'.of = Local(stored)
        BY <1>2, <2>1, <2>2, <3>1, <4>1, ReadData, ColumnClasses
      <4>3. QED
        BY <2>3, <3>1, <4>2
    <3>2. CASE path = "method"
      <4>1. held'.class # "NilClass" /\ held'.of = [Local(stored) EXCEPT ![5] = 0]
        BY <1>2, <1>3, <2>1, <2>2, <3>2, ReadAnswer, AnswerClasses
      <4>2. QED
        BY <2>4, <3>2, <4>1
    <3>3. QED
      BY <1>3, <3>1, <3>2
  <2>6. Moved(stored)' /\ Moved(held.of)'
    BY <1>1, <2>2, <2>5 DEF Moved
  <2>7. QED
    BY <1>1, <2>2, <2>5, <2>6 DEF StampCopied
<1>8. TimeCopied'
  <2>1. SUFFICES ASSUME first # Null, type = "time"
                 PROVE  TimeCopied'
    BY <1>1 DEF TimeCopied
  <2>2. stored = first /\ stored # Null
    BY <2>1 DEF Copied, TimeCopied
  <2>3. /\ held'.class # "NilClass" /\ held'.of = TimeToString(first[1], first[2], first[3])
        /\ path = "query" => held'.class = "Clock"
    <3>1. CASE path = "query"
      <4>1. type \in QueryTypes /\ type # "other"
        BY <1>3, <2>1, <3>1
      <4>2. QED
        BY <1>2, <2>1, <2>2, <3>1, <4>1, ReadData, ColumnClasses
    <3>2. CASE path = "method"
      BY <1>2, <1>3, <2>1, <2>2, <3>2, ReadAnswer, AnswerClasses
    <3>3. QED
      BY <1>3, <3>1, <3>2
  <2>4. TimeToString(first[1], first[2], first[3])' = TimeToString(first[1], first[2], first[3])
    BY <1>1
  <2>5. QED
    BY <1>1, <2>2, <2>3, <2>4 DEF TimeCopied, Holds
<1>9. PlainCopied'
  <2>1. SUFFICES ASSUME first # Null, type \in Clockless
                 PROVE  PlainCopied'
    BY <1>1 DEF PlainCopied
  <2>2. /\ stored \in {first, Left(first)} /\ (copies > 0 => stored = Left(first))
        /\ type = "currency" => copies = 0
        /\ stored # Null /\ first \in Content(type)
    BY <2>1, ThereIsOne DEF Copied, PlainCopied, Paths
  <2>3. type \notin {"time", "timestamp", "other"} /\ Left(stored) = Left(first)
    BY <2>1, <2>2, LeftTwice DEF Clockless
  <2>4. held'.class # "NilClass" /\ held'.of = Left(first)
    <3>1. CASE path = "query"
      BY <1>2, <1>3, <2>2, <2>3, <3>1, ReadData, ColumnClasses
    <3>2. CASE path = "method"
      BY <1>2, <1>3, <2>2, <2>3, <3>2, ReadAnswer, AnswerClasses
    <3>3. QED
      BY <1>3, <3>1, <3>2
  <2>5. Left(first)' = Left(first)
    BY <1>1 DEF Left
  <2>6. QED
    BY <1>1, <2>2, <2>4, <2>5 DEF PlainCopied, Holds
<1>10. QED
  BY <1>4, <1>5, <1>6, <1>7, <1>8, <1>9 DEF Copied

\* What is given back.
LEMMA CopyKeeps ==
  ASSUME Copied, GiveBack
  PROVE  Copied'
<1>1. /\ path' = path /\ type' = type /\ zone' = zone /\ first' = first
      /\ held' = Nothing /\ copies' = copies + 1 /\ held # Nothing
  BY DEF GiveBack
<1>2. /\ path = "query" => Bindable /\ stored' = Bound
      /\ path # "query" => Settable /\ stored' = Sent
  BY DEF GiveBack
<1>3. /\ path \in {"query", "method"}
      /\ path = "query" => type \in QueryTypes
      /\ path = "method" => type \in MethodTypes
  BY DEF Copied, Paths
<1>4. Paths'
  BY <1>1 DEF Copied, Paths
<1>5. OtherCopied'
  <2>1. SUFFICES type # "other"
    BY <1>1 DEF OtherCopied
  <2>2. path = "query" => type \in DOMAIN Asks
    BY <1>2 DEF Bindable
  <2>3. "other" \notin DOMAIN Asks /\ "other" \notin MethodTypes
    BY DEF Asks, MethodTypes
  <2>4. QED
    BY <1>3, <2>2, <2>3
<1>6. NullCopied'
  <2>1. SUFFICES ASSUME first = Null
                 PROVE  NullCopied'
    BY <1>1 DEF NullCopied
  <2>2. CASE path = "method"
    <3>1. held = Nil
      BY <1>1, <2>1, <2>2 DEF Copied, NullCopied
    <3>2. stored' = Null
      BY <1>2, <2>2, <3>1 DEF Sent
    <3>3. QED
      BY <1>1, <2>2, <3>2 DEF NullCopied
  <2>3. CASE path = "query" /\ held = Nil
    <3>1. stored' = Blank
      BY <1>2, <2>3 DEF Bound
    <3>2. type \in Blanks
      <4>1. type \in DOMAIN Asks /\ Asks[type] \subseteq Responds["NilClass"]
        BY <1>2, <2>3 DEF Bindable, Nil
      <4>2. QED
        BY <4>1 DEF Asks, Responds, Blanks
    <3>3. QED
      BY <1>1, <2>3, <3>1, <3>2 DEF NullCopied, Holds, Blank
  <2>4. CASE path = "query" /\ held.class # "NilClass"
    <3>1. type \in Blanks /\ held.of = Blank
      BY <1>1, <2>1, <2>4 DEF Copied, NullCopied, Holds, Nil
    <3>2. type # "timestamp" /\ held # Nil
      BY <2>4, <3>1 DEF Blanks, Nil
    <3>3. stored' = Blank
      BY <1>2, <2>4, <3>1, <3>2 DEF Bound
    <3>4. QED
      BY <1>1, <2>4, <3>1, <3>3 DEF NullCopied, Holds, Blank
  <2>5. (path = "query") => (held = Nil \/ held.class # "NilClass")
    BY <1>1, <2>1 DEF Copied, NullCopied, Holds
  <2>6. QED
    BY <1>3, <2>2, <2>3, <2>4, <2>5
<1>7. StampCopied'
  <2>1. SUFFICES ASSUME first # Null, type = "timestamp"
                 PROVE  StampCopied'
    BY <1>1 DEF StampCopied
  <2>2. /\ held.class # "NilClass" /\ Moved(held.of)
        /\ path = "method" => held.of[5] = 0
    BY <1>1, <2>1 DEF Copied, StampCopied
  <2>3. held # Nil
    BY <2>2 DEF Nil
  <2>4. Moved([held.of EXCEPT ![5] = 0]) /\ [held.of EXCEPT ![5] = 0][5] = 0
    BY <2>2, NoFraction
  <2>5. PICK t : t = stored' /\ Moved(t) /\ t[5] = 0
    <3>1. CASE path = "query"
      <4>1. stored' = [held.of EXCEPT ![5] = 0]
        BY <1>2, <2>1, <2>3, <3>1 DEF Bound
      <4>2. QED
        BY <2>4, <4>1
    <3>2. CASE path = "method"
      <4>1. stored' = held.of
        BY <1>2, <2>1, <2>3, <3>2 DEF Sent
      <4>2. QED
        BY <2>2, <3>2, <4>1
    <3>3. QED
      BY <1>3, <3>1, <3>2
  <2>6. Moved(stored)'
    BY <1>1, <2>5 DEF Moved
  <2>7. QED
    BY <1>1, <2>5, <2>6 DEF StampCopied
<1>8. TimeCopied'
  <2>1. SUFFICES ASSUME first # Null, type = "time"
                 PROVE  TimeCopied'
    BY <1>1 DEF TimeCopied
  <2>2. /\ held.class # "NilClass" /\ held.of = TimeToString(first[1], first[2], first[3])
        /\ path = "query" => held.class = "Clock"
    BY <1>1, <2>1 DEF Copied, TimeCopied, Holds
  <2>3. path # "query"
    <3>1. SUFFICES ASSUME path = "query"
                   PROVE  FALSE
      OBVIOUS
    <3>2. Asks["time"] \subseteq Responds["Clock"]
      BY <1>2, <2>1, <2>2, <3>1 DEF Bindable
    <3>3. "hour" \in Asks["time"] /\ "hour" \notin Responds["Clock"]
      BY DEF Asks, Responds
    <3>4. QED
      BY <3>2, <3>3
  <2>4. stored' = Split(SecondsCount(held.of))
    BY <1>2, <2>1, <2>2, <2>3 DEF Sent, Split, Nil
  <2>5. first \in Clock
    BY <2>1, TimeContent DEF Copied, Paths
  <2>6. stored' = first
    BY <2>2, <2>4, <2>5, TimeIsRead
  <2>7. QED
    BY <1>1, <2>3, <2>6 DEF TimeCopied, Holds
<1>9. PlainCopied'
  <2>1. SUFFICES ASSUME first # Null, type \in Clockless
                 PROVE  PlainCopied'
    BY <1>1 DEF PlainCopied
  <2>2. held.class # "NilClass" /\ held.of = Left(first)
    BY <1>1, <2>1 DEF Copied, PlainCopied, Holds
  <2>3. type \notin {"time", "timestamp"} /\ held # Nil
    BY <2>1, <2>2 DEF Clockless, Nil
  <2>4. stored' = Left(first)
    BY <1>2, <1>3, <2>2, <2>3 DEF Bound, Sent
  <2>5. type # "currency"
    <3>1. "currency" \notin QueryTypes
      BY DEF QueryTypes
    <3>2. QED
      BY <1>2, <1>3, <2>3, <3>1 DEF Settable
  <2>6. Left(first)' = Left(first)
    BY <1>1 DEF Left
  <2>7. QED
    BY <1>1, <2>4, <2>5, <2>6 DEF PlainCopied, Holds
<1>10. QED
  BY <1>4, <1>5, <1>6, <1>7, <1>8, <1>9 DEF Copied

\* What is refused.
LEMMA RefusalKeeps ==
  ASSUME Copied, Refuses
  PROVE  Copied'
<1>1. /\ path' = path /\ type' = type /\ zone' = zone /\ first' = first /\ stored' = stored
      /\ copies' = copies /\ held' = Nothing
  BY DEF Refuses
<1>2. Paths' /\ OtherCopied'
  BY <1>1 DEF Copied, Paths, OtherCopied
<1>3. NullCopied'
  BY <1>1 DEF Copied, NullCopied, Holds, Blank
<1>4. StampCopied'
  BY <1>1 DEF Copied, StampCopied, Moved
<1>5. TimeCopied' /\ PlainCopied'
  <2>1. Left(first)' = Left(first)
    BY <1>1 DEF Left
  <2>2. QED
    BY <1>1, <2>1 DEF Copied, TimeCopied, PlainCopied, Holds
<1>6. QED
  BY <1>2, <1>3, <1>4, <1>5 DEF Copied

\* Whatever is read and given back, by either path and any number of times, keeps all
\* but what the property names: but for that, the conversions of get_data,
\* query_bind_one_param, intersys_method_extract_retval and intersys_argument_set undo
\* one another.
THEOREM CopiesKeepTheRestHolds == MarshalSpec => []CopiesKeepTheRest
<1>1. MarshalInit => Copied
  <2>1. SUFFICES ASSUME MarshalInit
                 PROVE  Copied
    OBVIOUS
  <2>2. /\ first \in Content(type) \cup {Null} /\ stored = first /\ held = Nothing /\ copies = 0
        /\ \/ path = "query"  /\ type \in QueryTypes
           \/ path = "method" /\ type \in MethodTypes
    BY <2>1 DEF MarshalInit
  <2>3. Paths /\ OtherCopied
    BY <2>2 DEF Paths, OtherCopied
  <2>4. NullCopied
    BY <2>2 DEF NullCopied
  <2>5. TimeCopied /\ PlainCopied
    BY <2>2 DEF TimeCopied, PlainCopied, Holds
  <2>6. StampCopied
    <3>1. first # Null /\ type = "timestamp" => first \in [1..5 -> Int]
      BY <2>2, StampContent, StampParts
    <3>2. first # Null /\ type = "timestamp" => Moved(stored)
      BY <2>2, <3>1 DEF Moved
    <3>3. QED
      BY <2>2, <3>2 DEF StampCopied
  <2>7. QED
    BY <2>3, <2>4, <2>5, <2>6 DEF Copied
<1>2. Copied /\ [MarshalNext]_marshalVars => Copied'
  <2>1. SUFFICES ASSUME Copied, [MarshalNext]_marshalVars
                 PROVE  Copied'
    OBVIOUS
  <2>2. CASE UNCHANGED marshalVars
    <3>1. /\ path' = path /\ type' = type /\ zone' = zone /\ first' = first
          /\ stored' = stored /\ copies' = copies /\ held' = held
      BY <2>2 DEF marshalVars
    <3>2. Paths' /\ OtherCopied' /\ NullCopied'
      BY <2>1, <3>1 DEF Copied, Paths, OtherCopied, NullCopied, Holds, Blank
    <3>3. StampCopied'
      BY <2>1, <3>1 DEF Copied, StampCopied, Moved
    <3>4. TimeCopied' /\ PlainCopied'
      <4>1. Left(first)' = Left(first)
        BY <3>1 DEF Left
      <4>2. QED
        BY <2>1, <3>1, <4>1 DEF Copied, TimeCopied, PlainCopied, Holds
    <3>5. QED
      BY <3>2, <3>3, <3>4 DEF Copied
  <2>3. QED
    BY <2>1, <2>2, ReadKeeps, CopyKeeps, RefusalKeeps DEF MarshalNext
<1>3. Copied => CopiesKeepTheRest
  <2>1. SUFFICES ASSUME Copied, copies > 0
                 PROVE  CopiesKeepTheRest
    BY DEF CopiesKeepTheRest
  <2>2. path \in {"query", "method"} /\ type \in QueryTypes \cup MethodTypes /\ type # "other"
    BY <2>1 DEF Copied, Paths, OtherCopied
  <2>3. CASE first = Null
    BY <2>1, <2>2, <2>3 DEF Copied, NullCopied, CopiesKeepTheRest
  <2>4. CASE first # Null /\ type = "timestamp"
    <3>1. Moved(stored) /\ stored[5] = 0
      BY <2>1, <2>4 DEF Copied, StampCopied
    <3>2. QED
      BY <2>4, <3>1 DEF Moved, CopiesKeepTheRest, TextTypes
  <2>5. CASE first # Null /\ type = "time"
    <3>1. stored = first
      BY <2>1, <2>5 DEF Copied, TimeCopied
    <3>2. QED
      BY <2>5, <3>1 DEF CopiesKeepTheRest, TextTypes
  <2>6. CASE first # Null /\ type \in Clockless
    <3>1. stored = Left(first) /\ type # "currency" /\ first \in Content(type)
      BY <2>1, <2>6 DEF Copied, PlainCopied, Paths
    <3>2. CASE type \in TextTypes
      <4>1. PICK x \in Texts, y \in {Whole, Nul, Long} : first = <<x, y>>
        <5>1. first \in {<<x, y>> : x \in Texts, y \in {Whole, Nul, Long}}
          BY <3>1, <3>2 DEF Content, TextTypes
        <5>2. QED
          BY <5>1
      <4>2. path = "query" => type # "string"
        BY <2>1 DEF Copied, Paths, QueryTypes
      <4>3. path # "query" => type \in {"string", "binary"}
        BY <2>1, <3>2 DEF Copied, Paths, MethodTypes, TextTypes
      <4>4. stored = <<x, IF \/ y = Nul /\ type # "binary"
                             \/ y = Long /\ path = "query" THEN Whole ELSE y>>
        BY <3>1, <3>2, <4>1, <4>2, <4>3 DEF Left, Cut, TextTypes, Whole, Nul, Long
      <4>5. type \notin {"timestamp", "integer", "decimal"}
        BY <3>2 DEF TextTypes
      <4>6. QED
        BY <2>6, <3>2, <4>1, <4>4, <4>5 DEF CopiesKeepTheRest
    <3>3. CASE type = "integer"
      <4>1. PICK n \in Numbers : first = <<n>>
        BY <3>1, <3>3 DEF Content, TextTypes
      <4>2. n \in Int
        BY NumbersAssumption
      <4>3. stored = <<CInt(n)>> /\ (n \in -HalfInt..(HalfInt - 1) => CInt(n) = n)
        BY <3>1, <3>3, <4>1, <4>2, IntIsCopied DEF Left
      <4>4. QED
        BY <2>6, <3>3, <4>1, <4>3 DEF CopiesKeepTheRest, TextTypes
    <3>4. CASE type = "decimal"
      <4>1. stored = <<Double[first[1]]>>
        BY <3>1, <3>4 DEF Left
      <4>2. QED
        BY <2>6, <3>4, <4>1 DEF CopiesKeepTheRest, TextTypes
    <3>5. CASE type \notin TextTypes \cup {"integer", "decimal"}
      <4>1. stored = first
        BY <3>1, <3>5 DEF Left, TextTypes
      <4>2. type # "timestamp"
        BY <2>6 DEF Clockless
      <4>3. QED
        BY <2>6, <3>5, <4>1, <4>2 DEF CopiesKeepTheRest
    <3>6. QED
      BY <3>2, <3>3, <3>4, <3>5
  <2>7. QED
    BY <2>2, <2>3, <2>4, <2>5, <2>6 DEF Clockless
<1>4. QED
  BY <1>1, <1>2, <1>3, PTL DEF MarshalSpec

-----------------------------------------------------------------------------
(* All of them.                                                            *)

\* A conversion is one of a date, of a value or of a list.
LEMMA ConversionOfOne ==
  ASSUME ConversionsNext
  PROVE  \/ UNCHANGED <<marshalVars, dlistVars>> /\ Tomorrow
         \/ UNCHANGED <<vars, dlistVars>> /\ MarshalNext
         \/ UNCHANGED <<vars, marshalVars>> /\ DlistNext
<1>1. ASSUME part = "horolog" PROVE UNCHANGED <<marshalVars, dlistVars>> /\ Tomorrow
  BY <1>1 DEF ConversionsNext, OnlyIn
<1>2. ASSUME part = "marshal" PROVE UNCHANGED <<vars, dlistVars>> /\ MarshalNext
  BY <1>2 DEF ConversionsNext, OnlyIn, MarshalNext
<1>3. ASSUME part = "dlist" PROVE UNCHANGED <<vars, marshalVars>> /\ DlistNext
  BY <1>3 DEF ConversionsNext, OnlyIn, DlistNext
<1>4. QED
  BY <1>1, <1>2, <1>3 DEF ConversionsNext, OnlyIn

\* What holds of the dates, the values and the lists holds of a program that converts
\* all of them.
THEOREM ConversionsAreTheirParts == ConversionsSpec => Spec /\ MarshalSpec /\ DlistSpec
<1>1. ConversionsInit => Init /\ MarshalInit /\ DlistInit
  BY DEF ConversionsInit
<1>2. [ConversionsNext]_<<part, vars, marshalVars, dlistVars>> =>
        [Tomorrow]_vars /\ [MarshalNext]_marshalVars /\ [DlistNext]_dlistVars
  BY ConversionOfOne
<1>3. QED
  BY <1>1, <1>2, PTL DEF ConversionsSpec, Spec, MarshalSpec, DlistSpec
=============================================================================
