------------------------------ MODULE Horolog ------------------------------
(***************************************************************************)
(* How a date becomes Cache's internal day number when it is passed to a   *)
(* method or assigned to a property: the CBIND_DATE_ID case of             *)
(* intersys_argument_set.  The calendar runs day by day from the first one *)
(* Cache counts, and the formula of the C code is compared with the count. *)
(***************************************************************************)
EXTENDS Integers

CONSTANTS
  LastYear,  \* bound on the calendar
  Shifts     \* seconds by which the standard time of the server's zone may have
             \*   moved east between January 1 and the date

ASSUME LastYearAssumption == LastYear \in Nat /\ LastYear >= 1841
ASSUME ShiftsAssumption ==
  \A shift \in Shifts : shift \in Int /\ shift > -86400 /\ shift < 86400  \* less than a day

VARIABLES
  year,
  yday,    \* days since January 1
  elapsed  \* days since December 31, 1840

vars == <<year, yday, elapsed>>

TypeOK == year \in Nat /\ year >= 1841 /\ yday \in Nat /\ elapsed \in Nat

Leap(y) == (y % 4 = 0 /\ y % 100 # 0) \/ y % 400 = 0

YearLength(y) == IF Leap(y) THEN 366 ELSE 365

\* January 1, 1841 is day 1.
Init == year = 1841 /\ yday = 0 /\ elapsed = 1

Tomorrow ==
  /\ elapsed' = elapsed + 1
  /\ IF yday + 1 < YearLength(year)
       THEN yday' = yday + 1 /\ UNCHANGED year
       ELSE year < LastYear /\ year' = year + 1 /\ yday' = 0

Spec == Init /\ [][Tomorrow]_vars

-----------------------------------------------------------------------------
(* intersys_argument_set.                                                  *)

\* Division of C: towards zero.
Quotient(a, b) == IF a >= 0 THEN a \div b ELSE -((-a) \div b)

\* mktime of the date and of January 1, both at one second past midnight and
\* with daylight saving time forced off: a zone that moves east in between has
\* so many seconds less.  difftime / 86400 is cut to an int.
year_days(days, shift) == Quotient(days * 86400 - shift, 86400)

\* Slip: the exception of the years divisible by 400 is forgotten.
DaysCountJulian400(y, days, shift) ==
  LET tm_year == y - 1900
  IN  tm_year * 365 + Quotient(tm_year - 1, 4) - Quotient(tm_year - 1, 100)
      + year_days(days, shift) + 21550

days_count(y, days, shift) ==
  LET tm_year == y - 1900
  IN  tm_year * 365 + Quotient(tm_year - 1, 4) - Quotient(tm_year - 1, 100)
      + Quotient(tm_year + 300 - 1, 400) + year_days(days, shift) + 21550

-----------------------------------------------------------------------------
(* Properties.                                                             *)

\* From 1900 on, in a zone that stays where it is, every day has its own number
\* and the next day the next one, across leap years and centuries.
ConsecutiveDays ==
  [][year >= 1900 =>
       days_count(year', yday', 0) = days_count(year, yday, 0) + 1]_vars

\* Where the number of a date is not the one Cache counts: it is a day behind in
\* every year before 1900 that follows a leap year, or would, and a day behind
\* after the zone has moved east in the course of the year.
DeviationIsExact ==
  \A shift \in Shifts :
    elapsed - days_count(year, yday, shift) =
      (IF year < 1900 /\ year % 4 = 1 THEN 1 ELSE 0)
      + (IF shift > 0 /\ yday > 0 THEN 1 ELSE 0)

\* "The internal date format value representing the number of days elapsed since
\* December 31, 1840" (definition.c:550-551).
InternalDate == days_count(year, yday, 0) = elapsed
=============================================================================
