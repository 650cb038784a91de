------------------------------ MODULE DateUtil ------------------------------
(***************************************************************************)
(* src/common/utils/date.util.js.                                          *)
(*                                                                         *)
(* A date is a day number.  The code turns "YYYY-MM-DD" into the UTC       *)
(* midnight of that day, so a date is a whole multiple of a day, two dates *)
(* compare as day numbers do, and the rounding in calculateDaysRequested   *)
(* rounds nothing.                                                         *)
(***************************************************************************)
EXTENDS Integers

\* The number of calendar days from startDate to endDate, both included, and
\* at least one.
calculateDaysRequested(startDate, endDate) ==
    LET days == endDate - startDate + 1
    IN  IF days >= 1 THEN days ELSE 1

isNotInPast(date, today) == date >= today

\* Mutant: ranges that share only their border day are taken to be apart.
datesOverlapExclusive(start1, end1, start2, end2) ==
    start1 < end2 /\ start2 < end1

datesOverlap(start1, end1, start2, end2) ==
    start1 <= end2 /\ start2 <= end1

=============================================================================
