------------------------------- MODULE Calendar -------------------------------
(* Time in seconds, and the UTC hours and days it is cut into. *)
EXTENDS Integers

CONSTANTS SecondsPerHour, SecondsPerDay

ASSUME CalendarAssumption == {SecondsPerHour, SecondsPerDay} \subseteq Nat \ {0}

Hour(s) == s \div SecondsPerHour
Day(s) == s \div SecondsPerDay
=============================================================================
