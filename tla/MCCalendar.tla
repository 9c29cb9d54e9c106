----------------------------- MODULE MCCalendar ------------------------------
(* Calendar strings for the model checker: every frequency, each clause as   *)
(* the one that generates dates and as a filter, ends of months, ordinals,   *)
(* leap days over the turn of a century, and strings that must be rejected.  *)
EXTENDS Calendar, TLC

C(name, values) == [name |-> name, values |-> values]
F(freq) == C("FREQ", {freq})
I(n) == C("INTERVAL", {n})
Day(dow, ord) == [dow |-> dow, ord |-> ord]
Date(year, mon, mday) == [year |-> year, mon |-> mon, mday |-> mday]

Yearly ==
    { <<F("YEARLY")>>,
      <<F("YEARLY"), I(3), C("BYMONTH", {2, 11})>>,
      <<F("YEARLY"), C("BYDATE", {Date(0, 2, 29)})>>,
      <<F("YEARLY"), C("BYDATE", {Date(0, 1, 1), Date(2097, 7, 1)}), C("BYHOUR", {0, 2})>>,
      <<F("YEARLY"), C("BYDATE", {Date(0, 1, 1), Date(0, 12, 31)}), C("BYMONTHDAY", {-1})>>,
      <<F("YEARLY"), C("BYMONTH", {2}), C("BYMONTHDAY", {29})>>,
      <<C("BYDAY", {Day(1, -1), Day(0, 5)}), F("YEARLY"), C("BYMONTH", {5, 9})>> }

Monthly ==
    { <<F("MONTHLY")>>,
      <<F("MONTHLY"), I(5), C("BYMONTHDAY", {31})>>,
      <<F("MONTHLY"), C("BYMONTHDAY", {-1, 30})>>,
      <<F("MONTHLY"), C("BYMONTH", {2, 3}), C("BYMONTHDAY", {-29})>>,
      <<F("MONTHLY"), C("BYDAY", {Day(5, 2), Day(3, -2)}), C("BYMINUTE", {0, 1})>>,
      <<F("MONTHLY"), C("BYDAY", {Day(6, 5), Day(6, -5)})>>,
      <<F("MONTHLY"), C("BYMONTHDAY", {1, 8, 15}), C("BYDAY", {Day(1, 2), Day(4, 0)})>>,
      <<F("MONTHLY"), C("BYMONTHDAY", {22, 29}), C("BYDAY", {Day(3, -1)})>>,
      <<F("MONTHLY"), C("BYDATE", {Date(0, 1, 15)})>>,
      <<F("MONTHLY"), C("BYMONTH", {2}), C("BYMONTHDAY", {31})>> }

Weekly ==
    { <<F("WEEKLY")>>,
      <<F("WEEKLY"), I(2), C("BYDAY", {Day(1, 0), Day(4, 0), Day(0, 0)}), C("BYHOUR", {1})>>,
      <<F("WEEKLY"), C("BYMONTH", {3})>> }

Daily ==
    { <<F("DAILY"), C("BYHOUR", {2}), C("BYMINUTE", {0}), C("BYSECOND", {0})>>,
      <<F("DAILY"), I(10), C("BYDAY", {Day(2, 0), Day(3, 0)})>>,
      <<F("DAILY"), C("BYMONTHDAY", {-1, 15}), C("BYMONTH", {2, 12})>>,
      <<F("DAILY"), C("BYDATE", {Date(0, 2, 28)}), C("BYSECOND", {0, 1})>> }

Short ==
    { <<F("HOURLY"), C("BYMINUTE", {0, 1})>>,
      <<F("HOURLY"), I(5), C("BYDAY", {Day(1, 0)})>>,
      <<F("MINUTELY"), I(7), C("BYHOUR", {1})>>,
      <<F("MINUTELY"), C("BYMINUTE", {1}), C("BYDATE", {Date(0, 3, 1)})>>,
      <<F("SECONDLY"), I(5), C("BYHOUR", {0, 2})>>,
      <<F("SECONDLY"), C("BYSECOND", {1}), C("BYMINUTE", {0})>> }

Rejected ==
    { <<F("DAILY"), C("BYDAY", {Day(5, 2)})>>, <<C("BYHOUR", {1})>>,
      <<F("DAILY"), C("BYHOUR", {1}), C("BYHOUR", {2})>>, <<F("DAILY"), C("BYHOUR", {Hours})>>,
      <<F("YEARLY"), C("BYDATE", {Date(2097, 2, 29)})>>, <<F("DAILY"), I(100)>> }

MCStrings == Yearly \cup Monthly \cup Weekly \cup Daily \cup Short \cup Rejected

\* Three starts: a leap day, the end of a January, and a moment that is not a
\* whole second, in the last hour of a year.
MCStarts ==
    { At(date2j(2096, 2, 29), 0, 1, 0), At(date2j(2099, 1, 31), 1, 0, 1),
      At(date2j(2099, 12, 31), 2, 1, 1) + 1 }

MCLastDay == date2j(2101, 3, 1)
=============================================================================
