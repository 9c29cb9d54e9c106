--------------------------- MODULE CalendarProofs ----------------------------
(* Theorems about Calendar, for every value of its constants.                *)
EXTENDS Calendar, FiniteSetTheorems, WellFoundedInduction, TLAPS

\* Most steps are arithmetic.
USE SMTT(30)

(********************************* Division *********************************)

(* A number is its quotient times the divisor, and its remainder.            *)
LEMMA Division ==
    ASSUME NEW a \in Int, NEW n \in Nat \ {0}
    PROVE  /\ a \div n \in Int /\ a % n \in 0 .. n - 1
           /\ a = n * (a \div n) + (a % n)
  OBVIOUS

(* Quotient and remainder are the only such numbers.                         *)
LEMMA DivisionUnique ==
    ASSUME NEW q \in Int, NEW n \in Nat \ {0}, NEW r \in 0 .. n - 1
    PROVE  (n * q + r) \div n = q /\ (n * q + r) % n = r
<1> DEFINE a == n * q + r
           d == a \div n
           e == a % n
<1>1. a \in Int /\ d \in Int /\ e \in 0 .. n - 1 /\ a = n * d + e
  BY Division
<1>2. n * (d - q) = r - e
  BY <1>1
<1>3. d - q < 1
  <2> SUFFICES ASSUME d - q >= 1 PROVE FALSE
    BY <1>1
  <2> DEFINE x == d - q
  <2>1. x \in Int /\ x >= 1 /\ n * x = r - e BY <1>1, <1>2
  <2>2. \A y \in Int : y >= 1 => n * y >= n OBVIOUS
  <2> QED BY <2>1, <2>2, <1>1
<1>4. d - q > -1
  <2> SUFFICES ASSUME d - q <= -1 PROVE FALSE
    BY <1>1
  <2> DEFINE x == d - q
  <2>1. x \in Int /\ x <= -1 /\ n * x = r - e BY <1>1, <1>2
  <2>2. \A y \in Int : y <= -1 => n * y <= -n OBVIOUS
  <2> QED BY <2>1, <2>2, <1>1
<1>5. d = q BY <1>1, <1>3, <1>4
<1> QED BY <1>1, <1>5

(* Dividing in two steps.                                                    *)
LEMMA DivisionTwice ==
    ASSUME NEW t \in Int, NEW p \in Nat \ {0}, NEW n \in Nat \ {0}
    PROVE  /\ p * n \in Nat \ {0}
           /\ t \div (p * n) = (t \div n) \div p
           /\ (t % (p * n)) \div n = (t \div n) % p
<1> DEFINE a == t \div n
           r == t % n
           q == a \div p
           s == a % p
           w == n * s + r
<1> DEFINE m == p * n
<1>0. m \in Nat \ {0} OBVIOUS
<1>1. a \in Int /\ r \in 0 .. n - 1 /\ t = n * a + r BY Division
<1>2. q \in Int /\ s \in 0 .. p - 1 /\ a = p * q + s BY <1>1, Division
<1> HIDE DEF a, r, q, s
<1>3. t = (p * n) * q + w BY <1>1, <1>2
<1>4. w \in 0 .. (p * n) - 1
  <2>1. s <= p - 1 /\ s >= 0 /\ r >= 0 /\ r <= n - 1 BY <1>1, <1>2
  <2>2. n * s <= n * (p - 1) /\ n * s >= 0 /\ n * s \in Int BY <2>1, <1>2
  <2> QED BY <2>1, <2>2, <1>1
<1>5. m \in Nat \ {0} /\ w \in 0 .. m - 1 /\ t = m * q + w BY <1>0, <1>3, <1>4
<1>6. t \div m = q /\ t % m = w
  <2> HIDE DEF m, w
  <2> QED BY <1>5, <1>2, DivisionUnique
<1>7. w \div n = s BY <1>1, <1>2, DivisionUnique
<1> QED BY <1>0, <1>6, <1>7, Zenon DEF a, r, q, s

(* The quotient alone.                                                       *)
LEMMA QuotientTwice ==
    ASSUME NEW t \in Int, NEW p \in Nat \ {0}, NEW n \in Nat \ {0}
    PROVE  t \div (p * n) = (t \div n) \div p
BY DivisionTwice, ZenonT(30)

(* Division keeps the order.                                                 *)
LEMMA DivisionMonotone ==
    ASSUME NEW a \in Int, NEW b \in Int, NEW n \in Nat \ {0}, a <= b
    PROVE  a \div n <= b \div n
<1> DEFINE q == a \div n
           p == b \div n
           r == a % n
           s == b % n
<1>1. /\ q \in Int /\ p \in Int /\ r \in 0 .. n - 1 /\ s \in 0 .. n - 1
      /\ a = n * q + r /\ b = n * p + s
  BY Division
<1> HIDE DEF q, p, r, s
<1> SUFFICES ASSUME q - p >= 1 PROVE FALSE
  BY <1>1 DEF q, p
<1> DEFINE x == q - p
<1>2. x \in Int /\ x >= 1 /\ n * x <= s - r BY <1>1
<1>3. \A y \in Int : y >= 1 => n * y >= n OBVIOUS
<1> QED BY <1>1, <1>2, <1>3

(* A number is divisible exactly if it is a multiple.                        *)
LEMMA Multiple ==
    ASSUME NEW a \in Int, NEW n \in Nat \ {0}
    PROVE  0 = a % n <=> \E k \in Int : a = k * n
<1>1. a \div n \in Int /\ a = n * (a \div n) + (a % n) BY Division
<1>2. ASSUME NEW k \in Int, a = k * n PROVE 0 = a % n
  <2>1. a = n * k + 0 /\ 0 \in 0 .. n - 1 BY <1>2
  <2> QED BY <2>1, DivisionUnique
<1>3. 0 = a % n => a = (a \div n) * n BY <1>1
<1> QED BY <1>1, <1>2, <1>3, Zenon

(********************************* The clock ********************************)

(* The units of the clock are positive.                                      *)
LEMMA ClockUnits ==
    /\ Hours \in Nat \ {0} /\ Minutes \in Nat \ {0} /\ Seconds \in Nat \ {0}
    /\ Ticks \in Nat \ {0} /\ MinuteTicks \in Nat \ {0} /\ HourTicks \in Nat \ {0}
    /\ DayTicks \in Nat \ {0}
<1>1. /\ Hours \in Nat \ {0} /\ Minutes \in Nat \ {0} /\ Seconds \in Nat \ {0}
      /\ Ticks \in Nat \ {0}
  BY CalendarAssumption
<1>2. MinuteTicks \in Nat \ {0} BY <1>1, DivisionTwice DEF MinuteTicks
<1>3. HourTicks \in Nat \ {0} BY <1>1, <1>2, DivisionTwice DEF HourTicks
<1>4. DayTicks \in Nat \ {0} BY <1>1, <1>3, DivisionTwice DEF DayTicks
<1> QED BY <1>1, <1>2, <1>3, <1>4

(* The parts of a time, as quotients and remainders of one another.          *)
LEMMA ClockParts ==
    ASSUME NEW t \in Int
    PROVE  /\ SecondOf(t) = (t \div Ticks) % Seconds
           /\ t \div MinuteTicks = (t \div Ticks) \div Seconds
           /\ MinuteOf(t) = (t \div MinuteTicks) % Minutes
           /\ t \div HourTicks = (t \div MinuteTicks) \div Minutes
           /\ HourOf(t) = (t \div HourTicks) % Hours
           /\ DayOf(t) = (t \div HourTicks) \div Hours
<1>0. /\ MinuteTicks = Seconds * Ticks /\ HourTicks = Minutes * MinuteTicks
      /\ DayTicks = Hours * HourTicks
  BY DEF MinuteTicks, HourTicks, DayTicks
<1>1. /\ (t % MinuteTicks) \div Ticks = (t \div Ticks) % Seconds
      /\ t \div MinuteTicks = (t \div Ticks) \div Seconds
  <2>1. (t % (Seconds * Ticks)) \div Ticks = (t \div Ticks) % Seconds
    BY ClockUnits, DivisionTwice, Zenon
  <2>2. t \div (Seconds * Ticks) = (t \div Ticks) \div Seconds
    BY ClockUnits, QuotientTwice, Zenon
  <2> QED BY <1>0, <2>1, <2>2, Zenon
<1>2. /\ (t % HourTicks) \div MinuteTicks = (t \div MinuteTicks) % Minutes
      /\ t \div HourTicks = (t \div MinuteTicks) \div Minutes
  <2>1. (t % (Minutes * MinuteTicks)) \div MinuteTicks = (t \div MinuteTicks) % Minutes
    BY ClockUnits, DivisionTwice, Zenon
  <2>2. t \div (Minutes * MinuteTicks) = (t \div MinuteTicks) \div Minutes
    BY ClockUnits, QuotientTwice, Zenon
  <2> QED BY <1>0, <2>1, <2>2, Zenon
<1>3. /\ (t % DayTicks) \div HourTicks = (t \div HourTicks) % Hours
      /\ t \div DayTicks = (t \div HourTicks) \div Hours
  <2>1. (t % (Hours * HourTicks)) \div HourTicks = (t \div HourTicks) % Hours
    BY ClockUnits, DivisionTwice, Zenon
  <2>2. t \div (Hours * HourTicks) = (t \div HourTicks) \div Hours
    BY ClockUnits, QuotientTwice, Zenon
  <2> QED BY <1>0, <2>1, <2>2, Zenon
<1> QED BY <1>1, <1>2, <1>3, Zenon DEF SecondOf, MinuteOf, HourOf, DayOf

(* Their ranges.                                                             *)
LEMMA ClockRanges ==
    ASSUME NEW t \in Int
    PROVE  /\ SecondOf(t) \in 0 .. Seconds - 1 /\ MinuteOf(t) \in 0 .. Minutes - 1
           /\ HourOf(t) \in 0 .. Hours - 1 /\ DayOf(t) \in Int
           /\ t \div Ticks \in Int /\ t \div MinuteTicks \in Int /\ t \div HourTicks \in Int
<1>1. t \div Ticks \in Int /\ t \div MinuteTicks \in Int /\ t \div HourTicks \in Int
  BY ClockUnits, Division
<1>2. /\ (t \div Ticks) % Seconds \in 0 .. Seconds - 1
      /\ (t \div MinuteTicks) % Minutes \in 0 .. Minutes - 1
      /\ (t \div HourTicks) % Hours \in 0 .. Hours - 1
      /\ (t \div HourTicks) \div Hours \in Int
  BY <1>1, ClockUnits, Division
<1> QED BY <1>1, <1>2, ClockParts, Zenon

(* A time put together from its parts has these parts, and no fraction of a  *)
(* second (local_time_to_timestamptz).                                       *)
LEMMA ClockJoin ==
    ASSUME NEW jd \in Int, NEW h \in 0 .. Hours - 1, NEW m \in 0 .. Minutes - 1,
           NEW s \in 0 .. Seconds - 1
    PROVE  /\ At(jd, h, m, s) \in Int /\ At(jd, h, m, s) % Ticks = 0
           /\ DayOf(At(jd, h, m, s)) = jd /\ HourOf(At(jd, h, m, s)) = h
           /\ MinuteOf(At(jd, h, m, s)) = m /\ SecondOf(At(jd, h, m, s)) = s
           /\ At(jd, h, m, s) \div HourTicks = Hours * jd + h
           /\ At(jd, h, m, s) \div MinuteTicks = Minutes * (Hours * jd + h) + m
<1> DEFINE t == At(jd, h, m, s)
           a == Hours * jd + h
           b == Minutes * a + m
           c == Seconds * b + s
<1>0. a \in Int /\ b \in Int /\ c \in Int BY ClockUnits
<1>1. t = Ticks * c + 0
  <2>1. MinuteTicks = Seconds * Ticks /\ MinuteTicks \in Int BY ClockUnits DEF MinuteTicks
  <2>2. HourTicks = Minutes * MinuteTicks /\ HourTicks \in Int BY ClockUnits DEF HourTicks
  <2>3. DayTicks = Hours * HourTicks /\ DayTicks \in Int BY ClockUnits DEF DayTicks
  <2>4. jd * DayTicks + h * HourTicks = a * HourTicks BY <2>2, <2>3, ClockUnits
  <2>5. a * HourTicks + m * MinuteTicks = b * MinuteTicks
    <3> HIDE DEF a
    <3> QED BY <1>0, <2>1, <2>2, ClockUnits
  <2>6. b * MinuteTicks + s * Ticks = c * Ticks
    <3> HIDE DEF b
    <3> QED BY <1>0, <2>1, ClockUnits
  <2> HIDE DEF a, b, c
  <2>7. c * Ticks = Ticks * c + 0 BY <1>0, ClockUnits
  <2>8. t = jd * DayTicks + h * HourTicks + m * MinuteTicks + s * Ticks BY DEF At
  <2> QED BY <2>4, <2>5, <2>6, <2>7, <2>8
<1> HIDE DEF t
<1>2. t \div Ticks = c /\ t % Ticks = 0
  <2> HIDE DEF c
  <2> QED BY <1>0, <1>1, ClockUnits, DivisionUnique
<1>3. c \div Seconds = b /\ c % Seconds = s
  <2> HIDE DEF b
  <2> QED BY <1>0, ClockUnits, DivisionUnique
<1>4. b \div Minutes = a /\ b % Minutes = m
  <2> HIDE DEF a
  <2> QED BY <1>0, ClockUnits, DivisionUnique
<1>5. a \div Hours = jd /\ a % Hours = h BY ClockUnits, DivisionUnique
<1>6. t \in Int BY <1>0, <1>1, ClockUnits
<1> HIDE DEF a, b, c
<1>7. t \div MinuteTicks = b /\ t \div HourTicks = a
  BY <1>2, <1>3, <1>4, <1>6, ClockParts, Zenon
<1>8. DayOf(t) = jd /\ HourOf(t) = h /\ MinuteOf(t) = m /\ SecondOf(t) = s
  BY <1>2, <1>3, <1>4, <1>5, <1>6, <1>7, ClockParts, Zenon
<1> QED BY <1>2, <1>6, <1>7, <1>8, Zenon DEF t, a, b

(* A whole second is put together from its parts.                            *)
LEMMA ClockSplit ==
    ASSUME NEW t \in Int, t % Ticks = 0
    PROVE  t = At(DayOf(t), HourOf(t), MinuteOf(t), SecondOf(t))
<1> DEFINE s == t \div Ticks
           m == t \div MinuteTicks
           h == t \div HourTicks
           d == DayOf(t)
<1>1. s \in Int /\ m \in Int /\ h \in Int /\ d \in Int BY ClockRanges
<1>2. t = Ticks * s
  <2>1. t = Ticks * s + (t % Ticks) BY ClockUnits, Division
  <2> QED BY <2>1, <1>1, ClockUnits
<1>3. s = Seconds * m + SecondOf(t)
  <2>1. s = Seconds * (s \div Seconds) + (s % Seconds)
    <3> HIDE DEF s
    <3> QED BY <1>1, ClockUnits, Division
  <2> QED BY <2>1, ClockParts, Zenon
<1>4. m = Minutes * h + MinuteOf(t)
  <2>1. m = Minutes * (m \div Minutes) + (m % Minutes)
    <3> HIDE DEF m
    <3> QED BY <1>1, ClockUnits, Division
  <2> QED BY <2>1, ClockParts, Zenon
<1>5. h = Hours * d + HourOf(t)
  <2>1. h = Hours * (h \div Hours) + (h % Hours)
    <3> HIDE DEF h
    <3> QED BY <1>1, ClockUnits, Division
  <2> QED BY <2>1, ClockParts, Zenon
<1> DEFINE x == SecondOf(t)
           y == MinuteOf(t)
           z == HourOf(t)
<1>6. x \in Int /\ y \in Int /\ z \in Int BY ClockRanges
<1> HIDE DEF s, m, h, d, x, y, z
<1>7. t = MinuteTicks * m + x * Ticks
  BY <1>1, <1>2, <1>3, <1>6, ClockUnits DEF MinuteTicks, x
<1>8. MinuteTicks * m = HourTicks * h + y * MinuteTicks
  BY <1>1, <1>4, <1>6, ClockUnits DEF HourTicks, y
<1>9. HourTicks * h = d * DayTicks + z * HourTicks
  BY <1>1, <1>5, <1>6, ClockUnits DEF DayTicks, z
<1>10. t = d * DayTicks + z * HourTicks + y * MinuteTicks + x * Ticks
  BY <1>1, <1>6, <1>7, <1>8, <1>9, ClockUnits
<1> QED BY <1>10, Zenon DEF At, d, x, y, z

(*********************************** Dates **********************************)

(* The days before the March that a year starts with, when years are counted *)
(* from March: the leap day is the last of such a year.                      *)
DaysBefore(y) == 365 * y + y \div 4 - y \div 100 + y \div 400

(* The year from March that a month is in, and the days before the month.    *)
MarchYear(year, mon) == IF mon > 2 THEN year + 4800 ELSE year + 4799
MarchOffset(mon) == <<306, 337, 0, 31, 61, 92, 122, 153, 184, 214, 245, 275>>[mon]

(* A day in it, its day number, and the date j2date makes of it.             *)
InMarchYear(y, e) == e \in 0 .. 365 /\ (e = 365 => isleap(y - 4799))
MarchJd(y, e) == DaysBefore(y) + e - 32044
MarchMonth(e) == ((e + 123) * 2141) \div 65536
MarchDate(y, e) ==
    [year |-> y - 4800 + (IF e >= 306 THEN 1 ELSE 0),
     mon |-> ((MarchMonth(e) + 10) % 12) + 1,
     mday |-> e + 123 - (7834 * MarchMonth(e)) \div 256]

(* The lengths of the months.                                                *)
LEMMA MonthLengths ==
    ASSUME NEW year, NEW mon \in 1 .. 12
    PROVE  /\ days_in_month(year, mon) \in 28 .. 31
           /\ mon \in {1, 3, 5, 7, 8, 10, 12} => days_in_month(year, mon) = 31
           /\ mon \in {4, 6, 9, 11} => days_in_month(year, mon) = 30
           /\ mon = 2 => days_in_month(year, mon) = IF isleap(year) THEN 29 ELSE 28
           /\ MarchOffset(mon) \in 0 .. 337
BY DEF days_in_month, MarchOffset

(* date2j counts days from March.                                            *)
LEMMA Date2jMarch ==
    ASSUME NEW year \in Int, NEW mon \in 1 .. 12, NEW day \in Int
    PROVE  date2j(year, mon, day) =
             DaysBefore(MarchYear(year, mon)) + MarchOffset(mon) + day - 1 - 32044
<1> DEFINE y == MarchYear(year, mon)
           m == IF mon > 2 THEN mon + 1 ELSE mon + 13
<1>1. y \in Int BY DEF MarchYear
<1>2. (7834 * m) \div 256 = MarchOffset(mon) + 122
  <2>1. CASE mon \in 1 .. 4 BY <2>1 DEF MarchOffset
  <2>2. CASE mon \in 5 .. 8 BY <2>2 DEF MarchOffset
  <2>3. CASE mon \in 9 .. 12 BY <2>3 DEF MarchOffset
  <2> QED BY <2>1, <2>2, <2>3
<1>3. date2j(year, mon, day) =
        y * 365 - 32167 + y \div 4 - (y \div 100) + (y \div 100) \div 4
            + (7834 * m) \div 256 + day
  BY DEF date2j, MarchYear
<1> HIDE DEF y, m
<1>4. (y \div 100) \div 4 = y \div 400 BY <1>1
<1>5. MarchOffset(mon) \in Int BY MonthLengths
<1>6. date2j(year, mon, day) = DaysBefore(y) + MarchOffset(mon) + day - 1 - 32044
  BY <1>1, <1>2, <1>3, <1>4, <1>5 DEF DaysBefore
<1> QED BY <1>6 DEF y

(* A year, split at the centuries and at the leap years.                     *)
YearSplit(y, q, c, a, b) ==
    /\ y = 400 * q + 100 * c + 4 * a + b
    /\ DaysBefore(y) = 146097 * q + 36524 * c + 1461 * a + 365 * b

(* Every year can be split so.                                               *)
LEMMA YearParts ==
    ASSUME NEW y \in Int
    PROVE  \E q \in Int, c \in 0 .. 3, a \in 0 .. 24, b \in 0 .. 3 : YearSplit(y, q, c, a, b)
<1> DEFINE q == y \div 400
           c == (y % 400) \div 100
           a == (y % 100) \div 4
           b == y % 4
<1>1. q \in Int /\ c \in 0 .. 3 /\ a \in 0 .. 24 /\ b \in 0 .. 3 OBVIOUS
<1>2. y = 400 * q + 100 * c + 4 * a + b OBVIOUS
<1> HIDE DEF q, c, a, b
<1>3. y \div 4 = 100 * q + 25 * c + a /\ y \div 100 = 4 * q + c /\ y \div 400 = q
  BY <1>1, <1>2
<1>4. DaysBefore(y) = 146097 * q + 36524 * c + 1461 * a + 365 * b
  BY <1>1, <1>2, <1>3 DEF DaysBefore
<1>5. YearSplit(y, q, c, a, b) BY <1>2, <1>4 DEF YearSplit
<1> QED BY <1>1, <1>5, Zenon

(* The leap day of a year from March.                                        *)
LEMMA LeapDay ==
    ASSUME NEW q \in Int, NEW c \in 0 .. 3, NEW a \in 0 .. 24, NEW b \in 0 .. 3
    PROVE  isleap(400 * q + 100 * c + 4 * a + b - 4799) <=> b = 3 /\ (a = 24 => c = 3)
<1> DEFINE y == 400 * q + 100 * c + 4 * a + b - 4799
<1>1. y % 4 = 0 <=> b = 3 OBVIOUS
<1>2. y % 100 = 0 <=> b = 3 /\ a = 24 OBVIOUS
<1>3. y % 400 = 0 <=> b = 3 /\ a = 24 /\ c = 3 OBVIOUS
<1> QED BY <1>1, <1>2, <1>3 DEF isleap

(* The steps of j2date: the days as if every fourth year were a leap year,   *)
(* the day in the cycle of four years, its year and its day from March, and  *)
(* the date these make.                                                      *)
Julian(jd) ==
    LET shifted == jd + 32044
        quad == shifted \div 146097
        extra == (shifted - quad * 146097) * 4 + 3
    IN  shifted + 60 + quad * 3 + extra \div 146097
InCycle(julian) == julian - (julian \div 1461) * 1461
YearInCycle(inCycle) == (inCycle * 4) \div 1461
InYear(inCycle) ==
    123 + IF YearInCycle(inCycle) # 0 THEN (inCycle + 305) % 365 ELSE (inCycle + 306) % 366
Assemble(yy, cycle, inYear) ==
    LET m == (inYear * 2141) \div 65536
    IN  [year |-> yy + cycle * 4 - 4800, mon |-> ((m + 10) % 12) + 1,
         mday |-> inYear - (7834 * m) \div 256]

(* j2date finds the year and the day in it.                                  *)
LEMMA J2dateSplit ==
    ASSUME NEW q \in Int, NEW c \in 0 .. 3, NEW a \in 0 .. 24, NEW b \in 0 .. 3,
           NEW y \in Int, YearSplit(y, q, c, a, b), NEW e, InMarchYear(y, e)
    PROVE  j2date(MarchJd(y, e)) = MarchDate(y, e)
<1>0. e \in 0 .. 365 BY DEF InMarchYear
<1>1. /\ y = 400 * q + 100 * c + 4 * a + b
      /\ DaysBefore(y) = 146097 * q + 36524 * c + 1461 * a + 365 * b
  BY DEF YearSplit
<1>2. e = 365 => b = 3 /\ (a = 24 => c = 3) BY <1>1, LeapDay DEF InMarchYear
<1>3. PICK cyc \in Int : cyc = 100 * q + 25 * c + a OBVIOUS
<1>4. PICK julian \in Int : julian = 1461 * cyc + 365 * b + e + 60 BY <1>0
<1>5. PICK jd \in Int : jd = MarchJd(y, e) BY <1>0, <1>1 DEF MarchJd
<1>6. Julian(jd) = julian
  <2>1. PICK rest \in Int : rest = 36524 * c + 1461 * a + 365 * b + e BY <1>0
  <2>2. /\ rest >= 0 /\ rest < 146097
        /\ 4 * rest + 3 >= 146097 * c /\ 4 * rest + 3 < 146097 * (c + 1)
    BY <1>0, <1>2, <2>1
  <2>3. PICK shifted \in Int : shifted = 146097 * q + rest OBVIOUS
  <2>4. shifted \div 146097 = q BY <2>2, <2>3
  <2>5. (shifted - q * 146097) * 4 + 3 = 4 * rest + 3 BY <2>3
  <2>6. (4 * rest + 3) \div 146097 = c BY <2>2
  <2>7. jd + 32044 = shifted BY <1>0, <1>1, <1>5, <2>1, <2>3 DEF MarchJd
  <2>8. Julian(jd) = shifted + 60 + q * 3 + c BY <2>4, <2>5, <2>6, <2>7 DEF Julian
  <2> QED BY <1>0, <1>3, <1>4, <2>1, <2>3, <2>8
<1> DEFINE late == IF e >= 306 THEN 1 ELSE 0
<1>7. /\ YearInCycle(InCycle(julian)) \in Int /\ late \in Int
      /\ YearInCycle(InCycle(julian)) + (julian \div 1461) * 4 = 4 * cyc + b + late
      /\ InYear(InCycle(julian)) = e + 123
  <2>1. CASE b = 3 /\ e >= 306
    <3>1. julian \div 1461 = cyc + 1 BY <1>0, <1>4, <2>1
    <3>2. InCycle(julian) = e - 306 BY <1>0, <1>4, <2>1, <3>1 DEF InCycle
    <3>3. YearInCycle(e - 306) = 0 BY <1>0, <2>1 DEF YearInCycle
    <3>4. InYear(e - 306) = e + 123 BY <1>0, <2>1, <3>3 DEF InYear
    <3>5. YearInCycle(InCycle(julian)) = 0 /\ InYear(InCycle(julian)) = e + 123
      BY <3>2, <3>3, <3>4
    <3>6. late = 1 BY <2>1
    <3> QED BY <2>1, <3>1, <3>5, <3>6
  <2>2. CASE b \in 0 .. 2 /\ e >= 306
    <3>1. julian \div 1461 = cyc /\ e <= 364 BY <1>0, <1>2, <1>4, <2>2
    <3>2. InCycle(julian) = 365 * b + e + 60 BY <1>0, <1>4, <2>2, <3>1 DEF InCycle
    <3>3. YearInCycle(365 * b + e + 60) = b + 1 BY <1>0, <2>2, <3>1 DEF YearInCycle
    <3>4. InYear(365 * b + e + 60) = e + 123 BY <1>0, <2>2, <3>1, <3>3 DEF InYear
    <3>5. YearInCycle(InCycle(julian)) = b + 1 /\ InYear(InCycle(julian)) = e + 123
      BY <3>2, <3>3, <3>4
    <3>6. late = 1 BY <2>2
    <3> QED BY <2>2, <3>1, <3>5, <3>6
  <2>3. CASE e < 306
    <3>1. julian \div 1461 = cyc BY <1>0, <1>4, <2>3
    <3>2. InCycle(julian) = 365 * b + e + 60 BY <1>0, <1>4, <2>3, <3>1 DEF InCycle
    <3>3. YearInCycle(365 * b + e + 60) = b BY <1>0, <2>3 DEF YearInCycle
    <3>4. InYear(365 * b + e + 60) = e + 123 BY <1>0, <2>3, <3>3 DEF InYear
    <3>5. YearInCycle(InCycle(julian)) = b /\ InYear(InCycle(julian)) = e + 123
      BY <3>2, <3>3, <3>4
    <3>6. late = 0 BY <1>0, <2>3
    <3> QED BY <3>1, <3>5, <3>6
  <2> QED BY <1>0, <2>1, <2>2, <2>3
<1>8. 4 * cyc + b = y BY <1>1, <1>3
<1>9. PICK yy \in Int : yy = YearInCycle(InCycle(julian)) BY <1>7
<1>10. PICK cycle \in Int : cycle = julian \div 1461 OBVIOUS
<1>11. yy + cycle * 4 - 4800 = y - 4800 + late
  <2>1. yy + cycle * 4 = 4 * cyc + b + late BY <1>7, <1>9, <1>10
  <2> HIDE DEF late
  <2> QED BY <1>7, <1>8, <2>1
<1>12. j2date(jd) = Assemble(YearInCycle(InCycle(Julian(jd))), Julian(jd) \div 1461,
                             InYear(InCycle(Julian(jd))))
  BY DEF j2date, Julian, InCycle, YearInCycle, InYear, Assemble
<1>13. PICK inYear \in Int : inYear = e + 123 BY <1>0
<1>14. j2date(jd) = Assemble(yy, cycle, inYear)
  <2>1. InYear(InCycle(julian)) = inYear BY <1>7, <1>13
  <2>2. j2date(jd) = Assemble(YearInCycle(InCycle(julian)), julian \div 1461,
                              InYear(InCycle(julian)))
    BY <1>6, <1>12
  <2> QED BY <1>9, <1>10, <2>1, <2>2
<1>15. Assemble(yy, cycle, inYear) = MarchDate(y, e)
  <2>1. PICK m \in Int : m = (inYear * 2141) \div 65536 OBVIOUS
  <2>2. m = MarchMonth(e) BY <1>13, <2>1 DEF MarchMonth
  <2>3. Assemble(yy, cycle, inYear) =
          [year |-> yy + cycle * 4 - 4800, mon |-> ((m + 10) % 12) + 1,
           mday |-> inYear - (7834 * m) \div 256]
    BY <2>1 DEF Assemble
  <2>4. MarchDate(y, e) =
          [year |-> y - 4800 + late, mon |-> ((m + 10) % 12) + 1,
           mday |-> e + 123 - (7834 * m) \div 256]
    BY <1>0, <2>2 DEF MarchDate
  <2>5. e + 123 - (7834 * m) \div 256 = inYear - (7834 * m) \div 256
    BY <1>0, <1>13
  <2> HIDE DEF late
  <2> QED BY <1>11, <2>3, <2>4, <2>5
<1> QED BY <1>5, <1>14, <1>15

(* For every year.                                                           *)
LEMMA J2dateMarch ==
    ASSUME NEW y \in Int, NEW e, InMarchYear(y, e)
    PROVE  j2date(MarchJd(y, e)) = MarchDate(y, e)
<1>1. PICK q \in Int, c \in 0 .. 3, a \in 0 .. 24, b \in 0 .. 3 : YearSplit(y, q, c, a, b)
  BY YearParts
<1> QED BY <1>1, J2dateSplit, Zenon
(* A date of the calendar.                                                   *)
IsDate(year, mon, mday) ==
    year \in Int /\ mon \in 1 .. 12 /\ mday \in 1 .. days_in_month(year, mon)

(* The day of a date in the year from March.                                 *)
LEMMA DateMarch ==
    ASSUME NEW year, NEW mon, NEW mday, IsDate(year, mon, mday)
    PROVE  LET y == MarchYear(year, mon)
               e == MarchOffset(mon) + mday - 1
           IN  /\ y \in Int /\ InMarchYear(y, e)
               /\ date2j(year, mon, mday) = MarchJd(y, e)
               /\ MarchDate(y, e) = [year |-> year, mon |-> mon, mday |-> mday]
<1> DEFINE y == MarchYear(year, mon)
           e == MarchOffset(mon) + mday - 1
           m == IF mon > 2 THEN mon + 1 ELSE mon + 13
<1>1. year \in Int /\ mon \in 1 .. 12 /\ mday \in 1 .. days_in_month(year, mon)
  BY DEF IsDate
<1>2. y \in Int BY <1>1 DEF MarchYear
<1>3. mday \in 1 .. 31 /\ days_in_month(year, mon) \in 28 .. 31 BY <1>1, MonthLengths
<1> DEFINE Placed == /\ e \in 0 .. 365 /\ (e >= 306 <=> mon \in {1, 2})
                     /\ e = 365 => mon = 2 /\ mday = 29
                     /\ MarchMonth(e) = m /\ e + 123 - (7834 * m) \div 256 = mday
<1>4. Placed
  <2>1. CASE mon = 1
    BY <1>1, <1>3, <2>1, MonthLengths DEF MarchOffset, MarchMonth
  <2>2. CASE mon = 2
    BY <1>1, <1>3, <2>2, MonthLengths DEF MarchOffset, MarchMonth
  <2>3. CASE mon = 3
    BY <1>1, <1>3, <2>3, MonthLengths DEF MarchOffset, MarchMonth
  <2>4. CASE mon = 4
    BY <1>1, <1>3, <2>4, MonthLengths DEF MarchOffset, MarchMonth
  <2>5. CASE mon = 5
    BY <1>1, <1>3, <2>5, MonthLengths DEF MarchOffset, MarchMonth
  <2>6. CASE mon = 6
    BY <1>1, <1>3, <2>6, MonthLengths DEF MarchOffset, MarchMonth
  <2>7. CASE mon = 7
    BY <1>1, <1>3, <2>7, MonthLengths DEF MarchOffset, MarchMonth
  <2>8. CASE mon = 8
    BY <1>1, <1>3, <2>8, MonthLengths DEF MarchOffset, MarchMonth
  <2>9. CASE mon = 9
    BY <1>1, <1>3, <2>9, MonthLengths DEF MarchOffset, MarchMonth
  <2>10. CASE mon = 10
    BY <1>1, <1>3, <2>10, MonthLengths DEF MarchOffset, MarchMonth
  <2>11. CASE mon = 11
    BY <1>1, <1>3, <2>11, MonthLengths DEF MarchOffset, MarchMonth
  <2>12. CASE mon = 12
    BY <1>1, <1>3, <2>12, MonthLengths DEF MarchOffset, MarchMonth
  <2> HIDE DEF Placed
  <2> QED BY <1>1, <2>1, <2>2, <2>3, <2>4, <2>5, <2>6, <2>7, <2>8, <2>9, <2>10, <2>11, <2>12
<1>5. e = 365 => isleap(y - 4799)
  <2>1. mon = 2 => y - 4799 = year BY <1>1 DEF MarchYear
  <2> HIDE DEF e, y
  <2> QED BY <1>1, <1>4, <2>1, MonthLengths
<1>6. InMarchYear(y, e) BY <1>4, <1>5 DEF InMarchYear
<1>7. date2j(year, mon, mday) = MarchJd(y, e)
  <2>1. date2j(year, mon, mday) =
          DaysBefore(MarchYear(year, mon)) + MarchOffset(mon) + mday - 1 - 32044
    BY <1>1, <1>3, Date2jMarch
  <2>2. DaysBefore(y) \in Int /\ MarchOffset(mon) \in Int
    BY <1>1, <1>2, MonthLengths DEF DaysBefore
  <2> QED BY <1>3, <2>1, <2>2 DEF MarchJd
<1>8. ((m + 10) % 12) + 1 = mon BY <1>1
<1>9. y - 4800 + (IF e >= 306 THEN 1 ELSE 0) = year
  <2>1. CASE mon \in {1, 2} BY <1>1, <1>4, <2>1 DEF MarchYear
  <2>2. CASE mon \notin {1, 2} BY <1>1, <1>4, <2>2 DEF MarchYear
  <2> QED BY <2>1, <2>2
<1> HIDE DEF y, e, m
<1>10. MarchDate(y, e) = [year |-> year, mon |-> mon, mday |-> mday]
  BY <1>4, <1>8, <1>9 DEF MarchDate
<1> QED BY <1>2, <1>6, <1>7, <1>10 DEF y, e

(* A date survives the conversion to a day number and back.                  *)
THEOREM DateRoundTrip ==
    ASSUME NEW year, NEW mon, NEW mday, IsDate(year, mon, mday)
    PROVE  j2date(date2j(year, mon, mday)) = [year |-> year, mon |-> mon, mday |-> mday]
<1>1. PICK y, e : /\ y \in Int /\ InMarchYear(y, e)
                  /\ date2j(year, mon, mday) = MarchJd(y, e)
                  /\ MarchDate(y, e) = [year |-> year, mon |-> mon, mday |-> mday]
  <2> DEFINE y == MarchYear(year, mon)
             e == MarchOffset(mon) + mday - 1
  <2>1. /\ y \in Int /\ InMarchYear(y, e)
        /\ date2j(year, mon, mday) = MarchJd(y, e)
        /\ MarchDate(y, e) = [year |-> year, mon |-> mon, mday |-> mday]
    BY DateMarch, Zenon
  <2> HIDE DEF y, e
  <2> QED BY <2>1, Zenon
<1> QED BY <1>1, J2dateMarch, Zenon

(* Every day number is a day of a year from March.                           *)
LEMMA EveryDayMarch ==
    ASSUME NEW jd \in Int
    PROVE  \E y \in Int : \E e \in 0 .. 365 : InMarchYear(y, e) /\ jd = MarchJd(y, e)
<1>1. PICK q \in Int, r \in Int : r >= 0 /\ r < 146097 /\ jd + 32044 = 146097 * q + r
  <2> DEFINE q == (jd + 32044) \div 146097
             r == (jd + 32044) % 146097
  <2>1. q \in Int /\ r \in Int /\ r >= 0 /\ r < 146097 /\ jd + 32044 = 146097 * q + r OBVIOUS
  <2> HIDE DEF q, r
  <2> QED BY <2>1
<1>2. PICK c \in 0 .. 3, u \in Int : /\ r = 36524 * c + u /\ u >= 0 /\ u < 36525
                                     /\ u = 36524 => c = 3
  <2>1. CASE r < 36524 BY <1>1, <2>1
  <2>2. CASE r >= 36524 /\ r < 73048
    <3>1. r = 36524 * 1 + (r - 36524) /\ r - 36524 \in Int BY <1>1, <2>2
    <3> QED BY <2>2, <3>1
  <2>3. CASE r >= 73048 /\ r < 109572
    <3>1. r = 36524 * 2 + (r - 73048) /\ r - 73048 \in Int BY <1>1, <2>3
    <3> QED BY <2>3, <3>1
  <2>4. CASE r >= 109572
    <3>1. r = 36524 * 3 + (r - 109572) /\ r - 109572 \in Int BY <1>1, <2>4
    <3> QED BY <1>1, <2>4, <3>1
  <2> QED BY <1>1, <2>1, <2>2, <2>3, <2>4
<1>3. PICK a \in 0 .. 24 : u - 1461 * a >= 0 /\ u - 1461 * a <= 1460
  <2>1. u \div 1461 \in 0 .. 24 /\ u - 1461 * (u \div 1461) >= 0
        /\ u - 1461 * (u \div 1461) <= 1460
    BY <1>2
  <2> QED BY <2>1
<1>31. PICK v \in 0 .. 1460 : v = u - 1461 * a BY <1>2, <1>3
<1>4. PICK b \in 0 .. 3, e \in 0 .. 365 : v = 365 * b + e /\ (e = 365 => b = 3)
  <2>1. CASE v = 1460
    <3>1. 1460 = 365 * 3 + 365 OBVIOUS
    <3> QED BY <2>1, <3>1
  <2>2. CASE v < 1460
    <3> DEFINE b == v \div 365
               e == v % 365
    <3>1. b \in 0 .. 3 /\ e \in 0 .. 365 /\ e # 365 /\ v = 365 * b + e BY <2>2
    <3> HIDE DEF b, e
    <3> QED BY <3>1
  <2> QED BY <2>1, <2>2
<1>5. PICK y \in Int : y = 400 * q + 100 * c + 4 * a + b OBVIOUS
<1>6. DaysBefore(y) = 146097 * q + 36524 * c + 1461 * a + 365 * b
  <2>1. y \div 4 = 100 * q + 25 * c + a /\ y \div 100 = 4 * q + c /\ y \div 400 = q
    BY <1>5
  <2> QED BY <1>5, <2>1 DEF DaysBefore
<1>7. jd = MarchJd(y, e) BY <1>1, <1>2, <1>31, <1>4, <1>6 DEF MarchJd
<1>8. InMarchYear(y, e)
  <2>1. e = 365 => b = 3 /\ (a = 24 => c = 3) BY <1>2, <1>31, <1>4
  <2> QED BY <1>5, <2>1, LeapDay DEF InMarchYear
<1> QED BY <1>7, <1>8, ZenonT(120)

(* The date of a day of a year from March.                                   *)
MarchDay(y, e, year, mon, mday) ==
    IsDate(year, mon, mday) /\ y = MarchYear(year, mon) /\ e = MarchOffset(mon) + mday - 1

(* There is one.                                                             *)
LEMMA MarchIsDate ==
    ASSUME NEW y \in Int, NEW e, InMarchYear(y, e)
    PROVE  \E year, mon, mday : MarchDay(y, e, year, mon, mday)
<1>1. e \in 0 .. 365 /\ (e = 365 => isleap(y - 4799)) BY DEF InMarchYear
<1>2. CASE e \in 0 .. 30
  <2>1. MarchDay(y, e, y - 4800, 3, e + 1)
    BY <1>1, <1>2, MonthLengths DEF MarchDay, MarchYear, MarchOffset, IsDate
  <2> QED BY <2>1
<1>3. CASE e \in 31 .. 60
  <2>1. MarchDay(y, e, y - 4800, 4, e - 30)
    BY <1>1, <1>3, MonthLengths DEF MarchDay, MarchYear, MarchOffset, IsDate
  <2> QED BY <2>1
<1>4. CASE e \in 61 .. 91
  <2>1. MarchDay(y, e, y - 4800, 5, e - 60)
    BY <1>1, <1>4, MonthLengths DEF MarchDay, MarchYear, MarchOffset, IsDate
  <2> QED BY <2>1
<1>5. CASE e \in 92 .. 121
  <2>1. MarchDay(y, e, y - 4800, 6, e - 91)
    BY <1>1, <1>5, MonthLengths DEF MarchDay, MarchYear, MarchOffset, IsDate
  <2> QED BY <2>1
<1>6. CASE e \in 122 .. 152
  <2>1. MarchDay(y, e, y - 4800, 7, e - 121)
    BY <1>1, <1>6, MonthLengths DEF MarchDay, MarchYear, MarchOffset, IsDate
  <2> QED BY <2>1
<1>7. CASE e \in 153 .. 183
  <2>1. MarchDay(y, e, y - 4800, 8, e - 152)
    BY <1>1, <1>7, MonthLengths DEF MarchDay, MarchYear, MarchOffset, IsDate
  <2> QED BY <2>1
<1>8. CASE e \in 184 .. 213
  <2>1. MarchDay(y, e, y - 4800, 9, e - 183)
    BY <1>1, <1>8, MonthLengths DEF MarchDay, MarchYear, MarchOffset, IsDate
  <2> QED BY <2>1
<1>9. CASE e \in 214 .. 244
  <2>1. MarchDay(y, e, y - 4800, 10, e - 213)
    BY <1>1, <1>9, MonthLengths DEF MarchDay, MarchYear, MarchOffset, IsDate
  <2> QED BY <2>1
<1>10. CASE e \in 245 .. 274
  <2>1. MarchDay(y, e, y - 4800, 11, e - 244)
    BY <1>1, <1>10, MonthLengths DEF MarchDay, MarchYear, MarchOffset, IsDate
  <2> QED BY <2>1
<1>11. CASE e \in 275 .. 305
  <2>1. MarchDay(y, e, y - 4800, 12, e - 274)
    BY <1>1, <1>11, MonthLengths DEF MarchDay, MarchYear, MarchOffset, IsDate
  <2> QED BY <2>1
<1>12. CASE e \in 306 .. 336
  <2>1. MarchDay(y, e, y - 4799, 1, e - 305)
    BY <1>1, <1>12, MonthLengths DEF MarchDay, MarchYear, MarchOffset, IsDate
  <2> QED BY <2>1
<1>13. CASE e \in 337 .. 365
  <2>1. MarchDay(y, e, y - 4799, 2, e - 336)
    BY <1>1, <1>13, MonthLengths DEF MarchDay, MarchYear, MarchOffset, IsDate
  <2> QED BY <2>1
<1> QED BY <1>1, <1>2, <1>3, <1>4, <1>5, <1>6, <1>7, <1>8, <1>9, <1>10, <1>11, <1>12, <1>13

(* A day number survives the conversion to a date and back.                  *)
THEOREM DayRoundTrip ==
    ASSUME NEW jd \in Int
    PROVE  /\ IsDate(j2date(jd).year, j2date(jd).mon, j2date(jd).mday)
           /\ date2j(j2date(jd).year, j2date(jd).mon, j2date(jd).mday) = jd
<1>1. PICK y \in Int : \E e \in 0 .. 365 : InMarchYear(y, e) /\ jd = MarchJd(y, e)
  BY EveryDayMarch, Zenon
<1>2. PICK e \in 0 .. 365 : InMarchYear(y, e) /\ jd = MarchJd(y, e)
  BY <1>1, Zenon
<1>3. PICK year, mon, mday : MarchDay(y, e, year, mon, mday)
  BY <1>2, MarchIsDate, Zenon
<1>4. date2j(year, mon, mday) = jd BY <1>2, <1>3, DateMarch, Zenon DEF MarchDay
<1>5. j2date(jd) = [year |-> year, mon |-> mon, mday |-> mday]
  BY <1>3, <1>4, DateRoundTrip, Zenon DEF MarchDay
<1> QED BY <1>3, <1>4, <1>5 DEF MarchDay

(* The day number of the first of January, and the days of a year before a   *)
(* month.                                                                    *)
YearStart(year) == DaysBefore(year + 4799) + 306 - 32044
MonthStart(year, mon) ==
    <<0, 31, 59, 90, 120, 151, 181, 212, 243, 273, 304, 334>>[mon]
        + (IF mon > 2 /\ isleap(year) THEN 1 ELSE 0)

(* A year has 365 days, a leap year one more.                                *)
LEMMA YearLength ==
    ASSUME NEW year \in Int
    PROVE  /\ YearStart(year) \in Int
           /\ YearStart(year + 1) = YearStart(year) + (IF isleap(year) THEN 366 ELSE 365)
<1>1. PICK y \in Int : y = year + 4799 OBVIOUS
<1>2. year + 1 + 4799 = y + 1 BY <1>1
<1>3. DaysBefore(y) \in Int /\ DaysBefore(y + 1) \in Int BY DEF DaysBefore
<1>4. DaysBefore(y + 1) = DaysBefore(y) + (IF isleap(year) THEN 366 ELSE 365)
  <2>1. isleap(year) <=> (y + 1) % 4 = 0 /\ ((y + 1) % 100 # 0 \/ (y + 1) % 400 = 0)
    BY <1>1 DEF isleap
  <2>2. (y + 1) \div 4 = (y \div 4) + (IF (y + 1) % 4 = 0 THEN 1 ELSE 0) OBVIOUS
  <2>3. (y + 1) \div 100 = (y \div 100) + (IF (y + 1) % 100 = 0 THEN 1 ELSE 0) OBVIOUS
  <2>4. (y + 1) \div 400 = (y \div 400) + (IF (y + 1) % 400 = 0 THEN 1 ELSE 0) OBVIOUS
  <2>5. ((y + 1) % 400 = 0 => (y + 1) % 100 = 0) /\ ((y + 1) % 100 = 0 => (y + 1) % 4 = 0)
    OBVIOUS
  <2> QED BY <2>1, <2>2, <2>3, <2>4, <2>5 DEF DaysBefore
<1> QED BY <1>1, <1>2, <1>3, <1>4 DEF YearStart

(* Years that lie n apart start 365 to 366 times n days apart.               *)
LEMMA YearsApart ==
    ASSUME NEW y \in Int, NEW z \in Int, y <= z
    PROVE  /\ 365 * (z - y) <= YearStart(z) - YearStart(y)
           /\ YearStart(z) - YearStart(y) <= 366 * (z - y)
<1>1. PICK u \in Int : u = y + 4799 OBVIOUS
<1>2. PICK v \in Int : v = z + 4799 OBVIOUS
<1>3. /\ (u \div 4) \div 25 = u \div 100 /\ (v \div 4) \div 25 = v \div 100
      /\ (u \div 100) \div 4 = u \div 400 /\ (v \div 100) \div 4 = v \div 400
  OBVIOUS
<1>4. /\ u \div 4 <= v \div 4 /\ (v \div 4) - (u \div 4) <= v - u
      /\ u \div 400 <= v \div 400
  BY <1>1, <1>2
<1>5. /\ (v \div 100) - (u \div 100) <= (v \div 4) - (u \div 4)
      /\ (v \div 400) - (u \div 400) <= (v \div 100) - (u \div 100)
  BY <1>3, <1>4
<1>6. 365 * (v - u) <= DaysBefore(v) - DaysBefore(u)
      /\ DaysBefore(v) - DaysBefore(u) <= 366 * (v - u)
  BY <1>4, <1>5 DEF DaysBefore
<1>7. DaysBefore(u) \in Int /\ DaysBefore(v) \in Int BY DEF DaysBefore
<1> QED BY <1>1, <1>2, <1>6, <1>7 DEF YearStart

(* The day number of a date, from the start of its year.                     *)
LEMMA DateInYear ==
    ASSUME NEW year, NEW mon, NEW mday, IsDate(year, mon, mday)
    PROVE  /\ date2j(year, mon, mday) = YearStart(year) + MonthStart(year, mon) + mday - 1
           /\ MonthStart(year, mon) \in Int
           /\ MonthStart(year, mon) + mday <= (IF isleap(year) THEN 366 ELSE 365)
           /\ MonthStart(year, mon) >= 30 * (mon - 1) - 1
           /\ MonthStart(year, mon) >= 32 * (mon - 1) - 18
           /\ MonthStart(year, mon) + mday - 1 <= 30 * (mon - 1) + 35
           /\ MonthStart(year, mon) + mday - 1 <= 32 * (mon - 1) + 30
           /\ MonthStart(year, mon) >= 0 /\ mday >= 1 /\ mday <= 31
           /\ mon < 12 => MonthStart(year, mon) + days_in_month(year, mon) = MonthStart(year, mon + 1)
<1>1. year \in Int /\ mon \in 1 .. 12 /\ mday \in 1 .. days_in_month(year, mon)
  BY DEF IsDate
<1>2. mday \in 1 .. 31 /\ days_in_month(year, mon) \in 28 .. 31 BY <1>1, MonthLengths
<1>3. YearStart(year) \in Int /\ YearStart(year + 1) = YearStart(year) + (IF isleap(year) THEN 366 ELSE 365)
  BY <1>1, YearLength
<1>4. date2j(year, mon, mday) = YearStart(year) + MonthStart(year, mon) + mday - 1
  <2>1. date2j(year, mon, mday) =
          DaysBefore(MarchYear(year, mon)) + MarchOffset(mon) + mday - 1 - 32044
    BY <1>1, <1>2, Date2jMarch
  <2>2. CASE mon \in {1, 2}
    <3>1. MarchYear(year, mon) = year + 4799 /\ MarchOffset(mon) = 306 + MonthStart(year, mon)
      BY <1>1, <2>2 DEF MarchYear, MarchOffset, MonthStart
    <3>2. DaysBefore(year + 4799) \in Int /\ MonthStart(year, mon) \in Int
      BY <1>1, <2>2 DEF DaysBefore, MonthStart
    <3> QED BY <1>2, <2>1, <3>1, <3>2 DEF YearStart
  <2>3. CASE mon \in 3 .. 12
    <3>1. /\ MarchYear(year, mon) = (year + 1) + 4799
          /\ MarchOffset(mon) + 59 + (IF isleap(year) THEN 1 ELSE 0) = MonthStart(year, mon)
      BY <1>1, <2>3 DEF MarchYear, MarchOffset, MonthStart
    <3>2. DaysBefore((year + 1) + 4799) \in Int /\ MarchOffset(mon) \in Int
      BY <1>1, MonthLengths DEF DaysBefore
    <3>3. DaysBefore((year + 1) + 4799) = YearStart(year + 1) - 306 + 32044
      BY <3>2 DEF YearStart
    <3> QED BY <1>1, <1>2, <1>3, <2>1, <3>1, <3>2, <3>3
  <2> QED BY <1>1, <2>2, <2>3
<1>5. mon = 2 => days_in_month(year, mon) = IF isleap(year) THEN 29 ELSE 28
  BY <1>1, MonthLengths
<1>6. MonthStart(year, mon) \in Int BY <1>1 DEF MonthStart
<1>7. /\ MonthStart(year, mon) >= 30 * (mon - 1) - 1
      /\ MonthStart(year, mon) >= 32 * (mon - 1) - 18
      /\ MonthStart(year, mon) >= 0
  BY <1>1 DEF MonthStart
<1>8. /\ MonthStart(year, mon) + days_in_month(year, mon) <= (IF isleap(year) THEN 366 ELSE 365)
      /\ MonthStart(year, mon) + days_in_month(year, mon) - 1 <= 30 * (mon - 1) + 35
      /\ MonthStart(year, mon) + days_in_month(year, mon) - 1 <= 32 * (mon - 1) + 30
      /\ mon < 12 => MonthStart(year, mon) + days_in_month(year, mon) = MonthStart(year, mon + 1)
  BY <1>1, MonthLengths DEF MonthStart
<1>9. days_in_month(year, mon) \in Int /\ mday <= days_in_month(year, mon) BY <1>1, <1>2
<1> QED BY <1>1, <1>2, <1>4, <1>6, <1>7, <1>8, <1>9

(* Later months of a year start later.                                       *)
LEMMA MonthsOrdered ==
    ASSUME NEW year, NEW m \in 1 .. 12, NEW n \in 1 .. 12, m <= n
    PROVE  MonthStart(year, m) <= MonthStart(year, n)
BY DEF MonthStart

(* Earlier days are in earlier years and months, and how far: the bounds     *)
(* that the search is taken forward by, and those of its horizon.            *)
LEMMA DatesApart ==
    ASSUME NEW y, NEW m, NEW d, IsDate(y, m, d), NEW z, NEW n, NEW f, IsDate(z, n, f),
           date2j(y, m, d) <= date2j(z, n, f)
    PROVE  LET days == date2j(z, n, f) - date2j(y, m, d)
               months == 12 * (z - y) + n - m
           IN  /\ y <= z /\ 0 <= months
               /\ 365 * (z - y) - 365 <= days /\ days <= 366 * (z - y) + 365
               /\ 30 * months - 36 <= days /\ days <= 32 * months + 48
<1> DEFINE j == date2j(y, m, d)
           k == date2j(z, n, f)
           a == MonthStart(y, m)
           b == MonthStart(z, n)
<1>1. /\ y \in Int /\ m \in 1 .. 12 /\ d \in Int
      /\ z \in Int /\ n \in 1 .. 12 /\ f \in Int
  BY MonthLengths DEF IsDate
<1>2. /\ j = YearStart(y) + a + d - 1 /\ a \in Int
      /\ a + d <= (IF isleap(y) THEN 366 ELSE 365)
      /\ a >= 30 * (m - 1) - 1 /\ a >= 32 * (m - 1) - 18
      /\ a + d - 1 <= 30 * (m - 1) + 35 /\ a + d - 1 <= 32 * (m - 1) + 30
      /\ a >= 0 /\ d >= 1 /\ d <= 31
  BY DateInYear
<1>3. /\ k = YearStart(z) + b + f - 1 /\ b \in Int
      /\ b + f <= (IF isleap(z) THEN 366 ELSE 365)
      /\ b >= 30 * (n - 1) - 1 /\ b >= 32 * (n - 1) - 18
      /\ b + f - 1 <= 30 * (n - 1) + 35 /\ b + f - 1 <= 32 * (n - 1) + 30
      /\ b >= 0 /\ f >= 1 /\ f <= 31
  BY DateInYear
<1>4. YearStart(y) \in Int /\ YearStart(z) \in Int /\ YearStart(z + 1) \in Int
  BY <1>1, YearLength
<1>5. YearStart(z + 1) = YearStart(z) + (IF isleap(z) THEN 366 ELSE 365)
  BY <1>1, YearLength
<1>6. y <= z
  <2> SUFFICES ASSUME z + 1 <= y PROVE FALSE BY <1>1
  <2>1. YearStart(z + 1) <= YearStart(y)
    <3>1. 365 * (y - (z + 1)) <= YearStart(y) - YearStart(z + 1) BY <1>1, YearsApart
    <3> QED BY <1>1, <1>4, <3>1
  <2> HIDE DEF a, b, j, k
  <2> QED BY <1>1, <1>2, <1>3, <1>4, <1>5, <2>1 DEF j, k
<1>7. y = z => m <= n
  <2> SUFFICES ASSUME y = z, n + 1 <= m PROVE FALSE BY <1>1
  <2>1. b + days_in_month(z, n) = MonthStart(z, n + 1)
    BY <1>1, DateInYear
  <2>2. MonthStart(z, n + 1) <= a BY <1>1, MonthsOrdered
  <2>3. f <= days_in_month(z, n) /\ days_in_month(z, n) \in Int
    BY <1>1, MonthLengths DEF IsDate
  <2>4. MonthStart(z, n + 1) \in Int BY <1>1 DEF MonthStart
  <2> HIDE DEF a, b, j, k
  <2> QED BY <1>1, <1>2, <1>3, <1>4, <2>1, <2>2, <2>3, <2>4 DEF j, k
<1>8. 365 * (z - y) <= YearStart(z) - YearStart(y) /\ YearStart(z) - YearStart(y) <= 366 * (z - y)
  BY <1>1, <1>6, YearsApart
<1>9. j \in Int /\ k \in Int BY <1>1, <1>2, <1>3, <1>4
<1> HIDE DEF a, b, j, k
<1>10. 0 <= 12 * (z - y) + n - m
  BY <1>1, <1>6, <1>7
<1>11. 365 * (z - y) - 365 <= k - j /\ k - j <= 366 * (z - y) + 365
  BY <1>1, <1>2, <1>3, <1>4, <1>6, <1>8
<1>12. 30 * (12 * (z - y) + n - m) - 36 <= k - j
  BY <1>1, <1>2, <1>3, <1>4, <1>6, <1>8
<1>13. k - j <= 32 * (12 * (z - y) + n - m) + 48
  BY <1>1, <1>2, <1>3, <1>4, <1>6, <1>8
<1> QED BY <1>6, <1>10, <1>11, <1>12, <1>13 DEF j, k

(********************************* Weekdays *********************************)

(* A weekday falls on a day of a month that starts on first.                 *)
OnWeekday(v, d, first) == v.dow = ((first + d) - 1) % 7

(* With its ordinal, counted from the start of the month of dim days, or     *)
(* from its end.                                                             *)
WeekdayOn(v, d, first, dim) ==
    OnWeekday(v, d, first) /\ v.ord \in {0, (d - 1) \div 7 + 1, -((dim - d) \div 7 + 1)}

(* The first day of the month with a weekday, and the one n weeks later.     *)
FirstMatch(v, first) == 1 + (((v.dow - first) + 7) % 7)
WeeksAfter(v, d, first, n) == n \in 0 .. 4 /\ d = FirstMatch(v, first) + 7 * n

(* The days with a weekday are weeks apart.                                  *)
LEMMA WeeksApart ==
    ASSUME NEW v, v.dow \in 0 .. 6, NEW first \in 0 .. 6, NEW dim \in 28 .. 31, NEW d \in 1 .. dim,
           OnWeekday(v, d, first)
    PROVE  \E n : WeeksAfter(v, d, first, n)
<1>1. PICK w \in 0 .. 6 : w = v.dow OBVIOUS
<1>2. PICK m \in 1 .. 7 : m = 1 + (((w - first) + 7) % 7) OBVIOUS
<1>3. FirstMatch(v, first) = m BY <1>1, <1>2 DEF FirstMatch
<1>4. w = ((first + d) - 1) % 7 BY <1>1 DEF OnWeekday
<1>5. (d - m) % 7 = 0 /\ d - m >= -6 BY <1>2, <1>4
<1>6. (d - m) \div 7 \in 0 .. 4 /\ d = m + 7 * ((d - m) \div 7) BY <1>5
<1>7. WeeksAfter(v, d, first, (d - m) \div 7) BY <1>3, <1>6 DEF WeeksAfter
<1> QED BY <1>7

(* How many weeks they are from the start and from the end.                  *)
WeekCounts(v, d, first, dim, n) ==
    /\ n \in 0 .. 4 /\ d = FirstMatch(v, first) + 7 * n
    /\ OnWeekday(v, d, first)
    /\ (d - 1) \div 7 = n /\ (d - FirstMatch(v, first)) \div 7 = n
    /\ (d - FirstMatch(v, first)) % 7 = 0
    /\ (dim - FirstMatch(v, first)) \div 7 = (dim - d) \div 7 + n
    /\ (dim - d) \div 7 \in 0 .. 4

(* The counts of every such day.                                             *)
LEMMA WeeksFrom ==
    ASSUME NEW v, v.dow \in 0 .. 6, NEW first \in 0 .. 6, NEW dim \in 28 .. 31, NEW d \in 1 .. dim,
           NEW n, WeeksAfter(v, d, first, n)
    PROVE  WeekCounts(v, d, first, dim, n)
<1>1. PICK w \in 0 .. 6 : w = v.dow OBVIOUS
<1>2. PICK m \in 1 .. 7 : m = 1 + (((w - first) + 7) % 7) OBVIOUS
<1>3. FirstMatch(v, first) = m BY <1>1, <1>2 DEF FirstMatch
<1>4. n \in 0 .. 4 /\ d = m + 7 * n BY <1>3 DEF WeeksAfter
<1>5. w = ((first + d) - 1) % 7 BY <1>2, <1>4
<1>6. OnWeekday(v, d, first) BY <1>1, <1>5 DEF OnWeekday
<1>7. /\ (d - 1) \div 7 = n /\ (d - m) \div 7 = n /\ (d - m) % 7 = 0
      /\ (dim - m) \div 7 = (dim - d) \div 7 + n
      /\ (dim - d) \div 7 \in 0 .. 4
  BY <1>2, <1>4
<1> QED BY <1>3, <1>4, <1>6, <1>7 DEF WeekCounts

(* As a filter, BYDAY keeps these days.                                      *)
LEMMA ByDayKeepsExact ==
    ASSUME NEW v, v.dow \in 0 .. 6, v.ord \in -5 .. 5, NEW first \in 0 .. 6,
           NEW dim \in 28 .. 31, NEW d \in 1 .. dim
    PROVE  ByDayKeeps(v, d, first, dim) <=> WeekdayOn(v, d, first, dim)
<1> DEFINE m == FirstMatch(v, first)
<1>1. ByDayKeeps(v, d, first, dim) <=>
        /\ (first + d - 1) % 7 = v.dow
        /\ \/ v.ord = 0
           \/ v.ord > 0 /\ (d - m) \div 7 + 1 = v.ord
           \/ v.ord < 0 /\ (d - m) \div 7 + 1 = (dim - m) \div 7 + 1 + v.ord + 1
  BY Zenon DEF ByDayKeeps, FirstMatch
<1>2. CASE OnWeekday(v, d, first)
  <2>1. PICK n : WeeksAfter(v, d, first, n) BY <1>2, WeeksApart
  <2>2. /\ n \in 0 .. 4 /\ (d - 1) \div 7 = n /\ (d - m) \div 7 = n
        /\ (dim - m) \div 7 = (dim - d) \div 7 + n /\ (dim - d) \div 7 \in 0 .. 4
    <3>1. WeekCounts(v, d, first, dim, n) BY <2>1, WeeksFrom, Zenon
    <3> QED BY <3>1 DEF WeekCounts
  <2> HIDE DEF m
  <2> QED BY <1>1, <1>2, <2>2 DEF WeekdayOn, OnWeekday
<1>3. CASE ~OnWeekday(v, d, first)
  BY <1>1, <1>3 DEF WeekdayOn, OnWeekday
<1> QED BY <1>2, <1>3

(* On its own, BYDAY generates them.                                         *)
LEMMA ByDayDaysExact ==
    ASSUME NEW v, v.dow \in 0 .. 6, v.ord \in -5 .. 5, NEW first \in 0 .. 6,
           NEW dim \in 28 .. 31, NEW d
    PROVE  d \in ByDayDays(v, first, dim) <=> d \in 1 .. dim /\ WeekdayOn(v, d, first, dim)
<1> DEFINE m == FirstMatch(v, first)
           count == (dim - m) \div 7 + 1
<1>1. ByDayDays(v, first, dim) =
        CASE v.ord = 0 -> {e \in m .. dim : (e - m) % 7 = 0}
          [] v.ord > 0 -> {m + (v.ord - 1) * 7 : n \in {v.ord} \cap 1 .. count}
          [] v.ord < 0 -> {m + (count + v.ord) * 7 : n \in {-v.ord} \cap 1 .. count}
  BY DEF ByDayDays, FirstMatch
<1>2. m \in 1 .. 7 BY DEF FirstMatch
<1>3. count \in 4 .. 5
  <2> HIDE DEF m
  <2> QED BY <1>2
<1>4. ASSUME NEW n \in 0 .. 4, d = m + 7 * n, d \in 1 .. dim
      PROVE  /\ OnWeekday(v, d, first) /\ (d - 1) \div 7 = n
             /\ (d - m) % 7 = 0 /\ count = (dim - d) \div 7 + n + 1
             /\ (dim - d) \div 7 \in 0 .. 4
  <2>1. WeeksAfter(v, d, first, n) BY <1>4 DEF WeeksAfter
  <2>2. /\ OnWeekday(v, d, first) /\ (d - 1) \div 7 = n
        /\ (d - m) % 7 = 0 /\ (dim - m) \div 7 = (dim - d) \div 7 + n
        /\ (dim - d) \div 7 \in 0 .. 4
    <3>1. WeekCounts(v, d, first, dim, n) BY <1>4, <2>1, WeeksFrom
    <3> QED BY <3>1 DEF WeekCounts
  <2> HIDE DEF m
  <2> QED BY <2>2
<1>5. ASSUME d \in 1 .. dim, OnWeekday(v, d, first)
      PROVE  \E n \in 0 .. 4 : d = m + 7 * n
  BY <1>5, WeeksApart DEF WeeksAfter
<1>6. CASE v.ord = 0
  <2>1. ByDayDays(v, first, dim) = {e \in m .. dim : (e - m) % 7 = 0} BY <1>1, <1>6
  <2> HIDE DEF m, count
  <2>2. ASSUME d \in m .. dim, (d - m) % 7 = 0 PROVE WeekdayOn(v, d, first, dim) /\ d \in 1 .. dim
    <3>1. (d - m) \div 7 \in 0 .. 4 /\ d = m + 7 * ((d - m) \div 7) /\ d \in 1 .. dim
      BY <1>2, <2>2
    <3>2. OnWeekday(v, d, first) BY <1>4, <3>1
    <3> QED BY <1>6, <3>1, <3>2 DEF WeekdayOn
  <2>3. ASSUME d \in 1 .. dim, WeekdayOn(v, d, first, dim) PROVE d \in m .. dim /\ (d - m) % 7 = 0
    <3>1. PICK n \in 0 .. 4 : d = m + 7 * n BY <1>5, <2>3 DEF WeekdayOn
    <3> QED BY <1>2, <1>4, <2>3, <3>1
  <2> QED BY <2>1, <2>2, <2>3
<1>7. CASE v.ord > 0
  <2>1. ByDayDays(v, first, dim) = {m + (v.ord - 1) * 7 : n \in {v.ord} \cap 1 .. count}
    BY <1>1, <1>7
  <2>2. d \in ByDayDays(v, first, dim) <=> v.ord \in 1 .. count /\ d = m + (v.ord - 1) * 7
    <3> HIDE DEF m, count
    <3> QED BY <2>1
  <2> HIDE DEF m
  <2>3. ASSUME v.ord \in 1 .. count, d = m + (v.ord - 1) * 7
        PROVE  d \in 1 .. dim /\ WeekdayOn(v, d, first, dim)
    <3>1. v.ord - 1 \in 0 .. 4 /\ d = m + 7 * (v.ord - 1) /\ d \in 1 .. dim
      BY <1>2, <1>3, <2>3
    <3> QED BY <1>4, <3>1 DEF WeekdayOn
  <2>4. ASSUME d \in 1 .. dim, WeekdayOn(v, d, first, dim)
        PROVE  v.ord \in 1 .. count /\ d = m + (v.ord - 1) * 7
    <3>1. PICK n \in 0 .. 4 : d = m + 7 * n BY <1>5, <2>4 DEF WeekdayOn
    <3>2. v.ord = n + 1 BY <1>4, <1>7, <2>4, <3>1 DEF WeekdayOn
    <3>3. count = (dim - d) \div 7 + n + 1 /\ (dim - d) \div 7 \in 0 .. 4 BY <1>4, <2>4, <3>1
    <3> HIDE DEF count
    <3> QED BY <1>2, <3>1, <3>2, <3>3
  <2> QED BY <2>2, <2>3, <2>4
<1>8. CASE v.ord < 0
  <2>1. ByDayDays(v, first, dim) = {m + (count + v.ord) * 7 : n \in {-v.ord} \cap 1 .. count}
    BY <1>1, <1>8
  <2>2. d \in ByDayDays(v, first, dim) <=> -v.ord \in 1 .. count /\ d = m + (count + v.ord) * 7
    <3> HIDE DEF m, count
    <3> QED BY <2>1
  <2> HIDE DEF m
  <2>3. ASSUME -v.ord \in 1 .. count, d = m + (count + v.ord) * 7
        PROVE  d \in 1 .. dim /\ WeekdayOn(v, d, first, dim)
    <3>1. count + v.ord \in 0 .. 4 /\ d = m + 7 * (count + v.ord) /\ d \in 1 .. dim
      BY <1>2, <1>3, <1>8, <2>3
    <3>2. OnWeekday(v, d, first) /\ count = (dim - d) \div 7 + (count + v.ord) + 1
          /\ (dim - d) \div 7 \in 0 .. 4
      BY <1>4, <3>1
    <3>3. v.ord = -((dim - d) \div 7 + 1)
      <4> HIDE DEF count
      <4> QED BY <1>3, <3>2
    <3> QED BY <3>1, <3>2, <3>3 DEF WeekdayOn
  <2>4. ASSUME d \in 1 .. dim, WeekdayOn(v, d, first, dim)
        PROVE  -v.ord \in 1 .. count /\ d = m + (count + v.ord) * 7
    <3>1. PICK n \in 0 .. 4 : d = m + 7 * n BY <1>5, <2>4 DEF WeekdayOn
    <3>2. /\ count = (dim - d) \div 7 + n + 1 /\ (dim - d) \div 7 \in 0 .. 4
          /\ (d - 1) \div 7 = n
      BY <1>4, <2>4, <3>1
    <3>3. v.ord = -((dim - d) \div 7 + 1) BY <1>8, <2>4, <3>2 DEF WeekdayOn
    <3> HIDE DEF count
    <3> QED BY <1>2, <3>1, <3>2, <3>3
  <2> QED BY <2>2, <2>3, <2>4
<1> QED BY <1>6, <1>7, <1>8

(****************************** Rules and dates *****************************)

(* What parse_calendar makes of a string it accepts.                         *)
GoodRule(rule) ==
    /\ rule.freq \in Freqs /\ rule.interval \in 1 .. 99
    /\ rule.bymonth \subseteq 1 .. 12 /\ rule.bymonthday \subseteq (-31 .. 31) \ {0}
    /\ \A v \in rule.byday : /\ v.dow \in 0 .. 6 /\ v.ord \in -5 .. 5
                             /\ rule.freq \notin {"YEARLY", "MONTHLY"} => v.ord = 0
    /\ \A v \in rule.bydate : v.mon \in 1 .. 12 /\ v.mday \in 1 .. 31
    /\ rule.byhour \subseteq 0 .. Hours - 1 /\ rule.byminute \subseteq 0 .. Minutes - 1
    /\ rule.bysecond \subseteq 0 .. Seconds - 1

(* A day of a month satisfies BYMONTHDAY, BYDAY and BYDATE.                  *)
MonthdayMeets(rule, d, dim) ==
    Present(rule.bymonthday) => d \in rule.bymonthday \/ d - dim - 1 \in rule.bymonthday
WeekdayMeets(rule, d, first, dim) ==
    Present(rule.byday) => \E v \in rule.byday : WeekdayOn(v, d, first, dim)
DayMeets(rule, year, mon, d) ==
    LET dim == days_in_month(year, mon)
        first == j2day(date2j(year, mon, 1))
    IN  /\ MonthdayMeets(rule, d, dim) /\ WeekdayMeets(rule, d, first, dim)
        /\ Present(rule.bydate) => bydate_matches(rule, year, mon, d)

(* The days of a month, when none of them is there.                          *)
Falls(rule, d, fallback_mday) ==
    rule.bymonthday = {} /\ rule.byday = {} /\ rule.bydate = {} => d = fallback_mday

(* BYMONTHDAY marks the days it names, from either end of the month.         *)
LEMMA MonthdaysExact ==
    ASSUME NEW rule, GoodRule(rule), NEW dim \in 28 .. 31, NEW d, Present(rule.bymonthday)
    PROVE  d \in {FromMonthEnd(v, dim) : v \in rule.bymonthday} \cap 1 .. dim
             <=> d \in 1 .. dim /\ MonthdayMeets(rule, d, dim)
<1>1. rule.bymonthday \subseteq (-31 .. 31) \ {0} BY DEF GoodRule
<1>2. ASSUME d \in 1 .. dim, NEW v \in rule.bymonthday, d = FromMonthEnd(v, dim)
      PROVE  d = v \/ d - dim - 1 = v
  BY <1>1, <1>2 DEF FromMonthEnd
<1>3. ASSUME d \in 1 .. dim, d \in rule.bymonthday PROVE d = FromMonthEnd(d, dim)
  BY <1>3 DEF FromMonthEnd
<1>4. ASSUME d \in 1 .. dim, d - dim - 1 \in rule.bymonthday
      PROVE  d = FromMonthEnd(d - dim - 1, dim)
  BY <1>4 DEF FromMonthEnd
<1>5. ASSUME d \in 1 .. dim, MonthdayMeets(rule, d, dim)
      PROVE  \E v \in rule.bymonthday : d = FromMonthEnd(v, dim)
  BY <1>3, <1>4, <1>5, Zenon DEF MonthdayMeets
<1>6. ASSUME d \in 1 .. dim, NEW v \in rule.bymonthday, d = FromMonthEnd(v, dim)
      PROVE  MonthdayMeets(rule, d, dim)
  BY <1>2, <1>6, Zenon DEF MonthdayMeets
<1> QED BY <1>5, <1>6, Zenon

(* month_day_list: the days of the month that meet the three clauses.        *)
LEMMA MonthDaysExact ==
    ASSUME NEW rule, GoodRule(rule), NEW year \in Int, NEW mon \in 1 .. 12, NEW fallback_mday,
           NEW d
    PROVE  d \in month_day_list(rule, year, mon, fallback_mday) <=>
             /\ d \in 1 .. days_in_month(year, mon)
             /\ DayMeets(rule, year, mon, d) /\ Falls(rule, d, fallback_mday)
<1> DEFINE dim == days_in_month(year, mon)
           first == j2day(date2j(year, mon, 1))
           Marked ==
            IF Present(rule.bymonthday)
            THEN {e \in {FromMonthEnd(v, dim) : v \in rule.bymonthday} \cap 1 .. dim :
                    Present(rule.byday) =>
                        \E v \in rule.byday : ByDayKeeps(v, e, first, dim)}
            ELSE IF Present(rule.byday)
            THEN UNION {ByDayDays(v, first, dim) : v \in rule.byday}
            ELSE IF Present(rule.bydate)
            THEN {b.mday : b \in {c \in rule.bydate : /\ c.mon = mon /\ c.year \in {0, year}
                                                      /\ c.mday <= dim}}
            ELSE {fallback_mday} \cap 1 .. dim
           filtered == Present(rule.bydate) /\ (Present(rule.bymonthday) \/ Present(rule.byday))
<1>1. month_day_list(rule, year, mon, fallback_mday) =
        {e \in Marked : filtered => bydate_matches(rule, year, mon, e)}
  BY Zenon DEF month_day_list
<1>2. dim \in 28 .. 31 BY MonthLengths
<1>3. first \in 0 .. 6
  <2>1. date2j(year, mon, 1) \in Int
    <3>1. IsDate(year, mon, 1) BY <1>2 DEF IsDate
    <3>2. YearStart(year) \in Int BY YearLength
    <3> QED BY <3>1, <3>2, DateInYear
  <2> QED BY <2>1 DEF j2day
<1>4. \A v \in rule.byday : v.dow \in 0 .. 6 /\ v.ord \in -5 .. 5 BY DEF GoodRule
<1> HIDE DEF dim, first
<1>5. d \in Marked <=>
        /\ d \in 1 .. dim /\ MonthdayMeets(rule, d, dim) /\ WeekdayMeets(rule, d, first, dim)
        /\ Present(rule.bydate) /\ ~filtered => bydate_matches(rule, year, mon, d)
        /\ Falls(rule, d, fallback_mday)
  <2>1. CASE Present(rule.bymonthday)
    <3>1. d \in Marked <=>
            /\ d \in {FromMonthEnd(v, dim) : v \in rule.bymonthday} \cap 1 .. dim
            /\ Present(rule.byday) => \E v \in rule.byday : ByDayKeeps(v, d, first, dim)
      BY <2>1, Zenon
    <3>2. d \in {FromMonthEnd(v, dim) : v \in rule.bymonthday} \cap 1 .. dim
             <=> d \in 1 .. dim /\ MonthdayMeets(rule, d, dim)
      BY <1>2, <2>1, MonthdaysExact, Zenon
    <3>3. ASSUME d \in 1 .. dim
          PROVE  \A v \in rule.byday : ByDayKeeps(v, d, first, dim) <=> WeekdayOn(v, d, first, dim)
      BY <1>2, <1>3, <1>4, <3>3, ByDayKeepsExact
    <3>4. Falls(rule, d, fallback_mday) BY <2>1 DEF Falls, Present
    <3>5. ~(Present(rule.bydate) /\ ~filtered) BY <2>1
    <3> HIDE DEF Marked, filtered
    <3> QED BY <3>1, <3>2, <3>3, <3>4, <3>5, Zenon DEF WeekdayMeets
  <2>2. CASE ~Present(rule.bymonthday) /\ Present(rule.byday)
    <3>1. d \in Marked <=> \E v \in rule.byday : d \in ByDayDays(v, first, dim)
      BY <2>2, Zenon
    <3>2. \A v \in rule.byday :
            d \in ByDayDays(v, first, dim) <=> d \in 1 .. dim /\ WeekdayOn(v, d, first, dim)
      BY <1>2, <1>3, <1>4, ByDayDaysExact
    <3>3. Falls(rule, d, fallback_mday) BY <2>2 DEF Falls, Present
    <3>4. ~(Present(rule.bydate) /\ ~filtered) BY <2>2
    <3>5. MonthdayMeets(rule, d, dim) BY <2>2 DEF MonthdayMeets
    <3> HIDE DEF Marked, filtered
    <3> QED BY <2>2, <3>1, <3>2, <3>3, <3>4, <3>5, Zenon DEF WeekdayMeets
  <2>3. CASE ~Present(rule.bymonthday) /\ ~Present(rule.byday) /\ Present(rule.bydate)
    <3>1. d \in Marked <=> \E c \in rule.bydate : /\ c.mon = mon /\ c.year \in {0, year}
                                                  /\ c.mday <= dim /\ d = c.mday
      BY <2>3, Zenon
    <3>2. Falls(rule, d, fallback_mday) BY <2>3 DEF Falls, Present
    <3>3. \A c \in rule.bydate : c.mday \in 1 .. 31 BY DEF GoodRule
    <3>4. MonthdayMeets(rule, d, dim) /\ WeekdayMeets(rule, d, first, dim)
      BY <2>3 DEF MonthdayMeets, WeekdayMeets
    <3>5. ~filtered BY <2>3
    <3>6. d \in Marked <=> d \in 1 .. dim /\ bydate_matches(rule, year, mon, d)
      <4> HIDE DEF Marked, filtered
      <4> QED BY <1>2, <3>1, <3>3 DEF bydate_matches
    <3> HIDE DEF Marked, filtered
    <3> QED BY <2>3, <3>2, <3>4, <3>5, <3>6, Zenon
  <2>4. CASE ~Present(rule.bymonthday) /\ ~Present(rule.byday) /\ ~Present(rule.bydate)
    <3>1. d \in Marked <=> d = fallback_mday /\ d \in 1 .. dim BY <2>4, Zenon
    <3>2. MonthdayMeets(rule, d, dim) /\ WeekdayMeets(rule, d, first, dim)
      BY <2>4 DEF MonthdayMeets, WeekdayMeets
    <3>3. Falls(rule, d, fallback_mday) <=> d = fallback_mday BY <2>4 DEF Falls, Present
    <3> HIDE DEF Marked, filtered
    <3> QED BY <2>4, <3>1, <3>2, <3>3, Zenon
  <2> QED BY <2>1, <2>2, <2>3, <2>4, Zenon
<1> HIDE DEF Marked
<1> QED BY <1>1, <1>5, Zenon DEF DayMeets, dim, first

(* A date satisfies the BY clauses of a rule.                                *)
DateMeets(rule, jd) ==
    /\ Present(rule.bymonth) => j2date(jd).mon \in rule.bymonth
    /\ DayMeets(rule, j2date(jd).year, j2date(jd).mon, j2date(jd).mday)

(* The weekday of a date, from the weekday its month starts on.              *)
LEMMA WeekdayOfDate ==
    ASSUME NEW year, NEW mon, NEW mday, IsDate(year, mon, mday)
    PROVE  /\ j2day(date2j(year, mon, 1)) \in 0 .. 6
           /\ \A v : OnWeekday(v, mday, j2day(date2j(year, mon, 1)))
                       <=> v.dow = j2day(date2j(year, mon, mday))
<1>1. /\ year \in Int /\ mon \in 1 .. 12 /\ mday \in 1 .. 31 /\ days_in_month(year, mon) \in 28 .. 31
  BY MonthLengths DEF IsDate
<1>2. IsDate(year, mon, 1) BY <1>1 DEF IsDate
<1>3. PICK j \in Int : /\ j = date2j(year, mon, 1) /\ date2j(year, mon, mday) = j + mday - 1
  <2>1. YearStart(year) \in Int BY <1>1, YearLength
  <2>2. date2j(year, mon, 1) = YearStart(year) + MonthStart(year, mon) + 1 - 1
    BY <1>2, DateInYear
  <2>3. date2j(year, mon, mday) = YearStart(year) + MonthStart(year, mon) + mday - 1
        /\ MonthStart(year, mon) \in Int
    BY DateInYear
  <2>4. date2j(year, mon, 1) \in Int
        /\ date2j(year, mon, mday) = date2j(year, mon, 1) + mday - 1
    BY <1>1, <2>1, <2>2, <2>3
  <2> QED BY <2>4
<1>4. j2day(j) \in 0 .. 6 /\ j2day(j + mday - 1) = ((j2day(j) + mday) - 1) % 7
  BY <1>1 DEF j2day
<1> QED BY <1>3, <1>4, Zenon DEF OnWeekday

(* As a filter, date_matches keeps the dates that meet the clauses.  Only    *)
(* frequencies that take no ordinals use it.                                 *)
LEMMA DateMatchesExact ==
    ASSUME NEW rule, GoodRule(rule), rule.freq \notin {"YEARLY", "MONTHLY"}, NEW jd \in Int
    PROVE  date_matches(rule, j2date(jd), j2day(jd)) <=> DateMeets(rule, jd)
<1> DEFINE date == j2date(jd)
           dim == days_in_month(date.year, date.mon)
           first == j2day(date2j(date.year, date.mon, 1))
<1>1. IsDate(date.year, date.mon, date.mday) /\ date2j(date.year, date.mon, date.mday) = jd
  BY DayRoundTrip
<1> HIDE DEF date
<1>2. /\ date.year \in Int /\ date.mon \in 1 .. 12 /\ date.mday \in 1 .. dim /\ dim \in 28 .. 31
  BY <1>1, MonthLengths DEF IsDate
<1>3. \A v : OnWeekday(v, date.mday, first) <=> v.dow = j2day(jd)
  <2>1. \A v : OnWeekday(v, date.mday, first)
                <=> v.dow = j2day(date2j(date.year, date.mon, date.mday))
    BY <1>1, WeekdayOfDate
  <2> QED BY <1>1, <2>1
<1> HIDE DEF dim, first
<1>4. (Present(rule.bymonthday) =>
         date.mday \in {FromMonthEnd(v, dim) : v \in rule.bymonthday})
        <=> MonthdayMeets(rule, date.mday, dim)
  <2>1. CASE Present(rule.bymonthday)
    <3>1. date.mday \in {FromMonthEnd(v, dim) : v \in rule.bymonthday} \cap 1 .. dim
             <=> date.mday \in 1 .. dim /\ MonthdayMeets(rule, date.mday, dim)
      BY <1>2, <2>1, MonthdaysExact, Zenon
    <3> QED BY <1>2, <2>1, <3>1, Zenon
  <2>2. CASE ~Present(rule.bymonthday) BY <2>2, Zenon DEF MonthdayMeets
  <2> QED BY <2>1, <2>2
<1>5. \A v \in rule.byday : v.ord = 0 BY DEF GoodRule
<1>6. \A v \in rule.byday : WeekdayOn(v, date.mday, first, dim) <=> v.dow = j2day(jd)
  BY <1>3, <1>5 DEF WeekdayOn
<1>7. date_matches(rule, date, j2day(jd)) <=>
        /\ Present(rule.bymonth) => date.mon \in rule.bymonth
        /\ Present(rule.bymonthday) =>
              date.mday \in {FromMonthEnd(v, dim) : v \in rule.bymonthday}
        /\ Present(rule.byday) => \E v \in rule.byday : v.dow = j2day(jd)
        /\ Present(rule.bydate) => bydate_matches(rule, date.year, date.mon, date.mday)
  BY Zenon DEF date_matches, dim
<1>8. DateMeets(rule, jd) <=>
        /\ Present(rule.bymonth) => date.mon \in rule.bymonth
        /\ MonthdayMeets(rule, date.mday, dim) /\ WeekdayMeets(rule, date.mday, first, dim)
        /\ Present(rule.bydate) => bydate_matches(rule, date.year, date.mon, date.mday)
  BY Zenon DEF DateMeets, DayMeets, dim, first, date
<1>9. WeekdayMeets(rule, date.mday, first, dim) <=>
        (Present(rule.byday) => \E v \in rule.byday : v.dow = j2day(jd))
  BY <1>6, Zenon DEF WeekdayMeets
<1>10. date_matches(rule, date, j2day(jd)) <=> DateMeets(rule, jd)
  BY <1>4, <1>7, <1>8, <1>9, Zenon
<1> QED BY <1>10 DEF date

(***************************** Strings and rules ****************************)

(* A clause appears once, and has values.                                    *)
LEMMA ValuesOf ==
    ASSUME NEW str, Accepted(str), NEW i \in DOMAIN str
    PROVE  Values(str, str[i].name) = str[i].values
<1>1. {j \in DOMAIN str : str[j].name = str[i].name} = {i}
  BY Zenon DEF Accepted
<1> QED BY <1>1, Zenon DEF Values

(* The clauses that are present are those of the string.                     *)
LEMMA ValuesPresent ==
    ASSUME NEW str, Accepted(str), NEW name
    PROVE  /\ Present(Values(str, name)) <=> name \in Names(str)
           /\ \A v \in Values(str, name) : ValidValue(name, v)
<1>1. ASSUME NEW i \in DOMAIN str, str[i].name = name
      PROVE  Values(str, name) = str[i].values /\ str[i].values # {}
             /\ \A v \in str[i].values : ValidValue(name, v)
  BY <1>1, ValuesOf, Zenon DEF Accepted
<1>2. CASE \E i \in DOMAIN str : str[i].name = name
  BY <1>1, <1>2, Zenon DEF Present, Names
<1>3. CASE ~\E i \in DOMAIN str : str[i].name = name
  <2>1. Values(str, name) = {} BY <1>3, Zenon DEF Values
  <2> QED BY <1>3, <2>1, Zenon DEF Present, Names
<1> QED BY <1>2, <1>3

(* The frequency and the interval of an accepted string.                     *)
LEMMA RuleFreq ==
    ASSUME NEW str, Accepted(str)
    PROVE  /\ Rule(str).freq \in Freqs /\ Values(str, "FREQ") = {Rule(str).freq}
           /\ Rule(str).interval \in 1 .. 99
<1>1. Values(str, "FREQ") \subseteq Freqs BY ValuesPresent DEF ValidValue
<1>2. Values(str, "INTERVAL") \subseteq 1 .. 99 BY ValuesPresent DEF ValidValue
<1>3. \E f : Values(str, "FREQ") = {f}
  <2>1. IsFiniteSet(Freqs)
    <3>1. IsFiniteSet({"YEARLY"}) BY FS_Singleton, Zenon
    <3>2. IsFiniteSet({"YEARLY"} \cup {"MONTHLY"}) BY <3>1, FS_AddElement, Zenon
    <3>3. IsFiniteSet({"YEARLY"} \cup {"MONTHLY"} \cup {"WEEKLY"}) BY <3>2, FS_AddElement, Zenon
    <3>4. IsFiniteSet({"YEARLY"} \cup {"MONTHLY"} \cup {"WEEKLY"} \cup {"DAILY"})
      BY <3>3, FS_AddElement, Zenon
    <3>5. IsFiniteSet({"YEARLY"} \cup {"MONTHLY"} \cup {"WEEKLY"} \cup {"DAILY"} \cup {"HOURLY"})
      BY <3>4, FS_AddElement, Zenon
    <3>6. IsFiniteSet({"YEARLY"} \cup {"MONTHLY"} \cup {"WEEKLY"} \cup {"DAILY"} \cup {"HOURLY"}
                        \cup {"MINUTELY"})
      BY <3>5, FS_AddElement, Zenon
    <3>7. IsFiniteSet({"YEARLY"} \cup {"MONTHLY"} \cup {"WEEKLY"} \cup {"DAILY"} \cup {"HOURLY"}
                        \cup {"MINUTELY"} \cup {"SECONDLY"})
      BY <3>6, FS_AddElement, Zenon
    <3>8. Freqs = {"YEARLY"} \cup {"MONTHLY"} \cup {"WEEKLY"} \cup {"DAILY"} \cup {"HOURLY"}
                        \cup {"MINUTELY"} \cup {"SECONDLY"}
      BY DEF Freqs
    <3> QED BY <3>7, <3>8, Zenon
  <2>2. IsFiniteSet(Values(str, "FREQ")) BY <1>1, <2>1, FS_Subset
  <2>3. Cardinality(Values(str, "FREQ")) = 1 BY Zenon DEF Accepted
  <2> QED BY <2>2, <2>3, FS_Singleton, Zenon
<1>4. Rule(str).freq = (CHOOSE f \in Values(str, "FREQ") : TRUE) BY DEF Rule
<1>5. Rule(str).freq \in Freqs /\ Values(str, "FREQ") = {Rule(str).freq}
  BY <1>1, <1>3, <1>4, Zenon
<1>6. \E n \in Values(str, "INTERVAL") \cup {1} : Values(str, "INTERVAL") \subseteq {n}
  <2>1. IsFiniteSet(Values(str, "INTERVAL"))
    <3>1. 1 \in Int /\ 99 \in Int OBVIOUS
    <3>2. IsFiniteSet(1 .. 99) BY <3>1, FS_Interval, Zenon
    <3> QED BY <1>2, <3>2, FS_Subset, Zenon
  <2>2. Cardinality(Values(str, "INTERVAL")) \in Nat BY <2>1, FS_CardinalityType
  <2>3. Cardinality(Values(str, "INTERVAL")) \in {0, 1} BY <2>2 DEF Accepted
  <2>4. CASE Cardinality(Values(str, "INTERVAL")) = 0
    <3>1. Values(str, "INTERVAL") = {} BY <2>1, <2>4, FS_EmptySet
    <3> QED BY <3>1, Zenon
  <2>5. CASE Cardinality(Values(str, "INTERVAL")) = 1
    <3>1. PICK n : Values(str, "INTERVAL") = {n} BY <2>1, <2>5, FS_Singleton
    <3> QED BY <3>1, Zenon
  <2> QED BY <2>3, <2>4, <2>5
<1>7. Rule(str).interval = CHOOSE n \in Values(str, "INTERVAL") \cup {1} :
                             Values(str, "INTERVAL") \subseteq {n}
  BY DEF Rule
<1>8. Rule(str).interval \in Values(str, "INTERVAL") \cup {1} BY <1>6, <1>7, Zenon
<1>9. Rule(str).interval \in 1 .. 99 BY <1>2, <1>8
<1> QED BY <1>5, <1>9

(* The rule of an accepted string is a good one.                             *)
LEMMA RuleGood ==
    ASSUME NEW str, Accepted(str)
    PROVE  GoodRule(Rule(str))
<1> DEFINE rule == Rule(str)
<1>1. rule.freq \in Freqs /\ rule.interval \in 1 .. 99 BY RuleFreq
<1>2. /\ rule.bymonth = Values(str, "BYMONTH") /\ rule.bymonthday = Values(str, "BYMONTHDAY")
      /\ rule.byday = Values(str, "BYDAY") /\ rule.bydate = Values(str, "BYDATE")
      /\ rule.byhour = Values(str, "BYHOUR") /\ rule.byminute = Values(str, "BYMINUTE")
      /\ rule.bysecond = Values(str, "BYSECOND")
  BY DEF Rule
<1>3. Values(str, "BYMONTH") \subseteq 1 .. 12 BY ValuesPresent DEF ValidValue
<1>4. Values(str, "BYMONTHDAY") \subseteq (-31 .. 31) \ {0} BY ValuesPresent DEF ValidValue
<1>5. \A v \in Values(str, "BYDAY") : v.dow \in 0 .. 6 /\ v.ord \in -5 .. 5
  BY ValuesPresent DEF ValidValue
<1>6. \A v \in Values(str, "BYDATE") : v.mon \in 1 .. 12 /\ v.mday \in 1 .. 31
  <2> SUFFICES ASSUME NEW v \in Values(str, "BYDATE")
               PROVE  v.mon \in 1 .. 12 /\ v.mday \in 1 .. 31
    OBVIOUS
  <2> DEFINE year == IF v.year > 0 THEN v.year ELSE 2000
  <2>1. v.mon \in 1 .. 12 /\ v.mday \in 1 .. days_in_month(year, v.mon)
    BY ValuesPresent DEF ValidValue
  <2> HIDE DEF year
  <2> QED BY <2>1, MonthLengths
<1>7. Values(str, "BYHOUR") \subseteq 0 .. Hours - 1 BY ValuesPresent DEF ValidValue
<1>8. Values(str, "BYMINUTE") \subseteq 0 .. Minutes - 1 BY ValuesPresent DEF ValidValue
<1>9. Values(str, "BYSECOND") \subseteq 0 .. Seconds - 1 BY ValuesPresent DEF ValidValue
<1>10. \A v \in Values(str, "BYDAY") : rule.freq \notin {"YEARLY", "MONTHLY"} => v.ord = 0
  <2>1. Values(str, "FREQ") = {rule.freq} BY RuleFreq
  <2> HIDE DEF rule
  <2> QED BY <2>1 DEF Accepted
<1> HIDE DEF rule
<1>11. GoodRule(rule)
  BY <1>1, <1>2, <1>3, <1>4, <1>5, <1>6, <1>7, <1>8, <1>9, <1>10 DEF GoodRule
<1> QED BY <1>11 DEF rule

(* A time satisfies the BY clauses of a rule.                                *)
TimeMeets(rule, t) ==
    /\ Present(rule.byhour) => HourOf(t) \in rule.byhour
    /\ Present(rule.byminute) => MinuteOf(t) \in rule.byminute
    /\ Present(rule.bysecond) => SecondOf(t) \in rule.bysecond

(* The clauses of a string, by name.                                         *)
ClauseOf(str, name) == [name |-> name, values |-> Values(str, name)]

(* The clause the string has.                                                *)
LEMMA ClauseOfString ==
    ASSUME NEW str, Accepted(str), NEW i \in DOMAIN str
    PROVE  /\ ClauseOf(str, str[i].name).name = str[i].name
           /\ ClauseOf(str, str[i].name).values = str[i].values
BY ValuesOf DEF ClauseOf

(* The date clauses of a string are those of its rule.                       *)
LEMMA ClausesOnDate ==
    ASSUME NEW str, Accepted(str), NEW jd \in Int
    PROVE  (\A i \in DOMAIN str : OnDate(str[i], jd)) <=> DateMeets(Rule(str), jd)
<1> DEFINE rule == Rule(str)
           date == j2date(jd)
           dim == days_in_month(date.year, date.mon)
           first == j2day(date2j(date.year, date.mon, 1))
           Holds(name) == Present(Values(str, name)) => OnDate(ClauseOf(str, name), jd)
<1>1. ASSUME NEW i \in DOMAIN str
      PROVE  OnDate(str[i], jd) <=> OnDate(ClauseOf(str, str[i].name), jd)
  BY ClauseOfString, Zenon DEF OnDate
<1>2. \A name : name \notin {"BYMONTH", "BYMONTHDAY", "BYDAY", "BYDATE"} => Holds(name)
  BY Zenon DEF OnDate, ClauseOf
<1>3. (\A i \in DOMAIN str : OnDate(str[i], jd)) <=> \A name : Holds(name)
  <2>1. ASSUME NEW name PROVE Present(Values(str, name)) <=> name \in Names(str)
    BY ValuesPresent, Zenon
  <2>2. ASSUME \A i \in DOMAIN str : OnDate(str[i], jd), NEW name PROVE Holds(name)
    BY <1>1, <2>1, <2>2, Zenon DEF Names
  <2>3. ASSUME \A name : Holds(name), NEW i \in DOMAIN str PROVE OnDate(str[i], jd)
    BY <1>1, <2>1, <2>3, Zenon DEF Names
  <2> QED BY <2>2, <2>3, Zenon
<1>4. /\ rule.bymonth = Values(str, "BYMONTH") /\ rule.bymonthday = Values(str, "BYMONTHDAY")
      /\ rule.byday = Values(str, "BYDAY") /\ rule.bydate = Values(str, "BYDATE")
  BY DEF Rule
<1>5. OnDate(ClauseOf(str, "BYMONTH"), jd) <=> date.mon \in Values(str, "BYMONTH")
  BY DEF OnDate, ClauseOf
<1>6. OnDate(ClauseOf(str, "BYMONTHDAY"), jd) <=>
        {date.mday, date.mday - dim - 1} \cap Values(str, "BYMONTHDAY") # {}
  BY DEF OnDate, ClauseOf
<1>7. OnDate(ClauseOf(str, "BYDAY"), jd) <=>
        \E v \in Values(str, "BYDAY") :
           v.dow = j2day(jd) /\ v.ord \in {0, (date.mday - 1) \div 7 + 1,
                                           -((dim - date.mday) \div 7 + 1)}
  BY DEF OnDate, ClauseOf
<1>8. OnDate(ClauseOf(str, "BYDATE"), jd) <=>
        \E v \in Values(str, "BYDATE") : /\ v.mon = date.mon /\ v.mday = date.mday
                                         /\ v.year \in {0, date.year}
  BY DEF OnDate, ClauseOf
<1>9. \A v : OnWeekday(v, date.mday, first) <=> v.dow = j2day(jd)
  <2>1. IsDate(date.year, date.mon, date.mday) /\ date2j(date.year, date.mon, date.mday) = jd
    BY DayRoundTrip
  <2> HIDE DEF date
  <2>2. \A v : OnWeekday(v, date.mday, first)
                <=> v.dow = j2day(date2j(date.year, date.mon, date.mday))
    BY <2>1, WeekdayOfDate
  <2> QED BY <2>1, <2>2
<1> HIDE DEF date, dim, first, rule
<1>10. Holds("BYMONTH") <=> (Present(rule.bymonth) => date.mon \in rule.bymonth)
  BY <1>4, <1>5, Zenon
<1>11. Holds("BYMONTHDAY") <=> MonthdayMeets(rule, date.mday, dim)
  <2>1. OnDate(ClauseOf(str, "BYMONTHDAY"), jd) <=>
          date.mday \in rule.bymonthday \/ date.mday - dim - 1 \in rule.bymonthday
    BY <1>4, <1>6, Zenon
  <2> QED BY <1>4, <2>1, Zenon DEF MonthdayMeets
<1>12. Holds("BYDAY") <=> WeekdayMeets(rule, date.mday, first, dim)
  <2>1. OnDate(ClauseOf(str, "BYDAY"), jd) <=>
          \E v \in rule.byday : WeekdayOn(v, date.mday, first, dim)
    BY <1>4, <1>7, <1>9, Zenon DEF WeekdayOn
  <2> QED BY <1>4, <2>1, Zenon DEF WeekdayMeets
<1>13. Holds("BYDATE") <=>
         (Present(rule.bydate) => bydate_matches(rule, date.year, date.mon, date.mday))
  BY <1>4, <1>8, Zenon DEF bydate_matches
<1>14. DateMeets(rule, jd) <=>
        /\ Present(rule.bymonth) => date.mon \in rule.bymonth
        /\ MonthdayMeets(rule, date.mday, dim) /\ WeekdayMeets(rule, date.mday, first, dim)
        /\ Present(rule.bydate) => bydate_matches(rule, date.year, date.mon, date.mday)
  BY Zenon DEF DateMeets, DayMeets, dim, first, date
<1> HIDE DEF Holds
<1>15. (\A name : Holds(name)) <=>
         Holds("BYMONTH") /\ Holds("BYMONTHDAY") /\ Holds("BYDAY") /\ Holds("BYDATE")
  BY <1>2, Zenon
<1> QED BY <1>3, <1>10, <1>11, <1>12, <1>13, <1>14, <1>15, Zenon DEF rule

(* The time clauses of a string are those of its rule.                       *)
LEMMA ClausesAtTime ==
    ASSUME NEW str, Accepted(str), NEW t
    PROVE  (\A i \in DOMAIN str : AtTime(str[i], t)) <=> TimeMeets(Rule(str), t)
<1> DEFINE Holds(name) == Present(Values(str, name)) => AtTime(ClauseOf(str, name), t)
<1>1. ASSUME NEW i \in DOMAIN str
      PROVE  AtTime(str[i], t) <=> AtTime(ClauseOf(str, str[i].name), t)
  BY ClauseOfString, Zenon DEF AtTime
<1>2. \A name : name \notin {"BYHOUR", "BYMINUTE", "BYSECOND"} => Holds(name)
  BY Zenon DEF AtTime, ClauseOf
<1>3. (\A i \in DOMAIN str : AtTime(str[i], t)) <=> \A name : Holds(name)
  <2>1. ASSUME NEW name PROVE Present(Values(str, name)) <=> name \in Names(str)
    BY ValuesPresent, Zenon
  <2>2. ASSUME \A i \in DOMAIN str : AtTime(str[i], t), NEW name PROVE Holds(name)
    BY <1>1, <2>1, <2>2, Zenon DEF Names
  <2>3. ASSUME \A name : Holds(name), NEW i \in DOMAIN str PROVE AtTime(str[i], t)
    BY <1>1, <2>1, <2>3, Zenon DEF Names
  <2> QED BY <2>2, <2>3, Zenon
<1>4. /\ AtTime(ClauseOf(str, "BYHOUR"), t) <=> HourOf(t) \in Values(str, "BYHOUR")
      /\ AtTime(ClauseOf(str, "BYMINUTE"), t) <=> MinuteOf(t) \in Values(str, "BYMINUTE")
      /\ AtTime(ClauseOf(str, "BYSECOND"), t) <=> SecondOf(t) \in Values(str, "BYSECOND")
  BY DEF AtTime, ClauseOf
<1>5. /\ Rule(str).byhour = Values(str, "BYHOUR") /\ Rule(str).byminute = Values(str, "BYMINUTE")
      /\ Rule(str).bysecond = Values(str, "BYSECOND")
  BY DEF Rule
<1>6. Holds("BYHOUR") /\ Holds("BYMINUTE") /\ Holds("BYSECOND") <=> TimeMeets(Rule(str), t)
  BY <1>4, <1>5, Zenon DEF TimeMeets
<1> HIDE DEF Holds
<1>7. (\A name : Holds(name)) <=> Holds("BYHOUR") /\ Holds("BYMINUTE") /\ Holds("BYSECOND")
  BY <1>2, Zenon
<1> QED BY <1>3, <1>6, <1>7, Zenon

(****************************** The candidates ******************************)

(* What the rule checks of a date: the weekly branch leaves out BYMONTHDAY   *)
(* and BYDATE.                                                               *)
DateKept(rule, jd) ==
    IF rule.freq = "WEEKLY"
    THEN /\ Present(rule.bymonth) => j2date(jd).mon \in rule.bymonth
         /\ Present(rule.byday) => \E v \in rule.byday : v.dow = j2day(jd)
    ELSE DateMeets(rule, jd)

(* What it takes from the anchor.                                            *)
DateTaken(rule, anchor, jd) ==
    /\ rule.freq = "YEARLY" /\ rule.bymonth = {} /\ rule.bydate = {} =>
          j2date(jd).mon = j2date(DayOf(anchor)).mon
    /\ rule.freq \in {"YEARLY", "MONTHLY"} =>
          Falls(rule, j2date(jd).mday, j2date(DayOf(anchor)).mday)
    /\ rule.freq = "WEEKLY" /\ rule.byday = {} => j2day(jd) = j2day(DayOf(anchor))

(* The years, months, weeks or days from the anchor to a date.               *)
DatePeriod(rule, anchor, jd) ==
    CASE rule.freq = "YEARLY" -> j2date(jd).year - j2date(DayOf(anchor)).year
      [] rule.freq = "MONTHLY" ->
            (j2date(jd).year - j2date(DayOf(anchor)).year) * 12
               + j2date(jd).mon - j2date(DayOf(anchor)).mon
      [] rule.freq = "WEEKLY" -> (jd - DayOf(anchor)) \div 7
      [] rule.freq = "DAILY" -> jd - DayOf(anchor)

DateFits(rule, anchor, jd) == DateKept(rule, jd) /\ DateTaken(rule, anchor, jd)

(* The day number of a date.                                                 *)
LEMMA DayNumber ==
    ASSUME NEW year, NEW mon, NEW mday, IsDate(year, mon, mday)
    PROVE  date2j(year, mon, mday) \in Int
<1>1. /\ date2j(year, mon, mday) = YearStart(year) + MonthStart(year, mon) + mday - 1
      /\ MonthStart(year, mon) \in Int
  BY DateInYear
<1>2. YearStart(year) \in Int /\ mday \in Int
  <2>1. year \in Int /\ mon \in 1 .. 12 /\ mday \in 1 .. days_in_month(year, mon)
    BY DEF IsDate
  <2>2. days_in_month(year, mon) \in 28 .. 31
    BY <2>1, MonthLengths
  <2> QED BY <2>1, <2>2, YearLength
<1> QED BY <1>1, <1>2

(* The parts of the date of a day.                                           *)
LEMMA DateParts ==
    ASSUME NEW jd \in Int
    PROVE  j2date(jd).year \in Int /\ j2date(jd).mon \in 1 .. 12 /\ j2date(jd).mday \in 1 .. 31
<1>1. /\ j2date(jd).year \in Int /\ j2date(jd).mon \in 1 .. 12
      /\ j2date(jd).mday \in 1 .. days_in_month(j2date(jd).year, j2date(jd).mon)
  BY DayRoundTrip DEF IsDate
<1>2. days_in_month(j2date(jd).year, j2date(jd).mon) \in 28 .. 31
  BY <1>1, MonthLengths
<1> QED BY <1>1, <1>2

(* The dates that month_day_list gives, and what they are.                   *)
DatesInMonth(rule, year, mon, fallback_mday) ==
    {date2j(year, mon, d) : d \in month_day_list(rule, year, mon, fallback_mday)}
InMonth(rule, year, mon, fallback_mday, jd) ==
    /\ jd \in Int /\ j2date(jd).year = year /\ j2date(jd).mon = mon
    /\ DayMeets(rule, year, mon, j2date(jd).mday)
    /\ Falls(rule, j2date(jd).mday, fallback_mday)

(* month_day_list gives the days that satisfy the clauses.                   *)
LEMMA MonthDates ==
    ASSUME NEW rule, GoodRule(rule), NEW year \in Int, NEW mon \in 1 .. 12, NEW fallback_mday,
           NEW jd
    PROVE  jd \in DatesInMonth(rule, year, mon, fallback_mday) <=>
             InMonth(rule, year, mon, fallback_mday, jd)
<1>1. ASSUME NEW d \in month_day_list(rule, year, mon, fallback_mday), jd = date2j(year, mon, d)
      PROVE  /\ jd \in Int /\ j2date(jd).year = year /\ j2date(jd).mon = mon
             /\ DayMeets(rule, year, mon, j2date(jd).mday)
             /\ Falls(rule, j2date(jd).mday, fallback_mday)
  <2>1. /\ d \in 1 .. days_in_month(year, mon)
        /\ DayMeets(rule, year, mon, d) /\ Falls(rule, d, fallback_mday)
    BY MonthDaysExact, Zenon
  <2>2. IsDate(year, mon, d)
    BY <2>1, Zenon DEF IsDate
  <2>3. j2date(jd) = [year |-> year, mon |-> mon, mday |-> d] /\ jd \in Int
    BY <1>1, <2>2, DateRoundTrip, DayNumber
  <2> QED BY <2>1, <2>3
<1>2. ASSUME jd \in Int, j2date(jd).year = year, j2date(jd).mon = mon,
             DayMeets(rule, year, mon, j2date(jd).mday),
             Falls(rule, j2date(jd).mday, fallback_mday)
      PROVE  \E d \in month_day_list(rule, year, mon, fallback_mday) : jd = date2j(year, mon, d)
  <2>1. /\ j2date(jd).mday \in 1 .. days_in_month(year, mon)
        /\ date2j(year, mon, j2date(jd).mday) = jd
    BY <1>2, DayRoundTrip DEF IsDate
  <2>2. j2date(jd).mday \in month_day_list(rule, year, mon, fallback_mday)
    BY <1>2, <2>1, MonthDaysExact, Zenon
  <2> QED BY <2>1, <2>2, Zenon
<1> QED BY <1>1, <1>2, Zenon DEF DatesInMonth, InMonth

(* The dates of a year.                                                      *)
LEMMA DatesYearly ==
    ASSUME NEW rule, GoodRule(rule), rule.freq = "YEARLY", NEW anchor \in Int, NEW k \in Int, NEW jd
    PROVE  jd \in DatesOf(rule, anchor, k) <=>
             jd \in Int /\ DateFits(rule, anchor, jd)
             /\ DatePeriod(rule, anchor, jd) = k * rule.interval
<1> DEFINE from == j2date(DayOf(anchor))
           year == from.year + k * rule.interval
           mons == IF Present(rule.bymonth) THEN rule.bymonth
                   ELSE IF Present(rule.bydate) THEN 1 .. 12 ELSE {from.mon}
           Has(mon) == jd \in DatesInMonth(rule, year, mon, from.mday)
<1>1. /\ rule.interval \in Int /\ rule.bymonth \subseteq 1 .. 12 /\ from.mon \in 1 .. 12
      /\ from.year \in Int
  <2>1. DayOf(anchor) \in Int
    BY ClockRanges
  <2>2. from.mon \in 1 .. 12 /\ from.year \in Int
    BY <2>1, DateParts
  <2>3. rule.interval \in 1 .. 99 /\ rule.bymonth \subseteq 1 .. 12
    BY DEF GoodRule
  <2> QED BY <2>2, <2>3
<1>2. jd \in DatesOf(rule, anchor, k) <=> \E mon \in mons : Has(mon)
  BY ZenonT(30) DEF DatesOf, DatesInMonth
<1>3. DatePeriod(rule, anchor, jd) = j2date(jd).year - from.year
  BY DEF DatePeriod
<1>4. DateFits(rule, anchor, jd) <=>
        /\ Present(rule.bymonth) => j2date(jd).mon \in rule.bymonth
        /\ DayMeets(rule, j2date(jd).year, j2date(jd).mon, j2date(jd).mday)
        /\ rule.bymonth = {} /\ rule.bydate = {} => j2date(jd).mon = from.mon
        /\ Falls(rule, j2date(jd).mday, from.mday)
  BY DEF DateFits, DateKept, DateMeets, DateTaken
<1>5. mons \subseteq 1 .. 12 /\ year \in Int
  BY <1>1
<1> HIDE DEF from
<1>6. ASSUME NEW mon \in mons
      PROVE  Has(mon) <=>
             /\ jd \in Int /\ j2date(jd).year = year /\ j2date(jd).mon = mon
             /\ DayMeets(rule, year, mon, j2date(jd).mday)
             /\ Falls(rule, j2date(jd).mday, from.mday)
  <2>1. mon \in 1 .. 12
    BY <1>5
  <2> HIDE DEF year, mons
  <2> QED BY <1>5, <2>1, MonthDates DEF InMonth
<1> HIDE DEF Has
<1>7. jd \in Int => (j2date(jd).year - from.year = k * rule.interval <=> j2date(jd).year = year)
  BY <1>1, DateParts
<1>8. jd \in Int => j2date(jd).mon \in 1 .. 12
  BY DateParts
<1> HIDE DEF year
<1>9. j2date(jd).mon \in mons <=>
        /\ Present(rule.bymonth) => j2date(jd).mon \in rule.bymonth
        /\ rule.bymonth = {} /\ rule.bydate = {} => j2date(jd).mon = from.mon
        /\ rule.bymonth = {} /\ rule.bydate # {} => j2date(jd).mon \in 1 .. 12
  BY Zenon DEF Present
<1> HIDE DEF mons
<1> QED BY <1>2, <1>3, <1>4, <1>6, <1>7, <1>8, <1>9, Zenon

(* The dates of a month.                                                     *)
LEMMA DatesMonthly ==
    ASSUME NEW rule, GoodRule(rule), rule.freq = "MONTHLY", NEW anchor \in Int, NEW k \in Int,
           NEW jd
    PROVE  jd \in DatesOf(rule, anchor, k) <=>
             jd \in Int /\ DateFits(rule, anchor, jd)
             /\ DatePeriod(rule, anchor, jd) = k * rule.interval
<1> DEFINE from == j2date(DayOf(anchor))
           mindex == from.year * 12 + (from.mon - 1) + k * rule.interval
           year == mindex \div 12
           mon == (mindex % 12) + 1
           Has == jd \in DatesInMonth(rule, year, mon, from.mday)
<1>1. /\ rule.interval \in Int /\ rule.bymonth \subseteq 1 .. 12 /\ from.mon \in 1 .. 12
      /\ from.year \in Int
  <2>1. DayOf(anchor) \in Int
    BY ClockRanges
  <2>2. from.mon \in 1 .. 12 /\ from.year \in Int
    BY <2>1, DateParts
  <2>3. rule.interval \in 1 .. 99 /\ rule.bymonth \subseteq 1 .. 12
    BY DEF GoodRule
  <2> QED BY <2>2, <2>3
<1>2. jd \in DatesOf(rule, anchor, k) <=>
        ~(Present(rule.bymonth) /\ mon \notin rule.bymonth) /\ Has
  BY DEF DatesOf, DatesInMonth
<1>3. DatePeriod(rule, anchor, jd) =
        (j2date(jd).year - from.year) * 12 + j2date(jd).mon - from.mon
  BY DEF DatePeriod
<1>4. DateFits(rule, anchor, jd) <=>
        /\ Present(rule.bymonth) => j2date(jd).mon \in rule.bymonth
        /\ DayMeets(rule, j2date(jd).year, j2date(jd).mon, j2date(jd).mday)
        /\ Falls(rule, j2date(jd).mday, from.mday)
  BY DEF DateFits, DateKept, DateMeets, DateTaken
<1> HIDE DEF from
<1>5. PICK e \in Int : e = k * rule.interval
  BY <1>1
<1>6. year \in Int /\ mon \in 1 .. 12
  <2>1. mindex \in Int
    BY <1>1, <1>5
  <2> HIDE DEF mindex
  <2> QED BY <2>1
<1>7. Has <=>
             /\ jd \in Int /\ j2date(jd).year = year /\ j2date(jd).mon = mon
             /\ DayMeets(rule, year, mon, j2date(jd).mday)
             /\ Falls(rule, j2date(jd).mday, from.mday)
  <2> HIDE DEF year, mon
  <2> QED BY <1>6, MonthDates DEF InMonth
<1> HIDE DEF Has
<1>8. jd \in Int => ((j2date(jd).year - from.year) * 12 + j2date(jd).mon - from.mon = k * rule.interval
                      <=> j2date(jd).year = year /\ j2date(jd).mon = mon)
  <2> SUFFICES ASSUME jd \in Int
               PROVE  (j2date(jd).year - from.year) * 12 + j2date(jd).mon - from.mon = e
                        <=> j2date(jd).year = year /\ j2date(jd).mon = mon
    BY <1>5
  <2>1. j2date(jd).year \in Int /\ j2date(jd).mon \in 1 .. 12
    BY DateParts
  <2>2. mindex = from.year * 12 + (from.mon - 1) + e
    BY <1>5
  <2>3. PICK i \in Int : i = mindex
    BY <1>1, <2>2
  <2>4. PICK z \in Int : z = from.year
    BY <1>1
  <2>5. PICK n \in 1 .. 12 : n = from.mon
    BY <1>1
  <2>6. PICK y \in Int : y = j2date(jd).year
    BY <2>1
  <2>7. PICK m \in 1 .. 12 : m = j2date(jd).mon
    BY <2>1
  <2>8. (y - z) * 12 + m - n = e <=> y = i \div 12 /\ m = (i % 12) + 1
    <3>1. i = z * 12 + (n - 1) + e
      BY <2>2, <2>3, <2>4, <2>5
    <3> QED BY <3>1
  <2> HIDE DEF mindex
  <2> QED BY <2>3, <2>4, <2>5, <2>6, <2>7, <2>8
<1> HIDE DEF year, mon
<1> QED BY <1>2, <1>3, <1>4, <1>7, <1>8, Zenon

(* The dates of a week.                                                      *)
LEMMA DatesWeekly ==
    ASSUME NEW rule, GoodRule(rule), rule.freq = "WEEKLY", NEW anchor \in Int, NEW k \in Int,
           NEW jd
    PROVE  jd \in DatesOf(rule, anchor, k) <=>
             jd \in Int /\ DateFits(rule, anchor, jd)
             /\ DatePeriod(rule, anchor, jd) = k * rule.interval
<1>1. PICK a \in Int : a = DayOf(anchor)
  BY ClockRanges
<1>2. PICK e \in Int : e = k * rule.interval
  BY DEF GoodRule
<1>3. jd \in DatesOf(rule, anchor, k) <=>
        /\ jd \in a + e * 7 .. a + e * 7 + 6
        /\ IF Present(rule.byday) THEN \E v \in rule.byday : v.dow = j2day(jd) ELSE jd = a + e * 7
        /\ Present(rule.bymonth) => j2date(jd).mon \in rule.bymonth
  <2>1. k * rule.interval * 7 = e * 7
    BY <1>2
  <2> QED BY <1>1, <2>1 DEF DatesOf
<1>4. DatePeriod(rule, anchor, jd) = (jd - a) \div 7
  BY <1>1 DEF DatePeriod
<1>5. DateFits(rule, anchor, jd) <=>
        /\ Present(rule.bymonth) => j2date(jd).mon \in rule.bymonth
        /\ Present(rule.byday) => \E v \in rule.byday : v.dow = j2day(jd)
        /\ rule.byday = {} => j2day(jd) = j2day(a)
  BY <1>1 DEF DateFits, DateKept, DateTaken
<1>6. jd \in a + e * 7 .. a + e * 7 + 6 <=> jd \in Int /\ (jd - a) \div 7 = e
  <2>1. PICK b \in Int : b = a + e * 7
    OBVIOUS
  <2>2. jd \in Int => ((jd - a) \div 7 = e <=> b <= jd /\ jd <= b + 6)
    BY <2>1
  <2> QED BY <2>1, <2>2
<1>7. ASSUME jd \in Int, (jd - a) \div 7 = e
      PROVE  jd = a + e * 7 <=> j2day(jd) = j2day(a)
  BY <1>7 DEF j2day
<1>8. Present(rule.byday) <=> rule.byday # {}
  BY DEF Present
<1> QED BY <1>2, <1>3, <1>4, <1>5, <1>6, <1>7, <1>8

(* The date of a day.                                                        *)
LEMMA DatesDaily ==
    ASSUME NEW rule, GoodRule(rule), rule.freq = "DAILY", NEW anchor \in Int, NEW k \in Int,
           NEW jd
    PROVE  jd \in DatesOf(rule, anchor, k) <=>
             jd \in Int /\ DateFits(rule, anchor, jd)
             /\ DatePeriod(rule, anchor, jd) = k * rule.interval
<1>1. DayOf(anchor) \in Int /\ k * rule.interval \in Int
  <2>1. rule.interval \in Int
    BY DEF GoodRule
  <2> QED BY <2>1, ClockRanges
<1>2. jd \in DatesOf(rule, anchor, k) <=>
        /\ jd = DayOf(anchor) + k * rule.interval
        /\ date_matches(rule, j2date(jd), j2day(jd))
  BY DEF DatesOf
<1>3. DatePeriod(rule, anchor, jd) = jd - DayOf(anchor)
  BY DEF DatePeriod
<1>4. DateFits(rule, anchor, jd) <=> DateMeets(rule, jd)
  BY DEF DateFits, DateKept, DateTaken
<1>5. jd \in Int => (date_matches(rule, j2date(jd), j2day(jd)) <=> DateMeets(rule, jd))
  BY DateMatchesExact
<1> QED BY <1>1, <1>2, <1>3, <1>4, <1>5

(* The dates of a period are those that fit, so many periods from the anchor.*)
LEMMA DatesExact ==
    ASSUME NEW rule, GoodRule(rule), NEW anchor \in Int, NEW k \in Int, NEW jd,
           rule.freq \in {"YEARLY", "MONTHLY", "WEEKLY", "DAILY"}
    PROVE  jd \in DatesOf(rule, anchor, k) <=>
             jd \in Int /\ DateFits(rule, anchor, jd)
             /\ DatePeriod(rule, anchor, jd) = k * rule.interval
BY DatesYearly, DatesMonthly, DatesWeekly, DatesDaily, ZenonT(30)

(* What a rule takes from the anchor for the time of day.                    *)
TimeTaken(rule, anchor, t) ==
    /\ rule.freq \in {"YEARLY", "MONTHLY", "WEEKLY", "DAILY"} /\ rule.byhour = {} =>
          HourOf(t) = HourOf(anchor)
    /\ rule.freq \notin {"MINUTELY", "SECONDLY"} /\ rule.byminute = {} =>
          MinuteOf(t) = MinuteOf(anchor)
    /\ rule.freq # "SECONDLY" /\ rule.bysecond = {} => SecondOf(t) = SecondOf(anchor)

(* The hours, minutes or seconds from the anchor to a time.                  *)
TimePeriod(rule, anchor, t) ==
    CASE rule.freq = "HOURLY" -> (t \div HourTicks) - (anchor \div HourTicks)
      [] rule.freq = "MINUTELY" -> (t \div MinuteTicks) - (anchor \div MinuteTicks)
      [] rule.freq = "SECONDLY" -> (t \div Ticks) - (anchor \div Ticks)

(* The times made of given hours, minutes and seconds.                       *)
Grid(jd, hours, minutes, seconds) ==
    {At(jd, h, m, s) : h \in hours, m \in minutes, s \in seconds}
OnGrid(t, jd, hours, minutes, seconds) ==
    /\ t \in Int /\ t % Ticks = 0 /\ DayOf(t) = jd
    /\ HourOf(t) \in hours /\ MinuteOf(t) \in minutes /\ SecondOf(t) \in seconds

(* A time is on the grid when its parts are.                                 *)
LEMMA GridExact ==
    ASSUME NEW jd \in Int, NEW hours \in SUBSET (0 .. Hours - 1),
           NEW minutes \in SUBSET (0 .. Minutes - 1), NEW seconds \in SUBSET (0 .. Seconds - 1), NEW t
    PROVE  t \in Grid(jd, hours, minutes, seconds) <=> OnGrid(t, jd, hours, minutes, seconds)
<1>1. ASSUME NEW h \in hours, NEW m \in minutes, NEW s \in seconds, t = At(jd, h, m, s)
      PROVE  OnGrid(t, jd, hours, minutes, seconds)
  <2>1. h \in 0 .. Hours - 1 /\ m \in 0 .. Minutes - 1 /\ s \in 0 .. Seconds - 1
    BY <1>1, Zenon
  <2> HIDE <1>1
  <2>2. /\ At(jd, h, m, s) \in Int /\ At(jd, h, m, s) % Ticks = 0
        /\ DayOf(At(jd, h, m, s)) = jd /\ HourOf(At(jd, h, m, s)) = h
        /\ MinuteOf(At(jd, h, m, s)) = m /\ SecondOf(At(jd, h, m, s)) = s
    BY <2>1, ClockJoin
  <2> QED BY <1>1, <2>2, Zenon DEF OnGrid
<1>2. ASSUME OnGrid(t, jd, hours, minutes, seconds)
      PROVE  t = At(jd, HourOf(t), MinuteOf(t), SecondOf(t))
  BY <1>2, ClockSplit, Zenon DEF OnGrid
<1>3. ASSUME OnGrid(t, jd, hours, minutes, seconds)
      PROVE  t \in Grid(jd, hours, minutes, seconds)
  <2>1. HourOf(t) \in hours /\ MinuteOf(t) \in minutes /\ SecondOf(t) \in seconds
    BY <1>3, Zenon DEF OnGrid
  <2>2. \E h \in hours, m \in minutes, s \in seconds : t = At(jd, h, m, s)
    BY <1>2, <1>3, <2>1, Zenon
  <2> QED BY <2>2 DEF Grid
<1>4. ASSUME t \in Grid(jd, hours, minutes, seconds)
      PROVE  OnGrid(t, jd, hours, minutes, seconds)
  BY <1>1, <1>4 DEF Grid
<1> QED BY <1>3, <1>4

(* A step of whole units moves the quotient by as many.                      *)
LEMMA StepUnits ==
    ASSUME NEW a \in Int, NEW n \in Int, NEW u \in Nat \ {0}
    PROVE  a + n * u \in Int /\ (a + n * u) \div u = a \div u + n
<1>1. PICK q \in Int : q = a \div u
  BY Division
<1>2. PICK r \in 0 .. u - 1 : r = a % u
  BY Division
<1>3. a = u * q + r
  BY <1>1, <1>2, Division
<1>4. a + n * u = u * (q + n) + r
  BY <1>3
<1>5. (u * (q + n) + r) \div u = q + n
  <2>1. PICK p \in Int : p = q + n
    OBVIOUS
  <2>2. (u * p + r) \div u = p
    BY DivisionUnique
  <2> QED BY <2>1, <2>2
<1> QED BY <1>1, <1>4, <1>5

(* Quotient and remainder determine the number.                              *)
LEMMA DivisionInjective ==
    ASSUME NEW a \in Int, NEW b \in Int, NEW n \in Nat \ {0}
    PROVE  a \div n = b \div n /\ a % n = b % n <=> a = b
<1>1. a = n * (a \div n) + (a % n) /\ b = n * (b \div n) + (b % n)
  BY Division
<1> QED BY <1>1

(* Times in the same hour, minute and second.                                *)
LEMMA SameUnits ==
    ASSUME NEW t \in Int, NEW b \in Int
    PROVE  /\ t \div HourTicks = b \div HourTicks <=>
                DayOf(t) = DayOf(b) /\ HourOf(t) = HourOf(b)
           /\ t \div MinuteTicks = b \div MinuteTicks <=>
                DayOf(t) = DayOf(b) /\ HourOf(t) = HourOf(b) /\ MinuteOf(t) = MinuteOf(b)
           /\ t \div Ticks = b \div Ticks <=>
                /\ DayOf(t) = DayOf(b) /\ HourOf(t) = HourOf(b)
                /\ MinuteOf(t) = MinuteOf(b) /\ SecondOf(t) = SecondOf(b)
<1>1. /\ t \div HourTicks \in Int /\ b \div HourTicks \in Int /\ t \div MinuteTicks \in Int
      /\ b \div MinuteTicks \in Int /\ t \div Ticks \in Int /\ b \div Ticks \in Int
      /\ Hours \in Nat \ {0} /\ Minutes \in Nat \ {0} /\ Seconds \in Nat \ {0}
  BY ClockRanges, ClockUnits, Zenon
<1>2. t \div HourTicks = b \div HourTicks <=> DayOf(t) = DayOf(b) /\ HourOf(t) = HourOf(b)
  BY <1>1, ClockParts, DivisionInjective
<1>3. t \div MinuteTicks = b \div MinuteTicks <=>
        t \div HourTicks = b \div HourTicks /\ MinuteOf(t) = MinuteOf(b)
  BY <1>1, ClockParts, DivisionInjective
<1>4. t \div Ticks = b \div Ticks <=>
        t \div MinuteTicks = b \div MinuteTicks /\ SecondOf(t) = SecondOf(b)
  BY <1>1, ClockParts, DivisionInjective
<1> QED BY <1>2, <1>3, <1>4, Zenon

(* set_to_list                                                               *)
Listed(set, value) == IF Present(set) THEN set ELSE {value}

(* The hours, minutes and seconds that scan_times_on_date goes through.      *)
LEMMA TimesOnGrid ==
    ASSUME NEW rule, NEW anchor, NEW jd, NEW fixed
    PROVE  TimesOn(rule, anchor, jd, fixed) =
             Grid(jd, IF "hour" \in DOMAIN fixed THEN {fixed.hour}
                      ELSE Listed(rule.byhour, HourOf(anchor)),
                  IF "minute" \in DOMAIN fixed THEN {fixed.minute}
                  ELSE Listed(rule.byminute, MinuteOf(anchor)),
                  Listed(rule.bysecond, SecondOf(anchor)))
BY DEF TimesOn, Grid, Listed

(* They are in range.                                                        *)
LEMMA ListedRanges ==
    ASSUME NEW rule, GoodRule(rule), NEW anchor \in Int
    PROVE  /\ Listed(rule.byhour, HourOf(anchor)) \in SUBSET (0 .. Hours - 1)
           /\ Listed(rule.byminute, MinuteOf(anchor)) \in SUBSET (0 .. Minutes - 1)
           /\ Listed(rule.bysecond, SecondOf(anchor)) \in SUBSET (0 .. Seconds - 1)
<1>1. /\ HourOf(anchor) \in 0 .. Hours - 1 /\ MinuteOf(anchor) \in 0 .. Minutes - 1
      /\ SecondOf(anchor) \in 0 .. Seconds - 1
  BY ClockRanges, Zenon
<1>2. /\ rule.byhour \subseteq 0 .. Hours - 1 /\ rule.byminute \subseteq 0 .. Minutes - 1
      /\ rule.bysecond \subseteq 0 .. Seconds - 1
  BY DEF GoodRule
<1> QED BY <1>1, <1>2, Zenon DEF Listed

(* What it means for a value to be listed.                                   *)
LEMMA ListedExact ==
    ASSUME NEW set, NEW value, NEW x
    PROVE  x \in Listed(set, value) <=>
             (Present(set) => x \in set) /\ (set = {} => x = value)
BY DEF Listed, Present

(* The times of a date.                                                      *)
LEMMA TimesOfDate ==
    ASSUME NEW rule, GoodRule(rule), rule.freq \in {"YEARLY", "MONTHLY", "WEEKLY", "DAILY"},
           NEW anchor \in Int, NEW jd \in Int, NEW t
    PROVE  t \in TimesOn(rule, anchor, jd, <<>>) <=>
             t \in Int /\ t % Ticks = 0 /\ DayOf(t) = jd /\ TimeMeets(rule, t)
             /\ TimeTaken(rule, anchor, t)
<1> DEFINE hours == Listed(rule.byhour, HourOf(anchor))
           minutes == Listed(rule.byminute, MinuteOf(anchor))
           seconds == Listed(rule.bysecond, SecondOf(anchor))
<1>1. t \in TimesOn(rule, anchor, jd, <<>>) <=> t \in Grid(jd, hours, minutes, seconds)
  <2>1. "hour" \notin DOMAIN <<>> /\ "minute" \notin DOMAIN <<>>
    OBVIOUS
  <2> QED BY <2>1, TimesOnGrid, Zenon
<1>2. /\ hours \in SUBSET (0 .. Hours - 1) /\ minutes \in SUBSET (0 .. Minutes - 1)
      /\ seconds \in SUBSET (0 .. Seconds - 1)
  BY ListedRanges, Zenon
<1>3. /\ HourOf(t) \in hours <=> (Present(rule.byhour) => HourOf(t) \in rule.byhour)
                                  /\ (rule.byhour = {} => HourOf(t) = HourOf(anchor))
      /\ MinuteOf(t) \in minutes <=> (Present(rule.byminute) => MinuteOf(t) \in rule.byminute)
                                  /\ (rule.byminute = {} => MinuteOf(t) = MinuteOf(anchor))
      /\ SecondOf(t) \in seconds <=> (Present(rule.bysecond) => SecondOf(t) \in rule.bysecond)
                                  /\ (rule.bysecond = {} => SecondOf(t) = SecondOf(anchor))
  BY ListedExact, Zenon
<1> HIDE DEF hours, minutes, seconds
<1>4. t \in Grid(jd, hours, minutes, seconds) <=> OnGrid(t, jd, hours, minutes, seconds)
  BY <1>2, GridExact
<1>5. TimeTaken(rule, anchor, t) <=>
        /\ rule.byhour = {} => HourOf(t) = HourOf(anchor)
        /\ rule.byminute = {} => MinuteOf(t) = MinuteOf(anchor)
        /\ rule.bysecond = {} => SecondOf(t) = SecondOf(anchor)
  BY DEF TimeTaken
<1> QED BY <1>1, <1>3, <1>4, <1>5, Zenon DEF OnGrid, TimeMeets

(* A period of hours or less starts so many units from the anchor.           *)
LEMMA BaseUnits ==
    ASSUME NEW rule, GoodRule(rule), NEW anchor \in Int, NEW k \in Int, NEW u \in Nat \ {0},
           Step(rule) = rule.interval * u
    PROVE  /\ anchor + k * Step(rule) \in Int /\ k * rule.interval \in Int
           /\ (anchor + k * Step(rule)) \div u = anchor \div u + k * rule.interval
<1>1. PICK i \in Int : i = rule.interval
  BY DEF GoodRule
<1>2. PICK n \in Int : n = k * i
  OBVIOUS
<1>3. k * (i * u) = n * u
  <2>1. k * (i * u) = (k * i) * u
    OBVIOUS
  <2> QED BY <1>2, <2>1, Zenon
<1>4. anchor + n * u \in Int /\ (anchor + n * u) \div u = anchor \div u + n
  BY StepUnits, Zenon
<1> QED BY <1>1, <1>2, <1>3, <1>4

(* The times of an hour.                                                     *)
LEMMA TimesHourly ==
    ASSUME NEW rule, GoodRule(rule), rule.freq = "HOURLY", NEW anchor \in Int, NEW k \in Int, NEW t
    PROVE  t \in TimesOf(rule, anchor, k) <=>
             /\ t \in Int /\ t % Ticks = 0 /\ DateMeets(rule, DayOf(t)) /\ TimeMeets(rule, t)
             /\ TimeTaken(rule, anchor, t) /\ TimePeriod(rule, anchor, t) = k * rule.interval
<1>1. /\ anchor + k * Step(rule) \in Int /\ k * rule.interval \in Int
      /\ (anchor + k * Step(rule)) \div HourTicks = anchor \div HourTicks + k * rule.interval
  <2>1. Step(rule) = rule.interval * HourTicks
    BY DEF Step
  <2> QED BY <2>1, ClockUnits, BaseUnits, Zenon
<1>2. PICK base \in Int : base = anchor + k * Step(rule)
  BY <1>1
<1> DEFINE minutes == Listed(rule.byminute, MinuteOf(anchor))
           seconds == Listed(rule.bysecond, SecondOf(anchor))
           fixed == [hour |-> HourOf(base)]
<1>3. t \in TimesOf(rule, anchor, k) <=>
        /\ date_matches(rule, j2date(DayOf(base)), j2day(DayOf(base)))
        /\ Present(rule.byhour) => HourOf(base) \in rule.byhour
        /\ t \in TimesOn(rule, anchor, DayOf(base), fixed)
  BY <1>2 DEF TimesOf
<1>4. TimesOn(rule, anchor, DayOf(base), fixed) =
        Grid(DayOf(base), {HourOf(base)}, minutes, seconds)
  <2>1. "hour" \in DOMAIN fixed /\ "minute" \notin DOMAIN fixed /\ fixed.hour = HourOf(base)
    OBVIOUS
  <2> HIDE DEF fixed
  <2> QED BY <2>1, TimesOnGrid, Zenon
<1>5. /\ {HourOf(base)} \in SUBSET (0 .. Hours - 1) /\ minutes \in SUBSET (0 .. Minutes - 1)
      /\ seconds \in SUBSET (0 .. Seconds - 1) /\ DayOf(base) \in Int
  <2>1. /\ HourOf(base) \in 0 .. Hours - 1 /\ MinuteOf(base) \in 0 .. Minutes - 1
        /\ DayOf(base) \in Int
    BY ClockRanges
  <2>2. minutes \in SUBSET (0 .. Minutes - 1) /\ seconds \in SUBSET (0 .. Seconds - 1)
    BY ListedRanges, Zenon
  <2> QED BY <2>1, <2>2
<1>6. /\ MinuteOf(t) \in minutes <=> (Present(rule.byminute) => MinuteOf(t) \in rule.byminute)
                                  /\ (rule.byminute = {} => MinuteOf(t) = MinuteOf(anchor))
      /\ SecondOf(t) \in seconds <=> (Present(rule.bysecond) => SecondOf(t) \in rule.bysecond)
                                  /\ (rule.bysecond = {} => SecondOf(t) = SecondOf(anchor))
  BY ListedExact, Zenon
<1> HIDE DEF minutes, seconds, fixed
<1>7. t \in Grid(DayOf(base), {HourOf(base)}, minutes, seconds) <=>
        OnGrid(t, DayOf(base), {HourOf(base)}, minutes, seconds)
  BY <1>5, GridExact
<1>8. date_matches(rule, j2date(DayOf(base)), j2day(DayOf(base))) <=> DateMeets(rule, DayOf(base))
  BY <1>5, DateMatchesExact
<1>9. TimeTaken(rule, anchor, t) <=>
        /\ rule.byminute = {} => MinuteOf(t) = MinuteOf(anchor)
        /\ rule.bysecond = {} => SecondOf(t) = SecondOf(anchor)
  BY DEF TimeTaken
<1>10. t \in Int => (TimePeriod(rule, anchor, t) = k * rule.interval <=>
                      DayOf(t) = DayOf(base) /\ HourOf(t) = HourOf(base))
  <2> SUFFICES ASSUME t \in Int PROVE TimePeriod(rule, anchor, t) = k * rule.interval <=>
                      t \div HourTicks = base \div HourTicks
    BY SameUnits, Zenon
  <2>1. TimePeriod(rule, anchor, t) = (t \div HourTicks) - (anchor \div HourTicks)
    BY DEF TimePeriod
  <2>2. t \div HourTicks \in Int /\ anchor \div HourTicks \in Int
    BY ClockRanges
  <2> QED BY <1>1, <1>2, <2>1, <2>2
<1> QED BY <1>3, <1>4, <1>6, <1>7, <1>8, <1>9, <1>10, Zenon DEF OnGrid, TimeMeets

(* The times of a minute.                                                    *)
LEMMA TimesMinutely ==
    ASSUME NEW rule, GoodRule(rule), rule.freq = "MINUTELY", NEW anchor \in Int, NEW k \in Int,
           NEW t
    PROVE  t \in TimesOf(rule, anchor, k) <=>
             /\ t \in Int /\ t % Ticks = 0 /\ DateMeets(rule, DayOf(t)) /\ TimeMeets(rule, t)
             /\ TimeTaken(rule, anchor, t) /\ TimePeriod(rule, anchor, t) = k * rule.interval
<1>1. /\ anchor + k * Step(rule) \in Int /\ k * rule.interval \in Int
      /\ (anchor + k * Step(rule)) \div MinuteTicks = anchor \div MinuteTicks + k * rule.interval
  <2>1. Step(rule) = rule.interval * MinuteTicks
    BY DEF Step
  <2> QED BY <2>1, ClockUnits, BaseUnits, Zenon
<1>2. PICK base \in Int : base = anchor + k * Step(rule)
  BY <1>1
<1> DEFINE seconds == Listed(rule.bysecond, SecondOf(anchor))
           fixed == [hour |-> HourOf(base), minute |-> MinuteOf(base)]
<1>3. t \in TimesOf(rule, anchor, k) <=>
        /\ date_matches(rule, j2date(DayOf(base)), j2day(DayOf(base)))
        /\ Present(rule.byhour) => HourOf(base) \in rule.byhour
        /\ Present(rule.byminute) => MinuteOf(base) \in rule.byminute
        /\ t \in TimesOn(rule, anchor, DayOf(base), fixed)
  BY <1>2 DEF TimesOf
<1>4. TimesOn(rule, anchor, DayOf(base), fixed) =
        Grid(DayOf(base), {HourOf(base)}, {MinuteOf(base)}, seconds)
  <2>1. /\ "hour" \in DOMAIN fixed /\ fixed.hour = HourOf(base)
        /\ "minute" \in DOMAIN fixed /\ fixed.minute = MinuteOf(base)
    OBVIOUS
  <2> HIDE DEF fixed
  <2> QED BY <2>1, TimesOnGrid, Zenon
<1>5. /\ {HourOf(base)} \in SUBSET (0 .. Hours - 1) /\ {MinuteOf(base)} \in SUBSET (0 .. Minutes - 1)
      /\ seconds \in SUBSET (0 .. Seconds - 1) /\ DayOf(base) \in Int
  <2>1. /\ HourOf(base) \in 0 .. Hours - 1 /\ MinuteOf(base) \in 0 .. Minutes - 1
        /\ DayOf(base) \in Int
    BY ClockRanges
  <2>2. seconds \in SUBSET (0 .. Seconds - 1)
    BY ListedRanges, Zenon
  <2> QED BY <2>1, <2>2
<1>6. SecondOf(t) \in seconds <=> (Present(rule.bysecond) => SecondOf(t) \in rule.bysecond)
                                  /\ (rule.bysecond = {} => SecondOf(t) = SecondOf(anchor))
  BY ListedExact, Zenon
<1> HIDE DEF seconds, fixed
<1>7. t \in Grid(DayOf(base), {HourOf(base)}, {MinuteOf(base)}, seconds) <=>
        OnGrid(t, DayOf(base), {HourOf(base)}, {MinuteOf(base)}, seconds)
  BY <1>5, GridExact
<1>8. date_matches(rule, j2date(DayOf(base)), j2day(DayOf(base))) <=> DateMeets(rule, DayOf(base))
  BY <1>5, DateMatchesExact
<1>9. TimeTaken(rule, anchor, t) <=> (rule.bysecond = {} => SecondOf(t) = SecondOf(anchor))
  BY DEF TimeTaken
<1>10. t \in Int => (TimePeriod(rule, anchor, t) = k * rule.interval <=>
                      /\ DayOf(t) = DayOf(base) /\ HourOf(t) = HourOf(base)
                      /\ MinuteOf(t) = MinuteOf(base))
  <2> SUFFICES ASSUME t \in Int PROVE TimePeriod(rule, anchor, t) = k * rule.interval <=>
                      t \div MinuteTicks = base \div MinuteTicks
    BY SameUnits, Zenon
  <2>1. TimePeriod(rule, anchor, t) = (t \div MinuteTicks) - (anchor \div MinuteTicks)
    BY DEF TimePeriod
  <2>2. t \div MinuteTicks \in Int /\ anchor \div MinuteTicks \in Int
    BY ClockRanges
  <2> QED BY <1>1, <1>2, <2>1, <2>2
<1> QED BY <1>3, <1>4, <1>6, <1>7, <1>8, <1>9, <1>10, Zenon DEF OnGrid, TimeMeets

(* The time of a second.                                                     *)
LEMMA TimesSecondly ==
    ASSUME NEW rule, GoodRule(rule), rule.freq = "SECONDLY", NEW anchor \in Int, NEW k \in Int,
           NEW t
    PROVE  t \in TimesOf(rule, anchor, k) <=>
             /\ t \in Int /\ t % Ticks = 0 /\ DateMeets(rule, DayOf(t)) /\ TimeMeets(rule, t)
             /\ TimeTaken(rule, anchor, t) /\ TimePeriod(rule, anchor, t) = k * rule.interval
<1>1. /\ anchor + k * Step(rule) \in Int /\ k * rule.interval \in Int
      /\ (anchor + k * Step(rule)) \div Ticks = anchor \div Ticks + k * rule.interval
  <2>1. Step(rule) = rule.interval * Ticks
    BY DEF Step
  <2> QED BY <2>1, ClockUnits, BaseUnits, Zenon
<1>2. PICK base \in Int : base = anchor + k * Step(rule)
  BY <1>1
<1>3. t \in TimesOf(rule, anchor, k) <=>
        /\ date_matches(rule, j2date(DayOf(base)), j2day(DayOf(base)))
        /\ Present(rule.byhour) => HourOf(base) \in rule.byhour
        /\ Present(rule.byminute) => MinuteOf(base) \in rule.byminute
        /\ Present(rule.bysecond) => SecondOf(base) \in rule.bysecond
        /\ t = base - (base % Ticks)
  BY <1>2 DEF TimesOf
<1>4. t = base - (base % Ticks) <=> t \in Int /\ t % Ticks = 0 /\ t \div Ticks = base \div Ticks
  <2>1. PICK q \in Int : q = base \div Ticks
    BY ClockRanges
  <2>2. Ticks \in Nat \ {0}
    BY ClockUnits
  <2>3. base - (base % Ticks) = Ticks * q
    BY <2>1, <2>2, Division
  <2>4. (Ticks * q) % Ticks = 0 /\ (Ticks * q) \div Ticks = q
    <3>1. (Ticks * q + 0) \div Ticks = q /\ (Ticks * q + 0) % Ticks = 0
      BY <2>2, DivisionUnique
    <3>2. Ticks * q + 0 = Ticks * q
      BY <2>2
    <3> QED BY <3>1, <3>2
  <2>5. t \in Int => t = Ticks * (t \div Ticks) + (t % Ticks)
    BY <2>2, Division
  <2>6. Ticks * q \in Int
    BY <2>2
  <2>7. ASSUME t \in Int, t % Ticks = 0, t \div Ticks = q PROVE t = Ticks * q
    BY <2>5, <2>6, <2>7
  <2> QED BY <2>1, <2>3, <2>4, <2>6, <2>7
<1>5. DayOf(base) \in Int
  BY ClockRanges
<1>8. date_matches(rule, j2date(DayOf(base)), j2day(DayOf(base))) <=> DateMeets(rule, DayOf(base))
  BY <1>5, DateMatchesExact
<1>9. TimeTaken(rule, anchor, t)
  BY DEF TimeTaken
<1>10. t \in Int => (TimePeriod(rule, anchor, t) = k * rule.interval <=>
                      t \div Ticks = base \div Ticks)
  <2> SUFFICES ASSUME t \in Int PROVE TimePeriod(rule, anchor, t) = k * rule.interval <=>
                      t \div Ticks = base \div Ticks
    OBVIOUS
  <2>1. TimePeriod(rule, anchor, t) = (t \div Ticks) - (anchor \div Ticks)
    BY DEF TimePeriod
  <2>2. t \div Ticks \in Int /\ anchor \div Ticks \in Int
    BY ClockRanges
  <2> QED BY <1>1, <1>2, <2>1, <2>2
<1>11. t \in Int => (t \div Ticks = base \div Ticks <=>
                      /\ DayOf(t) = DayOf(base) /\ HourOf(t) = HourOf(base)
                      /\ MinuteOf(t) = MinuteOf(base) /\ SecondOf(t) = SecondOf(base))
  BY SameUnits, Zenon
<1> QED BY <1>3, <1>4, <1>8, <1>9, <1>10, <1>11, Zenon DEF TimeMeets

Shorter == {"HOURLY", "MINUTELY", "SECONDLY"}
Longer == {"YEARLY", "MONTHLY", "WEEKLY", "DAILY"}

(* What a rule asks of a candidate, and the periods from the anchor to it.   *)
Fits(rule, anchor, t) ==
    /\ t \in Int /\ t % Ticks = 0 /\ DateFits(rule, anchor, DayOf(t))
    /\ TimeMeets(rule, t) /\ TimeTaken(rule, anchor, t)
Period(rule, anchor, t) ==
    IF rule.freq \in Shorter THEN TimePeriod(rule, anchor, t)
    ELSE DatePeriod(rule, anchor, DayOf(t))

(* The candidates of a period are the times that fit and lie in it.          *)
THEOREM CandidatesExact ==
    ASSUME NEW rule, GoodRule(rule), NEW anchor \in Int, NEW k \in Int, NEW t
    PROVE  t \in Candidates(rule, anchor, k) <=>
             Fits(rule, anchor, t) /\ Period(rule, anchor, t) = k * rule.interval
<1>1. CASE rule.freq \in Shorter
  <2>1. t \in Candidates(rule, anchor, k) <=> t \in TimesOf(rule, anchor, k)
    BY <1>1 DEF Candidates, Shorter
  <2>2. t \in TimesOf(rule, anchor, k) <=>
          /\ t \in Int /\ t % Ticks = 0 /\ DateMeets(rule, DayOf(t)) /\ TimeMeets(rule, t)
          /\ TimeTaken(rule, anchor, t) /\ TimePeriod(rule, anchor, t) = k * rule.interval
    BY <1>1, TimesHourly, TimesMinutely, TimesSecondly, ZenonT(30) DEF Shorter
  <2>3. DateFits(rule, anchor, DayOf(t)) <=> DateMeets(rule, DayOf(t))
    BY <1>1 DEF DateFits, DateKept, DateTaken, Shorter
  <2> QED BY <1>1, <2>1, <2>2, <2>3, Zenon DEF Fits, Period
<1>2. CASE rule.freq \in Longer
  <2>1. rule.freq \notin Shorter
    BY <1>2 DEF Longer, Shorter
  <2>0. rule.freq \in {"YEARLY", "MONTHLY", "WEEKLY", "DAILY"}
    BY <1>2 DEF Longer
  <2>2. t \in Candidates(rule, anchor, k) <=>
          \E jd \in DatesOf(rule, anchor, k) : t \in TimesOn(rule, anchor, jd, <<>>)
    BY <2>1, Zenon DEF Candidates, Shorter
  <2>3. ASSUME NEW jd \in DatesOf(rule, anchor, k), t \in TimesOn(rule, anchor, jd, <<>>)
        PROVE  Fits(rule, anchor, t) /\ DatePeriod(rule, anchor, DayOf(t)) = k * rule.interval
    <3>1. /\ jd \in Int /\ DateFits(rule, anchor, jd)
          /\ DatePeriod(rule, anchor, jd) = k * rule.interval
      BY <2>0, DatesExact
    <3>2. /\ t \in Int /\ t % Ticks = 0 /\ DayOf(t) = jd /\ TimeMeets(rule, t)
          /\ TimeTaken(rule, anchor, t)
      BY <2>0, <2>3, <3>1, TimesOfDate, Zenon
    <3> QED BY <3>1, <3>2, Zenon DEF Fits
  <2>4. ASSUME Fits(rule, anchor, t), DatePeriod(rule, anchor, DayOf(t)) = k * rule.interval
        PROVE  /\ DayOf(t) \in DatesOf(rule, anchor, k)
               /\ t \in TimesOn(rule, anchor, DayOf(t), <<>>)
    <3>1. t \in Int /\ DayOf(t) \in Int
      BY <2>4, ClockRanges, Zenon DEF Fits
    <3>2. DayOf(t) \in DatesOf(rule, anchor, k)
      BY <2>0, <2>4, <3>1, DatesExact DEF Fits
    <3>3. t \in TimesOn(rule, anchor, DayOf(t), <<>>)
      BY <2>0, <2>4, <3>1, TimesOfDate, Zenon DEF Fits
    <3> QED BY <3>2, <3>3
  <2> QED BY <2>1, <2>2, <2>3, <2>4, Zenon DEF Period
<1>3. rule.freq \in Shorter \/ rule.freq \in Longer
  BY DEF GoodRule, Freqs, Shorter, Longer
<1> QED BY <1>1, <1>2, <1>3

(* What the string takes from the anchor is what its rule does.              *)
LEMMA StringTaken ==
    ASSUME NEW str, Accepted(str), NEW anchor, NEW t, NEW jd
    PROVE  /\ DateInherited(str, anchor, jd) <=> DateTaken(Rule(str), anchor, jd)
           /\ TimeInherited(str, anchor, t) <=> TimeTaken(Rule(str), anchor, t)
<1> DEFINE rule == Rule(str)
<1>1. \A name : name \notin Names(str) <=> Values(str, name) = {}
  BY ValuesPresent, Zenon DEF Present
<1>2. /\ rule.bymonth = Values(str, "BYMONTH") /\ rule.bymonthday = Values(str, "BYMONTHDAY")
      /\ rule.byday = Values(str, "BYDAY") /\ rule.bydate = Values(str, "BYDATE")
      /\ rule.byhour = Values(str, "BYHOUR") /\ rule.byminute = Values(str, "BYMINUTE")
      /\ rule.bysecond = Values(str, "BYSECOND")
  BY DEF Rule
<1> HIDE DEF rule
<1>3. /\ Names(str) \cap {"BYMONTH", "BYDATE"} = {} <=> rule.bymonth = {} /\ rule.bydate = {}
      /\ Names(str) \cap {"BYMONTHDAY", "BYDAY", "BYDATE"} = {} <=>
            rule.bymonthday = {} /\ rule.byday = {} /\ rule.bydate = {}
      /\ Names(str) \cap {"BYDAY"} = {} <=> rule.byday = {}
  BY <1>1, <1>2
<1>4. /\ "BYHOUR" \notin Names(str) <=> rule.byhour = {}
      /\ "BYMINUTE" \notin Names(str) <=> rule.byminute = {}
      /\ "BYSECOND" \notin Names(str) <=> rule.bysecond = {}
  BY <1>1, <1>2
<1>5. Freq(str) = rule.freq
  BY DEF Freq, rule
<1>6. DateInherited(str, anchor, jd) <=> DateTaken(rule, anchor, jd)
  BY <1>3, <1>5, Zenon DEF DateInherited, DateTaken, Falls
<1>7. TimeInherited(str, anchor, t) <=> TimeTaken(rule, anchor, t)
  BY <1>4, <1>5, Zenon DEF TimeInherited, TimeTaken
<1> QED BY <1>6, <1>7 DEF rule

(* A rule of which every BY clause on dates is applied: one that is not      *)
(* weekly, or has neither BYMONTHDAY nor BYDATE.                             *)
DatesApplied(rule) == rule.freq = "WEEKLY" => rule.bymonthday = {} /\ rule.bydate = {}

(* What is kept has satisfied the clauses that are applied.                  *)
LEMMA KeptMeets ==
    ASSUME NEW rule, GoodRule(rule), NEW jd \in Int
    PROVE  /\ DateMeets(rule, jd) => DateKept(rule, jd)
           /\ DatesApplied(rule) /\ DateKept(rule, jd) => DateMeets(rule, jd)
<1> DEFINE date == j2date(jd)
           dim == days_in_month(date.year, date.mon)
           first == j2day(date2j(date.year, date.mon, 1))
<1>1. CASE rule.freq = "WEEKLY"
  <2>1. IsDate(date.year, date.mon, date.mday) /\ date2j(date.year, date.mon, date.mday) = jd
    BY DayRoundTrip
  <2>2. \A v : OnWeekday(v, date.mday, first) <=> v.dow = j2day(jd)
    <3> HIDE DEF date
    <3>1. \A v : OnWeekday(v, date.mday, first)
                  <=> v.dow = j2day(date2j(date.year, date.mon, date.mday))
      BY <2>1, WeekdayOfDate
    <3> QED BY <2>1, <3>1
  <2>3. \A v \in rule.byday : v.ord = 0
    BY <1>1 DEF GoodRule
  <2>4. DateKept(rule, jd) <=>
          /\ Present(rule.bymonth) => date.mon \in rule.bymonth
          /\ Present(rule.byday) => \E v \in rule.byday : v.dow = j2day(jd)
    BY <1>1, Zenon DEF DateKept
  <2>5. DateMeets(rule, jd) <=>
          /\ Present(rule.bymonth) => date.mon \in rule.bymonth
          /\ MonthdayMeets(rule, date.mday, dim) /\ WeekdayMeets(rule, date.mday, first, dim)
          /\ Present(rule.bydate) => bydate_matches(rule, date.year, date.mon, date.mday)
    BY Zenon DEF DateMeets, DayMeets
  <2> HIDE DEF date, dim, first
  <2>6. WeekdayMeets(rule, date.mday, first, dim) <=>
          (Present(rule.byday) => \E v \in rule.byday : v.dow = j2day(jd))
    <3>1. \A v \in rule.byday : WeekdayOn(v, date.mday, first, dim) <=> v.dow = j2day(jd)
      BY <2>2, <2>3 DEF WeekdayOn
    <3> QED BY <3>1, Zenon DEF WeekdayMeets
  <2>7. rule.bymonthday = {} => MonthdayMeets(rule, date.mday, dim)
    BY Zenon DEF MonthdayMeets, Present
  <2> QED BY <1>1, <2>4, <2>5, <2>6, <2>7, Zenon DEF DatesApplied, Present
<1>2. CASE rule.freq # "WEEKLY"
  BY <1>2, Zenon DEF DateKept
<1> QED BY <1>1, <1>2

(* A period is a number of units.                                            *)
LEMMA PeriodInt ==
    ASSUME NEW rule, GoodRule(rule), NEW anchor \in Int, NEW t \in Int
    PROVE  Period(rule, anchor, t) \in Int
<1>1. DayOf(t) \in Int /\ DayOf(anchor) \in Int
  BY ClockRanges
<1>2. /\ t \div HourTicks \in Int /\ t \div MinuteTicks \in Int /\ t \div Ticks \in Int
      /\ anchor \div HourTicks \in Int /\ anchor \div MinuteTicks \in Int /\ anchor \div Ticks \in Int
  BY ClockRanges
<1>3. /\ j2date(DayOf(t)).year \in Int /\ j2date(DayOf(t)).mon \in Int
      /\ j2date(DayOf(anchor)).year \in Int /\ j2date(DayOf(anchor)).mon \in Int
  <2>1. \A jd \in Int : j2date(jd).year \in Int /\ j2date(jd).mon \in 1 .. 12
    BY DateParts
  <2> QED BY <1>1, <2>1
<1>4. rule.freq \in Freqs
  BY DEF GoodRule
<1> QED BY <1>1, <1>2, <1>3, <1>4 DEF Period, TimePeriod, DatePeriod, Shorter, Freqs

(* "Anchored at start_date": the period is a multiple of the interval.       *)
LEMMA StringAnchored ==
    ASSUME NEW str, Accepted(str), NEW anchor \in Int, NEW t \in Int
    PROVE  DateAnchored(str, anchor, DayOf(t)) /\ TimeAnchored(str, anchor, t) <=>
             \E k \in Int : Period(Rule(str), anchor, t) = k * Rule(str).interval
<1> DEFINE rule == Rule(str)
           n == rule.interval
           p == Period(rule, anchor, t)
<1>1. GoodRule(rule)
  BY RuleGood
<1>2. rule.freq \in Freqs /\ n \in Nat \ {0}
  BY <1>1 DEF GoodRule
<1>3. p \in Int
  BY <1>1, PeriodInt
<1>4. 0 = p % n <=> \E k \in Int : p = k * n
  <2> HIDE DEF p, n
  <2> QED BY <1>2, <1>3, Multiple, Zenon
<1>5. 0 = 0 % n
  BY <1>2
<1>6. Freq(str) = rule.freq
  BY DEF Freq
<1>7. CASE rule.freq \in Shorter
  <2>1. DateAnchored(str, anchor, DayOf(t)) <=> 0 = 0 % n
    BY <1>6, <1>7 DEF DateAnchored, Shorter
  <2>2. TimeAnchored(str, anchor, t) <=> 0 = TimePeriod(rule, anchor, t) % n
    BY <1>6, <1>7 DEF TimeAnchored, TimePeriod, Shorter
  <2>3. p = TimePeriod(rule, anchor, t)
    BY <1>7 DEF Period
  <2> QED BY <1>4, <1>5, <2>1, <2>2, <2>3
<1>8. CASE rule.freq \in Longer
  <2>1. TimeAnchored(str, anchor, t) <=> 0 = 0 % n
    BY <1>6, <1>8 DEF TimeAnchored, Longer
  <2>2. DateAnchored(str, anchor, DayOf(t)) <=> 0 = DatePeriod(rule, anchor, DayOf(t)) % n
    BY <1>6, <1>8 DEF DateAnchored, DatePeriod, Longer
  <2>3. p = DatePeriod(rule, anchor, DayOf(t))
    BY <1>8 DEF Period, Shorter, Longer
  <2> QED BY <1>4, <1>5, <2>1, <2>2, <2>3
<1> QED BY <1>2, <1>7, <1>8 DEF Freqs, Shorter, Longer

(* What the string names, in terms of its rule.                              *)
LEMMA MatchesFit ==
    ASSUME NEW str, Accepted(str), NEW anchor \in Int, NEW t \in Int
    PROVE  LET rule == Rule(str)
               Matches == DateMatches(str, anchor, DayOf(t)) /\ TimeMatches(str, anchor, t)
               InPeriod == \E k \in Int : Period(rule, anchor, t) = k * rule.interval
           IN  /\ Matches => t >= anchor /\ Fits(rule, anchor, t) /\ InPeriod
               /\ DatesApplied(rule) =>
                     (t >= anchor /\ Fits(rule, anchor, t) /\ InPeriod => Matches)
<1> DEFINE rule == Rule(str)
           jd == DayOf(t)
           InPeriod == \E k \in Int : Period(rule, anchor, t) = k * rule.interval
<1>1. jd \in Int /\ GoodRule(rule)
  BY ClockRanges, RuleGood
<1>2. (\A i \in DOMAIN str : OnDate(str[i], jd)) <=> DateMeets(rule, jd)
  BY <1>1, ClausesOnDate, Zenon
<1>3. (\A i \in DOMAIN str : AtTime(str[i], t)) <=> TimeMeets(rule, t)
  BY ClausesAtTime, Zenon
<1>4. /\ DateInherited(str, anchor, jd) <=> DateTaken(rule, anchor, jd)
      /\ TimeInherited(str, anchor, t) <=> TimeTaken(rule, anchor, t)
  BY StringTaken, Zenon
<1>5. DateAnchored(str, anchor, jd) /\ TimeAnchored(str, anchor, t) <=> InPeriod
  BY StringAnchored, Zenon
<1>6. /\ DateMeets(rule, jd) => DateKept(rule, jd)
      /\ DatesApplied(rule) /\ DateKept(rule, jd) => DateMeets(rule, jd)
  BY <1>1, KeptMeets, Zenon
<1> HIDE DEF rule, jd, InPeriod
<1>7. DateMatches(str, anchor, jd) /\ TimeMatches(str, anchor, t) <=>
        /\ t >= anchor /\ t % Ticks = 0 /\ DateTaken(rule, anchor, jd) /\ TimeTaken(rule, anchor, t)
        /\ InPeriod /\ DateMeets(rule, jd) /\ TimeMeets(rule, t)
  BY <1>2, <1>3, <1>4, <1>5, Zenon DEF DateMatches, TimeMatches
<1>8. Fits(rule, anchor, t) <=>
        /\ t % Ticks = 0 /\ DateKept(rule, jd) /\ DateTaken(rule, anchor, jd)
        /\ TimeMeets(rule, t) /\ TimeTaken(rule, anchor, t)
  BY Zenon DEF Fits, DateFits, jd
<1> QED BY <1>6, <1>7, <1>8, Zenon DEF rule, jd, InPeriod

(******************************** The search ********************************)

(* A set of numbers that is not empty has a least one.                       *)
LEMMA LeastNumber ==
    ASSUME NEW T \in SUBSET Nat, T # {}
    PROVE  \E j \in T : \A k \in T : j <= k
<1>1. \E j \in T : \A k \in T : ~(<<k, j>> \in OpToRel(<, Nat))
  BY NatLessThanWellFounded, WFMin, Zenon
<1>2. PICK j \in T : \A k \in T : ~(k < j)
  BY <1>1, Zenon DEF OpToRel
<1> QED BY <1>2

(* So has one of integers above a bound.                                     *)
LEMMA LeastAbove ==
    ASSUME NEW S \in SUBSET Int, S # {}, NEW b \in Int, \A c \in S : c > b
    PROVE  Min(S) \in S /\ \A c \in S : Min(S) <= c
<1> DEFINE T == {c - b : c \in S}
<1>1. T \in SUBSET Nat /\ T # {}
  <2>1. \A c \in S : c - b \in Nat
    OBVIOUS
  <2> QED BY <2>1, Zenon
<1>2. \E j \in T : \A k \in T : j <= k
  <2> HIDE DEF T
  <2> QED BY <1>1, LeastNumber
<1>3. PICK j \in T : \A k \in T : j <= k
  BY <1>2
<1>4. PICK c \in S : j = c - b
  OBVIOUS
<1>5. \A d \in S : c <= d
  <2> SUFFICES ASSUME NEW d \in S PROVE c <= d
    OBVIOUS
  <2>1. d - b \in T
    OBVIOUS
  <2>2. j <= d - b
    BY <1>3, <2>1
  <2> QED BY <1>4, <2>2
<1>6. \E x \in S : \A y \in S : x =< y
  BY <1>5
<1> QED BY <1>6, Zenon DEF Min

(* The period a search starts with is a number of periods.                   *)
LEMMA FastForwardNat ==
    ASSUME NEW rule, GoodRule(rule), NEW anchor \in Int, NEW t \in Int
    PROVE  FastForward(rule, anchor, t) \in Nat
<1>1. PICK n \in 1 .. 99 : n = rule.interval
  BY DEF GoodRule
<1>2. PICK days \in Int : days = (t - anchor) \div DayTicks
  BY ClockUnits, Division
<1>3. /\ (days \div 366) \div n \in Int /\ (days \div 32) \div n \in Int
      /\ days \div (7 * n) \in Int /\ days \div n \in Int
  <2>1. days \div 366 \in Int /\ days \div 32 \in Int /\ 7 * n \in Nat \ {0} /\ n \in Nat \ {0}
    OBVIOUS
  <2>2. \A a \in Int, m \in Nat \ {0} : a \div m \in Int
    BY Division
  <2> QED BY <2>1, <2>2, ZenonT(30)
<1>4. rule.freq \in Shorter => (t - anchor) \div Step(rule) \in Int
  <2>1. ASSUME NEW u \in Nat \ {0} PROVE (t - anchor) \div (n * u) \in Int
    BY n * u \in Nat \ {0}, t - anchor \in Int, Division
  <2>2. HourTicks \in Nat \ {0} /\ MinuteTicks \in Nat \ {0} /\ Ticks \in Nat \ {0}
    BY ClockUnits
  <2>3. rule.freq \in Shorter => Step(rule) \in {n * HourTicks, n * MinuteTicks, n * Ticks}
    BY <1>1 DEF Step, Shorter
  <2> QED BY <2>1, <2>2, <2>3
<1>5. rule.freq \in Freqs
  BY DEF GoodRule
<1>6. CASE rule.freq \in Shorter
  BY <1>4, <1>6 DEF FastForward, Shorter
<1>7. CASE rule.freq \in Longer
  BY <1>1, <1>2, <1>3, <1>7 DEF FastForward, Longer
<1> QED BY <1>5, <1>6, <1>7 DEF Freqs, Shorter, Longer

(* What consider_candidate takes of a period.                                *)
TakenIn(rule, anchor, t, k) == {c \in Candidates(rule, anchor, k) : c > t /\ c >= anchor}

(* What was found, and in which period.                                      *)
FoundIn(rule, anchor, t, r, k) ==
    /\ k \in Int /\ k >= FastForward(rule, anchor, t)
    /\ r \in TakenIn(rule, anchor, t, k) /\ \A c \in TakenIn(rule, anchor, t, k) : r <= c
    /\ \A j \in FastForward(rule, anchor, t) .. k - 1 : TakenIn(rule, anchor, t, j) = {}

(* eval_calendar gives the earliest candidate of the first period that has   *)
(* one, and has none only if no period has.                                  *)
LEMMA EvalExact ==
    ASSUME NEW rule, GoodRule(rule), NEW anchor \in Int, NEW t \in Int,
           NEW r, r = eval_calendar(rule, anchor, t)
    PROVE  LET k0 == FastForward(rule, anchor, t)
           IN  \/ r \in Int /\ \E k : FoundIn(rule, anchor, t, r, k)
               \/ r = Never /\ \A k \in k0 .. k0 + MaxPeriods - 1 : TakenIn(rule, anchor, t, k) = {}
<1>1. PICK k0 \in Nat : k0 = FastForward(rule, anchor, t)
  BY FastForwardNat
<1>2. MaxPeriods \in Nat
  BY CalendarAssumption
<1> DEFINE K == k0 .. k0 + MaxPeriods - 1
           First == CHOOSE k \in K : TakenIn(rule, anchor, t, k) # {}
                                     /\ \A j \in k0 .. k - 1 : TakenIn(rule, anchor, t, j) = {}
<1>3. r = IF \E k \in K : TakenIn(rule, anchor, t, k) # {} THEN Min(TakenIn(rule, anchor, t, First))
          ELSE Never
  BY <1>1 DEF eval_calendar, TakenIn
<1>4. CASE \A k \in K : TakenIn(rule, anchor, t, k) = {}
  BY <1>1, <1>3, <1>4
<1>5. CASE \E k \in K : TakenIn(rule, anchor, t, k) # {}
  <2> DEFINE Some == {k \in K : TakenIn(rule, anchor, t, k) # {}}
  <2>1. Some \in SUBSET Nat /\ Some # {}
    BY <1>5
  <2>2. \E j \in Some : \A k \in Some : j <= k
    <3> HIDE DEF Some
    <3> QED BY <2>1, LeastNumber
  <2>3. PICK i \in Some : \A k \in Some : i <= k
    BY <2>2
  <2>4. i \in K /\ TakenIn(rule, anchor, t, i) # {}
    OBVIOUS
  <2>5. \A j \in k0 .. i - 1 : TakenIn(rule, anchor, t, j) = {}
    BY <1>2, <2>3, <2>4
  <2>6. /\ First \in K /\ TakenIn(rule, anchor, t, First) # {}
        /\ \A j \in k0 .. First - 1 : TakenIn(rule, anchor, t, j) = {}
    <3> HIDE DEF K
    <3> QED BY <2>4, <2>5, Zenon
  <2> HIDE DEF First
  <2>7. First \in Int /\ First >= k0
    BY <1>2, <2>6
  <2>8. TakenIn(rule, anchor, t, First) \in SUBSET Int
    BY <2>7, CandidatesExact DEF TakenIn, Fits
  <2>9. \A c \in TakenIn(rule, anchor, t, First) : c > t
    BY DEF TakenIn
  <2>10. /\ Min(TakenIn(rule, anchor, t, First)) \in TakenIn(rule, anchor, t, First)
         /\ \A c \in TakenIn(rule, anchor, t, First) : Min(TakenIn(rule, anchor, t, First)) <= c
    BY <2>6, <2>8, <2>9, LeastAbove
  <2>11. r = Min(TakenIn(rule, anchor, t, First))
    BY <1>3, <1>5, Zenon
  <2>12. FoundIn(rule, anchor, t, r, First)
    BY <1>1, <2>6, <2>7, <2>10, <2>11, Zenon DEF FoundIn
  <2>13. r \in Int
    BY <2>8, <2>10, <2>11, ZenonT(30)
  <2> QED BY <2>12, <2>13, Zenon
<1> QED BY <1>4, <1>5, Zenon

(******************************* The invariant ******************************)

(* A time that is not too long after the anchor for the slack.               *)
WithinSlack(anchor, t) == t - anchor <= 480 * (Slack - 6) * DayTicks

(* The answer is that of the search, asked at such a time.                   *)
CalendarInv ==
    /\ Accepted(string) /\ start \in Int /\ after \in Int /\ WithinSlack(start, after)
    /\ use = "job" => start \in Starts
    /\ next = eval_calendar(Rule(string), start, after)

(* An answer is a time or there is none.                                     *)
LEMMA AnswerInt ==
    ASSUME CalendarInv, next # Never
    PROVE  next \in Int
<1>1. GoodRule(Rule(string))
  BY RuleGood DEF CalendarInv
<1>2. start \in Int /\ after \in Int /\ next = eval_calendar(Rule(string), start, after)
  BY DEF CalendarInv
<1> QED BY <1>1, <1>2, EvalExact

(* It holds from the first question to the last.                             *)
THEOREM CalendarInvariant == Spec => []CalendarInv
<1>1. /\ Slack \in Nat /\ DayTicks \in Nat \ {0} /\ LastDay \in Nat
      /\ Starts \subseteq Nat /\ Lags \subseteq Nat
  BY CalendarAssumption, ClockUnits
<1>2. PICK far \in Nat : far = 480 * (Slack - 6) * DayTicks
  <2>1. Slack - 6 \in Nat
    BY <1>1, SlackAssumption
  <2> QED BY <1>1, <2>1
<1>3. \A s \in Starts : \A t \in Starts \cup {(LastDay + 1) * DayTicks + lag : lag \in Lags} :
         t - s <= far
  BY <1>2, SlackAssumption
<1>4. Init => CalendarInv
  <2> SUFFICES ASSUME Init PROVE CalendarInv
    OBVIOUS
  <2>1. Accepted(string) /\ next = eval_calendar(Rule(string), start, after) /\ start \in Starts
    BY DEF Init, FirstRun, FirstPurge
  <2>2. after \in Int /\ after - start <= far
    <3>1. CASE FirstRun
      <4>1. PICK now \in Starts : after = now - 1
        BY <3>1 DEF FirstRun
      <4>2. now - start <= far
        BY <1>3, <2>1, Zenon
      <4>3. now \in Nat /\ start \in Nat
        BY <1>1, <2>1
      <4> QED BY <1>2, <4>1, <4>2, <4>3
    <3>2. CASE FirstPurge
      BY <1>1, <2>1, <3>2 DEF FirstPurge
    <3> QED BY <3>1, <3>2 DEF Init
  <2> QED BY <1>1, <1>2, <2>1, <2>2 DEF CalendarInv, WithinSlack
<1>5. CalendarInv /\ [Next]_vars => CalendarInv'
  <2> SUFFICES ASSUME CalendarInv, [Next]_vars PROVE CalendarInv'
    OBVIOUS
  <2>1. ASSUME NEW lag \in Lags, Claim(lag) PROVE CalendarInv'
    <3>1. /\ use = "job" /\ next # Never /\ DayOf(next) <= LastDay /\ after' = next + lag
          /\ next' = eval_calendar(Rule(string), start, next + lag)
          /\ use' = use /\ string' = string /\ start' = start
      BY <2>1 DEF Claim
    <3>2. next \in Int /\ lag \in Nat /\ start \in Starts /\ start \in Int
      BY <1>1, <3>1, AnswerInt DEF CalendarInv
    <3>3. next <= (LastDay + 1) * DayTicks
      <4>1. PICK d \in Int : d = DayOf(next)
        BY <3>2, ClockRanges
      <4>2. next <= DayTicks * d + DayTicks
        BY <1>1, <3>2, <4>1, Division DEF DayOf
      <4>3. DayTicks * d <= DayTicks * LastDay
        BY <1>1, <3>1, <4>1
      <4> QED BY <1>1, <3>2, <4>2, <4>3
    <3>4. ((LastDay + 1) * DayTicks + lag) - start <= far
      <4>1. PICK t \in {(LastDay + 1) * DayTicks + l : l \in Lags} : t = (LastDay + 1) * DayTicks + lag
        OBVIOUS
      <4>2. t - start <= far
        BY <1>3, <3>2, Zenon
      <4> QED BY <4>1, <4>2, Zenon
    <3>5. next + lag \in Int /\ (next + lag) - start <= far
      <4>1. PICK e \in Int : e = (LastDay + 1) * DayTicks
        BY <1>1
      <4> QED BY <1>2, <3>2, <3>3, <3>4, <4>1
    <3> QED BY <1>2, <3>1, <3>2, <3>5 DEF CalendarInv, WithinSlack
  <2>2. ASSUME NEW lag \in Lags, NextPurge(lag) PROVE CalendarInv'
    <3>1. /\ use = "purge" /\ next # Never /\ start' = next + lag /\ after' = next + lag
          /\ next' = eval_calendar(Rule(string), next + lag, next + lag)
          /\ use' = use /\ string' = string
      BY <2>2 DEF NextPurge
    <3>2. next + lag \in Int
      BY <1>1, <3>1, AnswerInt
    <3> QED BY <1>2, <3>1, <3>2 DEF CalendarInv, WithinSlack
  <2>3. CASE UNCHANGED vars
    BY <2>3 DEF vars, CalendarInv, WithinSlack
  <2> QED BY <2>1, <2>2, <2>3 DEF Next
<1> QED BY <1>4, <1>5, PTL DEF Spec

(* The answer is found in a period, by the search.                           *)
LEMMA AnswerFound ==
    ASSUME CalendarInv, next # Never
    PROVE  /\ next \in Int /\ next > after /\ next >= start /\ Fits(Rule(string), start, next)
           /\ \E k \in Int : Period(Rule(string), start, next) = k * Rule(string).interval
<1>1. GoodRule(Rule(string)) /\ start \in Int /\ after \in Int
  BY RuleGood DEF CalendarInv
<1>2. next = eval_calendar(Rule(string), start, after)
  BY DEF CalendarInv
<1>3. next \in Int /\ \E k : FoundIn(Rule(string), start, after, next, k)
  BY <1>1, <1>2, EvalExact
<1>4. PICK k : FoundIn(Rule(string), start, after, next, k)
  BY <1>3
<1>5. /\ k \in Int /\ next \in Candidates(Rule(string), start, k)
      /\ next > after /\ next >= start
  BY <1>4 DEF FoundIn, TakenIn
<1>6. /\ Fits(Rule(string), start, next)
      /\ Period(Rule(string), start, next) = k * Rule(string).interval
  BY <1>1, <1>5, CandidatesExact, Zenon
<1> QED BY <1>3, <1>5, <1>6, Zenon

(* Whatever calendar a job has and however late it is claimed, the next date *)
(* that eval_calendar gives satisfies every clause of the string; except for *)
(* the clauses that the weekly branch leaves out.                            *)
THEOREM NextMatchesHolds == Spec => [](DatesApplied(Rule(string)) => NextMatches)
<1>1. CalendarInv => (DatesApplied(Rule(string)) => NextMatches)
  <2> SUFFICES ASSUME CalendarInv, DatesApplied(Rule(string)), next # Never
               PROVE  /\ next > after
                      /\ DateMatches(string, start, DayOf(next)) /\ TimeMatches(string, start, next)
    BY DEF NextMatches
  <2>1. /\ next \in Int /\ next > after /\ next >= start /\ Fits(Rule(string), start, next)
        /\ \E k \in Int : Period(Rule(string), start, next) = k * Rule(string).interval
    BY AnswerFound, Zenon
  <2>2. Accepted(string) /\ start \in Int
    BY DEF CalendarInv
  <2> QED BY <2>1, <2>2, MatchesFit, Zenon
<1> QED BY <1>1, CalendarInvariant, PTL

(************************** Where the search starts *************************)

(* The quotient of a difference is that of the quotients, or one less.       *)
LEMMA DivisionApart ==
    ASSUME NEW a \in Int, NEW b \in Int, NEW n \in Nat \ {0}
    PROVE  /\ (b - a) \div n <= (b \div n) - (a \div n)
           /\ (b \div n) - (a \div n) <= (b - a) \div n + 1
<1>1. PICK q \in Int : q = a \div n
  BY Division
<1>2. PICK r \in 0 .. n - 1 : a = n * q + r
  <2>1. a % n \in 0 .. n - 1 /\ a = n * (a \div n) + (a % n)
    BY Division
  <2> QED BY <1>1, <2>1, Zenon
<1>3. PICK p \in Int : p = b \div n
  BY Division
<1>4. PICK s \in 0 .. n - 1 : b = n * p + s
  <2>1. b % n \in 0 .. n - 1 /\ b = n * (b \div n) + (b % n)
    BY Division
  <2> QED BY <1>3, <2>1, Zenon
<1>5. PICK c \in Int : c = b - a
  OBVIOUS
<1>6. PICK d \in Int : d = c \div n
  BY Division
<1>7. PICK e \in 0 .. n - 1 : c = n * d + e
  <2>1. c % n \in 0 .. n - 1 /\ c = n * (c \div n) + (c % n)
    BY Division
  <2> QED BY <1>6, <2>1, Zenon
<1>8. PICK w \in Int : w = (p - q) - d
  OBVIOUS
<1>9. n * w = e - (s - r)
  BY <1>2, <1>4, <1>5, <1>7, <1>8
<1>10. w >= 0
  <2> SUFFICES ASSUME w <= -1 PROVE FALSE
    OBVIOUS
  <2>1. n * w <= -n
    OBVIOUS
  <2> QED BY <1>9, <2>1
<1>11. w <= 1
  <2> SUFFICES ASSUME w >= 2 PROVE FALSE
    OBVIOUS
  <2>1. n * w >= 2 * n
    OBVIOUS
  <2> QED BY <1>9, <2>1
<1> QED BY <1>1, <1>3, <1>5, <1>8, <1>10, <1>11, <1>6

(* The length of a unit, and the units that eval_calendar estimates have     *)
(* passed: years of 366 days, months of 32.                                  *)
UnitTicks(rule) ==
    CASE rule.freq = "HOURLY" -> HourTicks
      [] rule.freq = "MINUTELY" -> MinuteTicks
      [] rule.freq = "SECONDLY" -> Ticks
      [] OTHER -> DayTicks
Estimate(rule, anchor, t) ==
    LET units == (t - anchor) \div UnitTicks(rule)
    IN  CASE rule.freq = "YEARLY" -> units \div 366
          [] rule.freq = "MONTHLY" -> units \div 32
          [] rule.freq = "WEEKLY" -> units \div 7
          [] OTHER -> units

(* A unit is some ticks.                                                     *)
LEMMA UnitNat ==
    ASSUME NEW rule, NEW anchor \in Int, NEW t \in Int
    PROVE  /\ UnitTicks(rule) \in Nat \ {0} /\ (t - anchor) \div UnitTicks(rule) \in Int
           /\ Estimate(rule, anchor, t) \in Int
<1>1. UnitTicks(rule) \in Nat \ {0}
  BY ClockUnits DEF UnitTicks
<1>2. t - anchor \in Int
  OBVIOUS
<1>3. (t - anchor) \div UnitTicks(rule) \in Int
  BY <1>1, <1>2, Division
<1> QED BY <1>1, <1>3 DEF Estimate

(* The search starts two intervals before the estimate.                      *)
LEMMA ForwardEstimate ==
    ASSUME NEW rule, GoodRule(rule), NEW anchor \in Int, NEW t \in Int
    PROVE  LET periods == Estimate(rule, anchor, t) \div rule.interval
           IN  FastForward(rule, anchor, t) = IF t > anchor /\ periods > 2 THEN periods - 2 ELSE 0
<1>1. PICK n \in 1 .. 99 : n = rule.interval
  BY DEF GoodRule
<1>2. PICK u \in Nat \ {0} : u = UnitTicks(rule)
  BY UnitNat
<1>3. PICK d \in Int : d = t - anchor
  OBVIOUS
<1>4. PICK units \in Int : units = d \div u
  BY Division
<1>5. n \in Nat \ {0}
  OBVIOUS
<1>6. d \div (n * u) = units \div n
  BY <1>4, <1>5, QuotientTwice, Zenon
<1>7. units \div (n * 7) = (units \div 7) \div n
  BY <1>5, 7 \in Nat \ {0}, QuotientTwice, Zenon
<1>8. n * 7 = 7 * n
  OBVIOUS
<1>9. rule.freq \in Freqs
  BY DEF GoodRule
<1>10. CASE rule.freq \in Shorter
  <2>1. Step(rule) = n * u
    BY <1>1, <1>2, <1>10 DEF Step, UnitTicks, Shorter
  <2>2. Estimate(rule, anchor, t) = units
    BY <1>2, <1>3, <1>4, <1>10 DEF Estimate, Shorter
  <2>3. FastForward(rule, anchor, t) =
          LET periods == d \div Step(rule)
          IN  IF t > anchor /\ periods > 2 THEN periods - 2 ELSE 0
    BY <1>3, <1>10 DEF FastForward, Shorter
  <2> QED BY <1>1, <1>6, <2>1, <2>2, <2>3, Zenon
<1>11. CASE rule.freq \in Longer
  <2>1. units = (t - anchor) \div DayTicks
    BY <1>2, <1>3, <1>4, <1>11 DEF UnitTicks, Longer
  <2>2. Estimate(rule, anchor, t) =
          CASE rule.freq = "YEARLY" -> units \div 366
            [] rule.freq = "MONTHLY" -> units \div 32
            [] rule.freq = "WEEKLY" -> units \div 7
            [] OTHER -> units
    BY <1>2, <1>3, <1>4 DEF Estimate
  <2>3. FastForward(rule, anchor, t) =
          LET periods == CASE rule.freq = "YEARLY" -> (units \div 366) \div n
                           [] rule.freq = "MONTHLY" -> (units \div 32) \div n
                           [] rule.freq = "WEEKLY" -> units \div (7 * n)
                           [] rule.freq = "DAILY" -> units \div n
                           [] OTHER -> (t - anchor) \div Step(rule)
          IN  IF t > anchor /\ periods > 2 THEN periods - 2 ELSE 0
    BY <1>1, <2>1, SMTT(30) DEF FastForward
  <2> QED BY <1>1, <1>7, <1>8, <1>11, <2>2, <2>3 DEF Longer
<1> QED BY <1>9, <1>10, <1>11 DEF Freqs, Shorter, Longer

(* If the estimate is less than two units ahead, the search starts in time.  *)
LEMMA StartInTime ==
    ASSUME NEW e \in Int, NEW n \in 1 .. 99, NEW p \in Int, e <= p + 1,
           NEW k \in Int, p <= k * n, 0 <= k * n, NEW ff,
           ff = 0 \/ ff = (e \div n) - 2
    PROVE  ff <= k
<1>1. PICK q \in Int : q = e \div n
  BY n \in Nat \ {0}, Division
<1>2. n * q <= e
  BY <1>1, n \in Nat \ {0}, Division
<1>3. n * (q - k) <= 1
  BY <1>2
<1>4. q - k <= 1
  <2> SUFFICES ASSUME q - k >= 2 PROVE FALSE
    OBVIOUS
  <2>1. PICK w \in Int : w = q - k
    OBVIOUS
  <2>2. n * w >= 2
    BY <2>1
  <2> QED BY <1>3, <2>1, <2>2
<1>5. k >= 0
  <2> SUFFICES ASSUME k <= -1 PROVE FALSE
    OBVIOUS
  <2>1. k * n <= -1
    OBVIOUS
  <2> QED BY <2>1
<1> QED BY <1>1, <1>4, <1>5

(* If it is not too many units behind, the search gets there.                *)
LEMMA EndInTime ==
    ASSUME NEW e \in Int, NEW n \in 1 .. 99, NEW max \in Nat, NEW slack \in Nat, slack >= 6,
           NEW k \in Int, k * n <= e + (max - slack) * n + slack - 4, NEW ff \in Int,
           (ff >= 0 /\ e <= 0) \/ ff >= (e \div n) - 2
    PROVE  k < ff + max
<1> SUFFICES ASSUME k >= ff + max PROVE FALSE
  OBVIOUS
<1>1. PICK q \in Int : q = e \div n
  BY n \in Nat \ {0}, Division
<1>2. e <= n * q + n - 1
  BY <1>1, n \in Nat \ {0}, Division
<1>3. n * (k - (max - slack)) <= e + slack - 4
  <2>1. n * (k - (max - slack)) = k * n - (max - slack) * n
    OBVIOUS
  <2>2. PICK a \in Int : a = k * n
    OBVIOUS
  <2>3. PICK b \in Int : b = (max - slack) * n
    OBVIOUS
  <2> QED BY <2>1, <2>2, <2>3
<1>4. CASE ff >= 0 /\ e <= 0
  <2>1. PICK w \in Int : w = k - (max - slack)
    OBVIOUS
  <2>2. w >= slack
    BY <1>4, <2>1
  <2>3. n * w >= w
    BY <2>2
  <2> QED BY <1>3, <1>4, <2>1, <2>2, <2>3
<1>5. CASE ff >= q - 2
  <2>1. PICK w \in Int : w = k - (max - slack)
    OBVIOUS
  <2>2. PICK v \in Int : v = (w - q) - 1
    OBVIOUS
  <2>3. v >= slack - 3
    BY <1>5, <2>1, <2>2
  <2>4. n * v >= v
    BY <2>3
  <2>5. n * w = n * v + n * q + n
    BY <2>2
  <2> QED BY <1>2, <1>3, <2>1, <2>3, <2>4, <2>5
<1> QED BY <1>1, <1>4, <1>5

(* The years and months between two days, and how long they are.             *)
YearsBetween(a, b) == j2date(b).year - j2date(a).year
MonthsBetween(a, b) == (j2date(b).year - j2date(a).year) * 12 + j2date(b).mon - j2date(a).mon

(* How many days there can be in so many years, or months.                   *)
LEMMA DaysApart ==
    ASSUME NEW a \in Int, NEW b \in Int, a <= b
    PROVE  /\ YearsBetween(a, b) \in Nat /\ MonthsBetween(a, b) \in Nat
           /\ 365 * YearsBetween(a, b) - 365 <= b - a
           /\ b - a <= 366 * YearsBetween(a, b) + 365
           /\ 30 * MonthsBetween(a, b) - 36 <= b - a
           /\ b - a <= 32 * MonthsBetween(a, b) + 48
<1>1. PICK y \in Int : y = j2date(a).year
  BY DateParts
<1>2. PICK m \in 1 .. 12 : m = j2date(a).mon
  BY DateParts
<1>3. PICK z \in Int : z = j2date(b).year
  BY DateParts
<1>4. PICK n \in 1 .. 12 : n = j2date(b).mon
  BY DateParts
<1>5. PICK d : d = j2date(a).mday
  OBVIOUS
<1>6. PICK f : f = j2date(b).mday
  OBVIOUS
<1>7. /\ IsDate(y, m, d) /\ date2j(y, m, d) = a /\ IsDate(z, n, f) /\ date2j(z, n, f) = b
  BY <1>1, <1>2, <1>3, <1>4, <1>5, <1>6, DayRoundTrip
<1>8. /\ y <= z /\ 0 <= 12 * (z - y) + n - m
      /\ 365 * (z - y) - 365 <= b - a /\ b - a <= 366 * (z - y) + 365
      /\ 30 * (12 * (z - y) + n - m) - 36 <= b - a
      /\ b - a <= 32 * (12 * (z - y) + n - m) + 48
  BY <1>7, DatesApart
<1>9. YearsBetween(a, b) = z - y /\ MonthsBetween(a, b) = 12 * (z - y) + n - m
  BY <1>1, <1>2, <1>3, <1>4 DEF YearsBetween, MonthsBetween
<1> QED BY <1>8, <1>9

(* They are not negative.                                                    *)
LEMMA BetweenNat ==
    ASSUME NEW a \in Int, NEW b \in Int, a <= b
    PROVE  YearsBetween(a, b) \in Nat /\ MonthsBetween(a, b) \in Nat
BY DaysApart

(* From three days, the differences add up.                                  *)
LEMMA BetweenAdds ==
    ASSUME NEW a \in Int, NEW b \in Int, NEW c \in Int
    PROVE  /\ YearsBetween(a, c) = YearsBetween(a, b) + YearsBetween(b, c)
           /\ MonthsBetween(a, c) = MonthsBetween(a, b) + MonthsBetween(b, c)
           /\ YearsBetween(a, b) \in Int /\ MonthsBetween(a, b) \in Int
<1>1. \A jd \in Int : j2date(jd).year \in Int /\ j2date(jd).mon \in Int
  <2>1. ASSUME NEW jd \in Int PROVE j2date(jd).year \in Int /\ j2date(jd).mon \in Int
    BY DateParts
  <2> QED BY <2>1
<1> QED BY <1>1 DEF YearsBetween, MonthsBetween

(* Later times are in later periods.                                         *)
LEMMA PeriodMonotone ==
    ASSUME NEW rule, GoodRule(rule), NEW anchor \in Int, NEW t \in Int, NEW c \in Int, t <= c
    PROVE  Period(rule, anchor, t) <= Period(rule, anchor, c)
<1>1. rule.freq \in Freqs
  BY DEF GoodRule
<1>2. ASSUME NEW u \in Nat \ {0} PROVE t \div u <= c \div u
  BY DivisionMonotone
<1>3. PICK a \in Int : a = DayOf(anchor)
  BY ClockRanges
<1>4. PICK x \in Int : x = DayOf(t)
  BY ClockRanges
<1>5. PICK y \in Int : y = DayOf(c)
  BY ClockRanges
<1>6. x <= y
  BY <1>2, <1>4, <1>5, ClockUnits DEF DayOf
<1>7. CASE rule.freq \in Shorter
  <2>1. /\ t \div HourTicks <= c \div HourTicks /\ t \div MinuteTicks <= c \div MinuteTicks
        /\ t \div Ticks <= c \div Ticks
    BY <1>2, ClockUnits, Zenon
  <2>2. /\ t \div HourTicks \in Int /\ t \div MinuteTicks \in Int /\ t \div Ticks \in Int
        /\ c \div HourTicks \in Int /\ c \div MinuteTicks \in Int /\ c \div Ticks \in Int
        /\ anchor \div HourTicks \in Int /\ anchor \div MinuteTicks \in Int
        /\ anchor \div Ticks \in Int
    BY ClockRanges
  <2> QED BY <1>7, <2>1, <2>2 DEF Period, TimePeriod, Shorter
<1>8. CASE rule.freq = "YEARLY"
  <2>1. YearsBetween(a, x) <= YearsBetween(a, y)
    <3>1. YearsBetween(a, y) = YearsBetween(a, x) + YearsBetween(x, y) /\ YearsBetween(a, x) \in Int
      BY BetweenAdds
    <3>2. YearsBetween(x, y) \in Nat
      BY <1>6, BetweenNat, Zenon
    <3> QED BY <3>1, <3>2
  <2> QED BY <1>3, <1>4, <1>5, <1>8, <2>1 DEF Period, DatePeriod, Shorter, YearsBetween
<1>9. CASE rule.freq = "MONTHLY"
  <2>1. MonthsBetween(a, x) <= MonthsBetween(a, y)
    <3>1. MonthsBetween(a, y) = MonthsBetween(a, x) + MonthsBetween(x, y) /\ MonthsBetween(a, x) \in Int
      BY BetweenAdds
    <3>2. MonthsBetween(x, y) \in Nat
      BY <1>6, BetweenNat, Zenon
    <3> QED BY <3>1, <3>2
  <2> QED BY <1>3, <1>4, <1>5, <1>9, <2>1 DEF Period, DatePeriod, Shorter, MonthsBetween
<1>10. CASE rule.freq = "WEEKLY"
  BY <1>3, <1>4, <1>5, <1>6, <1>10 DEF Period, DatePeriod, Shorter
<1>11. CASE rule.freq = "DAILY"
  BY <1>3, <1>4, <1>5, <1>6, <1>11 DEF Period, DatePeriod, Shorter
<1> QED BY <1>1, <1>7, <1>8, <1>9, <1>10, <1>11 DEF Freqs, Shorter

(* The periods from the anchor to itself.                                    *)
LEMMA PeriodAnchor ==
    ASSUME NEW rule, GoodRule(rule), NEW anchor \in Int
    PROVE  Period(rule, anchor, anchor) = 0
<1>1. rule.freq \in Freqs
  BY DEF GoodRule
<1>2. DayOf(anchor) \in Int
  BY ClockRanges
<1>3. /\ anchor \div HourTicks \in Int /\ anchor \div MinuteTicks \in Int /\ anchor \div Ticks \in Int
  BY ClockRanges
<1>4. j2date(DayOf(anchor)).year \in Int /\ j2date(DayOf(anchor)).mon \in 1 .. 12
  BY <1>2, DateParts
<1> QED BY <1>1, <1>2, <1>3, <1>4 DEF Freqs, Period, DatePeriod, TimePeriod, Shorter

(* The estimate is at most one unit too late.                                *)
LEMMA EstimateNotLate ==
    ASSUME NEW rule, GoodRule(rule), NEW anchor \in Int, NEW t \in Int, anchor <= t
    PROVE  Estimate(rule, anchor, t) <= Period(rule, anchor, t) + 1
<1>1. rule.freq \in Freqs
  BY DEF GoodRule
<1>2. PICK u \in Nat \ {0} : u = UnitTicks(rule)
  BY UnitNat
<1>3. PICK units \in Int : units = (t - anchor) \div u
  BY <1>2, UnitNat
<1>4. units <= (t \div u) - (anchor \div u)
  BY <1>3, DivisionApart
<1>5. t \div u \in Int /\ anchor \div u \in Int
  BY Division
<1>6. CASE rule.freq \in Shorter
  <2>1. Estimate(rule, anchor, t) = units
    BY <1>2, <1>3, <1>6 DEF Estimate, Shorter
  <2>2. Period(rule, anchor, t) = (t \div u) - (anchor \div u)
    BY <1>2, <1>6 DEF Period, TimePeriod, UnitTicks, Shorter
  <2> QED BY <1>4, <1>5, <2>1, <2>2
<1>7. CASE rule.freq \in Longer
  <2>1. PICK a \in Int : a = DayOf(anchor)
    BY ClockRanges
  <2>2. PICK b \in Int : b = DayOf(t)
    BY ClockRanges
  <2>3. u = DayTicks
    BY <1>2, <1>7 DEF UnitTicks, Longer
  <2>4. a <= b /\ units <= b - a
    <3>1. a <= b
      BY <2>1, <2>2, <2>3, DivisionMonotone DEF DayOf
    <3>2. b = t \div u /\ a = anchor \div u
      BY <2>1, <2>2, <2>3 DEF DayOf
    <3> QED BY <1>4, <3>1, <3>2
  <2>5. Estimate(rule, anchor, t) =
          CASE rule.freq = "YEARLY" -> units \div 366
            [] rule.freq = "MONTHLY" -> units \div 32
            [] rule.freq = "WEEKLY" -> units \div 7
            [] OTHER -> units
    BY <1>2, <1>3 DEF Estimate
  <2>6. CASE rule.freq = "YEARLY"
    <3>1. Period(rule, anchor, t) = YearsBetween(a, b)
      BY <2>1, <2>2, <2>6 DEF Period, DatePeriod, Shorter, YearsBetween
    <3>2. PICK y \in Nat : y = YearsBetween(a, b)
      BY <2>4, BetweenNat, Zenon
    <3>3. b - a <= 366 * y + 365
      <4>1. b - a <= 366 * YearsBetween(a, b) + 365
        BY <2>4, DaysApart
      <4> QED BY <3>2, <4>1
    <3>4. units \div 366 <= y
      BY <2>4, <3>3
    <3> QED BY <2>5, <2>6, <3>1, <3>2, <3>4
  <2>7. CASE rule.freq = "MONTHLY"
    <3>1. Period(rule, anchor, t) = MonthsBetween(a, b)
      BY <2>1, <2>2, <2>7 DEF Period, DatePeriod, Shorter, MonthsBetween
    <3>2. PICK m \in Nat : m = MonthsBetween(a, b)
      BY <2>4, BetweenNat, ZenonT(30)
    <3>3. b - a <= 32 * m + 48
      <4>1. b - a <= 32 * MonthsBetween(a, b) + 48
        BY <2>4, DaysApart
      <4> QED BY <3>2, <4>1
    <3>4. units \div 32 <= m + 1
      BY <2>4, <3>3
    <3> QED BY <2>5, <2>7, <3>1, <3>2, <3>4
  <2>8. CASE rule.freq = "WEEKLY"
    <3>1. Period(rule, anchor, t) = (b - a) \div 7
      BY <2>1, <2>2, <2>8 DEF Period, DatePeriod, Shorter
    <3> QED BY <2>4, <2>5, <2>8, <3>1
  <2>9. CASE rule.freq = "DAILY"
    <3>1. Period(rule, anchor, t) = b - a
      BY <2>1, <2>2, <2>9 DEF Period, DatePeriod, Shorter
    <3> QED BY <2>4, <2>5, <2>9, <3>1
  <2> QED BY <1>7, <2>6, <2>7, <2>8, <2>9 DEF Longer
<1> QED BY <1>1, <1>6, <1>7 DEF Freqs, Shorter, Longer

(* The horizon, in units: a year of 365 days, a month of 28.                 *)
UnitLength(rule) ==
    CASE rule.freq = "YEARLY" -> 365
      [] rule.freq = "MONTHLY" -> 28
      [] rule.freq = "WEEKLY" -> 7
      [] OTHER -> 1

(* The horizon is so many intervals of them.                                 *)
LEMMA HorizonUnits ==
    ASSUME NEW str, Accepted(str)
    PROVE  /\ (MaxPeriods - Slack) * Rule(str).interval \in Nat
           /\ Horizon(str) = ((MaxPeriods - Slack) * Rule(str).interval * UnitLength(Rule(str)))
                                * UnitTicks(Rule(str))
<1> DEFINE rule == Rule(str)
           one == [Rule(str) EXCEPT !.interval = 1]
<1>1. rule.freq \in Freqs /\ rule.interval \in 1 .. 99
  BY RuleFreq
<1>2. PICK n \in Nat : n = (MaxPeriods - Slack) * rule.interval
  <2>1. MaxPeriods - Slack \in Nat
    BY CalendarAssumption
  <2>2. \A a \in Nat, b \in 1 .. 99 : a * b \in Nat
    OBVIOUS
  <2> QED BY <1>1, <2>1, <2>2
<1>3. one.freq = rule.freq /\ one.interval = 1
  BY DEF Rule
<1>4. Freq(str) = rule.freq
  BY DEF Freq
<1>5. PICK u \in Nat \ {0} : u = UnitTicks(rule)
  BY ClockUnits DEF UnitTicks
<1>6. Horizon(str) = n * (CASE Freq(str) = "YEARLY" -> 365 * DayTicks
                            [] Freq(str) = "MONTHLY" -> 28 * DayTicks
                            [] Freq(str) = "WEEKLY" -> 7 * DayTicks
                            [] Freq(str) = "DAILY" -> DayTicks
                            [] OTHER -> Step(one))
  BY <1>2, Zenon DEF Horizon
<1> HIDE DEF rule, one
<1>7. Horizon(str) = n * (UnitLength(rule) * u)
  <2>1. CASE rule.freq \in Longer
    <3>1. u = DayTicks
      BY <1>5, <2>1 DEF UnitTicks, Longer
    <3> QED BY <1>4, <1>6, <2>1, <3>1 DEF UnitLength, Longer
  <2>2. CASE rule.freq \in Shorter
    <3>1. Step(one) = u
      BY <1>3, <1>5, <2>2, ClockUnits DEF Step, UnitTicks, Shorter
    <3>2. UnitLength(rule) * u = u
      BY <2>2 DEF UnitLength, Shorter
    <3> QED BY <1>4, <1>6, <2>2, <3>1, <3>2 DEF Shorter
  <2> QED BY <1>1, <2>1, <2>2 DEF Freqs, Longer, Shorter
<1>8. PICK w \in Nat : w = UnitLength(rule)
  BY DEF UnitLength
<1>9. n * (w * u) = (n * w) * u
  OBVIOUS
<1> QED BY <1>2, <1>5, <1>7, <1>8, <1>9, ZenonT(30) DEF rule

(* How far the periods of a time within the horizon can be from the estimate *)
(* at the time of the question.                                              *)
LEMMA EstimateNotFar ==
    ASSUME NEW rule, GoodRule(rule), NEW anchor \in Int, NEW t \in Int, NEW c \in Int,
           anchor <= c, NEW n \in Nat, c <= t + (n * UnitLength(rule)) * UnitTicks(rule),
           NEW z \in Nat, t - anchor <= (480 * z) * DayTicks
    PROVE  Period(rule, anchor, c) <= Estimate(rule, anchor, t) + n + z + 2
<1>1. rule.freq \in Freqs
  BY DEF GoodRule
<1>2. PICK u \in Nat \ {0} : u = UnitTicks(rule)
  BY UnitNat
<1>3. PICK units \in Int : units = (t - anchor) \div u
  BY <1>2, UnitNat
<1>4. PICK w \in Nat : w = UnitLength(rule)
  BY DEF UnitLength
<1>5. PICK m \in Nat : m = n * w
  OBVIOUS
<1>6. PICK v \in Int : v = (c \div u) - (anchor \div u)
  <2>1. c \div u \in Int /\ anchor \div u \in Int
    BY Division
  <2>2. \A p \in Int, q \in Int : p - q \in Int
    OBVIOUS
  <2> QED BY <2>1, <2>2, Zenon
<1>7. v <= units + m + 1
  <2>1. v <= (c - anchor) \div u + 1
    <3>1. (c \div u) - (anchor \div u) <= (c - anchor) \div u + 1
      BY DivisionApart, Zenon
    <3> QED BY <1>6, <3>1, Zenon
  <2>2. (c - anchor) \div u <= ((t - anchor) + m * u) \div u
    <3>1. PICK d \in Int : d = t - anchor
      OBVIOUS
    <3>2. PICK e \in Int : e = d + m * u
      OBVIOUS
    <3>3. PICK f \in Int : f = c - anchor
      OBVIOUS
    <3>4. f <= e
      BY <1>2, <1>4, <1>5, <3>1, <3>2, <3>3
    <3>5. f \div u <= e \div u
      BY <3>4, DivisionMonotone
    <3> QED BY <3>1, <3>2, <3>3, <3>5
  <2>3. ((t - anchor) + m * u) \div u = units + m
    <3>1. PICK d \in Int : d = t - anchor
      OBVIOUS
    <3>2. (d + m * u) \div u = d \div u + m
      BY m \in Int, StepUnits, Zenon
    <3> QED BY <1>3, <3>1, <3>2, Zenon
  <2>4. (c - anchor) \div u \in Int
    BY c - anchor \in Int, Division
  <2> QED BY <2>1, <2>2, <2>3, <2>4
<1>8. CASE rule.freq \in Shorter
  <2>1. Estimate(rule, anchor, t) = units
    BY <1>2, <1>3, <1>8 DEF Estimate, Shorter
  <2>2. Period(rule, anchor, c) = v
    BY <1>2, <1>6, <1>8 DEF Period, TimePeriod, UnitTicks, Shorter
  <2>3. m = n
    BY <1>4, <1>5, <1>8 DEF UnitLength, Shorter
  <2> QED BY <1>7, <2>1, <2>2, <2>3
<1>9. CASE rule.freq \in Longer
  <2>1. PICK a \in Int : a = DayOf(anchor)
    BY ClockRanges
  <2>2. PICK b \in Int : b = DayOf(c)
    BY ClockRanges
  <2>3. u = DayTicks
    BY <1>2, <1>9 DEF UnitTicks, Longer
  <2>4. a <= b /\ b - a <= units + m + 1
    <3>1. b = c \div u /\ a = anchor \div u
      BY <2>1, <2>2, <2>3 DEF DayOf
    <3>2. a <= b
      BY <3>1, DivisionMonotone
    <3> QED BY <1>6, <1>7, <3>1, <3>2
  <2>5. units <= 480 * z
    <3>1. PICK d \in Int : d = t - anchor
      OBVIOUS
    <3>2. PICK y \in Int : y = 480 * z
      OBVIOUS
    <3>3. d <= 0 + y * u
      BY <2>3, <3>1, <3>2
    <3>4. 0 + y * u \in Int /\ (0 + y * u) \div u = 0 \div u + y
      BY 0 \in Int, StepUnits, Zenon
    <3>5. d \div u <= (0 + y * u) \div u
      <4>1. PICK e \in Int : e = 0 + y * u
        BY <3>4
      <4> QED BY <3>3, <4>1, DivisionMonotone
    <3>6. 0 \div u = 0
      OBVIOUS
    <3> QED BY <1>3, <3>1, <3>2, <3>4, <3>5, <3>6
  <2>6. Estimate(rule, anchor, t) =
          CASE rule.freq = "YEARLY" -> units \div 366
            [] rule.freq = "MONTHLY" -> units \div 32
            [] rule.freq = "WEEKLY" -> units \div 7
            [] OTHER -> units
    BY <1>2, <1>3 DEF Estimate
  <2>7. CASE rule.freq = "YEARLY"
    <3>1. Period(rule, anchor, c) = YearsBetween(a, b)
      BY <2>1, <2>2, <2>7 DEF Period, DatePeriod, Shorter, YearsBetween
    <3>2. PICK y \in Nat : y = YearsBetween(a, b)
      BY <2>4, BetweenNat, ZenonT(30)
    <3>3. 365 * y - 365 <= b - a
      <4>1. 365 * YearsBetween(a, b) - 365 <= b - a
        BY <2>4, DaysApart
      <4> QED BY <3>2, <4>1
    <3>4. m = 365 * n
      BY <1>4, <1>5, <2>7 DEF UnitLength
    <3>5. y <= units \div 366 + n + z + 2
      BY <2>4, <2>5, <3>3, <3>4
    <3> QED BY <2>6, <2>7, <3>1, <3>2, <3>5
  <2>8. CASE rule.freq = "MONTHLY"
    <3>1. Period(rule, anchor, c) = MonthsBetween(a, b)
      BY <2>1, <2>2, <2>8 DEF Period, DatePeriod, Shorter, MonthsBetween
    <3>2. PICK y \in Nat : y = MonthsBetween(a, b)
      BY <2>4, BetweenNat, ZenonT(30)
    <3>3. 30 * y - 36 <= b - a
      <4>1. 30 * MonthsBetween(a, b) - 36 <= b - a
        BY <2>4, DaysApart
      <4> QED BY <3>2, <4>1
    <3>4. m = 28 * n
      BY <1>4, <1>5, <2>8 DEF UnitLength
    <3>5. y <= units \div 32 + n + z + 2
      BY <2>4, <2>5, <3>3, <3>4
    <3> QED BY <2>6, <2>8, <3>1, <3>2, <3>5
  <2>9. CASE rule.freq = "WEEKLY"
    <3>1. Period(rule, anchor, c) = (b - a) \div 7
      BY <2>1, <2>2, <2>9 DEF Period, DatePeriod, Shorter
    <3>2. m = 7 * n
      BY <1>4, <1>5, <2>9 DEF UnitLength
    <3> QED BY <2>4, <2>6, <2>9, <3>1, <3>2
  <2>10. CASE rule.freq = "DAILY"
    <3>1. Period(rule, anchor, c) = b - a
      BY <2>1, <2>2, <2>10 DEF Period, DatePeriod, Shorter
    <3>2. m = n
      BY <1>4, <1>5, <2>10 DEF UnitLength
    <3> QED BY <2>4, <2>6, <2>10, <3>1, <3>2
  <2> QED BY <1>9, <2>7, <2>8, <2>9, <2>10 DEF Longer
<1> QED BY <1>1, <1>8, <1>9 DEF Freqs, Shorter, Longer

(* Nothing has passed before the anchor.                                     *)
LEMMA EstimateBefore ==
    ASSUME NEW rule, NEW anchor \in Int, NEW t \in Int, t <= anchor
    PROVE  Estimate(rule, anchor, t) <= 0
<1>1. PICK u \in Nat \ {0} : u = UnitTicks(rule)
  BY UnitNat
<1>2. PICK units \in Int : units = (t - anchor) \div u
  BY <1>1, UnitNat
<1>3. units <= 0
  <2>1. PICK d \in Int : d = t - anchor
    OBVIOUS
  <2>2. d \div u <= 0 \div u
    BY <2>1, 0 \in Int, d <= 0, DivisionMonotone
  <2>3. 0 \div u = 0
    OBVIOUS
  <2> QED BY <1>2, <2>1, <2>2, <2>3
<1> QED BY <1>1, <1>2, <1>3 DEF Estimate

(* A time between two others that the string names.                          *)
LEMMA BetweenTime ==
    ASSUME NEW str, NEW anchor, NEW t1, NEW t2, MatchBetween(str, anchor, t1, t2)
    PROVE  \E c \in Int : /\ t1 < c /\ c < t2
                          /\ DateMatches(str, anchor, DayOf(c)) /\ TimeMatches(str, anchor, c)
<1>1. DayTicks \in Nat \ {0}
  BY ClockUnits
<1>2. PICK jd \in DayOf(t1) .. DayOf(t2) :
        /\ DateMatches(str, anchor, jd)
        /\ \E t \in jd * DayTicks .. (jd + 1) * DayTicks - 1 :
              t1 < t /\ t < t2 /\ TimeMatches(str, anchor, t)
  BY Zenon DEF MatchBetween
<1>3. PICK c \in jd * DayTicks .. (jd + 1) * DayTicks - 1 :
        t1 < c /\ c < t2 /\ TimeMatches(str, anchor, c)
  BY <1>2
<1>4. jd \in Int /\ c \in Int
  OBVIOUS
<1>5. DayOf(c) = jd
  <2>1. PICK r \in Int : r = c - jd * DayTicks
    BY <1>1, <1>4
  <2>2. r \in 0 .. DayTicks - 1 /\ c = DayTicks * jd + r
    BY <1>1, <1>3, <1>4, <2>1
  <2>3. (DayTicks * jd + r) \div DayTicks = jd
    BY <1>1, <1>4, <2>2, DivisionUnique
  <2> QED BY <2>2, <2>3 DEF DayOf
<1> QED BY <1>2, <1>3, <1>4, <1>5, Zenon

(* A search does not start after the period of a later time that fits.       *)
LEMMA ForwardInTime ==
    ASSUME NEW rule, GoodRule(rule), NEW anchor \in Int, NEW t \in Int, NEW c \in Int,
           t <= c, anchor <= c, NEW k \in Int, Period(rule, anchor, c) = k * rule.interval
    PROVE  FastForward(rule, anchor, t) <= k
<1>1. PICK n \in 1 .. 99 : n = rule.interval
  BY DEF GoodRule
<1>2. PICK e \in Int : e = Estimate(rule, anchor, t)
  BY UnitNat
<1>3. PICK ff : ff = FastForward(rule, anchor, t)
  OBVIOUS
<1>4. (t <= anchor => ff = 0) /\ (ff = 0 \/ ff = (e \div n) - 2)
  <2>1. ff = IF t > anchor /\ (e \div n) > 2 THEN (e \div n) - 2 ELSE 0
    BY <1>1, <1>2, <1>3, ForwardEstimate, ZenonT(30)
  <2> QED BY <2>1
<1>5. 0 <= k * n
  <2>1. Period(rule, anchor, anchor) <= Period(rule, anchor, c)
    BY PeriodMonotone
  <2>2. Period(rule, anchor, anchor) = 0
    BY PeriodAnchor
  <2> QED BY <1>1, <2>1, <2>2
<1>6. ff = 0 \/ \E p \in Int : e <= p + 1 /\ p <= k * n
  <2>1. CASE t <= anchor
    BY <1>4, <2>1
  <2>2. CASE anchor <= t
    <3>1. PICK q \in Int : q = Period(rule, anchor, t)
      BY PeriodInt
    <3>2. e <= q + 1
      BY <1>2, <2>2, <3>1, EstimateNotLate
    <3>3. q <= k * n
      BY <1>1, <3>1, PeriodMonotone
    <3> QED BY <3>2, <3>3, ZenonT(30)
  <2> QED BY <2>1, <2>2
<1>7. ff <= k
  <2>1. CASE ff = 0
    <3> SUFFICES ASSUME k <= -1 PROVE FALSE
      BY <2>1
    <3>1. k * n <= -1
      OBVIOUS
    <3> QED BY <1>5, <3>1
  <2>2. CASE ff # 0
    BY <1>4, <1>5, <1>6, <2>2, StartInTime
  <2> QED BY <2>1, <2>2
<1> QED BY <1>3, <1>7

(* One that finds nothing has gone past every period within the horizon.     *)
LEMMA ForwardFarEnough ==
    ASSUME NEW str, Accepted(str), NEW anchor \in Int, NEW t \in Int, NEW c \in Int,
           anchor <= c, c <= t + Horizon(str), WithinSlack(anchor, t),
           NEW k \in Int, Period(Rule(str), anchor, c) = k * Rule(str).interval
    PROVE  k < FastForward(Rule(str), anchor, t) + MaxPeriods
<1>1. PICK rule : rule = Rule(str)
  OBVIOUS
<1>2. GoodRule(rule)
  BY <1>1, RuleGood
<1>3. PICK i \in 1 .. 99 : i = rule.interval
  BY <1>2 DEF GoodRule
<1>4. PICK e \in Int : e = Estimate(rule, anchor, t)
  BY UnitNat
<1>5. PICK ff \in Nat : ff = FastForward(rule, anchor, t)
  BY <1>2, FastForwardNat
<1>6. PICK max \in Nat : max = MaxPeriods
  BY CalendarAssumption
<1>7. PICK slack \in Nat : slack = Slack /\ slack >= 6 /\ slack < max
  BY <1>6, CalendarAssumption, SlackAssumption
<1>8. PICK n \in Nat : n = (max - slack) * i
  BY <1>7
<1>9. c <= t + (n * UnitLength(rule)) * UnitTicks(rule)
  BY <1>1, <1>3, <1>6, <1>7, <1>8, HorizonUnits, Zenon
<1>10. PICK z \in Nat : z = slack - 6
  BY <1>7
<1>11. t - anchor <= (480 * z) * DayTicks
  BY <1>7, <1>10 DEF WithinSlack
<1>12. Period(rule, anchor, c) <= e + n + z + 2
  BY <1>2, <1>4, <1>9, <1>11, EstimateNotFar
<1>13. k * i <= e + (max - slack) * i + slack - 4
  <2>1. PICK p \in Int : p = k * i
    OBVIOUS
  <2>2. p <= e + n + z + 2
    BY <1>1, <1>3, <1>12, <2>1
  <2> QED BY <1>8, <1>10, <2>1, <2>2
<1>14. (ff >= 0 /\ e <= 0) \/ ff >= (e \div i) - 2
  <2>1. ff = IF t > anchor /\ (e \div i) > 2 THEN (e \div i) - 2 ELSE 0
    BY <1>2, <1>3, <1>4, <1>5, ForwardEstimate, ZenonT(30)
  <2>2. t <= anchor => e <= 0
    BY <1>4, EstimateBefore
  <2>3. e \div i \in Int
    BY i \in Nat \ {0}, Division
  <2> QED BY <2>1, <2>2, <2>3
<1>15. k < ff + max
  BY <1>7, <1>13, <1>14, EndInTime
<1> QED BY <1>1, <1>5, <1>6, <1>15

(* However far a search is taken forward, no date that the calendar names is *)
(* passed over; and if it gives up, there is none within the horizon.        *)
THEOREM NothingSkippedHolds == Spec => []NothingSkipped
<1>1. CalendarInv => NothingSkipped
  <2> DEFINE until == IF next = Never THEN after + Horizon(string) ELSE next
             rule == Rule(string)
  <2> SUFFICES ASSUME CalendarInv, MatchBetween(string, start, after, until) PROVE FALSE
    BY DEF NothingSkipped
  <2>1. /\ Accepted(string) /\ start \in Int /\ after \in Int
        /\ WithinSlack(start, after) /\ next = eval_calendar(rule, start, after)
    BY DEF CalendarInv
  <2>2. GoodRule(rule)
    BY <2>1, RuleGood
  <2>3. PICK c \in Int : /\ after < c /\ c < until
                         /\ DateMatches(string, start, DayOf(c)) /\ TimeMatches(string, start, c)
    BY BetweenTime, Zenon
  <2>4. /\ c >= start /\ Fits(rule, start, c)
        /\ \E k \in Int : Period(rule, start, c) = k * rule.interval
    BY <2>1, <2>3, MatchesFit, ZenonT(30)
  <2>5. PICK k \in Int : Period(rule, start, c) = k * rule.interval
    BY <2>4
  <2> HIDE DEF rule
  <2>6. c \in TakenIn(rule, start, after, k)
    <3>1. c \in Candidates(rule, start, k)
      BY <2>1, <2>2, <2>4, <2>5, CandidatesExact, ZenonT(30)
    <3> QED BY <2>1, <2>3, <2>4, <3>1 DEF TakenIn
  <2>7. PICK ff \in Nat : ff = FastForward(rule, start, after)
    BY <2>1, <2>2, FastForwardNat
  <2>8. ff <= k
    BY <2>1, <2>2, <2>3, <2>4, <2>5, <2>7, ForwardInTime
  <2>9. CASE next = Never
    <3>1. c <= after + Horizon(string)
      <4>1. c < after + Horizon(string)
        BY <2>3, <2>9, Zenon
      <4>2. PICK n \in Nat : n = (MaxPeriods - Slack) * Rule(string).interval
        BY <2>1, HorizonUnits, Zenon
      <4>3. Horizon(string) = (n * UnitLength(Rule(string))) * UnitTicks(Rule(string))
        BY <2>1, <4>2, HorizonUnits, Zenon
      <4>4. UnitLength(Rule(string)) \in Nat /\ UnitTicks(Rule(string)) \in Nat
        BY ClockUnits DEF UnitLength, UnitTicks
      <4>5. Horizon(string) \in Int
        BY <4>3, <4>4
      <4> QED BY <2>1, <4>1, <4>5
    <3>2. k < ff + MaxPeriods
      <4>1. start <= c
        BY <2>1, <2>4
      <4> QED BY <2>1, <2>5, <2>7, <3>1, <4>1, ForwardFarEnough, ZenonT(30) DEF rule
    <3>3. \A j \in ff .. ff + MaxPeriods - 1 : TakenIn(rule, start, after, j) = {}
      <4>1. next \notin Int
        BY <2>9, CalendarAssumption
      <4>2. \A j \in FastForward(rule, start, after) .. FastForward(rule, start, after) + MaxPeriods - 1 :
               TakenIn(rule, start, after, j) = {}
        BY <2>1, <2>2, <4>1, EvalExact
      <4> QED BY <2>7, <4>2, Zenon
    <3>4. MaxPeriods \in Nat
      BY CalendarAssumption
    <3> QED BY <2>6, <2>8, <3>2, <3>3, <3>4
  <2>10. CASE next # Never
    <3>1. next \in Int /\ \E j : FoundIn(rule, start, after, next, j)
      BY <2>1, <2>2, <2>10, EvalExact
    <3>2. PICK j : FoundIn(rule, start, after, next, j)
      BY <3>1
    <3>3. /\ j \in Int /\ j >= ff /\ next \in TakenIn(rule, start, after, j)
          /\ \A d \in TakenIn(rule, start, after, j) : next <= d
          /\ \A i \in ff .. j - 1 : TakenIn(rule, start, after, i) = {}
      BY <2>7, <3>2 DEF FoundIn
    <3>4. c < next
      BY <2>3, <2>10
    <3>5. Period(rule, start, next) = j * rule.interval
      BY <2>1, <2>2, <3>3, CandidatesExact DEF TakenIn
    <3>6. Period(rule, start, c) <= Period(rule, start, next)
      BY <2>1, <2>2, <3>1, <3>4, PeriodMonotone
    <3>7. k <= j
      <4>1. PICK n \in 1 .. 99 : n = rule.interval
        BY <2>2 DEF GoodRule
      <4>2. k * n <= j * n
        BY <2>5, <3>5, <3>6, <4>1
      <4> SUFFICES ASSUME k >= j + 1 PROVE FALSE
        BY <3>3
      <4>3. PICK w \in Int : w = k - j
        BY <3>3
      <4>4. w * n >= 1
        BY <3>3, <4>3
      <4>5. k * n = j * n + w * n
        BY <3>3, <4>3
      <4> QED BY <3>3, <4>2, <4>4, <4>5
    <3>8. CASE k = j
      BY <2>6, <3>1, <3>3, <3>4, <3>8
    <3>9. CASE k # j
      BY <2>6, <2>8, <3>3, <3>7, <3>9
    <3> QED BY <3>8, <3>9
  <2> QED BY <2>9, <2>10
<1> QED BY <1>1, CalendarInvariant, PTL
=============================================================================
