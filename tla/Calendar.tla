------------------------------ MODULE Calendar -------------------------------
(* Calendar strings (scheduler_calendar.c): which of them are accepted, and  *)
(* the next time one names.  A job asks when it is enabled and every time it *)
(* is claimed, with its start date as the anchor and the time it is now; the *)
(* scheduler asks for the next purge with now as the anchor too.             *)
(*                                                                           *)
(* Dates are the real ones.  The clock is smaller: a day has Hours hours, an *)
(* hour Minutes minutes, a minute Seconds seconds, and a second Ticks ticks, *)
(* which stand for microseconds.  Time is counted in ticks, in a zone        *)
(* without daylight saving.  A string is a sequence of clauses, a clause a   *)
(* name and the set of values its list has.                                  *)
EXTENDS Dates, Sequences, FiniteSets, FiniteSetsExt

CONSTANTS
    Hours, Minutes, Seconds, Ticks,  \* the clock
    MaxPeriods,                      \* SCHED_MAX_PERIODS
    Slack,      \* periods a search may spend before it reaches "after"
    Strings,    \* calendar strings a job may be created with
    Starts,     \* start dates, in ticks
    Lags,       \* how late a job may be claimed, in ticks
    LastDay,    \* bounds the time, as a day number
    Never       \* there is no next time

ASSUME CalendarAssumption ==
    /\ {Hours, Minutes, Seconds, Ticks, MaxPeriods, Slack, LastDay} \subseteq Nat \ {0}
    /\ Slack < MaxPeriods /\ Starts \cup Lags \subseteq Nat /\ Never \notin Int

VARIABLES
    use,     \* what the calendar is for, a job or the purge of the log
    string,  \* repeat_interval, or ivorysql.scheduler_purge_schedule
    start,   \* the anchor
    after,   \* the time the next time was asked at
    next     \* what the answer was

vars == <<use, string, start, after, next>>

(********************************* The clock ********************************)

MinuteTicks == Seconds * Ticks
HourTicks == Minutes * MinuteTicks
DayTicks == Hours * HourTicks

DayOf(t) == t \div DayTicks
HourOf(t) == (t % DayTicks) \div HourTicks
MinuteOf(t) == (t % HourTicks) \div MinuteTicks
SecondOf(t) == (t % MinuteTicks) \div Ticks

(* local_time_to_timestamptz                                                 *)
At(jd, h, m, s) == jd * DayTicks + h * HourTicks + m * MinuteTicks + s * Ticks

(********************************* Parsing **********************************)

Freqs == {"YEARLY", "MONTHLY", "WEEKLY", "DAILY", "HOURLY", "MINUTELY", "SECONDLY"}

days_in_month(year, month) ==
    IF month = 2 /\ isleap(year) THEN 29
    ELSE <<31, 28, 31, 30, 31, 30, 31, 31, 30, 31, 30, 31>>[month]

(* What the item callbacks accept.  A weekday comes with its ordinal, 0 when *)
(* it has none; a date with its year, 0 when it has none.                    *)
ValidValue(name, v) ==
    CASE name = "FREQ" -> v \in Freqs
      [] name = "INTERVAL" -> v \in 1 .. 99
      [] name = "BYMONTH" -> v \in 1 .. 12
      [] name = "BYMONTHDAY" -> v \in (-31 .. 31) \ {0}
      [] name = "BYDAY" -> v.dow \in 0 .. 6 /\ v.ord \in -5 .. 5
      [] name = "BYDATE" ->
            /\ v.mon \in 1 .. 12
            /\ v.mday \in 1 .. days_in_month(IF v.year > 0 THEN v.year ELSE 2000, v.mon)
      [] name = "BYHOUR" -> v \in 0 .. Hours - 1
      [] name = "BYMINUTE" -> v \in 0 .. Minutes - 1
      [] name = "BYSECOND" -> v \in 0 .. Seconds - 1
      [] OTHER -> FALSE

Values(str, name) == UNION {str[i].values : i \in {j \in DOMAIN str : str[j].name = name}}

\* parse_calendar; what it makes of a string it accepts.
Rule(str) ==
    [freq |-> CHOOSE f \in Values(str, "FREQ") : TRUE,
     interval |-> CHOOSE n \in Values(str, "INTERVAL") \cup {1} :
                     Values(str, "INTERVAL") \subseteq {n},
     bymonth |-> Values(str, "BYMONTH"), bymonthday |-> Values(str, "BYMONTHDAY"),
     byday |-> Values(str, "BYDAY"), bydate |-> Values(str, "BYDATE"),
     byhour |-> Values(str, "BYHOUR"), byminute |-> Values(str, "BYMINUTE"),
     bysecond |-> Values(str, "BYSECOND")]

\* Fault: an ordinal is accepted with every frequency.
AcceptedOrdinals(str) ==
    /\ \A i, j \in DOMAIN str : str[i].name = str[j].name => i = j
    /\ \A i \in DOMAIN str : /\ str[i].values # {}
                             /\ \A v \in str[i].values : ValidValue(str[i].name, v)
    /\ Cardinality(Values(str, "FREQ")) = 1 /\ Cardinality(Values(str, "INTERVAL")) <= 1

(* parse_calendar; what it accepts.                                          *)
Accepted(str) ==
    /\ \A i, j \in DOMAIN str : str[i].name = str[j].name => i = j
    /\ \A i \in DOMAIN str : /\ str[i].values # {}
                             /\ \A v \in str[i].values : ValidValue(str[i].name, v)
    /\ Cardinality(Values(str, "FREQ")) = 1 /\ Cardinality(Values(str, "INTERVAL")) <= 1
    /\ (\E v \in Values(str, "BYDAY") : v.ord # 0) =>
          Values(str, "FREQ") \subseteq {"YEARLY", "MONTHLY"}

(******************************** Evaluation ********************************)

\* Present clauses have values.
Present(clause) == clause # {}

\* Does the date appear in the BYDATE list?
bydate_matches(rule, year, mon, mday) ==
    \E b \in rule.bydate : b.mon = mon /\ b.mday = mday /\ b.year \in {0, year}

\* BYMONTHDAY: negative values count from the end of the month.
FromMonthEnd(d, dim) == IF d < 0 THEN dim + d + 1 ELSE d

(* The days BYDAY generates in a month of dim days that starts on first_dow. *)
ByDayDays(v, first_dow, dim) ==
    LET first_match == 1 + (((v.dow - first_dow) + 7) % 7)
        count == (dim - first_match) \div 7 + 1
    IN  CASE v.ord = 0 -> {d \in first_match .. dim : (d - first_match) % 7 = 0}
          [] v.ord > 0 -> {first_match + (v.ord - 1) * 7 : n \in {v.ord} \cap 1 .. count}
          [] v.ord < 0 -> {first_match + (count + v.ord) * 7 : n \in {-v.ord} \cap 1 .. count}

(* BYDAY as a filter on a day that BYMONTHDAY generated, in a month like it. *)
ByDayKeeps(v, d, first_dow, dim) ==
    LET first_match == 1 + (((v.dow - first_dow) + 7) % 7)
        nth == (d - first_match) \div 7 + 1
    IN  /\ (first_dow + d - 1) % 7 = v.dow
        /\ \/ v.ord = 0
           \/ v.ord > 0 /\ nth = v.ord
           \/ v.ord < 0 /\ nth = (dim - first_match) \div 7 + 1 + v.ord + 1

month_day_list(rule, year, mon, fallback_mday) ==
    LET dim == days_in_month(year, mon)
        first_dow == j2day(date2j(year, mon, 1))
        marked ==
            IF Present(rule.bymonthday)
            THEN {d \in {FromMonthEnd(v, dim) : v \in rule.bymonthday} \cap 1 .. dim :
                    Present(rule.byday) =>
                        \E v \in rule.byday : ByDayKeeps(v, d, first_dow, dim)}
            ELSE IF Present(rule.byday)
            THEN UNION {ByDayDays(v, first_dow, dim) : v \in rule.byday}
            ELSE IF Present(rule.bydate)
            THEN {b.mday : b \in {c \in rule.bydate : /\ c.mon = mon /\ c.year \in {0, year}
                                                      /\ c.mday <= dim}}
            ELSE {fallback_mday} \cap 1 .. dim
        filtered == Present(rule.bydate) /\ (Present(rule.bymonthday) \/ Present(rule.byday))
    IN  {d \in marked : filtered => bydate_matches(rule, year, mon, d)}

date_matches(rule, date, dow) ==
    /\ Present(rule.bymonth) => date.mon \in rule.bymonth
    /\ Present(rule.bymonthday) =>
          date.mday \in {FromMonthEnd(v, days_in_month(date.year, date.mon)) :
                           v \in rule.bymonthday}
    /\ Present(rule.byday) => \E v \in rule.byday : v.dow = dow
    /\ Present(rule.bydate) => bydate_matches(rule, date.year, date.mon, date.mday)

(* scan_times_on_date: the candidates of one date.  fixed gives the hour and *)
(* the minute that are not taken from the BY lists.                          *)
TimesOn(rule, anchor, jd, fixed) ==
    LET set_to_list(set, value) == IF Present(set) THEN set ELSE {value}
        hours == IF "hour" \in DOMAIN fixed THEN {fixed.hour}
                 ELSE set_to_list(rule.byhour, HourOf(anchor))
        minutes == IF "minute" \in DOMAIN fixed THEN {fixed.minute}
                   ELSE set_to_list(rule.byminute, MinuteOf(anchor))
    IN  {At(jd, h, m, s) : h \in hours, m \in minutes,
                           s \in set_to_list(rule.bysecond, SecondOf(anchor))}

Step(rule) ==
    rule.interval * (CASE rule.freq = "HOURLY" -> HourTicks
                       [] rule.freq = "MINUTELY" -> MinuteTicks
                       [] rule.freq = "SECONDLY" -> Ticks)

\* The dates a period of days or more enumerates.
DatesOf(rule, anchor, k) ==
    LET from == j2date(DayOf(anchor))
        InMonth(year, mon) == {date2j(year, mon, d) :
                                 d \in month_day_list(rule, year, mon, from.mday)}
    IN  CASE rule.freq = "YEARLY" ->
               UNION {InMonth(from.year + k * rule.interval, mon) :
                        mon \in IF Present(rule.bymonth) THEN rule.bymonth
                                ELSE IF Present(rule.bydate) THEN 1 .. 12
                                ELSE {from.mon}}
          [] rule.freq = "MONTHLY" ->
               LET mindex == from.year * 12 + (from.mon - 1) + k * rule.interval
                   mon == (mindex % 12) + 1
               IN  IF Present(rule.bymonth) /\ mon \notin rule.bymonth THEN {}
                   ELSE InMonth(mindex \div 12, mon)
          [] rule.freq = "WEEKLY" ->
               LET j0 == DayOf(anchor) + k * rule.interval * 7
               IN  {jd \in j0 .. j0 + 6 :
                      /\ IF Present(rule.byday)
                         THEN \E v \in rule.byday : v.dow = j2day(jd)
                         ELSE jd = j0
                      /\ Present(rule.bymonth) => j2date(jd).mon \in rule.bymonth}
          [] rule.freq = "DAILY" ->
               LET jd == DayOf(anchor) + k * rule.interval
               IN  {d \in {jd} : date_matches(rule, j2date(d), j2day(d))}

(* The times a period of hours or less enumerates.                           *)
TimesOf(rule, anchor, k) ==
    LET base == anchor + k * Step(rule)
        jd == DayOf(base) h == HourOf(base) m == MinuteOf(base)
    IN  IF \/ ~date_matches(rule, j2date(jd), j2day(jd))
           \/ Present(rule.byhour) /\ h \notin rule.byhour
           \/ /\ rule.freq # "HOURLY"
              /\ Present(rule.byminute) /\ m \notin rule.byminute
           \/ /\ rule.freq = "SECONDLY"
              /\ Present(rule.bysecond) /\ SecondOf(base) \notin rule.bysecond
        THEN {}
        ELSE CASE rule.freq = "HOURLY" -> TimesOn(rule, anchor, jd, [hour |-> h])
               [] rule.freq = "MINUTELY" -> TimesOn(rule, anchor, jd, [hour |-> h, minute |-> m])
               [] rule.freq = "SECONDLY" -> {base - (base % Ticks)}

Candidates(rule, anchor, k) ==
    IF rule.freq \in {"HOURLY", "MINUTELY", "SECONDLY"} THEN TimesOf(rule, anchor, k)
    ELSE UNION {TimesOn(rule, anchor, jd, <<>>) : jd \in DatesOf(rule, anchor, k)}

\* Fault: a month is taken to have 28 days.
FastForwardShort(rule, anchor, t) ==
    LET days == (t - anchor) \div DayTicks
        periods ==
            CASE rule.freq = "YEARLY" -> (days \div 366) \div rule.interval
              [] rule.freq = "MONTHLY" -> (days \div 28) \div rule.interval
              [] rule.freq = "WEEKLY" -> days \div (7 * rule.interval)
              [] rule.freq = "DAILY" -> days \div rule.interval
              [] OTHER -> (t - anchor) \div Step(rule)
    IN  IF t > anchor /\ periods > 2 THEN periods - 2 ELSE 0

(* The period the search starts with: an estimate that is never too late.    *)
FastForward(rule, anchor, t) ==
    LET days == (t - anchor) \div DayTicks
        periods ==
            CASE rule.freq = "YEARLY" -> (days \div 366) \div rule.interval
              [] rule.freq = "MONTHLY" -> (days \div 32) \div rule.interval
              [] rule.freq = "WEEKLY" -> days \div (7 * rule.interval)
              [] rule.freq = "DAILY" -> days \div rule.interval
              [] OTHER -> (t - anchor) \div Step(rule)
    IN  IF t > anchor /\ periods > 2 THEN periods - 2 ELSE 0

(* eval_calendar.  Within a period the lists ascend, so that the first       *)
(* candidate that consider_candidate takes is the earliest.                  *)
eval_calendar(rule, anchor, t) ==
    LET k0 == FastForward(rule, anchor, t)
        Taken(k) == {c \in Candidates(rule, anchor, k) : c > t /\ c >= anchor}
    IN  IF \E k \in k0 .. k0 + MaxPeriods - 1 : Taken(k) # {}
        THEN Min(Taken(CHOOSE k \in k0 .. k0 + MaxPeriods - 1 :
                          Taken(k) # {} /\ \A j \in k0 .. k - 1 : Taken(j) = {}))
        ELSE Never

(****************************** Specification *******************************)

(* A job is enabled: sched_first_run_date, at one of the times of Starts.    *)
(* "back the probe off by one microsecond".                                  *)
FirstRun ==
    /\ use = "job"
    /\ start \in Starts /\ after \in {now - 1 : now \in Starts}
    /\ next = eval_calendar(Rule(string), start, after)

(* The purge is scheduled.                                                   *)
FirstPurge ==
    /\ use = "purge"
    /\ start \in Starts /\ after = start
    /\ next = eval_calendar(Rule(string), start, after)

Init ==
    /\ string \in {str \in Strings : Accepted(str)}
    /\ FirstRun \/ FirstPurge

(* sched_claim_one_job: the following run, anchored at start_date, now that  *)
(* the job is due.                                                           *)
Claim(lag) ==
    /\ use = "job" /\ next # Never /\ DayOf(next) <= LastDay
    /\ after' = next + lag
    /\ next' = eval_calendar(Rule(string), start, next + lag)
    /\ UNCHANGED <<use, string, start>>

(* sched_next_purge_time, now that the purge is due: anchored at now.        *)
NextPurge(lag) ==
    /\ use = "purge" /\ next # Never /\ DayOf(next) <= LastDay
    /\ start' = next + lag /\ after' = next + lag
    /\ next' = eval_calendar(Rule(string), next + lag, next + lag)
    /\ UNCHANGED <<use, string>>

Next == \E lag \in Lags : Claim(lag) \/ NextPurge(lag)

Spec == Init /\ [][Next]_vars

(********************** What a calendar string means ************************)

(* A date satisfies a BY clause.                                             *)
OnDate(clause, jd) ==
    LET date == j2date(jd)
        dim == days_in_month(date.year, date.mon)
    IN  CASE clause.name = "BYMONTH" -> date.mon \in clause.values
          [] clause.name = "BYMONTHDAY" ->
                {date.mday, date.mday - dim - 1} \cap clause.values # {}
          [] clause.name = "BYDAY" ->
                \E v \in clause.values :
                    /\ v.dow = j2day(jd)
                    /\ v.ord \in {0, (date.mday - 1) \div 7 + 1,
                                  -((dim - date.mday) \div 7 + 1)}
          [] clause.name = "BYDATE" ->
                \E v \in clause.values : /\ v.mon = date.mon /\ v.mday = date.mday
                                         /\ v.year \in {0, date.year}
          [] OTHER -> TRUE

AtTime(clause, t) ==
    CASE clause.name = "BYHOUR" -> HourOf(t) \in clause.values
      [] clause.name = "BYMINUTE" -> MinuteOf(t) \in clause.values
      [] clause.name = "BYSECOND" -> SecondOf(t) \in clause.values
      [] OTHER -> TRUE

Names(str) == {str[i].name : i \in DOMAIN str}
Freq(str) == Rule(str).freq

(* "date/time components not constrained by a BY clause are inherited from   *)
(* start_date", where the frequency does not determine them.                 *)
DateInherited(str, anchor, jd) ==
    LET date == j2date(jd) from == j2date(DayOf(anchor))
        Free(clauses) == Names(str) \cap clauses = {}
    IN  /\ Freq(str) = "YEARLY" /\ Free({"BYMONTH", "BYDATE"}) => date.mon = from.mon
        /\ Freq(str) \in {"YEARLY", "MONTHLY"} /\ Free({"BYMONTHDAY", "BYDAY", "BYDATE"})
              => date.mday = from.mday
        /\ Freq(str) = "WEEKLY" /\ Free({"BYDAY"}) => j2day(jd) = j2day(DayOf(anchor))

TimeInherited(str, anchor, t) ==
    /\ Freq(str) \in {"YEARLY", "MONTHLY", "WEEKLY", "DAILY"} /\ "BYHOUR" \notin Names(str)
          => HourOf(t) = HourOf(anchor)
    /\ Freq(str) \notin {"MINUTELY", "SECONDLY"} /\ "BYMINUTE" \notin Names(str)
          => MinuteOf(t) = MinuteOf(anchor)
    /\ Freq(str) # "SECONDLY" /\ "BYSECOND" \notin Names(str)
          => SecondOf(t) = SecondOf(anchor)

(* "the repeat pattern is anchored at start_date"                            *)
DateAnchored(str, anchor, jd) ==
    LET date == j2date(jd) from == j2date(DayOf(anchor))
        days == jd - DayOf(anchor)
    IN  0 = (CASE Freq(str) = "YEARLY" -> date.year - from.year
               [] Freq(str) = "MONTHLY" ->
                     (date.year - from.year) * 12 + date.mon - from.mon
               [] Freq(str) = "WEEKLY" -> days \div 7
               [] Freq(str) = "DAILY" -> days
               [] OTHER -> 0) % Rule(str).interval

TimeAnchored(str, anchor, t) ==
    0 = (CASE Freq(str) = "HOURLY" -> (t \div HourTicks) - (anchor \div HourTicks)
           [] Freq(str) = "MINUTELY" -> (t \div MinuteTicks) - (anchor \div MinuteTicks)
           [] Freq(str) = "SECONDLY" -> (t \div Ticks) - (anchor \div Ticks)
           [] OTHER -> 0) % Rule(str).interval

(* "A date must satisfy every BY clause that is present."                    *)
DateMatches(str, anchor, jd) ==
    /\ DateInherited(str, anchor, jd) /\ DateAnchored(str, anchor, jd)
    /\ \A i \in DOMAIN str : OnDate(str[i], jd)

TimeMatches(str, anchor, t) ==
    /\ t >= anchor /\ t % Ticks = 0
    /\ TimeInherited(str, anchor, t) /\ TimeAnchored(str, anchor, t)
    /\ \A i \in DOMAIN str : AtTime(str[i], t)

(* Some time strictly between two others matches.                            *)
MatchBetween(str, anchor, t1, t2) ==
    \E jd \in DayOf(t1) .. DayOf(t2) :
        /\ DateMatches(str, anchor, jd)
        /\ \E t \in jd * DayTicks .. (jd + 1) * DayTicks - 1 :
              t1 < t /\ t < t2 /\ TimeMatches(str, anchor, t)

(* How far the search gets, at least.                                        *)
Horizon(str) ==
    (MaxPeriods - Slack) * Rule(str).interval *
        (CASE Freq(str) = "YEARLY" -> 365 * DayTicks
           [] Freq(str) = "MONTHLY" -> 28 * DayTicks
           [] Freq(str) = "WEEKLY" -> 7 * DayTicks
           [] Freq(str) = "DAILY" -> DayTicks
           [] OTHER -> Step([Rule(str) EXCEPT !.interval = 1]))

(* How far the model may take a job from its start date: a search starts     *)
(* with an estimate in months of 32 days, and falls behind the real ones by  *)
(* at most one in 480 days.                                                  *)
ASSUME SlackAssumption ==
    /\ Slack >= 6
    /\ \A s \in Starts : \A t \in Starts \cup {(LastDay + 1) * DayTicks + lag : lag \in Lags} :
          t - s <= 480 * (Slack - 6) * DayTicks

(******************************* Properties *********************************)

(* The answer is a time the calendar names: after the time it was asked at,  *)
(* not before the start date, and one that every clause allows.              *)
NextMatches ==
    next # Never =>
        /\ next > after
        /\ DateMatches(string, start, DayOf(next)) /\ TimeMatches(string, start, next)

(* "first timestamp": none is passed over, however far the search is taken   *)
(* forward, and there is no answer only if there is none within the horizon. *)
NothingSkipped ==
    ~MatchBetween(string, start, after,
                  IF next = Never THEN after + Horizon(string) ELSE next)
=============================================================================
