-------------------------------- MODULE Dates --------------------------------
(* Day numbers and dates as the server converts them (datetime.c).  Years    *)
(* and months are never 0 here, so the Oracle reading of a missing year or   *)
(* month in date2j is not reached.                                           *)
EXTENDS Integers

date2j(year, month, day) ==
    LET m == IF month > 2 THEN month + 1 ELSE month + 13
        y == IF month > 2 THEN year + 4800 ELSE year + 4799
        century == y \div 100
    IN  y * 365 - 32167 + y \div 4 - century + century \div 4
            + (7834 * m) \div 256 + day

j2date(jd) ==
    LET shifted == jd + 32044
        quad == shifted \div 146097
        extra == (shifted - quad * 146097) * 4 + 3
        julian == shifted + 60 + quad * 3 + extra \div 146097
        cycle == julian \div 1461
        inCycle == julian - cycle * 1461
        y == (inCycle * 4) \div 1461
        inYear == 123 + IF y # 0 THEN (inCycle + 305) % 365 ELSE (inCycle + 306) % 366
        m == (inYear * 2141) \div 65536
    IN  [year |-> y + cycle * 4 - 4800, mon |-> ((m + 10) % 12) + 1,
         mday |-> inYear - (7834 * m) \div 256]

\* 0 is Sunday.
j2day(jd) == (jd + 1) % 7

isleap(y) == y % 4 = 0 /\ (y % 100 # 0 \/ y % 400 = 0)
=============================================================================
