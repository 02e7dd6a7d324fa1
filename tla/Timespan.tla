-------------------------------- MODULE Timespan --------------------------------
(***************************************************************************)
(* Timespan and getAgeReport: how long somebody has followed or had an     *)
(* account, told in years, months, days, hours and minutes.                *)
(*                                                                         *)
(* Days are divided by years of 365.25 and months of 30.437 days, in       *)
(* floating point; no quotient comes near enough to a whole number to be   *)
(* rounded across it, so thousandths of a day are counted here.            *)
(***************************************************************************)
EXTENDS Naturals

VARIABLE age        \* totalMinutes of the span since then

TotalHours == age \div 60
TotalDays == TotalHours \div 24

Day == 1000
Month == 30437
Year == 365250

Years == (TotalDays * Day) \div Year
RestOfYear == (TotalDays * Day) % Year

MonthsOfThirtyDays == RestOfYear \div (30 * Day)

Months == RestOfYear \div Month
Days == (RestOfYear % Month) \div Day
Hours == TotalHours % 24
Minutes == age % 60

\* getAgeReport: a part that is 0 is left out, and so are minutes once there are
\* months.
AgeReport ==
    LET parts == [years |-> Years, months |-> Months, days |-> Days, hours |-> Hours,
                  minutes |-> IF Years = 0 /\ Months = 0 THEN Minutes ELSE 0]
    IN  [p \in {q \in DOMAIN parts : parts[q] # 0} |-> parts[p]]

Told(p) == IF p \in DOMAIN AgeReport THEN AgeReport[p] ELSE 0

\* What is told never exceeds the age, falls short of it by less than a day with
\* months and by nothing without, and has no part that the next greater one should
\* have taken: no 12 months, for all that 12 of them are shorter than a year.
AgesAddUp ==
    LET years == Told("years")
        months == Told("months")
        days == Told("days")
        hours == Told("hours")
        told == years * Year + months * Month + days * Day
    IN  /\ told <= TotalDays * Day /\ TotalDays * Day < told + Day
        /\ years = 0 /\ months = 0 => (days * 24 + hours) * 60 + Told("minutes") = age
        /\ months < 12 /\ days <= 30 /\ hours < 24
=============================================================================
