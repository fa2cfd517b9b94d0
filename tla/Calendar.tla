------------------------------ MODULE Calendar ------------------------------
(***************************************************************************)
(* From when to when a certificate is good, on a calendar: the arithmetic  *)
(* of buildPersonalX509() and of the days that the status shows.  The rest *)
(* of the specification counts time in years; here an instant is a number  *)
(* of ticks since 1 January of year 0, Day of them to a day.               *)
(***************************************************************************)
EXTENDS Naturals, Sequences

CONSTANT Day    \* 86_400_000 milliseconds in the code

ASSUME DayAssumption == Day \in Nat \ {0}

Leap(y) == y % 4 = 0 /\ (y % 100 # 0 \/ y % 400 = 0)

\* Days between 1 January of year 0 and of year y; leap years before y.
YearStart(y) == 365 * y + (y + 3) \div 4 - (y + 99) \div 100 + (y + 399) \div 400

\* Days of year y before its month m.
MonthStart(y, m) ==
    <<0, 31, 59, 90, 120, 151, 181, 212, 243, 273, 304, 334, 365>>[m]
        + (IF m > 2 /\ Leap(y) THEN 1 ELSE 0)

\* ECMAScript's MakeDay: a day beyond its month runs over into the next one.
MakeDay(y, m, d) == YearStart(y) + MonthStart(y, m) + d - 1

\* The date of the nth day since 1 January of year 0.
DateOf(n) ==
    LET y == CHOOSE y \in (n \div 366)..(n \div 365) :
                 YearStart(y) <= n /\ n < YearStart(y + 1)
        r == n - YearStart(y)
        m == CHOOSE m \in 1..12 : MonthStart(y, m) <= r /\ r < MonthStart(y, m + 1)
    IN  [year |-> y, month |-> m, day |-> r - MonthStart(y, m) + 1]

Date(t) == DateOf(t \div Day)

\* Date.prototype.setFullYear: the same month, day and time of day in year y.
SetFullYear(t, y) == MakeDay(y, Date(t).month, Date(t).day) * Day + (t % Day)

-----------------------------------------------------------------------------
\* Variant: 365 days are a year.
NotAfterByDays(t, validityYears) == t + 365 * validityYears * Day

\* Variant: certificates end with the year.
NotAfterAtYearsEnd(t, validityYears) ==
    MakeDay(Date(t).year + validityYears, 12, 31) * Day + (t % Day)

\* The end of a certificate built when the clock shows t.
NotAfter(t, validityYears) == SetFullYear(t, Date(t).year + validityYears)

\* Accepted by getActiveCertificate() of sign().
MaySign(notAfter, now) == ~(notAfter < now)

IsExpired(notAfter, now) == notAfter < now

\* Variant: a day that has begun counts.
DaysRoundedUp(notAfter, now) == (notAfter - now + Day - 1) \div Day

WholeDays(notAfter, now) == (notAfter - now) \div Day

\* As getCurrent() and getCurrentStatus() show it.
DaysRemaining(notAfter, now) ==
    IF IsExpired(notAfter, now) THEN 0 ELSE WholeDays(notAfter, now)
=============================================================================
