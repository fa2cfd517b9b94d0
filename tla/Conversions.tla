----------------------------- MODULE Conversions -----------------------------
(***************************************************************************)
(* Computations that keep no state, each checked against a definition that *)
(* says what it is for: the calendar of certificates, the start of a       *)
(* process, its credentials, its origins.  input is what one of them was   *)
(* given; each step gives one of them another input.                       *)
(***************************************************************************)
EXTENDS Calendar, Configuration, FiniteSets

CONSTANTS Clocks,        \* instants at which certificates are built
          Laters,        \* ticks between two of them
          Validity,      \* years that certificates are good for
          Ends,          \* values of notAfter, seen from instants up to MaxNow
          MaxNow,
          Characters,    \* of texts
          Environments,  \* what processes find in their environment
          Presented,     \* credentials that callers present
          Origins        \* Origin headers

ASSUME InstantsAssumption ==
    /\ Clocks \subseteq Nat /\ Laters \subseteq Nat /\ Validity \subseteq Nat
    /\ Ends \subseteq Nat

Text == Seq(Characters) \cup {Absent}

ASSUME TextsAssumption ==
    /\ Presented \subseteq Text /\ Origins \subseteq Text
    /\ \A env \in Environments :
          {env.USERNAME, env.PASSWORD, env.FRONTEND_URL, env.FRONTEND_URLS} \subseteq Text

VARIABLE input

NoInput == [of |-> "none"]

Build ==
    /\ input = NoInput
    /\ \E t \in Clocks, later \in Laters, y \in Validity :
          input' = [of |-> "certificate", clock |-> t, later |-> later, years |-> y]

Show ==
    /\ input = NoInput
    /\ \E end \in Ends, now \in 0..MaxNow :
          input' = [of |-> "status", notAfter |-> end, now |-> now]

Boot ==
    /\ input = NoInput
    /\ \E env \in Environments : input' = [of |-> "process", env |-> env]

\* The administration service calls a process that has started.
Call ==
    /\ input.of = "process" /\ Starts(input.env)
    /\ \E c \in Presented : input' = [of |-> "call", env |-> input.env, credentials |-> c]

\* A browser does.
Browse ==
    /\ input.of = "process" /\ Starts(input.env)
    /\ \E o \in Origins : input' = [of |-> "origin", env |-> input.env, origin |-> o]

ConversionsInit == input = NoInput

Forget == input # NoInput /\ input' = NoInput

ConversionsNext == Build \/ Show \/ Boot \/ Call \/ Browse \/ Forget

ConversionsSpec == ConversionsInit /\ [][ConversionsNext]_input

-----------------------------------------------------------------------------
(* Certificates *)

IsDate(d) == DateOf(MakeDay(d.year, d.month, d.day)) = d

\* A certificate ends on the date and at the time of day at which it was
\* built, so many years on, also over 29 February and the year 2100; one that
\* is built on a leap day ends on 1 March when its last year has no such day.
\* It lasts 365 days a year and one for every leap day on the way.
EndsOnItsAnniversary ==
    input.of = "certificate" =>
        LET t     == input.clock
            issue == Date(t)
            end   == NotAfter(t, input.years)
            same  == [issue EXCEPT !.year = @ + input.years]
            leaps == {y \in issue.year..Date(end).year :
                         Leap(y) /\ MakeDay(y, 2, 29) \in (t \div Day)..(end \div Day - 1)}
        IN  /\ end % Day = t % Day
            /\ Date(end) = IF IsDate(same) THEN same
                           ELSE [same EXCEPT !.month = 3, !.day = 1]
            /\ end = t + (365 * input.years + Cardinality(leaps)) * Day

\* To renew a certificate never shortens it, but one that is renewed on 1 March
\* may end earlier on that day than the one of 29 February that it replaces;
\* within four years, it lengthens it by the time that has passed, give or take
\* a day.
RenewalExtends ==
    input.of = "certificate" =>
        LET first   == NotAfter(input.clock, input.years)
            renewed == NotAfter(input.clock + input.later, input.years)
        IN  /\ \/ first <= renewed
               \/ /\ Date(input.clock).month = 2 /\ Date(input.clock).day = 29
                  /\ Date(renewed) = Date(first) /\ Date(first).day = 1
            /\ input.later <= 1460 * Day =>
                  /\ renewed + Day >= first + input.later
                  /\ renewed <= first + input.later + Day

\* The days that the status shows are those that signing has left: the user
\* can sign when as many days have gone by, and no longer after one more; a
\* certificate shown as expired does not sign now.  Also at the last tick.
DaysRemainingAreLeft ==
    input.of = "status" =>
        LET days == DaysRemaining(input.notAfter, input.now)
        IN  IF IsExpired(input.notAfter, input.now)
            THEN days = 0 /\ ~MaySign(input.notAfter, input.now)
            ELSE /\ MaySign(input.notAfter, input.now + days * Day)
                 /\ ~MaySign(input.notAfter, input.now + (days + 1) * Day)

-----------------------------------------------------------------------------
(* Processes *)

Blanks(n) == [i \in 1..n |-> Blank]

\* Whom a process lets in as the administration service, however the parts of
\* the header are cut and trimmed: exactly those who present the two expected
\* texts around a colon, with blanks about the first at most.  Nobody is, when
\* a colon is in the user name: then the process starts, and no request can be
\* reviewed.
AdmitsExactlyThePair ==
    input.of = "call" =>
        LET pair == Expected(input.env)
        IN  Authenticates(input.env, input.credentials)
              <=> /\ Colons(pair.username) = {}
                  /\ \E i, j \in 0..Len(input.credentials) :
                        input.credentials = Blanks(i) \o pair.username \o Blanks(j)
                                              \o <<":">> \o pair.password

\* An administration service that is configured with the same two texts gets
\* in, unless there is a colon in the user name or a blank at either end of
\* the password, which this side trims and that side does not.
SameTextsAdmit ==
    input.of = "process" /\ Starts(input.env) =>
        LET env == input.env
        IN  Authenticates(env, env.USERNAME \o <<":">> \o env.PASSWORD)
              <=> Colons(env.USERNAME) = {} /\ env.PASSWORD = Trim(env.PASSWORD)

\* s has origin between two commas, or an end, and blanks.
Lists(s, origin) ==
    \E i \in DOMAIN s :
        LET j == i + Len(origin) - 1
        IN  /\ j <= Len(s) /\ SubSeq(s, i, j) = origin
            /\ \E a \in 0..(i - 1) : /\ a = 0 \/ s[a] = ","
                                     /\ IsBlank(SubSeq(s, a + 1, i - 1))
            /\ \E b \in (j + 1)..(Len(s) + 1) : /\ b = Len(s) + 1 \/ s[b] = ","
                                                /\ IsBlank(SubSeq(s, j + 1, b - 1))

\* The origins let in are those that one of the two variables lists between
\* commas, wherever blanks and empty entries are; and calls without an origin.
OriginsAreListed ==
    input.of = "origin" =>
        LET o == input.origin
        IN  OriginAllowed(input.env, o)
              <=> \/ o \in {Absent, << >>}
                  \/ /\ o = Trim(o)
                     /\ \A i \in DOMAIN o : o[i] # ","
                     /\ \E s \in {input.env.FRONTEND_URL, input.env.FRONTEND_URLS} :
                           s # Absent /\ Lists(s, o)
=============================================================================
