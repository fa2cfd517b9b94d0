---------------------------- MODULE MCConversions ----------------------------
(* Model checking the conversions: days about leap days, short texts. *)
EXTENDS Conversions, TLC

DaysOf(y) == MakeDay(y, 1, 1)..(MakeDay(y + 1, 1, 1) - 1)

\* The first and the last tick of every day of an ordinary year, a leap year,
\* the last leap year before 2100 and the year before 2100.
MCClocks ==
    {n * Day + tick : n \in UNION {DaysOf(y) : y \in {2023, 2024, 2096, 2099}},
                      tick \in {0, Day - 1}}

Texts(characters, n) == UNION {[1..k -> characters] : k \in 0..n}

InCredentials == {"a", ":", Blank}
InOrigins     == {"a", ",", Blank}

Sound ==
    [APP_ENV |-> "test", APP_PORT |-> 1024,
     size |-> [name \in Secrets |-> 32] @@ [name \in Names |-> 1],
     protocol |-> "mysql:", FRONTEND_URL |-> <<"a">>, FRONTEND_URLS |-> Absent,
     USERNAME |-> <<"a">>, PASSWORD |-> <<"a">>]

\* Any credentials; any origins; one variable that is missing or too short.
MCEnvironments ==
    {[Sound EXCEPT !.USERNAME = u, !.PASSWORD = p] :
        u, p \in Texts(InCredentials, 2) \cup {Absent}}
    \cup {[Sound EXCEPT !.FRONTEND_URL = f, !.FRONTEND_URLS = g] :
             f \in Texts(InOrigins, 3) \cup {Absent},
             g \in Texts(InOrigins, 2) \cup {Absent}}
    \cup {[Sound EXCEPT !.size[name] = n] :
             name \in Secrets \cup Names, n \in {0, 1, 31, 32}}
    \cup {[Sound EXCEPT !.APP_PORT = n] : n \in {0, 1023, 65535, 65536}}
    \cup {[Sound EXCEPT !.APP_ENV = "staging"], [Sound EXCEPT !.protocol = "postgres:"]}

MCPresented == Texts(InCredentials, 5) \cup {Absent}

MCOrigins == Texts(InOrigins, 2) \cup {Absent}
=============================================================================
