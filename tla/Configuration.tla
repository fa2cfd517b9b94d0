---------------------------- MODULE Configuration ----------------------------
(***************************************************************************)
(* The environment of a process and what is made of it: validateEnv(), the *)
(* credentials of the administration service, the origins that browsers    *)
(* may call from.  A text is a sequence of characters, of which those that *)
(* the code looks for are told apart; one that is not set is Absent.       *)
(***************************************************************************)
EXTENDS Naturals, Sequences

Blank  == " "
Absent == <<"absent">>

IsBlank(s) == \A i \in DOMAIN s : s[i] = Blank

\* String.prototype.trim: what is left from the first to the last character
\* that is not blank.
Trim(s) ==
    IF IsBlank(s) THEN << >>
    ELSE LET solid == {i \in DOMAIN s : s[i] # Blank}
             first == CHOOSE i \in solid : \A j \in solid : i <= j
             last  == CHOOSE i \in solid : \A j \in solid : i >= j
         IN  SubSeq(s, first, last)

-----------------------------------------------------------------------------
(* validateEnv(), at start-up.  size[name] is the length of a text that only *)
(* has to be there, or 0 when it is not; the texts that the code takes apart *)
(* are given as they are.                                                    *)

\* @IsString() @MinLength(32)
Secrets == {"JWT_SECRET", "ENCRYPTION_SECRET", "SIGNATURE_ENCRYPTION_SECRET"}

\* @IsString() @IsNotEmpty()
Names == {"AWS_REGION", "AWS_ACCESS_KEY_ID", "AWS_SECRET_ACCESS_KEY",
          "AWS_S3_BUCKET_NAME"}

LongEnough(size) == \A name \in Secrets : size[name] >= 32

\* The decorators of EnvironmentVariables, and the protocol of DATABASE_URL.
Valid(env) ==
    /\ env.APP_ENV \in {"development", "production", "test"}
    /\ env.APP_PORT \in Nat /\ env.APP_PORT >= 1024 /\ env.APP_PORT <= 65535
    /\ LongEnough(env.size)
    /\ \A name \in Names : env.size[name] > 0
    /\ env.protocol = "mysql:"
    /\ env.FRONTEND_URL \notin {Absent, << >>}
    /\ env.USERNAME \notin {Absent, << >>}
    /\ env.PASSWORD \notin {Absent, << >>}

\* requireConfig(): both are trimmed, and the constructor throws when nothing
\* is left, so that the application does not start.
Expected(env) == [username |-> Trim(env.USERNAME), password |-> Trim(env.PASSWORD)]

Starts(env) ==
    /\ Valid(env)
    /\ Expected(env).username # << >>
    /\ Expected(env).password # << >>

-----------------------------------------------------------------------------
(* ServiceBasicAuthService.authenticate(): credentials are the decoded ones *)
(* of a Basic header, Absent without such a header.                         *)

Colons(credentials) == {i \in DOMAIN credentials : credentials[i] = ":"}

\* Variant: the last colon separates.
LastColon(credentials) ==
    CHOOSE i \in Colons(credentials) : \A j \in Colons(credentials) : i >= j

Separator(credentials) ==
    CHOOSE i \in Colons(credentials) : \A j \in Colons(credentials) : i <= j

Username(credentials) == Trim(SubSeq(credentials, 1, Separator(credentials) - 1))

\* Variant: trimmed like the other texts.
TrimmedPassword(credentials) ==
    Trim(SubSeq(credentials, Separator(credentials) + 1, Len(credentials)))

Password(credentials) ==
    SubSeq(credentials, Separator(credentials) + 1, Len(credentials))

Authenticates(env, credentials) ==
    /\ credentials # Absent
    /\ Colons(credentials) # {} /\ Separator(credentials) > 1
    /\ Username(credentials) = Expected(env).username
    /\ Password(credentials) = Expected(env).password

-----------------------------------------------------------------------------
(* buildCorsConfig() *)

\* The positions of the commas of s and those before and after it.
Breaks(s) == {0, Len(s) + 1} \cup {i \in DOMAIN s : s[i] = ","}

\* Neighbouring breaks.
Gaps(s) == {g \in Breaks(s) \X Breaks(s) :
              g[1] < g[2] /\ \A k \in Breaks(s) : k <= g[1] \/ g[2] <= k}

\* Variant: entries are taken as they stand.
SplitUntrimmed(s) == {SubSeq(s, g[1] + 1, g[2] - 1) : g \in Gaps(s)} \ {<< >>}

\* The entries between commas, trimmed; empty ones are dropped.
Split(s) == {Trim(SubSeq(s, g[1] + 1, g[2] - 1)) : g \in Gaps(s)} \ {<< >>}

OriginsOf(s) == IF s = Absent THEN {} ELSE Split(s)

AllowedOrigins(env) == OriginsOf(env.FRONTEND_URL) \cup OriginsOf(env.FRONTEND_URLS)

\* A call without an Origin header, or with an empty one, is let through.
OriginAllowed(env, origin) ==
    origin \in {Absent, << >>} \/ origin \in AllowedOrigins(env)
=============================================================================
