-------------------------- MODULE SignatureService --------------------------
(***************************************************************************)
(* The signature service: its key, certificate and signing services over   *)
(* one database, any number of calls in flight, the administrators who ban *)
(* and unban users through another service, and the clock.                 *)
(***************************************************************************)
EXTENDS Certificates, Signing

CONSTANT Sanctioned   \* the users an administrator may ban

ASSUME SanctionedAssumption == Sanctioned \subseteq User

\* The platform's own service writes the access policy.
Ban(u) ==
    /\ policy[u] = "ALLOWED"
    /\ policy' = [policy EXCEPT ![u] = "BANNED"]
    /\ UNCHANGED <<keyPairs, certificates, requests, documents, verifications,
                   now, pc, ctx, failures>>

Unban(u) ==
    /\ policy[u] = "BANNED"
    /\ policy' = [policy EXCEPT ![u] = "ALLOWED"]
    /\ UNCHANGED <<keyPairs, certificates, requests, documents, verifications,
                   now, pc, ctx, failures>>

Tick ==
    /\ now < MaxTime
    /\ now' = now + 1
    /\ UNCHANGED <<tables, pc, ctx, failures>>

Start(p, u) ==
    KeysStart(p, u) \/ CertificatesStart(p, u) \/ SigningStart(p, u)

Step(p) == KeysStep(p) \/ CertificatesStep(p) \/ SigningStep(p)

Environment == (\E u \in Sanctioned : Ban(u) \/ Unban(u)) \/ Tick

Init == EmptyTables /\ NoCalls

Next ==
    \/ \E p \in Call, u \in User : Start(p, u)
    \/ \E p \in Call : Step(p) \/ Fail(p)
    \/ Environment

Spec == Init /\ [][Next]_vars

\* The database answers: no call waits for ever.
Fairness == \A p \in Call : WF_vars(Step(p))

\* The calls in flight that are about user u.
CallsOf(u) == {p \in Call : pc[p] # "idle" /\ ctx[p].user = u}

\* The service as its clients are meant to use it: calls about one user, the
\* reviews of the user's requests among them, come one after the other.
SerialNext ==
    \/ \E p \in Call, u \in User : CallsOf(u) = {} /\ Start(p, u)
    \/ \E p \in Call : Step(p) \/ Fail(p)
    \/ Environment

SerialSpec == Init /\ [][SerialNext]_vars

TypeOK == TablesOK /\ CallsOK
=============================================================================
