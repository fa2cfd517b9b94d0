------------------------------- MODULE Calls -------------------------------
(***************************************************************************)
(* HTTP calls in flight.  The process is single-threaded, so the code      *)
(* between two awaits is one atomic step; while a call awaits the database *)
(* any other call, of this process or of another replica, may run.  pc[p]  *)
(* names the database access that call p awaits, and ctx[p] its local      *)
(* variables: the path parameters, the body, and the rows it has read,     *)
(* copied, so that they may be stale when they are used.                   *)
(*                                                                         *)
(* A service method called by another one runs in the same call.           *)
(* ctx[p].op is the endpoint, and tells a step which method to return to.  *)
(***************************************************************************)
EXTENDS Database

CONSTANTS Call,         \* identities for the calls that may be in flight
          Offered,      \* the endpoints that clients use, of Op
          MaxFailures   \* bound: calls that die before they are answered

VARIABLES pc, ctx, failures

Op == {"generate", "rotate", "issue", "approve", "reject", "revoke", "sign",
       "verify"}

ASSUME OfferedAssumption == Offered \subseteq Op

Label ==
    {"idle",
     "generate.findActive", "generate.create",
     "rotate.deactivate", "rotate.revoke", "rotate.cancel",
     "issue.policy", "issue.key", "issue.certificate", "issue.pending",
     "issue.keyCertificate", "issue.create",
     "approve.read", "approve.policy", "approve.certificate",
     "approve.keyCertificate", "approve.decrypt", "approve.commit",
     "reject.read", "reject.update",
     "revoke.find", "revoke.update",
     "sign.policy", "sign.certificate", "sign.key", "sign.decrypt",
     "sign.create",
     "verify.read", "verify.log"}

NoSignature == [keyPair |-> 0, document |-> None]

Context ==
    [op : Op \cup {None}, user : User \cup {None},
     algorithm : Algorithm \cup {None}, keyPair : Nat, certificate : Nat,
     request : Nat, years : Nat, signer : Nat, notAfter : Nat,
     document : Document \cup {None},
     signature : Signature \cup {NoSignature},
     outcome : Outcome \cup {None}]

NoContext ==
    [op |-> None, user |-> None, algorithm |-> None, keyPair |-> 0,
     certificate |-> 0, request |-> 0, years |-> 0, signer |-> 0,
     notAfter |-> 0, document |-> None, signature |-> NoSignature,
     outcome |-> None]

CallsOK ==
    /\ pc \in [Call -> Label]
    /\ ctx \in [Call -> Context]
    /\ failures \in Nat

NoCalls ==
    /\ pc = [p \in Call |-> "idle"]
    /\ ctx = [p \in Call |-> NoContext]
    /\ failures = 0

vars == <<tables, now, pc, ctx, failures>>

\* What a step leaves alone, by the one table it writes.
Reads          == UNCHANGED <<tables, now, failures>>
WritesKeyPairs == UNCHANGED <<certificates, requests, policy, documents,
                              verifications, now, failures>>
WritesCertificates == UNCHANGED <<keyPairs, requests, policy, documents,
                                  verifications, now, failures>>
WritesRequests == UNCHANGED <<keyPairs, certificates, policy, documents,
                              verifications, now, failures>>
WritesEvidence == UNCHANGED <<keyPairs, certificates, requests, policy, now,
                              failures>>

-----------------------------------------------------------------------------
InFlight(ops) == {p \in Call : ctx[p].op \in ops}

\* Call p reaches the database access named label with local variables c.
Goto(p, label, c) ==
    /\ pc' = [pc EXCEPT ![p] = label]
    /\ ctx' = [ctx EXCEPT ![p] = c]

\* A client calls an endpoint and its controller method is entered.
Begin(p, label, c) == pc[p] = "idle" /\ c.op \in Offered /\ Goto(p, label, c)

\* The call is answered, by a result or by an exception, and forgets all.
Answer(p) == Goto(p, "idle", NoContext)

\* A call dies at the database access it awaits: the process is killed, the
\* connection drops, the statement is refused.  What it has already written
\* stays.  A restart of the service is such a step for every call in flight.
Fail(p) ==
    /\ pc[p] # "idle"
    /\ failures < MaxFailures
    /\ failures' = failures + 1
    /\ Answer(p)
    /\ UNCHANGED <<tables, now>>
=============================================================================
