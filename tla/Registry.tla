------------------------------ MODULE Registry ------------------------------
(***************************************************************************)
(* What the service promises of its tables however its calls overlap and   *)
(* wherever they die.  Rows are only ever added, each one within what a    *)
(* single user owns; their flags go one way; and a certificate comes into  *)
(* being only for the user and the key pair that some request names, in    *)
(* the same step that closes that request.                                 *)
(*                                                                         *)
(* Nothing here says which calls there are, when they check what, or that  *)
(* a check still holds when its write happens.  SignatureService           *)
(* implements this specification: its module shows the mapping.            *)
(***************************************************************************)
EXTENDS Naturals, Sequences

CONSTANTS User, Document

VARIABLES keys,          \* the owner of every key pair ever made, by id
          active,        \* ids of the key pairs that may still be used
          certificates,  \* every certificate ever issued: [user, keyPair]
          revoked,       \* ids of the certificates revoked
          requests,      \* every request ever submitted: [user, keyPair]
          pending,       \* ids of the requests nobody has decided on
          signed,        \* evidence: [certificate, keyPair, document]
          accepted       \* positive verifications: [certificate, keyPair]

registry == <<keys, active, certificates, revoked, requests, pending, signed,
              accepted>>

Init ==
    /\ keys = << >> /\ active = {}
    /\ certificates = << >> /\ revoked = {}
    /\ requests = << >> /\ pending = {}
    /\ signed = {} /\ accepted = {}

RegisterKeyPair(u) ==
    /\ keys' = Append(keys, u)
    /\ active' = active \cup {Len(keys) + 1}
    /\ UNCHANGED <<certificates, revoked, requests, pending, signed, accepted>>

\* A key pair is never activated again.
RetireKeyPairs(u) ==
    /\ active' = active \ {k \in DOMAIN keys : keys[k] = u}
    /\ UNCHANGED <<keys, certificates, revoked, requests, pending, signed, accepted>>

\* Revocation is permanent.
Revoke(ids) ==
    /\ revoked' = revoked \cup ids
    /\ UNCHANGED <<keys, active, certificates, requests, pending, signed, accepted>>

Submit(k) ==
    /\ requests' = Append(requests, [user |-> keys[k], keyPair |-> k])
    /\ pending' = pending \cup {Len(requests) + 1}
    /\ UNCHANGED <<keys, active, certificates, revoked, signed, accepted>>

\* A request is never reopened.  It may be decided on more than once, since a
\* review acts on a status it read earlier.
Close(ids) ==
    /\ pending' = pending \ ids
    /\ UNCHANGED <<keys, active, certificates, revoked, requests, signed, accepted>>

Certify(r) ==
    /\ certificates' = Append(certificates, requests[r])
    /\ pending' = pending \ {r}
    /\ UNCHANGED <<keys, active, revoked, requests, signed, accepted>>

\* A document is signed with a key pair of the certificate's own user; by this
\* specification it need not be the one the certificate names.
Sign(c, k, d) ==
    /\ certificates[c].user = keys[k]
    /\ signed' = signed \cup {[certificate |-> c, keyPair |-> k, document |-> d]}
    /\ UNCHANGED <<keys, active, certificates, revoked, requests, pending, accepted>>

\* A signature is accepted only if the certificate's own key pair made it.
Accept(c) ==
    /\ accepted' = accepted \cup
          {[certificate |-> c, keyPair |-> certificates[c].keyPair]}
    /\ UNCHANGED <<keys, active, certificates, revoked, requests, pending, signed>>

CertificatesOf(u) == {c \in DOMAIN certificates : certificates[c].user = u}
RequestsOf(u)     == {r \in DOMAIN requests : requests[r].user = u}

Next ==
    \/ \E u \in User : \/ RegisterKeyPair(u)
                       \/ RetireKeyPairs(u)
                       \/ Revoke(CertificatesOf(u))
                       \/ Close(RequestsOf(u))
    \/ \E k \in DOMAIN keys : Submit(k)
    \/ \E c \in DOMAIN certificates : Revoke({c}) \/ Accept(c)
    \/ \E r \in DOMAIN requests : Certify(r) \/ Close({r})
    \/ \E c \in DOMAIN certificates, k \in DOMAIN keys, d \in Document :
          Sign(c, k, d)

Spec == Init /\ [][Next]_registry
=============================================================================
