------------------------- MODULE ServiceProperties -------------------------
(***************************************************************************)
(* What is true of the service's tables.  The first part holds however     *)
(* calls overlap and wherever they die; the second when the calls about a  *)
(* user come one after the other, and in part only while none dies.  The   *)
(* third part states what the code's own comments and messages say and     *)
(* overlapping or dying calls break.                                       *)
(***************************************************************************)
EXTENDS SignatureService

\* No call about user u is in flight.
Quiet(u) == CallsOf(u) = {}

\* Certificate c is user u's and has the public key of the pair that made s.
Vouches(c, u, s) ==
    /\ c \in DOMAIN certificates
    /\ certificates[c].user = u
    /\ certificates[c].keyPair = s.keyPair

Owns(u, k) == k \in DOMAIN keyPairs /\ keyPairs[k].user = u

\* Ownership: whatever calls overlap, a request, a certificate and a signed
\* document refer only to key pairs and certificates of their own user; every
\* query of the services filters by userId, and ids are passed across awaits.
\* And a verification is positive only when the certificate is the named
\* user's and its own key pair made the signature.
Ownership ==
    /\ \A r \in DOMAIN requests : Owns(requests[r].user, requests[r].keyPair)
    /\ \A c \in DOMAIN certificates :
          /\ Owns(certificates[c].user, certificates[c].keyPair)
          /\ Owns(certificates[c].user, certificates[c].signer)
    /\ \A x \in documents :
          /\ x.certificate \in DOMAIN certificates
          /\ certificates[x.certificate].user = x.user
          /\ Owns(x.user, x.signature.keyPair)
    /\ \A v \in verifications : v.outcome = "valid" =>
          Vouches(v.certificate, v.user, v.signature)

\* Non-repudiation: a signature that verification accepted as user u's, over
\* document d, is one that the service recorded as made by u over d.
AcceptedWasSigned ==
    \A v \in verifications : v.outcome = "valid" =>
        \E x \in documents : /\ x.user = v.user
                             /\ x.document = v.document
                             /\ x.signature = v.signature

\* One request names certificate c, and is of the same user and key pair.
NamedByItsRequest(c) ==
    \E r \in DOMAIN requests :
        /\ requests[r].user = certificates[c].user
        /\ requests[r].keyPair = certificates[c].keyPair
        /\ {q \in DOMAIN requests : requests[q].issued = c} = {r}

\* Where the schema lets a key pair have one certificate only, every
\* certificate is named by exactly one request, even if that request is
\* reviewed twice at a time, or cancelled or rejected while it is approved: no
\* certificate is in use that the administrators' list of requests does not
\* lead to (issuedCertificateId, certificates.service.ts).
CertificatesAreOnRecord ==
    UniqueKeyPair => \A c \in DOMAIN certificates : NamedByItsRequest(c)

-----------------------------------------------------------------------------
(* What calls in flight know, which keeps the rows they write in order. *)

\* The labels from which generate.create is reached.
Replacing == {"rotate.deactivate", "rotate.revoke", "rotate.cancel",
              "generate.findActive", "generate.create"}
HasKeyPair == {"issue.certificate", "issue.pending", "issue.keyCertificate"}
Reviewed   == {"approve.policy", "approve.certificate",
               "approve.keyCertificate", "approve.decrypt", "approve.commit"}
Reviewing  == Reviewed \cup {"approve.read", "reject.read", "reject.update"}
Signs      == {"sign.policy", "sign.certificate", "sign.key", "sign.decrypt",
               "sign.create"}
HasCertificate == {"revoke.update", "sign.key", "sign.decrypt", "sign.create"}
Verifies   == {"verify.read", "verify.log"}

\* What the local variables c of a call that waits at label l refer to.
Consistent(l, c) ==
    /\ l # "idle" => c.user \in User
    /\ l \in Replacing \cup HasKeyPair => c.algorithm \in Algorithm
    /\ l \in HasKeyPair \cup {"issue.create"} => Owns(c.user, c.keyPair)
    /\ l \in Reviewing => /\ c.request \in DOMAIN requests
                          /\ requests[c.request].user = c.user
    /\ l \in Reviewed => c.keyPair = requests[c.request].keyPair
    /\ l = "approve.commit" => Owns(c.user, c.signer)
    /\ l \in HasCertificate => /\ c.certificate \in DOMAIN certificates
                               /\ certificates[c.certificate].user = c.user
    /\ l \in Signs \cup Verifies => c.document \in Document
    /\ l = "sign.create" => /\ c.signature \in Signature
                            /\ c.signature.document = c.document
                            /\ Owns(c.user, c.signature.keyPair)
    /\ l \in Verifies => \E x \in documents : x.signature = c.signature
    /\ l = "verify.log" =>
          /\ c.outcome \in Outcome
          /\ c.outcome = "valid" =>
                /\ c.signature.document = c.document
                /\ Vouches(c.certificate, c.user, c.signature)

CallsConsistent == \A p \in Call : Consistent(pc[p], ctx[p])

\* A recorded signature is over the recorded document.
DocumentsSigned == \A x \in documents : x.signature.document = x.document

\* The inductive invariant: with it, a step keeps TypeOK, Ownership and
\* AcceptedWasSigned, none of which is inductive alone.
Consistency ==
    /\ TypeOK
    /\ Ownership
    /\ DocumentsSigned
    /\ AcceptedWasSigned
    /\ CallsConsistent

-----------------------------------------------------------------------------
(* The service implements the registry. *)

R == INSTANCE Registry WITH
        keys <- [k \in DOMAIN keyPairs |-> keyPairs[k].user],
        active <- {k \in DOMAIN keyPairs : keyPairs[k].isActive},
        certificates <- [c \in DOMAIN certificates |->
                            [user |-> certificates[c].user,
                             keyPair |-> certificates[c].keyPair]],
        revoked <- {c \in DOMAIN certificates : certificates[c].isRevoked},
        requests <- [r \in DOMAIN requests |->
                        [user |-> requests[r].user,
                         keyPair |-> requests[r].keyPair]],
        pending <- {r \in DOMAIN requests : requests[r].status = "PENDING"},
        signed <- {[certificate |-> x.certificate,
                    keyPair |-> x.signature.keyPair,
                    document |-> x.document] : x \in documents},
        accepted <- {[certificate |-> v.certificate,
                      keyPair |-> v.signature.keyPair] :
                        v \in {w \in verifications : w.outcome = "valid"}}

\* Refinement: every step of the service, overlapping or dying calls
\* included, is a step of Registry or changes none of what it sees.  So rows
\* are never removed nor reassigned, revocation ("permanent and irreversible",
\* certificates.controller.ts) and deactivation are never undone, no request
\* becomes pending again, and no certificate appears but for a request's user
\* and key pair.
ImplementsRegistry == R!Spec
-----------------------------------------------------------------------------
(* Liveness under Fairness, while no call dies. *)

\* A user whose key pair is being replaced, by rotate() itself or by issue()
\* through it, gets to have an active one, though rotate() first takes the old
\* one away and then calls generate(), which refuses when it finds any: calls
\* that overlap never refuse each other the replacement for good.
RotationLeavesAKeyPair ==
    \A p \in Call, u \in User :
        (pc[p] \in {"rotate.deactivate", "rotate.revoke", "rotate.cancel"}
            /\ ctx[p].user = u)
        ~> (ActiveKeyPairs(u) # {})

\* Every verification that gets as far as its first query is on record in the
\* end, whatever its outcome (signing.service.ts: "Log every verification -- 
\* including failed ones").
VerificationIsLogged ==
    \A p \in Call, u \in User, d \in Document :
        (pc[p] = "verify.read" /\ ctx[p].user = u /\ ctx[p].document = d)
        ~> (\E v \in verifications : v.user = u /\ v.document = d)

-----------------------------------------------------------------------------
(* Calls about a user one after the other (SerialSpec). *)

\* A user never has two active key pairs or two pending requests, even when
\* calls die halfway: generate() and issue() look before they insert, and the
\* schema does not forbid a second one.
OneKeyPairOneRequest ==
    \A u \in User : /\ Cardinality(ActiveKeyPairs(u)) <= 1
                    /\ Cardinality(Pending(u)) <= 1

\* While no call has died, a quiet user's unrevoked certificate, expired or
\* not, is the only one and is for the active key pair, and so is the pending
\* request: the four statements of rotate() and the two of approveRequest()
\* agree on which key pair is the user's.
CurrentRowsAgree ==
    failures = 0 =>
        \A u \in User : Quiet(u) =>
            /\ Cardinality(Unrevoked(u)) <= 1
            /\ \A c \in Unrevoked(u) : certificates[c].keyPair \in ActiveKeyPairs(u)
            /\ \A r \in Pending(u) : requests[r].keyPair \in ActiveKeyPairs(u)

\* Every certificate is signed with the private key of its own public key,
\* whichever calls have died: the key that approveRequest() decrypts is the
\* one the request names (x509.helper.ts: "Self-sign with the user's private
\* key").
SelfSigned ==
    \A c \in DOMAIN certificates :
        certificates[c].signer = certificates[c].keyPair

\* The approved requests are the ones that name a certificate, and every
\* certificate is named: the approval transaction writes both or neither, and
\* no later call that decides or cancels a request reaches an approved one.
ApprovalIssues ==
    /\ \A r \in DOMAIN requests :
          (requests[r].status = "APPROVED") <=> (requests[r].issued # 0)
    /\ \A c \in DOMAIN certificates : NamedByItsRequest(c)

\* While no call has died, every signature on record verifies with the
\* certificate recorded beside it, though sign() reads the certificate and
\* the private key in separate queries that nothing relates.
SignaturesMatchTheirCertificate ==
    failures = 0 =>
        \A x \in documents :
            x.signature.keyPair = certificates[x.certificate].keyPair

\* While no call has died, a recorded signature, submitted as its user's over
\* its document, is turned down only for a certificate that has since been
\* revoked or has expired: verify() picks the certificate anew, by date.
GenuineSignaturesVerify ==
    failures = 0 =>
        \A v \in verifications, x \in documents :
            /\ v.outcome # "valid"
            /\ v.user = x.user
            /\ v.document = x.document
            /\ v.signature = x.signature
            => \/ certificates[x.certificate].isRevoked
               \/ certificates[x.certificate].notAfter < now

-----------------------------------------------------------------------------
(* What comments and messages of the code say, of any calls. *)

\* "You already have an active certificate. Revoke it first or rotate your
\* keys to replace it." (certificates.service.ts): nobody holds two.
OneLiveCertificate == \A u \in User : Cardinality(Live(u)) <= 1

\* "Ask the user to submit a new request." (certificates.service.ts), said of
\* a pending request whose key pair is inactive: the user can, that is, no
\* pending request is left for a quiet user but on the active key pair.
RequestCanBeResubmitted ==
    \A u \in User : Quiet(u) =>
        \A r \in Pending(u) : keyPairs[requests[r].keyPair].isActive

\* A signed document's signature was made by the key pair of the certificate
\* recorded with it (signing.controller.ts: "using your active certificate").
SignedUsingItsCertificate ==
    \A x \in documents : x.signature.keyPair = certificates[x.certificate].keyPair
=============================================================================
