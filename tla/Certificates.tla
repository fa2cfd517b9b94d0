---------------------------- MODULE Certificates ----------------------------
(***************************************************************************)
(* CertificatesService: a user submits a certificate request, an           *)
(* administrator approves or rejects it, the user revokes the certificate. *)
(* Every check is a query of its own, made before the write it protects    *)
(* and not repeated by it.                                                 *)
(*                                                                         *)
(* The identity record is written by another service before any of this    *)
(* and is constant here, so reading it is part of the step before it.      *)
(***************************************************************************)
EXTENDS Keys

CONSTANTS Validity,         \* values of validityYears in use
          Verified,         \* users with a citizenIdentity row
          WithNationalId,   \* users whose row has a national id that decrypts
          UniqueKeyPair,    \* does the schema make certificates.keyPairId unique?
          MaxRequests,      \* bound: rows of requests
          MaxCertificates   \* bound: rows of certificates

ASSUME ValidityAssumption == Validity \subseteq 1..5
ASSUME UniqueKeyPairAssumption == UniqueKeyPair \in BOOLEAN

Live(u) == {c \in Unrevoked(u) : certificates[c].notAfter > now}

RequestRoom ==
    Len(requests) + Cardinality(InFlight({"issue"})) < MaxRequests
CertificateRoom ==
    Len(certificates) + Cardinality(InFlight({"approve"})) < MaxCertificates

\* ensureNoActiveCertificate() looks at one unrevoked certificate, whichever
\* the database returns first, and lets an expired one pass.
MayFindActiveCertificate(u)   == Live(u) # {}
MayFindNoActiveCertificate(u) == Unrevoked(u) # {} => Live(u) # Unrevoked(u)

-----------------------------------------------------------------------------
(* issue(): POST /signature/certificates/issue *)

StartIssue(p, u, y) ==
    /\ RequestRoom /\ KeyPairRoom
    /\ Begin(p, "issue.policy",
             [NoContext EXCEPT !.op = "issue", !.user = u, !.years = y])
    /\ Reads

IssuePolicy(p) ==
    /\ pc[p] = "issue.policy"
    /\ \/ policy[ctx[p].user] = "BANNED" /\ Answer(p)
       \/ policy[ctx[p].user] # "BANNED" /\ Goto(p, "issue.key", ctx[p])
    /\ Reads

\* Variant: the algorithm is not passed on to a rotation.
IssueKeyWithoutAlgorithm(p) ==
    /\ pc[p] = "issue.key"
    /\ \E k \in FindFirst(ActiveKeyPairs(ctx[p].user)) :
          \/ k = 0 /\ Answer(p)
          \/ /\ k # 0
             /\ Goto(p, "issue.certificate", [ctx[p] EXCEPT !.keyPair = k])
    /\ Reads

\* requireActiveKeyPair()
IssueKey(p) ==
    /\ pc[p] = "issue.key"
    /\ \E k \in FindFirst(ActiveKeyPairs(ctx[p].user)) :
          \/ k = 0 /\ Answer(p)
          \/ /\ k # 0
             /\ Goto(p, "issue.certificate",
                     [ctx[p] EXCEPT !.keyPair = k,
                                    !.algorithm = keyPairs[k].algorithm])
    /\ Reads

\* ensureNoActiveCertificate(), ensureVerifiedIdentity()
IssueCertificate(p) ==
    /\ pc[p] = "issue.certificate"
    /\ \/ /\ MayFindActiveCertificate(ctx[p].user) \/ ctx[p].user \notin Verified
          /\ Answer(p)
       \/ /\ MayFindNoActiveCertificate(ctx[p].user)
          /\ ctx[p].user \in Verified
          /\ Goto(p, "issue.pending", ctx[p])
    /\ Reads

\* Variant: no look at the pending request.
IssuePendingUnchecked(p) ==
    /\ pc[p] = "issue.pending"
    /\ Goto(p, "issue.keyCertificate", ctx[p])
    /\ Reads

\* ensureNoPendingRequest()
IssuePending(p) ==
    /\ pc[p] = "issue.pending"
    /\ \/ Pending(ctx[p].user) # {} /\ Answer(p)
       \/ Pending(ctx[p].user) = {} /\ Goto(p, "issue.keyCertificate", ctx[p])
    /\ Reads

\* prepareKeyPairForCertificateRequest(): a key pair that ever had a
\* certificate is rotated away first, for one of the same algorithm.
IssueKeyCertificate(p) ==
    /\ pc[p] = "issue.keyCertificate"
    /\ Goto(p, IF CertificatesOf(ctx[p].keyPair) = {}
               THEN "issue.create" ELSE "rotate.deactivate", ctx[p])
    /\ Reads

IssueCreate(p) ==
    /\ pc[p] = "issue.create"
    /\ requests' = Append(requests, [user |-> ctx[p].user,
                                     keyPair |-> ctx[p].keyPair,
                                     years |-> ctx[p].years,
                                     status |-> "PENDING", issued |-> 0])
    /\ Answer(p)
    /\ WritesRequests

-----------------------------------------------------------------------------
(* approveRequest(): POST /internal/.../:requestId/approve *)

\* The caller passes only the request's id; that the context already names
\* its user, a column nothing updates, is for the reader's convenience.
StartApprove(p, r) ==
    /\ CertificateRoom
    /\ Begin(p, "approve.read",
             [NoContext EXCEPT !.op = "approve", !.request = r,
                               !.user = requests[r].user])
    /\ Reads

\* Variant: the key pair of the request may be inactive.
ApproveReadAnyKeyPair(p) ==
    /\ pc[p] = "approve.read"
    /\ LET request == requests[ctx[p].request]
       IN  IF request.status = "PENDING"
           THEN Goto(p, "approve.policy",
                     [ctx[p] EXCEPT !.keyPair = request.keyPair,
                                    !.years = request.years])
           ELSE Answer(p)
    /\ Reads

ApproveRead(p) ==
    /\ pc[p] = "approve.read"
    /\ LET request == requests[ctx[p].request]
           open    == /\ request.status = "PENDING"
                      /\ keyPairs[request.keyPair].isActive
       IN  \/ ~open /\ Answer(p)
           \/ /\ open
              /\ Goto(p, "approve.policy",
                      [ctx[p] EXCEPT !.keyPair = request.keyPair,
                                     !.years = request.years])
    /\ Reads

\* Variant: a ban does not stop the review.
ApprovePolicyUnchecked(p) ==
    /\ pc[p] = "approve.policy"
    /\ Goto(p, "approve.certificate", ctx[p])
    /\ Reads

\* ensureRequestApprovalAllowed()
ApprovePolicy(p) ==
    /\ pc[p] = "approve.policy"
    /\ \/ policy[ctx[p].user] = "BANNED" /\ Answer(p)
       \/ policy[ctx[p].user] # "BANNED" /\ Goto(p, "approve.certificate", ctx[p])
    /\ Reads

\* ensureNoActiveCertificate()
ApproveCertificate(p) ==
    /\ pc[p] = "approve.certificate"
    /\ \/ MayFindActiveCertificate(ctx[p].user) /\ Answer(p)
       \/ /\ MayFindNoActiveCertificate(ctx[p].user)
          /\ Goto(p, "approve.keyCertificate", ctx[p])
    /\ Reads

\* ensureKeyPairHasNoCertificate(), ensureVerifiedIdentity(),
\* resolveSubjectIdentity()
ApproveKeyCertificate(p) ==
    /\ pc[p] = "approve.keyCertificate"
    /\ LET certifiable == /\ CertificatesOf(ctx[p].keyPair) = {}
                          /\ ctx[p].user \in Verified \cap WithNationalId
       IN  \/ ~certifiable /\ Answer(p)
           \/ certifiable /\ Goto(p, "approve.decrypt", ctx[p])
    /\ Reads

\* decryptActivePrivateKey(), then buildPersonalX509(), which reads both PEM
\* blocks with node-forge and throws unless both keys are RSA keys.
ApproveDecrypt(p) ==
    /\ pc[p] = "approve.decrypt"
    /\ \E k \in DecryptActivePrivateKey(ctx[p].user) :
          LET built == /\ k # 0
                       /\ keyPairs[k].algorithm = "RSA_2048"
                       /\ keyPairs[ctx[p].keyPair].algorithm = "RSA_2048"
          IN  \/ ~built /\ Answer(p)
              \/ /\ built
                 /\ Goto(p, "approve.commit",
                         [ctx[p] EXCEPT !.signer = k,
                                        !.notAfter = now + ctx[p].years])
    /\ Reads

\* Variant: the certificate names the key pair it was signed with.
SignersCertificate(c) ==
    [user |-> c.user, keyPair |-> c.signer, signer |-> c.signer,
     notAfter |-> c.notAfter, isRevoked |-> FALSE, reason |-> None]

\* The row inserted, from the local variables of the review.
NewCertificate(c) ==
    [user |-> c.user, keyPair |-> c.keyPair, signer |-> c.signer,
     notAfter |-> c.notAfter, isRevoked |-> FALSE, reason |-> None]

\* Variant: only a request that is still pending is updated.
ApprovedIfPending(request, c) ==
    IF request.status = "PENDING"
    THEN [request EXCEPT !.status = "APPROVED", !.issued = c]
    ELSE request

Approved(request, c) == [request EXCEPT !.status = "APPROVED", !.issued = c]

\* The transaction: insert the certificate, update the request by its id.
\* Neither statement looks at the request's status again.
ApproveCommit(p) ==
    /\ pc[p] = "approve.commit"
    /\ \/ /\ UniqueKeyPair /\ CertificatesOf(ctx[p].keyPair) # {}
          /\ UNCHANGED <<certificates, requests>>
       \/ /\ ~(UniqueKeyPair /\ CertificatesOf(ctx[p].keyPair) # {})
          /\ certificates' = Append(certificates, NewCertificate(ctx[p]))
          /\ requests' = [requests EXCEPT ![ctx[p].request] =
                              Approved(@, Len(certificates) + 1)]
    /\ Answer(p)
    /\ UNCHANGED <<keyPairs, policy, documents, verifications, now, failures>>

-----------------------------------------------------------------------------
(* rejectRequest(): POST /internal/.../:requestId/reject *)

StartReject(p, r) ==
    /\ Begin(p, "reject.read",
             [NoContext EXCEPT !.op = "reject", !.request = r,
                               !.user = requests[r].user])
    /\ Reads

\* Variant: any request can be rejected.
RejectReadAnyStatus(p) ==
    /\ pc[p] = "reject.read"
    /\ Goto(p, "reject.update", ctx[p])
    /\ Reads

\* After the look at the status, requireReason() refuses a blank reason, which
\* the request's own validation (trimmed, at least 20 characters) has refused
\* before the call starts.
RejectRead(p) ==
    /\ pc[p] = "reject.read"
    /\ \/ requests[ctx[p].request].status # "PENDING" /\ Answer(p)
       \/ /\ requests[ctx[p].request].status = "PENDING"
          /\ Goto(p, "reject.update", ctx[p])
    /\ Reads

RejectUpdate(p) ==
    /\ pc[p] = "reject.update"
    /\ requests' = [requests EXCEPT ![ctx[p].request].status = "REJECTED"]
    /\ Answer(p)
    /\ WritesRequests

-----------------------------------------------------------------------------
(* revoke(): POST /signature/certificates/revoke *)

StartRevoke(p, u) ==
    /\ Begin(p, "revoke.find", [NoContext EXCEPT !.op = "revoke", !.user = u])
    /\ Reads

RevokeFind(p) ==
    /\ pc[p] = "revoke.find"
    /\ \E c \in FindFirst(Unrevoked(ctx[p].user)) :
          \/ c = 0 /\ Answer(p)
          \/ c # 0 /\ Goto(p, "revoke.update", [ctx[p] EXCEPT !.certificate = c])
    /\ Reads

RevokedByUser(c) == [c EXCEPT !.isRevoked = TRUE, !.reason = "user"]

\* By id, whether or not a rotation has revoked the certificate meanwhile; the
\* rotation's reason is then lost.
RevokeUpdate(p) ==
    /\ pc[p] = "revoke.update"
    /\ certificates' =
          [certificates EXCEPT ![ctx[p].certificate] = RevokedByUser(@)]
    /\ Answer(p)
    /\ WritesCertificates

-----------------------------------------------------------------------------
CertificatesStart(p, u) ==
    \/ \E y \in Validity : StartIssue(p, u, y)
    \/ \E r \in DOMAIN requests :
          requests[r].user = u /\ (StartApprove(p, r) \/ StartReject(p, r))
    \/ StartRevoke(p, u)

CertificatesStep(p) ==
    \/ IssuePolicy(p) \/ IssueKey(p) \/ IssueCertificate(p) \/ IssuePending(p)
    \/ IssueKeyCertificate(p) \/ IssueCreate(p)
    \/ ApproveRead(p) \/ ApprovePolicy(p) \/ ApproveCertificate(p)
    \/ ApproveKeyCertificate(p) \/ ApproveDecrypt(p) \/ ApproveCommit(p)
    \/ RejectRead(p) \/ RejectUpdate(p)
    \/ RevokeFind(p) \/ RevokeUpdate(p)
=============================================================================
