-------------------------------- MODULE Keys --------------------------------
(***************************************************************************)
(* KeysService: generating and rotating a user's key pair, and reading the *)
(* private key that the other services sign with.  Key material is not     *)
(* modelled: a key pair is its id, and what its private key signs carries  *)
(* that id.                                                                *)
(***************************************************************************)
EXTENDS Calls

CONSTANTS Algorithms,   \* the algorithms users ask for, of Algorithm
          MaxKeyPairs   \* bound: rows of keyPairs

ASSUME AlgorithmsAssumption == Algorithms \subseteq Algorithm

Deactivated(k) == [k EXCEPT !.isActive = FALSE]
RevokedRow(c)  == [c EXCEPT !.isRevoked = TRUE, !.reason = "rotation"]
CancelledRow(r) == [r EXCEPT !.status = "CANCELLED"]

\* Room for one more call that may create a key pair: the rows there are, and
\* those that the calls in flight may still add, stay within the bound.
KeyPairRoom ==
    Len(keyPairs) + Cardinality(InFlight({"generate", "rotate", "issue"}))
        < MaxKeyPairs

-----------------------------------------------------------------------------
StartGenerate(p, u, a) ==
    /\ KeyPairRoom
    /\ Begin(p, "generate.findActive",
             [NoContext EXCEPT !.op = "generate", !.user = u, !.algorithm = a])
    /\ Reads

\* Variant: a deactivated key pair refuses a new one.
GenerateFindAny(p) ==
    /\ pc[p] = "generate.findActive"
    /\ IF \E k \in DOMAIN keyPairs : keyPairs[k].user = ctx[p].user
       THEN Answer(p)
       ELSE Goto(p, "generate.create", ctx[p])
    /\ Reads

\* generate() refuses a user who has an active key pair.  Anything else it
\* does before the insert, key generation and encryption, is local.
GenerateFindActive(p) ==
    /\ pc[p] = "generate.findActive"
    /\ \/ /\ ActiveKeyPairs(ctx[p].user) # {}
          /\ Answer(p)
       \/ /\ ActiveKeyPairs(ctx[p].user) = {}
          /\ Goto(p, "generate.create", ctx[p])
    /\ Reads

\* The insert, and the return to the caller: to the client, or, through
\* rotate(), to prepareKeyPairForCertificateRequest() and issue().
GenerateCreate(p) ==
    /\ pc[p] = "generate.create"
    /\ keyPairs' = Append(keyPairs, [user |-> ctx[p].user,
                                     algorithm |-> ctx[p].algorithm,
                                     isActive |-> TRUE])
    /\ \/ /\ ctx[p].op = "issue"
          /\ Goto(p, "issue.create",
                  [ctx[p] EXCEPT !.keyPair = Len(keyPairs) + 1])
       \/ /\ ctx[p].op # "issue"
          /\ Answer(p)
    /\ WritesKeyPairs

-----------------------------------------------------------------------------
StartRotate(p, u, a) ==
    /\ KeyPairRoom
    /\ Begin(p, "rotate.deactivate",
             [NoContext EXCEPT !.op = "rotate", !.user = u, !.algorithm = a])
    /\ Reads

\* Variant: deactivates the key pair that generate() would have found.
RotateDeactivateOne(p) ==
    /\ pc[p] = "rotate.deactivate"
    /\ \E k \in FindFirst(ActiveKeyPairs(ctx[p].user)) :
          keyPairs' = UpdateMany(keyPairs, {k}, Deactivated)
    /\ Goto(p, "rotate.revoke", ctx[p])
    /\ WritesKeyPairs

\* rotate() is four statements and no transaction.
RotateDeactivate(p) ==
    /\ pc[p] = "rotate.deactivate"
    /\ keyPairs' = UpdateMany(keyPairs, ActiveKeyPairs(ctx[p].user), Deactivated)
    /\ Goto(p, "rotate.revoke", ctx[p])
    /\ WritesKeyPairs

\* Variant: revokes the certificates of the active key pairs, of which the step
\* before has left none.
RotateRevokeActive(p) ==
    /\ pc[p] = "rotate.revoke"
    /\ certificates' =
          UpdateMany(certificates,
                     {c \in Unrevoked(ctx[p].user) :
                         keyPairs[certificates[c].keyPair].isActive},
                     RevokedRow)
    /\ Goto(p, "rotate.cancel", ctx[p])
    /\ WritesCertificates

\* Variant: isRevoked missing from the filter.
RotateRevokeAgain(p) ==
    /\ pc[p] = "rotate.revoke"
    /\ certificates' =
          UpdateMany(certificates, CertificatesOfUser(ctx[p].user), RevokedRow)
    /\ Goto(p, "rotate.cancel", ctx[p])
    /\ WritesCertificates

\* All the user's unrevoked certificates, whatever key pair they are for.
RotateRevoke(p) ==
    /\ pc[p] = "rotate.revoke"
    /\ certificates' =
          UpdateMany(certificates, Unrevoked(ctx[p].user), RevokedRow)
    /\ Goto(p, "rotate.cancel", ctx[p])
    /\ WritesCertificates

RotateCancel(p) ==
    /\ pc[p] = "rotate.cancel"
    /\ requests' = UpdateMany(requests, Pending(ctx[p].user), CancelledRow)
    /\ Goto(p, "generate.findActive", ctx[p])
    /\ WritesRequests

-----------------------------------------------------------------------------
\* Variant: isActive missing from the filter.
DecryptAnyPrivateKey(u) ==
    FindFirst({k \in DOMAIN keyPairs : keyPairs[k].user = u})

\* decryptActivePrivateKey(): reads the active key pair anew, whatever key
\* pair the caller has in hand; the result is the id of the key pair whose
\* private key is returned, or 0 when it throws.
DecryptActivePrivateKey(u) == FindFirst(ActiveKeyPairs(u))

KeysStart(p, u) ==
    \E a \in Algorithms : StartGenerate(p, u, a) \/ StartRotate(p, u, a)

KeysStep(p) ==
    \/ GenerateFindActive(p)
    \/ GenerateCreate(p)
    \/ RotateDeactivate(p)
    \/ RotateRevoke(p)
    \/ RotateCancel(p)
=============================================================================
