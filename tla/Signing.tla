------------------------------ MODULE Signing ------------------------------
(***************************************************************************)
(* SigningService: signing a document hash with the user's active key      *)
(* pair, under the user's active certificate, and verifying a signature    *)
(* for anyone.  A hash is signed as it is given, so Document stands for    *)
(* the hashes.                                                             *)
(***************************************************************************)
EXTENDS Keys

CONSTANT MaxVerifications   \* bound: rows of verifications

VerificationRoom ==
    Cardinality(verifications) + Cardinality(InFlight({"verify"}))
        < MaxVerifications

-----------------------------------------------------------------------------
(* sign(): POST /signature/signing/sign *)

StartSign(p, u, d) ==
    /\ Begin(p, "sign.policy",
             [NoContext EXCEPT !.op = "sign", !.user = u, !.document = d])
    /\ Reads

\* Variant: a ban does not stop the signature.
SignPolicyUnchecked(p) ==
    /\ pc[p] = "sign.policy"
    /\ Goto(p, "sign.certificate", ctx[p])
    /\ Reads

SignPolicy(p) ==
    /\ pc[p] = "sign.policy"
    /\ \/ policy[ctx[p].user] = "BANNED" /\ Answer(p)
       \/ policy[ctx[p].user] # "BANNED" /\ Goto(p, "sign.certificate", ctx[p])
    /\ Reads

\* The rest of getActiveCertificate().  With no certificate the code reads the
\* latest request, only to word the refusal.
SignCertificate(p) ==
    /\ pc[p] = "sign.certificate"
    /\ \E c \in FindFirst(Unrevoked(ctx[p].user)) :
          LET usable == c # 0 /\ ~(certificates[c].notAfter < now)
          IN  \/ ~usable /\ Answer(p)
              \/ usable /\ Goto(p, "sign.key", [ctx[p] EXCEPT !.certificate = c])
    /\ Reads

\* This row supplies the algorithm.
SignKey(p) ==
    /\ pc[p] = "sign.key"
    /\ \E k \in FindFirst(ActiveKeyPairs(ctx[p].user)) :
          \/ k = 0 /\ Answer(p)
          \/ /\ k # 0
             /\ Goto(p, "sign.decrypt",
                     [ctx[p] EXCEPT !.algorithm = keyPairs[k].algorithm])
    /\ Reads

\* The private key comes from a second read.  crypto.sign takes any key with
\* the algorithm null, which the code passes for ED25519, and no ED25519 key
\* with SHA256, which it passes for RSA_2048.
SignDecrypt(p) ==
    /\ pc[p] = "sign.decrypt"
    /\ \E k \in DecryptActivePrivateKey(ctx[p].user) :
          LET signs == k # 0 /\ (ctx[p].algorithm = "RSA_2048" =>
                                    keyPairs[k].algorithm = "RSA_2048")
          IN  \/ ~signs /\ Answer(p)
              \/ /\ signs
                 /\ Goto(p, "sign.create",
                         [ctx[p] EXCEPT
                            !.signature = [keyPair |-> k,
                                           document |-> ctx[p].document]])
    /\ Reads

SignCreate(p) ==
    /\ pc[p] = "sign.create"
    /\ documents' = documents \cup {[user |-> ctx[p].user,
                                     certificate |-> ctx[p].certificate,
                                     document |-> ctx[p].document,
                                     signature |-> ctx[p].signature]}
    /\ Answer(p)
    /\ UNCHANGED verifications /\ WritesEvidence

-----------------------------------------------------------------------------
(* verify(): POST /signature/signing/verify, public *)

\* Anyone submits a signature the service once returned, as any user's, over
\* any document.
StartVerify(p, u, d, s) ==
    /\ VerificationRoom
    /\ Begin(p, "verify.read",
             [NoContext EXCEPT !.op = "verify", !.user = u, !.document = d,
                               !.signature = s])
    /\ Reads

\* Variant: verified against the document alone.
MatchesAnyKey(c, d, s) == s.document = d

\* What crypto.verify says of the public key in certificate c.
Matches(c, d, s) == s.keyPair = certificates[c].keyPair /\ s.document = d

\* Variant: a certificate has expired in its last instant already.
VerdictEarly(c, d, s) ==
    CASE c = 0 -> "noCertificate"
      [] c # 0 /\ certificates[c].notAfter <= now -> "expired"
      [] OTHER -> IF Matches(c, d, s) THEN "valid" ELSE "mismatch"

Verdict(c, d, s) ==
    CASE c = 0 -> "noCertificate"
      [] c # 0 /\ certificates[c].notAfter < now -> "expired"
      [] OTHER -> IF Matches(c, d, s) THEN "valid" ELSE "mismatch"

\* The newest unrevoked certificate decides, whichever one the signature was
\* made under.
VerifyRead(p) ==
    /\ pc[p] = "verify.read"
    /\ \E c \in FindLatest(Unrevoked(ctx[p].user)) :
          Goto(p, "verify.log",
               [ctx[p] EXCEPT
                  !.certificate = c,
                  !.outcome = Verdict(c, ctx[p].document, ctx[p].signature)])
    /\ Reads

\* Variant: only the valid ones are logged.
VerifyLogValid(p) ==
    /\ pc[p] = "verify.log"
    /\ verifications' = verifications \cup
                           {[user |-> ctx[p].user,
                             certificate |-> ctx[p].certificate,
                             document |-> ctx[p].document,
                             signature |-> ctx[p].signature,
                             outcome |-> o] : o \in {ctx[p].outcome} \cap {"valid"}}
    /\ Answer(p)
    /\ UNCHANGED documents /\ WritesEvidence

\* Every verification is logged, the failed ones too.
VerifyLog(p) ==
    /\ pc[p] = "verify.log"
    /\ verifications' = verifications \cup
                           {[user |-> ctx[p].user,
                             certificate |-> ctx[p].certificate,
                             document |-> ctx[p].document,
                             signature |-> ctx[p].signature,
                             outcome |-> ctx[p].outcome]}
    /\ Answer(p)
    /\ UNCHANGED documents /\ WritesEvidence

-----------------------------------------------------------------------------
SigningStart(p, u) ==
    \/ \E d \in Document : StartSign(p, u, d)
    \/ \E d \in Document, x \in documents : StartVerify(p, u, d, x.signature)

SigningStep(p) ==
    \/ SignPolicy(p) \/ SignCertificate(p) \/ SignKey(p) \/ SignDecrypt(p)
    \/ SignCreate(p)
    \/ VerifyRead(p) \/ VerifyLog(p)
=============================================================================
