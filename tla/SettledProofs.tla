---------------------------- MODULE SettledProofs ----------------------------
(***************************************************************************)
(* Proofs, for any users, calls and bounds, that what has settled is       *)
(* respected.  Each check of the service is a read made before the write   *)
(* it protects, so the argument is about what a call in flight may have    *)
(* passed or picked up: when a fact about a user settles, no call about    *)
(* the user is in flight, and from then on no call gets past the check, or *)
(* picks up the row, that the fact is about.  A rotation that meets no     *)
(* other call has its user's rows to itself, whatever state they were in,  *)
(* so each of its statements still holds when it ends (CleansUp).          *)
(***************************************************************************)
EXTENDS Settled, StepProofs

(* What a call in flight must not have passed or picked up. *)

\* A call about a banned user is before its look at the policy, or is one that
\* has none and inserts no request.
ObeysBan(l, d) ==
    /\ l \in Replacing \cup {"idle", "issue.policy", "approve.read",
             "approve.policy", "sign.policy", "reject.read", "reject.update",
             "revoke.find", "revoke.update", "verify.read", "verify.log"}
    /\ l \in Replacing => d.op # "issue"

ForgetsCertificate(l, d, c) ==
    l \in HasCertificate \cup {"verify.log"} => d.certificate # c

ForgetsRequest(l, d, r) ==
    l \in Reviewed \cup {"reject.update"} => d.request # r

ForgetsKeyPair(l, d, k) ==
    /\ l \in HasKeyPair \cup Reviewed \cup {"issue.create"} => d.keyPair # k
    /\ l = "approve.commit" => d.signer # k
    /\ l = "sign.create" => d.signature.keyPair # k

BanHolds(u) ==
    /\ policy[u] = "BANNED"
    /\ \A p \in Call : ctx[p].user = u => ObeysBan(pc[p], ctx[p])

RevocationHolds(c) ==
    /\ certificates[c].isRevoked
    /\ \A p \in Call : ForgetsCertificate(pc[p], ctx[p], c)

DecisionHolds(r) ==
    /\ requests[r].status # "PENDING"
    /\ \A p \in Call : ForgetsRequest(pc[p], ctx[p], r)

RetirementHolds(k) ==
    /\ ~keyPairs[k].isActive
    /\ \A p \in Call : ForgetsKeyPair(pc[p], ctx[p], k)

\* A verification logs no certificate or one of the user it names.
LogsOwn(l, d) ==
    l = "verify.log" /\ d.certificate # 0 =>
        /\ d.certificate \in DOMAIN certificates
        /\ certificates[d.certificate].user = d.user

LogsTheirOwn == \A p \in Call : LogsOwn(pc[p], ctx[p])

\* The inductive invariant of the theorems below.
Respected ==
    /\ Consistency
    /\ LogsTheirOwn
    /\ \A u \in User : <<"banned", u>> \in settled => BanHolds(u)
    /\ \A c \in DOMAIN certificates :
          <<"revoked", c>> \in settled => RevocationHolds(c)
    /\ \A r \in DOMAIN requests : <<"decided", r>> \in settled => DecisionHolds(r)
    /\ \A k \in DOMAIN keyPairs : <<"retired", k>> \in settled => RetirementHolds(k)
    /\ settled \subseteq Facts

-----------------------------------------------------------------------------
\* No call that may write the row has hold of it.
LEMMA RevokedKept ==
    ASSUME Consistency, [Next]_vars, NEW c \in DOMAIN certificates,
           RevocationHolds(c)
    PROVE  certificates'[c] = certificates[c]
<1>1. /\ certificates[c].isRevoked
      /\ \A p \in Call : pc[p] = "revoke.update" => ctx[p].certificate # c
  BY DEF RevocationHolds, ForgetsCertificate, HasCertificate
<1> QED
  BY <1>1, CertificatesAfter

LEMMA DecidedKept ==
    ASSUME Consistency, [Next]_vars, NEW r \in DOMAIN requests, DecisionHolds(r)
    PROVE  requests'[r] = requests[r]
<1>1. /\ requests[r].status # "PENDING"
      /\ \A p \in Call : pc[p] \in {"approve.commit", "reject.update"} =>
            ctx[p].request # r
  BY DEF DecisionHolds, ForgetsRequest, Reviewed
<1> QED
  BY <1>1, RequestsAfter

-----------------------------------------------------------------------------
(* No call in flight gets hold of what has settled. *)

LEMMA LogsOwnStep ==
    ASSUME Consistency, [Next]_vars, NEW p \in Call, LogsOwn(pc[p], ctx[p])
    PROVE  LogsOwn(pc[p], ctx[p])'
<1>1. SUFFICES ASSUME pc'[p] = "verify.log", ctx'[p].certificate # 0
               PROVE  /\ ctx'[p].certificate \in DOMAIN certificates'
                      /\ certificates'[ctx'[p].certificate].user = ctx'[p].user
  BY DEF LogsOwn
<1>2. Edge(p)
  BY Edges
<1>3. CASE Stays(p)
  <2>1. PICK c : c = ctx[p].certificate
    OBVIOUS
  <2>2. c \in DOMAIN certificates /\ certificates[c].user = ctx[p].user
    BY <1>1, <1>3, <2>1 DEF LogsOwn, Stays
  <2> QED
    BY <1>3, <2>1, <2>2, CertificatesAfter DEF Stays
<1>4. CASE ~Stays(p)
  <2>1. /\ ctx'[p].certificate \in Unrevoked(ctx[p].user)
        /\ ctx'[p].user = ctx[p].user
    BY <1>1, <1>2, <1>4 DEF Edge, Enters, Entries, Continues, TakesKeyPair,
       TakesCertificate, FindLatest, FindFirst
  <2>2. PICK c : c = ctx'[p].certificate
    OBVIOUS
  <2>3. c \in DOMAIN certificates /\ certificates[c].user = ctx[p].user
    BY <2>1, <2>2 DEF Unrevoked
  <2> QED
    BY <2>1, <2>2, <2>3, CertificatesAfter
<1> QED
  BY <1>3, <1>4

LEMMA BanStep ==
    ASSUME Consistency, [Next]_vars, NEW u, BanHolds(u), policy'[u] = "BANNED"
    PROVE  BanHolds(u)'
<1>1. ASSUME NEW p \in Call, ctx'[p].user = u
      PROVE  ObeysBan(pc'[p], ctx'[p])
  <2> USE DEF ObeysBan, Replacing
  <2>1. Edge(p) /\ (ctx[p].user = u => ObeysBan(pc[p], ctx[p]))
    BY Edges DEF BanHolds
  <2>2. CASE Stays(p) \/ pc'[p] = "idle" \/ Enters(p)
    BY <1>1, <2>1, <2>2 DEF Stays, Enters, Entries
  <2>3. CASE Continues(p)
    BY <1>1, <2>1, <2>3 DEF Continues, BanHolds
  <2>4. CASE /\ TakesKeyPair(p) \/ TakesCertificate(p)
             /\ ctx'[p].user = ctx[p].user /\ ctx'[p].op = ctx[p].op
    BY <1>1, <2>1, <2>4 DEF TakesKeyPair, TakesCertificate
  <2> QED
    BY <2>1, <2>2, <2>3, <2>4 DEF Edge
<1> QED
  BY <1>1 DEF BanHolds

LEMMA RevocationStep ==
    ASSUME Consistency, [Next]_vars, NEW c \in DOMAIN certificates,
           RevocationHolds(c)
    PROVE  RevocationHolds(c)'
<1>1. ASSUME NEW p \in Call
      PROVE  ForgetsCertificate(pc'[p], ctx'[p], c)
  <2> USE DEF ForgetsCertificate, HasCertificate
  <2>1. Edge(p) /\ ForgetsCertificate(pc[p], ctx[p], c) /\ certificates[c].isRevoked
    BY Edges DEF RevocationHolds
  <2>2. c # 0
    BY RowTypes DEF Consistency, TypeOK
  <2>3. CASE Stays(p) \/ pc'[p] = "idle" \/ Enters(p) \/ Continues(p)
    BY <2>1, <2>3 DEF Stays, Enters, Entries, Continues
  <2>4. CASE TakesKeyPair(p)
    BY <2>1, <2>4 DEF TakesKeyPair
  <2>5. CASE TakesCertificate(p)
    BY <2>1, <2>2, <2>5 DEF TakesCertificate, Unrevoked, FindLatest, FindFirst
  <2> QED
    BY <2>1, <2>3, <2>4, <2>5 DEF Edge
<1>2. certificates'[c].isRevoked
  BY RevokedKept DEF RevocationHolds
<1> QED
  BY <1>1, <1>2 DEF RevocationHolds

LEMMA DecisionStep ==
    ASSUME Consistency, [Next]_vars, NEW r \in DOMAIN requests, DecisionHolds(r)
    PROVE  DecisionHolds(r)'
<1>1. ASSUME NEW p \in Call
      PROVE  ForgetsRequest(pc'[p], ctx'[p], r)
  <2> USE DEF ForgetsRequest, Reviewed
  <2>1. /\ Edge(p) /\ ForgetsRequest(pc[p], ctx[p], r)
        /\ requests[r].status # "PENDING"
    BY Edges DEF DecisionHolds
  <2>2. CASE Stays(p) \/ pc'[p] = "idle" \/ Enters(p) \/ Continues(p)
    BY <2>1, <2>2 DEF Stays, Enters, Entries, Continues
  <2>3. CASE TakesKeyPair(p)
    BY <2>1, <2>3 DEF TakesKeyPair
  <2>4. CASE TakesCertificate(p)
    BY <2>1, <2>4 DEF TakesCertificate
  <2> QED
    BY <2>1, <2>2, <2>3, <2>4 DEF Edge
<1>2. requests'[r].status # "PENDING"
  BY DecidedKept DEF DecisionHolds
<1> QED
  BY <1>1, <1>2 DEF DecisionHolds

LEMMA RetirementStep ==
    ASSUME Consistency, [Next]_vars, NEW k \in DOMAIN keyPairs, RetirementHolds(k)
    PROVE  RetirementHolds(k)'
<1>1. ASSUME NEW p \in Call
      PROVE  ForgetsKeyPair(pc'[p], ctx'[p], k)
  <2> USE DEF ForgetsKeyPair, HasKeyPair, Reviewed
  <2>1. /\ Edge(p) /\ ForgetsKeyPair(pc[p], ctx[p], k) /\ ~keyPairs[k].isActive
    BY Edges DEF RetirementHolds
  <2>2. CASE Stays(p) \/ pc'[p] = "idle" \/ Enters(p) \/ Continues(p)
    BY <2>1, <2>2 DEF Stays, Enters, Entries, Continues
  <2>3. CASE TakesKeyPair(p)
    BY <2>1, <2>3 DEF TakesKeyPair, ActiveKeyPairs
  <2>4. CASE TakesCertificate(p)
    BY <2>1, <2>4 DEF TakesCertificate
  <2> QED
    BY <2>1, <2>2, <2>3, <2>4 DEF Edge
<1>2. ~keyPairs'[k].isActive
  BY KeyPairsAfter DEF RetirementHolds
<1> QED
  BY <1>1, <1>2 DEF RetirementHolds

-----------------------------------------------------------------------------
(* When a user is quiet, no call in flight is about what is the user's. *)

QuietlyHeld ==
    \A u \in User : Quiet(u) =>
        /\ \A p \in Call : ctx[p].user = u => pc[p] = "idle"
        /\ \A c \in DOMAIN certificates : certificates[c].user = u =>
              \A p \in Call : ForgetsCertificate(pc[p], ctx[p], c)
        /\ \A r \in DOMAIN requests : requests[r].user = u =>
              \A p \in Call : ForgetsRequest(pc[p], ctx[p], r)
        /\ \A k \in DOMAIN keyPairs : keyPairs[k].user = u =>
              \A p \in Call : ForgetsKeyPair(pc[p], ctx[p], k)

LEMMA QuietHolds == Consistency /\ LogsTheirOwn => QuietlyHeld
<1> SUFFICES ASSUME Consistency, LogsTheirOwn, NEW u \in User, Quiet(u),
                    NEW p \in Call
             PROVE  /\ ctx[p].user = u => pc[p] = "idle"
                    /\ \A c \in DOMAIN certificates : certificates[c].user = u =>
                          ForgetsCertificate(pc[p], ctx[p], c)
                    /\ \A r \in DOMAIN requests : requests[r].user = u =>
                          ForgetsRequest(pc[p], ctx[p], r)
                    /\ \A k \in DOMAIN keyPairs : keyPairs[k].user = u =>
                          ForgetsKeyPair(pc[p], ctx[p], k)
  BY DEF QuietlyHeld
<1>1. Consistent(pc[p], ctx[p]) /\ LogsOwn(pc[p], ctx[p]) /\ Ownership
  BY DEF Consistency, CallsConsistent, LogsTheirOwn
<1>2. pc[p] = "idle" \/ ctx[p].user # u
  BY DEF Quiet, CallsOf
<1>3. ASSUME NEW c \in DOMAIN certificates, certificates[c].user = u
      PROVE  ForgetsCertificate(pc[p], ctx[p], c)
  <2>1. c # 0
    BY RowTypes DEF Consistency, TypeOK
  <2> QED
    BY <1>1, <1>2, <1>3, <2>1 DEF ForgetsCertificate, HasCertificate, Consistent, LogsOwn
<1>4. ASSUME NEW r \in DOMAIN requests, requests[r].user = u
      PROVE  ForgetsRequest(pc[p], ctx[p], r)
  BY <1>1, <1>2, <1>4 DEF ForgetsRequest, Reviewed, Reviewing, Consistent
<1>5. ASSUME NEW k \in DOMAIN keyPairs, keyPairs[k].user = u
      PROVE  ForgetsKeyPair(pc[p], ctx[p], k)
  <2>1. pc[p] \in Reviewed => Owns(ctx[p].user, ctx[p].keyPair)
    BY <1>1 DEF Reviewed, Reviewing, Consistent, Ownership
  <2> QED
    BY <1>1, <1>2, <1>5, <2>1
       DEF ForgetsKeyPair, HasKeyPair, Reviewed, Consistent, Owns
<1> QED
  BY <1>2, <1>3, <1>4, <1>5

\* Which facts there are, now and after a step.
LEMMA FactsAre ==
    /\ \A v : <<"banned", v>> \in Facts => v \in User /\ policy[v] = "BANNED"
    /\ \A v : <<"banned", v>> \in Facts' => v \in User /\ policy'[v] = "BANNED"
    /\ \A c : <<"revoked", c>> \in Facts => c \in DOMAIN certificates
    /\ \A r : <<"decided", r>> \in Facts => r \in DOMAIN requests
    /\ \A k : <<"retired", k>> \in Facts => k \in DOMAIN keyPairs
  BY DEF Facts, FactsAbout

LEMMA QuietFactsAre ==
    /\ \A v : <<"banned", v>> \in QuietFacts' =>
          v \in User /\ Quiet(v)' /\ policy'[v] = "BANNED"
    /\ \A c : <<"revoked", c>> \in QuietFacts' =>
          /\ c \in DOMAIN certificates' /\ certificates'[c].isRevoked
          /\ certificates'[c].user \in User /\ Quiet(certificates[c].user)'
    /\ \A r : <<"decided", r>> \in QuietFacts' =>
          /\ r \in DOMAIN requests' /\ requests'[r].status # "PENDING"
          /\ requests'[r].user \in User /\ Quiet(requests[r].user)'
    /\ \A k : <<"retired", k>> \in QuietFacts' =>
          /\ k \in DOMAIN keyPairs' /\ ~keyPairs'[k].isActive
          /\ keyPairs'[k].user \in User /\ Quiet(keyPairs[k].user)'
  BY DEF QuietFacts, FactsAbout, Quiet, CallsOf

-----------------------------------------------------------------------------
LEMMA RespectedInit == SettledInit => Respected
<1> SUFFICES ASSUME SettledInit PROVE Respected
  OBVIOUS
<1>1. Consistency /\ settled = {} /\ \A p \in Call : pc[p] = "idle"
  BY InitConsistent DEF SettledInit, Init, NoCalls
<1> QED
  BY <1>1 DEF Respected, LogsTheirOwn, LogsOwn

\* What has settled stays respected, and so is what settles.
LEMMA RespectedNext == Respected /\ [SettledNext]_<<vars, history>> => Respected'
<1> SUFFICES ASSUME Respected, [SettledNext]_<<vars, history>> PROVE Respected'
  OBVIOUS
<1>1. /\ Consistency /\ LogsTheirOwn /\ settled \subseteq Facts /\ [Next]_vars
  BY DEF Respected, SettledNext
<1>2. Consistency' /\ LogsTheirOwn'
  BY <1>1, NextConsistent, LogsOwnStep DEF LogsTheirOwn
<1>3. QuietlyHeld'
  BY <1>2, QuietHolds, PTL
<1>4. settled' \subseteq (settled \cap Facts') \cup QuietFacts' /\ settled' \subseteq Facts'
  <2>1. CASE SettledNext
    <3>1. QuietFacts' \subseteq Facts'
      BY DEF QuietFacts, Facts
    <3> QED
      BY <2>1, <3>1 DEF SettledNext, Settle
  <2>2. CASE UNCHANGED <<vars, history>>
    <3>1. Facts' = Facts
      BY <2>2 DEF vars, tables, Facts, FactsAbout
    <3> QED
      BY <1>1, <2>2, <3>1 DEF history
  <2> QED
    BY <2>1, <2>2
<1>5. ASSUME NEW u \in User, <<"banned", u>> \in settled' PROVE BanHolds(u)'
  <2>1. policy'[u] = "BANNED"
    BY <1>4, <1>5, FactsAre
  <2>2. CASE <<"banned", u>> \in settled
    BY <1>1, <2>1, <2>2, BanStep DEF Respected
  <2>3. CASE <<"banned", u>> \in QuietFacts'
    <3>1. \A p \in Call : ctx'[p].user = u => pc'[p] = "idle"
      BY <1>3, <2>3, QuietFactsAre DEF QuietlyHeld
    <3> QED
      BY <2>1, <3>1 DEF BanHolds, ObeysBan, Replacing
  <2> QED
    BY <1>4, <1>5, <2>2, <2>3
<1>6. ASSUME NEW c \in DOMAIN certificates', <<"revoked", c>> \in settled'
      PROVE  RevocationHolds(c)'
  <2>1. CASE <<"revoked", c>> \in settled
    BY <1>1, <2>1, FactsAre, RevocationStep DEF Respected
  <2>2. CASE <<"revoked", c>> \in QuietFacts'
    BY <1>3, <2>2, QuietFactsAre DEF QuietlyHeld, RevocationHolds
  <2> QED
    BY <1>4, <1>6, <2>1, <2>2
<1>7. ASSUME NEW r \in DOMAIN requests', <<"decided", r>> \in settled'
      PROVE  DecisionHolds(r)'
  <2>1. CASE <<"decided", r>> \in settled
    BY <1>1, <2>1, FactsAre, DecisionStep DEF Respected
  <2>2. CASE <<"decided", r>> \in QuietFacts'
    BY <1>3, <2>2, QuietFactsAre DEF QuietlyHeld, DecisionHolds
  <2> QED
    BY <1>4, <1>7, <2>1, <2>2
<1>8. ASSUME NEW k \in DOMAIN keyPairs', <<"retired", k>> \in settled'
      PROVE  RetirementHolds(k)'
  <2>1. CASE <<"retired", k>> \in settled
    BY <1>1, <2>1, FactsAre, RetirementStep DEF Respected
  <2>2. CASE <<"retired", k>> \in QuietFacts'
    BY <1>3, <2>2, QuietFactsAre DEF QuietlyHeld, RetirementHolds
  <2> QED
    BY <1>4, <1>8, <2>1, <2>2
<1> QED
  BY <1>2, <1>4, <1>5, <1>6, <1>7, <1>8 DEF Respected

LEMMA SettledRespected == SettledSpec => []Respected
  BY RespectedInit, RespectedNext, PTL DEF SettledSpec

-----------------------------------------------------------------------------
\* A ban, once the calls in flight are answered, stops the user: whatever was
\* pending, and however calls overlap and die.
THEOREM BansHold == SettledSpec => BanStopsTheUser
<1>1. ASSUME Respected, SettledNext, NEW u \in User, <<"banned", u>> \in settled
      PROVE  /\ RowsOf(requests, u)' = RowsOf(requests, u)
             /\ RowsOf(certificates, u)' = RowsOf(certificates, u)
             /\ {x \in documents' : x.user = u} = {x \in documents : x.user = u}
  <2>1. Consistency /\ [Next]_vars /\ BanHolds(u)
    BY <1>1 DEF Respected, SettledNext
  <2>2. \A p \in Call : pc[p] \in {"issue.create", "approve.commit", "sign.create"}
                           => ctx[p].user # u
    BY <2>1 DEF BanHolds, ObeysBan, Replacing
  <2>3. RowsOf(requests, u)' = RowsOf(requests, u)
    BY <2>1, <2>2, RequestsAfter, NewRequests DEF RowsOf
  <2>4. RowsOf(certificates, u)' = RowsOf(certificates, u)
    BY <2>1, <2>2, CertificatesAfter, NewCertificates DEF RowsOf
  <2>5. {x \in documents' : x.user = u} = {x \in documents : x.user = u}
    BY <2>1, <2>2, EvidenceAfter
  <2> QED
    BY <2>3, <2>4, <2>5
<1>2. Respected /\ [SettledNext]_<<vars, history>>
        => [\A u \in User : <<"banned", u>> \in settled =>
              /\ RowsOf(requests, u)' = RowsOf(requests, u)
              /\ RowsOf(certificates, u)' = RowsOf(certificates, u)
              /\ {x \in documents' : x.user = u} = {x \in documents : x.user = u}
           ]_<<vars, history>>
  BY <1>1
<1> QED
  BY <1>2, SettledRespected, PTL DEF SettledSpec, BanStopsTheUser

\* A revocation, once the calls in flight are answered, is final: the row does
\* not change again, and nothing more is signed or verified under it.
THEOREM RevocationsHold == SettledSpec => RevocationIsFinal
<1>1. ASSUME Respected, SettledNext, NEW c \in DOMAIN certificates,
             <<"revoked", c>> \in settled
      PROVE  /\ certificates'[c] = certificates[c]
             /\ SignedUnder({c})' = SignedUnder({c})
             /\ {v \in verifications' : v.certificate = c}
                   = {v \in verifications : v.certificate = c}
  <2>1. Consistency /\ [Next]_vars /\ RevocationHolds(c)
    BY <1>1 DEF Respected, SettledNext
  <2>2. \A p \in Call : pc[p] \in {"sign.create", "verify.log"}
                           => ctx[p].certificate # c
    BY <2>1 DEF RevocationHolds, ForgetsCertificate, HasCertificate
  <2>3. certificates'[c] = certificates[c]
    BY <2>1, RevokedKept
  <2>4. SignedUnder({c})' = SignedUnder({c})
    BY <2>1, <2>2, EvidenceAfter DEF SignedUnder
  <2>5. {v \in verifications' : v.certificate = c}
           = {v \in verifications : v.certificate = c}
    BY <2>1, <2>2, EvidenceAfter
  <2> QED
    BY <2>3, <2>4, <2>5
<1>2. Respected /\ [SettledNext]_<<vars, history>>
        => [\A c \in DOMAIN certificates : <<"revoked", c>> \in settled =>
              /\ certificates'[c] = certificates[c]
              /\ SignedUnder({c})' = SignedUnder({c})
              /\ {v \in verifications' : v.certificate = c}
                    = {v \in verifications : v.certificate = c}
           ]_<<vars, history>>
  BY <1>1
<1> QED
  BY <1>2, SettledRespected, PTL DEF SettledSpec, RevocationIsFinal

\* A decision on a request, once the calls in flight are answered, is final.
THEOREM DecisionsHold == SettledSpec => DecisionIsFinal
<1>1. ASSUME Respected, SettledNext, NEW r \in DOMAIN requests,
             <<"decided", r>> \in settled
      PROVE  requests'[r] = requests[r]
  BY <1>1, DecidedKept DEF Respected, SettledNext
<1>2. Respected /\ [SettledNext]_<<vars, history>>
        => [\A r \in DOMAIN requests : <<"decided", r>> \in settled =>
              requests'[r] = requests[r]
           ]_<<vars, history>>
  BY <1>1
<1> QED
  BY <1>2, SettledRespected, PTL DEF SettledSpec, DecisionIsFinal

\* A key pair that was rotated away, once the calls in flight are answered, is
\* out of use: nothing is signed with it, requested for it or certified of it.
THEOREM RetirementsHold == SettledSpec => RetirementIsFinal
<1>1. ASSUME Respected, SettledNext, NEW k \in DOMAIN keyPairs,
             <<"retired", k>> \in settled
      PROVE  /\ ~keyPairs'[k].isActive
             /\ SignedBy(k)' = SignedBy(k)
             /\ \A c \in DOMAIN certificates' \ DOMAIN certificates :
                   k \notin {certificates'[c].keyPair, certificates'[c].signer}
             /\ \A r \in DOMAIN requests' \ DOMAIN requests :
                   requests'[r].keyPair # k
  <2>1. Consistency /\ [Next]_vars /\ RetirementHolds(k)
    BY <1>1 DEF Respected, SettledNext
  <2>2. \A p \in Call :
           /\ pc[p] \in {"issue.create", "approve.commit"} => ctx[p].keyPair # k
           /\ pc[p] = "approve.commit" => ctx[p].signer # k
           /\ pc[p] = "sign.create" => ctx[p].signature.keyPair # k
    BY <2>1 DEF RetirementHolds, ForgetsKeyPair, Reviewed
  <2>3. ~keyPairs'[k].isActive
    BY <2>1, KeyPairsAfter DEF RetirementHolds
  <2>4. SignedBy(k)' = SignedBy(k)
    BY <2>1, <2>2, EvidenceAfter DEF SignedBy
  <2>5. \A c \in DOMAIN certificates' \ DOMAIN certificates :
           k \notin {certificates'[c].keyPair, certificates'[c].signer}
    BY <2>1, <2>2, NewCertificates
  <2>6. \A r \in DOMAIN requests' \ DOMAIN requests : requests'[r].keyPair # k
    BY <2>1, <2>2, NewRequests
  <2> QED
    BY <2>3, <2>4, <2>5, <2>6
<1>2. Respected /\ [SettledNext]_<<vars, history>>
        => [\A k \in DOMAIN keyPairs : <<"retired", k>> \in settled =>
              /\ ~keyPairs'[k].isActive
              /\ SignedBy(k)' = SignedBy(k)
              /\ \A c \in DOMAIN certificates' \ DOMAIN certificates :
                    k \notin {certificates'[c].keyPair, certificates'[c].signer}
              /\ \A r \in DOMAIN requests' \ DOMAIN requests :
                    requests'[r].keyPair # k
           ]_<<vars, history>>
  BY <1>1
<1> QED
  BY <1>2, SettledRespected, PTL DEF SettledSpec, RetirementIsFinal
-----------------------------------------------------------------------------
(* A rotation on its own. *)

\* What rotation p of user u has done so far is still so.
HasCleared(p, u) ==
    /\ pc[p] # "rotate.deactivate" => ActiveKeyPairs(u) = {}
    /\ pc[p] \notin {"rotate.deactivate", "rotate.revoke"} => Unrevoked(u) = {}
    /\ pc[p] \in {"generate.findActive", "generate.create"} => Pending(u) = {}

Rotating(p) == pc[p] # "idle" /\ ctx[p].op = "rotate"
Apart(p)    == \A q \in Call \ {p} : ctx[q].user # ctx[p].user

\* A rotation is at a statement of its own; one that has met no other call of
\* its user is the only one about the user.
CleansUp(p) ==
    Rotating(p) =>
        /\ pc[p] \in Replacing
        /\ p \notin overlapped => Apart(p) /\ HasCleared(p, ctx[p].user)

\* The inductive invariant.
Repairing == Consistency /\ \A p \in Call : CleansUp(p)

LEMMA RotationEnters ==
    ASSUME Consistency, [Next]_vars, NEW p \in Call, Enters(p),
           ctx'[p].op = "rotate"
    PROVE  pc'[p] = "rotate.deactivate"
<1>1. TypeOK /\ pc[p] = "idle" /\ pc'[p] # "idle"
  BY DEF Consistency, Enters, Entries
<1>2. ASSUME NEW q \in Call, Step(q) \/ Fail(q) PROVE FALSE
  BY <1>1, <1>2, StepMoves DEF Stays
<1>3. ~Environment /\ ~UNCHANGED vars
  BY <1>1 DEF Environment, Ban, Unban, Tick, vars
<1>4. PICK q \in Call, u \in User : Start(q, u)
  BY <1>2, <1>3 DEF Next
<1>5. q = p
  BY <1>1, <1>4, StartNames DEF Stays
<1>6. ASSUME NEW l, NEW c, Goto(p, l, c), c.op # "rotate" PROVE FALSE
  BY <1>1, <1>6, OneMoves
<1>7. ASSUME NEW a, StartGenerate(p, u, a) PROVE FALSE
  <2>1. [NoContext EXCEPT !.op = "generate", !.user = u, !.algorithm = a].op # "rotate"
    BY DEF NoContext
  <2> QED
    BY <1>6, <1>7, <2>1 DEF StartGenerate, Begin
<1>8. ASSUME NEW a, StartRotate(p, u, a) PROVE pc'[p] = "rotate.deactivate"
  BY <1>1, <1>8, OneMoves DEF StartRotate, Begin
<1>9. ~CertificatesStart(p, u)
  <2>1. \A y, r :
           /\ [NoContext EXCEPT !.op = "issue", !.user = u, !.years = y].op # "rotate"
           /\ [NoContext EXCEPT !.op = "approve", !.request = r,
                                !.user = requests[r].user].op # "rotate"
           /\ [NoContext EXCEPT !.op = "reject", !.request = r,
                                !.user = requests[r].user].op # "rotate"
           /\ [NoContext EXCEPT !.op = "revoke", !.user = u].op # "rotate"
    BY DEF NoContext
  <2>2. \A y : ~StartIssue(p, u, y)
    BY <1>6, <2>1 DEF StartIssue, Begin
  <2>3. \A r : ~StartApprove(p, r)
    BY <1>6, <2>1 DEF StartApprove, Begin
  <2>4. \A r : ~StartReject(p, r)
    BY <1>6, <2>1 DEF StartReject, Begin
  <2>5. ~StartRevoke(p, u)
    BY <1>6, <2>1 DEF StartRevoke, Begin
  <2> QED
    BY <2>2, <2>3, <2>4, <2>5 DEF CertificatesStart
<1>10. ~SigningStart(p, u)
  <2>1. \A d, s :
           /\ [NoContext EXCEPT !.op = "sign", !.user = u, !.document = d].op # "rotate"
           /\ [NoContext EXCEPT !.op = "verify", !.user = u, !.document = d,
                                !.signature = s].op # "rotate"
    BY DEF NoContext
  <2>2. \A d : ~StartSign(p, u, d)
    BY <1>6, <2>1 DEF StartSign, Begin
  <2>3. \A d, s : ~StartVerify(p, u, d, s)
    BY <1>6, <2>1 DEF StartVerify, Begin
  <2> QED
    BY <2>2, <2>3 DEF SigningStart
<1> QED
  BY <1>4, <1>5, <1>7, <1>8, <1>9, <1>10 DEF Start, KeysStart

\* The first statement leaves its user no active key pair.
LEMMA Deactivating ==
    ASSUME Consistency, [Next]_vars, NEW p \in Call, pc[p] = "rotate.deactivate",
           pc'[p] = "rotate.revoke", NEW u, u = ctx[p].user
    PROVE  ActiveKeyPairs(u)' = {}
<1>1. TypeOK /\ ~Stays(p)
  BY DEF Consistency, Stays
<1>2. ~Environment /\ ~UNCHANGED vars
  BY <1>1 DEF Environment, Ban, Unban, Tick, vars, Stays
<1>3. ASSUME NEW q \in Call, NEW v \in User, Start(q, v) PROVE FALSE
  <2>1. q = p
    BY <1>1, <1>3, StartNames
  <2> QED
    BY <1>3, <2>1 DEF Start, KeysStart, CertificatesStart, SigningStart,
       StartGenerate, StartRotate, StartIssue, StartApprove, StartReject,
       StartRevoke, StartSign, StartVerify, Begin
<1>4. Step(p) \/ Fail(p)
  BY <1>1, <1>2, <1>3, StepMoves DEF Next
<1>5. ~Fail(p)
  BY <1>1, OneMoves DEF Fail, Answer
<1>6. RotateDeactivate(p)
  BY <1>4, <1>5 DEF Step, KeysStep, GenerateFindActive, GenerateCreate,
     RotateRevoke, RotateCancel, CertificatesStep, IssuePolicy, IssueKey,
     IssueCertificate, IssuePending, IssueKeyCertificate, IssueCreate,
     ApproveRead, ApprovePolicy, ApproveCertificate, ApproveKeyCertificate,
     ApproveDecrypt, ApproveCommit, RejectRead, RejectUpdate, RevokeFind,
     RevokeUpdate, SigningStep, SignPolicy, SignCertificate, SignKey,
     SignDecrypt, SignCreate, VerifyRead, VerifyLog
<1>7. /\ DOMAIN keyPairs = 1..Len(keyPairs)
      /\ \A k \in DOMAIN keyPairs :
            keyPairs[k] \in [user : User, algorithm : Algorithm, isActive : BOOLEAN]
  BY <1>1, RowTypes DEF TypeOK, TablesOK, KeyPair
<1>8. keyPairs' = UpdateMany(keyPairs, ActiveKeyPairs(u), Deactivated)
  BY <1>6 DEF RotateDeactivate
<1> QED
  BY <1>7, <1>8 DEF UpdateMany, Deactivated, ActiveKeyPairs

\* A step of a lone rotation, or of any call of another user, undoes nothing of
\* what the rotation has done.
LEMMA ClearedStep ==
    ASSUME Repairing, [Next]_vars, NEW p \in Call, Rotating(p), Rotating(p)',
           Apart(p), HasCleared(p, ctx[p].user), Stays(p) \/ Continues(p)
    PROVE  /\ pc'[p] \in Replacing
           /\ HasCleared(p, ctx[p].user)'
<1>1. /\ Consistency /\ pc[p] \in Replacing /\ ctx[p].op = "rotate"
  BY DEF Repairing, CleansUp, Rotating
<1>2. PICK u : u = ctx[p].user
  OBVIOUS
<1>3. ctx'[p] = ctx[p] /\ pc'[p] \in Replacing
  BY <1>1 DEF Stays, Continues, Replacing
<1>4. \A q \in Call : ctx[q].user = u => q = p
  BY <1>2 DEF Apart
<1>5. pc[p] # "rotate.deactivate" \/ pc'[p] = "rotate.deactivate"
         => ActiveKeyPairs(u)' = ActiveKeyPairs(u)
  <2>1. pc[p] = "generate.create" => pc'[p] = pc[p]
    BY <1>3 DEF Stays, Continues
  <2> QED
    BY <1>1, <1>4, <2>1, KeyPairsOfTheRest
<1>6. pc[p] # "rotate.revoke" \/ pc'[p] = "rotate.revoke"
         => Unrevoked(u)' = Unrevoked(u)
  <2>1. pc[p] \notin {"revoke.update", "approve.commit"}
    BY <1>1 DEF Replacing
  <2> QED
    BY <1>1, <1>4, <2>1, CertificatesOfTheRest
<1>7. pc[p] # "rotate.cancel" \/ pc'[p] = "rotate.cancel"
         => Pending(u)' = Pending(u)
  <2>1. pc[p] \notin {"issue.create", "reject.update", "approve.commit"}
    BY <1>1 DEF Replacing
  <2> QED
    BY <1>1, <1>4, <2>1, RequestsOfTheRest
<1>8. HasCleared(p, u)
  BY <1>2
<1>9. ASSUME Stays(p) PROVE HasCleared(p, u)'
  BY <1>5, <1>6, <1>7, <1>8, <1>9 DEF HasCleared, Stays
<1>10. ASSUME Continues(p) PROVE HasCleared(p, u)'
  <2>1. CASE pc[p] = "rotate.deactivate"
    <3>1. pc'[p] = "rotate.revoke"
      BY <1>10, <2>1 DEF Continues
    <3>2. ActiveKeyPairs(u)' = {}
      BY <1>1, <1>2, <2>1, <3>1, Deactivating
    <3> QED
      BY <3>1, <3>2 DEF HasCleared
  <2>2. CASE pc[p] = "rotate.revoke"
    <3>1. pc'[p] = "rotate.cancel" /\ Unrevoked(u)' = {}
      BY <1>2, <1>10, <2>2 DEF Continues, Unrevoked
    <3>2. ActiveKeyPairs(u)' = {}
      BY <1>5, <1>8, <2>2 DEF HasCleared
    <3> QED
      BY <3>1, <3>2 DEF HasCleared
  <2>3. CASE pc[p] = "rotate.cancel"
    <3>1. pc'[p] = "generate.findActive" /\ Pending(u)' = {}
      BY <1>2, <1>10, <2>3 DEF Continues, Pending
    <3>2. ActiveKeyPairs(u)' = {} /\ Unrevoked(u)' = {}
      BY <1>5, <1>6, <1>8, <2>3 DEF HasCleared
    <3> QED
      BY <3>1, <3>2 DEF HasCleared
  <2>4. CASE pc[p] = "generate.findActive"
    <3>1. pc'[p] = "generate.create"
      BY <1>10, <2>4 DEF Continues
    <3>2. ActiveKeyPairs(u)' = {} /\ Unrevoked(u)' = {} /\ Pending(u)' = {}
      BY <1>5, <1>6, <1>7, <1>8, <2>4 DEF HasCleared
    <3> QED
      BY <3>2 DEF HasCleared
  <2>5. pc[p] # "generate.create"
    BY <1>1, <1>3, <1>10 DEF Continues
  <2> QED
    BY <1>1, <2>1, <2>2, <2>3, <2>4, <2>5 DEF Replacing
<1>11. HasCleared(p, u)'
  BY <1>9, <1>10
<1> QED
  BY <1>2, <1>3, <1>11 DEF HasCleared

LEMMA CleansUpStep ==
    ASSUME Repairing, SettledNext, NEW p \in Call
    PROVE  CleansUp(p)'
<1> SUFFICES ASSUME Rotating(p)'
             PROVE  /\ pc'[p] \in Replacing
                    /\ p \notin overlapped' => Apart(p)' /\ HasCleared(p, ctx[p].user)'
  BY DEF CleansUp
<1>1. /\ Consistency /\ [Next]_vars /\ Edge(p) /\ CleansUp(p)
      /\ pc'[p] # "idle" /\ ctx'[p].op = "rotate"
  BY Edges DEF Repairing, SettledNext, Rotating
<1>2. p \notin overlapped' => p \notin overlapped /\ Apart(p)'
  BY <1>1 DEF SettledNext, Meet, Apart
<1>3. CASE Enters(p)
  <2>1. pc'[p] = "rotate.deactivate"
    BY <1>1, <1>3, RotationEnters
  <2> QED
    BY <1>2, <2>1 DEF HasCleared, Replacing
<1>4. CASE Stays(p) \/ Continues(p)
  <2>1. ctx'[p] = ctx[p] /\ pc[p] # "idle"
    BY <1>1, <1>4 DEF Stays, Continues
  <2>2. Rotating(p) /\ pc[p] \in Replacing
    BY <1>1, <2>1 DEF Rotating, CleansUp
  <2>3. pc'[p] \in Replacing
    BY <1>4, <2>2 DEF Stays, Continues, Replacing
  <2>4. ASSUME p \notin overlapped' PROVE HasCleared(p, ctx[p].user)'
    <3>1. Apart(p) /\ HasCleared(p, ctx[p].user)
      BY <1>1, <1>2, <2>2, <2>4 DEF CleansUp
    <3> QED
      BY <1>1, <1>4, <2>2, <3>1, ClearedStep
  <2> QED
    BY <1>2, <2>3, <2>4
<1>5. CASE /\ TakesKeyPair(p) \/ TakesCertificate(p)
           /\ ctx'[p].user = ctx[p].user /\ ctx'[p].op = ctx[p].op
  <2>1. Rotating(p) /\ pc[p] \in Replacing
    BY <1>1, <1>5 DEF Rotating, CleansUp, TakesKeyPair, TakesCertificate
  <2> QED
    BY <1>5, <2>1 DEF TakesKeyPair, TakesCertificate, Replacing, Rotating
<1> QED
  BY <1>1, <1>3, <1>4, <1>5 DEF Edge

LEMMA AlwaysRepairing == SettledSpec => []Repairing
<1>1. SettledInit => Repairing
  BY InitConsistent DEF SettledInit, Init, NoCalls, Repairing, CleansUp, Rotating
<1>2. Repairing /\ [SettledNext]_<<vars, history>> => Repairing'
  <2> SUFFICES ASSUME Repairing, [SettledNext]_<<vars, history>> PROVE Repairing'
    OBVIOUS
  <2>1. Consistency'
    BY NextConsistent DEF Repairing, SettledNext
  <2>2. CASE SettledNext
    BY <2>1, <2>2, CleansUpStep DEF Repairing
  <2>3. CASE UNCHANGED <<vars, history>>
    BY <2>1, <2>3 DEF Repairing, CleansUp, Rotating, Apart, HasCleared,
       ActiveKeyPairs, Unrevoked, Pending, vars, tables, history
  <2> QED
    BY <2>2, <2>3
<1> QED
  BY <1>1, <1>2, PTL DEF SettledSpec

\* A rotation that no other call of its user overlaps, if it does not die, is
\* not refused, and leaves the user one active key pair, the new one, and
\* neither an unrevoked certificate nor a pending request, whatever was there.
THEOREM RotationsRepair == SettledSpec => RotationRepairs
<1>1. ASSUME Repairing, SettledNext, NEW p \in Call \ overlapped, NEW u \in User,
             ctx[p].op = "rotate", ctx[p].user = u,
             pc[p] # "idle", pc'[p] = "idle", failures' = failures
      PROVE  /\ ActiveKeyPairs(u)' = {Len(keyPairs) + 1}
             /\ Unrevoked(u)' = {}
             /\ Pending(u)' = {}
  <2>1. /\ Consistency /\ TypeOK /\ Next
        /\ pc[p] \in Replacing /\ HasCleared(p, u)
    BY <1>1 DEF Repairing, Consistency, SettledNext, CleansUp, Rotating
  <2>2. failures \in Nat /\ ~Stays(p)
    BY <1>1, <2>1 DEF TypeOK, CallsOK, Stays
  <2>3. ~Environment
    BY <1>1 DEF Environment, Ban, Unban, Tick
  <2>4. ASSUME NEW q \in Call, NEW v \in User, Start(q, v) PROVE FALSE
    <3>1. q = p
      BY <2>1, <2>2, <2>4, StartNames
    <3> QED
      BY <1>1, <2>4, <3>1 DEF Start, KeysStart, CertificatesStart, SigningStart,
         StartGenerate, StartRotate, StartIssue, StartApprove, StartReject,
         StartRevoke, StartSign, StartVerify, Begin
  <2>5. Step(p) \/ Fail(p)
    BY <2>1, <2>2, <2>3, <2>4, StepMoves DEF Next
  <2>6. ~Fail(p)
    BY <1>1, <2>2 DEF Fail
  <2>7. KeysStep(p)
    BY <2>1, <2>5, <2>6 DEF Step, Replacing, CertificatesStep, IssuePolicy,
       IssueKey, IssueCertificate, IssuePending, IssueKeyCertificate,
       IssueCreate, ApproveRead, ApprovePolicy, ApproveCertificate,
       ApproveKeyCertificate, ApproveDecrypt, ApproveCommit, RejectRead,
       RejectUpdate, RevokeFind, RevokeUpdate, SigningStep, SignPolicy,
       SignCertificate, SignKey, SignDecrypt, SignCreate, VerifyRead, VerifyLog
  <2>8. ~RotateDeactivate(p) /\ ~RotateRevoke(p) /\ ~RotateCancel(p)
    BY <1>1, <2>1, OneMoves DEF RotateDeactivate, RotateRevoke, RotateCancel
  <2>9. ~GenerateFindActive(p)
    <3>1. pc[p] = "generate.findActive" => ActiveKeyPairs(u) = {}
      BY <2>1 DEF HasCleared
    <3> QED
      BY <1>1, <2>1, <3>1, OneMoves DEF GenerateFindActive
  <2>10. GenerateCreate(p)
    BY <2>7, <2>8, <2>9 DEF KeysStep
  <2>11. /\ ActiveKeyPairs(u) = {} /\ Unrevoked(u) = {} /\ Pending(u) = {}
    BY <2>1, <2>10 DEF HasCleared, GenerateCreate
  <2>12. PICK row : /\ keyPairs' = Append(keyPairs, row)
                    /\ row.user = u /\ row.isActive
    BY <1>1, <2>10 DEF GenerateCreate
  <2>13. keyPairs \in Seq(KeyPair) /\ DOMAIN keyPairs = 1..Len(keyPairs)
         /\ Len(keyPairs) \in Nat
    BY <2>1 DEF TypeOK, TablesOK
  <2>14. ActiveKeyPairs(u)' = {Len(keyPairs) + 1}
    BY <2>11, <2>12, <2>13 DEF ActiveKeyPairs
  <2>15. UNCHANGED <<certificates, requests>>
    BY <2>10 DEF GenerateCreate, WritesKeyPairs
  <2> QED
    BY <2>11, <2>14, <2>15 DEF Unrevoked, Pending
<1>2. Repairing /\ [SettledNext]_<<vars, history>>
        => [\A p \in Call \ overlapped, u \in User :
              /\ ctx[p].op = "rotate" /\ ctx[p].user = u
              /\ pc[p] # "idle" /\ pc'[p] = "idle" /\ failures' = failures
              => /\ ActiveKeyPairs(u)' = {Len(keyPairs) + 1}
                 /\ Unrevoked(u)' = {}
                 /\ Pending(u)' = {}
           ]_<<vars, history>>
  BY <1>1
<1> QED
  BY <1>2, AlwaysRepairing, PTL DEF SettledSpec, RotationRepairs
=============================================================================
