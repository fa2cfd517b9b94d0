---------------------------- MODULE SerialProofs ----------------------------
(***************************************************************************)
(* Proofs, for any users, calls, failures and bounds, of what holds of the *)
(* service's rows when the calls about a user come one after the other.    *)
(* The argument: a call's checks and its write are then about rows that no *)
(* other call of its user touches (the lemmas OfTheRest), so that what the *)
(* call has seen it still knows when it writes (Knows).  What a call that  *)
(* dies leaves behind breaks the agreement between the tables, but none of *)
(* what each table promises alone.                                         *)
(***************************************************************************)
EXTENDS StepProofs, FiniteSetTheorems

\* The calls in flight are about different users.
OneAtATime ==
    \A p, q \in Call :
        /\ pc[p] # "idle" /\ pc[q] # "idle" /\ ctx[p].user = ctx[q].user
        => p = q

\* What a call that waits at label l with local variables d has seen, and is
\* still so.
Knows(l, d) ==
    /\ l = "generate.create" => ActiveKeyPairs(d.user) = {}
    /\ l \in {"issue.keyCertificate", "issue.create"} => Pending(d.user) = {}
    /\ l \in Replacing /\ d.op = "issue" => Pending(d.user) = {}
    /\ l \in HasKeyPair \cup Reviewed \cup {"issue.create"} =>
          d.keyPair \in ActiveKeyPairs(d.user)
    /\ l \in Reviewed \cup {"reject.update"} => d.request \in Pending(d.user)
    /\ l \in {"approve.decrypt", "approve.commit"} => CertificatesOf(d.keyPair) = {}
    /\ l = "approve.commit" => d.signer = d.keyPair
    /\ l \in {"sign.key", "sign.decrypt", "sign.create"} =>
          d.certificate \in Unrevoked(d.user)

AllKnow == \A p \in Call : Knows(pc[p], ctx[p])

OneOfEach(u) ==
    /\ \A j, k \in ActiveKeyPairs(u) : j = k
    /\ \A q, r \in Pending(u) : q = r

OneCertificateEach ==
    \A b, c \in DOMAIN certificates :
        certificates[b].keyPair = certificates[c].keyPair => b = c

ApprovedAreIssued ==
    \A r \in DOMAIN requests :
        (requests[r].status = "APPROVED") <=> (requests[r].issued # 0)

VerifiedWereSigned ==
    \A v \in verifications : \E x \in documents : x.signature = v.signature

\* User u is not in the middle of a rotation that has yet to reach, or to
\* pass, one of these statements.
NotAt(u, labels) == \A p \in Call : ctx[p].user = u => pc[p] \notin labels

\* The unrevoked certificate and the pending request are those of the active
\* key pair, but for what a rotation under way has still to write.
Agree(u) ==
    /\ \A b, c \in Unrevoked(u) : b = c
    /\ NotAt(u, {"rotate.revoke"}) =>
          \A c \in Unrevoked(u) : certificates[c].keyPair \in ActiveKeyPairs(u)
    /\ NotAt(u, {"rotate.revoke", "rotate.cancel"}) =>
          \A r \in Pending(u) : requests[r].keyPair \in ActiveKeyPairs(u)

\* The certificate that signature x was recorded under is revoked or expired.
Lost(x) == \/ certificates[x.certificate].isRevoked
           \/ certificates[x.certificate].notAfter < now

\* A signature on record that v turns down has lost its certificate.
Justified(v) ==
    \A x \in documents :
        /\ v.outcome # "valid" /\ v.user = x.user
        /\ v.document = x.document /\ v.signature = x.signature
        => Lost(x)

Matched(x) == x.signature.keyPair = certificates[x.certificate].keyPair

\* Where no call has died.
Undisturbed ==
    /\ \A u \in User : Agree(u)
    /\ \A x \in documents : Matched(x)
    /\ \A p \in Call : pc[p] = "sign.create" => Matched(ctx[p])
    /\ \A v \in verifications : Justified(v)
    /\ \A p \in Call : pc[p] = "verify.log" => Justified(ctx[p])

\* The inductive invariant.
Orderly ==
    /\ Consistency
    /\ OneAtATime
    /\ AllKnow
    /\ \A u \in User : OneOfEach(u)
    /\ SelfSigned /\ OneCertificateEach
    /\ ApprovedAreIssued /\ IssuedExist /\ AllNamed
    /\ VerifiedWereSigned
    /\ failures = 0 => Undisturbed

-----------------------------------------------------------------------------
(* Calls about a user come one after the other. *)

LEMMA SerialIsNext == SerialNext => Next
  BY DEF SerialNext, Next

\* A call enters when no other call is about its user.
LEMMA EntersAlone ==
    ASSUME Consistency, [SerialNext]_vars, NEW p \in Call, Enters(p)
    PROVE  /\ \A q \in Call : pc[q] # "idle" => ctx[q].user # ctx'[p].user
           /\ \A q \in Call \ {p} : Stays(q)
<1>1. TypeOK
  BY DEF Consistency
<1>2. pc[p] = "idle" /\ pc'[p] # "idle"
  BY DEF Enters, Entries
<1>3. ASSUME NEW q \in Call, Step(q) \/ Fail(q) PROVE FALSE
  <2>1. pc[q] # "idle" /\ \A o \in Call \ {q} : Stays(o)
    BY <1>1, <1>3, StepMoves
  <2> QED
    BY <1>2, <2>1 DEF Stays
<1>4. ~Environment /\ ~UNCHANGED vars
  BY <1>2 DEF Environment, Ban, Unban, Tick, vars
<1>5. PICK q \in Call, u \in User : CallsOf(u) = {} /\ Start(q, u)
  BY <1>3, <1>4 DEF SerialNext
<1>6. ctx'[q].user = u /\ \A o \in Call \ {q} : Stays(o)
  BY <1>1, <1>5, StartNames
<1>7. q = p
  BY <1>2, <1>6 DEF Stays
<1> QED
  BY <1>5, <1>6, <1>7 DEF CallsOf

LEMMA OneAtATimeStep ==
    ASSUME Consistency, [SerialNext]_vars, OneAtATime
    PROVE  OneAtATime'
<1> SUFFICES ASSUME NEW p \in Call, NEW q \in Call, pc'[p] # "idle", pc'[q] # "idle",
                    ctx'[p].user = ctx'[q].user
             PROVE  p = q
  BY DEF OneAtATime
<1>1. [Next]_vars
  BY SerialIsNext
<1>2. \A o \in Call : pc'[o] # "idle" /\ ~Enters(o) =>
         pc[o] # "idle" /\ ctx'[o].user = ctx[o].user
  BY <1>1, SameUser DEF Stays
<1>3. CASE Enters(p) \/ Enters(q)
  <2>1. \A o \in Call : pc[o] = "idle" /\ Stays(o) => pc'[o] = "idle"
    BY DEF Stays
  <2>2. ASSUME NEW a \in Call, NEW b \in Call, Enters(a), a # b,
               ctx'[a].user = ctx'[b].user, pc'[b] # "idle"
        PROVE  FALSE
    <3>1. Stays(b)
      BY <2>2, EntersAlone
    <3>2. pc[b] # "idle" /\ ctx[b].user = ctx'[b].user
      BY <2>1, <2>2, <3>1 DEF Stays
    <3> QED
      BY <2>2, <3>2, EntersAlone
  <2> QED
    BY <1>3, <2>2
<1>4. CASE ~Enters(p) /\ ~Enters(q)
  BY <1>2, <1>4 DEF OneAtATime
<1> QED
  BY <1>3, <1>4

-----------------------------------------------------------------------------
(* The rows of a user who has one call in flight. *)

\* No call but a review of the user's request inserts a certificate for one of
\* the user's key pairs.
LEMMA KeyPairStaysUncertified ==
    ASSUME Consistency, [Next]_vars, NEW u, NEW k, Owns(u, k),
           CertificatesOf(k) = {},
           \A p \in Call : ctx[p].user = u /\ pc[p] = "approve.commit" =>
              pc'[p] = pc[p]
    PROVE  CertificatesOf(k)' = {}
<1>1. \A c \in DOMAIN certificates : certificates'[c].keyPair # k
  BY CertificatesAfter DEF CertificatesOf
<1>2. ASSUME NEW c \in DOMAIN certificates' \ DOMAIN certificates
      PROVE  certificates'[c].keyPair # k
  <2>1. PICK p \in Call : /\ pc[p] = "approve.commit" /\ pc'[p] = "idle"
                          /\ certificates'[c].keyPair = ctx[p].keyPair
    BY NewCertificates
  <2>2. Owns(ctx[p].user, ctx[p].keyPair)
    BY <2>1, CallFacts DEF Consistent, Reviewing, Reviewed, Consistency, Ownership
  <2> QED
    BY <2>1, <2>2 DEF Owns
<1> QED
  BY <1>1, <1>2 DEF CertificatesOf

\* A call in flight has its user's rows to itself.
LEMMA ToItself ==
    ASSUME Consistency, OneAtATime, [Next]_vars, NEW p \in Call,
           pc[p] # "idle", NEW u, u = ctx[p].user
    PROVE  /\ pc'[p] = pc[p] \/ pc[p] \notin {"generate.create", "rotate.deactivate"}
              => ActiveKeyPairs(u)' = ActiveKeyPairs(u)
           /\ pc'[p] = pc[p] \/ pc[p] \notin {"rotate.revoke", "revoke.update",
                                             "approve.commit"}
              => Unrevoked(u)' = Unrevoked(u)
           /\ pc'[p] = pc[p] \/ pc[p] \notin {"issue.create", "rotate.cancel",
                                             "reject.update", "approve.commit"}
              => Pending(u)' = Pending(u)
<1>1. \A q \in Call : ctx[q].user = u /\ pc[q] # "idle" => q = p
  BY DEF OneAtATime
<1>2. ASSUME pc'[p] = pc[p] \/ pc[p] \notin {"generate.create", "rotate.deactivate"}
      PROVE  ActiveKeyPairs(u)' = ActiveKeyPairs(u)
  BY <1>1, <1>2, KeyPairsOfTheRest
<1>3. ASSUME pc'[p] = pc[p] \/ pc[p] \notin {"rotate.revoke", "revoke.update",
                                            "approve.commit"}
      PROVE  Unrevoked(u)' = Unrevoked(u)
  BY <1>1, <1>3, CertificatesOfTheRest
<1>4. ASSUME pc'[p] = pc[p] \/ pc[p] \notin {"issue.create", "rotate.cancel",
                                            "reject.update", "approve.commit"}
      PROVE  Pending(u)' = Pending(u)
  BY <1>1, <1>4, RequestsOfTheRest
<1> QED
  BY <1>2, <1>3, <1>4

-----------------------------------------------------------------------------
(* What a call knows stays so, and what it comes to know is so. *)

LEMMA KnowsStep ==
    ASSUME Consistency, OneAtATime, AllKnow, [Next]_vars,
           \A u \in User : OneOfEach(u), NEW p \in Call
    PROVE  Knows(pc[p], ctx[p])'
<1>1. PICK l, d : l = pc'[p] /\ d = ctx'[p]
  OBVIOUS
<1> SUFFICES Knows(l, d)'
  BY <1>1 DEF Knows
<1>2. CASE l = "idle" \/ Enters(p)
  BY <1>1, <1>2 DEF Knows, Enters, Entries, Replacing, HasKeyPair, Reviewed
<1>3. CASE l # "idle" /\ ~Enters(p)
  <2>1. PICK u : u = ctx[p].user
    OBVIOUS
  <2>2. pc[p] # "idle" /\ d.user = u /\ d.op = ctx[p].op
    BY <1>1, <1>3, <2>1, SameUser DEF Stays
  <2>3. Knows(pc[p], ctx[p]) /\ Consistent(pc[p], ctx[p]) /\ u \in User
    BY <2>1, <2>2, CallFacts DEF AllKnow, Consistent
  <2>4. CASE Stays(p)
    <3>1. /\ l = pc[p] /\ d = ctx[p]
          /\ ActiveKeyPairs(u)' = ActiveKeyPairs(u)
          /\ Unrevoked(u)' = Unrevoked(u) /\ Pending(u)' = Pending(u)
      BY <1>1, <2>1, <2>2, <2>4, ToItself DEF Stays
    <3>2. ASSUME l \in {"approve.decrypt", "approve.commit"}
          PROVE  CertificatesOf(d.keyPair)' = {}
      <4>1. Owns(u, d.keyPair) /\ CertificatesOf(d.keyPair) = {}
        BY <2>1, <2>3, <3>1, <3>2 DEF Knows, Reviewed, ActiveKeyPairs, Owns
      <4>2. \A q \in Call : ctx[q].user = u /\ pc[q] # "idle" => q = p
        BY <2>1, <2>2 DEF OneAtATime
      <4> QED
        BY <2>4, <4>1, <4>2, KeyPairStaysUncertified DEF Stays
    <3> QED
      BY <2>1, <2>3, <3>1, <3>2 DEF Knows
  <2>5. CASE ~Stays(p)
    <3> DEFINE Unwritten == /\ ActiveKeyPairs(u)' = ActiveKeyPairs(u)
                            /\ Unrevoked(u)' = Unrevoked(u)
                            /\ Pending(u)' = Pending(u)
    <3>1. Continues(p) \/ TakesKeyPair(p) \/ TakesCertificate(p)
      BY <1>1, <1>3, <2>5, Edges DEF Edge
    <3>2. pc[p] \notin {"generate.create", "rotate.deactivate", "rotate.revoke",
                        "revoke.update", "approve.commit", "issue.create",
                        "rotate.cancel", "reject.update"} => Unwritten
      BY <2>1, <2>2, ToItself
    <3>3. ASSUME l \in {"approve.decrypt", "approve.commit"}
          PROVE  CertificatesOf(d.keyPair)' = {}
      <4>1. /\ pc[p] \in {"approve.keyCertificate", "approve.decrypt"}
            /\ d.keyPair = ctx[p].keyPair /\ CertificatesOf(d.keyPair) = {}
        BY <1>1, <2>3, <3>1, <3>3 DEF Continues, TakesKeyPair, TakesCertificate, Knows
      <4>2. Owns(u, d.keyPair)
        BY <2>1, <2>3, <4>1 DEF Knows, Reviewed, ActiveKeyPairs, Owns
      <4>3. \A q \in Call : ctx[q].user = u /\ pc[q] # "idle" => q = p
        BY <2>1, <2>2 DEF OneAtATime
      <4> QED
        BY <4>1, <4>2, <4>3, KeyPairStaysUncertified
    <3>4. CASE Continues(p)
      <4>1. d = ctx[p]
        BY <1>1, <3>4 DEF Continues
      <4>2. CASE pc[p] \in {"rotate.deactivate", "rotate.revoke", "rotate.cancel"}
        <5>1. l \in {"rotate.revoke", "rotate.cancel", "generate.findActive"}
          BY <1>1, <3>4, <4>2 DEF Continues
        <5>2. d.op = "issue" => Pending(u) = {}
          BY <2>1, <2>3, <4>1, <4>2 DEF Knows, Replacing
        <5>3. d.op = "issue" => Pending(u)' = {}
          <6>1. CASE pc[p] = "rotate.cancel"
            BY <2>1, <3>4, <6>1 DEF Continues, Pending
          <6>2. CASE pc[p] # "rotate.cancel"
            BY <2>1, <2>2, <4>2, <5>2, <6>2, ToItself
          <6> QED
            BY <6>1, <6>2
        <5> QED
          BY <2>2, <5>1, <5>3 DEF Knows, HasKeyPair, Reviewed
      <4>3. CASE pc[p] \notin {"rotate.deactivate", "rotate.revoke", "rotate.cancel"}
        <5>1. Unwritten
          BY <3>2, <3>4, <4>3 DEF Continues
        <5>2. l = "reject.update" => d.request \in Pending(u)
          BY <1>1, <2>1, <2>3, <3>4, <4>1 DEF Continues, Pending, Consistent, Reviewing
        <5>3. l = "generate.create" => ActiveKeyPairs(u) = {}
          BY <1>1, <2>1, <3>4 DEF Continues
        <5>4. /\ l \in {"issue.keyCertificate", "issue.create"} => Pending(u) = {}
              /\ l \in Replacing /\ d.op = "issue" => Pending(u) = {}
              /\ l \in HasKeyPair \cup Reviewed \cup {"issue.create"} =>
                    d.keyPair \in ActiveKeyPairs(u)
              /\ l \in Reviewed => d.request \in Pending(u)
          BY <1>1, <2>1, <2>3, <3>4, <4>1, <4>3
             DEF Continues, Knows, Replacing, HasKeyPair, Reviewed
        <5>5. l \notin {"approve.commit", "sign.key", "sign.decrypt", "sign.create"}
          BY <1>1, <3>4 DEF Continues
        <5> QED
          BY <2>2, <3>3, <5>1, <5>2, <5>3, <5>4, <5>5 DEF Knows
      <4> QED
        BY <4>2, <4>3
    <3>5. CASE TakesKeyPair(p)
      <4>1. CASE pc[p] = "issue.key"
        BY <1>1, <2>1, <2>2, <3>2, <3>5, <4>1
           DEF TakesKeyPair, Knows, Replacing, HasKeyPair, Reviewed
      <4>2. CASE pc[p] = "generate.create"
        <5>1. Pending(u) = {} /\ Pending(u)' = Pending(u)
          BY <2>1, <2>2, <2>3, <3>5, <4>2, ToItself DEF TakesKeyPair, Knows, Replacing
        <5>2. l = "issue.create" /\ d.keyPair \in ActiveKeyPairs(u)'
          BY <1>1, <2>1, <3>5, <4>2 DEF TakesKeyPair, ActiveKeyPairs
        <5> QED
          BY <2>2, <5>1, <5>2 DEF Knows, Replacing, HasKeyPair, Reviewed
      <4>3. CASE pc[p] = "approve.read"
        <5>1. /\ l = "approve.policy" /\ d.request \in DOMAIN requests
              /\ requests[d.request].user = u
              /\ requests[d.request].status = "PENDING"
              /\ d.keyPair = requests[d.request].keyPair
              /\ keyPairs[d.keyPair].isActive
          BY <1>1, <2>1, <2>3, <3>5, <4>3 DEF TakesKeyPair, Consistent, Reviewing
        <5>2. d.request \in Pending(u) /\ d.keyPair \in ActiveKeyPairs(u)
          BY <5>1 DEF Pending, ActiveKeyPairs, Consistency, Ownership, Owns
        <5> QED
          BY <2>2, <3>2, <4>3, <5>1, <5>2 DEF Knows, Replacing, HasKeyPair, Reviewed
      <4>4. CASE pc[p] = "approve.decrypt"
        <5>1. /\ l = "approve.commit" /\ d.keyPair \in ActiveKeyPairs(u)
              /\ d.request \in Pending(u) /\ d.signer \in ActiveKeyPairs(u)
          BY <1>1, <2>1, <2>3, <3>5, <4>4 DEF TakesKeyPair, Knows, Reviewed
        <5>2. d.signer = d.keyPair
          BY <2>3, <5>1 DEF OneOfEach
        <5> QED
          BY <2>2, <3>2, <3>3, <4>4, <5>1, <5>2
             DEF Knows, Replacing, HasKeyPair, Reviewed
      <4>5. CASE pc[p] = "sign.decrypt"
        BY <1>1, <2>1, <2>2, <2>3, <3>2, <3>5, <4>5
           DEF TakesKeyPair, Knows, Replacing, HasKeyPair, Reviewed
      <4> QED
        BY <3>5, <4>1, <4>2, <4>3, <4>4, <4>5 DEF TakesKeyPair
    <3>6. CASE TakesCertificate(p)
      BY <1>1, <2>1, <2>2, <2>3, <3>2, <3>6
         DEF TakesCertificate, Knows, Replacing, HasKeyPair, Reviewed
    <3> QED
      BY <3>1, <3>4, <3>5, <3>6
  <2> QED
    BY <2>4, <2>5
<1> QED
  BY <1>2, <1>3

-----------------------------------------------------------------------------
(* What each table promises alone, whichever calls die. *)

LEMMA OneOfEachStep ==
    ASSUME Consistency, AllKnow, [Next]_vars, NEW u, OneOfEach(u)
    PROVE  OneOfEach(u)'
<1>1. ASSUME NEW j \in ActiveKeyPairs(u)', NEW k \in ActiveKeyPairs(u)'
      PROVE  j = k
  <2>1. \A i \in ActiveKeyPairs(u)' : i \in DOMAIN keyPairs => i \in ActiveKeyPairs(u)
    BY KeyPairsAfter DEF ActiveKeyPairs
  <2>2. ASSUME NEW i \in ActiveKeyPairs(u)', i \notin DOMAIN keyPairs
        PROVE  i = Len(keyPairs) + 1 /\ ActiveKeyPairs(u) = {}
    <3>1. i \in DOMAIN keyPairs' \ DOMAIN keyPairs /\ keyPairs'[i].user = u
      BY <2>2 DEF ActiveKeyPairs
    <3>2. PICK p \in Call : pc[p] = "generate.create" /\ ctx[p].user = u
      BY <3>1, NewKeyPairs
    <3> QED
      BY <3>1, <3>2, NewKeyPairs DEF AllKnow, Knows
  <2> QED
    BY <2>1, <2>2 DEF OneOfEach
<1>2. ASSUME NEW q \in Pending(u)', NEW r \in Pending(u)'
      PROVE  q = r
  <2>1. \A i \in Pending(u)' : i \in DOMAIN requests => i \in Pending(u)
    BY RequestsAfter DEF Pending
  <2>2. ASSUME NEW i \in Pending(u)', i \notin DOMAIN requests
        PROVE  i = Len(requests) + 1 /\ Pending(u) = {}
    <3>1. i \in DOMAIN requests' \ DOMAIN requests /\ requests'[i].user = u
      BY <2>2 DEF Pending
    <3>2. PICK p \in Call : pc[p] = "issue.create" /\ ctx[p].user = u
      BY <3>1, NewRequests
    <3> QED
      BY <3>1, <3>2, NewRequests DEF AllKnow, Knows
  <2> QED
    BY <2>1, <2>2 DEF OneOfEach
<1> QED
  BY <1>1, <1>2 DEF OneOfEach

LEMMA CertificatesAloneStep ==
    ASSUME Consistency, AllKnow, [Next]_vars, SelfSigned, OneCertificateEach
    PROVE  SelfSigned' /\ OneCertificateEach'
<1>1. ASSUME NEW c \in DOMAIN certificates' \ DOMAIN certificates
      PROVE  /\ c = Len(certificates) + 1
             /\ certificates'[c].signer = certificates'[c].keyPair
             /\ CertificatesOf(certificates'[c].keyPair) = {}
  <2>1. PICK p \in Call : /\ pc[p] = "approve.commit"
                          /\ certificates'[c].keyPair = ctx[p].keyPair
                          /\ certificates'[c].signer = ctx[p].signer
    BY NewCertificates
  <2>2. CertificatesOf(ctx[p].keyPair) = {} /\ ctx[p].signer = ctx[p].keyPair
    BY <2>1 DEF AllKnow, Knows
  <2> QED
    BY <2>1, <2>2, NewCertificates
<1>2. \A c \in DOMAIN certificates :
         /\ certificates'[c].keyPair = certificates[c].keyPair
         /\ certificates'[c].signer = certificates[c].signer
  BY CertificatesAfter
<1>3. SelfSigned'
  BY <1>1, <1>2 DEF SelfSigned
<1>4. ASSUME NEW b \in DOMAIN certificates', NEW c \in DOMAIN certificates',
             certificates'[b].keyPair = certificates'[c].keyPair
      PROVE  b = c
  BY <1>1, <1>2, <1>4 DEF OneCertificateEach, CertificatesOf
<1> QED
  BY <1>3, <1>4 DEF OneCertificateEach

LEMMA RequestsAloneStep ==
    ASSUME Consistency, AllKnow, [Next]_vars, ApprovedAreIssued, IssuedExist, AllNamed
    PROVE  ApprovedAreIssued' /\ IssuedExist' /\ AllNamed'
<1>1. ASSUME NEW p \in Call, pc[p] \in {"reject.update", "approve.commit"}
      PROVE  requests[ctx[p].request].issued = 0
  <2>1. ctx[p].request \in Pending(ctx[p].user)
    BY <1>1 DEF AllKnow, Knows, Reviewed
  <2> QED
    BY <2>1 DEF Pending, ApprovedAreIssued
<1>2. ASSUME NEW r \in DOMAIN requests
      PROVE  (requests'[r].status = "APPROVED") <=> (requests'[r].issued # 0)
  <2>1. Len(certificates) + 1 # 0
    BY DEF Consistency, TypeOK, TablesOK
  <2> QED
    BY <1>1, <2>1, RequestsAfter DEF ApprovedAreIssued
<1>3. ApprovedAreIssued'
  BY <1>2, NewRequests DEF ApprovedAreIssued
<1>4. ApprovesTheUnissued
  BY <1>1 DEF ApprovesTheUnissued
<1> QED
  BY <1>3, <1>4, NamesStep

LEMMA VerifiedWereSignedStep ==
    ASSUME Consistency, [Next]_vars, VerifiedWereSigned
    PROVE  VerifiedWereSigned'
<1>1. \A p \in Call : pc[p] = "verify.log" =>
         \E x \in documents : x.signature = ctx[p].signature
  BY CallFacts DEF Consistent, Verifies
<1>2. \A v \in verifications' \ verifications :
         \E x \in documents : x.signature = v.signature
  BY <1>1, EvidenceAfter
<1> QED
  BY <1>2, EvidenceAfter DEF VerifiedWereSigned

-----------------------------------------------------------------------------
(* Where no call has died. *)

\* Neither the clock nor the count of failures goes back.
LEMMA Later ==
    ASSUME Consistency, [Next]_vars
    PROVE  now' \in Nat /\ now <= now' /\ (failures' = 0 => failures = 0)
<1>1. now \in Nat /\ failures \in Nat
  BY DEF Consistency, TypeOK, TablesOK, CallsOK
<1>2. ASSUME NEW p \in Call, NEW u \in User, Start(p, u)
      PROVE  UNCHANGED <<now, failures>>
  BY <1>2 DEF Start, KeysStart, CertificatesStart, SigningStart, StartGenerate,
     StartRotate, StartIssue, StartApprove, StartReject, StartRevoke, StartSign,
     StartVerify, Reads
<1>3. ASSUME NEW p \in Call, KeysStep(p)
      PROVE  UNCHANGED <<now, failures>>
  BY <1>3 DEF KeysStep, GenerateFindActive, GenerateCreate, RotateDeactivate,
     RotateRevoke, RotateCancel, Reads, WritesKeyPairs, WritesCertificates,
     WritesRequests
<1>4. ASSUME NEW p \in Call, CertificatesStep(p)
      PROVE  UNCHANGED <<now, failures>>
  BY <1>4 DEF CertificatesStep, IssuePolicy, IssueKey, IssueCertificate,
     IssuePending, IssueKeyCertificate, IssueCreate, ApproveRead, ApprovePolicy,
     ApproveCertificate, ApproveKeyCertificate, ApproveDecrypt, ApproveCommit,
     RejectRead, RejectUpdate, RevokeFind, RevokeUpdate, Reads,
     WritesCertificates, WritesRequests
<1>5. ASSUME NEW p \in Call, SigningStep(p)
      PROVE  UNCHANGED <<now, failures>>
  BY <1>5 DEF SigningStep, SignPolicy, SignCertificate, SignKey, SignDecrypt,
     SignCreate, VerifyRead, VerifyLog, Reads, WritesEvidence
<1>6. ASSUME NEW p \in Call, Fail(p) PROVE now' = now /\ failures' = failures + 1
  BY <1>6 DEF Fail
<1>7. ASSUME Environment PROVE (now' = now \/ now' = now + 1) /\ failures' = failures
  BY <1>7 DEF Environment, Ban, Unban, Tick
<1> QED
  BY <1>1, <1>2, <1>3, <1>4, <1>5, <1>6, <1>7 DEF Next, Step, vars

\* The statements of a rotation are refused nothing: only death ends it before
\* it is through.
LEMMA RotationsGoOn ==
    ASSUME Consistency, [Next]_vars, NEW p \in Call,
           pc[p] \in {"rotate.deactivate", "rotate.revoke", "rotate.cancel"},
           pc'[p] = "idle"
    PROVE  failures' # 0
<1>1. TypeOK /\ failures \in Nat
  BY DEF Consistency, TypeOK, CallsOK
<1>2. ~Stays(p) /\ pc'[p] # pc[p]
  BY DEF Stays
<1>3. ~Environment /\ ~UNCHANGED vars
  BY <1>2 DEF Environment, Ban, Unban, Tick, vars
<1>4. ASSUME NEW q \in Call, NEW u \in User, Start(q, u) PROVE FALSE
  <2>1. q = p
    BY <1>1, <1>2, <1>4, StartNames
  <2>2. pc[q] = "idle"
    BY <1>4 DEF Start, KeysStart, CertificatesStart, SigningStart, StartGenerate,
       StartRotate, StartIssue, StartApprove, StartReject, StartRevoke,
       StartSign, StartVerify, Begin
  <2> QED
    BY <2>1, <2>2
<1>5. PICK q \in Call : Step(q) \/ Fail(q)
  BY <1>3, <1>4 DEF Next
<1>6. q = p
  BY <1>1, <1>2, <1>5, StepMoves
<1>7. ASSUME Step(p) PROVE FALSE
  <2>1. CASE KeysStep(p)
    BY <1>1, <2>1, OneMoves DEF KeysStep, GenerateFindActive, GenerateCreate,
       RotateDeactivate, RotateRevoke, RotateCancel
  <2>2. ~CertificatesStep(p)
    BY DEF CertificatesStep, IssuePolicy, IssueKey, IssueCertificate,
       IssuePending, IssueKeyCertificate, IssueCreate, ApproveRead,
       ApprovePolicy, ApproveCertificate, ApproveKeyCertificate, ApproveDecrypt,
       ApproveCommit, RejectRead, RejectUpdate, RevokeFind, RevokeUpdate
  <2>3. ~SigningStep(p)
    BY DEF SigningStep, SignPolicy, SignCertificate, SignKey, SignDecrypt,
       SignCreate, VerifyRead, VerifyLog
  <2> QED
    BY <1>7, <2>1, <2>2, <2>3 DEF Step
<1>8. failures' = failures + 1
  BY <1>5, <1>6, <1>7 DEF Fail
<1> QED
  BY <1>1, <1>8

LEMMA AgreeStep ==
    ASSUME Consistency, OneAtATime, AllKnow, [Next]_vars, NEW u \in User,
           OneOfEach(u), Agree(u), failures' = 0
    PROVE  Agree(u)'
\* A rotation about the user is at one of its statements, or moves on.
<1>1. ASSUME NEW p \in Call, ctx[p].user = u,
             pc[p] \in {"rotate.deactivate", "rotate.revoke", "rotate.cancel"},
             pc'[p] # pc[p]
      PROVE  Continues(p) /\ ctx'[p].user = u
  BY <1>1, Edges, RotationsGoOn DEF Edge, Stays, Enters, TakesKeyPair,
     TakesCertificate, Continues
<1>2. ASSUME NEW p \in Call, ctx[p].user = u, pc'[p] = pc[p], pc[p] # "idle"
      PROVE  ctx'[p].user = u
  BY <1>2, Edges DEF Edge, Stays, Enters, Continues, TakesKeyPair, TakesCertificate
<1>3. ASSUME NEW k \in ActiveKeyPairs(u), NotAt(u, {"rotate.revoke"})'
      PROVE  k \in ActiveKeyPairs(u)'
  <2>1. ASSUME NEW p \in Call, pc[p] = "rotate.deactivate",
               pc'[p] = "rotate.revoke", ctx[p].user = u
        PROVE  FALSE
    BY <1>1, <1>3, <2>1 DEF NotAt
  <2> QED
    BY <1>3, <2>1, KeyPairsAfter DEF ActiveKeyPairs
<1>4. ASSUME NEW c \in Unrevoked(u)', c \notin Unrevoked(u)
      PROVE  /\ c = Len(certificates) + 1 /\ Unrevoked(u) = {}
             /\ certificates'[c].keyPair \in ActiveKeyPairs(u)
  <2>1. c \in DOMAIN certificates' \ DOMAIN certificates
    BY <1>4, CertificatesAfter DEF Unrevoked
  <2>2. PICK p \in Call : /\ pc[p] = "approve.commit" /\ ctx[p].user = u
                          /\ certificates'[c].keyPair = ctx[p].keyPair
    BY <1>4, <2>1, NewCertificates DEF Unrevoked
  <2>3. /\ ctx[p].keyPair \in ActiveKeyPairs(u)
        /\ CertificatesOf(ctx[p].keyPair) = {}
    BY <2>2 DEF AllKnow, Knows, Reviewed
  <2>4. NotAt(u, {"rotate.revoke"})
    BY <2>2 DEF NotAt, OneAtATime
  <2>5. \A b \in Unrevoked(u) : certificates[b].keyPair = ctx[p].keyPair
    BY <2>3, <2>4 DEF Agree, OneOfEach
  <2> QED
    BY <2>1, <2>2, <2>3, <2>5, NewCertificates DEF CertificatesOf, Unrevoked
<1>5. ASSUME NEW r \in Pending(u)', r \notin Pending(u)
      PROVE  requests'[r].keyPair \in ActiveKeyPairs(u)
  <2>1. r \in DOMAIN requests' \ DOMAIN requests
    BY <1>5, RequestsAfter DEF Pending
  <2>2. PICK p \in Call : /\ pc[p] = "issue.create" /\ ctx[p].user = u
                          /\ requests'[r].keyPair = ctx[p].keyPair
    BY <1>5, <2>1, NewRequests DEF Pending
  <2> QED
    BY <2>2 DEF AllKnow, Knows
<1>6. \A b, c \in Unrevoked(u)' : b = c
  BY <1>4 DEF Agree
<1>7. ASSUME NotAt(u, {"rotate.revoke"})', NEW c \in Unrevoked(u)'
      PROVE  certificates'[c].keyPair \in ActiveKeyPairs(u)'
  <2>1. CASE c \in Unrevoked(u)
    <3>1. ASSUME NEW p \in Call, ctx[p].user = u, pc[p] = "rotate.revoke"
          PROVE  FALSE
      <4>1. pc'[p] # pc[p]
        BY <1>2, <1>7, <3>1 DEF NotAt
      <4> QED
        BY <1>1, <1>7, <3>1, <4>1 DEF Continues, Unrevoked
    <3>2. certificates[c].keyPair \in ActiveKeyPairs(u)
      BY <2>1, <3>1 DEF Agree, NotAt
    <3>3. certificates'[c].keyPair = certificates[c].keyPair
      BY <2>1, CertificatesAfter DEF Unrevoked
    <3> QED
      BY <1>3, <1>7, <3>2, <3>3
  <2>2. CASE c \notin Unrevoked(u)
    BY <1>3, <1>4, <1>7, <2>2
  <2> QED
    BY <2>1, <2>2
<1>8. ASSUME NotAt(u, {"rotate.revoke", "rotate.cancel"})', NEW r \in Pending(u)'
      PROVE  requests'[r].keyPair \in ActiveKeyPairs(u)'
  <2>1. NotAt(u, {"rotate.revoke"})'
    BY <1>8 DEF NotAt
  <2>2. CASE r \in Pending(u)
    <3>1. ASSUME NEW p \in Call, ctx[p].user = u,
                 pc[p] \in {"rotate.revoke", "rotate.cancel"}
          PROVE  FALSE
      <4>1. pc'[p] # pc[p]
        BY <1>2, <1>8, <3>1 DEF NotAt
      <4>2. Continues(p) /\ ctx'[p].user = u
        BY <1>1, <3>1, <4>1
      <4>3. pc[p] = "rotate.cancel"
        BY <1>8, <3>1, <4>2 DEF Continues, NotAt
      <4> QED
        BY <1>8, <3>1, <4>2, <4>3 DEF Continues, Pending
    <3>2. requests[r].keyPair \in ActiveKeyPairs(u)
      BY <2>2, <3>1 DEF Agree, NotAt
    <3>3. requests'[r].keyPair = requests[r].keyPair
      BY <2>2, RequestsAfter DEF Pending
    <3> QED
      BY <1>3, <2>1, <3>2, <3>3
  <2>3. CASE r \notin Pending(u)
    BY <1>3, <1>5, <1>8, <2>1, <2>3
  <2> QED
    BY <2>2, <2>3
<1> QED
  BY <1>6, <1>7, <1>8 DEF Agree

LEMMA MatchedStep ==
    ASSUME Consistency, OneAtATime, AllKnow, [Next]_vars,
           \A u \in User : OneOfEach(u), Undisturbed
    PROVE  /\ \A x \in documents' : Matched(x)'
           /\ \A p \in Call : pc'[p] = "sign.create" => Matched(ctx[p])'
<1>1. ASSUME NEW x \in documents
      PROVE  Matched(x)'
  <2>1. x.certificate \in DOMAIN certificates /\ Matched(x)
    BY DEF Consistency, Ownership, Undisturbed
  <2> QED
    BY <2>1, CertificatesAfter DEF Matched
<1>2. ASSUME NEW x \in documents' \ documents
      PROVE  Matched(x)'
  <2>1. PICK p \in Call : /\ pc[p] = "sign.create"
                          /\ x.certificate = ctx[p].certificate
                          /\ x.signature = ctx[p].signature
    BY EvidenceAfter
  <2>2. Matched(ctx[p]) /\ ctx[p].certificate \in DOMAIN certificates
    BY <2>1, CallFacts DEF Undisturbed, Consistent, HasCertificate
  <2> QED
    BY <2>1, <2>2, CertificatesAfter DEF Matched
<1>3. ASSUME NEW p \in Call, pc'[p] = "sign.create"
      PROVE  Matched(ctx[p])'
  <2>1. PICK d : d = ctx'[p]
    OBVIOUS
  <2>2. CASE Stays(p)
    <3>1. pc[p] = "sign.create" /\ ctx[p] = d
      BY <1>3, <2>1, <2>2 DEF Stays
    <3>2. Matched(d) /\ d.certificate \in DOMAIN certificates
      BY <3>1, CallFacts DEF Undisturbed, Consistent, HasCertificate
    <3> QED
      BY <2>1, <3>2, CertificatesAfter DEF Matched
  <2>3. CASE ~Stays(p)
    <3>1. /\ pc[p] = "sign.decrypt" /\ d.certificate = ctx[p].certificate
          /\ d.signature.keyPair \in ActiveKeyPairs(ctx[p].user)
      BY <1>3, <2>1, <2>3, Edges DEF Edge, Enters, Entries, Continues, TakesKeyPair,
         TakesCertificate
    <3>2. PICK u : u = ctx[p].user
      OBVIOUS
    <3>3. u \in User /\ d.certificate \in Unrevoked(u)
      BY <3>1, <3>2, CallFacts DEF AllKnow, Knows, Consistent
    <3>4. NotAt(u, {"rotate.revoke"})
      BY <3>1, <3>2 DEF NotAt, OneAtATime
    <3>5. certificates[d.certificate].keyPair = d.signature.keyPair
      BY <3>1, <3>2, <3>3, <3>4 DEF Undisturbed, Agree, OneOfEach
    <3>6. d.certificate \in DOMAIN certificates
      BY <3>3 DEF Unrevoked
    <3> QED
      BY <2>1, <3>5, <3>6, CertificatesAfter DEF Matched
  <2> QED
    BY <2>2, <2>3
<1> QED
  BY <1>1, <1>2, <1>3

\* What has lost its certificate does not get it back.
LEMMA LostForGood ==
    ASSUME Consistency, [Next]_vars, NEW x, x.certificate \in DOMAIN certificates,
           Lost(x)
    PROVE  Lost(x)'
<1>1. PICK c \in DOMAIN certificates : c = x.certificate
  OBVIOUS
<1>2. /\ certificates[c].notAfter \in Nat /\ now \in Nat
      /\ now' \in Nat /\ now <= now'
  BY RowTypes, Later DEF Consistency, TypeOK, TablesOK, Certificate
<1>3. certificates'[c].notAfter = certificates[c].notAfter
  BY CertificatesAfter
<1>4. certificates[c].isRevoked => certificates'[c].isRevoked
  BY CertificatesAfter
<1> QED
  BY <1>1, <1>2, <1>3, <1>4 DEF Lost

\* verify() finds the one certificate that can be unrevoked, which the
\* signature was recorded under.
LEMMA VerdictJustified ==
    ASSUME Consistency, [Next]_vars, Undisturbed, NEW p \in Call,
           pc[p] = "verify.read", pc'[p] = "verify.log", NEW d, d = ctx'[p],
           NEW x \in documents, d.outcome # "valid", d.user = x.user,
           d.document = x.document, d.signature = x.signature
    PROVE  Lost(x)
<1> SUFFICES ASSUME ~Lost(x) PROVE FALSE
  OBVIOUS
<1>1. /\ d.certificate \in FindLatest(Unrevoked(ctx[p].user))
      /\ d.outcome = Verdict(d.certificate, ctx[p].document, ctx[p].signature)
      /\ d.document = ctx[p].document /\ d.signature = ctx[p].signature
      /\ d.user = ctx[p].user
  BY Edges DEF Edge, Stays, Enters, Entries, Continues, TakesKeyPair,
     TakesCertificate
<1>2. PICK c : c = x.certificate
  OBVIOUS
<1>3. /\ c \in Unrevoked(x.user) /\ c \in Nat \ {0} /\ x.user \in User
      /\ ~(certificates[c].notAfter < now)
  BY <1>2, RowTypes DEF Consistency, Ownership, TypeOK, TablesOK, SignedRecord,
     Lost, Unrevoked
<1>4. Unrevoked(x.user) = {c}
  BY <1>3 DEF Undisturbed, Agree
<1>5. FindLatest({c}) = {c}
  BY <1>3 DEF FindLatest, FindFirst
<1>6. d.certificate = c
  BY <1>1, <1>4, <1>5
<1>7. Matches(c, d.document, d.signature)
  BY <1>2 DEF Matches, Matched, Undisturbed, DocumentsSigned, Consistency
<1>8. Verdict(c, d.document, d.signature) = "valid"
  BY <1>3, <1>7 DEF Verdict
<1> QED
  BY <1>1, <1>6, <1>8

\* A signature recorded now is not one that was turned down before, but where
\* its certificate is lost already.
LEMMA NewlySigned ==
    ASSUME Consistency, VerifiedWereSigned, OneCertificateEach, [Next]_vars,
           Undisturbed, NEW v \in verifications, NEW x \in documents' \ documents,
           v.outcome # "valid", v.user = x.user, v.document = x.document,
           v.signature = x.signature
    PROVE  Lost(x)'
<1>1. PICK p \in Call : /\ pc[p] = "sign.create"
                        /\ x = [user |-> ctx[p].user,
                                certificate |-> ctx[p].certificate,
                                document |-> ctx[p].document,
                                signature |-> ctx[p].signature]
  BY EvidenceAfter
<1>2. /\ x.signature.document = x.document
      /\ Owns(x.user, x.signature.keyPair)
      /\ x.certificate \in DOMAIN certificates
      /\ Matched(x)
  BY <1>1, CallFacts DEF Consistent, HasCertificate, Undisturbed, Matched
<1>3. PICK y \in documents : y.signature = v.signature
  BY DEF VerifiedWereSigned
<1>4. /\ y.signature.document = y.document
      /\ Owns(y.user, y.signature.keyPair)
      /\ y.certificate \in DOMAIN certificates
      /\ Matched(y)
  BY DEF Consistency, Ownership, DocumentsSigned, Undisturbed
<1>5. y.user = v.user /\ y.document = v.document
  BY <1>2, <1>3, <1>4 DEF Owns
<1>6. x.certificate = y.certificate
  BY <1>2, <1>3, <1>4 DEF Matched, OneCertificateEach
<1>7. Lost(y)
  BY <1>3, <1>5 DEF Undisturbed, Justified
<1>8. Lost(x)
  BY <1>6, <1>7 DEF Lost
<1> QED
  BY <1>2, <1>8, LostForGood

LEMMA JustifiedStep ==
    ASSUME Consistency, OneAtATime, VerifiedWereSigned, OneCertificateEach,
           [Next]_vars, Undisturbed
    PROVE  /\ \A v \in verifications' : Justified(v)'
           /\ \A p \in Call : pc'[p] = "verify.log" => Justified(ctx[p])'
<1>1. ASSUME NEW x \in documents, Lost(x)
      PROVE  Lost(x)'
  BY <1>1, LostForGood DEF Consistency, Ownership
\* The call that records a signature is not one that verifies it.
<1>2. ASSUME NEW p \in Call, pc[p] # "idle", pc[p] # "sign.create",
             NEW x \in documents' \ documents
      PROVE  x.user # ctx[p].user
  <2>1. PICK q \in Call : pc[q] = "sign.create" /\ x.user = ctx[q].user
    BY EvidenceAfter
  <2> QED
    BY <1>2, <2>1 DEF OneAtATime
<1>3. ASSUME NEW v \in verifications
      PROVE  Justified(v)'
  <2> SUFFICES ASSUME NEW x \in documents', v.outcome # "valid", v.user = x.user,
                      v.document = x.document, v.signature = x.signature
               PROVE  Lost(x)'
    BY DEF Justified
  <2>1. CASE x \in documents
    BY <1>1, <2>1 DEF Undisturbed, Justified
  <2>2. CASE x \notin documents
    BY <2>2, NewlySigned
  <2> QED
    BY <2>1, <2>2
<1>4. ASSUME NEW v \in verifications' \ verifications
      PROVE  Justified(v)'
  <2>1. PICK p \in Call : /\ pc[p] = "verify.log"
                          /\ v = [user |-> ctx[p].user,
                                  certificate |-> ctx[p].certificate,
                                  document |-> ctx[p].document,
                                  signature |-> ctx[p].signature,
                                  outcome |-> ctx[p].outcome]
    BY EvidenceAfter
  <2>2. \A x \in documents' : v.user = x.user => x \in documents
    BY <1>2, <2>1
  <2>3. Justified(v)
    BY <2>1 DEF Undisturbed, Justified
  <2> QED
    BY <1>1, <2>2, <2>3 DEF Justified
<1>5. ASSUME NEW p \in Call, pc'[p] = "verify.log"
      PROVE  Justified(ctx[p])'
  <2>1. PICK d : d = ctx'[p]
    OBVIOUS
  <2> SUFFICES ASSUME NEW x \in documents', d.outcome # "valid", d.user = x.user,
                      d.document = x.document, d.signature = x.signature
               PROVE  Lost(x)'
    BY <2>1 DEF Justified
  <2>2. /\ pc[p] \in {"verify.read", "verify.log"}
        /\ d.user = ctx[p].user
        /\ pc[p] = "verify.log" => d = ctx[p]
    BY <1>5, <2>1, Edges DEF Edge, Stays, Enters, Entries, Continues,
       TakesKeyPair, TakesCertificate
  <2>3. x \in documents
    BY <1>2, <2>2
  <2>4. Lost(x)
    <3>1. CASE pc[p] = "verify.log"
      BY <2>2, <2>3, <3>1 DEF Undisturbed, Justified
    <3>2. CASE pc[p] = "verify.read"
      BY <1>5, <2>1, <2>3, <3>2, VerdictJustified
    <3> QED
      BY <2>2, <3>1, <3>2
  <2> QED
    BY <1>1, <2>3, <2>4
<1> QED
  BY <1>3, <1>4, <1>5

LEMMA UndisturbedStep ==
    ASSUME Orderly, [Next]_vars, failures' = 0
    PROVE  Undisturbed'
<1>1. failures = 0
  BY Later DEF Orderly
<1>2. Undisturbed
  BY <1>1 DEF Orderly
<1>3. ASSUME NEW u \in User PROVE Agree(u)'
  BY <1>2, AgreeStep DEF Orderly, Undisturbed
<1>4. /\ \A x \in documents' : Matched(x)'
      /\ \A p \in Call : pc'[p] = "sign.create" => Matched(ctx[p])'
  BY <1>2, MatchedStep DEF Orderly
<1>5. /\ \A v \in verifications' : Justified(v)'
      /\ \A p \in Call : pc'[p] = "verify.log" => Justified(ctx[p])'
  BY <1>2, JustifiedStep DEF Orderly
<1> QED
  BY <1>3, <1>4, <1>5 DEF Undisturbed

-----------------------------------------------------------------------------
(* The theorems. *)

LEMMA OrderlyStart == Init => Orderly
<1> SUFFICES ASSUME Init PROVE Orderly
  OBVIOUS
<1>1. Consistency
  BY InitConsistent
<1>2. /\ keyPairs = << >> /\ certificates = << >> /\ requests = << >>
      /\ documents = {} /\ verifications = {}
      /\ \A p \in Call : pc[p] = "idle"
  BY DEF Init, EmptyTables, NoCalls
<1>3. AllKnow /\ OneAtATime
  BY <1>2 DEF AllKnow, Knows, OneAtATime, Replacing, HasKeyPair, Reviewed
<1>4. \A u \in User : OneOfEach(u) /\ Agree(u)
  BY <1>2 DEF OneOfEach, Agree, ActiveKeyPairs, Pending, Unrevoked
<1>5. /\ SelfSigned /\ OneCertificateEach /\ ApprovedAreIssued /\ IssuedExist
      /\ AllNamed /\ VerifiedWereSigned
  BY <1>2 DEF SelfSigned, OneCertificateEach, ApprovedAreIssued, IssuedExist,
     AllNamed, VerifiedWereSigned
<1> QED
  BY <1>1, <1>2, <1>3, <1>4, <1>5 DEF Orderly, Undisturbed

LEMMA OrderlyStep == Orderly /\ [SerialNext]_vars => Orderly'
<1> SUFFICES ASSUME Orderly, [SerialNext]_vars PROVE Orderly'
  OBVIOUS
<1>1. [Next]_vars
  BY SerialIsNext
<1>2. Consistency' /\ OneAtATime'
  BY <1>1, NextConsistent, OneAtATimeStep DEF Orderly
<1>3. ASSUME NEW p \in Call PROVE Knows(pc[p], ctx[p])'
  BY <1>1, KnowsStep DEF Orderly
<1>4. ASSUME NEW u \in User PROVE OneOfEach(u)'
  BY <1>1, OneOfEachStep DEF Orderly
<1>5. /\ SelfSigned' /\ OneCertificateEach'
      /\ ApprovedAreIssued' /\ IssuedExist' /\ AllNamed'
      /\ VerifiedWereSigned'
  BY <1>1, CertificatesAloneStep, RequestsAloneStep, VerifiedWereSignedStep
     DEF Orderly
<1>6. failures' = 0 => Undisturbed'
  BY <1>1, UndisturbedStep
<1> QED
  BY <1>2, <1>3, <1>4, <1>5, <1>6 DEF Orderly, AllKnow

\* The service is in order as long as calls about a user do not overlap.
THEOREM SerialOrder == SerialSpec => []Orderly
  BY OrderlyStart, OrderlyStep, PTL DEF SerialSpec

\* A set of which any two members are equal has one at most.
LEMMA AtMostOne ==
    ASSUME NEW S, \A a, b \in S : a = b
    PROVE  Cardinality(S) <= 1
<1>1. CASE S = {}
  BY <1>1, FS_EmptySet
<1>2. CASE S # {}
  <2>1. PICK a : S = {a}
    BY <1>2
  <2> QED
    BY <2>1, FS_Singleton
<1> QED
  BY <1>1, <1>2

\* generate() and issue() look before they insert, and that is enough when
\* nothing about the user runs in between, even after calls that died.
THEOREM OneOfEachHolds == SerialSpec => []OneKeyPairOneRequest
<1>1. Orderly => OneKeyPairOneRequest
  BY AtMostOne DEF Orderly, OneOfEach, OneKeyPairOneRequest
<1> QED
  BY <1>1, SerialOrder, PTL

\* rotate() and approveRequest() agree on which key pair is the user's, unless
\* a call has died between two of their statements.
THEOREM AgreementHolds == SerialSpec => []CurrentRowsAgree
<1>1. Orderly => CurrentRowsAgree
  <2> SUFFICES ASSUME Orderly, failures = 0, NEW u \in User, Quiet(u)
               PROVE  /\ Cardinality(Unrevoked(u)) <= 1
                      /\ \A c \in Unrevoked(u) :
                            certificates[c].keyPair \in ActiveKeyPairs(u)
                      /\ \A r \in Pending(u) :
                            requests[r].keyPair \in ActiveKeyPairs(u)
    BY DEF CurrentRowsAgree
  <2>1. Agree(u)
    BY DEF Orderly, Undisturbed
  <2>2. NotAt(u, {"rotate.revoke"}) /\ NotAt(u, {"rotate.revoke", "rotate.cancel"})
    BY DEF Quiet, CallsOf, NotAt
  <2>3. \A b, c \in Unrevoked(u) : b = c
    BY <2>1 DEF Agree
  <2> QED
    BY <2>1, <2>2, <2>3, AtMostOne DEF Agree
<1> QED
  BY <1>1, SerialOrder, PTL

\* The key pair that approveRequest() decrypts is the one it certifies.
THEOREM SelfSigning == SerialSpec => []SelfSigned
<1>1. Orderly => SelfSigned
  BY DEF Orderly
<1> QED
  BY <1>1, SerialOrder, PTL

\* Approved requests and certificates name each other.
THEOREM ApprovalIssuing == SerialSpec => []ApprovalIssues
<1>1. Orderly => ApprovalIssues
  BY DEF Orderly, ApprovedAreIssued, AllNamed, ApprovalIssues
<1> QED
  BY <1>1, SerialOrder, PTL

\* The private key that sign() uses is that of the certificate it records.
THEOREM SignaturesMatch == SerialSpec => []SignaturesMatchTheirCertificate
<1>1. Orderly => SignaturesMatchTheirCertificate
  BY DEF Orderly, Undisturbed, Matched, SignaturesMatchTheirCertificate
<1> QED
  BY <1>1, SerialOrder, PTL

\* verify() turns a genuine signature down only when its certificate is lost.
THEOREM GenuineVerify == SerialSpec => []GenuineSignaturesVerify
<1>1. Orderly => GenuineSignaturesVerify
  BY DEF Orderly, Undisturbed, Justified, Lost, GenuineSignaturesVerify
<1> QED
  BY <1>1, SerialOrder, PTL
=============================================================================
