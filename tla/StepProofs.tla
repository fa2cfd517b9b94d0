----------------------------- MODULE StepProofs -----------------------------
(***************************************************************************)
(* What a step of the service does, whichever it is: to the one call that  *)
(* takes it (Edge), and to each row of each table (the lemmas named After  *)
(* and New).  The proofs about settled facts and about calls that come one *)
(* after the other rest on these.                                          *)
(***************************************************************************)
EXTENDS ServiceProofs

Stays(p) == pc'[p] = pc[p] /\ ctx'[p] = ctx[p]

\* Where the endpoints start, with nothing in hand but path and body.
Entries == {"generate.findActive", "rotate.deactivate", "issue.policy",
            "approve.read", "reject.read", "revoke.find", "sign.policy",
            "verify.read"}

Enters(p) ==
    /\ pc[p] = "idle" /\ pc'[p] \in Entries
    /\ pc'[p] \in Replacing => ctx'[p].op # "issue"

\* A step that leaves the local variables as they are.
Continues(p) ==
    /\ ctx'[p] = ctx[p]
    /\ \/ /\ <<pc[p], pc'[p]>> \in {<<"issue.policy", "issue.key">>,
                                    <<"approve.policy", "approve.certificate">>,
                                    <<"sign.policy", "sign.certificate">>}
          /\ policy[ctx[p].user] # "BANNED"
       \/ /\ pc[p] = "reject.read" /\ pc'[p] = "reject.update"
          /\ requests[ctx[p].request].status = "PENDING"
       \/ /\ pc[p] = "issue.certificate" /\ pc'[p] = "issue.pending"
          /\ MayFindNoActiveCertificate(ctx[p].user)
       \/ /\ pc[p] = "issue.pending" /\ pc'[p] = "issue.keyCertificate"
          /\ Pending(ctx[p].user) = {}
       \/ /\ pc[p] = "approve.keyCertificate" /\ pc'[p] = "approve.decrypt"
          /\ CertificatesOf(ctx[p].keyPair) = {}
       \/ /\ pc[p] = "generate.findActive" /\ pc'[p] = "generate.create"
          /\ ActiveKeyPairs(ctx[p].user) = {}
       \/ /\ pc[p] = "rotate.revoke" /\ pc'[p] = "rotate.cancel"
          /\ \A c \in DOMAIN certificates' :
                certificates'[c].user = ctx[p].user => certificates'[c].isRevoked
       \/ /\ pc[p] = "rotate.cancel" /\ pc'[p] = "generate.findActive"
          /\ \A r \in DOMAIN requests' :
                requests'[r].user = ctx[p].user => requests'[r].status # "PENDING"
       \/ <<pc[p], pc'[p]>> \in
             {<<"issue.keyCertificate", "issue.create">>,
              <<"issue.keyCertificate", "rotate.deactivate">>,
              <<"approve.certificate", "approve.keyCertificate">>,
              <<"rotate.deactivate", "rotate.revoke">>}

\* A step that takes up a key pair, as the row of an active one, as that of a
\* pending request, or as one it inserts.
TakesKeyPair(p) ==
    \/ /\ pc[p] = "issue.key" /\ pc'[p] = "issue.certificate"
       /\ ctx'[p].keyPair \in ActiveKeyPairs(ctx[p].user)
    \/ /\ pc[p] = "generate.create" /\ pc'[p] = "issue.create"
       /\ ctx[p].op = "issue" /\ ctx'[p].keyPair \notin DOMAIN keyPairs
       /\ ctx'[p].keyPair \in DOMAIN keyPairs'
       /\ keyPairs'[ctx'[p].keyPair].isActive
       /\ keyPairs'[ctx'[p].keyPair].user = ctx[p].user
    \/ /\ pc[p] = "approve.read" /\ pc'[p] = "approve.policy"
       /\ ctx'[p].request = ctx[p].request
       /\ requests[ctx[p].request].status = "PENDING"
       /\ ctx'[p].keyPair = requests[ctx[p].request].keyPair
       /\ keyPairs[ctx'[p].keyPair].isActive
    \/ /\ pc[p] = "approve.decrypt" /\ pc'[p] = "approve.commit"
       /\ ctx'[p].request = ctx[p].request /\ ctx'[p].keyPair = ctx[p].keyPair
       /\ ctx'[p].signer \in ActiveKeyPairs(ctx[p].user)
    \/ /\ pc[p] = "sign.decrypt" /\ pc'[p] = "sign.create"
       /\ ctx'[p].certificate = ctx[p].certificate
       /\ ctx'[p].document = ctx[p].document
       /\ ctx'[p].signature.keyPair \in ActiveKeyPairs(ctx[p].user)

\* A step that takes up a certificate, or keeps the one it has.
TakesCertificate(p) ==
    \/ /\ <<pc[p], pc'[p]>> \in {<<"revoke.find", "revoke.update">>,
                                 <<"sign.certificate", "sign.key">>}
       /\ ctx'[p].certificate \in Unrevoked(ctx[p].user)
    \/ /\ pc[p] = "verify.read" /\ pc'[p] = "verify.log"
       /\ ctx'[p].certificate \in FindLatest(Unrevoked(ctx[p].user))
       /\ ctx'[p].document = ctx[p].document /\ ctx'[p].signature = ctx[p].signature
       /\ ctx'[p].outcome = Verdict(ctx'[p].certificate, ctx[p].document,
                                    ctx[p].signature)
    \/ /\ pc[p] = "sign.key" /\ pc'[p] = "sign.decrypt"
       /\ ctx'[p].certificate = ctx[p].certificate

\* All that a step can do to a call.
Edge(p) ==
    \/ Stays(p) \/ pc'[p] = "idle" \/ Enters(p) \/ Continues(p)
    \/ /\ TakesKeyPair(p) \/ TakesCertificate(p)
       /\ ctx'[p].user = ctx[p].user /\ ctx'[p].op = ctx[p].op

\* Goto moves its call, and leaves the others where they are.
LEMMA OneMoves ==
    ASSUME TypeOK, NEW q \in Call, NEW l, NEW c, Goto(q, l, c)
    PROVE  /\ pc'[q] = l /\ ctx'[q] = c
           /\ \A p \in Call \ {q} : Stays(p)
  BY DEF Goto, TypeOK, CallsOK, Stays

\* A rotation leaves the user no unrevoked certificate and no pending request.
LEMMA RevokingAll ==
    ASSUME TablesOK, NEW u,
           certificates' = UpdateMany(certificates, Unrevoked(u), RevokedRow)
    PROVE  \A c \in DOMAIN certificates' :
              certificates'[c].user = u => certificates'[c].isRevoked
<1>1. /\ certificates \in Seq(Certificate) /\ Len(certificates) \in Nat
      /\ DOMAIN certificates = 1..Len(certificates)
  BY DEF TablesOK
<1>2. \A c \in DOMAIN certificates :
         certificates[c] \in [user : User, keyPair : Nat, signer : Nat,
                              notAfter : Nat, isRevoked : BOOLEAN, reason : Reason]
  BY RowTypes DEF Certificate
<1> QED
  BY <1>1, <1>2 DEF UpdateMany, Unrevoked, RevokedRow

LEMMA CancellingAll ==
    ASSUME TablesOK, NEW u,
           requests' = UpdateMany(requests, Pending(u), CancelledRow)
    PROVE  \A r \in DOMAIN requests' :
              requests'[r].user = u => requests'[r].status # "PENDING"
<1>1. /\ requests \in Seq(Request) /\ Len(requests) \in Nat
      /\ DOMAIN requests = 1..Len(requests)
  BY DEF TablesOK
<1>2. \A r \in DOMAIN requests :
         requests[r] \in [user : User, keyPair : Nat, years : Nat,
                          status : Status, issued : Nat]
  BY RowTypes DEF Request
<1> QED
  BY <1>1, <1>2 DEF UpdateMany, Pending, CancelledRow

-----------------------------------------------------------------------------
LEMMA AnswerEdge ==
    ASSUME TypeOK, NEW q \in Call, Answer(q), NEW p \in Call
    PROVE  Edge(p)
  BY OneMoves DEF Answer, Edge

LEMMA StartEdge ==
    ASSUME TypeOK, NEW q \in Call, NEW u \in User, Start(q, u), NEW p \in Call
    PROVE  Edge(p)
<1>1. PICK l, c :
          /\ l \in Entries /\ pc[q] = "idle" /\ Goto(q, l, c)
          /\ l \in Replacing => c.op # "issue"
  <2>1. ASSUME NEW l \in Entries, NEW c, Begin(q, l, c),
               l \in Replacing => c.op # "issue"
        PROVE  \E l1, c1 :
                  /\ l1 \in Entries /\ pc[q] = "idle" /\ Goto(q, l1, c1)
                  /\ l1 \in Replacing => c1.op # "issue"
    BY <2>1 DEF Begin
  <2>2. ASSUME NEW a, StartGenerate(q, u, a) \/ StartRotate(q, u, a)
        PROVE  \E l \in Entries : \E c :
                  /\ Begin(q, l, c) /\ (l \in Replacing => c.op # "issue")
    <3>1. /\ [NoContext EXCEPT !.op = "generate", !.user = u, !.algorithm = a].op # "issue"
          /\ [NoContext EXCEPT !.op = "rotate", !.user = u, !.algorithm = a].op # "issue"
      BY DEF NoContext
    <3> QED
      BY <2>2, <3>1 DEF StartGenerate, StartRotate, Entries
  <2>3. ASSUME CertificatesStart(q, u) \/ SigningStart(q, u)
        PROVE  \E l \in Entries \ Replacing : \E c : Begin(q, l, c)
    BY <2>3 DEF CertificatesStart, SigningStart, StartIssue, StartApprove,
       StartReject, StartRevoke, StartSign, StartVerify, Entries, Replacing
  <2> QED
    BY <2>1, <2>2, <2>3 DEF Start, KeysStart
<1> QED
  BY <1>1, OneMoves DEF Edge, Enters

LEMMA KeysEdge ==
    ASSUME Consistency, NEW q \in Call, KeysStep(q), NEW p \in Call
    PROVE  Edge(p)
<1>1. TypeOK /\ TablesOK /\ ctx[q] \in Context
  BY CallFacts
<1>2. CASE Answer(q)
  BY <1>1, <1>2, AnswerEdge
<1>3. CASE ~Answer(q) /\ ~GenerateCreate(q)
  <2>1. CASE RotateDeactivate(q)
    <3>1. pc[q] = "rotate.deactivate" /\ Goto(q, "rotate.revoke", ctx[q])
      BY <2>1 DEF RotateDeactivate
    <3> QED
      BY <1>1, <3>1, OneMoves DEF Edge, Continues
  <2>2. CASE RotateRevoke(q)
    <3>1. /\ pc[q] = "rotate.revoke" /\ Goto(q, "rotate.cancel", ctx[q])
          /\ certificates' = UpdateMany(certificates, Unrevoked(ctx[q].user), RevokedRow)
      BY <2>2 DEF RotateRevoke
    <3>2. \A c \in DOMAIN certificates' :
             certificates'[c].user = ctx[q].user => certificates'[c].isRevoked
      BY <1>1, <3>1, RevokingAll
    <3> QED
      BY <1>1, <3>1, <3>2, OneMoves DEF Edge, Continues
  <2>3. CASE RotateCancel(q)
    <3>1. /\ pc[q] = "rotate.cancel" /\ Goto(q, "generate.findActive", ctx[q])
          /\ requests' = UpdateMany(requests, Pending(ctx[q].user), CancelledRow)
      BY <2>3 DEF RotateCancel
    <3>2. \A r \in DOMAIN requests' :
             requests'[r].user = ctx[q].user => requests'[r].status # "PENDING"
      BY <1>1, <3>1, CancellingAll
    <3> QED
      BY <1>1, <3>1, <3>2, OneMoves DEF Edge, Continues
  <2>4. CASE GenerateFindActive(q)
    <3>1. /\ pc[q] = "generate.findActive" /\ Goto(q, "generate.create", ctx[q])
          /\ ActiveKeyPairs(ctx[q].user) = {}
      BY <1>3, <2>4 DEF GenerateFindActive
    <3> QED
      BY <1>1, <3>1, OneMoves DEF Edge, Continues
  <2> QED
    BY <1>3, <2>1, <2>2, <2>3, <2>4 DEF KeysStep
<1>4. CASE ~Answer(q) /\ GenerateCreate(q)
  <2>1. PICK c : c = [ctx[q] EXCEPT !.keyPair = Len(keyPairs) + 1]
    OBVIOUS
  <2>2. pc[q] = "generate.create" /\ ctx[q].op = "issue" /\ Goto(q, "issue.create", c)
    BY <1>4, <2>1 DEF GenerateCreate
  <2>3. c.keyPair = Len(keyPairs) + 1 /\ c.user = ctx[q].user /\ c.op = ctx[q].op
    BY <1>1, <2>1 DEF Context
  <2>4. PICK row : /\ keyPairs' = Append(keyPairs, row)
                   /\ row.user = ctx[q].user /\ row.isActive
    BY <1>4 DEF GenerateCreate
  <2>5. /\ Len(keyPairs) + 1 \notin DOMAIN keyPairs
        /\ Len(keyPairs) + 1 \in DOMAIN keyPairs'
        /\ keyPairs'[Len(keyPairs) + 1] = row
    BY <1>1, <2>4 DEF TablesOK
  <2> QED
    BY <1>1, <2>2, <2>3, <2>4, <2>5, OneMoves DEF Edge, TakesKeyPair
<1> QED
  BY <1>2, <1>3, <1>4

LEMMA CertificatesEdge ==
    ASSUME Consistency, NEW q \in Call, CertificatesStep(q), NEW p \in Call
    PROVE  Edge(p)
<1>1. TypeOK /\ TablesOK /\ ctx[q] \in Context
  BY CallFacts
<1>2. CASE Answer(q)
  BY <1>1, <1>2, AnswerEdge
<1>3. CASE /\ ~Answer(q)
           /\ \/ IssuePolicy(q) \/ IssueCertificate(q) \/ IssuePending(q)
              \/ IssueKeyCertificate(q) \/ ApprovePolicy(q) \/ ApproveCertificate(q)
              \/ ApproveKeyCertificate(q) \/ RejectRead(q)
  <2>1. PICK l : /\ Goto(q, l, ctx[q])
                 /\ \/ /\ <<pc[q], l>> \in
                             {<<"issue.policy", "issue.key">>,
                              <<"approve.policy", "approve.certificate">>}
                       /\ policy[ctx[q].user] # "BANNED"
                    \/ /\ pc[q] = "reject.read" /\ l = "reject.update"
                       /\ requests[ctx[q].request].status = "PENDING"
                    \/ /\ pc[q] = "issue.pending" /\ l = "issue.keyCertificate"
                       /\ Pending(ctx[q].user) = {}
                    \/ /\ pc[q] = "approve.keyCertificate" /\ l = "approve.decrypt"
                       /\ CertificatesOf(ctx[q].keyPair) = {}
                    \/ /\ pc[q] = "issue.certificate" /\ l = "issue.pending"
                       /\ MayFindNoActiveCertificate(ctx[q].user)
                    \/ <<pc[q], l>> \in
                          {<<"issue.keyCertificate", "issue.create">>,
                           <<"issue.keyCertificate", "rotate.deactivate">>,
                           <<"approve.certificate", "approve.keyCertificate">>}
    BY <1>3 DEF IssuePolicy, IssueCertificate, IssuePending, IssueKeyCertificate,
       ApprovePolicy, ApproveCertificate, ApproveKeyCertificate, RejectRead
  <2> QED
    BY <1>1, <2>1, OneMoves DEF Edge, Continues
<1>4. CASE ~Answer(q) /\ IssueKey(q)
  <2>1. PICK k \in FindFirst(ActiveKeyPairs(ctx[q].user)) :
          /\ k # 0
          /\ Goto(q, "issue.certificate",
                  [ctx[q] EXCEPT !.keyPair = k, !.algorithm = keyPairs[k].algorithm])
    BY <1>4 DEF IssueKey
  <2>2. PICK c : c = [ctx[q] EXCEPT !.keyPair = k, !.algorithm = keyPairs[k].algorithm]
    OBVIOUS
  <2>3. c.keyPair = k /\ c.user = ctx[q].user /\ c.op = ctx[q].op
    BY <1>1, <2>2 DEF Context
  <2>4. k \in ActiveKeyPairs(ctx[q].user) /\ pc[q] = "issue.key"
    BY <1>4, <2>1 DEF IssueKey, FindFirst
  <2>5. Goto(q, "issue.certificate", c)
    BY <2>1, <2>2
  <2> QED
    BY <1>1, <2>3, <2>4, <2>5, OneMoves DEF Edge, TakesKeyPair
<1>5. CASE ~Answer(q) /\ ApproveRead(q)
  <2> DEFINE request == requests[ctx[q].request]
  <2>1. PICK c : c = [ctx[q] EXCEPT !.keyPair = request.keyPair,
                                    !.years = request.years]
    OBVIOUS
  <2>2. /\ pc[q] = "approve.read" /\ Goto(q, "approve.policy", c)
        /\ request.status = "PENDING" /\ keyPairs[request.keyPair].isActive
    BY <1>5, <2>1 DEF ApproveRead
  <2>3. /\ c.keyPair = request.keyPair /\ c.request = ctx[q].request
        /\ c.user = ctx[q].user /\ c.op = ctx[q].op
    BY <1>1, <2>1 DEF Context
  <2> QED
    BY <1>1, <2>2, <2>3, OneMoves DEF Edge, TakesKeyPair
<1>6. CASE ~Answer(q) /\ ApproveDecrypt(q)
  <2>1. PICK k \in FindFirst(ActiveKeyPairs(ctx[q].user)) :
          /\ k # 0
          /\ Goto(q, "approve.commit", [ctx[q] EXCEPT !.signer = k,
                                             !.notAfter = now + ctx[q].years])
    BY <1>6 DEF ApproveDecrypt, DecryptActivePrivateKey
  <2>2. PICK c : c = [ctx[q] EXCEPT !.signer = k, !.notAfter = now + ctx[q].years]
    OBVIOUS
  <2>3. /\ c.signer = k /\ c.user = ctx[q].user /\ c.op = ctx[q].op
        /\ c.request = ctx[q].request /\ c.keyPair = ctx[q].keyPair
    BY <1>1, <2>2 DEF Context
  <2>4. k \in ActiveKeyPairs(ctx[q].user) /\ pc[q] = "approve.decrypt"
    BY <1>6, <2>1 DEF ApproveDecrypt, FindFirst
  <2>5. Goto(q, "approve.commit", c)
    BY <2>1, <2>2
  <2> QED
    BY <1>1, <2>3, <2>4, <2>5, OneMoves DEF Edge, TakesKeyPair
<1>7. CASE ~Answer(q) /\ RevokeFind(q)
  <2>1. PICK k \in FindFirst(Unrevoked(ctx[q].user)) :
          k # 0 /\ Goto(q, "revoke.update", [ctx[q] EXCEPT !.certificate = k])
    BY <1>7 DEF RevokeFind
  <2>2. PICK c : c = [ctx[q] EXCEPT !.certificate = k]
    OBVIOUS
  <2>3. c.certificate = k /\ c.user = ctx[q].user /\ c.op = ctx[q].op
    BY <1>1, <2>2 DEF Context
  <2>4. k \in Unrevoked(ctx[q].user) /\ pc[q] = "revoke.find"
    BY <1>7, <2>1 DEF RevokeFind, FindFirst
  <2>5. Goto(q, "revoke.update", c)
    BY <2>1, <2>2
  <2> QED
    BY <1>1, <2>3, <2>4, <2>5, OneMoves DEF Edge, TakesCertificate
<1> QED
  BY <1>2, <1>3, <1>4, <1>5, <1>6, <1>7 DEF CertificatesStep, IssueCreate,
     ApproveCommit, RejectUpdate, RevokeUpdate

LEMMA SigningEdge ==
    ASSUME Consistency, NEW q \in Call, SigningStep(q), NEW p \in Call
    PROVE  Edge(p)
<1>1. TypeOK /\ TablesOK /\ ctx[q] \in Context
  BY CallFacts
<1>2. CASE Answer(q)
  BY <1>1, <1>2, AnswerEdge
<1>3. CASE ~Answer(q) /\ SignPolicy(q)
  <2>1. /\ pc[q] = "sign.policy" /\ Goto(q, "sign.certificate", ctx[q])
        /\ policy[ctx[q].user] # "BANNED"
    BY <1>3 DEF SignPolicy
  <2> QED
    BY <1>1, <2>1, OneMoves DEF Edge, Continues
<1>4. CASE ~Answer(q) /\ SignCertificate(q)
  <2>1. PICK k \in FindFirst(Unrevoked(ctx[q].user)) :
          k # 0 /\ Goto(q, "sign.key", [ctx[q] EXCEPT !.certificate = k])
    BY <1>4 DEF SignCertificate
  <2>2. PICK c : c = [ctx[q] EXCEPT !.certificate = k]
    OBVIOUS
  <2>3. c.certificate = k /\ c.user = ctx[q].user /\ c.op = ctx[q].op
    BY <1>1, <2>2 DEF Context
  <2>4. k \in Unrevoked(ctx[q].user) /\ pc[q] = "sign.certificate"
    BY <1>4, <2>1 DEF SignCertificate, FindFirst
  <2>5. Goto(q, "sign.key", c)
    BY <2>1, <2>2
  <2> QED
    BY <1>1, <2>3, <2>4, <2>5, OneMoves DEF Edge, TakesCertificate
<1>5. CASE ~Answer(q) /\ SignKey(q)
  <2>1. PICK k : Goto(q, "sign.decrypt",
                      [ctx[q] EXCEPT !.algorithm = keyPairs[k].algorithm])
    BY <1>5 DEF SignKey
  <2>2. PICK c : c = [ctx[q] EXCEPT !.algorithm = keyPairs[k].algorithm]
    OBVIOUS
  <2>3. /\ c.certificate = ctx[q].certificate
        /\ c.user = ctx[q].user /\ c.op = ctx[q].op /\ pc[q] = "sign.key"
    BY <1>1, <1>5, <2>2 DEF Context, SignKey
  <2>4. Goto(q, "sign.decrypt", c)
    BY <2>1, <2>2
  <2> QED
    BY <1>1, <2>3, <2>4, OneMoves DEF Edge, TakesCertificate
<1>6. CASE ~Answer(q) /\ SignDecrypt(q)
  <2>1. PICK k \in FindFirst(ActiveKeyPairs(ctx[q].user)) :
          /\ k # 0
          /\ Goto(q, "sign.create",
                  [ctx[q] EXCEPT !.signature = [keyPair |-> k,
                                                document |-> ctx[q].document]])
    BY <1>6 DEF SignDecrypt, DecryptActivePrivateKey
  <2>2. PICK c : c = [ctx[q] EXCEPT !.signature = [keyPair |-> k,
                                                   document |-> ctx[q].document]]
    OBVIOUS
  <2>3. /\ c.signature.keyPair = k /\ c.certificate = ctx[q].certificate
        /\ c.document = ctx[q].document
        /\ c.user = ctx[q].user /\ c.op = ctx[q].op
    BY <1>1, <2>2 DEF Context
  <2>4. k \in ActiveKeyPairs(ctx[q].user) /\ pc[q] = "sign.decrypt"
    BY <1>6, <2>1 DEF SignDecrypt, FindFirst
  <2>5. Goto(q, "sign.create", c)
    BY <2>1, <2>2
  <2> QED
    BY <1>1, <2>3, <2>4, <2>5, OneMoves DEF Edge, TakesKeyPair
<1>7. CASE ~Answer(q) /\ VerifyRead(q)
  <2>1. PICK k, o :
          /\ k \in FindLatest(Unrevoked(ctx[q].user))
          /\ o = Verdict(k, ctx[q].document, ctx[q].signature)
          /\ Goto(q, "verify.log", [ctx[q] EXCEPT !.certificate = k, !.outcome = o])
    BY <1>7 DEF VerifyRead
  <2>2. PICK c : c = [ctx[q] EXCEPT !.certificate = k, !.outcome = o]
    OBVIOUS
  <2>3. /\ c.certificate = k /\ c.user = ctx[q].user /\ c.op = ctx[q].op
        /\ c.document = ctx[q].document /\ c.signature = ctx[q].signature
        /\ c.outcome = o
    BY <1>1, <2>2 DEF Context
  <2>4. pc[q] = "verify.read"
    BY <1>7 DEF VerifyRead
  <2>5. Goto(q, "verify.log", c)
    BY <2>1, <2>2
  <2> QED
    BY <1>1, <2>1, <2>3, <2>4, <2>5, OneMoves DEF Edge, TakesCertificate
<1> QED
  BY <1>2, <1>3, <1>4, <1>5, <1>6, <1>7 DEF SigningStep, SignCreate, VerifyLog

LEMMA Edges ==
    ASSUME Consistency, [Next]_vars, NEW p \in Call
    PROVE  Edge(p)
<1>1. TypeOK
  BY DEF Consistency
<1>2. CASE UNCHANGED <<pc, ctx>>
  BY <1>2 DEF Edge, Stays
<1>3. ASSUME NEW q \in Call, NEW u \in User, Start(q, u) PROVE Edge(p)
  BY <1>1, <1>3, StartEdge
<1>4. ASSUME NEW q \in Call, Step(q) \/ Fail(q) PROVE Edge(p)
  BY <1>1, <1>4, KeysEdge, CertificatesEdge, SigningEdge, AnswerEdge DEF Step, Fail
<1> QED
  BY <1>2, <1>3, <1>4 DEF Next, vars, Environment, Ban, Unban, Tick


-----------------------------------------------------------------------------
(* Which call a step moves. *)

LEMMA StepMoves ==
    ASSUME TypeOK, NEW q \in Call, Step(q) \/ Fail(q)
    PROVE  pc[q] # "idle" /\ \A p \in Call \ {q} : Stays(p)
<1>1. ASSUME Fail(q) PROVE pc[q] # "idle" /\ \A p \in Call \ {q} : Stays(p)
  BY <1>1, OneMoves DEF Fail, Answer
<1>2. ASSUME KeysStep(q) PROVE pc[q] # "idle" /\ \A p \in Call \ {q} : Stays(p)
  BY <1>2, OneMoves DEF KeysStep, GenerateFindActive, GenerateCreate,
     RotateDeactivate, RotateRevoke, RotateCancel, Answer
<1>3. ASSUME CertificatesStep(q)
      PROVE  pc[q] # "idle" /\ \A p \in Call \ {q} : Stays(p)
  BY <1>3, OneMoves DEF CertificatesStep, IssuePolicy, IssueKey,
     IssueCertificate, IssuePending, IssueKeyCertificate, IssueCreate,
     ApproveRead, ApprovePolicy, ApproveCertificate, ApproveKeyCertificate,
     ApproveDecrypt, ApproveCommit, RejectRead, RejectUpdate, RevokeFind,
     RevokeUpdate, Answer
<1>4. ASSUME SigningStep(q)
      PROVE  pc[q] # "idle" /\ \A p \in Call \ {q} : Stays(p)
  BY <1>4, OneMoves DEF SigningStep, SignPolicy, SignCertificate, SignKey,
     SignDecrypt, SignCreate, VerifyRead, VerifyLog, Answer
<1> QED
  BY <1>1, <1>2, <1>3, <1>4 DEF Step

\* A call starts about the user it is started for.
LEMMA StartNames ==
    ASSUME TypeOK, NEW q \in Call, NEW u \in User, Start(q, u)
    PROVE  ctx'[q].user = u /\ \A p \in Call \ {q} : Stays(p)
<1>1. PICK l, c : Goto(q, l, c) /\ c.user = u
  <2>1. \A a, y, r, d :
           /\ [NoContext EXCEPT !.op = "generate", !.user = u, !.algorithm = a].user = u
           /\ [NoContext EXCEPT !.op = "rotate", !.user = u, !.algorithm = a].user = u
           /\ [NoContext EXCEPT !.op = "issue", !.user = u, !.years = y].user = u
           /\ [NoContext EXCEPT !.op = "approve", !.request = r, !.user = u].user = u
           /\ [NoContext EXCEPT !.op = "reject", !.request = r, !.user = u].user = u
           /\ [NoContext EXCEPT !.op = "revoke", !.user = u].user = u
           /\ [NoContext EXCEPT !.op = "sign", !.user = u, !.document = d].user = u
    BY DEF NoContext
  <2>2. CASE KeysStart(q, u)
    BY <2>1, <2>2 DEF KeysStart, StartGenerate, StartRotate, Begin
  <2>3. CASE CertificatesStart(q, u)
    BY <2>1, <2>3 DEF CertificatesStart, StartIssue, StartApprove, StartReject,
       StartRevoke, Begin
  <2>4. CASE SigningStart(q, u)
    <3>1. ASSUME NEW d, StartSign(q, u, d)
          PROVE  \E l, c : Goto(q, l, c) /\ c.user = u
      BY <2>1, <3>1 DEF StartSign, Begin
    <3>2. ASSUME NEW d, NEW s, StartVerify(q, u, d, s)
          PROVE  \E l, c : Goto(q, l, c) /\ c.user = u
      <4> DEFINE c == [NoContext EXCEPT !.op = "verify", !.user = u,
                                        !.document = d, !.signature = s]
      <4>1. Goto(q, "verify.read", c)
        BY <3>2 DEF StartVerify, Begin
      <4>2. c.user = u
        BY DEF NoContext
      <4> HIDE DEF c
      <4> QED
        BY <4>1, <4>2
    <3> QED
      BY <2>4, <3>1, <3>2 DEF SigningStart
  <2> QED
    BY <2>2, <2>3, <2>4 DEF Start
<1> QED
  BY <1>1, OneMoves

\* A call that goes on is about the same user as before.
LEMMA SameUser ==
    ASSUME Consistency, [Next]_vars, NEW p \in Call,
           pc'[p] # "idle", ~Enters(p), ~Stays(p)
    PROVE  pc[p] # "idle" /\ ctx'[p].user = ctx[p].user /\ ctx'[p].op = ctx[p].op
<1>1. CASE Continues(p)
  BY <1>1 DEF Continues
<1>2. CASE TakesKeyPair(p) \/ TakesCertificate(p)
  BY <1>2, Edges DEF TakesKeyPair, TakesCertificate, Edge, Continues
<1> QED
  BY <1>1, <1>2, Edges DEF Edge

-----------------------------------------------------------------------------
(* What a step does to the tables. *)

\* The statements that write each table.
LEMMA Writers ==
    ASSUME [Next]_vars
    PROVE  /\ \/ UNCHANGED keyPairs
              \/ \E p \in Call : GenerateCreate(p) \/ RotateDeactivate(p)
           /\ \/ UNCHANGED certificates
              \/ \E p \in Call : RotateRevoke(p) \/ ApproveCommit(p) \/ RevokeUpdate(p)
           /\ \/ UNCHANGED requests
              \/ \E p \in Call : \/ IssueCreate(p) \/ RotateCancel(p)
                                 \/ ApproveCommit(p) \/ RejectUpdate(p)
           /\ UNCHANGED documents \/ \E p \in Call : SignCreate(p)
           /\ UNCHANGED verifications \/ \E p \in Call : VerifyLog(p)
           /\ UNCHANGED policy \/ Environment
<1>1. CASE UNCHANGED tables
  BY <1>1 DEF tables
<1>2. ASSUME NEW p \in Call, NEW u \in User, Start(p, u)
      PROVE  UNCHANGED tables
  BY <1>2 DEF Start, KeysStart, CertificatesStart, SigningStart, StartGenerate,
     StartRotate, StartIssue, StartApprove, StartReject, StartRevoke, StartSign,
     StartVerify, Reads
<1>3. ASSUME NEW p \in Call, KeysStep(p)
      PROVE  \/ UNCHANGED tables
             \/ /\ UNCHANGED <<certificates, requests, policy, documents, verifications>>
                /\ GenerateCreate(p) \/ RotateDeactivate(p)
             \/ /\ UNCHANGED <<keyPairs, requests, policy, documents, verifications>>
                /\ RotateRevoke(p)
             \/ /\ UNCHANGED <<keyPairs, certificates, policy, documents, verifications>>
                /\ RotateCancel(p)
  BY <1>3 DEF KeysStep, GenerateFindActive, GenerateCreate, RotateDeactivate,
     RotateRevoke, RotateCancel, Reads, WritesKeyPairs, WritesCertificates,
     WritesRequests
<1>4. ASSUME NEW p \in Call, CertificatesStep(p)
      PROVE  \/ UNCHANGED tables
             \/ /\ UNCHANGED <<keyPairs, certificates, policy, documents, verifications>>
                /\ IssueCreate(p) \/ RejectUpdate(p)
             \/ /\ UNCHANGED <<keyPairs, policy, documents, verifications>>
                /\ ApproveCommit(p)
             \/ /\ UNCHANGED <<keyPairs, requests, policy, documents, verifications>>
                /\ RevokeUpdate(p)
  BY <1>4 DEF CertificatesStep, IssuePolicy, IssueKey, IssueCertificate,
     IssuePending, IssueKeyCertificate, IssueCreate, ApproveRead, ApprovePolicy,
     ApproveCertificate, ApproveKeyCertificate, ApproveDecrypt, ApproveCommit,
     RejectRead, RejectUpdate, RevokeFind, RevokeUpdate, Reads,
     WritesCertificates, WritesRequests
<1>5. ASSUME NEW p \in Call, SigningStep(p)
      PROVE  \/ UNCHANGED tables
             \/ /\ UNCHANGED <<keyPairs, certificates, requests, policy, verifications>>
                /\ SignCreate(p)
             \/ /\ UNCHANGED <<keyPairs, certificates, requests, policy, documents>>
                /\ VerifyLog(p)
  BY <1>5 DEF SigningStep, SignPolicy, SignCertificate, SignKey, SignDecrypt,
     SignCreate, VerifyRead, VerifyLog, Reads, WritesEvidence
<1>6. ASSUME Environment
      PROVE  UNCHANGED <<keyPairs, certificates, requests, documents, verifications>>
  BY <1>6 DEF Environment, Ban, Unban, Tick, tables
<1>7. CASE UNCHANGED vars
  BY <1>1, <1>7 DEF vars
<1>8. ASSUME NEW p \in Call, Fail(p) PROVE UNCHANGED tables
  BY <1>8 DEF Fail
<1> QED
  BY <1>1, <1>2, <1>3, <1>4, <1>5, <1>6, <1>7, <1>8 DEF Next, Step, tables

LEMMA KeyPairsAfter ==
    ASSUME Consistency, [Next]_vars, NEW k \in DOMAIN keyPairs
    PROVE  /\ k \in DOMAIN keyPairs' /\ keyPairs'[k].user = keyPairs[k].user
           /\ \/ keyPairs'[k] = keyPairs[k]
              \/ /\ ~keyPairs'[k].isActive
                 /\ \E p \in Call : /\ pc[p] = "rotate.deactivate"
                                    /\ pc'[p] = "rotate.revoke"
                                    /\ ctx[p].user = keyPairs[k].user
<1>1. /\ keyPairs \in Seq(KeyPair) /\ DOMAIN keyPairs = 1..Len(keyPairs)
      /\ Len(keyPairs) \in Nat /\ k \in 1..Len(keyPairs)
  BY DEF Consistency, TypeOK, TablesOK
<1>2. keyPairs[k] \in [user : User, algorithm : Algorithm, isActive : BOOLEAN]
  BY RowTypes DEF KeyPair, Consistency, TypeOK
<1>3. CASE UNCHANGED keyPairs
  BY <1>3
<1>4. ASSUME NEW p \in Call, GenerateCreate(p)
      PROVE  k \in DOMAIN keyPairs' /\ keyPairs'[k] = keyPairs[k]
  <2>1. PICK row : keyPairs' = Append(keyPairs, row)
    BY <1>4 DEF GenerateCreate
  <2> QED
    BY <1>1, <2>1
<1>5. ASSUME NEW p \in Call, RotateDeactivate(p)
      PROVE  /\ k \in DOMAIN keyPairs' /\ pc[p] = "rotate.deactivate"
             /\ pc'[p] = "rotate.revoke"
             /\ \/ keyPairs'[k] = keyPairs[k]
                \/ /\ keyPairs[k].user = ctx[p].user
                   /\ keyPairs'[k] = [keyPairs[k] EXCEPT !.isActive = FALSE]
  <2>1. pc'[p] = "rotate.revoke"
    BY <1>5, OneMoves DEF RotateDeactivate, Consistency
  <2> QED
    BY <1>1, <1>5, <2>1 DEF RotateDeactivate, UpdateMany, Deactivated, ActiveKeyPairs
<1> QED
  BY <1>2, <1>3, <1>4, <1>5, Writers

\* A new key pair is that of a generate() at its insert, and the only one.
LEMMA NewKeyPairs ==
    ASSUME Consistency, [Next]_vars, NEW k \in DOMAIN keyPairs' \ DOMAIN keyPairs
    PROVE  /\ k = Len(keyPairs) + 1
           /\ \E p \in Call : /\ pc[p] = "generate.create"
                              /\ pc'[p] \in {"idle", "issue.create"}
                              /\ keyPairs'[k].user = ctx[p].user
<1>1. /\ keyPairs \in Seq(KeyPair) /\ DOMAIN keyPairs = 1..Len(keyPairs)
      /\ Len(keyPairs) \in Nat
  BY DEF Consistency, TypeOK, TablesOK
<1>2. ASSUME NEW p \in Call, RotateDeactivate(p)
      PROVE  DOMAIN keyPairs' = DOMAIN keyPairs
  BY <1>1, <1>2 DEF RotateDeactivate, UpdateMany
<1>3. PICK p \in Call : GenerateCreate(p)
  BY <1>2, Writers
<1>4. PICK row : /\ row.user = ctx[p].user
                 /\ keyPairs' = Append(keyPairs, row)
  BY <1>3 DEF GenerateCreate
<1>5. k = Len(keyPairs) + 1 /\ keyPairs'[k] = row
  BY <1>1, <1>4
<1>6. pc'[p] \in {"idle", "issue.create"} /\ pc[p] = "generate.create"
  BY <1>3, OneMoves DEF GenerateCreate, Answer, Consistency
<1> QED
  BY <1>4, <1>5, <1>6

\* Only a call that holds it, or a rotation that finds it unrevoked, changes a
\* certificate, and then revokes it.
LEMMA CertificatesAfter ==
    ASSUME Consistency, [Next]_vars, NEW c \in DOMAIN certificates
    PROVE  /\ c \in DOMAIN certificates'
           /\ certificates'[c].user = certificates[c].user
           /\ certificates'[c].keyPair = certificates[c].keyPair
           /\ certificates'[c].signer = certificates[c].signer
           /\ certificates'[c].notAfter = certificates[c].notAfter
           /\ \/ certificates'[c] = certificates[c]
              \/ /\ certificates'[c].isRevoked
                 /\ \E p \in Call :
                       \/ /\ pc[p] = "rotate.revoke" /\ pc'[p] = "rotate.cancel"
                          /\ ctx[p].user = certificates[c].user
                          /\ ~certificates[c].isRevoked
                       \/ /\ pc[p] = "revoke.update" /\ pc'[p] = "idle"
                          /\ ctx[p].certificate = c
<1>1. /\ certificates \in Seq(Certificate) /\ Len(certificates) \in Nat
      /\ DOMAIN certificates = 1..Len(certificates) /\ c \in 1..Len(certificates)
  BY DEF Consistency, TypeOK, TablesOK
<1>2. certificates[c] \in [user : User, keyPair : Nat, signer : Nat,
                           notAfter : Nat, isRevoked : BOOLEAN, reason : Reason]
  BY RowTypes DEF Certificate, Consistency, TypeOK
<1>3. CASE UNCHANGED certificates
  BY <1>3
<1> DEFINE Revoked == /\ certificates'[c].user = certificates[c].user
                      /\ certificates'[c].keyPair = certificates[c].keyPair
                      /\ certificates'[c].signer = certificates[c].signer
                      /\ certificates'[c].notAfter = certificates[c].notAfter
                      /\ certificates'[c].isRevoked
<1>4. ASSUME NEW p \in Call, RotateRevoke(p)
      PROVE  /\ c \in DOMAIN certificates' /\ pc[p] = "rotate.revoke"
             /\ pc'[p] = "rotate.cancel"
             /\ \/ certificates'[c] = certificates[c]
                \/ /\ ~certificates[c].isRevoked
                   /\ certificates[c].user = ctx[p].user
                   /\ Revoked
  <2>1. /\ c \in DOMAIN certificates' /\ pc[p] = "rotate.revoke"
        /\ \/ certificates'[c] = certificates[c]
           \/ /\ ~certificates[c].isRevoked
              /\ certificates[c].user = ctx[p].user
              /\ certificates'[c] = [certificates[c] EXCEPT
                                        !.isRevoked = TRUE, !.reason = "rotation"]
    BY <1>1, <1>4 DEF RotateRevoke, UpdateMany, RevokedRow, Unrevoked
  <2>2. pc'[p] = "rotate.cancel"
    BY <1>4, OneMoves DEF RotateRevoke, Consistency
  <2> QED
    BY <1>2, <2>1, <2>2
<1>5. ASSUME NEW p \in Call, ApproveCommit(p)
      PROVE  c \in DOMAIN certificates' /\ certificates'[c] = certificates[c]
  <2>1. UNCHANGED certificates \/ \E row : certificates' = Append(certificates, row)
    BY <1>5 DEF ApproveCommit
  <2> QED
    BY <1>1, <2>1
<1>6. ASSUME NEW p \in Call, RevokeUpdate(p)
      PROVE  /\ c \in DOMAIN certificates'
             /\ \/ certificates'[c] = certificates[c]
                \/ /\ ctx[p].certificate = c /\ pc[p] = "revoke.update"
                   /\ pc'[p] = "idle" /\ Revoked
  <2>1. /\ c \in DOMAIN certificates'
        /\ \/ certificates'[c] = certificates[c]
           \/ /\ ctx[p].certificate = c /\ pc[p] = "revoke.update"
              /\ certificates'[c] = [certificates[c] EXCEPT
                                        !.isRevoked = TRUE, !.reason = "user"]
    BY <1>1, <1>6 DEF RevokeUpdate, RevokedByUser
  <2>2. pc'[p] = "idle"
    BY <1>6, OneMoves DEF RevokeUpdate, Answer, Consistency
  <2> QED
    BY <1>2, <2>1, <2>2
<1> QED
  BY <1>3, <1>4, <1>5, <1>6, Writers

\* A new certificate is that of a review at its last statement, the only one,
\* and named by the request reviewed.
LEMMA NewCertificates ==
    ASSUME Consistency, [Next]_vars,
           NEW c \in DOMAIN certificates' \ DOMAIN certificates
    PROVE  /\ c = Len(certificates) + 1
           /\ \E p \in Call :
                 /\ pc[p] = "approve.commit" /\ pc'[p] = "idle"
                 /\ certificates'[c].user = ctx[p].user
                 /\ certificates'[c].keyPair = ctx[p].keyPair
                 /\ certificates'[c].signer = ctx[p].signer
                 /\ ~certificates'[c].isRevoked
                 /\ UniqueKeyPair => CertificatesOf(ctx[p].keyPair) = {}
                 /\ requests' = [requests EXCEPT ![ctx[p].request] = Approved(@, c)]
<1>1. /\ certificates \in Seq(Certificate) /\ Len(certificates) \in Nat
      /\ DOMAIN certificates = 1..Len(certificates)
  BY DEF Consistency, TypeOK, TablesOK
<1>2. ASSUME NEW p \in Call, RotateRevoke(p) \/ RevokeUpdate(p)
      PROVE  DOMAIN certificates' = DOMAIN certificates
  BY <1>1, <1>2 DEF RotateRevoke, RevokeUpdate, UpdateMany
<1>3. PICK p \in Call : ApproveCommit(p)
  BY <1>2, Writers
<1>4. /\ pc[p] = "approve.commit" /\ Goto(p, "idle", NoContext)
      /\ certificates' = Append(certificates, NewCertificate(ctx[p]))
      /\ ~(UniqueKeyPair /\ CertificatesOf(ctx[p].keyPair) # {})
      /\ requests' = [requests EXCEPT ![ctx[p].request] =
                          Approved(@, Len(certificates) + 1)]
  BY <1>3 DEF ApproveCommit, Answer
<1>5. c = Len(certificates) + 1 /\ certificates'[c] = NewCertificate(ctx[p])
  BY <1>1, <1>4
<1>6. pc'[p] = "idle"
  BY <1>4, OneMoves DEF Consistency
<1>7. /\ certificates'[c].user = ctx[p].user
      /\ certificates'[c].keyPair = ctx[p].keyPair
      /\ certificates'[c].signer = ctx[p].signer
      /\ ~certificates'[c].isRevoked
  BY <1>5 DEF NewCertificate
<1>8. requests' = [requests EXCEPT ![ctx[p].request] = Approved(@, c)]
  BY <1>4, <1>5
<1> QED
  BY <1>4, <1>5, <1>6, <1>7, <1>8

LEMMA RequestsAfter ==
    ASSUME Consistency, [Next]_vars, NEW r \in DOMAIN requests
    PROVE  /\ r \in DOMAIN requests'
           /\ requests'[r].user = requests[r].user
           /\ requests'[r].keyPair = requests[r].keyPair
           /\ \/ requests'[r] = requests[r]
              \/ \E p \in Call :
                    \/ /\ pc[p] = "rotate.cancel" /\ pc'[p] = "generate.findActive"
                       /\ ctx[p].user = requests[r].user
                       /\ requests[r].status = "PENDING"
                       /\ requests'[r].status = "CANCELLED"
                       /\ requests'[r].issued = requests[r].issued
                    \/ /\ pc[p] = "reject.update" /\ pc'[p] = "idle"
                       /\ ctx[p].request = r
                       /\ requests'[r].status = "REJECTED"
                       /\ requests'[r].issued = requests[r].issued
                    \/ /\ pc[p] = "approve.commit" /\ pc'[p] = "idle"
                       /\ ctx[p].request = r
                       /\ requests'[r].status = "APPROVED"
                       /\ requests'[r].issued = Len(certificates) + 1
                       /\ certificates' = Append(certificates, NewCertificate(ctx[p]))
                       /\ UniqueKeyPair => CertificatesOf(ctx[p].keyPair) = {}
<1>1. /\ requests \in Seq(Request) /\ Len(requests) \in Nat
      /\ DOMAIN requests = 1..Len(requests) /\ r \in 1..Len(requests)
  BY DEF Consistency, TypeOK, TablesOK
<1>2. requests[r] \in [user : User, keyPair : Nat, years : Nat, status : Status,
                       issued : Nat]
  BY RowTypes DEF Request, Consistency, TypeOK
<1>3. CASE UNCHANGED requests
  BY <1>3
<1>4. ASSUME NEW p \in Call, IssueCreate(p)
      PROVE  r \in DOMAIN requests' /\ requests'[r] = requests[r]
  <2>1. PICK row : requests' = Append(requests, row)
    BY <1>4 DEF IssueCreate
  <2> QED
    BY <1>1, <2>1
<1> DEFINE Decided(s) == /\ requests'[r].user = requests[r].user
                         /\ requests'[r].keyPair = requests[r].keyPair
                         /\ requests'[r].status = s
<1>5. ASSUME NEW p \in Call, RotateCancel(p)
      PROVE  /\ r \in DOMAIN requests' /\ pc[p] = "rotate.cancel"
             /\ pc'[p] = "generate.findActive"
             /\ \/ requests'[r] = requests[r]
                \/ /\ requests[r].status = "PENDING"
                   /\ requests[r].user = ctx[p].user
                   /\ Decided("CANCELLED") /\ requests'[r].issued = requests[r].issued
  <2>1. /\ r \in DOMAIN requests' /\ pc[p] = "rotate.cancel"
        /\ \/ requests'[r] = requests[r]
           \/ /\ requests[r].status = "PENDING"
              /\ requests[r].user = ctx[p].user
              /\ requests'[r] = [requests[r] EXCEPT !.status = "CANCELLED"]
    BY <1>1, <1>5 DEF RotateCancel, UpdateMany, CancelledRow, Pending
  <2>2. pc'[p] = "generate.findActive"
    BY <1>5, OneMoves DEF RotateCancel, Consistency
  <2> QED
    BY <1>2, <2>1, <2>2
<1>6. ASSUME NEW p \in Call, ApproveCommit(p)
      PROVE  /\ r \in DOMAIN requests' /\ pc[p] = "approve.commit" /\ pc'[p] = "idle"
             /\ \/ requests'[r] = requests[r]
                \/ /\ ctx[p].request = r
                   /\ Decided("APPROVED")
                   /\ requests'[r].issued = Len(certificates) + 1
                   /\ certificates' = Append(certificates, NewCertificate(ctx[p]))
                   /\ UniqueKeyPair => CertificatesOf(ctx[p].keyPair) = {}
  <2>1. \/ UNCHANGED requests
        \/ /\ requests' = [requests EXCEPT ![ctx[p].request] =
                                Approved(@, Len(certificates) + 1)]
           /\ certificates' = Append(certificates, NewCertificate(ctx[p]))
           /\ UniqueKeyPair => CertificatesOf(ctx[p].keyPair) = {}
    BY <1>6 DEF ApproveCommit
  <2>2. pc[p] = "approve.commit" /\ pc'[p] = "idle"
    BY <1>6, OneMoves DEF ApproveCommit, Answer, Consistency
  <2>3. \/ requests'[r] = requests[r]
        \/ /\ ctx[p].request = r
           /\ requests'[r] = [requests[r] EXCEPT !.status = "APPROVED",
                                                 !.issued = Len(certificates) + 1]
           /\ certificates' = Append(certificates, NewCertificate(ctx[p]))
           /\ UniqueKeyPair => CertificatesOf(ctx[p].keyPair) = {}
    BY <1>1, <2>1 DEF Approved
  <2>4. r \in DOMAIN requests'
    BY <1>1, <2>1
  <2> QED
    BY <1>2, <2>2, <2>3, <2>4
<1>7. ASSUME NEW p \in Call, RejectUpdate(p)
      PROVE  /\ r \in DOMAIN requests' /\ pc[p] = "reject.update" /\ pc'[p] = "idle"
             /\ \/ requests'[r] = requests[r]
                \/ /\ ctx[p].request = r /\ Decided("REJECTED")
                   /\ requests'[r].issued = requests[r].issued
  <2>1. pc[p] = "reject.update" /\ pc'[p] = "idle"
    BY <1>7, OneMoves DEF RejectUpdate, Answer, Consistency
  <2>2. /\ r \in DOMAIN requests'
        /\ \/ requests'[r] = requests[r]
           \/ /\ ctx[p].request = r
              /\ requests'[r] = [requests[r] EXCEPT !.status = "REJECTED"]
    BY <1>1, <1>7 DEF RejectUpdate
  <2> QED
    BY <1>2, <2>1, <2>2
<1> QED
  BY <1>3, <1>4, <1>5, <1>6, <1>7, Writers

\* A new request is that of an issue() at its last statement, the only one,
\* and pending.
LEMMA NewRequests ==
    ASSUME Consistency, [Next]_vars, NEW r \in DOMAIN requests' \ DOMAIN requests
    PROVE  /\ r = Len(requests) + 1
           /\ requests'[r].status = "PENDING" /\ requests'[r].issued = 0
           /\ \E p \in Call : /\ pc[p] = "issue.create" /\ pc'[p] = "idle"
                              /\ requests'[r].user = ctx[p].user
                              /\ requests'[r].keyPair = ctx[p].keyPair
<1>1. /\ requests \in Seq(Request) /\ Len(requests) \in Nat
      /\ DOMAIN requests = 1..Len(requests)
  BY DEF Consistency, TypeOK, TablesOK
<1>2. ASSUME NEW p \in Call, RotateCancel(p) \/ ApproveCommit(p) \/ RejectUpdate(p)
      PROVE  DOMAIN requests' = DOMAIN requests
  BY <1>1, <1>2 DEF RotateCancel, ApproveCommit, RejectUpdate, UpdateMany
<1>3. PICK p \in Call : IssueCreate(p)
  BY <1>2, Writers
<1>4. PICK row : /\ row.user = ctx[p].user /\ row.keyPair = ctx[p].keyPair
                 /\ row.status = "PENDING" /\ row.issued = 0
                 /\ requests' = Append(requests, row)
  BY <1>3 DEF IssueCreate
<1>5. r = Len(requests) + 1 /\ requests'[r] = row
  BY <1>1, <1>4
<1>6. pc[p] = "issue.create" /\ pc'[p] = "idle"
  BY <1>3, OneMoves DEF IssueCreate, Answer, Consistency
<1> QED
  BY <1>4, <1>5, <1>6

\* New evidence is that of a sign() or a verify() at its last statement.
LEMMA EvidenceAfter ==
    ASSUME Consistency, [Next]_vars
    PROVE  /\ documents \subseteq documents'
           /\ \A x \in documents' \ documents :
                 \E p \in Call : /\ pc[p] = "sign.create" /\ pc'[p] = "idle"
                                 /\ x = [user |-> ctx[p].user,
                                         certificate |-> ctx[p].certificate,
                                         document |-> ctx[p].document,
                                         signature |-> ctx[p].signature]
           /\ verifications \subseteq verifications'
           /\ \A v \in verifications' \ verifications :
                 \E p \in Call : /\ pc[p] = "verify.log" /\ pc'[p] = "idle"
                                 /\ v = [user |-> ctx[p].user,
                                         certificate |-> ctx[p].certificate,
                                         document |-> ctx[p].document,
                                         signature |-> ctx[p].signature,
                                         outcome |-> ctx[p].outcome]
<1>1. ASSUME NEW p \in Call, SignCreate(p)
      PROVE  pc[p] = "sign.create" /\ pc'[p] = "idle"
  BY <1>1, OneMoves DEF SignCreate, Answer, Consistency
<1>2. ASSUME NEW p \in Call, VerifyLog(p)
      PROVE  pc[p] = "verify.log" /\ pc'[p] = "idle"
  BY <1>2, OneMoves DEF VerifyLog, Answer, Consistency
<1> QED
  BY <1>1, <1>2, Writers DEF SignCreate, VerifyLog

-----------------------------------------------------------------------------
(* The rows of a user, where no call of the user writes them. *)

LEMMA KeyPairsOfTheRest ==
    ASSUME Consistency, [Next]_vars, NEW u,
           \A p \in Call : ctx[p].user = u /\
              pc[p] \in {"generate.create", "rotate.deactivate"} => pc'[p] = pc[p]
    PROVE  ActiveKeyPairs(u)' = ActiveKeyPairs(u)
<1>1. ASSUME NEW k \in DOMAIN keyPairs, keyPairs[k].user = u
      PROVE  k \in DOMAIN keyPairs' /\ keyPairs'[k] = keyPairs[k]
  BY <1>1, KeyPairsAfter
<1>2. \A k \in DOMAIN keyPairs :
         k \in DOMAIN keyPairs' /\ keyPairs'[k].user = keyPairs[k].user
  BY KeyPairsAfter
<1>3. \A k \in DOMAIN keyPairs' \ DOMAIN keyPairs : keyPairs'[k].user # u
  BY NewKeyPairs
<1> QED
  BY <1>1, <1>2, <1>3 DEF ActiveKeyPairs

LEMMA CertificatesOfTheRest ==
    ASSUME Consistency, [Next]_vars, NEW u,
           \A p \in Call : ctx[p].user = u /\
              pc[p] \in {"rotate.revoke", "revoke.update", "approve.commit"} =>
                 pc'[p] = pc[p]
    PROVE  Unrevoked(u)' = Unrevoked(u)
<1>1. ASSUME NEW c \in DOMAIN certificates, certificates[c].user = u
      PROVE  c \in DOMAIN certificates' /\ certificates'[c] = certificates[c]
  <2>1. ASSUME NEW p \in Call, pc[p] = "revoke.update", ctx[p].certificate = c
        PROVE  ctx[p].user = u
    BY <1>1, <2>1, CallFacts DEF Consistent, HasCertificate
  <2> QED
    BY <1>1, <2>1, CertificatesAfter
<1>2. \A c \in DOMAIN certificates :
         c \in DOMAIN certificates' /\ certificates'[c].user = certificates[c].user
  BY CertificatesAfter
<1>3. \A c \in DOMAIN certificates' \ DOMAIN certificates : certificates'[c].user # u
  BY NewCertificates
<1> QED
  BY <1>1, <1>2, <1>3 DEF Unrevoked

LEMMA RequestsOfTheRest ==
    ASSUME Consistency, [Next]_vars, NEW u,
           \A p \in Call : ctx[p].user = u /\
              pc[p] \in {"issue.create", "rotate.cancel", "reject.update",
                         "approve.commit"} => pc'[p] = pc[p]
    PROVE  Pending(u)' = Pending(u)
<1>1. ASSUME NEW r \in DOMAIN requests, requests[r].user = u
      PROVE  r \in DOMAIN requests' /\ requests'[r] = requests[r]
  <2>1. ASSUME NEW p \in Call, pc[p] \in {"reject.update", "approve.commit"},
               ctx[p].request = r
        PROVE  ctx[p].user = u
    BY <1>1, <2>1, CallFacts DEF Consistent, Reviewing, Reviewed
  <2> QED
    BY <1>1, <2>1, RequestsAfter
<1>2. \A r \in DOMAIN requests :
         r \in DOMAIN requests' /\ requests'[r].user = requests[r].user
  BY RequestsAfter
<1>3. \A r \in DOMAIN requests' \ DOMAIN requests : requests'[r].user # u
  BY NewRequests
<1> QED
  BY <1>1, <1>2, <1>3 DEF Pending

-----------------------------------------------------------------------------
(* Which request names which certificate. *)

IssuedExist ==
    \A r \in DOMAIN requests : requests[r].issued # 0 =>
        requests[r].issued \in DOMAIN certificates

AllNamed == \A c \in DOMAIN certificates : NamedByItsRequest(c)

\* A request approved now named no certificate before.
ApprovesTheUnissued ==
    \A p \in Call :
        /\ pc[p] = "approve.commit"
        /\ UniqueKeyPair => CertificatesOf(ctx[p].keyPair) = {}
        => requests[ctx[p].request].issued = 0

LEMMA NamesStep ==
    ASSUME Consistency, [Next]_vars, IssuedExist, AllNamed, ApprovesTheUnissued
    PROVE  IssuedExist' /\ AllNamed'
<1>1. /\ certificates \in Seq(Certificate) /\ Len(certificates) \in Nat
      /\ DOMAIN certificates = 1..Len(certificates)
  BY DEF Consistency, TypeOK, TablesOK
<1>2. ASSUME NEW r \in DOMAIN requests
      PROVE  /\ r \in DOMAIN requests'
             /\ requests'[r].user = requests[r].user
             /\ requests'[r].keyPair = requests[r].keyPair
             /\ \/ requests'[r].issued = requests[r].issued
                \/ /\ requests[r].issued = 0
                   /\ requests'[r].issued = Len(certificates) + 1
                   /\ Len(certificates) + 1 \in DOMAIN certificates'
  <2>1. ASSUME NEW p \in Call,
               certificates' = Append(certificates, NewCertificate(ctx[p]))
        PROVE  Len(certificates) + 1 \in DOMAIN certificates'
    BY <1>1, <2>1
  <2>2. /\ r \in DOMAIN requests'
        /\ requests'[r].user = requests[r].user
        /\ requests'[r].keyPair = requests[r].keyPair
    BY RequestsAfter
  <2>3. CASE requests'[r].issued = requests[r].issued
    BY <2>2, <2>3
  <2>4. ASSUME NEW p \in Call, pc[p] = "approve.commit", ctx[p].request = r,
               requests'[r].issued = Len(certificates) + 1,
               certificates' = Append(certificates, NewCertificate(ctx[p])),
               UniqueKeyPair => CertificatesOf(ctx[p].keyPair) = {}
        PROVE  /\ requests[r].issued = 0
               /\ Len(certificates) + 1 \in DOMAIN certificates'
    BY <2>1, <2>4 DEF ApprovesTheUnissued
  <2>5. \/ requests'[r].issued = requests[r].issued
        \/ \E p \in Call :
              /\ pc[p] = "approve.commit" /\ ctx[p].request = r
              /\ requests'[r].issued = Len(certificates) + 1
              /\ certificates' = Append(certificates, NewCertificate(ctx[p]))
              /\ UniqueKeyPair => CertificatesOf(ctx[p].keyPair) = {}
    BY RequestsAfter
  <2> QED
    BY <2>2, <2>3, <2>4, <2>5
<1>3. \A r \in DOMAIN requests' \ DOMAIN requests : requests'[r].issued = 0
  BY NewRequests
<1>4. \A c \in DOMAIN certificates :
         /\ c \in DOMAIN certificates'
         /\ certificates'[c].user = certificates[c].user
         /\ certificates'[c].keyPair = certificates[c].keyPair
  BY CertificatesAfter
<1>5. IssuedExist'
  BY <1>2, <1>3, <1>4 DEF IssuedExist
<1>6. ASSUME NEW c \in DOMAIN certificates
      PROVE  NamedByItsRequest(c)'
  <2>1. PICK r \in DOMAIN requests :
           /\ requests[r].user = certificates[c].user
           /\ requests[r].keyPair = certificates[c].keyPair
           /\ {q \in DOMAIN requests : requests[q].issued = c} = {r}
    BY DEF AllNamed, NamedByItsRequest
  <2>2. c # 0 /\ c # Len(certificates) + 1
    BY <1>1
  <2>3. requests[r].issued = c
    BY <2>1
  <2>4. {q \in DOMAIN requests' : requests'[q].issued = c} = {r}
    BY <1>2, <1>3, <2>1, <2>2, <2>3
  <2> QED
    BY <1>2, <1>4, <2>1, <2>4 DEF NamedByItsRequest
<1>7. ASSUME NEW c \in DOMAIN certificates' \ DOMAIN certificates
      PROVE  NamedByItsRequest(c)'
  <2>1. PICK p \in Call :
           /\ c = Len(certificates) + 1 /\ pc[p] = "approve.commit"
           /\ certificates'[c].user = ctx[p].user
           /\ certificates'[c].keyPair = ctx[p].keyPair
           /\ requests' = [requests EXCEPT ![ctx[p].request] = Approved(@, c)]
    BY NewCertificates
  <2>2. PICK r : r = ctx[p].request
    OBVIOUS
  <2>3. /\ r \in DOMAIN requests /\ requests[r].user = ctx[p].user
        /\ requests[r].keyPair = ctx[p].keyPair
    BY <2>1, <2>2, CallFacts DEF Consistent, Reviewing, Reviewed
  <2>4. requests[r] \in [user : User, keyPair : Nat, years : Nat,
                         status : Status, issued : Nat]
    BY <2>3, RowTypes DEF Request, Consistency, TypeOK
  <2>5. Approved(requests[r], c).issued = c
    BY <2>4 DEF Approved
  <2>6. /\ DOMAIN requests' = DOMAIN requests
        /\ requests'[r].issued = c
        /\ \A q \in DOMAIN requests : q # r => requests'[q].issued = requests[q].issued
    BY <2>1, <2>2, <2>3, <2>5
  <2>7. \A q \in DOMAIN requests : requests[q].issued # c
    BY <1>1, <2>1 DEF IssuedExist
  <2>8. {q \in DOMAIN requests' : requests'[q].issued = c} = {r}
    BY <2>3, <2>6, <2>7
  <2> QED
    BY <1>2, <2>1, <2>3, <2>8 DEF NamedByItsRequest
<1> QED
  BY <1>5, <1>6, <1>7 DEF AllNamed

\* Where a key pair has one certificate only, a request names one of its own.
OnRecord ==
    /\ Consistency
    /\ UniqueKeyPair =>
          /\ IssuedExist /\ AllNamed
          /\ \A r \in DOMAIN requests : requests[r].issued # 0 =>
                certificates[requests[r].issued].keyPair = requests[r].keyPair

LEMMA OnRecordStep == OnRecord /\ [Next]_vars => OnRecord'
<1> SUFFICES ASSUME OnRecord, [Next]_vars PROVE OnRecord'
  OBVIOUS
<1>1. Consistency /\ Consistency'
  BY NextConsistent DEF OnRecord
<1>2. CASE UniqueKeyPair
  <2>1. /\ IssuedExist /\ AllNamed
        /\ \A r \in DOMAIN requests : requests[r].issued # 0 =>
              certificates[requests[r].issued].keyPair = requests[r].keyPair
    BY <1>2 DEF OnRecord
  <2>2. ASSUME NEW p \in Call, pc[p] = "approve.commit",
               CertificatesOf(ctx[p].keyPair) = {}
        PROVE  requests[ctx[p].request].issued = 0
    <3>1. /\ ctx[p].request \in DOMAIN requests
          /\ requests[ctx[p].request].keyPair = ctx[p].keyPair
      BY <1>1, <2>2, CallFacts DEF Consistent, Reviewing, Reviewed
    <3> QED
      BY <2>1, <2>2, <3>1 DEF IssuedExist, CertificatesOf
  <2>3. IssuedExist' /\ AllNamed'
    BY <1>1, <1>2, <2>1, <2>2, NamesStep DEF ApprovesTheUnissued
  <2>4. ASSUME NEW r \in DOMAIN requests', requests'[r].issued # 0
        PROVE  certificates'[requests'[r].issued].keyPair = requests'[r].keyPair
    <3>1. r \in DOMAIN requests
      BY <1>1, <2>4, NewRequests
    <3>2. requests'[r].keyPair = requests[r].keyPair
      BY <1>1, <3>1, RequestsAfter
    <3>3. CASE requests'[r].issued = requests[r].issued
      BY <1>1, <2>1, <2>4, <3>1, <3>2, <3>3, CertificatesAfter DEF IssuedExist
    <3>4. ASSUME NEW p \in Call, pc[p] = "approve.commit", ctx[p].request = r,
                 requests'[r].issued = Len(certificates) + 1,
                 certificates' = Append(certificates, NewCertificate(ctx[p]))
          PROVE  certificates'[requests'[r].issued].keyPair = requests'[r].keyPair
      <4>1. certificates'[Len(certificates) + 1] = NewCertificate(ctx[p])
        BY <1>1, <3>4 DEF Consistency, TypeOK, TablesOK
      <4>2. NewCertificate(ctx[p]).keyPair = ctx[p].keyPair
        BY DEF NewCertificate
      <4>3. requests[r].keyPair = ctx[p].keyPair
        BY <1>1, <3>4, CallFacts DEF Consistent, Reviewed
      <4> QED
        BY <3>2, <3>4, <4>1, <4>2, <4>3
    <3> QED
      BY <1>1, <3>1, <3>3, <3>4, RequestsAfter
  <2> QED
    BY <1>1, <2>3, <2>4 DEF OnRecord
<1>3. CASE ~UniqueKeyPair
  BY <1>1, <1>3 DEF OnRecord
<1> QED
  BY <1>2, <1>3

\* However reviews, rotations and deaths overlap, where the schema lets a key
\* pair have one certificate only, every certificate is named by one request.
THEOREM CertificatesOnRecord == Spec => []CertificatesAreOnRecord
<1>1. Init => OnRecord
  <2> SUFFICES ASSUME Init PROVE OnRecord
    OBVIOUS
  <2>1. Consistency /\ certificates = << >> /\ requests = << >>
    BY InitConsistent DEF Init, EmptyTables
  <2> QED
    BY <2>1 DEF OnRecord, IssuedExist, AllNamed
<1>2. OnRecord => CertificatesAreOnRecord
  BY DEF OnRecord, AllNamed, CertificatesAreOnRecord
<1> QED
  BY <1>1, <1>2, OnRecordStep, PTL DEF Spec
=============================================================================
