--------------------------- MODULE ServiceProofs ---------------------------
(***************************************************************************)
(* Proofs, for any users, documents, calls and bounds, that overlapping    *)
(* and dying calls keep the service's rows well typed and each within what *)
(* one user owns.  The argument: tables only grow and the columns that     *)
(* relate rows never change (Grows), so what a call in flight knows of the *)
(* rows stays true whatever other calls do (Consistent); and what it knows *)
(* when it gets to its write makes the row it writes a proper one.         *)
(***************************************************************************)
EXTENDS ServiceProperties, TLAPS

\* Rows stay, and the columns that relate them do not change.
Grows ==
    /\ \A k \in DOMAIN keyPairs :
          k \in DOMAIN keyPairs' /\ keyPairs'[k].user = keyPairs[k].user
    /\ \A c \in DOMAIN certificates :
          /\ c \in DOMAIN certificates'
          /\ certificates'[c].user = certificates[c].user
          /\ certificates'[c].keyPair = certificates[c].keyPair
          /\ certificates'[c].signer = certificates[c].signer
    /\ \A r \in DOMAIN requests :
          /\ r \in DOMAIN requests'
          /\ requests'[r].user = requests[r].user
          /\ requests'[r].keyPair = requests[r].keyPair
    /\ documents \subseteq documents'

\* Call p, and no other, moves on.
Moves(p) == \E l \in Label, c \in Context : Goto(p, l, c)

-----------------------------------------------------------------------------
\* Goto changes the label and the local variables of its call only.
LEMMA GotoMoves ==
    ASSUME TypeOK, NEW p \in Call, NEW l \in Label, NEW c \in Context,
           Goto(p, l, c)
    PROVE  /\ Moves(p)
           /\ pc' \in [Call -> Label] /\ ctx' \in [Call -> Context]
           /\ pc'[p] = l /\ ctx'[p] = c
           /\ \A q \in Call \ {p} : pc'[q] = pc[q] /\ ctx'[q] = ctx[q]
  BY DEF Goto, Moves, TypeOK, CallsOK

\* Ids are positive, and rows are of their table's type.
LEMMA RowTypes ==
    ASSUME TablesOK
    PROVE  /\ \A k \in DOMAIN keyPairs : k \in Nat \ {0} /\ keyPairs[k] \in KeyPair
           /\ \A c \in DOMAIN certificates :
                 c \in Nat \ {0} /\ certificates[c] \in Certificate
           /\ \A r \in DOMAIN requests : r \in Nat \ {0} /\ requests[r] \in Request
<1>1. /\ keyPairs \in Seq(KeyPair) /\ certificates \in Seq(Certificate)
      /\ requests \in Seq(Request)
  BY DEF TablesOK
<1>2. /\ DOMAIN keyPairs = 1..Len(keyPairs)
      /\ DOMAIN certificates = 1..Len(certificates)
      /\ DOMAIN requests = 1..Len(requests)
      /\ Len(keyPairs) \in Nat /\ Len(certificates) \in Nat /\ Len(requests) \in Nat
  BY <1>1
<1>3. /\ \A k \in 1..Len(keyPairs) : keyPairs[k] \in KeyPair
      /\ \A c \in 1..Len(certificates) : certificates[c] \in Certificate
      /\ \A r \in 1..Len(requests) : requests[r] \in Request
  BY <1>1, <1>2
<1> QED
  BY <1>2, <1>3

\* A function on an initial segment is a sequence.
LEMMA SequencesAreFunctions ==
    ASSUME NEW S, NEW n \in Nat, NEW f \in [1..n -> S]
    PROVE  f \in Seq(S)
  OBVIOUS

\* NoContext is a context.
LEMMA NoContextType == NoContext \in Context
  BY DEF NoContext, Context, NoSignature

\* What a call knows stays true while it waits.
LEMMA WaitingStaysConsistent ==
    ASSUME Grows, NEW q, Consistent(pc[q], ctx[q]),
           pc'[q] = pc[q], ctx'[q] = ctx[q]
    PROVE  Consistent(pc[q], ctx[q])'
<1> DEFINE l == pc[q]
           c == ctx[q]
<1>1. l \in HasKeyPair \cup {"issue.create"} => Owns(c.user, c.keyPair)'
  BY DEF Consistent, Grows, Owns
<1>2. l = "approve.commit" => Owns(c.user, c.signer)'
  BY DEF Consistent, Grows, Owns
<1>3. l = "sign.create" => Owns(c.user, c.signature.keyPair)'
  BY DEF Consistent, Grows, Owns
<1>4. l = "verify.log" /\ c.outcome = "valid" =>
          Vouches(c.certificate, c.user, c.signature)'
  BY DEF Consistent, Grows, Vouches
<1>5. l \in Reviewing => /\ c.request \in DOMAIN requests'
                         /\ requests'[c.request].user = c.user
  BY DEF Consistent, Grows
<1>6. l \in Reviewed => c.keyPair = requests'[c.request].keyPair
  BY DEF Consistent, Grows, Reviewed, Reviewing
<1>7. l \in HasCertificate => /\ c.certificate \in DOMAIN certificates'
                              /\ certificates'[c.certificate].user = c.user
  BY DEF Consistent, Grows
<1>8. l \in Verifies => \E x \in documents' : x.signature = c.signature
  BY DEF Consistent, Grows
<1> QED
  BY <1>1, <1>2, <1>3, <1>4, <1>5, <1>6, <1>7, <1>8 DEF Consistent

\* A step that keeps the rows in order and leaves its own call consistent
\* keeps the invariant.
LEMMA CallStep ==
    ASSUME Consistency, Grows, NEW p \in Call, Moves(p),
           Consistent(pc[p], ctx[p])', TablesOK', failures' \in Nat,
           Ownership', DocumentsSigned', AcceptedWasSigned'
    PROVE  Consistency'
<1>1. PICK l \in Label, c \in Context : Goto(p, l, c)
  BY DEF Moves
<1>2. /\ pc' \in [Call -> Label] /\ ctx' \in [Call -> Context]
      /\ \A q \in Call \ {p} : pc'[q] = pc[q] /\ ctx'[q] = ctx[q]
  BY <1>1, GotoMoves DEF Consistency
<1>3. ASSUME NEW q \in Call
      PROVE  Consistent(pc[q], ctx[q])'
  <2>1. CASE q = p
    BY <2>1
  <2>2. CASE q # p
    <3>1. pc'[q] = pc[q] /\ ctx'[q] = ctx[q]
      BY <1>2, <2>2
    <3>2. Consistent(pc[q], ctx[q])
      BY DEF Consistency, CallsConsistent
    <3> QED
      BY <3>1, <3>2, WaitingStaysConsistent
  <2> QED
    BY <2>1, <2>2
<1> QED
  BY <1>2, <1>3 DEF Consistency, TypeOK, CallsOK, CallsConsistent

\* A step that only reads keeps the invariant if its own call stays consistent.
LEMMA ReadOnlyStep ==
    ASSUME Consistency, NEW p \in Call, Moves(p), Reads,
           Consistent(pc[p], ctx[p])'
    PROVE  Consistency'
<1>1. /\ Grows /\ TablesOK' /\ failures' \in Nat
      /\ Ownership' /\ DocumentsSigned' /\ AcceptedWasSigned'
  BY DEF Consistency, Reads, tables, Grows, TypeOK, TablesOK, CallsOK,
         Ownership, Owns, Vouches, DocumentsSigned, AcceptedWasSigned
<1> QED
  BY <1>1, CallStep

\* A call that is answered is consistent.
LEMMA AnswerStep ==
    ASSUME Consistency, NEW p \in Call, Answer(p)
    PROVE  Moves(p) /\ Consistent(pc[p], ctx[p])'
<1>1. "idle" \in Label
  BY DEF Label
<1>2. Moves(p) /\ pc'[p] = "idle"
  BY <1>1, NoContextType, GotoMoves DEF Answer, Consistency
<1> QED
  BY <1>2 DEF Consistent, Replacing, HasKeyPair, Reviewing, Reviewed,
              HasCertificate, Signs, Verifies

\* The invariant, taken apart for one call.
LEMMA CallFacts ==
    ASSUME Consistency, NEW p \in Call
    PROVE  /\ TypeOK /\ TablesOK /\ failures \in Nat
           /\ ctx[p] \in Context /\ Consistent(pc[p], ctx[p])
  BY DEF Consistency, CallsConsistent, TypeOK, CallsOK

\* A call that reads, and goes on with consistent local variables, keeps the
\* invariant.
LEMMA ReadAndGo ==
    ASSUME Consistency, NEW p \in Call, NEW l \in Label, NEW c \in Context,
           Goto(p, l, c), Reads, Consistent(l, c)
    PROVE  Consistency'
<1>1. Moves(p) /\ pc'[p] = l /\ ctx'[p] = c
  BY CallFacts, GotoMoves
<1>2. Consistent(pc[p], ctx[p])'
  BY <1>1 DEF Consistent, Reads, tables, Owns, Vouches
<1> QED
  BY <1>1, <1>2, ReadOnlyStep

\* So does a call that reads and is answered.
LEMMA ReadAndAnswer ==
    ASSUME Consistency, NEW p \in Call, Answer(p), Reads
    PROVE  Consistency'
  BY AnswerStep, ReadOnlyStep

\* A key pair that findFirst returns is the user's.
LEMMA ActiveKeyPairFacts ==
    ASSUME TablesOK, NEW u, NEW k \in FindFirst(ActiveKeyPairs(u)), k # 0
    PROVE  k \in Nat /\ keyPairs[k].algorithm \in Algorithm /\ Owns(u, k)
  BY RowTypes DEF FindFirst, ActiveKeyPairs, Owns, KeyPair

\* So is a certificate.
LEMMA UnrevokedFacts ==
    ASSUME TablesOK, NEW u, NEW c \in FindFirst(Unrevoked(u)), c # 0
    PROVE  c \in Nat /\ c \in DOMAIN certificates /\ certificates[c].user = u
  BY RowTypes DEF FindFirst, Unrevoked, Certificate

\* A call that writes, and goes on with local variables that were consistent
\* before, is consistent after.
LEMMA WriteAndGo ==
    ASSUME Consistency, Grows, NEW p \in Call, NEW l \in Label,
           NEW c \in Context, Goto(p, l, c), Consistent(l, c)
    PROVE  Moves(p) /\ Consistent(pc[p], ctx[p])'
<1>1. Moves(p) /\ pc'[p] = l /\ ctx'[p] = c
  BY CallFacts, GotoMoves
<1>2. l \in HasKeyPair \cup {"issue.create"} => Owns(c.user, c.keyPair)'
  BY <1>1 DEF Consistent, Grows, Owns
<1>3. l = "approve.commit" => Owns(c.user, c.signer)'
  BY DEF Consistent, Grows, Owns
<1>4. l = "sign.create" => Owns(c.user, c.signature.keyPair)'
  BY DEF Consistent, Grows, Owns
<1>5. l = "verify.log" /\ c.outcome = "valid" =>
          Vouches(c.certificate, c.user, c.signature)'
  BY DEF Consistent, Grows, Vouches
<1>6. l \in Reviewing => /\ c.request \in DOMAIN requests'
                         /\ requests'[c.request].user = c.user
  BY DEF Consistent, Grows
<1>7. l \in Reviewed => c.keyPair = requests'[c.request].keyPair
  BY DEF Consistent, Grows, Reviewed, Reviewing
<1>8. l \in HasCertificate => /\ c.certificate \in DOMAIN certificates'
                              /\ certificates'[c.certificate].user = c.user
  BY DEF Consistent, Grows
<1>9. l \in Verifies => \E x \in documents' : x.signature = c.signature
  BY DEF Consistent, Grows
<1>10. Consistent(pc[p], ctx[p])'
  BY <1>1, <1>2, <1>3, <1>4, <1>5, <1>6, <1>7, <1>8, <1>9 DEF Consistent, Owns, Vouches
<1> QED
  BY <1>1, <1>10

\* Tables that grow by proper rows, with no new evidence, stay in order.
LEMMA ProperRows ==
    ASSUME Consistency, Grows,
           UNCHANGED <<documents, verifications>>,
           \A r \in DOMAIN requests' \ DOMAIN requests :
              Owns(requests[r].user, requests[r].keyPair)',
           \A c \in DOMAIN certificates' \ DOMAIN certificates :
              /\ Owns(certificates[c].user, certificates[c].keyPair)'
              /\ Owns(certificates[c].user, certificates[c].signer)'
    PROVE  Ownership' /\ DocumentsSigned' /\ AcceptedWasSigned'
<1>1. \A r \in DOMAIN requests' : Owns(requests[r].user, requests[r].keyPair)'
  BY DEF Consistency, Ownership, Grows, Owns
<1>2. \A c \in DOMAIN certificates' :
         /\ Owns(certificates[c].user, certificates[c].keyPair)'
         /\ Owns(certificates[c].user, certificates[c].signer)'
  BY DEF Consistency, Ownership, Grows, Owns
<1>3. \A x \in documents' :
          /\ x.certificate \in DOMAIN certificates'
          /\ certificates'[x.certificate].user = x.user
          /\ Owns(x.user, x.signature.keyPair)'
  BY DEF Consistency, Ownership, Grows, Owns
<1>4. \A v \in verifications' : v.outcome = "valid" =>
          Vouches(v.certificate, v.user, v.signature)'
  BY DEF Consistency, Ownership, Grows, Vouches
<1>5. Ownership'
  BY <1>1, <1>2, <1>3, <1>4 DEF Ownership
<1> QED
  BY <1>5 DEF Consistency, DocumentsSigned, AcceptedWasSigned

-----------------------------------------------------------------------------
(* CertificatesService *)

\* Every step of issue() keeps the invariant.
LEMMA IssueSteps ==
    ASSUME Consistency, NEW p \in Call,
           \/ IssuePolicy(p) \/ IssueKey(p) \/ IssueCertificate(p)
           \/ IssuePending(p) \/ IssueKeyCertificate(p) \/ IssueCreate(p)
    PROVE  Consistency'
<1> USE DEF Replacing, HasKeyPair, Reviewing, Reviewed, HasCertificate, Signs,
            Verifies
<1>0. /\ TablesOK /\ failures \in Nat
      /\ ctx[p] \in Context /\ Consistent(pc[p], ctx[p])
  BY CallFacts
<1>1. CASE Answer(p) /\ Reads
  BY <1>1, ReadAndAnswer
<1>2. CASE IssuePolicy(p) /\ ~Answer(p)
  <2>1. pc[p] = "issue.policy" /\ Goto(p, "issue.key", ctx[p]) /\ Reads
    BY <1>2 DEF IssuePolicy
  <2>2. "issue.key" \in Label /\ Consistent("issue.key", ctx[p])
    BY <1>0, <2>1 DEF Label, Consistent
  <2> QED
    BY <1>0, <2>1, <2>2, ReadAndGo
<1>3. CASE IssueKey(p) /\ ~Answer(p)
  <2>1. PICK k \in FindFirst(ActiveKeyPairs(ctx[p].user)) :
          /\ k # 0
          /\ Goto(p, "issue.certificate",
                  [ctx[p] EXCEPT !.keyPair = k, !.algorithm = keyPairs[k].algorithm])
    BY <1>3 DEF IssueKey
  <2> DEFINE c == [ctx[p] EXCEPT !.keyPair = k, !.algorithm = keyPairs[k].algorithm]
  <2>2. pc[p] = "issue.key" /\ Reads
    BY <1>3 DEF IssueKey
  <2>3. k \in Nat /\ keyPairs[k].algorithm \in Algorithm /\ Owns(ctx[p].user, k)
    BY <1>0, <2>1, ActiveKeyPairFacts
  <2>4. c \in Context /\ "issue.certificate" \in Label
    BY <1>0, <2>3 DEF Context, Label
  <2>5. Consistent("issue.certificate", c)
    BY <1>0, <2>2, <2>3 DEF Consistent, Context
  <2> QED
    BY <2>1, <2>2, <2>4, <2>5, ReadAndGo
<1>4. CASE (IssueCertificate(p) \/ IssuePending(p) \/ IssueKeyCertificate(p)) /\ ~Answer(p)
  <2>1. PICK l \in {"issue.pending", "issue.keyCertificate", "issue.create",
                    "rotate.deactivate"} : Goto(p, l, ctx[p])
    BY <1>4 DEF IssueCertificate, IssuePending, IssueKeyCertificate
  <2>2. Reads /\ pc[p] \in HasKeyPair
    BY <1>4 DEF IssueCertificate, IssuePending, IssueKeyCertificate
  <2>3. l \in Label /\ Consistent(l, ctx[p])
    BY <1>0, <2>2 DEF Label, Consistent
  <2> QED
    BY <1>0, <2>1, <2>2, <2>3, ReadAndGo
<1>5. CASE IssueCreate(p)
  <2> DEFINE row == [user |-> ctx[p].user, keyPair |-> ctx[p].keyPair,
                     years |-> ctx[p].years, status |-> "PENDING", issued |-> 0]
  <2>1. requests' = Append(requests, row) /\ Answer(p) /\ WritesRequests
    BY <1>5 DEF IssueCreate
  <2>2. row \in Request /\ Owns(row.user, row.keyPair)
    BY <1>0, <1>5 DEF IssueCreate, Consistent, Context, Request, Status
  <2>3. TablesOK' /\ failures' \in Nat
    BY <1>0, <2>1, <2>2 DEF TablesOK, WritesRequests
  <2>4. /\ \A r \in DOMAIN requests : r \in DOMAIN requests' /\ requests'[r] = requests[r]
        /\ \A r \in DOMAIN requests' : r \in DOMAIN requests \/ requests'[r] = row
    BY <1>0, <2>1, <2>2 DEF TablesOK
  <2>5. Grows
    BY <2>1, <2>4 DEF Grows, WritesRequests
  <2>6. Ownership' /\ DocumentsSigned' /\ AcceptedWasSigned'
    BY <2>1, <2>2, <2>4 DEF Consistency, Ownership, Owns, Vouches,
       DocumentsSigned, AcceptedWasSigned, WritesRequests
  <2> QED
    BY <2>1, <2>3, <2>5, <2>6, AnswerStep, CallStep
<1> QED
  BY <1>1, <1>2, <1>3, <1>4, <1>5 DEF IssuePolicy, IssueKey, IssueCertificate,
     IssuePending, IssueKeyCertificate

\* Updating the flags of certificates keeps the rows in order.
LEMMA CertificatesUpdated ==
    ASSUME Consistency, WritesCertificates, certificates' \in Seq(Certificate),
           DOMAIN certificates' = DOMAIN certificates,
           \A c \in DOMAIN certificates :
              /\ certificates'[c].user = certificates[c].user
              /\ certificates'[c].keyPair = certificates[c].keyPair
              /\ certificates'[c].signer = certificates[c].signer
    PROVE  /\ Grows /\ TablesOK' /\ failures' \in Nat
           /\ Ownership' /\ DocumentsSigned' /\ AcceptedWasSigned'
<1>1. Grows
  BY DEF Grows, WritesCertificates
<1>2. Ownership' /\ DocumentsSigned' /\ AcceptedWasSigned'
  BY <1>1, ProperRows DEF WritesCertificates
<1> QED
  BY <1>1, <1>2 DEF WritesCertificates, Consistency, TypeOK, TablesOK, CallsOK

\* So does updating the status of requests.
LEMMA RequestsUpdated ==
    ASSUME Consistency, WritesRequests, requests' \in Seq(Request),
           DOMAIN requests' = DOMAIN requests,
           \A r \in DOMAIN requests :
              /\ requests'[r].user = requests[r].user
              /\ requests'[r].keyPair = requests[r].keyPair
    PROVE  /\ Grows /\ TablesOK' /\ failures' \in Nat
           /\ Ownership' /\ DocumentsSigned' /\ AcceptedWasSigned'
<1>1. Grows
  BY DEF Grows, WritesRequests
<1>2. Ownership' /\ DocumentsSigned' /\ AcceptedWasSigned'
  BY <1>1, ProperRows DEF WritesRequests
<1> QED
  BY <1>1, <1>2 DEF WritesRequests, Consistency, TypeOK, TablesOK, CallsOK

\* Every step of approveRequest() but the last keeps the invariant.
LEMMA ReviewSteps ==
    ASSUME Consistency, NEW p \in Call,
           \/ ApproveRead(p) \/ ApprovePolicy(p) \/ ApproveCertificate(p)
           \/ ApproveKeyCertificate(p) \/ ApproveDecrypt(p)
    PROVE  Consistency'
<1> USE DEF Replacing, HasKeyPair, Reviewing, Reviewed, HasCertificate, Signs,
            Verifies
<1>0. /\ TablesOK /\ failures \in Nat
      /\ ctx[p] \in Context /\ Consistent(pc[p], ctx[p])
  BY CallFacts
<1>1. CASE Answer(p) /\ Reads
  BY <1>1, ReadAndAnswer
<1>2. CASE ApproveRead(p) /\ ~Answer(p)
  <2> DEFINE request == requests[ctx[p].request]
             c == [ctx[p] EXCEPT !.keyPair = request.keyPair,
                                 !.years = request.years]
  <2>1. pc[p] = "approve.read" /\ Reads /\ Goto(p, "approve.policy", c)
    BY <1>2 DEF ApproveRead
  <2>2. ctx[p].request \in DOMAIN requests /\ request.user = ctx[p].user
    BY <1>0, <2>1 DEF Consistent
  <2>3. request \in Request
    BY <1>0, <2>2, RowTypes
  <2>4. c \in Context /\ "approve.policy" \in Label
    BY <1>0, <2>3 DEF Context, Request, Label
  <2>5. Consistent("approve.policy", c)
    BY <1>0, <2>1, <2>2 DEF Consistent, Context
  <2> QED
    BY <2>1, <2>4, <2>5, ReadAndGo
<1>3. CASE (ApprovePolicy(p) \/ ApproveCertificate(p) \/ ApproveKeyCertificate(p))
              /\ ~Answer(p)
  <2>1. PICK l \in {"approve.certificate", "approve.keyCertificate",
                    "approve.decrypt"} : Goto(p, l, ctx[p])
    BY <1>3 DEF ApprovePolicy, ApproveCertificate, ApproveKeyCertificate
  <2>2. Reads /\ pc[p] \in Reviewed \ {"approve.commit"}
    BY <1>3 DEF ApprovePolicy, ApproveCertificate, ApproveKeyCertificate
  <2>3. l \in Label /\ Consistent(l, ctx[p])
    BY <1>0, <2>2 DEF Label, Consistent
  <2> QED
    BY <1>0, <2>1, <2>2, <2>3, ReadAndGo
<1>4. CASE ApproveDecrypt(p) /\ ~Answer(p)
  <2>1. PICK k \in FindFirst(ActiveKeyPairs(ctx[p].user)) :
          /\ k # 0
          /\ Goto(p, "approve.commit", [ctx[p] EXCEPT !.signer = k,
                                             !.notAfter = now + ctx[p].years])
    BY <1>4 DEF ApproveDecrypt, DecryptActivePrivateKey
  <2> DEFINE c == [ctx[p] EXCEPT !.signer = k, !.notAfter = now + ctx[p].years]
  <2>2. pc[p] = "approve.decrypt" /\ Reads
    BY <1>4 DEF ApproveDecrypt
  <2>3. k \in Nat /\ Owns(ctx[p].user, k)
    BY <1>0, <2>1, ActiveKeyPairFacts
  <2>4. now + ctx[p].years \in Nat
    BY <1>0 DEF TablesOK, Context
  <2>5. c \in Context /\ "approve.commit" \in Label
    BY <1>0, <2>3, <2>4 DEF Context, Label
  <2>6. Consistent("approve.commit", c)
    BY <1>0, <2>2, <2>3 DEF Consistent, Context
  <2> QED
    BY <2>1, <2>2, <2>5, <2>6, ReadAndGo
<1> QED
  BY <1>1, <1>2, <1>3, <1>4 DEF ApproveRead, ApprovePolicy, ApproveCertificate,
     ApproveKeyCertificate, ApproveDecrypt

\* The approval transaction keeps the invariant: the request it approves is of
\* the user who owns both the key pair certified and the one that signed.
LEMMA ApproveCommitStep ==
    ASSUME Consistency, NEW p \in Call, ApproveCommit(p)
    PROVE  Consistency'
<1>0. /\ TablesOK /\ failures \in Nat /\ Ownership
      /\ ctx[p] \in Context /\ Consistent(pc[p], ctx[p])
  BY CallFacts DEF Consistency
<1>1. pc[p] = "approve.commit" /\ Answer(p)
      /\ UNCHANGED <<keyPairs, policy, documents, verifications, now, failures>>
  BY DEF ApproveCommit
<1> DEFINE r == ctx[p].request
           row == NewCertificate(ctx[p])
<1>2. /\ r \in DOMAIN requests /\ requests[r].user = ctx[p].user
      /\ requests[r].keyPair = ctx[p].keyPair
      /\ ctx[p].user \in User
      /\ Owns(ctx[p].user, ctx[p].signer)
  BY <1>0, <1>1 DEF Consistent, Reviewing, Reviewed
<1>3. Owns(ctx[p].user, ctx[p].keyPair)
  BY <1>0, <1>2 DEF Ownership
<1>4. /\ row \in Certificate
      /\ Owns(row.user, row.keyPair) /\ Owns(row.user, row.signer)
  BY <1>0, <1>2, <1>3 DEF NewCertificate, Certificate, Reason, Context
<1>5. CASE UNCHANGED <<certificates, requests>>
  <2>1. Reads
    BY <1>1, <1>5 DEF Reads, tables
  <2> QED
    BY <1>1, <2>1, ReadAndAnswer
<1>6. CASE /\ certificates' = Append(certificates, row)
           /\ requests' = [requests EXCEPT ![r] = Approved(@, Len(certificates) + 1)]
  <2>1. requests[r] \in Request /\ Len(certificates) + 1 \in Nat
    BY <1>0, <1>2, RowTypes DEF TablesOK
  <2>2. /\ Approved(requests[r], Len(certificates) + 1) \in Request
        /\ Approved(requests[r], Len(certificates) + 1).user = requests[r].user
        /\ Approved(requests[r], Len(certificates) + 1).keyPair = requests[r].keyPair
    BY <2>1 DEF Approved, Request, Status
  <2>3. /\ requests' \in Seq(Request) /\ DOMAIN requests' = DOMAIN requests
        /\ \A q \in DOMAIN requests : /\ requests'[q].user = requests[q].user
                                      /\ requests'[q].keyPair = requests[q].keyPair
    BY <1>0, <1>2, <1>6, <2>2 DEF TablesOK
  <2>4. /\ certificates' \in Seq(Certificate)
        /\ \A c \in DOMAIN certificates :
              c \in DOMAIN certificates' /\ certificates'[c] = certificates[c]
        /\ \A c \in DOMAIN certificates' :
              c \in DOMAIN certificates \/ certificates'[c] = row
    BY <1>0, <1>4, <1>6 DEF TablesOK
  <2>5. Grows
    BY <1>1, <2>3, <2>4 DEF Grows
  <2>6. TablesOK' /\ failures' \in Nat
    BY <1>0, <1>1, <2>3, <2>4 DEF TablesOK
  <2>7. /\ \A q \in DOMAIN requests' \ DOMAIN requests :
              Owns(requests[q].user, requests[q].keyPair)'
        /\ \A c \in DOMAIN certificates' \ DOMAIN certificates :
              /\ Owns(certificates[c].user, certificates[c].keyPair)'
              /\ Owns(certificates[c].user, certificates[c].signer)'
    BY <1>1, <1>4, <2>3, <2>4 DEF Owns
  <2>8. Ownership' /\ DocumentsSigned' /\ AcceptedWasSigned'
    BY <1>1, <2>5, <2>7, ProperRows
  <2> QED
    BY <1>1, <2>5, <2>6, <2>8, AnswerStep, CallStep
<1> QED
  BY <1>5, <1>6 DEF ApproveCommit

\* Rejecting a request and revoking a certificate keep the invariant.
LEMMA DecisionSteps ==
    ASSUME Consistency, NEW p \in Call,
           RejectRead(p) \/ RejectUpdate(p) \/ RevokeFind(p) \/ RevokeUpdate(p)
    PROVE  Consistency'
<1> USE DEF Replacing, HasKeyPair, Reviewing, Reviewed, HasCertificate, Signs,
            Verifies
<1>0. /\ TablesOK /\ failures \in Nat
      /\ ctx[p] \in Context /\ Consistent(pc[p], ctx[p])
  BY CallFacts
<1>1. CASE Answer(p) /\ Reads
  BY <1>1, ReadAndAnswer
<1>2. CASE RejectRead(p) /\ ~Answer(p)
  <2>1. pc[p] = "reject.read" /\ Reads /\ Goto(p, "reject.update", ctx[p])
    BY <1>2 DEF RejectRead
  <2>2. "reject.update" \in Label /\ Consistent("reject.update", ctx[p])
    BY <1>0, <2>1 DEF Label, Consistent
  <2> QED
    BY <1>0, <2>1, <2>2, ReadAndGo
<1>3. CASE RejectUpdate(p)
  <2> DEFINE r == ctx[p].request
             row == [requests[r] EXCEPT !.status = "REJECTED"]
  <2>1. /\ Answer(p) /\ WritesRequests
        /\ requests' = [requests EXCEPT ![r] = row]
    BY <1>3 DEF RejectUpdate
  <2>2. r \in DOMAIN requests
    BY <1>0, <1>3 DEF RejectUpdate, Consistent
  <2>3. requests[r] \in Request
    BY <1>0, <2>2, RowTypes
  <2>4. /\ row \in Request
        /\ row.user = requests[r].user /\ row.keyPair = requests[r].keyPair
    BY <2>3 DEF Request, Status
  <2> HIDE DEF row
  <2>5. /\ requests' \in Seq(Request) /\ DOMAIN requests' = DOMAIN requests
        /\ \A q \in DOMAIN requests : /\ requests'[q].user = requests[q].user
                                      /\ requests'[q].keyPair = requests[q].keyPair
    BY <1>0, <2>1, <2>2, <2>4 DEF TablesOK
  <2> QED
    BY <2>1, <2>5, RequestsUpdated, AnswerStep, CallStep
<1>4. CASE RevokeFind(p) /\ ~Answer(p)
  <2>1. PICK c \in FindFirst(Unrevoked(ctx[p].user)) :
          c # 0 /\ Goto(p, "revoke.update", [ctx[p] EXCEPT !.certificate = c])
    BY <1>4 DEF RevokeFind
  <2> DEFINE d == [ctx[p] EXCEPT !.certificate = c]
  <2>2. pc[p] = "revoke.find" /\ Reads
    BY <1>4 DEF RevokeFind
  <2>3. c \in Nat /\ c \in DOMAIN certificates /\ certificates[c].user = ctx[p].user
    BY <1>0, <2>1, UnrevokedFacts
  <2>4. d \in Context /\ "revoke.update" \in Label
    BY <1>0, <2>3 DEF Context, Label
  <2>5. Consistent("revoke.update", d)
    BY <1>0, <2>2, <2>3 DEF Consistent, Context
  <2> QED
    BY <2>1, <2>2, <2>4, <2>5, ReadAndGo
<1>5. CASE RevokeUpdate(p)
  <2> DEFINE c == ctx[p].certificate
             row == RevokedByUser(certificates[c])
  <2>1. /\ Answer(p) /\ WritesCertificates
        /\ certificates' = [certificates EXCEPT ![c] = row]
    BY <1>5 DEF RevokeUpdate
  <2>2. c \in DOMAIN certificates
    BY <1>0, <1>5 DEF RevokeUpdate, Consistent
  <2>3. certificates[c] \in Certificate
    BY <1>0, <2>2, RowTypes
  <2>4. /\ row \in Certificate
        /\ row.user = certificates[c].user
        /\ row.keyPair = certificates[c].keyPair
        /\ row.signer = certificates[c].signer
    BY <2>3 DEF Certificate, RevokedByUser, Reason
  <2> HIDE DEF row
  <2>5. /\ certificates' \in Seq(Certificate)
        /\ DOMAIN certificates' = DOMAIN certificates
        /\ \A d \in DOMAIN certificates :
              /\ certificates'[d].user = certificates[d].user
              /\ certificates'[d].keyPair = certificates[d].keyPair
              /\ certificates'[d].signer = certificates[d].signer
    BY <1>0, <2>1, <2>2, <2>4 DEF TablesOK
  <2> QED
    BY <2>1, <2>5, CertificatesUpdated, AnswerStep, CallStep
<1> QED
  BY <1>1, <1>2, <1>3, <1>4, <1>5 DEF RejectRead, RejectUpdate, RevokeFind,
     RevokeUpdate

\* A step of CertificatesService keeps the invariant.
LEMMA CertificatesSteps ==
    ASSUME Consistency, NEW p \in Call, CertificatesStep(p)
    PROVE  Consistency'
  BY IssueSteps, ReviewSteps, ApproveCommitStep, DecisionSteps DEF CertificatesStep

-----------------------------------------------------------------------------
(* KeysService *)

\* generate() keeps the invariant.
LEMMA GenerateSteps ==
    ASSUME Consistency, NEW p \in Call,
           GenerateFindActive(p) \/ GenerateCreate(p)
    PROVE  Consistency'
<1> USE DEF Replacing, HasKeyPair, Reviewing, Reviewed, HasCertificate, Signs,
            Verifies
<1>0. /\ TablesOK /\ failures \in Nat
      /\ ctx[p] \in Context /\ Consistent(pc[p], ctx[p])
  BY CallFacts
<1>1. CASE Answer(p) /\ Reads
  BY <1>1, ReadAndAnswer
<1>2. CASE GenerateFindActive(p) /\ ~Answer(p)
  <2>1. /\ pc[p] = "generate.findActive" /\ Reads
        /\ Goto(p, "generate.create", ctx[p])
    BY <1>2 DEF GenerateFindActive
  <2>2. "generate.create" \in Label /\ Consistent("generate.create", ctx[p])
    BY <1>0, <2>1 DEF Label, Consistent
  <2> QED
    BY <1>0, <2>1, <2>2, ReadAndGo
<1>3. CASE GenerateCreate(p)
  <2> DEFINE row == [user |-> ctx[p].user, algorithm |-> ctx[p].algorithm,
                     isActive |-> TRUE]
             k == Len(keyPairs) + 1
             c == [ctx[p] EXCEPT !.keyPair = k]
  <2>1. /\ pc[p] = "generate.create" /\ WritesKeyPairs
        /\ keyPairs' = Append(keyPairs, row)
        /\ Answer(p) \/ Goto(p, "issue.create", c)
    BY <1>3 DEF GenerateCreate
  <2>2. row \in KeyPair
    BY <1>0, <2>1 DEF Consistent, KeyPair
  <2>3. /\ keyPairs' \in Seq(KeyPair)
        /\ k \in Nat /\ k \in DOMAIN keyPairs' /\ keyPairs'[k] = row
        /\ \A j \in DOMAIN keyPairs :
              j \in DOMAIN keyPairs' /\ keyPairs'[j] = keyPairs[j]
    BY <1>0, <2>1, <2>2 DEF TablesOK
  <2>4. Grows
    BY <2>1, <2>3 DEF Grows, WritesKeyPairs
  <2>5. TablesOK' /\ failures' \in Nat
    BY <1>0, <2>1, <2>3 DEF TablesOK, WritesKeyPairs
  <2>6. Ownership' /\ DocumentsSigned' /\ AcceptedWasSigned'
    BY <2>1, <2>4, ProperRows DEF WritesKeyPairs
  <2>7. CASE Answer(p)
    BY <2>4, <2>5, <2>6, <2>7, AnswerStep, CallStep
  <2>8. CASE Goto(p, "issue.create", c)
    <3>1. c \in Context /\ "issue.create" \in Label
      BY <1>0, <2>3 DEF Context, Label
    <3>2. Moves(p) /\ pc'[p] = "issue.create" /\ ctx'[p] = c
      BY <2>8, <3>1, CallFacts, GotoMoves
    <3>3. /\ c.user = ctx[p].user /\ c.user \in User
          /\ c.keyPair = k /\ c.algorithm \in Algorithm
      BY <1>0, <2>1 DEF Consistent, Context
    <3>4. Owns(ctx[p].user, ctx[p].keyPair)'
      BY <2>3, <3>2, <3>3 DEF Owns
    <3>5. Consistent(pc[p], ctx[p])'
      BY <3>2, <3>3, <3>4 DEF Consistent, Owns
    <3> QED
      BY <2>4, <2>5, <2>6, <3>2, <3>5, CallStep
  <2> QED
    BY <2>1, <2>7, <2>8
<1> QED
  BY <1>1, <1>2, <1>3 DEF GenerateFindActive, GenerateCreate

\* The three updates of rotate() keep the invariant.
LEMMA RotateSteps ==
    ASSUME Consistency, NEW p \in Call,
           RotateDeactivate(p) \/ RotateRevoke(p) \/ RotateCancel(p)
    PROVE  Consistency'
<1> USE DEF Replacing, HasKeyPair, Reviewing, Reviewed, HasCertificate, Signs,
            Verifies
<1>0. /\ TablesOK /\ failures \in Nat
      /\ ctx[p] \in Context /\ Consistent(pc[p], ctx[p])
  BY CallFacts
<1>1. CASE RotateDeactivate(p)
  <2> DEFINE u == ctx[p].user
  <2>1. /\ keyPairs' = UpdateMany(keyPairs, ActiveKeyPairs(u), Deactivated)
        /\ pc[p] = "rotate.deactivate" /\ Goto(p, "rotate.revoke", ctx[p])
        /\ WritesKeyPairs
    BY <1>1 DEF RotateDeactivate
  <2>2. /\ keyPairs' \in Seq(KeyPair) /\ DOMAIN keyPairs' = DOMAIN keyPairs
        /\ \A k \in DOMAIN keyPairs : keyPairs'[k].user = keyPairs[k].user
    <3>1. \A k \in DOMAIN keyPairs :
             /\ keyPairs[k] \in KeyPair /\ Deactivated(keyPairs[k]) \in KeyPair
             /\ Deactivated(keyPairs[k]).user = keyPairs[k].user
      BY <1>0, RowTypes DEF Deactivated, KeyPair
    <3>2. DOMAIN keyPairs = 1..Len(keyPairs) /\ Len(keyPairs) \in Nat
      BY <1>0 DEF TablesOK
    <3> QED
      BY <2>1, <3>1, <3>2, SequencesAreFunctions DEF UpdateMany
  <2>3. Grows
    BY <2>1, <2>2 DEF Grows, WritesKeyPairs
  <2>4. TablesOK' /\ failures' \in Nat
    BY <1>0, <2>1, <2>2 DEF TablesOK, WritesKeyPairs
  <2>5. Ownership' /\ DocumentsSigned' /\ AcceptedWasSigned'
    BY <2>1, <2>3, ProperRows DEF WritesKeyPairs
  <2>6. "rotate.revoke" \in Label /\ Consistent("rotate.revoke", ctx[p])
    BY <1>0, <2>1 DEF Label, Consistent
  <2>7. Moves(p) /\ Consistent(pc[p], ctx[p])'
    BY <1>0, <2>1, <2>3, <2>6, WriteAndGo
  <2> QED
    BY <2>3, <2>4, <2>5, <2>7, CallStep
<1>2. CASE RotateRevoke(p)
  <2>1. /\ certificates' = UpdateMany(certificates, Unrevoked(ctx[p].user), RevokedRow)
        /\ pc[p] = "rotate.revoke" /\ Goto(p, "rotate.cancel", ctx[p])
        /\ WritesCertificates
    BY <1>2 DEF RotateRevoke
  <2>2. /\ certificates' \in Seq(Certificate)
        /\ DOMAIN certificates' = DOMAIN certificates
        /\ \A c \in DOMAIN certificates :
              /\ certificates'[c].user = certificates[c].user
              /\ certificates'[c].keyPair = certificates[c].keyPair
              /\ certificates'[c].signer = certificates[c].signer
    <3>1. \A c \in DOMAIN certificates :
             /\ certificates[c] \in Certificate
             /\ RevokedRow(certificates[c]) \in Certificate
             /\ RevokedRow(certificates[c]).user = certificates[c].user
             /\ RevokedRow(certificates[c]).keyPair = certificates[c].keyPair
             /\ RevokedRow(certificates[c]).signer = certificates[c].signer
      BY <1>0, RowTypes DEF RevokedRow, Certificate, Reason
    <3>2. /\ DOMAIN certificates = 1..Len(certificates)
          /\ Len(certificates) \in Nat
      BY <1>0 DEF TablesOK
    <3> QED
      BY <2>1, <3>1, <3>2, SequencesAreFunctions DEF UpdateMany
  <2>3. /\ Grows /\ TablesOK' /\ failures' \in Nat
        /\ Ownership' /\ DocumentsSigned' /\ AcceptedWasSigned'
    BY <2>1, <2>2, CertificatesUpdated
  <2>4. "rotate.cancel" \in Label /\ Consistent("rotate.cancel", ctx[p])
    BY <1>0, <2>1 DEF Label, Consistent
  <2>5. Moves(p) /\ Consistent(pc[p], ctx[p])'
    BY <1>0, <2>1, <2>3, <2>4, WriteAndGo
  <2> QED
    BY <2>3, <2>5, CallStep
<1>3. CASE RotateCancel(p)
  <2>1. /\ requests' = UpdateMany(requests, Pending(ctx[p].user), CancelledRow)
        /\ pc[p] = "rotate.cancel" /\ Goto(p, "generate.findActive", ctx[p])
        /\ WritesRequests
    BY <1>3 DEF RotateCancel
  <2>2. /\ requests' \in Seq(Request) /\ DOMAIN requests' = DOMAIN requests
        /\ \A r \in DOMAIN requests : /\ requests'[r].user = requests[r].user
                                      /\ requests'[r].keyPair = requests[r].keyPair
    <3>1. \A r \in DOMAIN requests :
             /\ requests[r] \in Request /\ CancelledRow(requests[r]) \in Request
             /\ CancelledRow(requests[r]).user = requests[r].user
             /\ CancelledRow(requests[r]).keyPair = requests[r].keyPair
      BY <1>0, RowTypes DEF CancelledRow, Request, Status
    <3>2. DOMAIN requests = 1..Len(requests) /\ Len(requests) \in Nat
      BY <1>0 DEF TablesOK
    <3> QED
      BY <2>1, <3>1, <3>2, SequencesAreFunctions DEF UpdateMany
  <2>3. /\ Grows /\ TablesOK' /\ failures' \in Nat
        /\ Ownership' /\ DocumentsSigned' /\ AcceptedWasSigned'
    BY <2>1, <2>2, RequestsUpdated
  <2>4. /\ "generate.findActive" \in Label
        /\ Consistent("generate.findActive", ctx[p])
    BY <1>0, <2>1 DEF Label, Consistent
  <2>5. Moves(p) /\ Consistent(pc[p], ctx[p])'
    BY <1>0, <2>1, <2>3, <2>4, WriteAndGo
  <2> QED
    BY <2>3, <2>5, CallStep
<1> QED
  BY <1>1, <1>2, <1>3

\* A step of KeysService keeps the invariant.
LEMMA KeysSteps ==
    ASSUME Consistency, NEW p \in Call, KeysStep(p)
    PROVE  Consistency'
  BY GenerateSteps, RotateSteps DEF KeysStep

-----------------------------------------------------------------------------
(* SigningService *)

\* sign(), but for its insert, keeps the invariant.
LEMMA SignSteps ==
    ASSUME Consistency, NEW p \in Call,
           SignPolicy(p) \/ SignCertificate(p) \/ SignKey(p) \/ SignDecrypt(p)
    PROVE  Consistency'
<1> USE DEF Replacing, HasKeyPair, Reviewing, Reviewed, HasCertificate, Signs,
            Verifies
<1>0. /\ TablesOK /\ failures \in Nat
      /\ ctx[p] \in Context /\ Consistent(pc[p], ctx[p])
  BY CallFacts
<1>1. CASE Answer(p) /\ Reads
  BY <1>1, ReadAndAnswer
<1>2. CASE SignPolicy(p) /\ ~Answer(p)
  <2>1. pc[p] = "sign.policy" /\ Reads /\ Goto(p, "sign.certificate", ctx[p])
    BY <1>2 DEF SignPolicy
  <2>2. "sign.certificate" \in Label /\ Consistent("sign.certificate", ctx[p])
    BY <1>0, <2>1 DEF Label, Consistent
  <2> QED
    BY <1>0, <2>1, <2>2, ReadAndGo
<1>3. CASE SignCertificate(p) /\ ~Answer(p)
  <2>1. PICK c \in FindFirst(Unrevoked(ctx[p].user)) :
          c # 0 /\ Goto(p, "sign.key", [ctx[p] EXCEPT !.certificate = c])
    BY <1>3 DEF SignCertificate
  <2> DEFINE d == [ctx[p] EXCEPT !.certificate = c]
  <2>2. pc[p] = "sign.certificate" /\ Reads
    BY <1>3 DEF SignCertificate
  <2>3. c \in Nat /\ c \in DOMAIN certificates /\ certificates[c].user = ctx[p].user
    BY <1>0, <2>1, UnrevokedFacts
  <2>4. d \in Context /\ "sign.key" \in Label
    BY <1>0, <2>3 DEF Context, Label
  <2>5. Consistent("sign.key", d)
    BY <1>0, <2>2, <2>3 DEF Consistent, Context
  <2> QED
    BY <2>1, <2>2, <2>4, <2>5, ReadAndGo
<1>4. CASE SignKey(p) /\ ~Answer(p)
  <2>1. PICK k \in FindFirst(ActiveKeyPairs(ctx[p].user)) :
          /\ k # 0
          /\ Goto(p, "sign.decrypt",
                  [ctx[p] EXCEPT !.algorithm = keyPairs[k].algorithm])
    BY <1>4 DEF SignKey
  <2> DEFINE c == [ctx[p] EXCEPT !.algorithm = keyPairs[k].algorithm]
  <2>2. pc[p] = "sign.key" /\ Reads
    BY <1>4 DEF SignKey
  <2>3. keyPairs[k].algorithm \in Algorithm
    BY <1>0, <2>1, ActiveKeyPairFacts
  <2>4. c \in Context /\ "sign.decrypt" \in Label
    BY <1>0, <2>3 DEF Context, Label
  <2>5. Consistent("sign.decrypt", c)
    BY <1>0, <2>2 DEF Consistent, Context
  <2> QED
    BY <2>1, <2>2, <2>4, <2>5, ReadAndGo
<1>5. CASE SignDecrypt(p) /\ ~Answer(p)
  <2>1. PICK k \in FindFirst(ActiveKeyPairs(ctx[p].user)) :
          /\ k # 0
          /\ Goto(p, "sign.create",
                  [ctx[p] EXCEPT !.signature = [keyPair |-> k,
                                                document |-> ctx[p].document]])
    BY <1>5 DEF SignDecrypt, DecryptActivePrivateKey
  <2> DEFINE s == [keyPair |-> k, document |-> ctx[p].document]
             c == [ctx[p] EXCEPT !.signature = s]
  <2>2. pc[p] = "sign.decrypt" /\ Reads
    BY <1>5 DEF SignDecrypt
  <2>3. k \in Nat /\ Owns(ctx[p].user, k)
    BY <1>0, <2>1, ActiveKeyPairFacts
  <2>4. s \in Signature /\ s.keyPair = k /\ s.document = ctx[p].document
    BY <1>0, <2>2, <2>3 DEF Consistent, Signature
  <2>5. /\ c \in Context /\ "sign.create" \in Label
        /\ c.signature = s /\ c.user = ctx[p].user /\ c.document = ctx[p].document
        /\ c.certificate = ctx[p].certificate
    <3> HIDE DEF s
    <3> QED
      BY <1>0, <2>4 DEF Context, Label
  <2>6. Consistent("sign.create", c)
    <3> HIDE DEF s, c
    <3> QED
      BY <1>0, <2>2, <2>3, <2>4, <2>5 DEF Consistent
  <2> QED
    BY <2>1, <2>2, <2>5, <2>6, ReadAndGo
<1> QED
  BY <1>1, <1>2, <1>3, <1>4, <1>5 DEF SignPolicy, SignCertificate, SignKey,
     SignDecrypt

\* The insert of a signed document keeps the invariant.
LEMMA SignCreateStep ==
    ASSUME Consistency, NEW p \in Call, SignCreate(p)
    PROVE  Consistency'
<1>0. /\ TablesOK /\ failures \in Nat
      /\ ctx[p] \in Context /\ Consistent(pc[p], ctx[p])
  BY CallFacts
<1> DEFINE row == [user |-> ctx[p].user, certificate |-> ctx[p].certificate,
                   document |-> ctx[p].document, signature |-> ctx[p].signature]
<1>1. /\ pc[p] = "sign.create" /\ documents' = documents \cup {row}
      /\ Answer(p) /\ UNCHANGED verifications /\ WritesEvidence
  BY DEF SignCreate
<1>2. /\ row.user \in User /\ row.certificate \in DOMAIN certificates
      /\ certificates[row.certificate].user = row.user
      /\ row.document \in Document /\ row.signature \in Signature
      /\ row.signature.document = row.document
      /\ Owns(row.user, row.signature.keyPair)
  BY <1>0, <1>1 DEF Consistent, HasCertificate, Signs
<1>3. row \in SignedRecord
  BY <1>0, <1>2, RowTypes DEF SignedRecord
<1> HIDE DEF row
<1>4. Grows
  BY <1>1 DEF Grows, WritesEvidence
<1>5. TablesOK' /\ failures' \in Nat
  BY <1>0, <1>1, <1>3 DEF TablesOK, WritesEvidence
<1>6. Ownership'
  BY <1>1, <1>2 DEF Consistency, Ownership, Owns, Vouches, WritesEvidence
<1>7. DocumentsSigned' /\ AcceptedWasSigned'
  BY <1>1, <1>2 DEF Consistency, DocumentsSigned, AcceptedWasSigned
<1> QED
  BY <1>1, <1>4, <1>5, <1>6, <1>7, AnswerStep, CallStep

\* verify() keeps the invariant: it accepts only what the certificate's own
\* key pair signed.
LEMMA VerifySteps ==
    ASSUME Consistency, NEW p \in Call, VerifyRead(p) \/ VerifyLog(p)
    PROVE  Consistency'
<1>0. /\ TablesOK /\ failures \in Nat
      /\ ctx[p] \in Context /\ Consistent(pc[p], ctx[p])
  BY CallFacts
<1>1. CASE VerifyRead(p)
  <2> DEFINE verdict(c) == Verdict(c, ctx[p].document, ctx[p].signature)
  <2>1. PICK c \in FindLatest(Unrevoked(ctx[p].user)) :
          Goto(p, "verify.log", [ctx[p] EXCEPT !.certificate = c,
                                               !.outcome = verdict(c)])
    BY <1>1 DEF VerifyRead
  <2> DEFINE d == [ctx[p] EXCEPT !.certificate = c, !.outcome = verdict(c)]
  <2>2. pc[p] = "verify.read" /\ Reads
    BY <1>1 DEF VerifyRead
  <2>3. /\ c \in Nat
        /\ c # 0 => c \in DOMAIN certificates /\ certificates[c].user = ctx[p].user
    BY <1>0, <2>1, RowTypes DEF FindLatest, FindFirst, Unrevoked, Certificate
  <2>4. verdict(c) \in Outcome
    BY DEF Verdict, Outcome
  <2>5. verdict(c) = "valid" => c # 0 /\ Matches(c, ctx[p].document, ctx[p].signature)
    BY DEF Verdict
  <2> HIDE DEF verdict
  <2>6. d \in Context /\ "verify.log" \in Label
    BY <1>0, <2>3, <2>4 DEF Context, Label
  <2>7. /\ d.user = ctx[p].user /\ d.document = ctx[p].document
        /\ d.signature = ctx[p].signature
        /\ d.certificate = c /\ d.outcome = verdict(c)
    BY <1>0 DEF Context
  <2>8. Consistent("verify.log", d)
    <3> HIDE DEF d
    <3> QED
      BY <1>0, <2>2, <2>3, <2>4, <2>5, <2>7 DEF Consistent, Matches, Vouches,
         Verifies, Signs, Replacing, HasKeyPair, Reviewing, Reviewed, HasCertificate
  <2> QED
    BY <2>1, <2>2, <2>6, <2>8, ReadAndGo
<1>2. CASE VerifyLog(p)
  <2> DEFINE row == [user |-> ctx[p].user, certificate |-> ctx[p].certificate,
                     document |-> ctx[p].document,
                     signature |-> ctx[p].signature, outcome |-> ctx[p].outcome]
  <2>1. /\ pc[p] = "verify.log" /\ verifications' = verifications \cup {row}
        /\ Answer(p) /\ UNCHANGED documents /\ WritesEvidence
    BY <1>2 DEF VerifyLog
  <2>2. PICK x \in documents : x.signature = ctx[p].signature
    BY <1>0, <2>1 DEF Consistent, Verifies
  <2>3. x \in SignedRecord
    BY <1>0, <2>2 DEF TablesOK
  <2>4. /\ x.user \in User /\ x.document \in Document /\ x.signature \in Signature
        /\ x.signature.document = x.document
    BY <2>3 DEF SignedRecord, Consistency, DocumentsSigned
  <2>5. /\ row.user \in User /\ row.certificate \in Nat
        /\ row.document \in Document /\ row.signature = x.signature
        /\ row.outcome \in Outcome
        /\ row.outcome = "valid" =>
              /\ row.signature.document = row.document
              /\ Vouches(row.certificate, row.user, row.signature)
    BY <1>0, <2>1, <2>2 DEF Consistent, Context, Verifies
  <2>6. row \in Verification
    BY <2>4, <2>5 DEF Verification
  <2> HIDE DEF row
  <2>7. Grows
    BY <2>1 DEF Grows, WritesEvidence
  <2>8. TablesOK' /\ failures' \in Nat
    BY <1>0, <2>1, <2>6 DEF TablesOK, WritesEvidence
  <2>9. Ownership' /\ DocumentsSigned'
    BY <2>1, <2>5 DEF Consistency, Ownership, DocumentsSigned, Owns, Vouches,
       WritesEvidence
  <2>10. row.outcome = "valid" => x.user = row.user /\ x.document = row.document
    BY <2>2, <2>4, <2>5 DEF Consistency, Ownership, Owns, Vouches
  <2>11. AcceptedWasSigned'
    BY <2>1, <2>2, <2>5, <2>10 DEF Consistency, AcceptedWasSigned
  <2> QED
    BY <2>1, <2>7, <2>8, <2>9, <2>11, AnswerStep, CallStep
<1> QED
  BY <1>1, <1>2

\* A step of SigningService keeps the invariant.
LEMMA SigningSteps ==
    ASSUME Consistency, NEW p \in Call, SigningStep(p)
    PROVE  Consistency'
  BY SignSteps, SignCreateStep, VerifySteps DEF SigningStep

-----------------------------------------------------------------------------
(* The whole service *)

\* A call that enters its endpoint keeps the invariant.
LEMMA Starts ==
    ASSUME Consistency, NEW p \in Call, NEW u \in User, Start(p, u)
    PROVE  Consistency'
<1> USE DEF Replacing, HasKeyPair, Reviewing, Reviewed, HasCertificate, Signs,
            Verifies
<1>0. TablesOK
  BY CallFacts
<1>1. CASE \E a \in Algorithms : StartGenerate(p, u, a) \/ StartRotate(p, u, a)
  <2>1. PICK a \in Algorithms : StartGenerate(p, u, a) \/ StartRotate(p, u, a)
    BY <1>1
  <2>2. PICK l \in {"generate.findActive", "rotate.deactivate"},
             o \in {"generate", "rotate"} :
          Goto(p, l, [NoContext EXCEPT !.op = o, !.user = u, !.algorithm = a])
    BY <2>1 DEF StartGenerate, StartRotate, Begin
  <2> DEFINE c == [NoContext EXCEPT !.op = o, !.user = u, !.algorithm = a]
  <2>3. Reads
    BY <2>1 DEF StartGenerate, StartRotate
  <2>4. a \in Algorithm
    BY AlgorithmsAssumption
  <2>5. c \in Context /\ l \in Label /\ c.user = u /\ c.algorithm = a
    BY <2>4, NoContextType DEF Context, Label, Op
  <2>6. Consistent(l, c)
    <3> HIDE DEF c
    <3> QED
      BY <2>2, <2>4, <2>5 DEF Consistent
  <2> QED
    BY <2>2, <2>3, <2>5, <2>6, ReadAndGo
<1>2. CASE \E y \in Validity : StartIssue(p, u, y)
  <2>1. PICK y \in Validity : StartIssue(p, u, y)
    BY <1>2
  <2> DEFINE c == [NoContext EXCEPT !.op = "issue", !.user = u, !.years = y]
  <2>2. Goto(p, "issue.policy", c) /\ Reads
    BY <2>1 DEF StartIssue, Begin
  <2>3. y \in Nat
    BY ValidityAssumption
  <2>4. c \in Context /\ "issue.policy" \in Label /\ c.user = u
    BY <2>3, NoContextType DEF Context, Label, Op
  <2>5. Consistent("issue.policy", c)
    <3> HIDE DEF c
    <3> QED
      BY <2>4 DEF Consistent
  <2> QED
    BY <2>2, <2>4, <2>5, ReadAndGo
<1>3. CASE \E r \in DOMAIN requests :
              requests[r].user = u /\ (StartApprove(p, r) \/ StartReject(p, r))
  <2>1. PICK r \in DOMAIN requests :
              requests[r].user = u /\ (StartApprove(p, r) \/ StartReject(p, r))
    BY <1>3
  <2>2. PICK l \in {"approve.read", "reject.read"}, o \in {"approve", "reject"} :
          Goto(p, l, [NoContext EXCEPT !.op = o, !.request = r, !.user = u])
    BY <2>1 DEF StartApprove, StartReject, Begin
  <2> DEFINE c == [NoContext EXCEPT !.op = o, !.request = r, !.user = u]
  <2>3. Reads
    BY <2>1 DEF StartApprove, StartReject
  <2>4. r \in Nat
    BY <1>0, RowTypes
  <2>5. c \in Context /\ l \in Label /\ c.user = u /\ c.request = r
    BY <2>4, NoContextType DEF Context, Label, Op
  <2>6. Consistent(l, c)
    <3> HIDE DEF c
    <3> QED
      BY <2>1, <2>2, <2>5 DEF Consistent
  <2> QED
    BY <2>2, <2>3, <2>5, <2>6, ReadAndGo
<1>4. CASE StartRevoke(p, u)
  <2> DEFINE c == [NoContext EXCEPT !.op = "revoke", !.user = u]
  <2>1. Goto(p, "revoke.find", c) /\ Reads
    BY <1>4 DEF StartRevoke, Begin
  <2>2. c \in Context /\ "revoke.find" \in Label /\ c.user = u
    BY NoContextType DEF Context, Label, Op
  <2>3. Consistent("revoke.find", c)
    <3> HIDE DEF c
    <3> QED
      BY <2>2 DEF Consistent
  <2> QED
    BY <2>1, <2>2, <2>3, ReadAndGo
<1>5. CASE \E d \in Document : StartSign(p, u, d)
  <2>1. PICK d \in Document : StartSign(p, u, d)
    BY <1>5
  <2> DEFINE c == [NoContext EXCEPT !.op = "sign", !.user = u, !.document = d]
  <2>2. Goto(p, "sign.policy", c) /\ Reads
    BY <2>1 DEF StartSign, Begin
  <2>3. c \in Context /\ "sign.policy" \in Label /\ c.user = u /\ c.document = d
    BY NoContextType DEF Context, Label, Op
  <2>4. Consistent("sign.policy", c)
    <3> HIDE DEF c
    <3> QED
      BY <2>3 DEF Consistent
  <2> QED
    BY <2>2, <2>3, <2>4, ReadAndGo
<1>6. CASE \E d \in Document, x \in documents : StartVerify(p, u, d, x.signature)
  <2>1. PICK d \in Document, x \in documents : StartVerify(p, u, d, x.signature)
    BY <1>6
  <2> DEFINE c == [NoContext EXCEPT !.op = "verify", !.user = u, !.document = d,
                                    !.signature = x.signature]
  <2>2. Goto(p, "verify.read", c) /\ Reads
    BY <2>1 DEF StartVerify, Begin
  <2>3. x.signature \in Signature
    BY <1>0 DEF TablesOK, SignedRecord
  <2>4. /\ c \in Context /\ "verify.read" \in Label
        /\ c.user = u /\ c.document = d /\ c.signature = x.signature
    BY <2>3, NoContextType DEF Context, Label, Op
  <2>5. Consistent("verify.read", c)
    <3> HIDE DEF c
    <3> QED
      BY <2>4 DEF Consistent
  <2> QED
    BY <2>2, <2>4, <2>5, ReadAndGo
<1> QED
  BY <1>1, <1>2, <1>3, <1>4, <1>5, <1>6 DEF Start, KeysStart,
     CertificatesStart, SigningStart

\* A call that dies is answered, as far as the rest of the service can tell.
LEMMA Failures ==
    ASSUME Consistency, NEW p \in Call, Fail(p)
    PROVE  Consistency'
<1>1. failures' \in Nat
  BY CallFacts DEF Fail
<1>2. Grows /\ TablesOK' /\ Ownership' /\ DocumentsSigned' /\ AcceptedWasSigned'
  BY DEF Consistency, Fail, tables, Grows, TypeOK, TablesOK, Ownership, Owns,
         Vouches, DocumentsSigned, AcceptedWasSigned
<1> QED
  BY <1>1, <1>2, AnswerStep, CallStep DEF Fail

\* So far as the invariant goes, administrators and the clock do nothing.
LEMMA EnvironmentSteps ==
    ASSUME Consistency, Environment
    PROVE  Consistency'
<1>1. UNCHANGED <<keyPairs, certificates, requests, documents, verifications,
                  pc, ctx, failures>>
  BY DEF Environment, Ban, Unban, Tick, tables
<1>2. policy' \in [User -> {"ALLOWED", "BANNED"}] /\ now' \in Nat
  BY DEF Environment, Ban, Unban, Tick, tables, Consistency, TypeOK, TablesOK
<1>3. CallsConsistent'
  BY <1>1 DEF Consistency, CallsConsistent, Consistent, Owns, Vouches
<1> QED
  BY <1>1, <1>2, <1>3 DEF Consistency, TypeOK, TablesOK, CallsOK, Ownership, Owns,
     Vouches, DocumentsSigned, AcceptedWasSigned

\* The empty database and no calls satisfy the invariant.
LEMMA InitConsistent == Init => Consistency
<1> SUFFICES ASSUME Init PROVE Consistency
  OBVIOUS
<1>1. TablesOK
  BY DEF Init, EmptyTables, TablesOK
<1>2. CallsOK
  BY NoContextType DEF Init, NoCalls, CallsOK, Label
<1>3. Ownership /\ DocumentsSigned /\ AcceptedWasSigned
  BY DEF Init, EmptyTables, Ownership, DocumentsSigned, AcceptedWasSigned
<1>4. CallsConsistent
  BY DEF Init, NoCalls, CallsConsistent, Consistent, Replacing, HasKeyPair,
         Reviewing, Reviewed, HasCertificate, Signs, Verifies
<1> QED
  BY <1>1, <1>2, <1>3, <1>4 DEF Consistency, TypeOK

\* Every step keeps the invariant, and so does a step that changes nothing.
LEMMA NextConsistent == Consistency /\ [Next]_vars => Consistency'
<1> SUFFICES ASSUME Consistency, [Next]_vars PROVE Consistency'
  OBVIOUS
<1>1. CASE Next
  BY <1>1, Starts, KeysSteps, CertificatesSteps, SigningSteps, Failures,
     EnvironmentSteps DEF Next, Step
<1>2. CASE UNCHANGED vars
  <2>1. CallsConsistent'
    BY <1>2 DEF vars, tables, Consistency, CallsConsistent, Consistent, Owns, Vouches
  <2> QED
    BY <1>2, <2>1 DEF vars, tables, Consistency, TypeOK, TablesOK, CallsOK,
       Ownership, Owns, Vouches, DocumentsSigned, AcceptedWasSigned
<1> QED
  BY <1>1, <1>2

\* However calls overlap and die, the inductive invariant holds throughout.
THEOREM ServiceConsistency == Spec => []Consistency
  BY InitConsistent, NextConsistent, PTL DEF Spec

\* Rows and local variables keep their types: no call writes a row with a
\* column that it never read (a null id, algorithm, user or signature).
THEOREM TypeCorrectness == Spec => []TypeOK
<1>1. Consistency => TypeOK
  BY DEF Consistency
<1> QED
  BY <1>1, ServiceConsistency, PTL

\* Nothing a user holds ever refers to what is another user's.
THEOREM OwnershipHolds == Spec => []Ownership
<1>1. Consistency => Ownership
  BY DEF Consistency
<1> QED
  BY <1>1, ServiceConsistency, PTL

\* What verification accepted as a user's signature, that user made and the
\* service recorded.
THEOREM NonRepudiation == Spec => []AcceptedWasSigned
<1>1. Consistency => AcceptedWasSigned
  BY DEF Consistency
<1> QED
  BY <1>1, ServiceConsistency, PTL
=============================================================================
