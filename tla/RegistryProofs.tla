--------------------------- MODULE RegistryProofs ---------------------------
(***************************************************************************)
(* Proof that the service implements the registry, for any users,          *)
(* documents, calls and bounds: every step of the service, with the        *)
(* invariant of ServiceProofs before it, is a step of Registry or changes  *)
(* nothing that Registry sees.                                             *)
(***************************************************************************)
EXTENDS ServiceProofs

\* Appending a row appends what is seen of it.
LEMMA KeysAppended ==
    ASSUME NEW S, NEW t \in Seq(S), NEW row, NEW s, s = Append(t, row)
    PROVE  [k \in DOMAIN s |-> s[k].user]
              = Append([k \in DOMAIN t |-> t[k].user], row.user)
  OBVIOUS

\* A step that changes no row and accepts nothing is not seen.
LEMMA Unseen ==
    ASSUME UNCHANGED <<keyPairs, certificates, requests, documents, verifications>>
    PROVE  UNCHANGED R!registry
  BY DEF R!registry

\* The empty tables are the empty registry.
LEMMA RegistryInit == Init => R!Init
  BY DEF Init, EmptyTables, R!Init

\* generate() registers a key pair.
LEMMA GenerateSeen ==
    ASSUME Consistency, NEW p \in Call, GenerateCreate(p)
    PROVE  R!Next
<1>0. PICK u : u = ctx[p].user
  OBVIOUS
<1> DEFINE row == [user |-> u, algorithm |-> ctx[p].algorithm, isActive |-> TRUE]
<1>1. keyPairs' = Append(keyPairs, row) /\ keyPairs \in Seq(KeyPair) /\ u \in User
  BY <1>0, CallFacts DEF GenerateCreate, TablesOK, Consistent, Replacing
<1>2. UNCHANGED <<certificates, requests, documents, verifications>>
  BY DEF GenerateCreate, WritesKeyPairs
<1>3. [k \in DOMAIN keyPairs' |-> keyPairs'[k].user]
         = Append([k \in DOMAIN keyPairs |-> keyPairs[k].user], u)
  BY <1>1, KeysAppended
<1>4. {k \in DOMAIN keyPairs' : keyPairs'[k].isActive}
         = {k \in DOMAIN keyPairs : keyPairs[k].isActive}
              \cup {Len([k \in DOMAIN keyPairs |-> keyPairs[k].user]) + 1}
  BY <1>1
<1>5. R!RegisterKeyPair(u)
  BY <1>2, <1>3, <1>4 DEF R!RegisterKeyPair
<1> QED
  BY <1>1, <1>5 DEF R!Next

\* The first statement of rotate() retires the user's key pairs.
LEMMA DeactivateSeen ==
    ASSUME Consistency, NEW p \in Call, RotateDeactivate(p)
    PROVE  R!Next
<1>0. PICK u : u = ctx[p].user
  OBVIOUS
<1>1. /\ keyPairs' = [i \in 1..Len(keyPairs) |->
                         IF i \in ActiveKeyPairs(u) THEN Deactivated(keyPairs[i])
                                                    ELSE keyPairs[i]]
      /\ keyPairs \in Seq(KeyPair) /\ u \in User
  BY <1>0, CallFacts DEF RotateDeactivate, UpdateMany, TablesOK, Consistent
<1>2. UNCHANGED <<certificates, requests, documents, verifications>>
  BY DEF RotateDeactivate, WritesKeyPairs
<1>3. DOMAIN keyPairs' = DOMAIN keyPairs /\ DOMAIN keyPairs = 1..Len(keyPairs)
  BY <1>1
<1>4. \A k \in DOMAIN keyPairs :
         /\ keyPairs'[k].user = keyPairs[k].user
         /\ keyPairs'[k].isActive <=> (keyPairs[k].isActive /\ keyPairs[k].user # u)
  <2>1. \A k \in DOMAIN keyPairs : keyPairs[k] \in KeyPair
    BY CallFacts, RowTypes
  <2>2. \A k \in DOMAIN keyPairs :
           /\ Deactivated(keyPairs[k]).user = keyPairs[k].user
           /\ ~Deactivated(keyPairs[k]).isActive
    BY <2>1 DEF Deactivated, KeyPair
  <2> QED
    BY <1>1, <1>3, <2>1, <2>2 DEF ActiveKeyPairs
<1>5. [k \in DOMAIN keyPairs' |-> keyPairs'[k].user]
         = [k \in DOMAIN keyPairs |-> keyPairs[k].user]
  BY <1>3, <1>4
<1>6. {k \in DOMAIN keyPairs' : keyPairs'[k].isActive}
         = {k \in DOMAIN keyPairs : keyPairs[k].isActive}
              \ {k \in DOMAIN [k \in DOMAIN keyPairs |-> keyPairs[k].user] :
                    [j \in DOMAIN keyPairs |-> keyPairs[j].user][k] = u}
  BY <1>3, <1>4
<1>7. R!RetireKeyPairs(u)
  BY <1>2, <1>5, <1>6 DEF R!RetireKeyPairs
<1> QED
  BY <1>1, <1>7 DEF R!Next

\* Revocations are revocations, of one certificate or all of a user's.
LEMMA RevocationSeen ==
    ASSUME Consistency, WritesCertificates,
           DOMAIN certificates' = DOMAIN certificates,
           NEW ids,
           \/ \E u \in User : ids = {c \in DOMAIN certificates : certificates[c].user = u}
           \/ \E d \in DOMAIN certificates : ids = {d},
           \A c \in DOMAIN certificates :
              /\ certificates'[c].user = certificates[c].user
              /\ certificates'[c].keyPair = certificates[c].keyPair
              /\ certificates'[c].isRevoked <=> (certificates[c].isRevoked \/ c \in ids)
    PROVE  R!Next
<1> DEFINE seen == [c \in DOMAIN certificates |->
                      [user |-> certificates[c].user,
                       keyPair |-> certificates[c].keyPair]]
<1>1. UNCHANGED <<keyPairs, requests, documents, verifications>>
  BY DEF WritesCertificates
<1>2. seen' = seen
  OBVIOUS
<1>3. {c \in DOMAIN certificates' : certificates'[c].isRevoked}
         = {c \in DOMAIN certificates : certificates[c].isRevoked} \cup ids
  OBVIOUS
<1>4. R!Revoke(ids)
  BY <1>1, <1>2, <1>3 DEF R!Revoke
<1>5. CASE \E u \in User : ids = {c \in DOMAIN certificates : certificates[c].user = u}
  <2>1. PICK u \in User : ids = {c \in DOMAIN certificates : certificates[c].user = u}
    BY <1>5
  <2>2. R!Revoke(R!CertificatesOf(u))
    BY <1>1, <1>2, <1>3, <2>1 DEF R!Revoke, R!CertificatesOf
  <2> QED
    BY <2>2 DEF R!Next
<1>6. CASE \E d \in DOMAIN certificates : ids = {d}
  <2>1. PICK d \in DOMAIN seen : ids = {d}
    BY <1>6
  <2> QED
    BY <1>4, <2>1 DEF R!Next
<1> QED
  BY <1>5, <1>6

\* rotate() revokes all the user's certificates, revoke() one.
LEMMA RevokingSeen ==
    ASSUME Consistency, NEW p \in Call, RotateRevoke(p) \/ RevokeUpdate(p)
    PROVE  R!Next
<1>0. TablesOK /\ Consistent(pc[p], ctx[p])
  BY CallFacts
<1>1. \A c \in DOMAIN certificates : certificates[c] \in Certificate
  BY <1>0, RowTypes
<1>2. CASE RotateRevoke(p)
  <2>0. PICK u : u = ctx[p].user
    OBVIOUS
  <2>1. /\ certificates' = [i \in 1..Len(certificates) |->
                              IF i \in Unrevoked(u) THEN RevokedRow(certificates[i])
                                                    ELSE certificates[i]]
        /\ certificates \in Seq(Certificate) /\ u \in User /\ WritesCertificates
    BY <1>0, <1>2, <2>0 DEF RotateRevoke, UpdateMany, TablesOK, Consistent
  <2>2. DOMAIN certificates' = DOMAIN certificates
        /\ DOMAIN certificates = 1..Len(certificates)
    BY <2>1
  <2>3. PICK ids : ids = {c \in DOMAIN certificates : certificates[c].user = u}
    OBVIOUS
  <2>4. \A c \in DOMAIN certificates :
           /\ RevokedRow(certificates[c]).user = certificates[c].user
           /\ RevokedRow(certificates[c]).keyPair = certificates[c].keyPair
           /\ RevokedRow(certificates[c]).isRevoked
    BY <1>1 DEF RevokedRow, Certificate
  <2>5. \A c \in DOMAIN certificates :
           /\ certificates'[c].user = certificates[c].user
           /\ certificates'[c].keyPair = certificates[c].keyPair
           /\ certificates'[c].isRevoked <=> (certificates[c].isRevoked \/ c \in ids)
    BY <1>1, <2>1, <2>2, <2>3, <2>4 DEF Unrevoked
  <2>6. \E v \in User : ids = {c \in DOMAIN certificates : certificates[c].user = v}
    BY <2>1, <2>3
  <2> QED
    BY <2>1, <2>2, <2>5, <2>6, RevocationSeen
<1>3. CASE RevokeUpdate(p)
  <2>0. PICK d : d = ctx[p].certificate
    OBVIOUS
  <2>1. PICK ids : ids = {d}
    OBVIOUS
  <2>2. /\ certificates' = [certificates EXCEPT ![d] = RevokedByUser(@)]
        /\ d \in DOMAIN certificates /\ WritesCertificates
    BY <1>0, <1>3, <2>0 DEF RevokeUpdate, Consistent, HasCertificate
  <2>3. /\ DOMAIN certificates' = DOMAIN certificates
        /\ \A c \in DOMAIN certificates :
              /\ certificates'[c].user = certificates[c].user
              /\ certificates'[c].keyPair = certificates[c].keyPair
              /\ certificates'[c].isRevoked <=> (certificates[c].isRevoked \/ c \in ids)
    <3> DEFINE row == RevokedByUser(certificates[d])
    <3>1. /\ row.user = certificates[d].user
          /\ row.keyPair = certificates[d].keyPair
          /\ row.isRevoked
      BY <1>1, <2>2 DEF Certificate, RevokedByUser
    <3>2. certificates' = [certificates EXCEPT ![d] = row]
      BY <2>2
    <3> HIDE DEF row
    <3> QED
      BY <1>1, <2>1, <2>2, <3>1, <3>2 DEF Certificate
  <2> QED
    BY <2>1, <2>2, <2>3, RevocationSeen
<1> QED
  BY <1>2, <1>3

\* Decisions close requests, one or all of a user's.
LEMMA ClosureSeen ==
    ASSUME Consistency, WritesRequests, DOMAIN requests' = DOMAIN requests,
           NEW ids,
           \/ \E u \in User : ids = {r \in DOMAIN requests : requests[r].user = u}
           \/ \E q \in DOMAIN requests : ids = {q},
           \A r \in DOMAIN requests :
              /\ requests'[r].user = requests[r].user
              /\ requests'[r].keyPair = requests[r].keyPair
              /\ (requests'[r].status = "PENDING")
                    <=> (requests[r].status = "PENDING" /\ r \notin ids)
    PROVE  R!Next
<1> DEFINE seen == [r \in DOMAIN requests |->
                      [user |-> requests[r].user, keyPair |-> requests[r].keyPair]]
<1>1. UNCHANGED <<keyPairs, certificates, documents, verifications>>
  BY DEF WritesRequests
<1>2. seen' = seen
  OBVIOUS
<1>3. {r \in DOMAIN requests' : requests'[r].status = "PENDING"}
         = {r \in DOMAIN requests : requests[r].status = "PENDING"} \ ids
  OBVIOUS
<1>4. R!Close(ids)
  BY <1>1, <1>2, <1>3 DEF R!Close
<1>5. CASE \E u \in User : ids = {r \in DOMAIN requests : requests[r].user = u}
  <2>1. PICK u \in User : ids = {r \in DOMAIN requests : requests[r].user = u}
    BY <1>5
  <2>2. R!Close(R!RequestsOf(u))
    BY <1>1, <1>2, <1>3, <2>1 DEF R!Close, R!RequestsOf
  <2> QED
    BY <2>2 DEF R!Next
<1>6. CASE \E q \in DOMAIN requests : ids = {q}
  <2>1. PICK q \in DOMAIN seen : ids = {q}
    BY <1>6
  <2> QED
    BY <1>4, <2>1 DEF R!Next
<1> QED
  BY <1>5, <1>6

\* rotate() cancels the user's pending requests, rejectRequest() closes one.
LEMMA ClosingSeen ==
    ASSUME Consistency, NEW p \in Call, RotateCancel(p) \/ RejectUpdate(p)
    PROVE  R!Next
<1>0. TablesOK /\ Consistent(pc[p], ctx[p])
  BY CallFacts
<1>1. \A r \in DOMAIN requests : requests[r] \in Request
  BY <1>0, RowTypes
<1>2. CASE RotateCancel(p)
  <2>0. PICK u : u = ctx[p].user
    OBVIOUS
  <2>1. /\ requests' = [i \in 1..Len(requests) |->
                          IF i \in Pending(u) THEN CancelledRow(requests[i])
                                              ELSE requests[i]]
        /\ requests \in Seq(Request) /\ u \in User /\ WritesRequests
    BY <1>0, <1>2, <2>0 DEF RotateCancel, UpdateMany, TablesOK, Consistent
  <2>2. DOMAIN requests' = DOMAIN requests /\ DOMAIN requests = 1..Len(requests)
    BY <2>1
  <2>3. PICK ids : ids = {r \in DOMAIN requests : requests[r].user = u}
    OBVIOUS
  <2>4. \A r \in DOMAIN requests :
           /\ CancelledRow(requests[r]).user = requests[r].user
           /\ CancelledRow(requests[r]).keyPair = requests[r].keyPair
           /\ CancelledRow(requests[r]).status = "CANCELLED"
    BY <1>1 DEF CancelledRow, Request
  <2>5. \A r \in DOMAIN requests :
           /\ requests'[r].user = requests[r].user
           /\ requests'[r].keyPair = requests[r].keyPair
           /\ (requests'[r].status = "PENDING")
                 <=> (requests[r].status = "PENDING" /\ r \notin ids)
    BY <2>1, <2>2, <2>3, <2>4 DEF Pending
  <2> QED
    BY <2>1, <2>2, <2>3, <2>5, ClosureSeen
<1>3. CASE RejectUpdate(p)
  <2>0. PICK q : q = ctx[p].request
    OBVIOUS
  <2>1. PICK ids : ids = {q}
    OBVIOUS
  <2>2. /\ requests' = [requests EXCEPT ![q] = [@ EXCEPT !.status = "REJECTED"]]
        /\ q \in DOMAIN requests /\ WritesRequests
    BY <1>0, <1>3, <2>0 DEF RejectUpdate, Consistent, Reviewing
  <2>3. /\ DOMAIN requests' = DOMAIN requests
        /\ \A r \in DOMAIN requests :
              /\ requests'[r].user = requests[r].user
              /\ requests'[r].keyPair = requests[r].keyPair
              /\ (requests'[r].status = "PENDING")
                    <=> (requests[r].status = "PENDING" /\ r \notin ids)
    <3> DEFINE row == [requests[q] EXCEPT !.status = "REJECTED"]
    <3>1. /\ row.user = requests[q].user
          /\ row.keyPair = requests[q].keyPair
          /\ row.status = "REJECTED"
      BY <1>1, <2>2 DEF Request
    <3>2. requests' = [requests EXCEPT ![q] = row]
      BY <2>2
    <3> HIDE DEF row
    <3> QED
      BY <1>1, <2>1, <2>2, <3>1, <3>2
  <2> QED
    BY <2>1, <2>2, <2>3, ClosureSeen
<1> QED
  BY <1>2, <1>3

\* issue() submits a request for a key pair of its user's.
LEMMA IssueSeen ==
    ASSUME Consistency, NEW p \in Call, IssueCreate(p)
    PROVE  R!Next
<1> DEFINE keys == [k \in DOMAIN keyPairs |-> keyPairs[k].user]
           seen == [r \in DOMAIN requests |->
                      [user |-> requests[r].user, keyPair |-> requests[r].keyPair]]
<1>0. PICK k, row :
        /\ k = ctx[p].keyPair
        /\ row = [user |-> ctx[p].user, keyPair |-> ctx[p].keyPair,
                  years |-> ctx[p].years, status |-> "PENDING", issued |-> 0]
  OBVIOUS
<1>1. /\ requests' = Append(requests, row) /\ requests \in Seq(Request)
      /\ row.status = "PENDING" /\ row.keyPair = k /\ row.user = keyPairs[k].user
      /\ k \in DOMAIN keyPairs
  BY <1>0, CallFacts DEF IssueCreate, TablesOK, Consistent, Owns
<1>2. UNCHANGED <<keyPairs, certificates, documents, verifications>>
  BY DEF IssueCreate, WritesRequests
<1>3. seen' = Append(seen, [user |-> keys[k], keyPair |-> k])
  <2>1. PICK t, s : t = requests /\ s = requests'
    OBVIOUS
  <2>2. t \in Seq(Request) /\ s = Append(t, row)
    BY <1>1, <2>1
  <2>3. [r \in DOMAIN s |-> [user |-> s[r].user, keyPair |-> s[r].keyPair]]
           = Append([r \in DOMAIN t |-> [user |-> t[r].user, keyPair |-> t[r].keyPair]],
                    [user |-> row.user, keyPair |-> row.keyPair])
    BY <2>2
  <2>4. [user |-> row.user, keyPair |-> row.keyPair] = [user |-> keys[k], keyPair |-> k]
    BY <1>1
  <2> QED
    BY <2>1, <2>3, <2>4
<1>4. {r \in DOMAIN requests' : requests'[r].status = "PENDING"}
         = {r \in DOMAIN requests : requests[r].status = "PENDING"}
              \cup {Len(seen) + 1}
  BY <1>1
<1>5. R!Submit(k)
  BY <1>2, <1>3, <1>4 DEF R!Submit
<1> QED
  BY <1>1, <1>5 DEF R!Next

\* The approval transaction certifies the request's key pair, for its user, and
\* closes the request.
LEMMA ApproveSeen ==
    ASSUME Consistency, NEW p \in Call, ApproveCommit(p)
    PROVE  [R!Next]_R!registry
<1> DEFINE certs == [c \in DOMAIN certificates |->
                       [user |-> certificates[c].user,
                        keyPair |-> certificates[c].keyPair]]
           seen == [r \in DOMAIN requests |->
                      [user |-> requests[r].user, keyPair |-> requests[r].keyPair]]
<1>0. PICK r, row, new : /\ r = ctx[p].request /\ row = NewCertificate(ctx[p])
                         /\ new = Approved(requests[r], Len(certificates) + 1)
  OBVIOUS
<1>1. UNCHANGED <<keyPairs, documents, verifications>>
  BY DEF ApproveCommit
<1>2. /\ r \in DOMAIN requests /\ requests \in Seq(Request)
      /\ certificates \in Seq(Certificate)
      /\ row.user = requests[r].user /\ row.keyPair = requests[r].keyPair
      /\ ~row.isRevoked
  <2>1. pc[p] = "approve.commit"
    BY DEF ApproveCommit
  <2> QED
    BY <1>0, <2>1, CallFacts DEF TablesOK, Consistent, Reviewing, Reviewed, NewCertificate
<1>3. CASE UNCHANGED <<certificates, requests>>
  BY <1>1, <1>3, Unseen
<1>4. CASE /\ certificates' = Append(certificates, row)
           /\ requests' = [requests EXCEPT ![r] = new]
  <2>1. certs' = Append(certs, seen[r])
    <3>1. PICK t, s : t = certificates /\ s = certificates'
      OBVIOUS
    <3>2. t \in Seq(Certificate) /\ s = Append(t, row)
      BY <1>2, <1>4, <3>1
    <3>3. [c \in DOMAIN s |-> [user |-> s[c].user, keyPair |-> s[c].keyPair]]
             = Append([c \in DOMAIN t |-> [user |-> t[c].user, keyPair |-> t[c].keyPair]],
                      [user |-> row.user, keyPair |-> row.keyPair])
      BY <3>2
    <3>4. [user |-> row.user, keyPair |-> row.keyPair] = seen[r]
      BY <1>2
    <3> QED
      BY <3>1, <3>3, <3>4
  <2>2. {c \in DOMAIN certificates' : certificates'[c].isRevoked}
           = {c \in DOMAIN certificates : certificates[c].isRevoked}
    BY <1>2, <1>4
  <2>3. /\ new.user = requests[r].user /\ new.keyPair = requests[r].keyPair
        /\ new.status = "APPROVED"
    <3>1. requests[r] \in Request
      BY <1>2
    <3> QED
      BY <1>0, <3>1 DEF Approved, Request
  <2>4. /\ DOMAIN requests' = DOMAIN requests
        /\ \A q \in DOMAIN requests :
              /\ requests'[q].user = requests[q].user
              /\ requests'[q].keyPair = requests[q].keyPair
              /\ (requests'[q].status = "PENDING")
                    <=> (requests[q].status = "PENDING" /\ q # r)
    BY <1>2, <1>4, <2>3
  <2>5. seen' = seen
    BY <2>4
  <2>6. {q \in DOMAIN requests' : requests'[q].status = "PENDING"}
           = {q \in DOMAIN requests : requests[q].status = "PENDING"} \ {r}
    BY <2>4
  <2>7. R!Certify(r)
    BY <1>1, <2>1, <2>2, <2>5, <2>6 DEF R!Certify
  <2> QED
    BY <1>2, <2>7 DEF R!Next
<1> QED
  BY <1>0, <1>3, <1>4 DEF ApproveCommit

\* sign() records a document under a certificate and a key pair of one user.
LEMMA SignSeen ==
    ASSUME Consistency, NEW p \in Call, SignCreate(p)
    PROVE  R!Next
<1> DEFINE Seen(x) == [certificate |-> x.certificate,
                       keyPair |-> x.signature.keyPair, document |-> x.document]
<1>0. PICK c, k, d, row :
        /\ c = ctx[p].certificate /\ k = ctx[p].signature.keyPair
        /\ d = ctx[p].document
        /\ row = [user |-> ctx[p].user, certificate |-> ctx[p].certificate,
                  document |-> ctx[p].document, signature |-> ctx[p].signature]
  OBVIOUS
<1>1. /\ UNCHANGED <<keyPairs, certificates, requests, verifications>>
      /\ documents' = documents \cup {row}
      /\ pc[p] = "sign.create"
  BY <1>0 DEF SignCreate, WritesEvidence
<1>2. /\ c \in DOMAIN certificates /\ k \in DOMAIN keyPairs /\ d \in Document
      /\ certificates[c].user = keyPairs[k].user
  BY <1>0, <1>1, CallFacts DEF Consistent, HasCertificate, Signs, Owns
<1>3. {Seen(x) : x \in documents'} = {Seen(x) : x \in documents}
         \cup {[certificate |-> c, keyPair |-> k, document |-> d]}
  BY <1>0, <1>1
<1>4. R!Sign(c, k, d)
  BY <1>1, <1>2, <1>3 DEF R!Sign
<1> QED
  BY <1>2, <1>4 DEF R!Next

\* verify() accepts what the certificate's own key pair signed, or nothing.
LEMMA VerifySeen ==
    ASSUME Consistency, NEW p \in Call, VerifyLog(p)
    PROVE  [R!Next]_R!registry
<1> DEFINE Valid(s) == {w \in s : w.outcome = "valid"}
           Seen(v) == [certificate |-> v.certificate,
                       keyPair |-> v.signature.keyPair]
<1>0. PICK row : row = [user |-> ctx[p].user, certificate |-> ctx[p].certificate,
                        document |-> ctx[p].document,
                        signature |-> ctx[p].signature, outcome |-> ctx[p].outcome]
  OBVIOUS
<1>1. /\ UNCHANGED <<keyPairs, certificates, requests, documents>>
      /\ verifications' = verifications \cup {row}
      /\ pc[p] = "verify.log"
  BY <1>0 DEF VerifyLog, WritesEvidence
<1>2. CASE row.outcome # "valid"
  <2>1. Valid(verifications') = Valid(verifications)
    BY <1>1, <1>2
  <2>2. UNCHANGED R!registry
    BY <1>1, <2>1 DEF R!registry
  <2> QED
    BY <2>2
<1>3. CASE row.outcome = "valid"
  <2>0. PICK c : c = row.certificate
    OBVIOUS
  <2>1. c \in DOMAIN certificates /\ certificates[c].keyPair = row.signature.keyPair
    BY <1>0, <1>1, <1>3, <2>0, CallFacts DEF Consistent, Vouches
  <2>2. Valid(verifications') = Valid(verifications) \cup {row}
    BY <1>1, <1>3
  <2>3. {Seen(v) : v \in Valid(verifications')}
           = {Seen(v) : v \in Valid(verifications)}
                \cup {[certificate |-> c, keyPair |-> certificates[c].keyPair]}
    BY <2>0, <2>1, <2>2
  <2>4. R!Accept(c)
    BY <1>1, <2>1, <2>3 DEF R!Accept
  <2> QED
    BY <2>1, <2>4 DEF R!Next
<1> QED
  BY <1>2, <1>3

\* Every step of the service is one of the registry, or is not seen by it.
LEMMA RegistryStep == Consistency /\ [Next]_vars => [R!Next]_R!registry
<1> SUFFICES ASSUME Consistency, [Next]_vars PROVE [R!Next]_R!registry
  OBVIOUS
<1>1. CASE UNCHANGED vars
  BY <1>1, Unseen DEF vars, tables
<1>2. CASE Environment
  BY <1>2, Unseen DEF Environment, Ban, Unban, Tick, tables
<1>3. ASSUME NEW p \in Call, NEW u \in User, Start(p, u)
      PROVE  [R!Next]_R!registry
  <2>1. Reads
    BY <1>3 DEF Start, KeysStart, CertificatesStart, SigningStart, StartGenerate,
       StartRotate, StartIssue, StartApprove, StartReject, StartRevoke,
       StartSign, StartVerify
  <2> QED
    BY <2>1, Unseen DEF Reads, tables
<1>4. ASSUME NEW p \in Call, Fail(p)
      PROVE  [R!Next]_R!registry
  BY <1>4, Unseen DEF Fail, tables
<1>5. ASSUME NEW p \in Call, KeysStep(p)
      PROVE  [R!Next]_R!registry
  <2>1. CASE GenerateFindActive(p)
    BY <2>1, Unseen DEF GenerateFindActive, Reads, tables
  <2> QED
    BY <1>5, <2>1, GenerateSeen, DeactivateSeen, RevokingSeen, ClosingSeen DEF KeysStep
<1>6. ASSUME NEW p \in Call, CertificatesStep(p)
      PROVE  [R!Next]_R!registry
  <2>1. CASE Reads
    BY <2>1, Unseen DEF Reads, tables
  <2>2. \/ Reads \/ IssueCreate(p) \/ ApproveCommit(p) \/ RejectUpdate(p)
        \/ RevokeUpdate(p)
    BY <1>6 DEF CertificatesStep, IssuePolicy, IssueKey, IssueCertificate,
       IssuePending, IssueKeyCertificate, ApproveRead, ApprovePolicy,
       ApproveCertificate, ApproveKeyCertificate, ApproveDecrypt, RejectRead,
       RevokeFind
  <2> QED
    BY <2>1, <2>2, IssueSeen, ApproveSeen, ClosingSeen, RevokingSeen
<1>7. ASSUME NEW p \in Call, SigningStep(p)
      PROVE  [R!Next]_R!registry
  <2>1. CASE Reads
    BY <2>1, Unseen DEF Reads, tables
  <2>2. Reads \/ SignCreate(p) \/ VerifyLog(p)
    BY <1>7 DEF SigningStep, SignPolicy, SignCertificate, SignKey, SignDecrypt,
       VerifyRead
  <2> QED
    BY <2>1, <2>2, SignSeen, VerifySeen
<1> QED
  BY <1>1, <1>2, <1>3, <1>4, <1>5, <1>6, <1>7 DEF Next, Step

\* The service implements the registry: whatever calls overlap or die, rows
\* are only added, flags go one way, and certificates come into being only for
\* the user and key pair that some request names.
THEOREM RegistryImplemented == Spec => ImplementsRegistry
<1>1. Spec => []Consistency
  BY ServiceConsistency
<1> QED
  BY <1>1, RegistryInit, RegistryStep, PTL DEF Spec, ImplementsRegistry, R!Spec
=============================================================================
