----------------------------- MODULE ReadsProofs -----------------------------
(***************************************************************************)
(* Proofs, for any users, calls and bounds, of what a client may conclude  *)
(* from the answers to its reads while other calls write.                  *)
(***************************************************************************)
EXTENDS Reads, SerialProofs, WellFoundedInduction

Reading ==
    [op : {None, "current", "status", "history"}, user : User \cup {None},
     waits : SUBSET {"certificate", "request", "policy", "revocation", "count",
                     "page"},
     certificate : Nat, request : Nat, status : Status \cup {None},
     access : {None, "ALLOWED", "BANNED"}, revocation : Nat, page : Nat,
     total : Nat, items : SUBSET Nat, seen : SUBSET Nat, approved : SUBSET Nat,
     current : SUBSET Nat, there : SUBSET Nat]

Row == [user : User, signedAt : Nat]

\* What each read may wait for.
WaitsOK ==
    /\ reading.op = None => reading.waits = {} 
    /\ reading.op = "current" => reading.waits \in {{}, {"certificate"}, {"request"}}
    /\ reading.op = "status" =>
          reading.waits \subseteq {"certificate", "request", "policy", "revocation"}
    /\ reading.op = "history" => reading.waits \in {{}, {"count"}, {"page"}}
    /\ reading.op # None => reading.user \in User

ReadsTypeOK ==
    /\ signed \in Seq(Row)
    /\ lastRevoked \in [User -> SUBSET Nat]
    /\ reading \in Reading
    /\ WaitsOK

-----------------------------------------------------------------------------
\* To the service itself, a read is a step that changes nothing.
LEMMA ReadsAreSteps == [ReadsNext]_readVars => [Next]_vars
  BY DEF ReadsNext, readVars

LEMMA NoReadingType == NoReading \in Reading
  BY DEF NoReading, Reading

\* What the queries return are ids.
LEMMA QueriesReturnIds ==
    ASSUME TypeOK, NEW u \in User
    PROVE  /\ Unrevoked(u) \subseteq Nat \ {0}
           /\ RequestsOfUser(u) \subseteq Nat \ {0}
           /\ CertificatesOfUser(u) \subseteq Nat \ {0}
           /\ FindLatest(Unrevoked(u)) \subseteq Nat
           /\ LatestRequest(u) \subseteq Nat
           /\ \A r \in LatestRequest(u) : StatusOf(r) \in Status \cup {None}
<1>1. /\ Unrevoked(u) \subseteq Nat \ {0}
      /\ RequestsOfUser(u) \subseteq Nat \ {0}
      /\ CertificatesOfUser(u) \subseteq Nat \ {0}
  BY RowTypes DEF TypeOK, Unrevoked, RequestsOfUser, CertificatesOfUser
<1>2. FindLatest(Unrevoked(u)) \subseteq Nat /\ LatestRequest(u) \subseteq Nat
  BY <1>1 DEF FindLatest, FindFirst, LatestRequest
<1>3. ASSUME NEW r \in LatestRequest(u) PROVE StatusOf(r) \in Status \cup {None}
  <2>1. r = 0 \/ r \in DOMAIN requests
    BY DEF LatestRequest, FindLatest, FindFirst, RequestsOfUser
  <2> QED
    BY <2>1, RowTypes DEF TypeOK, StatusOf, Request
<1> QED
  BY <1>1, <1>2, <1>3

\* A nonempty set of numbers has a smallest one, a bounded one a largest.
LEMMA SmallestOf ==
    ASSUME NEW S \in SUBSET Nat, S # {}
    PROVE  \E m \in S : \A n \in S : m <= n
<1>1. PICK less : less = OpToRel(<, Nat)
  OBVIOUS
<1>2. IsWellFoundedOn(less, Nat)
  BY <1>1, NatLessThanWellFounded
<1>3. PICK m \in S : \A n \in S : ~(<<n, m>> \in less)
  BY <1>2, WFMin
<1>4. ASSUME NEW n \in S PROVE m <= n
  <2>1. <<n, m>> \notin OpToRel(<, Nat)
    BY <1>1, <1>3
  <2> QED
    BY <2>1 DEF OpToRel
<1> QED
  BY <1>3, <1>4

LEMMA LargestOf ==
    ASSUME NEW k \in Nat, NEW S, S \subseteq 0..k, S # {}
    PROVE  \E m \in S : \A n \in S : n <= m
<1> DEFINE D == {d \in Nat : \E i \in S : i + d = k}
<1>1. D \in SUBSET Nat /\ D # {}
  <2>1. PICK i \in S : i \in 0..k
    OBVIOUS
  <2>2. k - i \in D
    BY <2>1
  <2> QED
    BY <2>2
<1>2. PICK d \in D : \A e \in D : d <= e
  BY <1>1, SmallestOf
<1>3. PICK m \in S : m + d = k /\ m \in Nat
  BY <1>2
<1>4. ASSUME NEW n \in S PROVE n <= m
  <2>1. n \in 0..k /\ k - n \in D
    OBVIOUS
  <2> QED
    BY <1>2, <1>3, <2>1
<1> QED
  BY <1>4

\* findFirst() with orderBy finds null only when there is no row, and otherwise
\* the latest.
LEMMA LatestIsFound ==
    ASSUME TypeOK, NEW u \in User, NEW rows,
           rows = Unrevoked(u) \/ rows = RequestsOfUser(u),
           NEW i \in FindLatest(rows)
    PROVE  /\ i = 0 => rows = {}
           /\ i # 0 => i \in rows /\ \A j \in rows : j <= i
<1>1. PICK k \in Nat : rows \subseteq 1..k
  <2>1. /\ Len(certificates) \in Nat /\ DOMAIN certificates = 1..Len(certificates)
        /\ Len(requests) \in Nat /\ DOMAIN requests = 1..Len(requests)
    BY DEF TypeOK, TablesOK
  <2> QED
    BY <2>1 DEF Unrevoked, RequestsOfUser
<1>2. CASE rows = {}
  BY <1>2 DEF FindLatest, FindFirst
<1>3. CASE rows # {}
  <2>1. \E m \in rows : \A n \in rows : n <= m
    <3>1. rows \subseteq 0..k
      BY <1>1
    <3> QED
      BY <1>3, <3>1, LargestOf
  <2>2. i \in rows /\ \A j \in rows : j <= i
    BY <2>1 DEF FindLatest, FindFirst
  <2> QED
    BY <1>1, <2>2
<1> QED
  BY <1>2, <1>3

LEMMA BeginsType ==
    ASSUME NEW read \in Reading, Begins(read) PROVE reading' = read
  BY DEF Begins

LEMMA CertificateReadType ==
    ASSUME TypeOK, NEW u \in User, NEW op \in {"current", "status"},
           NEW waits \in SUBSET {"certificate", "request", "policy", "revocation"}
    PROVE  CertificateRead(op, u, waits) \in Reading
<1>1. /\ {r \in RequestsOfUser(u) : requests[r].status = "APPROVED"} \in SUBSET Nat
      /\ Unrevoked(u) \in SUBSET Nat /\ CertificatesOfUser(u) \in SUBSET Nat
  BY QueriesReturnIds
<1> QED
  BY <1>1, NoReadingType DEF CertificateRead, Reading

\* Rows of the history are finitely many.
LEMMA RowsAreFinite ==
    ASSUME ReadsTypeOK, NEW u
    PROVE  /\ RowsBy(u) \subseteq Nat /\ IsFiniteSet(RowsBy(u))
           /\ Cardinality(RowsBy(u)) \in Nat
<1>1. Len(signed) \in Nat /\ DOMAIN signed = 1..Len(signed)
  BY DEF ReadsTypeOK
<1>2. IsFiniteSet(1..Len(signed)) /\ RowsBy(u) \in SUBSET (1..Len(signed))
  BY <1>1, FS_Interval DEF RowsBy
<1> QED
  BY <1>1, <1>2, FS_Subset, FS_CardinalityType

\* A query of the read in flight that finds what has its type.
LEMMA ReadSteps ==
    ASSUME TypeOK, ReadsTypeOK, ReadStep, UNCHANGED <<vars, signed, lastRevoked>>
    PROVE  ReadsTypeOK'
<1>1. reading \in Reading /\ lastRevoked \in [User -> SUBSET Nat]
      /\ (reading.op # None => reading.user \in User) /\ WaitsOK
  BY DEF ReadsTypeOK, WaitsOK
<1>2. ASSUME NEW u \in User, StartCurrent(u) \/ StartStatus(u) \/ StartHistory(u)
      PROVE  reading' \in Reading /\ WaitsOK'
  <2>1. ASSUME StartCurrent(u) PROVE reading' \in Reading /\ WaitsOK'
    <3>1. reading' = CertificateRead("current", u, {"certificate"})
      BY <2>1 DEF StartCurrent, Begins
    <3> QED
      BY <3>1, CertificateReadType DEF CertificateRead, NoReading, WaitsOK, None
  <2>2. ASSUME StartStatus(u) PROVE reading' \in Reading /\ WaitsOK'
    <3>1. reading' = CertificateRead("status", u,
                          {"certificate", "request", "policy", "revocation"})
      BY <2>2 DEF StartStatus, Begins
    <3> QED
      BY <3>1, CertificateReadType DEF CertificateRead, NoReading, WaitsOK, None
  <2>3. ASSUME StartHistory(u) PROVE reading' \in Reading /\ WaitsOK'
    <3>1. PICK page \in FirstPages :
             reading' = [NoReading EXCEPT !.op = "history", !.user = u, !.page = page,
                                          !.waits = {"count"}, !.there = RowsBy(u)]
      BY <2>3 DEF StartHistory, Begins
    <3>2. page \in Nat /\ RowsBy(u) \in SUBSET Nat
      BY PagesAssumption DEF RowsBy, ReadsTypeOK
    <3> QED
      BY <3>1, <3>2, NoReadingType DEF NoReading, Reading, WaitsOK, None
  <2> QED
    BY <1>2, <2>1, <2>2, <2>3
<1>3. ASSUME CurrentCertificate \/ CurrentRequest PROVE reading' \in Reading /\ WaitsOK'
  <2>1. reading.user \in User
    BY <1>1, <1>3 DEF CurrentCertificate, CurrentRequest, None
  <2>2. ASSUME CurrentCertificate PROVE reading' \in Reading /\ WaitsOK'
    <3>1. PICK c \in Nat :
             reading' = [reading EXCEPT !.certificate = c,
                                        !.waits = IF c = 0 THEN {"request"} ELSE {}]
      BY <2>1, <2>2, QueriesReturnIds DEF CurrentCertificate
    <3>2. reading' \in Reading
      BY <1>1, <3>1 DEF Reading
    <3> QED
      BY <1>1, <2>1, <2>2, <3>1, <3>2 DEF CurrentCertificate, Reading, WaitsOK, None
  <2>3. ASSUME CurrentRequest PROVE reading' \in Reading /\ WaitsOK'
    <3>1. PICK r \in Nat :
             /\ StatusOf(r) \in Status \cup {None}
             /\ reading' = [reading EXCEPT !.request = r, !.status = StatusOf(r),
                                           !.waits = @ \ {"request"}]
      BY <1>1, <2>1, <2>3, QueriesReturnIds DEF CurrentRequest, Found, Reading
    <3>2. reading' \in Reading
      BY <1>1, <3>1 DEF Reading
    <3> QED
      BY <1>1, <2>1, <2>3, <3>1, <3>2 DEF CurrentRequest, Reading, WaitsOK, None
  <2> QED
    BY <1>3, <2>2, <2>3
<1>4. ASSUME StatusCertificate \/ StatusRequest \/ StatusPolicy \/ StatusRevocation
      PROVE  reading' \in Reading /\ WaitsOK'
  <2>1. reading.user \in User
    BY <1>1, <1>4
       DEF StatusCertificate, StatusRequest, StatusPolicy, StatusRevocation, None
  <2>2. ASSUME StatusCertificate PROVE reading' \in Reading /\ WaitsOK'
    <3>1. PICK c \in Nat : reading' = [reading EXCEPT !.certificate = c,
                                                     !.waits = @ \ {"certificate"}]
      BY <1>1, <2>1, <2>2, QueriesReturnIds DEF StatusCertificate, Found, Reading
    <3>2. reading' \in Reading
      BY <1>1, <3>1 DEF Reading
    <3> QED
      BY <1>1, <2>1, <2>2, <3>1, <3>2 DEF StatusCertificate, Reading, WaitsOK, None
  <2>3. ASSUME StatusRequest PROVE reading' \in Reading /\ WaitsOK'
    <3>1. PICK r \in Nat :
             /\ StatusOf(r) \in Status \cup {None}
             /\ reading' = [reading EXCEPT !.request = r, !.status = StatusOf(r),
                                           !.waits = @ \ {"request"}]
      BY <1>1, <2>1, <2>3, QueriesReturnIds DEF StatusRequest, Found, Reading
    <3>2. reading' \in Reading
      BY <1>1, <3>1 DEF Reading
    <3> QED
      BY <1>1, <2>1, <2>3, <3>1, <3>2 DEF StatusRequest, Reading, WaitsOK, None
  <2>4. ASSUME StatusPolicy PROVE reading' \in Reading /\ WaitsOK'
    <3>1. policy[reading.user] \in {"ALLOWED", "BANNED"}
      BY <2>1 DEF TypeOK, TablesOK
    <3> QED
      BY <1>1, <2>4, <3>1 DEF StatusPolicy, Found, Reading, WaitsOK, None
  <2>5. ASSUME StatusRevocation PROVE reading' \in Reading /\ WaitsOK'
    <3>1. \A c \in FindFirst(lastRevoked[reading.user]) : c \in Nat
      BY <1>1, <2>1 DEF FindFirst
    <3>2. PICK c \in Nat : reading' = [reading EXCEPT !.revocation = c,
                                                     !.waits = @ \ {"revocation"}]
      BY <1>1, <2>5, <3>1 DEF StatusRevocation, Found, Reading
    <3>3. reading' \in Reading
      BY <1>1, <3>2 DEF Reading
    <3> QED
      BY <1>1, <2>1, <2>5, <3>2, <3>3 DEF StatusRevocation, Reading, WaitsOK, None
  <2> QED
    BY <1>4, <2>2, <2>3, <2>4, <2>5
<1>5. ASSUME HistoryCount PROVE reading' \in Reading /\ WaitsOK'
  <2>1. /\ reading.op = "history" /\ reading.user \in User
        /\ Cardinality(RowsBy(reading.user)) \in Nat
    BY <1>1, <1>5, RowsAreFinite DEF HistoryCount, WaitsOK, Reading, None
  <2> QED
    BY <1>1, <1>5, <2>1 DEF HistoryCount, Reading, WaitsOK, None
<1>6. ASSUME HistoryRefused PROVE reading' \in Reading /\ WaitsOK'
  BY <1>6, NoReadingType DEF HistoryRefused, NoReading, WaitsOK
<1>7. ASSUME HistoryPage PROVE reading' \in Reading /\ WaitsOK'
  <2>1. /\ reading.op = "history" /\ reading.user \in User
        /\ RowsBy(reading.user) \subseteq Nat
    BY <1>1, <1>7, RowsAreFinite DEF HistoryPage, WaitsOK, Reading, None
  <2>2. \A n : \A head \in Heads(RowsBy(reading.user), n) : head \in SUBSET Nat
    BY <2>1 DEF Heads
  <2>3. PICK rows \in SUBSET Nat :
           reading' = [reading EXCEPT !.items = rows, !.seen = @ \cup rows,
                                      !.waits = @ \ {"page"}]
    <3>1. PICK head \in SUBSET Nat, tail \in SUBSET Nat :
             Found("page", [reading EXCEPT !.items = tail \ head,
                                           !.seen = @ \cup (tail \ head)])
      BY <1>7, <2>2 DEF HistoryPage
    <3> QED
      BY <1>1, <3>1 DEF Found, Reading
  <2>4. reading' \in Reading
    BY <1>1, <2>3 DEF Reading
  <2> QED
    BY <1>1, <1>7, <2>1, <2>3, <2>4 DEF HistoryPage, Reading, WaitsOK, None
<1>8. ASSUME HistoryNext PROVE reading' \in Reading /\ WaitsOK'
  <2>1. PICK page \in Nat :
           reading' = [reading EXCEPT !.page = page, !.items = {}, !.waits = {"count"}]
    <3>1. reading.page + 1 \in Nat
      BY <1>1 DEF Reading
    <3> QED
      BY <1>1, <1>8, <3>1 DEF HistoryNext, Reading
  <2>2. reading' \in Reading
    BY <1>1, <2>1 DEF Reading
  <2> QED
    BY <1>1, <1>8, <2>1, <2>2 DEF HistoryNext, Reading, WaitsOK, None
<1> QED
  BY <1>2, <1>3, <1>4, <1>5, <1>6, <1>7, <1>8 DEF ReadStep, ReadsTypeOK

-----------------------------------------------------------------------------
(* What the writing calls add. *)

\* A statement is executed by the call that waits for it.
LEMMA ExecutedStatements ==
    ASSUME TypeOK, NEW u \in User, NEW l, NEW p \in Executing(u, l)
    PROVE  p \in Call /\ pc[p] = l /\ ctx[p].user = u
  BY DEF Executing

\* Signing appends to the history.
LEMMA SignedGrows ==
    ASSUME ReadsTypeOK, AppendSigned
    PROVE  /\ signed' \in Seq(Row)
           /\ Len(signed) <= Len(signed')
           /\ \A i \in 1..Len(signed) : signed'[i] = signed[i]
<1> DEFINE last == IF signed = << >> THEN 0 ELSE signed[Len(signed)].signedAt
<1>1. signed \in Seq(Row)
  BY DEF ReadsTypeOK
<1>2. last \in Nat
  <2>1. CASE signed = << >>
    BY <2>1
  <2>2. CASE signed # << >>
    <3>1. Len(signed) \in 1..Len(signed)
      BY <1>1, <2>2
    <3>2. \A i \in 1..Len(signed) : signed[i] \in Row
      BY <1>1
    <3> QED
      BY <2>2, <3>1, <3>2 DEF Row
  <2> QED
    BY <2>1, <2>2
<1>3. CASE signed' = signed
  BY <1>1, <1>3
<1>4. CASE \E u \in User, t \in {last, last + 1} :
              signed' = Append(signed, [user |-> u, signedAt |-> t])
  <2>1. PICK row \in Row : signed' = Append(signed, row)
    BY <1>2, <1>4 DEF Row
  <2> QED
    BY <1>1, <2>1
<1> QED
  BY <1>3, <1>4 DEF AppendSigned

\* The certificates whose revokedAt is set are certificates.
LEMMA StampsAreIds ==
    ASSUME TypeOK, ReadsTypeOK, CallsConsistent, StampRevocations
    PROVE  lastRevoked' \in [User -> SUBSET Nat]
<1>1. ASSUME NEW u \in User PROVE Stamped(u) \subseteq Nat
  <2>1. ASSUME NEW p \in Executing(u, "revoke.update") PROVE ctx[p].certificate \in Nat
    BY <2>1, ExecutedStatements DEF TypeOK, CallsOK, Context
  <2> QED
    BY <2>1, QueriesReturnIds DEF Stamped
<1> QED
  BY <1>1 DEF StampRevocations, ReadsTypeOK

LEMMA RecordedTypes ==
    ASSUME TypeOK, ReadsTypeOK, CallsConsistent, Recorded
    PROVE  ReadsTypeOK'
<1>1. signed' \in Seq(Row)
  BY SignedGrows DEF Recorded
<1>2. lastRevoked' \in [User -> SUBSET Nat]
  BY StampsAreIds DEF Recorded
<1>3. reading' = NoReading \/ reading' = reading
  BY DEF Recorded
<1>4. CASE reading' = NoReading
  <2>1. reading' \in Reading /\ WaitsOK'
    BY <1>4, NoReadingType DEF WaitsOK, NoReading, None
  <2> QED
    BY <1>1, <1>2, <2>1 DEF ReadsTypeOK
<1>5. CASE reading' = reading
  BY <1>1, <1>2, <1>5 DEF ReadsTypeOK, WaitsOK
<1> QED
  BY <1>3, <1>4, <1>5

LEMMA ReadsTypesKept ==
    ASSUME Consistency, ReadsTypeOK, [ReadsNext]_readVars
    PROVE  ReadsTypeOK'
<1>1. CASE UNCHANGED readVars
  BY <1>1 DEF readVars, ReadsTypeOK, WaitsOK
<1>2. CASE ReadStep /\ UNCHANGED <<vars, signed, lastRevoked>>
  BY <1>2, ReadSteps DEF Consistency
<1>3. CASE Next /\ Recorded
  BY <1>3, RecordedTypes DEF Consistency
<1> QED
  BY <1>1, <1>2, <1>3 DEF ReadsNext

LEMMA ReadsTypesStart == ReadsInit => ReadsTypeOK
  BY NoReadingType DEF ReadsInit, ReadsTypeOK, WaitsOK, NoReading, None

\* The rows, the calls and the read in flight keep their types.
LEMMA ReadsTypes == ReadsSpec => [](Consistency /\ ReadsTypeOK)
<1>1. ReadsInit => Consistency
  BY InitConsistent DEF ReadsInit
<1>2. Consistency /\ [ReadsNext]_readVars => Consistency'
  BY ReadsAreSteps, NextConsistent
<1> QED
  BY <1>1, <1>2, ReadsTypesStart, ReadsTypesKept, PTL DEF ReadsSpec

-----------------------------------------------------------------------------
(* The history: counting the rows that are newer than one. *)

Newer(i) ==
    {j \in RowsBy(reading.user) : signed[j].signedAt > signed[i].signedAt}

Tied(i) ==
    \E j \in RowsBy(reading.user) \ {i} : signed[j].signedAt = signed[i].signedAt

\* Pages answered.
Walked == IF reading.waits = {} THEN reading.page ELSE reading.page - 1

\* The inductive invariant: a row that was there when the walk began and is on
\* none of the pages so far has at least as many newer ones as these pages hold.
Walking ==
    reading.op = "history" =>
        /\ reading.there \subseteq RowsBy(reading.user)
        /\ reading.waits = {"page"} =>
              reading.total <= Cardinality(RowsBy(reading.user))
        /\ reading.waits = {} => reading.page > 0
        /\ reading.page > 0 =>
              \A i \in reading.there :
                  \/ i \in reading.seen \/ Tied(i)
                  \/ Walked * Limit <= Cardinality(Newer(i))
        /\ PageIsFull
        /\ WalkMissesNothing

\* The first n of some rows, newest first, are n, or all of them.
LEMMA HeadSize ==
    ASSUME NEW rows, IsFiniteSet(rows), NEW n \in Nat, NEW head \in Heads(rows, n)
    PROVE  /\ IsFiniteSet(head) /\ head \subseteq rows
           /\ Cardinality(head) = Smaller(Cardinality(rows), n)
           /\ Cardinality(head) \in Nat /\ Cardinality(rows) \in Nat
           /\ Cardinality(head) < n => head = rows
<1>1. head \in SUBSET rows /\ Cardinality(head) = Smaller(Cardinality(rows), n)
  BY DEF Heads
<1>2. /\ IsFiniteSet(head) /\ Cardinality(head) \in Nat /\ Cardinality(rows) \in Nat
      /\ Cardinality(rows) = Cardinality(head) => rows = head
  BY <1>1, FS_Subset, FS_CardinalityType
<1> QED
  BY <1>1, <1>2 DEF Smaller

\* A row that shares its time with no other is among the first n just when
\* fewer than n are newer.
LEMMA FirstRows ==
    ASSUME ReadsTypeOK, NEW n \in Nat, NEW head \in Heads(RowsBy(reading.user), n),
           NEW i \in RowsBy(reading.user), ~Tied(i)
    PROVE  /\ i \in head <=> Cardinality(Newer(i)) < n
           /\ Cardinality(Newer(i)) \in Nat
           /\ Cardinality(Newer(i)) < Cardinality(RowsBy(reading.user))
<1> DEFINE rows == RowsBy(reading.user)
<1>1. /\ IsFiniteSet(rows) /\ Cardinality(rows) \in Nat
      /\ \A j \in rows : signed[j].signedAt \in Nat
  <2>1. \A j \in rows : signed[j] \in Row
    BY DEF RowsBy, ReadsTypeOK
  <2> QED
    BY <2>1, RowsAreFinite DEF Row
<1>2. /\ IsFiniteSet(head) /\ head \subseteq rows /\ Cardinality(head) \in Nat
      /\ Cardinality(head) <= n /\ (Cardinality(head) < n => head = rows)
  BY <1>1, HeadSize DEF Smaller
<1>3. Newer(i) \in SUBSET (rows \ {i})
  BY <1>1 DEF Newer
<1>4. /\ IsFiniteSet(Newer(i)) /\ Cardinality(Newer(i)) \in Nat
      /\ Cardinality(Newer(i)) < Cardinality(rows)
  BY <1>1, <1>3, FS_RemoveElement, FS_Subset, FS_CardinalityType
<1>5. CASE i \in head
  <2>1. Newer(i) \in SUBSET (head \ {i})
    BY <1>3, <1>5 DEF Newer, Heads
  <2>2. /\ IsFiniteSet(head \ {i})
        /\ Cardinality(head \ {i}) = Cardinality(head) - 1
    BY <1>2, <1>5, FS_RemoveElement
  <2>3. Cardinality(Newer(i)) <= Cardinality(head) - 1
    BY <2>1, <2>2, FS_Subset
  <2> QED
    BY <1>2, <1>4, <1>5, <2>3
<1>6. CASE i \notin head
  <2>1. ASSUME NEW j \in head PROVE j \in Newer(i)
    <3>1. j \in rows /\ signed[j].signedAt # signed[i].signedAt
      BY <1>2, <1>6 DEF Tied
    <3>2. ~(signed[i].signedAt > signed[j].signedAt)
      BY <1>6 DEF Heads
    <3> QED
      BY <1>1, <3>1, <3>2 DEF Newer
  <2>2. Cardinality(head) = n
    BY <1>2, <1>6
  <2>3. n <= Cardinality(Newer(i))
    BY <1>4, <2>1, <2>2, FS_Subset
  <2> QED
    BY <1>4, <1>6, <2>3
<1> QED
  BY <1>4, <1>5, <1>6

\* A page holds what the rows give it, up to the limit.
LEMMA PageSize ==
    ASSUME NEW rows, IsFiniteSet(rows), NEW n \in Nat, NEW head \in Heads(rows, n),
           NEW tail \in Heads(rows, n + Limit), head \subseteq tail
    PROVE  /\ Cardinality(tail \ head) \in Nat
           /\ Cardinality(tail \ head) >= Smaller(Limit, Cardinality(rows) - n)
           /\ Cardinality(rows) >= n + Limit => Cardinality(tail \ head) = Limit
<1>1. Limit \in Nat
  BY PagesAssumption
<1>2. /\ IsFiniteSet(tail) /\ Cardinality(tail) \in Nat
      /\ Cardinality(tail) = Smaller(Cardinality(rows), n + Limit)
      /\ IsFiniteSet(head) /\ Cardinality(head) \in Nat
      /\ Cardinality(head) = Smaller(Cardinality(rows), n)
      /\ Cardinality(rows) \in Nat
  <2>1. n + Limit \in Nat
    BY <1>1
  <2> QED
    BY <2>1, HeadSize
<1>3. Cardinality(tail \ head) = Cardinality(tail) - Cardinality(head)
  <2>1. tail \cap head = head
    OBVIOUS
  <2>2. Cardinality(tail \ head) = Cardinality(tail) - Cardinality(tail \cap head)
    BY <1>2, FS_Difference
  <2> QED
    BY <2>1, <2>2, Zenon
<1>4. IsFiniteSet(tail \ head)
  BY <1>2, FS_Subset
<1> QED
  BY <1>1, <1>2, <1>3, <1>4, FS_CardinalityType DEF Smaller

\* The writing calls make rows newer than one that was there, and never fewer.
LEMMA WalkingThroughWrites ==
    ASSUME ReadsTypeOK, Walking, Recorded PROVE Walking'
<1>1. reading' = NoReading \/ (~Done /\ reading' = reading)
  BY DEF Recorded
<1>2. CASE reading' = NoReading
  BY <1>2 DEF Walking, NoReading, None
<1>3. CASE ~Done /\ reading' = reading /\ reading.op = "history"
  <2> DEFINE u == reading.user
  <2>1. /\ Len(signed) \in Nat /\ Len(signed') \in Nat /\ Len(signed) <= Len(signed')
        /\ DOMAIN signed = 1..Len(signed) /\ DOMAIN signed' = 1..Len(signed')
        /\ \A i \in 1..Len(signed) : signed'[i] = signed[i]
    BY SignedGrows DEF Recorded, ReadsTypeOK
  <2>2. RowsBy(u) \subseteq RowsBy(u)'
    BY <1>3, <2>1 DEF RowsBy
  <2>3. IsFiniteSet(RowsBy(u)') /\ IsFiniteSet(RowsBy(u))
    <3>1. RowsBy(u)' \in SUBSET (1..Len(signed')) /\ IsFiniteSet(1..Len(signed'))
      BY <1>3, <2>1, FS_Interval DEF RowsBy
    <3> QED
      BY <3>1, RowsAreFinite, FS_Subset
  <2>4. Cardinality(RowsBy(u)) <= Cardinality(RowsBy(u)')
    BY <2>2, <2>3, FS_Subset
  <2>5. ASSUME NEW i \in RowsBy(u) PROVE Tied(i) => Tied(i)'
    BY <1>3, <2>1, <2>2 DEF Tied, RowsBy
  <2>6. ASSUME NEW i \in RowsBy(u)
        PROVE  /\ Cardinality(Newer(i)) <= Cardinality(Newer(i)')
               /\ Cardinality(Newer(i)) \in Nat /\ Cardinality(Newer(i)') \in Nat
    <3>1. Newer(i) \subseteq Newer(i)'
      BY <1>3, <2>1, <2>2, <2>6 DEF Newer, RowsBy
    <3>2. Newer(i)' \in SUBSET (RowsBy(u)')
      BY <1>3 DEF Newer
    <3>3. IsFiniteSet(Newer(i)')
      BY <2>3, <3>2, FS_Subset
    <3> QED
      BY <3>1, <3>3, FS_Subset, FS_CardinalityType
  <2> HIDE DEF u
  <2>7. Walked' = Walked /\ reading.page \in Nat /\ reading.total \in Nat
        /\ Cardinality(RowsBy(u)) \in Nat /\ Cardinality(RowsBy(u)') \in Nat
    BY <1>3, <2>3, FS_CardinalityType DEF Walked, ReadsTypeOK, Reading
  <2>8. ASSUME reading.page > 0
        PROVE  \A i \in reading.there :
                  \/ i \in reading.seen \/ Tied(i)'
                  \/ Walked * Limit <= Cardinality(Newer(i)')
    <3>1. Walked * Limit \in Nat
      BY <2>7, <2>8, PagesAssumption DEF Walked
    <3> SUFFICES ASSUME NEW i \in reading.there, i \notin reading.seen, ~Tied(i)'
                 PROVE  Walked * Limit <= Cardinality(Newer(i)')
      OBVIOUS
    <3>2. i \in RowsBy(u)
      BY <1>3 DEF Walking, u
    <3>3. Walked * Limit <= Cardinality(Newer(i))
      BY <1>3, <2>5, <2>8, <3>2 DEF Walking
    <3> QED
      BY <2>6, <3>1, <3>2, <3>3
  <2> QED
    BY <1>3, <2>2, <2>4, <2>7, <2>8 DEF Walking, PageIsFull, WalkMissesNothing, Done, u
<1> QED
  BY <1>1, <1>2, <1>3 DEF Walking

\* A page of the first so many rows, and those it leaves out.
LEMMA WalkingOverAPage ==
    ASSUME ReadsTypeOK, Walking, HistoryPage, UNCHANGED <<vars, signed, lastRevoked>>
    PROVE  Walking'
<1> DEFINE u == reading.user
           rows == RowsBy(u)
           n == Skip(reading.page)
<1>1. /\ reading.op = "history" /\ reading.waits = {"page"}
      /\ reading.page \in Nat /\ reading.page > 0 /\ Limit \in Nat
      /\ reading.total \in Nat /\ reading.total <= Cardinality(rows)
      /\ reading.there \subseteq rows
  BY PagesAssumption DEF HistoryPage, ReadsTypeOK, WaitsOK, Reading, Walking
<1>2. n \in Nat /\ n + Limit \in Nat /\ n + Limit = reading.page * Limit
      /\ n = (reading.page - 1) * Limit
  BY <1>1 DEF Skip
<1>3. IsFiniteSet(rows) /\ Cardinality(rows) \in Nat
  BY RowsAreFinite
<1> HIDE DEF n
<1>4. PICK head \in Heads(rows, n), tail \in Heads(rows, n + Limit) :
         /\ head \subseteq tail
         /\ reading' = [[reading EXCEPT !.items = tail \ head,
                                        !.seen = @ \cup (tail \ head)]
                            EXCEPT !.waits = @ \ {"page"}]
  BY DEF HistoryPage, Found, n
<1>5. /\ Cardinality(tail \ head) \in Nat
      /\ Cardinality(tail \ head) >= Smaller(Limit, Cardinality(rows) - n)
      /\ Cardinality(rows) >= n + Limit => Cardinality(tail \ head) = Limit
  BY <1>2, <1>3, <1>4, PageSize
<1>6. /\ reading'.op = "history" /\ reading'.waits = {} /\ reading'.user = u
      /\ reading'.page = reading.page /\ reading'.there = reading.there
      /\ reading'.total = reading.total /\ reading'.items = tail \ head
      /\ reading'.seen = reading.seen \cup (tail \ head)
  BY <1>1, <1>4 DEF ReadsTypeOK, Reading
<1>7. /\ rows' = rows
      /\ \A i : Tied(i)' <=> Tied(i)
      /\ \A i : Newer(i)' = Newer(i)
  BY <1>6 DEF RowsBy, Tied, Newer
<1>8. ASSUME NEW i \in reading.there, i \notin reading'.seen, ~Tied(i)
      PROVE  /\ n + Limit <= Cardinality(Newer(i))
             /\ Cardinality(tail \ head) = Limit
  <2>1. i \in rows /\ i \notin reading.seen /\ i \notin tail \ head
    BY <1>1, <1>6, <1>8
  <2>2. n <= Cardinality(Newer(i))
    BY <1>1, <1>2, <1>8, <2>1 DEF Walking, Walked
  <2>3. i \notin head
    BY <1>2, <1>8, <2>1, <2>2, FirstRows
  <2>4. /\ ~(Cardinality(Newer(i)) < n + Limit)
        /\ Cardinality(Newer(i)) \in Nat
        /\ Cardinality(Newer(i)) < Cardinality(rows)
    BY <1>2, <1>8, <2>1, <2>3, FirstRows
  <2> QED
    BY <1>2, <1>3, <1>5, <2>4
<1> HIDE DEF u, rows
<1>9. PageIsFull'
  BY <1>1, <1>2, <1>3, <1>5, <1>6 DEF PageIsFull, Smaller
<1>10. WalkMissesNothing'
  <2>1. ASSUME Done', NEW i \in reading.there PROVE i \in reading'.seen \/ Tied(i)
    BY <1>1, <1>6, <1>8, <2>1 DEF Done
  <2> QED
    BY <1>6, <1>7, <2>1 DEF WalkMissesNothing, Tied
<1> QED
  BY <1>1, <1>2, <1>6, <1>7, <1>8, <1>9, <1>10 DEF Walking, Walked, rows, u

\* A walk that begins, goes on to another page or counts the rows.
LEMMA WalkingOtherwise ==
    ASSUME ReadsTypeOK, Walking, ReadStep, ~HistoryPage,
           UNCHANGED <<vars, signed, lastRevoked>>
    PROVE  Walking'
<1>1. ASSUME NEW u \in User, StartCurrent(u) \/ StartStatus(u) PROVE Walking'
  <2>1. reading'.op \in {"current", "status"}
    BY <1>1 DEF StartCurrent, StartStatus, Begins, CertificateRead, NoReading
  <2> QED
    BY <2>1 DEF Walking
<1>2. ASSUME NEW u \in User, StartHistory(u) PROVE Walking'
  <2>1. PICK page \in FirstPages :
           reading' = [NoReading EXCEPT !.op = "history", !.user = u, !.page = page,
                                        !.waits = {"count"}, !.there = RowsBy(u)]
    BY <1>2 DEF StartHistory, Begins
  <2>2. /\ page \in {0, 1} /\ RowsBy(u)' = RowsBy(u) /\ Limit \in Nat
        /\ reading'.user = u /\ reading'.page = page /\ reading'.waits = {"count"}
        /\ reading'.there = RowsBy(u)
    BY <2>1, PagesAssumption DEF NoReading, RowsBy
  <2>3. ASSUME NEW i PROVE Cardinality(Newer(i)') \in Nat
    <3>1. Newer(i)' \in SUBSET RowsBy(u)
      BY <2>2 DEF Newer, RowsBy
    <3> QED
      BY <3>1, RowsAreFinite, FS_Subset, FS_CardinalityType
  <2>4. page = 1 => Walked' * Limit = 0
    BY <2>2 DEF Walked
  <2> QED
    BY <2>2, <2>3, <2>4 DEF Walking, PageIsFull, WalkMissesNothing, Done
<1>3. ASSUME CurrentCertificate \/ CurrentRequest \/ StatusCertificate
             \/ StatusRequest \/ StatusPolicy \/ StatusRevocation
      PROVE  Walking'
  <2>1. reading'.op = reading.op /\ reading.op # "history"
    BY <1>3 DEF ReadsTypeOK, Reading, Found, CurrentCertificate, CurrentRequest,
       StatusCertificate, StatusRequest, StatusPolicy, StatusRevocation
  <2> QED
    BY <2>1 DEF Walking
<1>4. ASSUME HistoryCount PROVE Walking'
  <2>1. /\ reading.op = "history" /\ reading.waits = {"count"}
        /\ reading.page \in Nat /\ Cardinality(RowsBy(reading.user)) \in Nat
    BY <1>4, RowsAreFinite DEF HistoryCount, ReadsTypeOK, WaitsOK, Reading, None
  <2>2. /\ reading'.op = "history" /\ reading'.waits = {"page"}
        /\ reading'.total = Cardinality(RowsBy(reading.user))
        /\ reading'.user = reading.user /\ reading'.page = reading.page
        /\ reading'.there = reading.there /\ reading'.seen = reading.seen
    BY <1>4, <2>1 DEF HistoryCount, ReadsTypeOK, Reading
  <2>3. /\ RowsBy(reading.user)' = RowsBy(reading.user) /\ Walked' = Walked
        /\ \A i : (Tied(i)' <=> Tied(i)) /\ Newer(i)' = Newer(i)
    BY <2>1, <2>2 DEF RowsBy, Tied, Newer, Walked
  <2> QED
    BY <2>1, <2>2, <2>3 DEF Walking, PageIsFull, WalkMissesNothing, Done
<1>5. ASSUME HistoryRefused PROVE Walking'
  BY <1>5 DEF HistoryRefused, NoReading, Walking, None
<1>6. ASSUME HistoryNext PROVE Walking'
  <2>1. /\ reading.op = "history" /\ reading.waits = {} /\ reading.page \in Nat
    BY <1>6 DEF HistoryNext, ReadsTypeOK, Reading
  <2>2. /\ reading'.op = "history" /\ reading'.waits = {"count"}
        /\ reading'.user = reading.user /\ reading'.page = reading.page + 1
        /\ reading'.there = reading.there /\ reading'.seen = reading.seen
    BY <1>6 DEF HistoryNext, ReadsTypeOK, Reading
  <2>3. /\ RowsBy(reading.user)' = RowsBy(reading.user) /\ Walked' = Walked
        /\ \A i : (Tied(i)' <=> Tied(i)) /\ Newer(i)' = Newer(i)
    BY <2>1, <2>2 DEF RowsBy, Tied, Newer, Walked
  <2> QED
    BY <2>1, <2>2, <2>3 DEF Walking, PageIsFull, WalkMissesNothing, Done
<1> QED
  BY <1>1, <1>2, <1>3, <1>4, <1>5, <1>6 DEF ReadStep

LEMMA WalkingKept ==
    ASSUME ReadsTypeOK, Walking, [ReadsNext]_readVars PROVE Walking'
<1>1. CASE UNCHANGED readVars
  BY <1>1 DEF readVars, Walking, Walked, Tied, Newer, RowsBy, PageIsFull,
     WalkMissesNothing, Done
<1>2. CASE ReadStep /\ UNCHANGED <<vars, signed, lastRevoked>>
  BY <1>2, WalkingOverAPage, WalkingOtherwise
<1>3. CASE Next /\ Recorded
  BY <1>3, WalkingThroughWrites
<1> QED
  BY <1>1, <1>2, <1>3 DEF ReadsNext

\* The rows that a walk has not shown yet are further down than it has got.
THEOREM WalksGoDown == ReadsSpec => []Walking
<1>1. ReadsInit => Walking
  BY DEF ReadsInit, NoReading, Walking, None
<1> QED
  BY <1>1, WalkingKept, ReadsTypes, PTL DEF ReadsSpec

\* A page is as full as its total promises, however calls overlap and die.
THEOREM PagesAreFull == ReadsSpec => []PageIsFull
<1>1. Walking => PageIsFull
  BY DEF Walking, PageIsFull
<1> QED
  BY <1>1, WalksGoDown, PTL

\* A walk shows all that was there before it, however calls overlap and die.
THEOREM WalksMissNothing == ReadsSpec => []WalkMissesNothing
<1>1. Walking => WalkMissesNothing
  BY DEF Walking, WalkMissesNothing
<1> QED
  BY <1>1, WalksGoDown, PTL

-----------------------------------------------------------------------------
(* The reads of certificates, while calls about a user that write come one *)
(* after the other.                                                        *)

\* A user's pending request is the latest.
PendingIsLatest ==
    \A u \in User : \A r \in Pending(u), q \in RequestsOfUser(u) : q <= r

\* The latest revocations of a user are there when one of the user's
\* certificates is revoked.
RevocationsAreStamped ==
    \A u \in User :
        /\ 0 \notin lastRevoked[u]
        /\ \A c \in CertificatesOfUser(u) :
              certificates[c].isRevoked => lastRevoked[u] # {}

\* What the read found when it began, and has found since, is still so.
Remembers ==
    reading.op \in {"current", "status"} =>
        /\ reading.there \subseteq CertificatesOfUser(reading.user)
        /\ reading.current \subseteq reading.there
        /\ \A c \in reading.there \ reading.current : certificates[c].isRevoked
        /\ \A r \in reading.approved :
              /\ r \in RequestsOfUser(reading.user)
              /\ requests[r].status = "APPROVED"
              /\ requests[r].issued \in reading.there
        /\ "certificate" \notin reading.waits /\ reading.certificate = 0 =>
              \A c \in reading.there : certificates[c].isRevoked
        /\ reading.op = "status" /\ "revocation" \notin reading.waits
                 /\ reading.revocation = 0 =>
              reading.there \subseteq reading.current
        /\ reading.status = "APPROVED" =>
              /\ reading.request \in RequestsOfUser(reading.user)
              /\ requests[reading.request].status = "APPROVED"

\* A certificate of user u, issued since the read began, is past its end.
CameAndWent(u) ==
    \E c \in CertificatesOfUser(u) \ reading.there : certificates[c].notAfter <= now

\* The labels at which issue() has looked for an active certificate.
Issuing(p) ==
    \/ pc[p] \in {"issue.pending", "issue.keyCertificate", "issue.create"}
    \/ pc[p] \in Replacing /\ ctx[p].op = "issue"

\* Since getCurrent() found no certificate, a request has come after the one of
\* an unrevoked certificate, or is about to, only if one has expired.
OnlyExpiredAreFollowed(u) ==
    /\ \A c \in Unrevoked(u), q \in RequestsOfUser(u), r \in RequestsOfUser(u) :
          requests[r].issued = c /\ r < q => CameAndWent(u)
    /\ \A p \in Call :
          ctx[p].user = u /\ Issuing(p) /\ Unrevoked(u) # {} => CameAndWent(u)

Refusing ==
    reading.op = "current" /\ reading.waits = {"request"} =>
        reading.certificate = 0 /\ OnlyExpiredAreFollowed(reading.user)

\* The inductive invariant.
Truthful ==
    /\ Orderly /\ ReadsTypeOK
    /\ PendingIsLatest /\ RevocationsAreStamped
    /\ Remembers /\ Refusing /\ RefusalIsTrue

-----------------------------------------------------------------------------
(* What the writing calls do to what a read has found. *)

LEMMA PendingIsLatestStep ==
    ASSUME Consistency, AllKnow, [Next]_vars, PendingIsLatest
    PROVE  PendingIsLatest'
<1> SUFFICES ASSUME NEW u \in User, NEW r \in Pending(u)', NEW q \in RequestsOfUser(u)'
             PROVE  q <= r
  BY DEF PendingIsLatest
<1>1. /\ Len(requests) \in Nat /\ DOMAIN requests = 1..Len(requests)
  BY DEF Consistency, TypeOK, TablesOK
<1>2. ASSUME NEW i \in DOMAIN requests', i \notin DOMAIN requests, requests'[i].user = u
      PROVE  i = Len(requests) + 1 /\ Pending(u) = {}
  <2>1. PICK p \in Call : pc[p] = "issue.create" /\ ctx[p].user = u
    BY <1>2, NewRequests
  <2> QED
    BY <1>2, <2>1, NewRequests DEF AllKnow, Knows
<1>3. CASE r \in DOMAIN requests
  <2>1. r \in Pending(u)
    BY <1>3, RequestsAfter DEF Pending
  <2>2. q \in DOMAIN requests
    BY <1>2, <2>1 DEF RequestsOfUser
  <2>3. q \in RequestsOfUser(u)
    BY <2>2, RequestsAfter DEF RequestsOfUser
  <2> QED
    BY <2>1, <2>3 DEF PendingIsLatest
<1>4. CASE r \notin DOMAIN requests
  <2>1. r = Len(requests) + 1
    BY <1>2, <1>4 DEF Pending
  <2>2. q \in 1..Len(requests) \/ q = Len(requests) + 1
    BY <1>1, <1>2 DEF RequestsOfUser
  <2> QED
    BY <1>1, <2>1, <2>2
<1> QED
  BY <1>3, <1>4

\* The step that revokes a certificate stamps it.
LEMMA RevocationIsStamped ==
    ASSUME Consistency, Next, StampRevocations, NEW u \in User,
           NEW c \in Unrevoked(u), certificates'[c].isRevoked
    PROVE  c \in lastRevoked'[u]
<1>1. /\ TypeOK /\ c \in DOMAIN certificates /\ certificates[c].user = u
      /\ ~certificates[c].isRevoked /\ certificates \in Seq(Certificate)
      /\ Len(certificates) \in Nat /\ DOMAIN certificates = 1..Len(certificates)
  BY DEF Unrevoked, Consistency, TypeOK, TablesOK
<1>2. c \in Stamped(u)
  <2>1. certificates' # certificates
    BY <1>1
  <2>2. ASSUME NEW p \in Call, ApproveCommit(p) PROVE certificates'[c] = certificates[c]
    BY <1>1, <2>2 DEF ApproveCommit
  <2>3. ASSUME NEW p \in Call, RotateRevoke(p) PROVE c \in Stamped(u)
    <3>1. ctx[p].user = u
      BY <1>1, <2>3 DEF RotateRevoke, UpdateMany, Unrevoked
    <3>2. pc[p] = "rotate.revoke" /\ pc'[p] = "rotate.cancel" /\ failures' = failures
      BY <1>1, <2>3, OneMoves DEF RotateRevoke, WritesCertificates
    <3> QED
      BY <3>1, <3>2 DEF Stamped, Executing
  <2>4. ASSUME NEW p \in Call, RevokeUpdate(p) PROVE c \in Stamped(u)
    <3>1. ctx[p].certificate = c
      BY <1>1, <2>4 DEF RevokeUpdate
    <3>2. pc[p] = "revoke.update" /\ pc'[p] = "idle" /\ failures' = failures
      BY <1>1, <2>4, OneMoves DEF RevokeUpdate, Answer, WritesCertificates
    <3>3. ctx[p].user = u
      BY <1>1, <3>1, <3>2, CallFacts DEF Consistent, HasCertificate
    <3> QED
      BY <3>1, <3>2, <3>3 DEF Stamped, Executing
  <2> QED
    BY <1>1, <2>1, <2>2, <2>3, <2>4, Writers
<1> QED
  BY <1>2 DEF StampRevocations

LEMMA StampsStep ==
    ASSUME Consistency, ReadsTypeOK, Next, StampRevocations, RevocationsAreStamped
    PROVE  RevocationsAreStamped'
<1> SUFFICES ASSUME NEW u \in User
             PROVE  /\ 0 \notin lastRevoked'[u]
                    /\ \A c \in CertificatesOfUser(u)' :
                          certificates'[c].isRevoked => lastRevoked'[u] # {}
  BY DEF RevocationsAreStamped
<1>1. lastRevoked'[u] = IF Stamped(u) = {} THEN lastRevoked[u] ELSE Stamped(u)
  BY DEF StampRevocations
<1>2. 0 \notin Stamped(u)
  <2>1. ASSUME NEW p \in Executing(u, "revoke.update") PROVE ctx[p].certificate # 0
    <3>1. ctx[p].certificate \in DOMAIN certificates
      BY <2>1, ExecutedStatements, CallFacts DEF Consistency, Consistent, HasCertificate
    <3> QED
      BY <3>1, RowTypes DEF Consistency, TypeOK
  <2> QED
    BY <2>1, QueriesReturnIds DEF Stamped, Consistency
<1>3. ASSUME NEW c \in CertificatesOfUser(u)', certificates'[c].isRevoked
      PROVE  lastRevoked'[u] # {}
  <2>1. CASE c \in DOMAIN certificates /\ certificates[c].isRevoked
    <3>1. c \in CertificatesOfUser(u)
      BY <1>3, <2>1, CertificatesAfter DEF CertificatesOfUser
    <3> QED
      BY <1>1, <2>1, <3>1 DEF RevocationsAreStamped
  <2>2. CASE c \in DOMAIN certificates /\ ~certificates[c].isRevoked
    <3>1. c \in Unrevoked(u)
      BY <1>3, <2>2, CertificatesAfter DEF CertificatesOfUser, Unrevoked
    <3> QED
      BY <1>3, <3>1, RevocationIsStamped
  <2>3. CASE c \notin DOMAIN certificates
    BY <1>3, <2>3, NewCertificates DEF CertificatesOfUser
  <2> QED
    BY <2>1, <2>2, <2>3
<1> QED
  BY <1>1, <1>2, <1>3 DEF RevocationsAreStamped

\* Rows a user has had, the user has; revoked certificates and approved
\* requests stay so.
LEMMA RowsRemain ==
    ASSUME Consistency, AllKnow, [Next]_vars, NEW u
    PROVE  /\ \A c \in CertificatesOfUser(u) :
                 /\ c \in CertificatesOfUser(u)'
                 /\ certificates'[c].notAfter = certificates[c].notAfter
                 /\ certificates[c].isRevoked => certificates'[c].isRevoked
           /\ \A r \in RequestsOfUser(u) :
                 /\ r \in RequestsOfUser(u)'
                 /\ requests[r].status = "APPROVED" => requests'[r] = requests[r]
<1>1. ASSUME NEW p \in Call, pc[p] \in {"approve.commit", "reject.update"}
      PROVE  requests[ctx[p].request].status = "PENDING"
  BY <1>1 DEF AllKnow, Knows, Reviewed, Pending
<1> QED
  BY <1>1, CertificatesAfter, RequestsAfter DEF CertificatesOfUser, RequestsOfUser

LEMMA RemembersThroughWrites ==
    ASSUME Orderly, ReadsTypeOK, Next, Recorded, Remembers
    PROVE  Remembers'
<1>1. reading' = NoReading \/ reading' = reading
  BY DEF Recorded
<1>2. CASE reading' = NoReading
  BY <1>2 DEF Remembers, NoReading, None
<1>3. CASE reading' = reading /\ reading.op \in {"current", "status"}
  <2>1. PICK u : u = reading.user
    OBVIOUS
  <2>2. /\ \A c \in CertificatesOfUser(u) :
              /\ c \in CertificatesOfUser(u)'
              /\ certificates[c].isRevoked => certificates'[c].isRevoked
        /\ \A r \in RequestsOfUser(u) :
              /\ r \in RequestsOfUser(u)'
              /\ requests[r].status = "APPROVED" => requests'[r] = requests[r]
    BY RowsRemain DEF Orderly
  <2>3. /\ reading.there \subseteq CertificatesOfUser(u)
        /\ reading.there \subseteq CertificatesOfUser(u)'
    BY <1>3, <2>1, <2>2 DEF Remembers
  <2>4. \A r \in reading.approved :
           /\ r \in RequestsOfUser(u)'
           /\ requests'[r].status = "APPROVED"
           /\ requests'[r].issued \in reading.there
    BY <1>3, <2>1, <2>2 DEF Remembers
  <2>5. reading.status = "APPROVED" =>
           /\ reading.request \in RequestsOfUser(u)'
           /\ requests'[reading.request].status = "APPROVED"
    BY <1>3, <2>1, <2>2 DEF Remembers
  <2>6. /\ CertificatesOfUser(reading.user)' = CertificatesOfUser(u)'
        /\ RequestsOfUser(reading.user)' = RequestsOfUser(u)'
    BY <1>3, <2>1 DEF CertificatesOfUser, RequestsOfUser
  <2> QED
    BY <1>3, <2>1, <2>2, <2>3, <2>4, <2>5, <2>6 DEF Remembers
<1> QED
  BY <1>1, <1>2, <1>3 DEF Remembers

\* An approved request names a certificate of its user.
LEMMA IssuedToItsUser ==
    ASSUME Orderly, NEW u, NEW r \in RequestsOfUser(u), requests[r].status = "APPROVED"
    PROVE  requests[r].issued \in CertificatesOfUser(u)
<1>1. r \in DOMAIN requests /\ requests[r].user = u
  BY DEF RequestsOfUser
<1>2. PICK c \in DOMAIN certificates : c = requests[r].issued
  BY <1>1 DEF Orderly, ApprovedAreIssued, IssuedExist
<1>3. PICK q \in DOMAIN requests :
         /\ requests[q].user = certificates[c].user
         /\ {o \in DOMAIN requests : requests[o].issued = c} = {q}
  BY DEF Orderly, AllNamed, NamedByItsRequest
<1>4. r = q
  BY <1>1, <1>2, <1>3
<1> QED
  BY <1>1, <1>2, <1>3, <1>4 DEF CertificatesOfUser

\* What a read of certificates finds when it begins.
LEMMA RemembersFromTheStart ==
    ASSUME Orderly, NEW u \in User, NEW op \in {"current", "status"}, NEW waits,
           "certificate" \in waits, op = "status" => "revocation" \in waits,
           reading' = CertificateRead(op, u, waits), UNCHANGED vars
    PROVE  Remembers'
<1>1. /\ reading'.op = op /\ reading'.user = u /\ reading'.waits = waits
      /\ reading'.status = None
      /\ reading'.there = CertificatesOfUser(u) /\ reading'.current = Unrevoked(u)
      /\ reading'.approved = {r \in RequestsOfUser(u) : requests[r].status = "APPROVED"}
  BY DEF CertificateRead, NoReading
<1>2. /\ CertificatesOfUser(reading.user)' = CertificatesOfUser(u)
      /\ RequestsOfUser(reading.user)' = RequestsOfUser(u)
      /\ certificates' = certificates /\ requests' = requests
  BY <1>1 DEF CertificatesOfUser, RequestsOfUser, vars, tables
<1>3. Unrevoked(u) \subseteq CertificatesOfUser(u)
      /\ \A c \in CertificatesOfUser(u) \ Unrevoked(u) : certificates[c].isRevoked
  BY DEF Unrevoked, CertificatesOfUser
<1>4. \A r \in reading'.approved :
         /\ r \in RequestsOfUser(u) /\ requests[r].status = "APPROVED"
         /\ requests[r].issued \in CertificatesOfUser(u)
  BY <1>1, IssuedToItsUser
<1>5. "APPROVED" # None
  BY DEF None
<1> QED
  BY <1>1, <1>2, <1>3, <1>4, <1>5 DEF Remembers

\* A query leaves alone what the read remembers of its beginning.
Recalls ==
    /\ reading'.op = reading.op /\ reading'.user = reading.user
    /\ reading'.there = reading.there /\ reading'.current = reading.current
    /\ reading'.approved = reading.approved

LEMMA RemembersThroughQueries ==
    ASSUME TypeOK, ReadsTypeOK, RevocationsAreStamped, Remembers,
           UNCHANGED <<vars, signed, lastRevoked>>,
           \/ CurrentCertificate \/ CurrentRequest \/ StatusCertificate
           \/ StatusRequest \/ StatusPolicy \/ StatusRevocation
    PROVE  Remembers'
<1>1. /\ reading \in Reading /\ reading.op \in {"current", "status"}
      /\ certificates' = certificates /\ requests' = requests
  BY DEF ReadsTypeOK, vars, tables, CurrentCertificate, CurrentRequest,
     StatusCertificate, StatusRequest, StatusPolicy, StatusRevocation
<1>2. reading.user \in User
  BY <1>1 DEF ReadsTypeOK, WaitsOK, None
<1>3. PICK u : u = reading.user
  OBVIOUS
<1>4. Recalls => /\ CertificatesOfUser(reading.user)' = CertificatesOfUser(u)
                 /\ RequestsOfUser(reading.user)' = RequestsOfUser(u)
  BY <1>1, <1>3 DEF Recalls, CertificatesOfUser, RequestsOfUser
\* An answer to one query keeps what the others found.
<1>5. ASSUME CurrentCertificate \/ StatusCertificate PROVE Remembers'
  <2>1. PICK c \in FindLatest(Unrevoked(u)) :
           /\ Recalls
           /\ reading'.certificate = c
           /\ reading'.request = reading.request /\ reading'.status = reading.status
           /\ reading'.revocation = reading.revocation
           /\ reading.op = "status" => reading'.waits = reading.waits \ {"certificate"}
    BY <1>1, <1>3, <1>5
       DEF Recalls, CurrentCertificate, StatusCertificate, Found, Reading
  <2>2. c = 0 => Unrevoked(u) = {}
    BY <1>2, <1>3, LatestIsFound
  <2>3. c = 0 => \A b \in reading.there : certificates[b].isRevoked
    BY <1>1, <1>3, <2>2 DEF Remembers, CertificatesOfUser, Unrevoked
  <2> QED
    BY <1>1, <1>3, <1>4, <2>1, <2>3 DEF Remembers, Recalls
<1>6. ASSUME CurrentRequest \/ StatusRequest PROVE Remembers'
  <2>1. PICK r \in LatestRequest(u) :
           /\ Recalls
           /\ reading'.request = r /\ reading'.status = StatusOf(r)
           /\ reading'.certificate = reading.certificate
           /\ reading'.revocation = reading.revocation
           /\ reading'.waits = reading.waits \ {"request"}
    BY <1>1, <1>3, <1>6
       DEF Recalls, CurrentRequest, StatusRequest, Found, Reading
  <2>2. StatusOf(r) = "APPROVED" =>
           r \in RequestsOfUser(u) /\ requests[r].status = "APPROVED"
    BY <1>2, <1>3, LatestIsFound DEF StatusOf, LatestRequest, None
  <2> QED
    BY <1>1, <1>3, <1>4, <2>1, <2>2 DEF Remembers, Recalls
<1>7. ASSUME StatusPolicy PROVE Remembers'
  <2>1. /\ Recalls
        /\ reading'.request = reading.request /\ reading'.status = reading.status
        /\ reading'.certificate = reading.certificate
        /\ reading'.revocation = reading.revocation
        /\ reading'.waits = reading.waits \ {"policy"}
    BY <1>1, <1>7 DEF Recalls, StatusPolicy, Found, Reading
  <2> QED
    BY <1>1, <1>3, <1>4, <2>1 DEF Remembers, Recalls
<1>8. ASSUME StatusRevocation PROVE Remembers'
  <2>1. PICK c \in FindFirst(lastRevoked[u]) :
           /\ Recalls
           /\ reading'.request = reading.request /\ reading'.status = reading.status
           /\ reading'.certificate = reading.certificate
           /\ reading'.revocation = c
           /\ reading'.waits = reading.waits \ {"revocation"}
    BY <1>1, <1>3, <1>8 DEF Recalls, StatusRevocation, Found, Reading
  <2>2. c = 0 => reading.there \subseteq reading.current
    <3>1. c = 0 => lastRevoked[u] = {}
      BY <1>2, <1>3 DEF FindFirst, RevocationsAreStamped
    <3> QED
      BY <1>1, <1>2, <1>3, <3>1 DEF Remembers, RevocationsAreStamped
  <2> QED
    BY <1>1, <1>3, <1>4, <2>1, <2>2 DEF Remembers, Recalls
<1> QED
  BY <1>5, <1>6, <1>7, <1>8

-----------------------------------------------------------------------------
(* Between the two queries of getCurrent(). *)

\* issue() comes to these labels only by way of the look for an active
\* certificate.
LEMMA IssuingStep ==
    ASSUME Consistency, [Next]_vars, NEW p \in Call, Issuing(p)'
    PROVE  /\ ctx'[p].user = ctx[p].user
           /\ \/ Issuing(p)
              \/ /\ pc[p] = "issue.certificate" /\ pc'[p] # pc[p]
                 /\ MayFindNoActiveCertificate(ctx[p].user)
<1>1. /\ pc'[p] \in {"issue.pending", "issue.keyCertificate", "issue.create"} \cup Replacing
      /\ pc'[p] \in Replacing => ctx'[p].op = "issue"
      /\ pc'[p] # "idle"
  BY DEF Issuing, Replacing
<1>2. CASE Stays(p)
  BY <1>1, <1>2 DEF Stays, Issuing
<1>3. ~Enters(p)
  BY <1>1 DEF Enters, Entries, Replacing
<1>4. CASE Continues(p)
  BY <1>1, <1>4 DEF Continues, Issuing, Replacing
<1>5. CASE TakesKeyPair(p)
  BY <1>1, <1>5, <1>3, SameUser DEF TakesKeyPair, Issuing, Replacing, Stays
<1>6. CASE TakesCertificate(p)
  BY <1>1, <1>6 DEF TakesCertificate, Replacing
<1> QED
  BY <1>1, <1>2, <1>3, <1>4, <1>5, <1>6, Edges DEF Edge

\* A user gets a certificate only from an approval.
LEMMA NewlyUnrevoked ==
    ASSUME Consistency, [Next]_vars, NEW u, NEW c \in Unrevoked(u)'
    PROVE  \/ c \in DOMAIN certificates /\ c \in Unrevoked(u)
           \/ /\ c \notin DOMAIN certificates /\ c = Len(certificates) + 1
              /\ \E p \in Call :
                    /\ pc[p] = "approve.commit" /\ pc'[p] = "idle" /\ ctx[p].user = u
                    /\ requests' = [requests EXCEPT ![ctx[p].request] = Approved(@, c)]
<1>1. c \in DOMAIN certificates' /\ certificates'[c].user = u /\ ~certificates'[c].isRevoked
  BY DEF Unrevoked
<1>2. CASE c \in DOMAIN certificates
  BY <1>1, <1>2, CertificatesAfter DEF Unrevoked
<1>3. CASE c \notin DOMAIN certificates
  BY <1>1, <1>3, NewCertificates
<1> QED
  BY <1>2, <1>3

LEMMA CameAndWentForGood ==
    ASSUME Orderly, [Next]_vars, NEW u, CameAndWent(u), reading' = reading
    PROVE  CameAndWent(u)'
<1>1. PICK c \in CertificatesOfUser(u) \ reading.there : certificates[c].notAfter <= now
  BY DEF CameAndWent
<1>2. c \in CertificatesOfUser(u)' /\ certificates'[c].notAfter = certificates[c].notAfter
  BY <1>1, RowsRemain DEF Orderly
<1>3. now' \in Nat /\ now \in Nat /\ now <= now'
  BY Later DEF Orderly, Consistency, TypeOK, TablesOK
<1>4. certificates[c].notAfter \in Nat
  BY <1>1, RowTypes DEF CertificatesOfUser, Orderly, Consistency, TypeOK, Certificate
<1>5. certificates'[c].notAfter <= now'
  BY <1>1, <1>2, <1>3, <1>4
<1> QED
  BY <1>1, <1>2, <1>5 DEF CameAndWent

\* A request that follows one of an unrevoked certificate was filed by a call
\* that got past the look for an active certificate.
LEMMA FollowedThroughWrites ==
    ASSUME Orderly, PendingIsLatest, [Next]_vars, NEW u, reading' = reading,
           OnlyExpiredAreFollowed(u),
           NEW c \in Unrevoked(u)', NEW q \in RequestsOfUser(u)',
           NEW r \in RequestsOfUser(u)', requests'[r].issued = c, r < q
    PROVE  CameAndWent(u)'
<1>1. /\ Consistency /\ AllKnow /\ IssuedExist
      /\ certificates \in Seq(Certificate) /\ Len(certificates) \in Nat
      /\ DOMAIN certificates = 1..Len(certificates)
      /\ requests \in Seq(Request) /\ Len(requests) \in Nat
      /\ DOMAIN requests = 1..Len(requests)
  BY DEF Orderly, Consistency, TypeOK, TablesOK
<1>2. /\ q \in DOMAIN requests' /\ r \in DOMAIN requests'
      /\ requests'[q].user = u /\ requests'[r].user = u
  BY DEF RequestsOfUser
<1>3. c # 0 /\ c \in DOMAIN certificates'
  BY <1>1, NewlyUnrevoked DEF Unrevoked
<1>4. r \in DOMAIN requests /\ r \in RequestsOfUser(u)
  <2>1. r \in DOMAIN requests
    BY <1>1, <1>2, <1>3, NewRequests
  <2> QED
    BY <1>1, <1>2, <2>1, RequestsAfter DEF RequestsOfUser
<1>5. CASE c \in DOMAIN certificates /\ c \in Unrevoked(u)
  <2>1. requests[r].issued = c
    <3>1. c # Len(certificates) + 1
      BY <1>1, <1>5
    <3> QED
      BY <1>1, <1>4, <3>1, RequestsAfter
  <2>2. CASE q \in DOMAIN requests
    <3>1. q \in RequestsOfUser(u)
      BY <1>1, <1>2, <2>2, RequestsAfter DEF RequestsOfUser
    <3> QED
      BY <1>4, <1>5, <2>1, <3>1, CameAndWentForGood DEF OnlyExpiredAreFollowed
  <2>3. CASE q \notin DOMAIN requests
    <3>1. PICK p \in Call : pc[p] = "issue.create" /\ ctx[p].user = u
      BY <1>1, <1>2, <2>3, NewRequests
    <3>2. Issuing(p) /\ Unrevoked(u) # {}
      BY <1>5, <3>1 DEF Issuing
    <3> QED
      BY <3>1, <3>2, CameAndWentForGood DEF OnlyExpiredAreFollowed
  <2> QED
    BY <2>2, <2>3
<1>6. CASE c \notin DOMAIN certificates
  <2>1. PICK p \in Call :
           /\ pc[p] = "approve.commit" /\ ctx[p].user = u
           /\ requests' = [requests EXCEPT ![ctx[p].request] = Approved(@, c)]
    BY <1>1, <1>6, NewlyUnrevoked
  <2>2. r = ctx[p].request
    BY <1>1, <1>3, <1>4, <1>6, <2>1 DEF IssuedExist
  <2>3. r \in Pending(u)
    BY <1>1, <2>1, <2>2 DEF AllKnow, Knows, Reviewed
  <2>4. u \in User
    BY <1>1, <1>4, RowTypes DEF RequestsOfUser, Request, Consistency, TypeOK
  <2>5. q \in RequestsOfUser(u)
    BY <1>1, <1>2, <2>1, RequestsAfter DEF RequestsOfUser
  <2> QED
    BY <1>1, <1>4, <2>3, <2>4, <2>5 DEF PendingIsLatest, RequestsOfUser
<1> QED
  BY <1>1, <1>5, <1>6, NewlyUnrevoked

\* Nothing is issued to a user while a call of the user is under way.
LEMMA NothingIssuedMeanwhile ==
    ASSUME Orderly, [Next]_vars, NEW p \in Call, pc[p] # "idle",
           pc[p] # "approve.commit", Unrevoked(ctx[p].user) = {}, NEW u,
           u = ctx[p].user
    PROVE  Unrevoked(u)' = {}
<1>1. SUFFICES ASSUME NEW c \in Unrevoked(u)' PROVE FALSE
  OBVIOUS
<1>2. c \notin Unrevoked(u) /\ Consistency /\ OneAtATime
  BY DEF Orderly
<1>3. PICK q \in Call : pc[q] = "approve.commit" /\ ctx[q].user = u
  BY <1>1, <1>2, NewlyUnrevoked
<1> QED
  BY <1>2, <1>3 DEF OneAtATime

LEMMA RefusingThroughWrites ==
    ASSUME Orderly, PendingIsLatest, ReadsTypeOK, Remembers, Refusing,
           Next, Recorded
    PROVE  Refusing'
<1>1. CASE reading' = NoReading
  BY <1>1 DEF Refusing, NoReading, None
<1>2. CASE reading' = reading /\ reading.op = "current" /\ reading.waits = {"request"}
  <2>1. PICK u : u = reading.user
    OBVIOUS
  <2>2. /\ reading.certificate = 0 /\ OnlyExpiredAreFollowed(u)
        /\ \A c \in reading.there : certificates[c].isRevoked
    BY <1>2, <2>1 DEF Refusing, Remembers
  <2>3. ASSUME NEW c \in Unrevoked(u)', NEW q \in RequestsOfUser(u)',
               NEW r \in RequestsOfUser(u)', requests'[r].issued = c, r < q
        PROVE  CameAndWent(u)'
    BY <1>2, <2>2, <2>3, FollowedThroughWrites
  <2>4. ASSUME NEW p \in Call, ctx'[p].user = u, Issuing(p)', Unrevoked(u)' # {}
        PROVE  CameAndWent(u)'
    <3>1. Consistency
      BY DEF Orderly
    <3>2. /\ ctx[p].user = u
          /\ \/ Issuing(p)
             \/ pc[p] = "issue.certificate" /\ MayFindNoActiveCertificate(u)
      BY <2>4, <3>1, IssuingStep
    <3>3. Unrevoked(u) # {}
      BY <2>4, <3>2, NothingIssuedMeanwhile DEF Issuing, Replacing
    <3>4. CASE Issuing(p)
      BY <1>2, <2>2, <3>2, <3>3, <3>4, CameAndWentForGood DEF OnlyExpiredAreFollowed
    <3>5. CASE MayFindNoActiveCertificate(u)
      <4>1. PICK e \in Unrevoked(u) : ~(certificates[e].notAfter > now)
        BY <3>3, <3>5 DEF MayFindNoActiveCertificate, Live
      <4>2. /\ e \in CertificatesOfUser(u) \ reading.there
            /\ certificates[e].notAfter \in Nat /\ now \in Nat
        BY <2>2, <3>1, RowTypes DEF Unrevoked, CertificatesOfUser, Consistency,
           TypeOK, TablesOK, Certificate
      <4>3. CameAndWent(u)
        BY <4>1, <4>2 DEF CameAndWent
      <4> QED
        BY <1>2, <4>3, CameAndWentForGood
    <3> QED
      BY <3>2, <3>4, <3>5
  <2>5. OnlyExpiredAreFollowed(u)'
    BY <2>3, <2>4 DEF OnlyExpiredAreFollowed
  <2>6. OnlyExpiredAreFollowed(reading.user)' = OnlyExpiredAreFollowed(u)'
    BY <1>2, <2>1 DEF OnlyExpiredAreFollowed, CameAndWent, CertificatesOfUser,
       Unrevoked, RequestsOfUser
  <2> QED
    BY <1>2, <2>2, <2>5, <2>6 DEF Refusing
<1> QED
  BY <1>1, <1>2 DEF Recorded, Refusing

\* The query that finds no certificate finds none followed by a request.
LEMMA NoneIsFollowed ==
    ASSUME TypeOK, ReadsTypeOK, CurrentCertificate, UNCHANGED vars
    PROVE  Refusing'
<1>1. /\ reading \in Reading /\ reading.op = "current" /\ reading.user \in User
  BY DEF ReadsTypeOK, WaitsOK, CurrentCertificate, None
<1>2. PICK u \in User : u = reading.user
  BY <1>1
<1>3. PICK c \in FindLatest(Unrevoked(u)) :
         reading' = [reading EXCEPT !.certificate = c,
                                    !.waits = IF c = 0 THEN {"request"} ELSE {}]
  BY <1>2 DEF CurrentCertificate
<1>4. /\ reading'.certificate = c /\ reading'.user = u
      /\ reading'.waits = IF c = 0 THEN {"request"} ELSE {}
  BY <1>1, <1>2, <1>3 DEF Reading
<1>5. CASE c = 0
  <2>1. Unrevoked(u) = {}
    BY <1>5, LatestIsFound
  <2>2. Unrevoked(reading.user)' = {}
    BY <1>4, <2>1 DEF Unrevoked, vars, tables
  <2> QED
    BY <1>4, <1>5, <2>2 DEF Refusing, OnlyExpiredAreFollowed
<1>6. CASE c # 0
  BY <1>4, <1>6 DEF Refusing
<1> QED
  BY <1>5, <1>6

\* The query that finds the latest request finds the one of a certificate in
\* force, unless another certificate came and went.
LEMMA RefusalIsFound ==
    ASSUME Orderly, ReadsTypeOK, Remembers, Refusing, CurrentRequest,
           UNCHANGED vars
    PROVE  RefusalIsTrue'
<1>1. /\ reading \in Reading /\ reading.op = "current" /\ reading.user \in User
      /\ reading.waits = {"request"}
      /\ TypeOK /\ ApprovedAreIssued /\ AllNamed
  BY DEF ReadsTypeOK, WaitsOK, CurrentRequest, None, Orderly, Consistency
<1>2. PICK u \in User : u = reading.user
  BY <1>1
<1>3. PICK r \in LatestRequest(u) :
         /\ reading'.status = StatusOf(r) /\ reading'.request = r
         /\ reading'.user = u /\ reading'.there = reading.there
         /\ reading'.approved = reading.approved
  BY <1>1, <1>2 DEF CurrentRequest, Found, Reading
<1>4. /\ certificates' = certificates /\ requests' = requests /\ now' = now
      /\ CertificatesOfUser(reading.user)' = CertificatesOfUser(u)
      /\ Live(reading.user)' = Live(u)
  BY <1>3 DEF vars, tables, CertificatesOfUser, Live, Unrevoked
<1>5. /\ r = 0 => RequestsOfUser(u) = {}
      /\ r # 0 => r \in RequestsOfUser(u) /\ \A q \in RequestsOfUser(u) : q <= r
  BY <1>1, LatestIsFound DEF LatestRequest
<1>6. CASE StatusOf(r) # "APPROVED"
  <2>1. ASSUME NEW c \in Live(u) PROVE CameAndWent(u)
    <3>1. c \in Unrevoked(u) /\ c \in DOMAIN certificates /\ certificates[c].user = u
          /\ c # 0
      BY <1>1, QueriesReturnIds DEF Live, Unrevoked
    <3>2. PICK q \in DOMAIN requests : requests[q].user = u /\ requests[q].issued = c
      BY <1>1, <3>1 DEF AllNamed, NamedByItsRequest
    <3>3. q \in RequestsOfUser(u) /\ requests[q].status = "APPROVED"
      BY <1>1, <3>1, <3>2 DEF RequestsOfUser, ApprovedAreIssued
    <3>4. r \in RequestsOfUser(u) /\ q <= r /\ r # 0
      BY <1>5, <3>3
    <3>5. q # r /\ q \in Nat /\ r \in Nat
      BY <1>1, <1>6, <3>3, <3>4, QueriesReturnIds DEF StatusOf
    <3>6. q < r
      BY <3>4, <3>5
    <3>7. OnlyExpiredAreFollowed(u)
      BY <1>1, <1>2 DEF Refusing
    <3> QED
      BY <3>1, <3>2, <3>3, <3>4, <3>6, <3>7 DEF OnlyExpiredAreFollowed
  <2> QED
    BY <1>3, <1>4, <1>6, <2>1 DEF RefusalIsTrue, CameAndWent
<1>7. CASE StatusOf(r) = "APPROVED"
  <2>1. r \in RequestsOfUser(u) /\ requests[r].status = "APPROVED"
    BY <1>5, <1>7 DEF StatusOf, None
  <2>2. requests[r].issued \in CertificatesOfUser(u)
    BY <2>1, IssuedToItsUser
  <2>3. r \in reading.approved => certificates[requests[r].issued].isRevoked
    BY <1>1 DEF Remembers, Refusing
  <2> QED
    BY <1>3, <1>4, <1>7, <2>2, <2>3 DEF RefusalIsTrue
<1> QED
  BY <1>6, <1>7

\* A read that has not ended, or whose answer is forgotten, refuses nothing.
LEMMA NothingRefused ==
    ASSUME reading'.op # "current" \/ reading'.waits # {}
              \/ reading'.certificate # 0
    PROVE  RefusalIsTrue'
  BY DEF RefusalIsTrue, Done

LEMMA TruthfulThroughReads ==
    ASSUME Truthful, ReadStep, UNCHANGED <<vars, signed, lastRevoked>>
    PROVE  /\ PendingIsLatest' /\ RevocationsAreStamped'
           /\ Remembers' /\ Refusing' /\ RefusalIsTrue'
<1>1. /\ Orderly /\ TypeOK /\ ReadsTypeOK /\ Remembers /\ Refusing
      /\ RevocationsAreStamped /\ reading \in Reading /\ UNCHANGED vars
      /\ certificates' = certificates /\ requests' = requests
  BY DEF Truthful, Orderly, Consistency, ReadsTypeOK, vars, tables
<1>2. PendingIsLatest' /\ RevocationsAreStamped'
  BY <1>1 DEF Truthful, PendingIsLatest, RevocationsAreStamped, Pending,
     RequestsOfUser, CertificatesOfUser
<1>3. ASSUME NEW u \in User, StartCurrent(u) \/ StartStatus(u)
      PROVE  Remembers' /\ Refusing' /\ RefusalIsTrue'
  <2>1. PICK op \in {"current", "status"},
             waits \in {{"certificate"},
                        {"certificate", "request", "policy", "revocation"}} :
           /\ reading' = CertificateRead(op, u, waits)
           /\ op = "status" => "revocation" \in waits
    BY <1>3 DEF StartCurrent, StartStatus, Begins
  <2>2. "certificate" \in waits /\ reading'.waits = waits
    BY <2>1 DEF CertificateRead, NoReading
  <2>3. Remembers'
    BY <1>1, <2>1, <2>2, RemembersFromTheStart
  <2> QED
    BY <2>2, <2>3, NothingRefused DEF Refusing
<1>4. ASSUME NEW u \in User, StartHistory(u)
      PROVE  Remembers' /\ Refusing' /\ RefusalIsTrue'
  <2>1. reading'.op = "history"
    BY <1>4 DEF StartHistory, Begins, NoReading
  <2> QED
    BY <2>1, NothingRefused DEF Remembers, Refusing
<1>5. ASSUME CurrentCertificate PROVE Remembers' /\ Refusing' /\ RefusalIsTrue'
  <2>1. reading'.certificate # 0 \/ reading'.waits # {}
    BY <1>1, <1>5 DEF CurrentCertificate, Reading
  <2>2. Remembers'
    BY <1>1, <1>5, RemembersThroughQueries
  <2>3. Refusing'
    BY <1>1, <1>5, NoneIsFollowed
  <2> QED
    BY <2>1, <2>2, <2>3, NothingRefused
<1>6. ASSUME CurrentRequest PROVE Remembers' /\ Refusing' /\ RefusalIsTrue'
  <2>1. "request" \notin reading'.waits
    BY <1>1, <1>6 DEF CurrentRequest, Found, Reading
  <2>2. Remembers'
    BY <1>1, <1>6, RemembersThroughQueries
  <2> QED
    BY <1>1, <1>6, <2>1, <2>2, RefusalIsFound DEF Refusing
<1>7. ASSUME StatusCertificate \/ StatusRequest \/ StatusPolicy \/ StatusRevocation
      PROVE  Remembers' /\ Refusing' /\ RefusalIsTrue'
  <2>1. reading'.op = "status"
    BY <1>1, <1>7 DEF StatusCertificate, StatusRequest, StatusPolicy,
       StatusRevocation, Found, Reading
  <2>2. Remembers'
    BY <1>1, <1>7, RemembersThroughQueries
  <2> QED
    BY <2>1, <2>2, NothingRefused DEF Refusing
<1>8. ASSUME HistoryCount \/ HistoryRefused \/ HistoryPage \/ HistoryNext
      PROVE  Remembers' /\ Refusing' /\ RefusalIsTrue'
  <2>1. reading.op = "history"
    BY <1>1, <1>8 DEF HistoryCount, HistoryRefused, HistoryPage, HistoryNext,
       ReadsTypeOK, WaitsOK, Reading
  <2>2. reading'.op \in {None, "history"}
    <3>1. CASE HistoryRefused
      BY <3>1 DEF HistoryRefused, NoReading
    <3>2. CASE HistoryPage
      <4>1. PICK items :
               reading' = [[reading EXCEPT !.items = items, !.seen = @ \cup items]
                              EXCEPT !.waits = @ \ {"page"}]
        BY <3>2 DEF HistoryPage, Found
      <4> QED
        BY <1>1, <2>1, <4>1 DEF Reading
    <3>3. CASE HistoryCount
      <4>1. PICK n : reading' = [reading EXCEPT !.total = n, !.waits = {"page"}]
        BY <3>3 DEF HistoryCount
      <4> QED
        BY <1>1, <2>1, <4>1 DEF Reading
    <3>4. CASE HistoryNext
      BY <1>1, <2>1, <3>4 DEF HistoryNext, Reading
    <3> QED
      BY <1>8, <3>1, <3>2, <3>3, <3>4
  <2> QED
    BY <2>2, NothingRefused DEF Remembers, Refusing, None
<1> QED
  BY <1>2, <1>3, <1>4, <1>5, <1>6, <1>7, <1>8 DEF ReadStep

LEMMA RefusalThroughWrites ==
    ASSUME RefusalIsTrue, Recorded
    PROVE  RefusalIsTrue'
<1>1. CASE Done
  BY <1>1, NothingRefused DEF Recorded, NoReading, None
<1>2. CASE ~Done
  BY <1>2 DEF Recorded, Done, RefusalIsTrue
<1> QED
  BY <1>1, <1>2

LEMMA TruthfulStart == ReadsInit => Truthful
<1> SUFFICES ASSUME ReadsInit PROVE Truthful
  OBVIOUS
<1>1. Orderly /\ ReadsTypeOK
  BY OrderlyStart, ReadsTypesStart DEF ReadsInit
<1>2. /\ certificates = << >> /\ requests = << >> /\ reading.op = None
      /\ lastRevoked = [u \in User |-> {}]
  BY DEF ReadsInit, Init, EmptyTables, NoReading
<1>3. PendingIsLatest /\ RevocationsAreStamped
  BY <1>2 DEF PendingIsLatest, RevocationsAreStamped, Pending, CertificatesOfUser
<1>4. Remembers /\ Refusing /\ RefusalIsTrue
  BY <1>2 DEF Remembers, Refusing, RefusalIsTrue, None
<1> QED
  BY <1>1, <1>3, <1>4 DEF Truthful

LEMMA TruthfulStep == Truthful /\ [SerialReadsNext]_readVars => Truthful'
<1> SUFFICES ASSUME Truthful, [SerialReadsNext]_readVars PROVE Truthful'
  OBVIOUS
<1>1. [SerialNext]_vars /\ [ReadsNext]_readVars
  BY SerialIsNext DEF SerialReadsNext, ReadsNext, readVars
<1>2. Orderly' /\ ReadsTypeOK'
  BY <1>1, OrderlyStep, ReadsTypesKept DEF Truthful, Orderly
<1>3. CASE ReadStep /\ UNCHANGED <<vars, signed, lastRevoked>>
  BY <1>2, <1>3, TruthfulThroughReads DEF Truthful
<1>4. CASE Next /\ Recorded
  <2>1. Orderly /\ Consistency /\ AllKnow /\ ReadsTypeOK /\ [Next]_vars
    BY <1>4 DEF Truthful, Orderly
  <2>2. PendingIsLatest' /\ RevocationsAreStamped'
    BY <1>4, <2>1, PendingIsLatestStep, StampsStep DEF Truthful, Recorded
  <2>3. Remembers' /\ Refusing' /\ RefusalIsTrue'
    BY <1>4, <2>1, RemembersThroughWrites, RefusingThroughWrites,
       RefusalThroughWrites DEF Truthful
  <2> QED
    BY <1>2, <2>2, <2>3 DEF Truthful
<1>5. CASE UNCHANGED readVars
  <2>1. /\ reading' = reading /\ certificates' = certificates /\ now' = now
        /\ requests' = requests /\ lastRevoked' = lastRevoked
        /\ pc' = pc /\ ctx' = ctx
    BY <1>5 DEF readVars, vars, tables
  <2>2. PendingIsLatest' /\ RevocationsAreStamped' /\ Remembers'
    BY <2>1 DEF Truthful, PendingIsLatest, RevocationsAreStamped, Remembers,
       Pending, RequestsOfUser, CertificatesOfUser
  <2>3. Refusing' /\ RefusalIsTrue'
    BY <2>1 DEF Truthful, Refusing, OnlyExpiredAreFollowed, CameAndWent,
       Issuing, RefusalIsTrue, Done, Live, Unrevoked, RequestsOfUser,
       CertificatesOfUser
  <2> QED
    BY <1>2, <2>2, <2>3 DEF Truthful
<1> QED
  BY <1>3, <1>4, <1>5, SerialIsNext DEF SerialReadsNext

\* What the reads of certificates have found stays explained, as long as the
\* calls of one user that write do not overlap.
THEOREM ReadsStayTruthful == SerialReadsSpec => []Truthful
  BY TruthfulStart, TruthfulStep, PTL DEF SerialReadsSpec

\* getCurrent() refuses a user with a certificate in force only if another one
\* was issued and expired between its two queries; and where it says that the
\* latest request was approved, that certificate came, or was revoked, while it
\* looked.
THEOREM RefusalsAreTrue == SerialReadsSpec => []RefusalIsTrue
<1>1. Truthful => RefusalIsTrue
  BY DEF Truthful
<1> QED
  BY <1>1, ReadsStayTruthful, PTL

\* getCurrentStatus() shows an approved request with neither a certificate nor
\* a revocation only if the approval or the revocation raced its four queries.
THEOREM StatusesHideOnlyRaces == SerialReadsSpec => []StatusHidesOnlyRaces
<1>1. Truthful => StatusHidesOnlyRaces
  <2> SUFFICES ASSUME Truthful, reading.op = "status", reading.waits = {},
                      reading.status = "APPROVED", reading.certificate = 0,
                      reading.revocation = 0, reading.request \in reading.approved
               PROVE  LET c == requests[reading.request].issued
                      IN  c \in reading.current /\ certificates[c].isRevoked
    BY DEF StatusHidesOnlyRaces, Done
  <2>1. /\ requests[reading.request].issued \in reading.there
        /\ \A c \in reading.there : certificates[c].isRevoked
        /\ reading.there \subseteq reading.current
    BY DEF Truthful, Remembers
  <2> QED
    BY <2>1
<1> QED
  BY <1>1, ReadsStayTruthful, PTL
=============================================================================
