-------------------------------- MODULE Reads --------------------------------
(***************************************************************************)
(* The endpoints that only read and make more than one query:              *)
(* getCurrent(), getCurrentStatus(), whose four queries run in parallel,   *)
(* and getHistory(), which counts and then lists, once for every page that *)
(* the client walks through.  Calls that write run between their queries.  *)
(* Reads change nothing, so one of them at a time is enough.               *)
(***************************************************************************)
EXTENDS ServiceProperties

CONSTANTS FirstPages,   \* the pages clients ask for first
          Limit,        \* rows a page, limit of getHistory()
          MaxSigned     \* bound: rows of signed

ASSUME PagesAssumption == FirstPages \subseteq {0, 1} /\ Limit \in Nat \ {0}

VARIABLES
    signed,        \* PersonalSignedDocument in the order of its inserts
    lastRevoked,   \* by user, the certificates with the latest revokedAt
    reading        \* the read in flight

readVars == <<vars, signed, lastRevoked, reading>>

\* waits: the queries not yet answered.  certificate, request (and its status
\* when read), access and revocation: what the others found, 0 for null.  page,
\* total, items: the page asked for and its answer.  seen: the rows on the
\* pages so far.  Of the user's rows when the read began, approved: the approved
\* requests; current: the unrevoked certificates; there: the certificates, or,
\* for the history, the rows of signed.
NoReading ==
    [op |-> None, user |-> None, waits |-> {}, certificate |-> 0, request |-> 0,
     status |-> None, access |-> None, revocation |-> 0, page |-> 0,
     total |-> 0, items |-> {}, seen |-> {}, approved |-> {}, current |-> {},
     there |-> {}]

RowsBy(u) == {i \in DOMAIN signed : signed[i].user = u}

\* The last answer has been given; the client forgets it with the next step.
Done == /\ reading.op # None /\ reading.waits = {}
        /\ reading.op = "history" => Cardinality(reading.items) < Limit

Smaller(a, b) == IF a < b THEN a ELSE b

\* Answers a query of the read: Read is the reading with what it found.
Found(q, read) == reading' = [read EXCEPT !.waits = @ \ {q}]

Begins(read) == (reading.op = None \/ Done) /\ reading' = read

CertificateRead(op, u, waits) ==
    [NoReading EXCEPT !.op = op, !.user = u, !.waits = waits,
                      !.approved = {r \in RequestsOfUser(u) :
                                       requests[r].status = "APPROVED"},
                      !.current = Unrevoked(u),
                      !.there = CertificatesOfUser(u)]

-----------------------------------------------------------------------------
(* getCurrent(): GET /signature/certificates/current *)

StartCurrent(u) == Begins(CertificateRead("current", u, {"certificate"}))

\* Without a certificate, the latest request words the refusal.
CurrentCertificate ==
    /\ reading.op = "current" /\ "certificate" \in reading.waits
    /\ \E c \in FindLatest(Unrevoked(reading.user)) :
          reading' = [reading EXCEPT !.certificate = c,
                                     !.waits = IF c = 0 THEN {"request"} ELSE {}]

StatusOf(r) == IF r = 0 THEN None ELSE requests[r].status

\* Variant: without orderBy.
AnyRequest(u) == FindFirst(RequestsOfUser(u))

\* findLatestRequest()
LatestRequest(u) == FindLatest(RequestsOfUser(u))

\* throwForMissingCurrentCertificate(): a message for each status, and for none.
CurrentRequest ==
    /\ reading.op = "current" /\ "request" \in reading.waits
    /\ \E r \in LatestRequest(reading.user) :
          Found("request", [reading EXCEPT !.request = r, !.status = StatusOf(r)])

-----------------------------------------------------------------------------
(* getCurrentStatus(): GET /signature/certificates/status *)

StartStatus(u) ==
    Begins(CertificateRead("status", u,
                           {"certificate", "request", "policy", "revocation"}))

StatusCertificate ==
    /\ reading.op = "status" /\ "certificate" \in reading.waits
    /\ \E c \in FindLatest(Unrevoked(reading.user)) :
          Found("certificate", [reading EXCEPT !.certificate = c])

StatusRequest ==
    /\ reading.op = "status" /\ "request" \in reading.waits
    /\ \E r \in LatestRequest(reading.user) :
          Found("request", [reading EXCEPT !.request = r, !.status = StatusOf(r)])

StatusPolicy ==
    /\ reading.op = "status" /\ "policy" \in reading.waits
    /\ Found("policy", [reading EXCEPT !.access = policy[reading.user]])

\* orderBy: { revokedAt: 'desc' }
StatusRevocation ==
    /\ reading.op = "status" /\ "revocation" \in reading.waits
    /\ \E c \in FindFirst(lastRevoked[reading.user]) :
          Found("revocation", [reading EXCEPT !.revocation = c])

-----------------------------------------------------------------------------
(* getHistory(): GET /signature/signing/history *)

StartHistory(u) ==
    \E page \in FirstPages :
        Begins([NoReading EXCEPT !.op = "history", !.user = u, !.page = page,
                                 !.waits = {"count"}, !.there = RowsBy(u)])

\* Variant: the list is in no order.
HeadsInAnyOrder(rows, n) ==
    {head \in SUBSET rows : Cardinality(head) = Smaller(Cardinality(rows), n)}

\* orderBy: { signedAt: 'desc' }: what the first n rows may be, the newest, and
\* of rows signed in one millisecond any.
Heads(rows, n) ==
    {head \in SUBSET rows :
        /\ Cardinality(head) = Smaller(Cardinality(rows), n)
        /\ \A i \in head, j \in rows :
              signed[j].signedAt > signed[i].signedAt => j \in head}

\* Variant: pages are numbered from 0.
SkipFromZero(page) == page * Limit

Skip(page) == (page - 1) * Limit

HistoryCount ==
    /\ "count" \in reading.waits
    /\ reading' = [reading EXCEPT !.total = Cardinality(RowsBy(reading.user)),
                                  !.waits = {"page"}]

\* Prisma refuses a negative skip.
HistoryRefused ==
    /\ "page" \in reading.waits /\ reading.page = 0
    /\ reading' = NoReading

HistoryPage ==
    /\ "page" \in reading.waits /\ reading.page # 0
    /\ \E head \in Heads(RowsBy(reading.user), Skip(reading.page)),
          tail \in Heads(RowsBy(reading.user), Skip(reading.page) + Limit) :
          /\ head \subseteq tail
          /\ Found("page", [reading EXCEPT !.items = tail \ head,
                                           !.seen = @ \cup (tail \ head)])

\* The page was full: the client asks for the next one.
HistoryNext ==
    /\ reading.op = "history" /\ reading.waits = {}
    /\ Cardinality(reading.items) = Limit
    /\ reading' = [reading EXCEPT !.page = @ + 1, !.items = {},
                                  !.waits = {"count"}]

-----------------------------------------------------------------------------
ReadStep ==
    \/ \E u \in User : StartCurrent(u) \/ StartStatus(u) \/ StartHistory(u)
    \/ CurrentCertificate \/ CurrentRequest
    \/ StatusCertificate \/ StatusRequest \/ StatusPolicy \/ StatusRevocation
    \/ HistoryCount \/ HistoryRefused \/ HistoryPage \/ HistoryNext

-----------------------------------------------------------------------------
(* What the steps of the service do to the columns only the reads look at. *)

\* The calls about u whose statement is executed in this step.
Executing(u, label) == {p \in Call : /\ pc[p] = label /\ ctx[p].user = u
                                     /\ pc'[p] # label /\ failures' = failures}

\* Variant: a rotation leaves revokedAt null.
StampedByUser(u) == {ctx[p].certificate : p \in Executing(u, "revoke.update")}

\* The certificates whose revokedAt is set, now.
Stamped(u) ==
    {ctx[p].certificate : p \in Executing(u, "revoke.update")}
    \cup {c \in Unrevoked(u) : Executing(u, "rotate.revoke") # {}}

StampRevocations ==
    lastRevoked' = [u \in User |->
                       IF Stamped(u) = {} THEN lastRevoked[u] ELSE Stamped(u)]

\* signedAt is the clock of the insert, in milliseconds: that of the row before
\* or a later one.
AppendSigned ==
    LET last == IF signed = << >> THEN 0 ELSE signed[Len(signed)].signedAt
    IN  IF \E u \in User : Executing(u, "sign.create") # {}
        THEN \E u \in User, t \in {last, last + 1} :
                /\ Executing(u, "sign.create") # {}
                /\ signed' = Append(signed, [user |-> u, signedAt |-> t])
        ELSE UNCHANGED signed

SignedRoom == Len(signed) + Cardinality(InFlight({"sign"})) <= MaxSigned

\* With each step of the service.
Recorded ==
    /\ StampRevocations /\ AppendSigned /\ SignedRoom'
    /\ reading' = IF Done THEN NoReading ELSE reading

ReadsInit ==
    /\ Init
    /\ signed = << >>
    /\ lastRevoked = [u \in User |-> {}]
    /\ reading = NoReading

ReadsNext ==
    \/ ReadStep /\ UNCHANGED <<vars, signed, lastRevoked>>
    \/ Next /\ Recorded

ReadsSpec == ReadsInit /\ [][ReadsNext]_readVars

\* The calls about one user that write come one after the other; those that
\* read come at any time.
SerialReadsNext ==
    \/ ReadStep /\ UNCHANGED <<vars, signed, lastRevoked>>
    \/ SerialNext /\ Recorded

SerialReadsSpec == ReadsInit /\ [][SerialReadsNext]_readVars

-----------------------------------------------------------------------------
(* What a client may conclude from an answer.  The first two hold when the *)
(* calls of one user that write do not overlap (SerialReadsSpec), the      *)
(* others in any case.                                                     *)

\* A user whom getCurrent() refuses has, at that moment, no certificate in
\* force, whatever the message says of the latest request, unless another one
\* was both issued and past its end between the two queries; or the message
\* says that the request was approved, and then the certificate is there: it
\* came while the call ran, or it has been revoked since.
RefusalIsTrue ==
    reading.op = "current" /\ Done /\ reading.certificate = 0 =>
        IF reading.status # "APPROVED"
        THEN \/ Live(reading.user) = {}
             \/ \E c \in CertificatesOfUser(reading.user) \ reading.there :
                   certificates[c].notAfter <= now
        ELSE LET c == requests[reading.request].issued
             IN  /\ c \in CertificatesOfUser(reading.user)
                 /\ certificates[c].isRevoked \/ reading.request \notin reading.approved

\* The four queries of getCurrentStatus() need not show any single state: an
\* approved request may come with neither a current certificate nor a
\* revocation.  But then the client raced: either the approval or the
\* revocation of that certificate took place while the queries ran, and the
\* next status will show it.
StatusHidesOnlyRaces ==
    reading.op = "status" /\ Done /\ reading.status = "APPROVED"
            /\ reading.certificate = 0 /\ reading.revocation = 0 =>
        \/ reading.request \notin reading.approved
        \/ LET c == requests[reading.request].issued
           IN  c \in reading.current /\ certificates[c].isRevoked

\* A page of the history is never shorter than the total returned with it
\* promises, though they come from two queries.
PageIsFull ==
    reading.op = "history" /\ reading.page > 0 /\ reading.waits = {} =>
        Cardinality(reading.items)
            >= Smaller(Limit, reading.total - (reading.page - 1) * Limit)

\* A client that walks the pages to the first that is not full has seen every
\* document that was signed before it began, though signing goes on meanwhile
\* and shifts the pages; only documents of one user signed in one millisecond
\* may hide each other, as nothing orders them.  (A client that stops when the
\* pages cover the total may miss some: the total is counted first.)
WalkMissesNothing ==
    reading.op = "history" /\ Done =>
        \A i \in reading.there :
            \/ i \in reading.seen
            \/ \E j \in RowsBy(reading.user) \ {i} :
                  signed[j].signedAt = signed[i].signedAt
=============================================================================
