------------------------------ MODULE Database ------------------------------
(***************************************************************************)
(* The rows the signature service keeps, and the queries it makes of them. *)
(* All of its state is in one relational database, reached through Prisma; *)
(* no service object keeps anything between two requests.                  *)
(*                                                                         *)
(* A table whose rows are referred to is a sequence: a row's id is its     *)
(* position, positions follow createdAt, and 0 is the id null.  Signed     *)
(* documents and verification records are never referred to nor updated,   *)
(* so each of those tables is a set.  A row holds the columns some guard   *)
(* or some property reads; names, serial numbers and PEM text do  *)
(* not appear.                                                             *)
(***************************************************************************)
EXTENDS Naturals, Sequences, FiniteSets

CONSTANTS User,        \* the citizens who hold keys and certificates
          Document,    \* the document hashes they sign
          MaxTime      \* bound: the clock stops here

VARIABLES keyPairs,       \* PersonalKeyPair
          certificates,   \* PersonalCertificate
          requests,       \* PersonalCertificateRequest
          policy,         \* PersonalCertificateAccessPolicy, by user
          documents,      \* PersonalSignedDocument
          verifications,  \* PersonalSignatureVerification
          now             \* the clock, in years: what new Date() returns

tables == <<keyPairs, certificates, requests, policy, documents, verifications>>

\* A value no user, document, operation or algorithm has.
None == "none"

Algorithm == {"RSA_2048", "ED25519"}
Status    == {"PENDING", "APPROVED", "REJECTED", "CANCELLED"}
Outcome   == {"valid", "noCertificate", "expired", "mismatch"}

\* The bytes crypto.sign returns tell two things: whose private key made them,
\* and over which document hash.
Signature == [keyPair : Nat, document : Document]

KeyPair      == [user : User, algorithm : Algorithm, isActive : BOOLEAN]
\* "signer" is the key pair whose private key signed the X.509 body.  "reason"
\* is revokedReason: the user's own words, or those of a rotation.
Reason       == {None, "user", "rotation"}
Certificate  == [user : User, keyPair : Nat, signer : Nat, notAfter : Nat,
                 isRevoked : BOOLEAN, reason : Reason]
\* "issued" is the column issuedCertificateId.
Request      == [user : User, keyPair : Nat, years : Nat, status : Status,
                 issued : Nat]
SignedRecord == [user : User, certificate : Nat, document : Document,
                 signature : Signature]
Verification == [user : User, certificate : Nat, document : Document,
                 signature : Signature, outcome : Outcome]

TablesOK ==
    /\ keyPairs \in Seq(KeyPair)
    /\ certificates \in Seq(Certificate)
    /\ requests \in Seq(Request)
    /\ policy \in [User -> {"ALLOWED", "BANNED"}]
    /\ documents \in SUBSET SignedRecord
    /\ verifications \in SUBSET Verification
    /\ now \in Nat

EmptyTables ==
    /\ keyPairs = << >>
    /\ certificates = << >>
    /\ requests = << >>
    /\ policy = [u \in User |-> "ALLOWED"]
    /\ documents = {}
    /\ verifications = {}
    /\ now = 0

-----------------------------------------------------------------------------
\* Below, a definition that a comment calls a variant is the one after it as
\* a slip of the code would have it.  No specification uses the variants; they
\* show which properties depend on what.

\* Variant: userId missing from the filter.
ActiveKeyPairsOfAnyone(u) == {k \in DOMAIN keyPairs : keyPairs[k].isActive}

\* where: { userId, isActive: true }
ActiveKeyPairs(u) ==
    {k \in DOMAIN keyPairs : keyPairs[k].user = u /\ keyPairs[k].isActive}

\* Variant: isRevoked missing from the filter.
CertificatesOfUser(u) ==
    {c \in DOMAIN certificates : certificates[c].user = u}

\* where: { userId, isRevoked: false }
Unrevoked(u) ==
    {c \in DOMAIN certificates :
        certificates[c].user = u /\ ~certificates[c].isRevoked}

\* where: { keyPairId }
CertificatesOf(k) == {c \in DOMAIN certificates : certificates[c].keyPair = k}

\* Variant: status missing from the filter.
RequestsOfUser(u) == {r \in DOMAIN requests : requests[r].user = u}

\* where: { userId, status: PENDING }
Pending(u) ==
    {r \in DOMAIN requests :
        requests[r].user = u /\ requests[r].status = "PENDING"}

\* findFirst without orderBy: MySQL may return any row that matches, and
\* null, the id 0, when none does.
FindFirst(rows) == IF rows = {} THEN {0} ELSE rows

\* findFirst with orderBy: { createdAt: 'desc' }.
FindLatest(rows) == FindFirst({i \in rows : \A j \in rows : j <= i})

\* updateMany: every row of the table whose id is in rows becomes Change(row).
UpdateMany(table, rows, Change(_)) ==
    [i \in 1..Len(table) |-> IF i \in rows THEN Change(table[i]) ELSE table[i]]
=============================================================================
