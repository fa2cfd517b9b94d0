# A specification of the Mucyora signature service

TLA+ modules that model `src/src/modules` (the keys, certificates and signing
services over their database, the signature images over S3 and the database, the
reads, and the calendar, credentials and origins they rest on), TLC
configurations that check them on small instances, and proofs that TLAPS checks
for instances of any size. `certificates.service.ts` and the like are in
`src/src/modules/`.

## 1. The system

The service is a NestJS process (any number of replicas) over one MySQL database
reached through Prisma. No service object keeps state between requests, so
everything that lasts is in the tables, and everything that overlaps does so at
an `await`: JavaScript between two awaits runs alone, and while a call awaits a
query any other call, of the same user or of another, runs. Only
`approveRequest` and `updateMany` give more than one row change at a time.

| component | state | operations | how it interacts | what is hard |
|---|---|---|---|---|
| Keys (`keys/`) | `PersonalKeyPair` | generate, rotate, read a public key, decrypt the active private key | rotate also revokes certificates and cancels requests; called by certificates and signing | rotate is four statements without a transaction; check before insert |
| Certificates (`certificates/`) | `PersonalCertificate`, `PersonalCertificateRequest` | issue, approve, reject, revoke; current, status | issue calls `keys.rotate` when the key pair already had a certificate; approve decrypts a private key and builds the X.509 body | every check is a query made long before the write it protects |
| Signing (`signing/`) | `PersonalSignedDocument`, `PersonalSignatureVerification` | sign, verify (public), history | reads the certificate, the algorithm and the private key in three queries | stale reads; verify chooses its certificate anew |
| Database schema | the tables | what Prisma compiles its calls to | shared by all of the above, and by other services of the platform | the schema (`@mucyora/db`) is not in this repository |
| Access policy | `PersonalCertificateAccessPolicy` | ban, unban, by another service | read by issue, approve and sign | a ban that comes between check and write |
| Signature image (`signature-image/`, `common/s3`) | `PersonalSignatureImage`, objects in S3 | upload, get, delete | S3 and then the database; behind the verified-user guard | two stores, no transaction; the answer of S3 may be lost |
| Authentication (`auth/`) | none; reads the account, which other services change | JWT of users with a look at the account, Basic for the administration service | before every handler | the account is looked at once, before the call |
| Configuration, CORS (`common/config`, `common/security`, `main.ts`) | none | validate the environment at start-up, split the origins | once; the credentials and secrets are read much later | texts trimmed on one side and not on the other |
| Throttling, error answers (`common/filters`, `app.module.ts`) | the library's counters | limit, word the refusal | before every handler | none of its own |

What makes each correct: **Keys** - a user has at most one active key pair, a
deactivated one is never used again, a rotation never leaves the user without.
**Certificates** - a certificate is for the key pair and the user its request
names, is signed by that key pair, is the user's only live one, and is the one
its request points to; decisions, revocations and bans hold. **Signing** - what
verification accepts as a user's was signed by that user and is on record; what
was signed verifies while its certificate is good; every verification is logged.
**Signature image** - a row has its object, an object without a row has an
excuse, a superseded image is not shown, and a user who uploads alone gets what
was uploaded. **Authentication** - a disabled account stops; the administration
service, and nobody else, gets in. **Reads and dates** - an answer made of several
queries misleads only a client that races; the days shown are the days left.

## 2. The modules

    Database      tables and queries           Registry   what they promise
      |                                           ^
    Calls         calls in flight, their death    |  refinement
      |                                           |
    Keys          KeysService                     |
      |     \                                     |
    Certificates  Signing                         |
          \    /                                  |
    SignatureService    ban, clock, Init, Next    |
      |                                           |
    ServiceProperties ----------------------------+
      |      |     |     \
    Settled Reads MCService  ServiceProofs -> RegistryProofs
      |      |                 |
    MCSettled MCReads        StepProofs -> SerialProofs -> ReadsProofs
                               |                          (with Reads)
                             SettledProofs (with Settled)

    Access -> SignatureImages -> ImageProperties -> MCImages
                                        |
                                   ImagesProofs

    Calendar, Configuration -> Conversions -> MCConversions
                                   |
                              ConversionsProofs

`Database` declares the tables. One whose rows are referred to is a sequence, a
row's id being its position; signed documents and verifications are sets. A row
has the columns that a guard or a property reads. A query is an operator with
the code's `where` clause: `findFirst` without `orderBy` is any matching row.

`Calls` is the scheduler. `pc[p]` is the database access that call `p` awaits
and `ctx[p]` its local variables, copied from rows when the code copies them, so
they get stale as they do there. One action of a service module is the code from
one `await` to the next: it makes the query `pc[p]` names, runs the code after
it, and ends at the next label or answers the call. Queries that only read data
no operation here changes (the citizen identity) are part of the step before.
`Fail` ends a call at any await and undoes nothing.

`Keys`, `Certificates` and `Signing` translate the three services. A method that
one service calls in another runs in the same call: `issue` goes through
`rotate` and `generate`, and `ctx[p].op` tells the insert where to return.
What is signed is abstracted to who signed what: a `Signature` is the id of
the key pair and the document, and a certificate carries `keyPair`, whose public
key it has, and `signer`, whose private key signed its body.

`SignatureService` adds the administrators' bans and the clock (in years, which
is what `validityYears` counts) and puts the steps together. `Spec` lets calls
overlap in any way; `SerialSpec` starts a call about a user only when none is in
flight; `Fairness` says that the database answers.

`ServiceProperties` states the properties; `Settled` those that need one of two
history variables, `settled` and `overlapped` (`SettledSpec`, and `FairSettledSpec`
with fairness); `Registry` is the abstract specification: eight variables, eight
actions, no calls, no checks.

`Reads` adds to `SignatureService` the endpoints that make several queries
(`getCurrent`, `getCurrentStatus`, whose four run in parallel and are answered in
any order, and `getHistory`, which counts and then lists), with a client that
walks the pages; one is in flight at a time, between the steps of the calls that
write. It carries what only they look at: the order of signed documents, and
the latest `revokedAt`, which `revoke` and `rotate` stamp. `ReadsSpec` lets the
calls that write overlap, `SerialReadsSpec` only those of different users; reads
overlap with them in both.

`Access` is the guard: whether an account may still use the service, read at
each request while the platform's other services change it.
`SignatureImages` is the image service behind it, over the bucket (`objects`)
and the table (`images`): `upload` draws a uuid, puts the object, deactivates,
inserts; S3 refuses, or stores and loses its answer (`PutFails`); `Fail` kills a call
anywhere. `ImageProperties` has the history variables that say what the answers
given so far entitle a user to.

`Calendar` is the arithmetic of `buildPersonalX509` (`setFullYear` by ECMAScript's
`MakeDay`) and of `daysRemaining`; `Configuration` what start-up insists on, how
credentials and origins are cut and trimmed. They keep no state; `Conversions`
gives them inputs and states, for each, what it is for in other words.

Definitions marked *variant* in the service modules are plausible slips of the
code, one for each property. They belong to no specification; substituting one
for the definition after it makes TLC find the property violated.

## 3. What the runs check

| run | specification | bounds | states | shows |
|---|---|---|---|---|
| `isolation` | `Spec` | 2 users, 2 calls, 1 death, 2 rows a table | 1.7 M | `TypeOK`, `Ownership`, `ImplementsRegistry` |
| `acceptance` | `Spec` without rotate, reject and revoke | 2 users, 2 calls, 1 death, 3 key pairs, 2 certificates | 0.9 M | `AcceptedWasSigned` |
| `overlap` | `SettledSpec` without sign and verify | 1 user, 2 calls, 1 death, bans, 3 key pairs, 2 requests, 2 certificates | 1.5 M | `CertificatesAreOnRecord`, `BanStopsTheUser`, `RevocationIsFinal`, `DecisionIsFinal`, `RetirementIsFinal`, `RotationRepairs` |
| `serial` | `SerialSpec` | 1 user, 1 death, both algorithms, 3 rows a table, 2 years | 0.98 M | `OneKeyPairOneRequest`, `CurrentRowsAgree`, `SelfSigned`, `ApprovalIssues`, `SignaturesMatchTheirCertificate`, `GenuineSignaturesVerify` |
| `liveness` | `FairSettledSpec` without reject | 1 user, 2 calls, bans, 3 key pairs, 1 request, 1 certificate | 0.24 M | `RotationLeavesAKeyPair`, `VerificationIsLogged`; `BanStopsTheUser`, `RevocationIsFinal`, `RetirementIsFinal` with signing |
| `images` | `ObservedSpec` | 2 users, the account of one changes, 2 calls, 3 uploads, 1 failure | 1.0 M | `ImagesTypeOK`, `BucketAndTableAgree`, `SupersededStaysInactive`, `LoneCallsDecide`, `DisabledAccountStops` |
| `reads` | `SerialReadsSpec` | 1 user, 1 writer and 1 reader, 1 death, 3 documents, pages of 2 | 1.5 M | `RefusalIsTrue`, `StatusHidesOnlyRaces`, `PageIsFull`, `WalkMissesNothing` |
| `conversions` | `ConversionsSpec` | every day of 4 years, 1 to 5 years valid, up to 4 years later; texts of up to 5 characters | 0.38 M | `EndsOnItsAnniversary`, `RenewalExtends`, `DaysRemainingAreLeft`, `AdmitsExactlyThePair`, `SameTextsAdmit`, `OriginsAreListed` |
| `foreign_signer` | `Spec` | 2 calls | | `SelfSigned` violated |
| `two_certificates` | `Spec` | 2 calls | | `OneLiveCertificate` violated |
| `crashed_rotation` | `SerialSpec` | 1 death | | `SignedUsingItsCertificate` violated |
| `stranded_request` | `SerialSpec` | 1 death | | `RequestCanBeResubmitted` violated |

The properties of the core come in three groups. Some hold **whatever overlaps
and dies** (`isolation`, `acceptance`, `overlap`; in `liveness`, whatever overlaps).
Some hold **when calls about one user follow each
other**, the way a client that waits for its answers behaves (`serial`); of
these `CurrentRowsAgree`, `SignaturesMatchTheirCertificate` and
`GenuineSignaturesVerify` are stated for runs in which no call has died, since a
half-done rotation breaks them. And some are **what the code's comments and
messages say**, and do not hold: section 6.

`Settled` deserves a word. Because checks are stale when writes happen, "a banned
user gets no certificate" is simply false: an approval that had passed its
policy check goes on. What is true is that no call outlives its answer. `settled`
collects the facts (this user is banned, this certificate is revoked, this
request is decided, this key pair is retired) that held at a moment when no call
about the user was in flight, and the four action properties say that from then
on nothing is done against them. A revoked row does not change at all any more:
`revoke` and `rotate` overlapping may each write its reason, but no later call.

Overlapping and dying calls do leave a user with two active key pairs, two
pending requests or two live certificates, with a live certificate whose request
was rejected, or with half a rotation; no invariant forbids it. What a careful
caller may count on is the way out: one rotation that no other call of its user
overlaps (`overlapped` records those that were) and that does not die is never
refused, and leaves the new key pair as the only active one, no unrevoked
certificate and no pending request (`RotationRepairs`). `overlap` reaches each of
those states and a lone rotation after it.

The image properties follow the same line. Two overlapping uploads leave two
active images, and a look shows either; what holds is that the images from
before an answered upload are out of use (`SupersededStaysInactive`), that the
bucket and the table agree up to uploads in flight and failures
(`BucketAndTableAgree`), and that one upload which nothing overlaps repairs
whatever was left (`LoneCallsDecide`).

Of the reads: `getCurrentStatus` may show an approved request with neither a
certificate nor a revocation, and `getCurrent` may refuse with the words of an
approval, but only to a client that raced with the approval or the revocation
(`StatusHidesOnlyRaces`, `RefusalIsTrue`). These two are about writers that
follow one another: when those overlap, a user may have certificates that no
single answer tells of. The two about the history hold however writers overlap.

Of renewals: over more than four years the ends need not move as far as the
dates to within a day. From 28 February 2099 to 28 February 2103 it is 1460 days
and to the next day one more; five years on, from 2104 to 2108, two leap days are
passed. `RenewalExtends` therefore bounds the shift for 1460 days, which is as
far as it holds, and says for any distance that a renewal does not shorten.

**Bounds.** Two overlapping calls are enough for every check-then-write pair in
the code, each of which has one reader and one interfering writer; `isolation`
has two so that rows of two users meet, and every label of every call meets
every other. There one user at a time gets a certificate; `acceptance` leaves
out rotation, rejection and revocation for room to give both users one, so that
one user's signature may be passed off as the other's. Two rows a table let a
replacement sit beside what it replaces (old and new key pair, cancelled and new
request); `serial` has three, for certify - revoke - reissue - expire, and `overlap`
three key pairs, so that a rotation can come after two generations that
overlapped. To make room for them `overlap` has no signing; settled facts are
checked against signing and verification in `liveness`, where no call dies. One death
is enough to leave any multi-row operation half done; two years, for a
certificate to be live, at its last instant and expired. `MaxKeyPairs`,
`MaxRequests`, `MaxCertificates` and `MaxVerifications` bound the tables by not
letting a call start that might go beyond them, never by stopping one midway.
Symmetry of calls and users is used in safety runs only, and no property of
those runs names one.

`UniqueKeyPair` stands for the one thing the missing schema decides: whether
`certificates.keyPairId` is unique. `Ownership`, `AcceptedWasSigned`, the
refinement and the proofs hold either way (their runs take FALSE, the weaker);
`CertificatesAreOnRecord` needs it, and the violations do not:
`two_certificates` and the others are found with TRUE, the stronger.

In `images`, two calls make every pair of statements of two uploads, or of an
upload and a removal, meet, and three uploads let a third one come upon what two
overlapping ones left. `MaxUploads` bounds the uuids by not letting an upload
start; `Rows` has one state that lets the user in and one that does not, since
the guard tells no more apart. In `reads`, three documents on pages of two give a
full page, a last page and a page that shifts when one more is signed; the first
page asked for is 1 or the 0 that the controller lets through; a document is
signed in the same millisecond as the one before it or a later one. The clock of
years stands still, since none of these queries looks at expiry. With a clock
that moves, the run is four times as large and finds the same; the clause of
`RefusalIsTrue` on a certificate that was issued and ran out between two queries,
so that another request could follow it, is left to the proof.

`conversions` takes the first and the last tick of every day of 2023, 2024, 2096
and 2099: an ordinary year, one with a leap day to start on, and two that lead to
2100, which has none; two ticks a day are enough for the comparisons that count
parts of a day. Renewals come up to two and a half days later, a year, and at
the bound of four. Its texts are made of one letter, the
separator and the blank, which is all the code looks for; `Characters` names
them, so that the proofs can speak of texts over any.

**Fairness.** `Fairness` is weak fairness on each call's own steps: the
database answers every query, and Node resumes the call. Nothing is assumed of
clients, who need not call, of `Fail`, of administrators or of the clock. With
`MaxFailures = 0` it says what happens when no call dies; with a death neither
liveness property holds, as the code retries nothing.

Deadlock is checked in every run: there is always a call that may start or go on.

## 4. What is proved

For any users, documents, calls, bounds and either schema, from the assumptions
the modules name (`OfferedAssumption`, `AlgorithmsAssumption`,
`ValidityAssumption`, `UniqueKeyPairAssumption`, `SanctionedAssumption`,
`UserAssumption`, `ManagedAssumption`, `RowsAssumption`, `FilesAssumption`,
`DayAssumption`, `InstantsAssumption`, `TextsAssumption`, `PagesAssumption`: the
constants are of the code's own types).

**Whatever overlaps and dies** (`ServiceProofs`, `RegistryProofs`, `StepProofs`):

* `TypeCorrectness`: `Spec => []TypeOK`
* `OwnershipHolds`: `Spec => []Ownership`
* `NonRepudiation`: `Spec => []AcceptedWasSigned`
* `RegistryImplemented`: `Spec => ImplementsRegistry`
* `CertificatesOnRecord`: `Spec => []CertificatesAreOnRecord`

None of these invariants is inductive: what a call writes comes from local
variables that it filled many steps earlier. `Consistency` adds what those
variables refer to, label by label (`Consistent`): a call that waits at
`issue.create` has a key pair of its user, one at `approve.commit` a request of
its user, that request's key pair and a signer of that user, one at `verify.log`
with the verdict *valid* has a certificate that vouches for the signature; and
`DocumentsSigned`, that a recorded signature is over the recorded document.

The argument has two halves. *Stability*: every step only adds rows and never
changes the columns that relate them (`Grows`), so what a waiting call knows
stays true whatever the others do (`WaitingStaysConsistent`, `WriteAndGo`); this
is why overlapping calls, which may break every cardinality one would like,
never mix two users' rows. *Each step*: what its query returns makes its next
label consistent (`ReadAndGo`), or the row it writes proper (`ProperRows`). For
`AcceptedWasSigned` the last step is that of `verify`: an accepted signature is
one that some document carries, the certificate's key pair made it, both the
document and the certificate are of that key pair's owner, so the document is of
the user it was accepted for.

The refinement follows action by action under `Consistency`; steps that
`Registry` does not see are those that write no row, bans, ticks and deaths.

`CertificatesOnRecord` needs what `StepProofs` says of each table after a step:
which rows a step may change, from where, and what the call that did it waits
for next (`KeyPairsAfter`, `CertificatesAfter`, `RequestsAfter`, `EvidenceAfter`).
A certificate and the request that names it are written by one transaction, and
a second review that writes the request anew would have to insert a second
certificate for its key pair, which the schema refuses.

**What has settled** (`SettledProofs`): `BansHold`, `RevocationsHold`,
`DecisionsHold`, `RetirementsHold`. The inductive invariant `Respected` says, for
each settled fact, what no call in flight has passed or picked up: past the look
at the policy, for a ban; that certificate, request or key pair in its local
variables, for the others. It holds when the fact settles, because then no call
about the user is in flight, and no step breaks it, because every way past the
check or to the row goes through a query that the fact now answers otherwise.

**A rotation on its own** (`SettledProofs`): `RotationsRepair`,
`SettledSpec => RotationRepairs`. The invariant `Repairing` says that a rotation
which has met nobody is the only call in flight about its user (`Apart`), and
which of its statements still hold at each label (`CleansUp`): no active key pair
after the first, no unrevoked certificate after the second, no pending request
after the third. So `generate` at its end finds nothing to refuse for. Calls of
other users go on meanwhile; the lemmas `OfTheRest` of `StepProofs` say that they
touch none of this user's rows.

**Calls one after the other** (`SerialProofs`): `OneOfEachHolds`,
`AgreementHolds`, `SelfSigning`, `ApprovalIssuing`, `SignaturesMatch`,
`GenuineVerify`, all from `SerialOrder`, `SerialSpec => []Orderly`. `Orderly` has a
part on calls, `Knows`: what a call has seen (no active key pair, no pending
request, the key pair still active, the certificate unrevoked) is so until it
writes, as no other call about its user runs; and a part on rows, which the
writes then preserve. Two levels are told apart: what holds whoever has died,
and `Undisturbed`, what holds where no call has, with the exceptions that a
rotation under way makes (`NotAt`). The calls of other users run meanwhile, any
number of them: the lemmas `OfTheRest` say that their steps touch none of this
user's rows.

**Signature images** (`ImagesProofs`): `ImagesTypeCorrectness`,
`SupersededForGood`, `DisabledForGood`, `StoresAgree`
(`ObservedSpec => []BucketAndTableAgree`) and `LoneCallsSettle`
(`ObservedSpec => []LoneCallsDecide`). All rest on `ImagesKnown`: rows are only
added, an inactive one stays so, and what a call holds is of its user.
`StoresAgree` needs that keys are drawn once (`Apart`: all keys on rows
and in calls' hands differ), that a call past its put has its object in the
bucket (`Stored`), and the count (`Accounted`): each step moves an unnamed
object, a waiting upload and a failure together, by one. `LoneCallsSettle` needs
`Decided`, for each user: a call that has met no other is the only one in flight,
an upload of that kind has cleared the way before it inserts, a removal has the
active image in hand; and where no two calls have met and none has cleared the
way, the image expected is the active one.

**Reads of several queries** (`ReadsProofs`), of any number of users, writers and
documents and for any page size:

* `PagesAreFull`, `WalksMissNothing`: `ReadsSpec => []PageIsFull` and
  `=> []WalkMissesNothing`, from `WalksGoDown` (`[]Walking`). `Walking` says that a
  document which was there when the walk began is on a page that the walk has
  shown, or has at least as many rows above it as the pages shown hold, or shares
  its millisecond with another. New documents only push it further down, so
  that it cannot slip behind; a page that is not full reaches the end.
* `RefusalsAreTrue`, `StatusesHideOnlyRaces`: `SerialReadsSpec => []RefusalIsTrue`
  and `=> []StatusHidesOnlyRaces`, from `ReadsStayTruthful` (`[]Truthful`). `Truthful`
  says, query by query, what has been found and which of the two excuses (the
  request was not approved at the start of the read, the certificate has been
  revoked since) explains what has not. It rests on `Orderly` of `SerialProofs`: of
  the calls that write, only one is under way for this user, which is why a
  missing certificate can be traced to one step.

**Credentials, origins, the calendar** (`ConversionsProofs`), for texts of any length
over any characters, any environment, any instants, days of any length and any
years of validity:

* `ExactlyThePairIsAdmitted`, `SameTextsAreAdmitted`, `ListedOriginsAreLetIn`: `ConversionsSpec => []` of `AdmitsExactlyThePair`,
  `SameTextsAdmit`, `OriginsAreListed`
* `CertificatesEndOnTheirDate`, `RenewalsExtend`, `DaysShownAreLeft`: of
  `EndsOnItsAnniversary`, `RenewalExtends`, `DaysRemainingAreLeft`

The inductive invariant is `Inputs`, what the computations are given; the rest is
about the operators. *Texts*: `Trim` keeps what lies between the outermost
characters that are no blanks (`TrimIsBetweenEdges`), `Separator` is the first of
the colons (`FirstColonExists`); what is cut out and what was put together are
compared position by position (`Cuts`, `Part`), so that no induction over the
length is needed. An entry that `Split` returns stands between two neighbouring
commas, and the other way about (`SplitStands`, `StandingIsSplit`).
*Calendar*: `DateOf` chooses a year and a month; they exist, as the last year that
has begun by that day (`YearExists`), and they are the only ones, as years and
months do not overlap (`OneYear`, `OneMonth`). `YearStart` counts leap years by
division; that this is their number (`LeapYearsCounted`) follows from the smallest
number of years for which it would not be. For the length of a certificate and
for renewals, years are taken from one 1 March to the next: the leap day is
then the last one, and a date is as far from its anniversary as the leap days
between say (`DaysToAnniversary`), wherever in the year it is.

Only model-checked: liveness (`RotationLeavesAKeyPair`, `VerificationIsLogged`), which
is out of the prover's reach. Every other property of a passing run is a theorem.

## 5. What is not modelled

* Key generation, encryption, PEM and X.509 encodings, abstracted to who signed
  what (that a certificate of an ED25519 key pair cannot be built is kept);
  serial numbers and names.
* Throttling and the error filters: windows and counters are the throttler
  library's, the filters word an answer. (Every refusal says `Retry-After: 60`,
  also that of the limiter `strict`, whose window is ten minutes.) Wording in
  general: a call that is refused for any reason just answers.
* Reads of one query: `getPublicKey`, `getCurrentRequest`.
* `cancelPendingRequestsForUser` and `S3Service.delete`, which nothing in the
  repository calls.
* What libraries decide: whether a token is genuine and fresh (passport), what
  text is a number or a URL (`APP_PORT`, `DATABASE_URL`). The calls of the core
  modules are ones the guards have let through.
* Time zones: `Calendar` is in UTC, as containers run. `buildPersonalX509` reads the
  clock once for `notBefore` and once for `notAfter`; here it is one instant.

## 6. Where the code and its words part

Each is a run with a short trace. The words are those of comments, messages and
agent rules beside the code; `src/README.md` and `src/SECURITY.md` describe a
proposed service, so nothing rests on them.

* **A certificate signed with another key** (`foreign_signer`). Approval reads the
  request's key pair first and the active private key last. A rotation between
  the two gives a certificate for the old public key, signed with the new
  private key. "Self-sign with the user's private key", says `x509.helper.ts`.
* **Two live certificates** (`two_certificates`). Two reviews that overlap, of a
  request a rotation has cancelled and of the new one, both pass
  `ensureNoActiveCertificate` and both insert.
* **Signatures under the wrong certificate** (`crashed_rotation`). A rotation that
  dies after its first statement leaves the certificate in place; the next
  `generate` makes a key pair it does not name, and `sign` uses both.
* **A request that can be neither approved nor replaced** (`stranded_request`). The
  same death leaves the request pending on an inactive key pair: the review says
  to submit a new one, and `issue` refuses because one is pending. A rejection,
  or the user's next rotation, still closes it.

With no overlapping calls and no death none of this happens: `SelfSigned`,
`CurrentRowsAgree` and `SignaturesMatchTheirCertificate` of `serial` say so.

Smaller things that the runs show and that no line of the repository denies:

* The two overlapping uploads and the torn status of section 3.
* A client that stops walking the history when its pages cover `total` may miss
  documents: the total is counted before the page is listed
  (`WalkMissesNothing` is about one that goes on to a page that is not full).
* A certificate built on 29 February ends on 1 March, and one built a little
  later, on 1 March, may end earlier that day (`RenewalExtends`).
* A user name with a colon, or a password with a blank at an end, passes
  start-up and shuts the administration service out (`SameTextsAdmit`).
* A `FRONTEND_URL` of blanks passes start-up and lists no origin.

## 7. Plan

Done: the core, its abstract specification, the refinement; settled facts; calls
one after the other; signature images over two stores behind the guard; reads
of several queries; calendar, credentials and origins; each with its runs, and
the proofs of section 4. Left:

1. An abstract specification of the images, an album with one current image per
   user, and the refinement for calls one after the other, as overlapping uploads
   do not implement it.
