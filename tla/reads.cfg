\* One user, one call that writes at a time, which may die, and one that reads.
SPECIFICATION SerialReadsSpec
CONSTANTS
  User = {u1}
  Document = {d1}
  Call = {p1}
  Offered = {"generate", "rotate", "issue", "approve", "reject", "revoke", "sign"}
  Algorithms = {"RSA_2048"}
  Validity = {1}
  Verified = {u1}
  WithNationalId = {u1}
  UniqueKeyPair = FALSE
  Sanctioned = {}
  MaxKeyPairs = 2
  MaxRequests = 2
  MaxCertificates = 2
  MaxVerifications = 0
  MaxTime = 0
  MaxFailures = 1
  FirstPages = {0, 1}
  Limit = 2
  MaxSigned = 3
INVARIANTS
  RefusalIsTrue
  StatusHidesOnlyRaces
  PageIsFull
  WalkMissesNothing
