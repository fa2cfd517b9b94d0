\* Two users, two overlapping calls, one of which may die.
SPECIFICATION Spec
CONSTANTS
  User = {u1, u2}
  Document = {d1}
  Call = {p1, p2}
  Offered = {"generate", "rotate", "issue", "approve", "revoke", "reject", "sign", "verify"}
  Algorithms = {"RSA_2048"}
  Validity = {1}
  Verified = {u1, u2}
  WithNationalId = {u1, u2}
  UniqueKeyPair = FALSE
  Sanctioned = {}
  MaxKeyPairs = 2
  MaxRequests = 2
  MaxCertificates = 2
  MaxVerifications = 1
  MaxTime = 0
  MaxFailures = 1
SYMMETRY FullSymmetry
INVARIANTS
  TypeOK
  Ownership
PROPERTY
  ImplementsRegistry
