\* One user, two overlapping calls, one of which may die: keys and certificates.
SPECIFICATION SettledSpec
CONSTANTS
  User = {u1}
  Document = {d1}
  Call = {p1, p2}
  Offered = {"generate", "rotate", "issue", "approve", "reject", "revoke"}
  Algorithms = {"RSA_2048"}
  Validity = {1}
  Verified = {u1}
  WithNationalId = {u1}
  UniqueKeyPair = TRUE
  Sanctioned = {u1}
  MaxKeyPairs = 3
  MaxRequests = 2
  MaxCertificates = 2
  MaxVerifications = 0
  MaxTime = 0
  MaxFailures = 1
SYMMETRY CallSymmetry
INVARIANT
  CertificatesAreOnRecord
PROPERTIES
  BanStopsTheUser
  RevocationIsFinal
  DecisionIsFinal
  RetirementIsFinal
  RotationRepairs
