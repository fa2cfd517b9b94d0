\* One user, two overlapping calls, none of which dies: signing included.
SPECIFICATION FairSettledSpec
CONSTANTS
  User = {u1}
  Document = {d1}
  Call = {p1, p2}
  Offered = {"generate", "rotate", "issue", "approve", "revoke", "sign", "verify"}
  Algorithms = {"RSA_2048"}
  Validity = {1}
  Verified = {u1}
  WithNationalId = {u1}
  UniqueKeyPair = TRUE
  Sanctioned = {u1}
  MaxKeyPairs = 3
  MaxRequests = 1
  MaxCertificates = 1
  MaxVerifications = 1
  MaxTime = 0
  MaxFailures = 0
PROPERTIES
  RotationLeavesAKeyPair
  VerificationIsLogged
  BanStopsTheUser
  RevocationIsFinal
  RetirementIsFinal
