\* Reviews that overlap other calls.
SPECIFICATION Spec
CONSTANTS
  User = {u1}
  Document = {d1}
  Call = {p1, p2}
  Offered = {"generate", "rotate", "issue", "approve", "revoke"}
  Algorithms = {"RSA_2048"}
  Validity = {1}
  Verified = {u1}
  WithNationalId = {u1}
  UniqueKeyPair = TRUE
  Sanctioned = {}
  MaxKeyPairs = 3
  MaxRequests = 3
  MaxCertificates = 3
  MaxVerifications = 0
  MaxTime = 0
  MaxFailures = 0
INVARIANT
  OneLiveCertificate
