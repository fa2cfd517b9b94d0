\* Calls one after the other, one of which dies.
SPECIFICATION SerialSpec
CONSTANTS
  User = {u1}
  Document = {d1}
  Call = {p1}
  Offered = {"generate", "rotate", "issue", "approve", "sign"}
  Algorithms = {"RSA_2048"}
  Validity = {1}
  Verified = {u1}
  WithNationalId = {u1}
  UniqueKeyPair = TRUE
  Sanctioned = {}
  MaxKeyPairs = 3
  MaxRequests = 3
  MaxCertificates = 3
  MaxVerifications = 0
  MaxTime = 0
  MaxFailures = 1
INVARIANT
  SignedUsingItsCertificate
