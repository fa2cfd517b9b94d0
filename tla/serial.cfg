\* One user whose calls come one after the other, one of which may die;
\* certificates expire.
SPECIFICATION SerialSpec
CONSTANTS
  User = {u1}
  Document = {d1}
  Call = {p1}
  Offered = {"generate", "rotate", "issue", "approve", "reject", "revoke", "sign", "verify"}
  Algorithms = {"RSA_2048", "ED25519"}
  Validity = {1}
  Verified = {u1}
  WithNationalId = {u1}
  UniqueKeyPair = FALSE
  Sanctioned = {}
  MaxKeyPairs = 3
  MaxRequests = 3
  MaxCertificates = 3
  MaxVerifications = 1
  MaxTime = 2
  MaxFailures = 1
INVARIANTS
  OneKeyPairOneRequest
  CurrentRowsAgree
  SelfSigned
  ApprovalIssues
  SignaturesMatchTheirCertificate
  GenuineSignaturesVerify
