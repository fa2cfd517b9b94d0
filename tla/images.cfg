\* Two users, one of whose accounts changes; two overlapping calls, three
\* uploads, one failure.
SPECIFICATION ObservedSpec
CONSTANTS
  User = {u1, u2}
  Managed = {u1}
  Rows = {"enabled", "deactivated"}
  Call = {p1, p2}
  Files = {"png", "tooLarge"}
  MaxUploads = 3
  MaxFailures = 1
SYMMETRY CallSymmetry
INVARIANTS
  ImagesTypeOK
  BucketAndTableAgree
  SupersededStaysInactive
  LoneCallsDecide
PROPERTY
  DisabledAccountStops
