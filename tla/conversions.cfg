\* Certificates built on any day of four years; texts of a few characters.
SPECIFICATION ConversionsSpec
CONSTANTS
  Day = 2
  Clocks <- MCClocks
  Laters = {0, 1, 2, 3, 4, 5, 730, 2919, 2920}
  Validity = {1, 2, 3, 4, 5}
  Ends = {4, 5, 6, 7}
  MaxNow = 9
  Characters = {"a", ":", ",", " "}
  Environments <- MCEnvironments
  Presented <- MCPresented
  Origins <- MCOrigins
INVARIANTS
  EndsOnItsAnniversary
  RenewalExtends
  DaysRemainingAreLeft
  AdmitsExactlyThePair
  SameTextsAdmit
  OriginsAreListed
