CONSTANTS
  Reasons <- MCReasons
  Impatient = TRUE
SPECIFICATION FairSpec
INVARIANTS ScanOwned
PROPERTIES IsATile CallsReturn VerifiedSignsIn
