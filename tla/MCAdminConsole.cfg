SPECIFICATION FairSpec
CONSTANTS
  NULL = NULL
  Failure = Failure
  all = all
  failed = failed
  Query <- Queries
  MaxVersion = 2
INVARIANTS
  ConsoleInv
PROPERTIES
  ViewNeverGoesBack
  ViewCatchesUp
  CancelIsShown
