SPECIFICATION Composed
CONSTANTS
  MaxJobs = 2
  MaxGens = 2
  MaxRequests = 2
  MaxAsked = 3
  MaxCrashes = 1
  MaxTime = 1
  Lifetime = 1
INVARIANTS OutputsAreWhole PreviewsAreRecent RunsAreVisible
PROPERTIES JobsSettle
CHECK_DEADLOCK FALSE
