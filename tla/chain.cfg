SPECIFICATION FairSpec
CONSTANTS
  Chains <- SafeChains
  MaxAttempts = 3
  StoreFails = TRUE
CHECK_DEADLOCK FALSE
INVARIANTS TypeOK OrphansTold NothingLeftBehind OneAwaited HangsAreTimed
PROPERTIES NoRetryAfterAbort SuccessIsFinal RecordsBeforeSettling Settles AdmittedIsRecorded
