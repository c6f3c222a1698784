SPECIFICATION FairSpec
CONSTANTS
  Chains <- DocumentedChain
  MaxAttempts = 2
  StoreFails = FALSE
CHECK_DEADLOCK FALSE
PROPERTIES AdmittedIsRecorded
