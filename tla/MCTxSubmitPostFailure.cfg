CONSTANTS
  Calls <- MCCalls
  Verifying <- MCVerifying

SPECIFICATION FairSpec

PROPERTY
  PostFailureIsQuiet

CHECK_DEADLOCK FALSE
