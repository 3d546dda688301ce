CONSTANTS
  Calls <- MCCalls
  Verifying <- MCVerifying

SPECIFICATION FairSpec

INVARIANTS
  TypeOK
  OutcomeIsFate
  ClosedOnlyWithoutVerdict
  SuccessIsQuiet

PROPERTIES
  DecisionSettlesSubmit
  StreamIsReleased

CHECK_DEADLOCK FALSE
