SPECIFICATION FairSpec
CONSTANTS
  NCalls = 3
  MaxFaults = 1
INVARIANT RepeatsAreExcused
INVARIANT AnswerIsRecorded
PROPERTY DecisionsStand
PROPERTY CallsEnd
CHECK_DEADLOCK FALSE
