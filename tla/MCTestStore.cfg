SPECIFICATION Spec
CONSTANTS
  Ids = {t1}
  NCalls = 3
  MaxOracle = 1
  Keep = 1
  MaxFaults = 1
INVARIANT OrphansAreExcused
INVARIANT SuspectsStayOut
PROPERTY HealKeepsOriginal
CHECK_DEADLOCK FALSE
