\* The suites of four tests, two jobs; a test may time out, a write fail.
SPECIFICATION FairSpec
CONSTANTS
    a = a
    b = b
    N = 4
    Caps = {a, b}
    Suites <- FromMenu
    Jobs = 2
    TimeLimit = TRUE
    StoreFails = TRUE
INVARIANT UpstreamPassed
INVARIANT BlockedHasCause
INVARIANT CleanupComesLast
INVARIANT FailureConeIsSkipped
PROPERTY RunEnds
CHECK_DEADLOCK FALSE
