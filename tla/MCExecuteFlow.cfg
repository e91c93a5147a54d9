\* Three tests, two lost requests, one restart, tests that may hang.
SPECIFICATION FairSpec
CONSTANTS
    N = 3
    MaxFaults = 2
    MaxRestarts = 1
    Hangs = TRUE
INVARIANT VerdictsAreGenuine
INVARIANT PollingOutlastsWorker
INVARIANT ResultsAreVerdicts
 
CHECK_DEADLOCK FALSE
