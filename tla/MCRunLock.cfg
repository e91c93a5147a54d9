\* Two runs and an execute; the clock passes the TTL, faults happen.
SPECIFICATION FairSpec
CONSTANTS
    r1 = r1
    r2 = r2
    x1 = x1
    Runs = {r1, r2}
    Execs = {x1}
    TTL = 2
    MaxTime = 4
    MaxFaults = 2
    ProcFs = TRUE
 
 
 
PROPERTY ImplementsMutex
CHECK_DEADLOCK FALSE
