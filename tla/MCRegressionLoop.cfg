\* A command of any of ten kinds beside a run of one test, two tests, one change from outside.
SPECIFICATION LoopSpec
CONSTANTS
    c1 = c1
    c2 = c2
    p = p
    g = g
    Calls = {c1, c2}
    NTests = 2
    Prds = {p}
    Groups = {g}
    Names = {"f", "h", "n", "t"}
    Bodies <- Menu
    Trees <- MCTrees
    Scenarios <- OneBesideARun
    Replays = 2
    MaxEdits = 1
INVARIANT FailuresAreTriaged
INVARIANT StableIsEarned
PROPERTY OnlyApprovedRuns
PROPERTY GreenMeansVerified
CHECK_DEADLOCK FALSE
