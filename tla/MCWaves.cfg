\* Every suite of three tests, lists with repetitions included.
SPECIFICATION Spec
CONSTANTS
    N = 3
    Capabilities = {"A", "B"}
    Lists <- FewLists
INVARIANT NeverDropsATest
INVARIANT LevelsFollowDependencies
CHECK_DEADLOCK FALSE
