\* Two commands of any kinds, two views or models each.
SPECIFICATION Spec
CONSTANTS
    Paths = {"/a"}
    Templated = {"/a"}
    Roles = {}
    Kinds <- AllKinds
    Commands = 2
    Documents <- MCDocuments
    NIds = 1
    Titles <- MCTitles
    Similar <- MCSimilar
    MaxCases = 1
    NViews = 2
    Iterate = 2
    Code <- MCCode
    Words <- MCWords
    Profiles <- MCProfiles
    Trees <- MCTrees
    Budget = 1
    MaxCost = 1
    Gate = TRUE
INVARIANT StampedTestsHavePrd
 
INVARIANT AnswersAreScreened
INVARIANT ImportsJudgeMissing
CHECK_DEADLOCK FALSE
