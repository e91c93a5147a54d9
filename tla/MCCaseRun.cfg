\* Every case of the menus; the time limit may strike.
SPECIFICATION Spec
CONSTANTS
    Vars = {"admin_password", "uuid"}
    TimeLimit = TRUE
    Cases <- AllCases
    Answers <- AllAnswers
    Echoes <- SomeEchoes
    Documents <- TheDocuments
    Mentions <- TheMentions
 
INVARIANT RepairStopsAtRunner
 
INVARIANT BlockedHasExcuse
CHECK_DEADLOCK FALSE
