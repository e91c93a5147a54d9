\* Three projects on one server with a key, and a restart.
SPECIFICATION BackendSpec
CONSTANTS
    listed = listed
    loose = loose
    empty = empty
    Clients = {listed, loose, empty}
    Doc <- MCDoc
    Frontend = {listed}
    Cap = 1
    Asked <- MCAsked
    Paths = {"/a", "/b"}
    Templated = {}
    Roles = {"admin"}
    Llm = TRUE
    MaxTests = 2
    MaxRestarts = 1
INVARIANT PlanIsOwn
INVARIANT RunIsOwn
 
 
CHECK_DEADLOCK FALSE
