\* One server without a key: cases come from the endpoints.
SPECIFICATION BackendSpec
CONSTANTS
    listed = listed
    loose = loose
    empty = empty
    Clients = {listed, loose}
    Doc <- MCDoc
    Frontend = {listed}
    Cap = 1
    Asked <- MCAsked
    Paths = {"/a", "/b"}
    Templated = {}
    Roles = {"admin"}
    Llm = FALSE
    MaxTests = 2
    MaxRestarts = 1
INVARIANT RunsDirectly
CHECK_DEADLOCK FALSE
