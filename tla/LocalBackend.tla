----------------------------- MODULE LocalBackend -----------------------------
(***************************************************************************)
(* The planning half of the local stand-in for the cloud (server/api.rs)   *)
(* and the clients that use it (tools/prd.rs, tools/plan.rs,               *)
(* tools/execute.rs over backend.rs): bootstrap, PRD, plan and run.        *)
(*                                                                         *)
(* The server keeps ONE PRD, one table of cases and one set of variables   *)
(* for all projects, in memory, and takes its locks between awaits; a      *)
(* request is therefore two steps, and other projects' requests and a      *)
(* restart get in between.  How a test is executed and polled is           *)
(* ExecuteFlow and CaseRun; here it is one step.                           *)
(***************************************************************************)
EXTENDS ApiSurface

CONSTANTS
    Clients,        \* projects, each with one client at a time
    Doc,            \* Doc[c]: the code summary of project c
    Frontend,       \* the projects whose tests are frontend tests
    Cap,            \* tests of one frontend run (MAX_DEV_MODE_TESTS)
    Asked,          \* the sets of ids a run may be asked for; {}: all
    Llm,            \* whether the server has a key
    MaxTests,       \* bound on the entities before the last run
    MaxRestarts     \* bound on restarts of the server

ASSUME LocalBackendAssumption ==
    /\ Frontend \subseteq Clients
    /\ Doc \in [Clients -> Document]
    /\ Cap \in Nat /\ MaxTests \in Nat /\ MaxRestarts \in Nat
    /\ Llm \in BOOLEAN

VARIABLES
    prd,        \* AppState.prd: the project it is of, and whether the client
                \* has attached the summary to it
    cases,      \* AppState.cases: by id, whatever project
    variables,  \* AppState.variables: credentials by role, the project's
    tests,      \* the store of test entities, in the order of creation
    client,     \* where each client stands
    saved,      \* what it has on disk: config.json, the PRD and the plan
    restarts    \* restarts so far

backendVars == <<prd, cases, variables, tests, client, saved, restarts>>

NoPrd  == [of |-> "none", attached |-> FALSE]
NoSpec == {}

\* Cases as the server has them, with their project (history).
PlannedCases(c, plan) == [i \in DOMAIN plan |-> [case |-> plan[i], of |-> c]]

Goto(c, from, to) == client[c] = from /\ client' = [client EXCEPT ![c] = to]

-----------------------------------------------------------------------------
(* The server's handlers *)

\* Mutant of Seed: the last one in wins.
SeedOver(c) ==
    variables' = [r \in DOMAIN variables \cup Seeds(Doc[c]) |->
                     IF r \in Seeds(Doc[c]) THEN c ELSE variables[r]]

\* seed_variables: or_insert.
Seed(c) ==
    variables' = [r \in DOMAIN variables \cup Seeds(Doc[c]) |->
                     IF r \in DOMAIN variables THEN variables[r] ELSE c]

\* What the client makes of a plan: Vec<TestCase> has no field for the spec.
Kept(plan) == [i \in DOMAIN plan |-> [plan[i] EXCEPT !.accepts = NoSpec]]

\* What a plan holds: one case with a spec for each endpoint, or what the model
\* makes of them, which has none.  A failed call of the model falls back.
Plans(c) ==
    LET planned == PlanOf(Effective(Doc[c]))
    IN  {planned} \cup (IF Llm THEN {Kept(planned)} ELSE {})

-----------------------------------------------------------------------------
(* The clients *)

TypeOf(c) == IF c \in Frontend THEN "frontend" ELSE "backend"

\* initialization
Bootstrap(c) ==
    /\ client[c] = "ready" /\ saved[c].config = "none"
    /\ saved' = [saved EXCEPT ![c].config = TypeOf(c)]
    /\ UNCHANGED <<prd, cases, variables, tests, client, restarts>>

\* generate_prd, up to the call of the model; the client needs no configuration.
PrdBegin(c) ==
    /\ Goto(c, "ready", "prd")
    /\ Seed(c)
    /\ UNCHANGED <<prd, cases, tests, saved, restarts>>

\* ... and its answer, which the client saves with the summary attached.
PrdEnd(c) ==
    /\ Goto(c, "prd", "ready")
    /\ prd' = [of |-> c, attached |-> FALSE]
    /\ saved' = [saved EXCEPT ![c].prd = TRUE]
    /\ UNCHANGED <<cases, variables, tests, restarts>>

\* There is no plan without a PRD, and no backend plan for a project that has
\* not been set up as one.
MayPlan(c) == saved[c].prd /\ (c \in Frontend \/ saved[c].config = "backend")

\* build_plan, up to the call of the model.
PlanBegin(c) ==
    /\ MayPlan(c)
    /\ Goto(c, "ready", "plan")
    /\ prd' = [of |-> c, attached |-> TRUE]
    /\ Seed(c)
    /\ UNCHANGED <<cases, tests, saved, restarts>>

\* A request fails or is refused: the server does no more for it, and the
\* client stops without saving anything.
RequestFails(c) ==
    /\ \E step \in {"prd", "plan"} : Goto(c, step, "ready")
    /\ UNCHANGED <<prd, cases, variables, tests, saved, restarts>>

Insert(c, plan) ==
    LET new == PlannedCases(c, plan)
        at  == [id \in {plan[i].id : i \in DOMAIN plan} |->
                   CHOOSE i \in DOMAIN plan : plan[i].id = id]
    IN  cases' = [id \in DOMAIN cases \cup DOMAIN at |->
                     IF id \in DOMAIN at THEN new[at[id]] ELSE cases[id]]

\* Mutant of PlanEnd: the answer is read back from the shared table.
PlanEndFromTable(c) ==
    /\ Goto(c, "plan", "ready")
    /\ \E plan \in Plans(c) :
          /\ Insert(c, plan)
          /\ LET all == SetToSeq({cases'[id].case : id \in DOMAIN cases'})
             IN  saved' = [saved EXCEPT ![c].plan = Kept(all)]
    /\ UNCHANGED <<prd, variables, tests, restarts>>

\* ... from it on: the cases go into the shared table, over those of another
\* project with the same ids, and the answer is the plan itself.
PlanEnd(c) ==
    /\ Goto(c, "plan", "ready")
    /\ \E plan \in Plans(c) :
          /\ Insert(c, plan)
          /\ saved' = [saved EXCEPT ![c].plan = Kept(plan)]
    /\ UNCHANGED <<prd, variables, tests, restarts>>

\* load_test_plan: the ids asked for, all if none, and the first Cap of a
\* frontend plan (no case has a priority).
Selected(c, ids) ==
    LET chosen == IF ids = {} THEN saved[c].plan
                  ELSE Keep(saved[c].plan,
                            {i \in DOMAIN saved[c].plan : saved[c].plan[i].id \in ids})
    IN  IF c \in Frontend /\ Len(chosen) > Cap THEN SubSeq(chosen, 1, Cap) ELSE chosen

\* new_running_entity; by: the client, of: the case's project (history).
RunningEntity(c, planned) ==
    [by |-> c, of |-> planned.of, case |-> planned.case, status |-> "RUNNING"]

\* The entities of a run.  The PRD and the variables it takes along as context
\* are whatever the server holds by then.
Entities(c, run) == [i \in DOMAIN run |-> RunningEntity(c, run[i])]

\* Store::set_status: of that entity alone.
SetStatus(t, status) == tests' = [tests EXCEPT ![t].status = status]

\* What the server runs for a testPlan: the cases sent, or all that are stored
\* if none is.
ToRun(c, plan) ==
    IF plan # <<>> THEN PlannedCases(c, plan) ELSE SetToSeq({cases[id] : id \in DOMAIN cases})

\* Mutant of Dispatch: an empty selection is sent as well.
DispatchEmpty(c) ==
    /\ Len(tests) < MaxTests
    /\ saved[c].config # "none"
    /\ Goto(c, "ready", "polling")
    /\ \E ids \in Asked :
          tests' = tests \o Entities(c, ToRun(c, Selected(c, ids)))
    /\ UNCHANGED <<prd, cases, variables, saved, restarts>>

\* run of execute.rs, to where it polls, and backend_run.  A selection that is
\* empty is an error of the client.
Dispatch(c) ==
    /\ Len(tests) < MaxTests
    /\ saved[c].config # "none"
    /\ Goto(c, "ready", "polling")
    /\ \E ids \in Asked :
          /\ Selected(c, ids) # <<>>
          /\ tests' = tests \o Entities(c, ToRun(c, Selected(c, ids)))
    /\ UNCHANGED <<prd, cases, variables, saved, restarts>>

Pending(c) == {t \in DOMAIN tests : tests[t].by = c /\ tests[t].status = "RUNNING"}

\* A spec is checked against the app, which answers with any status; without
\* one the model writes the test; without a model it cannot be run.
Outcomes(case) ==
    IF case.accepts # NoSpec
       THEN {IF s \in case.accepts THEN "PASSED" ELSE "FAILED" : s \in Statuses}
       ELSE IF Llm THEN {"PASSED", "FAILED"} ELSE {"unrunnable"}

Execute(c) ==
    /\ client[c] = "polling"
    /\ \E t \in Pending(c) : \E o \in Outcomes(tests[t].case) : SetStatus(t, o)
    /\ UNCHANGED <<prd, cases, variables, client, saved, restarts>>

\* The client has polled them all.
Collect(c) ==
    /\ Pending(c) = {}
    /\ Goto(c, "polling", "ready")
    /\ UNCHANGED <<prd, cases, variables, tests, saved, restarts>>

\* The server is restarted: what it had in memory is gone, requests under way
\* fail, and a test that is asked for is not found, which ends its polling.
Restart ==
    /\ restarts < MaxRestarts
    /\ restarts' = restarts + 1
    /\ prd' = NoPrd
    /\ cases' = <<>>
    /\ variables' = <<>>
    /\ tests' = <<>>
    /\ client' = [c \in Clients |-> "ready"]
    /\ UNCHANGED saved

BackendInit ==
    /\ prd = NoPrd
    /\ cases = <<>>
    /\ variables = <<>>
    /\ tests = <<>>
    /\ client = [c \in Clients |-> "ready"]
    /\ saved = [c \in Clients |-> [config |-> "none", prd |-> FALSE, plan |-> <<>>]]
    /\ restarts = 0

BackendNext ==
    \/ \E c \in Clients :
          \/ Bootstrap(c) \/ PrdBegin(c) \/ PrdEnd(c) \/ PlanBegin(c) \/ PlanEnd(c)
          \/ RequestFails(c) \/ Dispatch(c) \/ Execute(c) \/ Collect(c)
    \/ Restart

BackendSpec == BackendInit /\ [][BackendNext]_backendVars

-----------------------------------------------------------------------------
(* The coverage guard's answer *)

Passed == {tests[t].case : t \in {u \in DOMAIN tests : tests[u].status = "PASSED"}}

\* code_summary_from_prd: the attached summary, or the PRD itself.
SummaryOf(p) == IF p.attached THEN Doc[p.of] ELSE PrdFrom(Doc[p.of])

\* coverage_report: what the PRD's summary declares and no passed test touches.
Declared == IF prd = NoPrd THEN {} ELSE DeclaredSurface(SummaryOf(prd))
Findings == Gaps(Declared, Passed)

-----------------------------------------------------------------------------
(* Properties *)

Operation(case) == <<case.method, case.path>>

OwnOperations(c) == {Operation(e) : e \in ToSet(Effective(Doc[c]))}

\* The plan a client saves is its own project's, whoever else plans while the
\* model is being asked and whatever has the same ids in the shared table
\* (build_plan, api.rs:227).
PlanIsOwn ==
    \A c \in Clients : \A i \in DOMAIN saved[c].plan :
        Operation(saved[c].plan[i]) \in OwnOperations(c)

\* A run tests its client's own project and nothing of another one's, although
\* the server would run all it has stored for a run that names no case
\* (api.rs:287; execute.rs refuses to send one).
RunIsOwn == \A t \in DOMAIN tests : tests[t].of = tests[t].by

\* The credentials a run may use never change under it: what a project has
\* seeded stays, whoever plans later, until the server is restarted
\* (seed_variables, "without overwriting values already present").
SeedsStay ==
    [][restarts' = restarts =>
          \A r \in DOMAIN variables :
              r \in DOMAIN variables' /\ variables'[r] = variables[r]]_backendVars

\* A guard without findings means that every planned endpoint of a summary has
\* a test that passed, whatever runs of whatever projects have gone before
\* ("is declared but no test exercises it", coverage.rs:165).
CleanMeansPassed ==
    prd.attached /\ IsSummary(Doc[prd.of]) /\ Findings = {} =>
        \A e \in ToSet(ReadEndpoints(Doc[prd.of].ops)) :
            \E case \in Passed : Operation(case) = Operation(e)

\* "Deterministic cases: one per declared endpoint, with an embedded `spec` the
\* HTTP executor runs directly (no LLM)" (api.rs:255): a test a client has run
\* is never one that cannot be run.
RunsDirectly == \A t \in DOMAIN tests : tests[t].status # "unrunnable"

=============================================================================
