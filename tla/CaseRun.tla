------------------------------- MODULE CaseRun -------------------------------
(***************************************************************************)
(* One stored case executed and judged: execute_case of local/run.rs, the  *)
(* executors of server/executors, the HTTP flow of server/store.rs, and    *)
(* classify of local/verdict.rs, which reads the verdict off the text of   *)
(* the error.                                                              *)
(*                                                                         *)
(* A text is what classify can tell of it: the phrase it starts with and   *)
(* the phrases it contains. What the app answers, what a subprocess prints *)
(* and what the model writes are chosen freely; the caller's time limit    *)
(* may drop the executor at any await.                                     *)
(***************************************************************************)
EXTENDS PlanSteps, Session, Diagnosis, FiniteSets

CONSTANTS
    Cases,          \* the cases that may be stored
    Answers,        \* what the app may answer to a request
    Echoes,         \* sets of phrases a subprocess may print
    Documents,      \* the documents a PRD may be ingested from
    Mentions,       \* what a failure's text may refer to: sequences of Reference
    TimeLimit       \* TRUE unless TESTSPRITE_TEST_TIMEOUT_SECS is 0

\* The phrases classify looks for anywhere in an error, and the two that
\* is_compile_failure looks for.
Phrases == {"infra", "time limit", "auth", "unreachable", "browser crash",
            "404", "expected got", "assert", "timed out",
            "compile", "test result"}

Kinds == {"backend", "frontend", "mcp", "rust", "command"}

\* What the case gives its executor to run. "bad steps": one of its steps is
\* not an endpoint spec; "spec": one spec and what it is followed by; "bad
\* spec": its spec is not one. A frontend case may have a plan (planSteps).
\* `llm`: the run has an LLM client.
Forms == {"steps", "bad steps", "spec", "bad spec", "code", "bare"}

\* A step of a flow: what it expects of the status and asserts of the body, the
\* variables it saves to and reads, and whether it is a GraphQL query.
StepSpec == [expect  : {"exact", "success", "accepted", "any"},
             asserts : {"none", "json", "value"},
             saves   : Vars \cup {NoVar},
             uses    : Vars \cup {NoVar},
             query   : {"none", "strict", "lenient"}]

\* An answer of the app, with what its text says.
Answer == [status  : Nat,
           body    : {"right", "no value", "wrong value", "errors", "not json"},
           carries : BOOLEAN,       \* a value to be saved
           says    : SUBSET Phrases]

ASSUME CaseRunAssumption ==
    /\ NoVar \notin Vars
    /\ \A doc \in Documents : doc \in Document
    /\ \A text \in Mentions : text \in Seq(Reference)
    /\ TimeLimit \in BOOLEAN
    /\ Echoes \subseteq SUBSET Phrases
    /\ Answers \subseteq Answer
    /\ \A c \in Cases : c.kind \in Kinds /\ c.form \in Forms /\ c.llm \in BOOLEAN
    /\ \A c \in Cases : c.steps \in Seq(StepSpec)
    /\ \A c \in Cases : c.form \in {"steps", "spec"} => c.steps # <<>>
    /\ \A c \in Cases : c.plan # <<>> => c.kind = "frontend" /\ c.plan \in Seq(Steps)

REPAIR_ROUNDS == 2

VARIABLES
    case,       \* the case and its executor
    at,         \* where the executor stands
    step,       \* the current step of the flow or of the script
    config,     \* the variables the user has set, in either file
    session,    \* session: where each variable's value came from
    sent,       \* the answered requests
    shown,      \* the steps of the plan whose text was found on the page
    code,       \* where the artifact to run came from
    rounds,     \* compile-repair rounds begun
    file,       \* the generated file is on disk
    tries,      \* what each run of a subprocess came to
    dropped,    \* the time limit has dropped the executor
    outcome,    \* the Outcome
    report,     \* what is kept beside the verdict
    verdict     \* the pair classify makes of it

vars == <<case, at, step, config, session, sent, shown, code, rounds, file, tries, dropped,
          outcome, report, verdict>>

Pass == [passed |-> TRUE, lead |-> "other", says |-> {}]

Fail(lead, says) == [passed |-> FALSE, lead |-> lead, says |-> says]

NotYet == Fail("other", {})

Pending == <<"pending", "-">>

NoReport == [artifact |-> "none", analysis |-> FALSE, fix |-> "none"]

\* The variables of S as the user sets them.
SetTo(S) == [v \in S |-> Configured]

Init ==
    /\ case \in Cases
    /\ at = "start"
    /\ step = 0
    /\ config \in SUBSET Vars
    /\ \E env, json \in SUBSET config, doc \in Documents :
          /\ config = env \cup json
          /\ session = Started(SetTo(env), SetTo(json), doc)
    /\ sent = <<>>
    /\ shown = {}
    /\ code = "none"
    /\ rounds = 0
    /\ file = FALSE
    /\ tries = <<>>
    /\ dropped = FALSE
    /\ outcome = NotYet
    /\ report = NoReport
    /\ verdict = Pending

Goto(next) == at' = next /\ UNCHANGED outcome

End(o) == at' = "done" /\ outcome' = o

-----------------------------------------------------------------------------
(* An HTTP flow (server/store.rs) *)

\* Expect::accepts.
Accepts(expect, status) ==
    \/ expect = "exact" /\ status = 200
    \/ expect \in {"success", "accepted", "any"} /\ status \in 200 .. 399
    \/ expect = "accepted" /\ status \in {400, 422}
    \/ expect = "any" /\ status < 500

\* "expected a 2xx/3xx response, got 401"; for what classify reads in the
\* status, see its rules.
GotStatus(status) ==
    {"expected got"} \cup (IF status \in {401, 403} THEN {"auth"} ELSE {})
                     \cup (IF status = 404 THEN {"404"} ELSE {})

\* "status 404 ok but ..."
StatusOk(status) == IF status = 404 THEN {"404"} ELSE {}

\* effective_spec: a GraphQL step expects an object under `data`, which a step
\* that does not mind errors ("lenient") need not have.
Effective(s) ==
    CASE s.query = "none"    -> s
      [] s.query = "strict"  -> [s EXCEPT !.asserts = "value"]
      [] s.query = "lenient" -> [s EXCEPT !.asserts = "json"]

\* check_response. The text of a body that is not JSON, and a value that is
\* not the expected one, are quoted.
CheckResponse(s, a) ==
    IF ~Accepts(s.expect, a.status) THEN Fail("other", GotStatus(a.status))
    ELSE CASE s.asserts \in {"json", "value"} /\ a.body = "not json" ->
                 Fail("other", StatusOk(a.status) \cup a.says)
           [] s.query = "strict" /\ a.body = "errors" ->
                 Fail("other", StatusOk(a.status))
           [] s.asserts = "value" /\ a.body = "no value" ->
                 Fail("other", StatusOk(a.status))
           [] s.asserts = "value" /\ a.body = "wrong value" ->
                 Fail("other", StatusOk(a.status) \cup {"expected got"} \cup a.says)
           [] OTHER -> Pass

\* What the request carries: auth_token and interpolate_str.
Token(s) == IF s.uses = NoVar THEN Empty ELSE session[s.uses]

\* Mutant of Saved: what an answer did not carry is forgotten.
SavedOrCleared(s, a, i) ==
    IF s.saves = NoVar THEN session
    ELSE [session EXCEPT ![s.saves] = IF a.carries THEN i ELSE Empty]

\* save_from_response: a selector (a header, a query parameter in one, a JSON path)
\* that extracts nothing leaves the variable as it was, and the step goes on. It is
\* run before the check.
Saved(s, a, i) ==
    IF s.saves # NoVar /\ a.carries THEN [session EXCEPT ![s.saves] = i] ELSE session

\* HttpExecutor::run. A spec that does not parse is passed over for the code
\* and then for the LLM; a step that does not parse ends the case.
StartBackend ==
    /\ case.kind = "backend"
    /\ \/ /\ case.form \in {"steps", "spec"}
          /\ step' = 1
          /\ Goto("send")
          /\ UNCHANGED code
       \/ /\ case.form = "bad steps"
          /\ End(Fail("other", {}))
          /\ UNCHANGED <<step, code>>
       \/ /\ case.form = "code"
          /\ code' = "given"
          /\ Goto("write")
          /\ UNCHANGED step
       \/ /\ case.form \in {"bad spec", "bare"}
          /\ IF case.llm THEN Goto("generate") ELSE End(Fail("other", {"infra"}))
          /\ UNCHANGED <<step, code>>

Rest == <<case, config, session, sent, shown, rounds, file, tries, dropped, report, verdict>>

\* execute_flow: "step 2 failed: ..." leads from the second step on.
StepError(o) == IF step = 1 THEN o ELSE [o EXCEPT !.lead = "other"]

\* execute_one and the loop around it: the next step is sent only when this
\* one's answer is as expected.
SendStep ==
    /\ at = "send"
    /\ LET s == Effective(case.steps[step])
       IN  \/ \E a \in Answers :
                LET o == CheckResponse(s, a)
                IN  /\ session' = Saved(s, a, step)
                    /\ sent' = Append(sent, [token   |-> Token(s),
                                             carries |-> a.carries,
                                             status  |-> a.status,
                                             body    |-> a.body,
                                             quotes  |-> IF o.passed THEN {} ELSE a.says,
                                             passed  |-> o.passed])
                    /\ IF ~o.passed THEN End(StepError(o)) /\ UNCHANGED step
                       ELSE IF step = Len(case.steps) THEN End(Pass) /\ UNCHANGED step
                       ELSE step' = step + 1 /\ Goto("send")
           \/ \E slow \in {{}, {"timed out"}} :
                /\ End(StepError(Fail("request failed", {"unreachable"} \cup slow)))
                /\ UNCHANGED <<step, session, sent>>
    /\ UNCHANGED <<case, config, shown, code, rounds, file, tries, dropped, report, verdict>>

-----------------------------------------------------------------------------
(* The other executors *)

\* BrowserExecutor::script_for. The code of a case is not looked at: without
\* a plan the model writes the body, or it is empty and only the page load is
\* checked.
StartFrontend ==
    /\ case.kind = "frontend"
    /\ CASE case.plan # <<>> -> code' = "given" /\ Goto("write")
         [] OTHER -> IF case.llm THEN Goto("generate") /\ UNCHANGED code
                     ELSE code' = "smoke" /\ Goto("write")
    /\ UNCHANGED step

\* RustExecutor::run, up to the first build. Without code and without an LLM
\* the crate is built, in place of a test.
StartRust ==
    /\ case.kind = "rust"
    /\ CASE case.form = "code" -> code' = "given" /\ Goto("write")
         [] OTHER -> IF case.llm THEN Goto("generate") /\ UNCHANGED code
                     ELSE code' = "smoke" /\ Goto("spawn")
    /\ UNCHANGED step

\* CommandExecutor::run.
StartCommand ==
    /\ case.kind = "command"
    /\ IF case.form = "code" THEN code' = "given" /\ Goto("spawn")
       ELSE End(Fail("other", {"infra"})) /\ UNCHANGED code
    /\ UNCHANGED step

StartMcp == case.kind = "mcp" /\ Goto("probe") /\ UNCHANGED <<step, code>>

Start ==
    /\ at = "start"
    /\ StartBackend \/ StartFrontend \/ StartRust \/ StartCommand \/ StartMcp
    /\ UNCHANGED Rest

\* LlmClient::chat: models off chat/completions are asked through /responses,
\* the others too when chat/completions says that it does not support them.
Chat(viaResponses, first, second) ==
    IF viaResponses \/ first = "not supported" THEN second ELSE first

\* generate_test_code, generate_playwright or generate_rust_test.
Generate ==
    /\ at = "generate"
    /\ \E viaResponses \in BOOLEAN, first, second \in {"text", "not supported", "error"} :
        IF Chat(viaResponses, first, second) = "text"
        THEN code' = "llm" /\ Goto("write")
        ELSE CASE case.kind = "frontend" -> code' = "smoke" /\ Goto("write")
               [] case.kind = "backend"  -> End(Fail("other", {"infra"})) /\ UNCHANGED code
               [] case.kind = "rust"     -> End(Fail("other", {})) /\ UNCHANGED code
    /\ UNCHANGED <<step, Rest>>

\* The words of a harness that could not start: is_infra knows those of the
\* Python, cargo and shell runners, not those of the browser's.
CouldNot == IF case.kind = "frontend" THEN {} ELSE {"infra"}

\* The artifact is written: a file of the temporary directory, or one of the
\* crate's tests/. A browser may run in Docker (use_docker).
WriteFile ==
    /\ at = "write"
    /\ \/ /\ file' = TRUE
          /\ \/ Goto("spawn")
             \/ case.kind = "frontend" /\ Goto("image")
       \/ End(Fail("other", CouldNot)) /\ UNCHANGED file
    /\ UNCHANGED <<case, config, step, session, sent, shown, code, rounds, tries, dropped, report, verdict>>

\* ensure_playwright_image; without an image the work directory is removed.
Image ==
    /\ at = "image"
    /\ \/ Goto("spawn") /\ UNCHANGED file
       \/ \E prints \in Echoes : End(Fail("other", prints)) /\ file' = FALSE
    /\ UNCHANGED <<case, config, step, session, sent, shown, code, rounds, tries, dropped, report, verdict>>

\* What a subprocess that ran may come to. A cargo test passes, reaches its
\* runner and fails there, or does not compile; cargo build runs no test.
\* stdout and stderr are clipped from the middle, so that a long output loses
\* "test result:" to the warnings behind it. What Python prints leads its error.
Runs ==
    {r \in [reached : BOOLEAN,
            passed  : BOOLEAN,
            long    : BOOLEAN,
            lead    : {"other", "build error"},
            prints  : Echoes] :
        /\ r.lead = "build error" => case.kind = "backend"
        /\ r.long => case.kind = "rust"
        /\ IF case.kind # "rust" THEN r.reached
           ELSE IF code = "smoke" THEN ~r.reached
           ELSE r.passed => r.reached}

OutcomeOf(r) ==
    IF r.passed THEN Pass
    ELSE Fail(r.lead,
              r.prints \cup (IF case.kind # "rust" THEN {}
                             ELSE IF ~r.reached THEN {"compile"}
                             ELSE IF r.long THEN {} ELSE {"test result"}))

\* is_compile_failure, of the clipped text.
IsCompileFailure(o) ==
    ~o.passed /\ "compile" \in o.says /\ "test result" \notin o.says

\* stamp_build_error.
Stamp(o) == IF IsCompileFailure(o) THEN [o EXCEPT !.lead = "build error"] ELSE o

\* Mutant of RepairDue: a failing test is repaired too.
RepairAnyFailure(o) == code = "llm" /\ rounds < REPAIR_ROUNDS /\ ~o.passed

\* The condition of the compile-repair loop.
RepairDue(o) == code = "llm" /\ rounds < REPAIR_ROUNDS /\ IsCompileFailure(o)

Return(o) ==
    IF case.kind # "rust" \/ code = "smoke" THEN End(o)
    ELSE IF RepairDue(o) THEN at' = "repair" /\ outcome' = o
    ELSE End(Stamp(o))

\* The subprocess is run to its end and its file removed, whether or not it
\* could be launched.
Spawn ==
    /\ at = "spawn" /\ ~(case.kind = "frontend" /\ code # "llm")
    /\ \/ \E r \in Runs :
            /\ tries' = Append(tries, r)
            /\ Return(OutcomeOf(r))
       \/ Return(Fail("other", CouldNot)) /\ UNCHANGED tries
    /\ file' = FALSE
    /\ UNCHANGED <<case, config, step, session, sent, shown, code, rounds, dropped, report, verdict>>

-----------------------------------------------------------------------------
(* A plan in the browser *)

Script == IF code = "given" THEN Compile(case.plan) ELSE <<>>

\* The browser's process ends.
Exit(passed, prints) ==
    /\ End(IF passed THEN Pass ELSE Fail("other", prints))
    /\ tries' = Append(tries, [reached |-> TRUE, passed |-> passed, long |-> FALSE,
                               lead |-> "other", prints |-> IF passed THEN {} ELSE prints])
    /\ file' = FALSE

InBrowser == UNCHANGED <<case, config, session, sent, code, rounds, dropped, report, verdict>>

\* wrap_script: node starts and the page loads, with a status below 400.
Open ==
    /\ at = "spawn" /\ case.kind = "frontend" /\ code # "llm"
    /\ \/ Goto("browse") /\ step' = 1 /\ UNCHANGED <<tries, file>>
       \/ (\E prints \in Echoes : Exit(FALSE, prints)) /\ UNCHANGED step
       \/ End(Fail("other", CouldNot)) /\ file' = FALSE /\ UNCHANGED <<step, tries>>
    /\ UNCHANGED shown
    /\ InBrowser

Throws(statement) == statement \in {"fill", "click", "goto", "find"}

Advance == Goto("browse") /\ step' = step + 1 /\ UNCHANGED <<tries, file>>

\* The next statement does what it says, or does not: then it throws, unless
\* it is one that goes on in any case.
Perform ==
    /\ at = "browse" /\ step <= Len(Script)
    /\ \/ Advance /\ shown' = IF Script[step] = "find" THEN shown \cup {step} ELSE shown
       \/ ~Throws(Script[step]) /\ Advance /\ UNCHANGED shown
       \/ /\ Throws(Script[step])
          /\ \E prints \in Echoes : Exit(FALSE, prints)
          /\ UNCHANGED <<step, shown>>
    /\ InBrowser

\* The end of the script: an error on the page fails it even now.
Close ==
    /\ at = "browse" /\ step > Len(Script)
    /\ \E passed \in BOOLEAN, prints \in Echoes : Exit(passed, prints)
    /\ UNCHANGED <<step, shown>>
    /\ InBrowser

-----------------------------------------------------------------------------
(* Repair, MCP servers and the time limit *)

\* repair_code: the model is handed the diagnostic; when it fails the last
\* outcome stands.
Repair ==
    /\ at = "repair"
    /\ rounds' = rounds + 1
    /\ \/ Goto("write")
       \/ End(Stamp(outcome))
    /\ UNCHANGED <<case, config, step, session, sent, shown, code, file, tries, dropped, report, verdict>>

\* McpExecutor::run, probe_tool and evaluate: a result, or an error that is
\* not a rejection of the call, passes. The server's own text is quoted when
\* it fails to initialize.
Probe ==
    /\ at = "probe"
    /\ \/ End(Pass)
       \/ \E prints \in Echoes : End(Fail("other", prints))
       \/ \E slow \in {{}, {"timed out"}} : End(Fail("other", slow))
    /\ UNCHANGED <<case, config, step, session, sent, shown, code, rounds, file, tries, dropped, report, verdict>>

\* execute_case: the time limit drops the executor where it stands. What it
\* would have done after the await is not done.
Drop ==
    /\ TimeLimit
    /\ at \in {"send", "generate", "image", "write", "spawn", "browse", "repair", "probe"}
    /\ End(Fail("other", {"time limit"}))
    /\ dropped' = TRUE
    /\ UNCHANGED <<case, config, step, session, sent, shown, code, rounds, file, tries, report, verdict>>

-----------------------------------------------------------------------------
(* What is kept of the outcome (local/run.rs) *)

\* The outcome names the artifact that was run: a flow as JSON, or a program.
Flow == case.kind = "backend" /\ case.form \in {"steps", "spec"}
Artifact ==
    IF dropped \/ ~(Flow \/ case.kind = "mcp" \/ code # "none") THEN "none"
    ELSE ArtifactExt(case.kind, Flow \/ case.kind = "mcp")

\* What the model makes of a failure: an analysis, unless it fails, and with
\* --fix a recommendation, unless that fails or cannot be written.
Diagnosed(kept) ==
    {[kept EXCEPT !.analysis = analysis] : analysis \in BOOLEAN}
    \cup {[kept EXCEPT !.analysis = analysis,
                       !.fix = FixSection(patch, Appliable(SourceContext(text), patch))] :
            analysis \in BOOLEAN, text \in Mentions, patch \in Patches}

\* post_process, after write_executed_artifact, whose write may fail.
Diagnose ==
    \E artifact \in {Artifact, "none"} :
        LET kept == [NoReport EXCEPT !.artifact = artifact]
        IN  report' \in IF outcome.passed \/ ~case.llm THEN {kept} ELSE Diagnosed(kept)

-----------------------------------------------------------------------------
(* The verdict (local/verdict.rs) *)

\* Mutant of IsTransport: the rules are applied to every kind.
IsAlwaysTransport(kind) == kind \in Kinds

\* error_is_harness_transport.
IsTransport(kind) == kind \in {"backend", "frontend", "mcp"}

\* classify: the first rule that matches.
Classify(kind, o) ==
    LET failure ==
        IF "infra" \in o.says THEN <<"blocked", "infra">>
        ELSE IF o.lead = "suspect oracle" THEN <<"failed", "suspect_oracle">>
        ELSE IF o.lead = "build error" THEN <<"blocked", "build_error">>
        ELSE IF o.lead = "residual alignment" THEN <<"failed", "residual_alignment">>
        ELSE IF "time limit" \in o.says THEN <<"failed", "timeout">>
        ELSE IF ~IsTransport(kind) THEN <<"failed", "assertion">>
        ELSE IF "auth" \in o.says THEN <<"blocked", "auth">>
        ELSE IF "unreachable" \in o.says THEN <<"blocked", "network">>
        ELSE IF kind = "frontend" /\ "browser crash" \in o.says
             THEN <<"blocked", "browser_crash">>
        ELSE IF o.lead = "request failed"
             THEN IF "timed out" \in o.says THEN <<"failed", "network_timeout">>
                  ELSE <<"blocked", "network">>
        ELSE IF "404" \in o.says THEN <<"failed", "routing_404">>
        ELSE IF o.says \cap {"expected got", "assert"} # {} THEN <<"failed", "assertion">>
        ELSE IF "timed out" \in o.says THEN <<"failed", "timeout">>
        ELSE <<"failed", "unknown">>
    IN  IF o.passed THEN <<"passed", "-">> ELSE failure

\* What is executed is diagnosed, judged and recorded, passed or not.
Judge ==
    /\ at = "done"
    /\ Diagnose
    /\ verdict' = Classify(case.kind, outcome)
    /\ at' = "judged"
    /\ UNCHANGED <<case, config, step, session, sent, shown, code, rounds, file, tries, dropped,
                   outcome>>

Next ==
    Start \/ SendStep \/ Generate \/ WriteFile \/ Image \/ Spawn
    \/ Open \/ Perform \/ Close \/ Repair
    \/ Probe \/ Drop \/ Judge

Spec == Init /\ [][Next]_vars

-----------------------------------------------------------------------------
(* Properties *)

LastTry == tries[Len(tries)]

\* The earlier steps that put something into the variable step k reads.
Sources(k) ==
    {j \in 1 .. k - 1 : case.steps[j].saves = case.steps[k].uses /\ sent[j].carries}

\* What step k should carry: the latest such value, or what was configured.
Fresh(k) ==
    \/ case.steps[k].uses = NoVar
    \/ /\ Sources(k) = {} /\ sent[k].token <= Configured
       /\ case.steps[k].uses \in config => sent[k].token = Configured
    \/ sent[k].token \in Sources(k) /\ \A j \in Sources(k) : j <= sent[k].token

BringsCode == case.kind \in {"backend", "rust", "command"} /\ case.form = "code"

\* A step of a plan that is to find a text on the page. One that talks of
\* entering an email or a password is compiled to that instead, wherever the
\* words come from ("Verify: Enter your email").
Verifies(s) ==
    \/ s.action = "find"
    \/ /\ s.action \in {"text", "none", "expect"} /\ s.says.verb = "verify"
       /\ ~("enter" \in s.says.words /\ s.says.words \cap {"email", "password"} # {})

\* A case that brings its own check passes only by that check: every step of
\* its flow was answered as expected, in order, each request with the values
\* its predecessors extracted last; or its own code was run to success; or
\* its plan was gone through and every text it verifies was on the page, for
\* the plans that exploration writes as well. (A spec that does not parse, and
\* the code of a frontend case, are passed over in favour of the LLM's code or
\* of a smoke test: not this property's.)
PassIsEarned ==
    verdict[1] = "passed" =>
        /\ case.kind = "backend" /\ case.form \in {"steps", "bad steps", "spec"} =>
              /\ case.form # "bad steps"
              /\ Len(sent) = Len(case.steps)
              /\ \A k \in DOMAIN sent : sent[k].passed /\ Fresh(k)
        /\ BringsCode \/ case.plan # <<>> => code = "given" /\ tries # <<>> /\ LastTry.passed
        /\ \A i \in DOMAIN case.plan : Verifies(case.plan[i]) => i \in shown

\* What lint has no word against: steps that all have an oracle, or one spec
\* that has one; of a spec with a follow-up it asks nothing.
Linted ==
    CASE case.form = "steps" -> FlowIsSound(case.steps, NoVar)
      [] case.form = "spec"  -> Len(case.steps) = 1 /\ SpecHasOracle(case.steps[1])
      [] OTHER -> FALSE

\* A flow that lint has no word against never passes on an app that answers
\* one of its requests with an error page: lint warns of what "cannot fail on
\* wrong behavior" (lint.rs:211), and what it lets through can.
ErrorPagesAreNoticed ==
    verdict[1] = "passed" /\ Linted =>
        \A k \in DOMAIN sent : sent[k].body = "not json" => sent[k].status \notin {401, 404}

\* Compile repair goes on "never past the first attempt that reaches the test
\* runner", and only a test that did not reach it counts as a build error;
\* except where its output was too long to keep the line that says so.
RepairStopsAtRunner ==
    /\ \A k \in 1 .. Len(tries) - 1 : tries[k].reached => tries[k].long
    /\ case.kind = "rust" /\ verdict[2] = "build_error" /\ LastTry.reached => LastTry.long

\* A failure is blocked, and so out of the flaky denominator, only for a
\* reason: nothing was sent or run, a request went unanswered, the app said
\* 401 or 403, the test did not build, or the quoted text repeats a phrase
\* classify looks for. What a cargo or shell test prints excuses it only
\* through the phrases of is_infra and of is_compile_failure.
BlockedHasExcuse ==
    verdict[1] = "blocked" =>
        \/ sent = <<>> /\ tries = <<>>
        \/ case.kind = "backend" /\ sent # <<>> /\
              LET last == sent[Len(sent)]
              IN  \/ Len(sent) < step
                  \/ last.status \in {401, 403} /\ ~last.passed
                  \/ last.quotes # {}
        \/ tries # <<>> /\
              \/ ~LastTry.reached
              \/ IF case.kind \in {"backend", "frontend"} THEN LastTry.prints # {} \/ LastTry.lead # "other"
                 ELSE LastTry.prints \cap {"infra", "compile"} # {}

=============================================================================
