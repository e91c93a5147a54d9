---------------------------- MODULE CaseRun_proofs ----------------------------
(***************************************************************************)
(* What TLAPS establishes about the execution of one case, for any cases,  *)
(* flows and plans, and whatever the app, the subprocesses and the model   *)
(* answer.                                                                 *)
(***************************************************************************)
EXTENDS CaseRun, TLAPS

Places == {"start", "send", "generate", "write", "image", "spawn", "browse",
           "repair", "probe", "done", "judged"}

Over == at \in {"done", "judged"}

Request == [token   : Int,
            carries : BOOLEAN,
            status  : Nat,
            body    : {"right", "no value", "wrong value", "errors", "not json"},
            quotes  : SUBSET Phrases,
            passed  : BOOLEAN]

Attempt == [reached : BOOLEAN,
            passed  : BOOLEAN,
            long    : BOOLEAN,
            lead    : {"other", "build error"},
            prints  : SUBSET Phrases]

Result == [passed : BOOLEAN,
           lead   : {"other", "build error", "request failed"},
           says   : SUBSET Phrases]

CaseType ==
    /\ case \in Cases
    /\ at \in Places
    /\ step \in Nat
    /\ session \in [Vars -> Int]
    /\ sent \in Seq(Request)
    /\ code \in {"none", "given", "llm", "smoke"}
    /\ tries \in Seq(Attempt)
    /\ outcome \in Result
    /\ verdict = IF at = "judged" THEN Classify(case.kind, outcome) ELSE Pending

\* The case brings a program, or a plan that is compiled to one.
BringsProgram == BringsCode \/ case.plan # <<>>

\* Which executor is at work.
Route ==
    /\ Flow => at \in {"start", "send", "done", "judged"} /\ tries = <<>>
    /\ ~Flow => sent = <<>>
    /\ at = "start" => sent = <<>> /\ code = "none"
    /\ at = "send" => Flow
    /\ case.kind = "backend" /\ case.form = "bad steps" => at = "start" \/ Over
    /\ BringsProgram => at = "start" \/ code = "given"
    /\ at = "generate" => case.kind \in {"backend", "frontend", "rust"} /\ ~BringsProgram
    /\ at \in {"image", "browse"} => case.kind = "frontend"
    /\ at = "browse" => code # "llm"
    /\ at = "repair" => case.kind = "rust" /\ code = "llm"
    /\ at = "probe" => case.kind = "mcp"
    /\ case.kind = "mcp" => at \in {"start", "probe"} \/ Over

\* A run of cargo that calls for a repair.
Broken(r) == ~r.passed /\ (r.reached => r.long /\ "compile" \in r.prints)

\* What became of the earlier runs of the subprocess.
Attempts ==
    /\ ~Over /\ case.kind # "rust" => tries = <<>>
    /\ at \in {"start", "generate"} => tries = <<>>
    /\ ~Over => \A k \in DOMAIN tries : Broken(tries[k])
    /\ \A k \in 1 .. Len(tries) - 1 : Broken(tries[k])
    /\ at = "repair" => tries # <<>> /\ IsCompileFailure(outcome)

\* The answers so far that saved a variable.
Saves(v) == {j \in DOMAIN sent : case.steps[j].saves = v /\ sent[j].carries}

\* A variable holds what was saved last, or what it started with.
Holds(v) ==
    \/ /\ Saves(v) = {} /\ session[v] <= Configured
       /\ v \in config => session[v] = Configured
    \/ session[v] \in Saves(v) /\ \A j \in Saves(v) : j <= session[v]

\* A step with an oracle does not pass on an error page.
Noticed(k) ==
    sent[k].passed /\ sent[k].body = "not json" /\ SpecHasOracle(case.steps[k])
    => sent[k].status \notin {401, 404}

\* What is known of a flow.
Flowing ==
    /\ at \in {"start", "send"} => \A v \in Vars : Holds(v)
    /\ at = "send" => /\ step \in 1 .. Len(case.steps)
                      /\ Len(sent) = step - 1
                      /\ \A k \in DOMAIN sent : sent[k].passed
    /\ Len(sent) <= Len(case.steps)
    /\ \A k \in DOMAIN sent : Fresh(k) /\ Noticed(k)

\* What has been looked for on the page so far was there.
Browsing ==
    at = "browse" =>
        /\ step \in 1 .. Len(Script) + 1
        /\ \A i \in 1 .. step - 1 : Script[i] = "find" => i \in shown

\* What a pass rests on.
Earned ==
    /\ ~(case.kind = "backend" /\ case.form = "bad steps")
    /\ Flow => Len(sent) = Len(case.steps) /\ \A k \in DOMAIN sent : sent[k].passed
    /\ BringsProgram => tries # <<>> /\ LastTry.passed
    /\ \A i \in DOMAIN case.plan : Verifies(case.plan[i]) => i \in shown

\* What a failure comes from: nothing was sent or run, the time limit, a request
\* without an answer or with the wrong one, a build, a program.
Unanswered == Flow /\ sent # <<>> /\ Len(sent) < step
WrongAnswer ==
    /\ Flow /\ sent # <<>> /\ outcome.lead = "other"
    /\ LET last == sent[Len(sent)]
       IN  /\ ~last.passed
           /\ outcome.says \cap {"infra", "unreachable"} # {} => last.quotes # {}
           /\ "auth" \in outcome.says => last.quotes # {} \/ last.status \in {401, 403}
ProgramFailed ==
    /\ tries # <<>>
    /\ IF case.kind \in {"backend", "frontend"}
       THEN outcome.says = LastTry.prints /\ outcome.lead = LastTry.lead
       ELSE /\ case.kind \in {"rust", "command"}
            /\ outcome.lead = "other"
            /\ "infra" \in outcome.says => "infra" \in LastTry.prints
BuildFailed == case.kind = "rust" /\ tries # <<>> /\ Broken(LastTry)
Explained ==
    \/ sent = <<>> /\ tries = <<>>
    \/ outcome.lead = "other" /\ outcome.says = {"time limit"}
    \/ Unanswered \/ WrongAnswer \/ ProgramFailed \/ BuildFailed

Ended ==
    Over => /\ IF outcome.passed THEN Earned ELSE Explained
            /\ case.kind = "rust" /\ outcome.lead = "build error" => BuildFailed

\* The inductive invariant.
CaseInv == CaseType /\ Route /\ Attempts /\ Flowing /\ Browsing /\ Ended

-----------------------------------------------------------------------------
(* The operators *)

LEMMA CaseFacts ==
    ASSUME NEW c \in Cases
    PROVE  /\ c.kind \in Kinds /\ c.form \in Forms /\ c.llm \in BOOLEAN
           /\ c.steps \in Seq(StepSpec) /\ Len(c.steps) \in Nat
           /\ c.form \in {"steps", "spec"} => Len(c.steps) >= 1
           /\ c.plan # <<>> => c.kind = "frontend" /\ c.plan \in Seq(Steps)
<1>1. /\ c.kind \in Kinds /\ c.form \in Forms /\ c.llm \in BOOLEAN
      /\ c.steps \in Seq(StepSpec)
      /\ c.form \in {"steps", "spec"} => c.steps # <<>>
      /\ c.plan # <<>> => c.kind = "frontend" /\ c.plan \in Seq(Steps)
    BY CaseRunAssumption
<1> QED
    BY <1>1

LEMMA EmptyDomain == \A s : s = <<>> => \A i \in DOMAIN s : FALSE
<1>1. DOMAIN << >> = {}
    OBVIOUS
<1> QED
    BY <1>1

LEMMA LastOf == \A S, s : s \in Seq(S) /\ s # <<>> => Len(s) \in DOMAIN s
OBVIOUS

LEMMA DomainOf == \A S, s : s \in Seq(S) => DOMAIN s = 1 .. Len(s)
OBVIOUS

LEMMA OnlyOne == \A k \in 1 .. 1 : k = 1
OBVIOUS

LEMMA FailTyped ==
    ASSUME NEW lead \in {"other", "build error", "request failed"}, NEW says \in SUBSET Phrases
    PROVE  /\ Fail(lead, says) \in Result
           /\ ~Fail(lead, says).passed
           /\ Fail(lead, says).lead = lead /\ Fail(lead, says).says = says
BY DEF Fail, Result

LEMMA PassTyped == Pass \in Result /\ Pass.passed /\ Pass.lead = "other" /\ Pass.says = {}
BY DEF Pass, Result

\* Stamping changes nothing but what leads the error of a build that failed.
LEMMA StampKeeps ==
    ASSUME NEW o \in Result
    PROVE  /\ Stamp(o) \in Result /\ Stamp(o).passed = o.passed /\ Stamp(o).says = o.says
           /\ IsCompileFailure(o) \/ Stamp(o) = o
BY DEF Stamp, Result

\* What a run of a subprocess comes to.
LEMMA RunFacts ==
    ASSUME NEW r \in Runs
    PROVE  /\ r \in Attempt
           /\ OutcomeOf(r) \in Result /\ OutcomeOf(r).passed = r.passed
           /\ case.kind # "rust" /\ ~r.passed
                => OutcomeOf(r).says = r.prints /\ OutcomeOf(r).lead = r.lead
           /\ case.kind # "backend" => r.lead = "other" /\ OutcomeOf(r).lead = "other"
           /\ "infra" \in OutcomeOf(r).says => "infra" \in r.prints
           /\ case.kind = "rust" /\ IsCompileFailure(OutcomeOf(r)) => Broken(r)
<1>1. r \in Attempt /\ (r.lead = "build error" => case.kind = "backend")
    BY CaseRunAssumption DEF Runs, Attempt
<1> DEFINE S == r.prints \cup (IF case.kind # "rust" THEN {}
                             ELSE IF ~r.reached THEN {"compile"}
                             ELSE IF r.long THEN {} ELSE {"test result"})
<1>2. S \in SUBSET Phrases /\ r.lead \in {"other", "build error", "request failed"}
    BY <1>1 DEF Attempt, Phrases
<1>3. CASE r.passed
    <2>1. OutcomeOf(r) = Pass
        BY <1>3 DEF OutcomeOf
    <2> QED
        BY <1>1, <1>3, <2>1, PassTyped DEF IsCompileFailure, Attempt
<1>4. CASE ~r.passed
    <2>1. OutcomeOf(r) = Fail(r.lead, S)
        BY <1>4 DEF OutcomeOf
    <2>2. /\ OutcomeOf(r) \in Result /\ ~OutcomeOf(r).passed
          /\ OutcomeOf(r).lead = r.lead /\ OutcomeOf(r).says = S
        <3> HIDE DEF S
        <3>1. /\ Fail(r.lead, S) \in Result /\ ~Fail(r.lead, S).passed
              /\ Fail(r.lead, S).lead = r.lead /\ Fail(r.lead, S).says = S
            BY <1>2, FailTyped, ZenonT(60)
        <3> QED
            BY <2>1, <3>1
    <2>3. case.kind # "rust" => S = r.prints
        OBVIOUS
    <2>4. "infra" \in S => "infra" \in r.prints
        OBVIOUS
    <2>5. case.kind = "rust" /\ "compile" \in S /\ "test result" \notin S
            => (r.reached => r.long /\ "compile" \in r.prints)
        OBVIOUS
    <2>6. r.passed = FALSE
        BY <1>1, <1>4 DEF Attempt
    <2>7. OutcomeOf(r).passed = FALSE
        BY <2>2 DEF Result
    <2> HIDE DEF S
    <2> QED
        BY <1>1, <1>4, <2>2, <2>3, <2>4, <2>5, <2>6, <2>7 DEF IsCompileFailure, Broken, Attempt
<1> QED
    BY <1>3, <1>4

\* The compiler takes every step of a plan to one statement, and a step that
\* verifies to one that finds.
LEMMA CompiledPlan ==
    ASSUME NEW plan \in Seq(Steps)
    PROVE  /\ Len(Compile(plan)) = Len(plan)
           /\ \A i \in DOMAIN plan : Verifies(plan[i]) => Compile(plan)[i] = "find"
<1>1. DOMAIN plan = 1 .. Len(plan) /\ Len(plan) \in Nat
    OBVIOUS
<1>2. Len(Compile(plan)) = Len(plan)
    BY <1>1 DEF Compile
<1>3. ASSUME NEW i \in DOMAIN plan, Verifies(plan[i])
      PROVE  Compile(plan)[i] = "find"
    <2> DEFINE s == plan[i]
    <2>1. s \in Steps
        OBVIOUS
    <2>2. Compile(plan)[i] = IF s.action = "text" THEN CompileText(s.says) ELSE CompileObject(s)
        BY DEF Compile
    <2> HIDE DEF s
    <2>3. CASE s.action = "find"
        BY <2>2, <2>3 DEF CompileObject
    <2>4. CASE s.action # "find"
        <3>1. /\ s.action \in {"text", "none", "expect"} /\ s.says.verb = "verify"
              /\ ~("enter" \in s.says.words /\ s.says.words \cap {"email", "password"} # {})
            BY <1>3, <2>4 DEF Verifies, s
        <3>2. CompileText(s.says) = "find"
            BY <3>1 DEF CompileText
        <3>3. s.action # "text" => CompileObject(s) = "find"
            BY <3>1, <3>2 DEF CompileObject
        <3> QED
            BY <2>2, <3>2, <3>3
    <2> QED
        BY <2>3, <2>4
<1> QED
    BY <1>2, <1>3

\* What a flow's step makes of an answer.
LEMMA ResponseFacts ==
    ASSUME NEW s \in StepSpec, NEW a \in Answers
    PROVE  /\ CheckResponse(Effective(s), a) \in Result
           /\ LET o == CheckResponse(Effective(s), a)
              IN  /\ o.lead = "other"
                  /\ o.passed /\ a.body = "not json" /\ SpecHasOracle(s) => a.status \notin {401, 404}
                  /\ o.says \cap {"infra", "unreachable"} # {} => a.says # {}
                  /\ "auth" \in o.says => a.says # {} \/ a.status \in {401, 403}
<1> DEFINE e == Effective(s)
           o == CheckResponse(e, a)
           Goal == /\ o \in Result /\ o.lead = "other"
                   /\ o.passed /\ a.body = "not json" /\ SpecHasOracle(s) => a.status \notin {401, 404}
                   /\ o.says \cap {"infra", "unreachable"} # {} => a.says # {}
                   /\ "auth" \in o.says => a.says # {} \/ a.status \in {401, 403}
<1>1. /\ a.status \in Nat /\ a.says \in SUBSET Phrases
      /\ a.body \in {"right", "no value", "wrong value", "errors", "not json"}
    BY CaseRunAssumption DEF Answer
<1>2. /\ e.expect = s.expect /\ e.query = s.query
      /\ e.asserts = CASE s.query = "none" -> s.asserts
                       [] s.query = "strict" -> "value" [] s.query = "lenient" -> "json"
    BY DEF Effective, StepSpec
<1>3. /\ s.expect \in {"exact", "success", "accepted", "any"}
      /\ s.asserts \in {"none", "json", "value"}
      /\ s.query \in {"none", "strict", "lenient"}
    BY DEF StepSpec
<1>4. /\ GotStatus(a.status) \in SUBSET Phrases /\ StatusOk(a.status) \in SUBSET Phrases
      /\ GotStatus(a.status) \cap {"infra", "unreachable"} = {}
      /\ "auth" \in GotStatus(a.status) => a.status \in {401, 403}
      /\ StatusOk(a.status) \cap {"infra", "unreachable", "auth"} = {}
      /\ {"expected got"} \in SUBSET Phrases
    <2>1. \A x \in GotStatus(a.status) :
              \/ x \in {"expected got", "404"}
              \/ x = "auth" /\ a.status \in {401, 403}
        BY DEF GotStatus
    <2>2. \A x \in StatusOk(a.status) : x = "404"
        BY DEF StatusOk
    <2>3. {"expected got", "404", "auth"} \subseteq Phrases
        BY DEF Phrases
    <2> QED
        BY <2>1, <2>2, <2>3, ZenonT(60)
<1> HIDE DEF e
<1>5. ASSUME ~Accepts(e.expect, a.status) PROVE Goal
    <2>1. o = Fail("other", GotStatus(a.status))
        BY <1>5 DEF CheckResponse
    <2>2. /\ Fail("other", GotStatus(a.status)) \in Result
          /\ ~Fail("other", GotStatus(a.status)).passed
          /\ Fail("other", GotStatus(a.status)).lead = "other"
          /\ Fail("other", GotStatus(a.status)).says = GotStatus(a.status)
        BY <1>4, FailTyped
    <2>3. o \in Result /\ ~o.passed /\ o.lead = "other" /\ o.says = GotStatus(a.status)
        BY <2>1, <2>2
    <2> HIDE DEF o
    <2> QED
        BY <1>4, <2>3, ZenonT(60)
<1>6. ASSUME Accepts(e.expect, a.status) PROVE Goal
    <2>1. \/ o = Pass /\ ~(e.asserts \in {"json", "value"} /\ a.body = "not json")
          \/ \E says \in {StatusOk(a.status), StatusOk(a.status) \cup a.says,
                          StatusOk(a.status) \cup {"expected got"} \cup a.says} :
                o = Fail("other", says)
        BY <1>1, <1>6 DEF CheckResponse
    <2>2. CASE o = Pass /\ ~(e.asserts \in {"json", "value"} /\ a.body = "not json")
        <3>1. a.body = "not json" /\ SpecHasOracle(s) => s.expect # "any"
            BY <1>2, <1>3, <2>2 DEF SpecHasOracle
        <3>2. s.expect # "any" => a.status \notin {401, 404}
            <4> SUFFICES ASSUME s.expect # "any", a.status \in {401, 404} PROVE FALSE
                OBVIOUS
            <4>1. s.expect \in {"exact", "success", "accepted"}
                BY <1>3
            <4>2. ~Accepts(s.expect, a.status)
                <5>1. CASE a.status = 401
                    BY <4>1, <5>1 DEF Accepts
                <5>2. CASE a.status = 404
                    BY <4>1, <5>2 DEF Accepts
                <5> QED
                    BY <5>1, <5>2
            <4> QED
                BY <1>2, <1>6, <4>2
        <3>3. a.body = "not json" /\ SpecHasOracle(s) => a.status \notin {401, 404}
            BY <3>1, <3>2
        <3> QED
            BY <2>2, <3>3, PassTyped
    <2>3. ASSUME NEW says \in {StatusOk(a.status), StatusOk(a.status) \cup a.says,
                               StatusOk(a.status) \cup {"expected got"} \cup a.says},
                 o = Fail("other", says)
          PROVE  /\ o \in Result /\ ~o.passed /\ o.lead = "other"
                 /\ o.says \cap {"infra", "unreachable", "auth"} # {} => a.says # {}
        <3>1. says \in SUBSET Phrases
            <4> DEFINE ok == StatusOk(a.status)
            <4> HIDE DEF ok
            <4>1. \A x \in says : x \in ok \/ x = "expected got" \/ x \in a.says
                BY <2>3 DEF ok
            <4>2. ok \subseteq Phrases /\ "expected got" \in Phrases
                BY <1>4 DEF ok
            <4> QED
                BY <1>1, <4>1, <4>2
        <3>2. says \cap {"infra", "unreachable", "auth"} # {} => a.says # {}
            <4>1. says \subseteq StatusOk(a.status) \cup {"expected got"} \cup a.says
                BY <2>3
            <4>2. \A x \in StatusOk(a.status) : x \notin {"infra", "unreachable", "auth"}
                BY <1>4
            <4>3. "expected got" \notin {"infra", "unreachable", "auth"}
                OBVIOUS
            <4> QED
                BY <4>1, <4>2, <4>3
        <3>3. /\ Fail("other", says) \in Result /\ ~Fail("other", says).passed
              /\ Fail("other", says).lead = "other" /\ Fail("other", says).says = says
            BY <3>1, FailTyped
        <3> QED
            BY <2>3, <3>2, <3>3
    <2> QED
        BY <2>1, <2>2, <2>3, ZenonT(60)
<1> QED
    BY <1>5, <1>6 DEF e

-----------------------------------------------------------------------------
(* The initial states *)

\* What the user has configured is what a case starts with, and nothing it
\* starts with is an answer.
LEMMA StartedFresh ==
    ASSUME NEW env \in SUBSET Vars, NEW json \in SUBSET Vars, NEW doc
    PROVE  LET new == Started(SetTo(env), SetTo(json), doc)
           IN  /\ new \in [Vars -> Int]
               /\ \A v \in Vars : new[v] <= Configured
               /\ \A v \in env \cup json : new[v] = Configured
<1> DEFINE e == SetTo(env)
           j == SetTo(json)
           seeds == VariableSeeds(doc)
           stored == SeedVariablesMissing(e, j, seeds)
           set == LoadVariables(e, stored)
<1>1. /\ DOMAIN e = env /\ \A v \in env : e[v] = Configured
      /\ DOMAIN j = json /\ \A v \in json : j[v] = Configured
    BY DEF SetTo
<1> HIDE DEF e, j, seeds
<1>2. /\ json \subseteq DOMAIN stored
      /\ \A v \in DOMAIN stored : stored[v] \in {Configured, Ingested}
      /\ \A v \in (env \cup json) \cap DOMAIN stored : stored[v] = Configured
    <2>1. CASE stored = j
        BY <1>1, <2>1
    <2>2. CASE stored = Seeding(e, j, seeds)
        <3> DEFINE both == LoadVariables(e, j)
                   given == [v \in seeds |-> Ingested]
        <3>1. DOMAIN both = env \cup json /\ \A v \in env \cup json : both[v] = Configured
            BY <1>1 DEF LoadVariables
        <3>2. DOMAIN given = seeds /\ \A v \in seeds : given[v] = Ingested
            OBVIOUS
        <3> HIDE DEF both, given
        <3>3. stored = [v \in DOMAIN given \cup DOMAIN both |->
                        IF v \in DOMAIN both THEN both[v] ELSE given[v]]
            BY <2>2 DEF Seeding, LoadVariables, both, given
        <3> QED
            BY <3>1, <3>2, <3>3
    <2> QED
        BY <2>1, <2>2 DEF SeedVariablesMissing
<1> HIDE DEF stored
<1>3. /\ \A v \in DOMAIN set : set[v] \in {Configured, Ingested}
      /\ \A v \in env \cup json : v \in DOMAIN set /\ set[v] = Configured
    BY <1>1, <1>2 DEF LoadVariables
<1> HIDE DEF set
<1>4. ASSUME NEW value, NEW v \in Vars
      PROVE  /\ SessionOf(set, value)[v] \in Int /\ SessionOf(set, value)[v] <= Configured
             /\ v \in env \cup json => SessionOf(set, value)[v] = Configured
    <2>1. CASE v \in DOMAIN set
        <3>1. ~InjectedLiteral(set, value, v)
            BY <2>1 DEF InjectedLiteral
        <3>2. SessionOf(set, value)[v] = set[v]
            BY <2>1, <3>1 DEF SessionOf
        <3>3. set[v] \in {Configured, Ingested}
            BY <1>3, <2>1
        <3> QED
            BY <1>3, <3>2, <3>3 DEF Configured, Ingested
    <2>2. CASE v \notin DOMAIN set
        <3>1. SessionOf(set, value)[v] \in {Literal, Seeded, Empty, Expanded, Verbatim}
            BY <2>2 DEF SessionOf, Expand
        <3> QED
            BY <1>3, <2>2, <3>1 DEF Literal, Seeded, Empty, Expanded, Verbatim, Configured
    <2> QED
        BY <2>1, <2>2
<1>5. \A value : DOMAIN SessionOf(set, value) = Vars
    BY DEF SessionOf
<1>6. \A value : SessionOf(set, value) \in [Vars -> Int]
    BY <1>4, <1>5 DEF SessionOf
<1> QED
    BY <1>4, <1>6 DEF Started, set, stored, e, j, seeds

LEMMA CaseInitInv == Init => CaseInv
<1> SUFFICES ASSUME Init PROVE CaseInv
    OBVIOUS
<1>1. /\ case \in Cases /\ at = "start" /\ step = 0 /\ sent = <<>> /\ code = "none"
      /\ tries = <<>> /\ outcome = NotYet /\ verdict = Pending
    BY DEF Init
<1>2. /\ session \in [Vars -> Int]
      /\ \A v \in Vars : session[v] <= Configured /\ (v \in config => session[v] = Configured)
    <2>1. PICK env \in SUBSET config, json \in SUBSET config, doc \in Documents :
              config = env \cup json /\ session = Started(SetTo(env), SetTo(json), doc)
        BY DEF Init
    <2>2. env \in SUBSET Vars /\ json \in SUBSET Vars
        BY DEF Init
    <2> QED
        BY <2>1, <2>2, StartedFresh
<1>3. NotYet \in Result
    BY FailTyped DEF NotYet
<1>4. CaseType
    BY <1>1, <1>2, <1>3 DEF CaseType, Places
<1>5. Route /\ Attempts /\ Browsing /\ Ended
    BY <1>1 DEF Route, Attempts, Browsing, Ended, Over
<1>6. \A v \in Vars : Holds(v)
    BY <1>1, <1>2 DEF Holds, Saves
<1>7. Flowing
    BY <1>1, <1>6, CaseFacts DEF Flowing
<1> QED
    BY <1>4, <1>5, <1>7 DEF CaseInv

-----------------------------------------------------------------------------
(* The steps *)

LEMMA Context ==
    ASSUME CaseInv
    PROVE  /\ case \in Cases /\ case.kind \in Kinds /\ case.form \in Forms
           /\ Flow => case.kind = "backend" /\ case.form \in {"steps", "spec"} /\ ~BringsProgram
           /\ BringsProgram => case.kind \in {"backend", "frontend", "rust", "command"}
           /\ case.plan # <<>> => case.kind = "frontend" /\ case.plan \in Seq(Steps)
           /\ case.steps \in Seq(StepSpec) /\ Len(case.steps) \in Nat
           /\ Flow => Len(case.steps) >= 1
BY CaseFacts DEF CaseInv, CaseType, Flow, BringsProgram, BringsCode

\* A step whose answer, and those before it, stand keeps what is known of it.
LEMMA StaysFresh ==
    ASSUME NEW CONSTANT k, Fresh(k), Noticed(k), UNCHANGED <<case, config>>,
           sent'[k] = sent[k], \A j \in 1 .. k - 1 : sent'[j] = sent[j]
    PROVE  Fresh(k)' /\ Noticed(k)'
<1>1. Sources(k)' = Sources(k)
    BY DEF Sources
<1>2. Noticed(k)'
    BY DEF Noticed
<1>3. Fresh(k)'
    BY <1>1 DEF Fresh
<1> QED
    BY <1>2, <1>3

\* Away from a flow nothing that is known of it changes.
LEMMA FlowStands ==
    ASSUME CaseInv, UNCHANGED <<case, config, session, sent>>, at' \notin {"start", "send"}
    PROVE  Flowing'
<1>1. ASSUME NEW k \in DOMAIN sent PROVE (Fresh(k) /\ Noticed(k))'
    <2>1. Fresh(k) /\ Noticed(k)
        BY DEF CaseInv, Flowing
    <2> QED
        BY <2>1, StaysFresh
<1> QED
    BY <1>1 DEF CaseInv, Flowing

LEMMA StartKeeps ==
    ASSUME CaseInv, Start
    PROVE  CaseInv'
<1>1. /\ at = "start" /\ sent = <<>> /\ tries = <<>> /\ code = "none"
      /\ UNCHANGED <<case, config, session, sent, shown, tries, verdict>>
    BY DEF Start, Rest, CaseInv, Route, Attempts
<1>2. step \in Nat /\ step' \in Nat /\ verdict' = Pending
    <2>1. verdict = Pending /\ step \in Nat
        BY <1>1 DEF CaseInv, CaseType
    <2>2. step' \in {step, 1}
        BY DEF Start, StartBackend, StartFrontend, StartRust, StartCommand, StartMcp
    <2> QED
        BY <1>1, <2>1, <2>2
<1> DEFINE NoCode == code' = code /\ ~BringsProgram
           Here == ~Flow /\ ~(case.kind = "backend" /\ case.form = "bad steps") /\ outcome' = outcome
<1>3. \/ Flow /\ at' = "send" /\ step' = 1 /\ NoCode /\ outcome' = outcome
      \/ /\ at' = "done" /\ NoCode
         /\ outcome' = Fail("other", {}) \/ outcome' = Fail("other", {"infra"})
         /\ ~Flow
      \/ at' \in {"write", "spawn"} /\ code' = "given" /\ Here /\ case.kind # "mcp"
      \/ /\ at' \in {"write", "spawn"} /\ code' = "smoke" /\ Here /\ case.kind # "mcp"
         /\ ~BringsProgram
      \/ at' = "generate" /\ NoCode /\ Here /\ case.kind \in {"backend", "frontend", "rust"}
      \/ at' = "probe" /\ NoCode /\ Here /\ case.kind = "mcp"
    <2>1. CASE StartBackend
        BY <2>1, Context DEF StartBackend, Goto, End, Flow, BringsProgram, BringsCode
    <2>2. CASE StartFrontend
        BY <2>2, Context DEF StartFrontend, Goto, Flow, BringsProgram, BringsCode
    <2>3. CASE StartRust
        BY <2>3, Context DEF StartRust, Goto, Flow, BringsProgram, BringsCode
    <2>4. CASE StartCommand
        BY <2>4, Context DEF StartCommand, Goto, End, Flow, BringsProgram, BringsCode
    <2>5. CASE StartMcp
        BY <2>5, Context DEF StartMcp, Goto, Flow, BringsProgram, BringsCode
    <2> QED
        BY <2>1, <2>2, <2>3, <2>4, <2>5 DEF Start
<1>4. /\ outcome' \in Result
      /\ at' = "done" => ~outcome'.passed /\ outcome'.lead = "other"
    <2>1. {"infra"} \in SUBSET Phrases /\ outcome \in Result
        BY DEF Phrases, CaseInv, CaseType
    <2>2. /\ Fail("other", {}) \in Result /\ ~Fail("other", {}).passed
          /\ Fail("other", {}).lead = "other"
          /\ Fail("other", {"infra"}) \in Result /\ ~Fail("other", {"infra"}).passed
          /\ Fail("other", {"infra"}).lead = "other"
        BY <2>1, FailTyped
    <2> QED
        BY <1>3, <2>1, <2>2
<1>5. CaseType'
    BY <1>1, <1>2, <1>3, <1>4 DEF CaseInv, CaseType, Places
<1>6. Route'
    BY <1>1, <1>3, Context DEF Route, Flow, BringsProgram, BringsCode, Over
<1>7. Attempts' /\ Browsing'
    <2>1. tries' = <<>> /\ at' \notin {"repair", "browse"}
        BY <1>1, <1>3
    <2> QED
        BY <2>1 DEF Attempts, Browsing
<1>8. Flowing'
    <2>1. CASE at' = "send"
        <3>1. \A v \in Vars : Holds(v)'
            BY <1>1 DEF CaseInv, Flowing, Holds, Saves
        <3> QED
            BY <1>1, <1>3, <2>1, <3>1, Context DEF Flowing
    <2>2. CASE at' # "send"
        BY <1>1, <1>3, <2>2, FlowStands
    <2> QED
        BY <2>1, <2>2
<1>9. Ended'
    BY <1>1, <1>3, <1>4 DEF Ended, Over, Explained
<1> QED
    BY <1>5, <1>6, <1>7, <1>8, <1>9 DEF CaseInv

LEMMA StepErrorKeeps ==
    ASSUME NEW o \in Result
    PROVE  /\ StepError(o) \in Result /\ StepError(o).passed = o.passed
           /\ StepError(o).says = o.says
           /\ o.lead = "other" => StepError(o).lead = "other"
BY DEF StepError, Result

\* A request carries what its variable holds.
LEMMA CarriesFresh ==
    ASSUME NEW CONSTANT k,
           case.steps[k].uses # NoVar => Holds(case.steps[k].uses)
                /\ Saves(case.steps[k].uses) = Sources(k)'
                /\ sent'[k].token = session[case.steps[k].uses],
           UNCHANGED <<case, config>>
    PROVE  Fresh(k)'
<1>1. CASE case.steps[k].uses = NoVar
    BY <1>1 DEF Fresh
<1>2. CASE case.steps[k].uses # NoVar
    <2> DEFINE v == case.steps[k].uses
    <2>1. CASE session[v] \in Saves(v) /\ \A j \in Saves(v) : j <= session[v]
        <3>1. sent'[k].token \in Sources(k)' /\ \A j \in Sources(k)' : j <= sent'[k].token
            BY <1>2, <2>1
        <3> QED
            BY <3>1 DEF Fresh
    <2>2. CASE /\ Saves(v) = {} /\ session[v] <= Configured
               /\ v \in config => session[v] = Configured
        <3>1. /\ Sources(k)' = {} /\ sent'[k].token <= Configured
              /\ v \in config => sent'[k].token = Configured
            BY <1>2, <2>2
        <3> QED
            BY <3>1 DEF Fresh
    <2> QED
        BY <1>2, <2>1, <2>2 DEF Holds
<1> QED
    BY <1>1, <1>2

\* An answer to a flow's step, right or wrong: what it changes.
LEMMA Answered ==
    ASSUME CaseInv, at = "send", NEW a \in Answers,
           NEW e, e = Effective(case.steps[step]),
           NEW o, o = CheckResponse(e, a),
           NEW q, q = [token   |-> Token(e),
                       carries |-> a.carries,
                       status  |-> a.status,
                       body    |-> a.body,
                       quotes  |-> IF o.passed THEN {} ELSE a.says,
                       passed  |-> o.passed],
           session' = Saved(e, a, step),
           sent' = Append(sent, q),
           UNCHANGED <<case, config>>
    PROVE  /\ q \in Request /\ session' \in [Vars -> Int]
           /\ sent' \in Seq(Request) /\ Len(sent') = step /\ step <= Len(case.steps)
           /\ sent'[step] = q /\ \A k \in 1 .. step - 1 : sent'[k] = sent[k]
           /\ \A v \in Vars : Holds(v)'
           /\ \A k \in DOMAIN sent' : (Fresh(k) /\ Noticed(k))'
<1> DEFINE s == case.steps[step]
<1>1. /\ Flow /\ step \in 1 .. Len(case.steps) /\ step \in Nat /\ Len(sent) = step - 1
      /\ sent \in Seq(Request) /\ session \in [Vars -> Int]
      /\ DOMAIN sent = 1 .. step - 1 /\ \A k \in 1 .. step - 1 : sent[k] \in Request
      /\ case' = case /\ config' = config
    <2>1. /\ Flow /\ step \in 1 .. Len(case.steps) /\ step \in Nat /\ Len(sent) = step - 1
          /\ sent \in Seq(Request) /\ session \in [Vars -> Int]
        BY DEF CaseInv, CaseType, Route, Flowing
    <2> QED
        BY <2>1
<1>2. s \in StepSpec /\ s.saves \in Vars \cup {NoVar} /\ s.uses \in Vars \cup {NoVar}
    <2>1. s \in StepSpec
        BY <1>1, Context
    <2> HIDE DEF s
    <2> QED
        BY <2>1 DEF StepSpec
<1>3. e.saves = s.saves /\ e.uses = s.uses
    BY <1>2 DEF Effective, StepSpec
<1>4. /\ a.status \in Nat /\ a.carries \in BOOLEAN /\ a.says \in SUBSET Phrases
      /\ a.body \in {"right", "no value", "wrong value", "errors", "not json"}
    BY CaseRunAssumption DEF Answer
<1>5. /\ o \in Result /\ o.passed \in BOOLEAN
      /\ o.passed /\ a.body = "not json" /\ SpecHasOracle(s) => a.status \notin {401, 404}
    BY <1>2, ResponseFacts DEF Result
<1>6. Token(e) \in Int /\ (s.uses # NoVar => s.uses \in Vars /\ Token(e) = session[s.uses])
    BY <1>1, <1>2, <1>3 DEF Token, Empty
<1>7. /\ q.token = Token(e) /\ q.carries = a.carries /\ q.status = a.status
      /\ q.body = a.body /\ q.passed = o.passed
      /\ session' = IF s.saves # NoVar /\ a.carries THEN [session EXCEPT ![s.saves] = step] ELSE session
    BY <1>3 DEF Saved
<1>8. q \in Request
    BY <1>4, <1>5, <1>6 DEF Request
<1>9. /\ sent' \in Seq(Request) /\ Len(sent') = step /\ DOMAIN sent' = 1 .. step
      /\ sent'[step] = q /\ \A k \in 1 .. step - 1 : sent'[k] = sent[k]
    BY <1>1, <1>8
<1> HIDE DEF s
<1>10. /\ session' \in [Vars -> Int]
       /\ \A v \in Vars : session'[v] = IF v = s.saves /\ a.carries THEN step ELSE session[v]
    <2>1. CASE s.saves # NoVar /\ a.carries
        BY <1>1, <1>2, <1>7, <2>1
    <2>2. CASE ~(s.saves # NoVar /\ a.carries)
        BY <1>1, <1>7, <2>2, CaseRunAssumption
    <2> QED
        BY <2>1, <2>2
<1>11. ASSUME NEW v \in Vars PROVE Holds(v)'
    <2>1. Holds(v)
        BY DEF CaseInv, Flowing
    <2>2. Saves(v) = {j \in 1 .. step - 1 : case.steps[j].saves = v /\ sent[j].carries}
        BY <1>1 DEF Saves
    <2>3. Saves(v)' = {j \in 1 .. step : case.steps[j].saves = v /\ sent'[j].carries}
        BY <1>9 DEF Saves
    <2>4. Saves(v)' = Saves(v) \cup (IF s.saves = v /\ a.carries THEN {step} ELSE {})
        BY <1>1, <1>7, <1>9, <2>2, <2>3 DEF s
    <2>5. CASE s.saves = v /\ a.carries
        <3>1. session'[v] = step /\ step \in Saves(v)' /\ \A j \in Saves(v)' : j <= step
            BY <1>1, <1>10, <2>3, <2>4, <2>5
        <3> QED
            BY <3>1 DEF Holds
    <2>6. CASE ~(s.saves = v /\ a.carries)
        <3>1. session'[v] = session[v] /\ Saves(v)' = Saves(v)
            BY <1>10, <2>4, <2>6
        <3> QED
            BY <2>1, <3>1 DEF Holds
    <2> QED
        BY <2>5, <2>6
<1>12. ASSUME NEW k \in DOMAIN sent' PROVE Fresh(k)' /\ Noticed(k)'
    <2>1. k \in 1 .. step
        BY <1>9
    <2>2. Sources(k)' = {j \in 1 .. k - 1 : case.steps[j].saves = case.steps[k].uses /\ sent[j].carries}
        BY <1>1, <1>9, <2>1 DEF Sources
    <2>3. CASE k < step
        <3>1. Fresh(k) /\ Noticed(k) /\ sent'[k] = sent[k]
            BY <1>1, <1>9, <2>1, <2>3 DEF CaseInv, Flowing
        <3>2. \A j \in 1 .. k - 1 : sent'[j] = sent[j]
            BY <1>9, <2>1
        <3> QED
            BY <3>1, <3>2, StaysFresh
    <2>4. CASE k = step
        <3>1. /\ sent'[k].passed = o.passed /\ sent'[k].body = a.body
              /\ sent'[k].status = a.status /\ sent'[k].token = Token(e)
            BY <1>7, <1>9, <2>4
        <3>2. Noticed(k)'
            BY <1>1, <1>5, <2>4, <3>1, ZenonT(60) DEF Noticed, s
        <3>3. ASSUME s.uses # NoVar
              PROVE  /\ Holds(s.uses) /\ Saves(s.uses) = Sources(k)'
                     /\ sent'[k].token = session[s.uses]
            <4>1. Holds(s.uses) /\ sent'[k].token = session[s.uses]
                BY <1>6, <3>1, <3>3 DEF CaseInv, Flowing
            <4>2. Saves(s.uses) = {j \in 1 .. step - 1 : case.steps[j].saves = s.uses /\ sent[j].carries}
                BY <1>1 DEF Saves
            <4> QED
                BY <2>2, <2>4, <4>1, <4>2 DEF s
        <3>4. Fresh(k)'
            BY <1>1, <2>4, <3>3, CarriesFresh DEF s
        <3> QED
            BY <3>2, <3>4
    <2> QED
        BY <1>1, <2>1, <2>3, <2>4
<1> QED
    BY <1>1, <1>8, <1>9, <1>10, <1>11, <1>12

LEMMA SendStepKeeps ==
    ASSUME CaseInv, SendStep
    PROVE  CaseInv'
<1>1. /\ at = "send" /\ Flow /\ tries = <<>> /\ verdict = Pending
      /\ step \in 1 .. Len(case.steps) /\ Len(sent) = step - 1
      /\ sent \in Seq(Request) /\ \A k \in DOMAIN sent : sent[k].passed
      /\ UNCHANGED <<case, config, shown, code, tries, verdict>>
      /\ outcome \in Result /\ step \in Nat
    BY DEF SendStep, CaseInv, CaseType, Route, Flowing
<1>2. Attempts' /\ Browsing' /\ Flow' /\ ~BringsProgram'
    <2>1. at' # "browse" /\ at' # "repair" /\ tries' = <<>>
        BY <1>1 DEF SendStep, End, Goto
    <2> QED
        BY <1>1, <2>1, Context DEF Attempts, Browsing, Flow, BringsProgram, BringsCode
<1>3. ASSUME NEW says \in SUBSET Phrases,
             End(StepError(Fail("request failed", says))),
             UNCHANGED <<step, session, sent>>
      PROVE  CaseInv'
    <2>3. Fail("request failed", says) \in Result /\ ~Fail("request failed", says).passed
        BY FailTyped
    <2>4. at' = "done" /\ outcome' \in Result /\ ~outcome'.passed
        BY <1>3, <2>3, StepErrorKeeps DEF End
    <2>5. CaseType' /\ Route'
        BY <1>1, <1>2, <1>3, <2>4 DEF CaseInv, CaseType, Route, Places, Over
    <2>6. Flowing'
        BY <1>1, <1>3, <2>4, FlowStands
    <2>7. Ended'
        <3>1. CASE sent = <<>>
            <4>1. Explained'
                BY <1>1, <1>3, <3>1 DEF Explained
            <4> QED
                BY <1>1, <2>4, <4>1, Context DEF Ended
        <3>2. CASE sent # <<>>
            <4>1. Len(sent) < step
                <5>1. Len(sent) = step - 1 /\ step \in Nat
                    BY <1>1
                <5> QED
                    BY <5>1
            <4>2. Unanswered'
                BY <1>2, <1>3, <3>2, <4>1 DEF Unanswered
            <4> QED
                BY <1>1, <2>4, <4>2, Context DEF Ended, Explained
        <3> QED
            BY <3>1, <3>2
    <2> QED
        BY <1>2, <2>5, <2>6, <2>7 DEF CaseInv
<1>4. ASSUME NEW a \in Answers,
             LET e == Effective(case.steps[step])
                 o == CheckResponse(e, a)
             IN  /\ session' = Saved(e, a, step)
                 /\ sent' = Append(sent, [token   |-> Token(e),
                                          carries |-> a.carries,
                                          status  |-> a.status,
                                          body    |-> a.body,
                                          quotes  |-> IF o.passed THEN {} ELSE a.says,
                                          passed  |-> o.passed])
                 /\ IF ~o.passed THEN End(StepError(o)) /\ UNCHANGED step
                    ELSE IF step = Len(case.steps) THEN End(Pass) /\ UNCHANGED step
                    ELSE step' = step + 1 /\ Goto("send")
      PROVE  CaseInv'
    <2> DEFINE s == case.steps[step]
               e == Effective(s)
               o == CheckResponse(e, a)
               q == [token   |-> Token(e),
                     carries |-> a.carries,
                     status  |-> a.status,
                     body    |-> a.body,
                     quotes  |-> IF o.passed THEN {} ELSE a.says,
                     passed  |-> o.passed]
    <2>1. /\ q.passed = o.passed /\ q.status = a.status
          /\ ~o.passed => q.quotes = a.says
        OBVIOUS
    <2>2. /\ q \in Request /\ session' \in [Vars -> Int]
          /\ sent' \in Seq(Request) /\ Len(sent') = step /\ step <= Len(case.steps)
          /\ sent'[step] = q /\ \A k \in 1 .. step - 1 : sent'[k] = sent[k]
          /\ \A v \in Vars : Holds(v)'
          /\ \A k \in DOMAIN sent' : (Fresh(k) /\ Noticed(k))'
        BY <1>1, <1>4, Answered
    <2>3. s \in StepSpec
        BY <1>1, Context
    <2>4. /\ o \in Result /\ o.lead = "other" /\ o.passed \in BOOLEAN
          /\ o.says \cap {"infra", "unreachable"} # {} => a.says # {}
          /\ "auth" \in o.says => a.says # {} \/ a.status \in {401, 403}
        BY <2>3, ResponseFacts, ZenonT(60) DEF Result
    <2>5. /\ IF ~o.passed THEN End(StepError(o)) /\ step' = step
             ELSE IF step = Len(case.steps) THEN End(Pass) /\ step' = step
             ELSE step' = step + 1 /\ Goto("send")
        BY <1>4
    <2> HIDE DEF s, e, o, q
    <2>6. DOMAIN sent = 1 .. step - 1 /\ DOMAIN sent' = 1 .. step
        BY <1>1, <2>2
    <2>10. ASSUME o.passed PROVE \A k \in DOMAIN sent' : sent'[k].passed
        <3> SUFFICES ASSUME NEW k \in DOMAIN sent' PROVE sent'[k].passed
            OBVIOUS
        <3>1. CASE k = step
            BY <2>1, <2>2, <2>10, <3>1
        <3>2. CASE k # step
            <4>1. k \in 1 .. step - 1 /\ k \in DOMAIN sent
                BY <1>1, <2>6, <3>2
            <4> QED
                BY <1>1, <2>2, <4>1
        <3> QED
            BY <3>1, <3>2
    <2>7. CASE ~o.passed
        <3>1. /\ at' = "done" /\ outcome' \in Result /\ ~outcome'.passed /\ step' = step
              /\ outcome'.lead = "other" /\ outcome'.says = o.says
            BY <2>4, <2>5, <2>7, StepErrorKeeps DEF End
        <3>2. CaseType' /\ Route'
            BY <1>1, <1>2, <2>2, <3>1 DEF CaseInv, CaseType, Route, Places, Over
        <3>3. Flowing'
            BY <1>1, <2>2, <3>1 DEF Flowing
        <3>4. WrongAnswer'
            BY <1>1, <1>2, <2>1, <2>2, <2>4, <2>7, <3>1 DEF WrongAnswer
        <3>5. Ended'
            BY <1>1, <3>1, <3>4, Context DEF Ended, Over, Explained
        <3> QED
            BY <1>2, <3>2, <3>3, <3>5 DEF CaseInv
    <2>8. CASE o.passed /\ step = Len(case.steps)
        <3>1. at' = "done" /\ outcome' = Pass /\ step' = step
            BY <2>5, <2>8 DEF End
        <3>2. CaseType' /\ Route'
            BY <1>1, <1>2, <2>2, <3>1, PassTyped DEF CaseInv, CaseType, Route, Places, Over
        <3>3. Flowing'
            BY <1>1, <2>2, <3>1 DEF Flowing
        <3>4. \A k \in DOMAIN sent' : sent'[k].passed
            BY <2>8, <2>10
        <3>5. case.plan = <<>> /\ case.form # "bad steps"
            BY <1>1, Context
        <3>6. Earned'
            <4>1. \A i \in DOMAIN case.plan : FALSE
                BY <3>5, EmptyDomain
            <4>2. case' = case /\ Len(sent') = Len(case.steps)
                BY <1>1, <2>2, <2>8
            <4> QED
                BY <1>2, <3>4, <3>5, <4>1, <4>2 DEF Earned
        <3>7. Ended'
            BY <1>1, <3>1, <3>6, PassTyped, Context DEF Ended
        <3> QED
            BY <1>2, <3>2, <3>3, <3>7 DEF CaseInv
    <2>9. CASE o.passed /\ step # Len(case.steps)
        <3>1. at' = "send" /\ outcome' = outcome /\ step' = step + 1
            BY <2>5, <2>9 DEF Goto
        <3>2. CaseType'
            <4>1. step' \in Nat /\ verdict' = Pending
                BY <1>1, <3>1
            <4> QED
                BY <1>1, <2>2, <3>1, <4>1 DEF CaseInv, CaseType, Places
        <3>6. Route'
            BY <1>1, <1>2, <3>1 DEF CaseInv, Route, Over
        <3>3. \A k \in DOMAIN sent' : sent'[k].passed
            BY <2>9, <2>10
        <3>4. Flowing'
            BY <1>1, <2>2, <2>9, <3>1, <3>3, Context DEF Flowing
        <3>5. Ended'
            BY <3>1 DEF Ended, Over
        <3> QED
            BY <1>2, <3>2, <3>4, <3>5, <3>6 DEF CaseInv
    <2> QED
        BY <2>4, <2>7, <2>8, <2>9
<1>5. \A slow \in {{}, {"timed out"}} : {"unreachable"} \cup slow \in SUBSET Phrases
    BY DEF Phrases
<1> QED
    BY <1>3, <1>4, <1>5 DEF SendStep

\* Past the start, a case that is no flow.
LEMMA Aside ==
    ASSUME CaseInv,
           at \in {"generate", "write", "image", "spawn", "browse", "repair", "probe"},
           at' \notin {"start", "send"},
           UNCHANGED <<case, config, session, sent, verdict>>
    PROVE  /\ ~Flow /\ ~Flow' /\ sent = <<>> /\ sent' = <<>> /\ Flowing'
           /\ ~(case.kind = "backend" /\ case.form = "bad steps")
           /\ BringsProgram => code = "given"
           /\ BringsProgram' <=> BringsProgram
           /\ verdict' = Pending
           /\ case' = case /\ case \in Cases
           /\ session' \in [Vars -> Int] /\ sent' \in Seq(Request)
           /\ tries \in Seq(Attempt) /\ outcome \in Result /\ step \in Nat
           /\ code \in {"none", "given", "llm", "smoke"}
           /\ \A k \in DOMAIN tries : Broken(tries[k])
           /\ case.kind # "rust" => tries = <<>>
           /\ case.kind = "mcp" => at = "probe"
<1>1. /\ ~Flow /\ sent = <<>> /\ ~(case.kind = "backend" /\ case.form = "bad steps")
      /\ BringsProgram => code = "given"
      /\ case.kind = "mcp" => at = "probe"
    BY DEF CaseInv, Route, Over
<1>2. /\ \A k \in DOMAIN tries : Broken(tries[k])
      /\ case.kind # "rust" => tries = <<>>
    BY DEF CaseInv, Attempts, Over
<1>3. /\ verdict = Pending /\ case \in Cases /\ tries \in Seq(Attempt) /\ outcome \in Result
      /\ step \in Nat /\ session \in [Vars -> Int] /\ sent \in Seq(Request)
      /\ code \in {"none", "given", "llm", "smoke"}
    BY DEF CaseInv, CaseType
<1>4. Flow' = Flow /\ BringsProgram' = BringsProgram
    BY DEF Flow, BringsProgram, BringsCode
<1> QED
    BY <1>1, <1>2, <1>3, <1>4, FlowStands

\* Such a case that ends here without a subprocess having run.
LEMMA FailsHere ==
    ASSUME CaseInv,
           at \in {"generate", "write", "image", "spawn", "browse", "repair", "probe"},
           at' = "done", outcome' \in Result, ~outcome'.passed,
           outcome'.lead = "build error" => tries # <<>>,
           UNCHANGED <<case, config, session, sent, code, tries, verdict, step>>
    PROVE  CaseInv'
<1>1. CaseType'
    BY Aside DEF CaseType, Places
<1>2. Route'
    BY Aside DEF CaseInv, Route, Over
<1>3. Attempts' /\ Browsing'
    BY DEF CaseInv, Attempts, Browsing, Over
<1>4. tries # <<>> => case.kind = "rust" /\ Broken(LastTry)
    <2>1. tries \in Seq(Attempt)
        BY Aside
    <2>2. tries # <<>> => Len(tries) \in DOMAIN tries
        BY <2>1, LastOf
    <2> QED
        BY <2>2, Aside DEF LastTry
<1>5. tries # <<>> => BuildFailed'
    BY <1>4 DEF BuildFailed, Broken, LastTry
<1>6. Explained'
    BY <1>5, Aside DEF Explained
<1>7. Ended'
    BY <1>5, <1>6 DEF Ended
<1> QED
    BY <1>1, <1>2, <1>3, <1>7, Aside DEF CaseInv

LEMMA GenerateKeeps ==
    ASSUME CaseInv, Generate
    PROVE  CaseInv'
<1>1. /\ at = "generate" /\ case.kind \in {"backend", "frontend", "rust"} /\ ~BringsProgram
      /\ tries = <<>>
      /\ UNCHANGED <<case, config, session, sent, tries, verdict, step>>
    BY DEF Generate, Rest, CaseInv, Route, Attempts
<1>2. \/ at' = "write" /\ code' \in {"llm", "smoke"} /\ outcome' = outcome
      \/ \E says \in {{"infra"}, {}} : End(Fail("other", says)) /\ code' = code
    BY <1>1 DEF Generate, Goto, End
<1>3. CASE at' = "write" /\ code' \in {"llm", "smoke"} /\ outcome' = outcome
    <2>1. CaseType'
        BY <1>1, <1>3, Aside DEF CaseType, Places
    <2>2. Route'
        BY <1>1, <1>3, Aside DEF Route
    <2>3. Attempts' /\ Browsing' /\ Ended'
        BY <1>1, <1>3 DEF Attempts, Browsing, Ended, Over
    <2> QED
        BY <1>1, <1>3, <2>1, <2>2, <2>3, Aside DEF CaseInv
<1>4. ASSUME NEW says \in SUBSET Phrases, End(Fail("other", says)), code' = code PROVE CaseInv'
    <2>1. at' = "done" /\ outcome' \in Result /\ ~outcome'.passed /\ outcome'.lead = "other"
        BY <1>4, FailTyped DEF End
    <2> QED
        BY <1>1, <1>4, <2>1, FailsHere
<1>5. {"infra"} \in SUBSET Phrases /\ {} \in SUBSET Phrases
    BY DEF Phrases
<1> QED
    BY <1>2, <1>3, <1>4, <1>5

\* The words of a harness that could not start.
LEMMA CouldNotTyped ==
    /\ Fail("other", CouldNot) \in Result /\ ~Fail("other", CouldNot).passed
    /\ Fail("other", CouldNot).lead = "other"
    /\ "compile" \notin Fail("other", CouldNot).says
<1>1. CouldNot \in SUBSET Phrases /\ "compile" \notin CouldNot
    BY DEF CouldNot, Phrases
<1> QED
    BY <1>1, FailTyped

LEMMA WriteFileKeeps ==
    ASSUME CaseInv, WriteFile
    PROVE  CaseInv'
<1>1. /\ at = "write"
      /\ UNCHANGED <<case, config, session, sent, code, tries, verdict, step>>
    BY DEF WriteFile
<1>2. CASE /\ at' \in {"spawn", "image"} /\ outcome' = outcome
           /\ at' = "image" => case.kind = "frontend"
    <2>1. CaseType'
        BY <1>1, <1>2, Aside DEF CaseType, Places
    <2>2. Route'
        BY <1>1, <1>2, Aside DEF CaseInv, Route
    <2>3. Attempts' /\ Browsing' /\ Ended'
        BY <1>1, <1>2 DEF CaseInv, Attempts, Browsing, Ended, Over
    <2> QED
        BY <1>1, <1>2, <2>1, <2>2, <2>3, Aside DEF CaseInv
<1>3. CASE End(Fail("other", CouldNot))
    BY <1>1, <1>3, CouldNotTyped, FailsHere DEF End
<1> QED
    BY <1>2, <1>3 DEF WriteFile, Goto

LEMMA ImageKeeps ==
    ASSUME CaseInv, Image
    PROVE  CaseInv'
<1>1. /\ at = "image"
      /\ UNCHANGED <<case, config, session, sent, code, tries, verdict, step>>
    BY DEF Image
<1>2. CASE at' = "spawn" /\ outcome' = outcome
    <2>1. CaseType'
        BY <1>1, <1>2, Aside DEF CaseType, Places
    <2>2. Route'
        BY <1>1, <1>2, Aside DEF CaseInv, Route
    <2>3. Attempts' /\ Browsing' /\ Ended'
        BY <1>1, <1>2 DEF CaseInv, Attempts, Browsing, Ended, Over
    <2> QED
        BY <1>1, <1>2, <2>1, <2>2, <2>3, Aside DEF CaseInv
<1>3. ASSUME NEW prints \in Echoes, End(Fail("other", prints)) PROVE CaseInv'
    <2>1. prints \in SUBSET Phrases
        BY CaseRunAssumption
    <2>2. outcome' \in Result /\ ~outcome'.passed /\ outcome'.lead = "other"
        BY <1>3, <2>1, FailTyped DEF End
    <2> QED
        BY <1>1, <1>3, <2>2, FailsHere DEF End
<1> QED
    BY <1>2, <1>3 DEF Image, Goto

\* A run of the subprocess is one more try.
LEMMA OneMoreTry ==
    ASSUME CaseInv,
           at \in {"generate", "write", "image", "spawn", "browse", "repair", "probe"},
           NEW r \in Attempt, tries' = Append(tries, r)
    PROVE  /\ tries' \in Seq(Attempt) /\ tries' # <<>> /\ LastTry' = r
           /\ \A k \in 1 .. Len(tries') - 1 : Broken(tries'[k])
           /\ Broken(r) => \A k \in DOMAIN tries' : Broken(tries'[k])
<1>1. tries \in Seq(Attempt) /\ \A k \in DOMAIN tries : Broken(tries[k])
    BY DEF CaseInv, CaseType, Attempts, Over
<1>2. /\ tries' \in Seq(Attempt) /\ Len(tries') = Len(tries) + 1 /\ Len(tries) \in Nat
      /\ DOMAIN tries = 1 .. Len(tries) /\ DOMAIN tries' = 1 .. Len(tries) + 1
      /\ tries'[Len(tries) + 1] = r /\ \A k \in 1 .. Len(tries) : tries'[k] = tries[k]
    BY <1>1
<1>3. LastTry' = r
    BY <1>2 DEF LastTry
<1>4. \A k \in 1 .. Len(tries) : Broken(tries'[k])
    BY <1>1, <1>2
<1>5. tries' # <<>>
    BY <1>2
<1>6. Len(tries') - 1 = Len(tries)
    BY <1>2
<1>7. Broken(r) => \A k \in DOMAIN tries' : Broken(tries'[k])
    <2> SUFFICES ASSUME Broken(r), NEW k \in DOMAIN tries' PROVE Broken(tries'[k])
        OBVIOUS
    <2>1. k \in 1 .. Len(tries) \/ k = Len(tries) + 1
        BY <1>2
    <2> QED
        BY <1>2, <1>4, <2>1
<1> QED
    BY <1>2, <1>3, <1>4, <1>5, <1>6, <1>7

\* What holds of every ending with a try.
LEMMA EndsWithTry ==
    ASSUME CaseInv, at \in {"spawn", "browse"}, at' = "done",
           outcome' \in Result, step' \in Nat,
           NEW r \in Attempt, tries' = Append(tries, r),
           UNCHANGED <<case, config, session, sent, code, verdict>>,
           IF outcome'.passed THEN Earned' ELSE Explained',
           case.kind = "rust" /\ outcome'.lead = "build error" => BuildFailed'
    PROVE  CaseInv'
<1>1. CaseType'
    BY Aside, OneMoreTry DEF CaseType, Places
<1>2. Route'
    BY Aside DEF CaseInv, Route, Over
<1>3. Attempts' /\ Browsing'
    BY OneMoreTry DEF Attempts, Browsing, Over
<1>4. Ended'
    BY DEF Ended
<1> QED
    BY <1>1, <1>2, <1>3, <1>4, Aside DEF CaseInv

LEMMA SpawnKeeps ==
    ASSUME CaseInv, Spawn
    PROVE  CaseInv'
<1>1. /\ at = "spawn" /\ ~(case.kind = "frontend" /\ code # "llm")
      /\ UNCHANGED <<case, config, step, session, sent, code, rounds, verdict>>
    BY DEF Spawn
<1>2. ASSUME Return(Fail("other", CouldNot)), tries' = tries PROVE CaseInv'
    <2> DEFINE o == Fail("other", CouldNot)
    <2>1. /\ o \in Result /\ ~o.passed /\ o.lead = "other" /\ "compile" \notin o.says
        BY CouldNotTyped
    <2>2. Return(o)
        BY <1>2
    <2> HIDE DEF o
    <2>3. ~IsCompileFailure(o) /\ ~RepairDue(o)
        BY <2>1 DEF IsCompileFailure, RepairDue
    <2>4. Stamp(o) = o
        BY <2>3 DEF Stamp
    <2>5. End(o)
        BY <2>2, <2>3, <2>4 DEF Return
    <2> QED
        BY <1>1, <1>2, <2>1, <2>5, FailsHere DEF End
<1>3. ASSUME NEW r \in Runs, tries' = Append(tries, r), Return(OutcomeOf(r)) PROVE CaseInv'
    <2> DEFINE o == OutcomeOf(r)
    <2>1. /\ r \in Attempt
          /\ o \in Result /\ o.passed = r.passed
          /\ case.kind # "rust" /\ ~r.passed => o.says = r.prints /\ o.lead = r.lead
          /\ case.kind # "backend" => r.lead = "other" /\ o.lead = "other"
          /\ "infra" \in o.says => "infra" \in r.prints
          /\ case.kind = "rust" /\ IsCompileFailure(o) => Broken(r)
        BY RunFacts
    <2>2. \/ at' = "done" /\ outcome' = o
          \/ at' = "done" /\ outcome' = Stamp(o) /\ case.kind = "rust"
          \/ /\ at' = "repair" /\ outcome' = o /\ case.kind = "rust"
             /\ code = "llm" /\ IsCompileFailure(o)
        BY <1>3 DEF Return, End, RepairDue
    <2> HIDE DEF o
    <2>3. /\ Stamp(o) \in Result /\ Stamp(o).passed = o.passed /\ Stamp(o).says = o.says
          /\ IsCompileFailure(o) \/ Stamp(o) = o
        BY <2>1, StampKeeps
    <2>4. /\ tries' \in Seq(Attempt) /\ tries' # <<>> /\ LastTry' = r
          /\ Broken(r) => \A k \in DOMAIN tries' : Broken(tries'[k])
          /\ \A k \in 1 .. Len(tries') - 1 : Broken(tries'[k])
        BY <1>1, <1>3, <2>1, OneMoreTry
    <2>5. case \in Cases /\ case.kind \in Kinds /\ case.kind # "mcp" /\ case' = case
        BY <1>1, Context DEF CaseInv, Route, Over
    <2>6. CASE at' = "repair" /\ outcome' = o /\ case.kind = "rust" /\ code = "llm"
               /\ IsCompileFailure(o)
        <3>1. CaseType'
            BY <1>1, <2>1, <2>4, <2>6, Aside DEF CaseType, Places
        <3>2. Route'
            BY <1>1, <2>5, <2>6, Aside DEF CaseInv, Route, Over
        <3>3. Attempts' /\ Browsing' /\ Ended'
            BY <1>1, <2>1, <2>4, <2>5, <2>6
            DEF Attempts, Browsing, Ended, Over, IsCompileFailure
        <3> QED
            BY <1>1, <2>6, <3>1, <3>2, <3>3, Aside DEF CaseInv
    <2>7. CASE at' = "done" /\ (outcome' = o \/ (outcome' = Stamp(o) /\ case.kind = "rust"))
        <3>1. /\ outcome' \in Result /\ outcome'.passed = r.passed /\ outcome'.says = o.says
              /\ outcome' = o \/ (case.kind = "rust" /\ Broken(r))
            BY <2>1, <2>3, <2>7
        <3>2. case.kind = "rust" /\ Broken(r) => BuildFailed'
            BY <2>4, <2>5 DEF BuildFailed
        <3>3. case.kind = "rust" /\ outcome'.lead = "build error" => BuildFailed'
            BY <2>1, <3>1, <3>2
        <3>4. ASSUME r.passed PROVE Earned'
            <4>1. case.plan = <<>>
                BY <1>1, <2>7, Aside, Context DEF BringsProgram
            <4>2. \A i \in DOMAIN case'.plan : FALSE
                BY <2>5, <4>1, EmptyDomain
            <4> QED
                BY <1>1, <2>4, <2>5, <2>7, <3>4, <4>2, Aside DEF Earned
        <3>5. ASSUME ~r.passed PROVE Explained'
            <4>1. CASE outcome' = o
                <5>1. ProgramFailed'
                    BY <2>1, <2>4, <2>5, <3>5, <4>1 DEF ProgramFailed, Kinds
                <5> QED
                    BY <5>1 DEF Explained
            <4>2. CASE case.kind = "rust" /\ Broken(r)
                BY <3>2, <4>2 DEF Explained
            <4> QED
                BY <3>1, <4>1, <4>2
        <3> QED
            BY <1>1, <1>3, <2>1, <2>7, <3>1, <3>3, <3>4, <3>5, EndsWithTry, Aside
    <2> QED
        BY <2>2, <2>6, <2>7
<1> QED
    BY <1>2, <1>3 DEF Spawn

\* A browser that fails ends the case with what it printed.
LEMMA ExitFails ==
    ASSUME CaseInv, at \in {"spawn", "browse"}, case.kind = "frontend",
           NEW prints \in Echoes, Exit(FALSE, prints), step' \in Nat,
           UNCHANGED <<case, config, session, sent, code, verdict>>
    PROVE  CaseInv'
<1> DEFINE r == [reached |-> TRUE, passed |-> FALSE, long |-> FALSE,
                 lead |-> "other", prints |-> prints]
<1>1. prints \in SUBSET Phrases
    BY CaseRunAssumption
<1>2. r \in Attempt /\ r.prints = prints /\ r.lead = "other"
    BY <1>1 DEF Attempt
<1>3. at' = "done" /\ outcome' = Fail("other", prints) /\ tries' = Append(tries, r)
    BY DEF Exit, End
<1> HIDE DEF r
<1>4. /\ outcome' \in Result /\ ~outcome'.passed
      /\ outcome'.lead = "other" /\ outcome'.says = prints
    BY <1>1, <1>3, FailTyped
<1>5. ProgramFailed'
    <2>1. tries' # <<>> /\ LastTry' = r
        BY <1>2, <1>3, OneMoreTry
    <2> QED
        BY <1>2, <1>4, <2>1 DEF ProgramFailed
<1> QED
    BY <1>2, <1>3, <1>4, <1>5, EndsWithTry DEF Explained

LEMMA OpenKeeps ==
    ASSUME CaseInv, Open
    PROVE  CaseInv'
<1>1. /\ at = "spawn" /\ case.kind = "frontend" /\ code # "llm"
      /\ UNCHANGED <<case, config, session, sent, code, verdict>>
    BY DEF Open, InBrowser
<1>2. step \in Nat
    BY DEF CaseInv, CaseType
<1>3. CASE Goto("browse") /\ step' = 1 /\ tries' = tries
    <2>1. CaseType'
        BY <1>1, <1>3, Aside DEF CaseType, Places, Goto
    <2>2. Route'
        BY <1>1, <1>3, Aside DEF CaseInv, Route, Goto, Over
    <2>3. Attempts' /\ Ended'
        BY <1>1, <1>3 DEF CaseInv, Attempts, Ended, Over, Goto
    <2>4. Browsing'
        <3>1. Len(Script) \in Nat
            BY Context, CompiledPlan DEF Script
        <3>2. Script' = Script
            BY <1>1 DEF Script
        <3> QED
            BY <1>3, <3>1, <3>2 DEF Browsing
    <2> QED
        BY <1>1, <1>3, <2>1, <2>2, <2>3, <2>4, Aside DEF CaseInv, Goto
<1>4. ASSUME NEW prints \in Echoes, Exit(FALSE, prints), step' = step PROVE CaseInv'
    BY <1>1, <1>2, <1>4, ExitFails
<1>5. CASE End(Fail("other", CouldNot)) /\ step' = step /\ tries' = tries
    BY <1>1, <1>5, CouldNotTyped, FailsHere DEF End
<1> QED
    BY <1>3, <1>4, <1>5 DEF Open

LEMMA PerformKeeps ==
    ASSUME CaseInv, Perform
    PROVE  CaseInv'
<1>1. /\ at = "browse" /\ step \in Nat /\ step \in 1 .. Len(Script) /\ case.kind = "frontend"
      /\ code # "llm"
      /\ \A i \in 1 .. step - 1 : Script[i] = "find" => i \in shown
      /\ UNCHANGED <<case, config, session, sent, code, verdict>>
    <2>1. /\ at = "browse" /\ step <= Len(Script)
          /\ UNCHANGED <<case, config, session, sent, code, verdict>>
        BY DEF Perform, InBrowser
    <2>2. step \in 1 .. Len(Script) + 1 /\ step \in Nat
        BY <2>1 DEF CaseInv, CaseType, Browsing
    <2>3. Len(Script) \in Nat
        BY Context, CompiledPlan DEF Script
    <2>4. step \in 1 .. Len(Script)
        BY <2>1, <2>2, <2>3
    <2> QED
        BY <2>1, <2>2, <2>4 DEF CaseInv, Browsing, Route
<1>2. Script' = Script
    BY <1>1 DEF Script
<1>3. CASE /\ Advance /\ shown \subseteq shown'
           /\ Script[step] = "find" => step \in shown'
    <2>1. at' = "browse" /\ outcome' = outcome /\ step' = step + 1 /\ tries' = tries
        BY <1>3 DEF Advance, Goto
    <2>2. CaseType'
        BY <1>1, <2>1, Aside DEF CaseType, Places
    <2>3. Route'
        BY <1>1, <2>1, Aside DEF CaseInv, Route, Over
    <2>4. Attempts' /\ Ended'
        BY <1>1, <2>1 DEF CaseInv, Attempts, Ended, Over
    <2>5. ASSUME NEW i \in 1 .. step, Script[i] = "find" PROVE i \in shown'
        <3>1. i \in 1 .. step - 1 \/ i = step
            BY <1>1
        <3> QED
            BY <1>1, <1>3, <2>5, <3>1
    <2>6. step' \in 1 .. Len(Script) + 1 /\ step' - 1 = step
        BY <1>1, <2>1
    <2>7. Browsing'
        BY <1>2, <2>5, <2>6 DEF Browsing
    <2> QED
        BY <1>1, <2>1, <2>2, <2>3, <2>4, <2>7, Aside DEF CaseInv
<1>4. ASSUME NEW prints \in Echoes, Exit(FALSE, prints), step' = step PROVE CaseInv'
    BY <1>1, <1>4, ExitFails
<1>5. ~Throws(Script[step]) => Script[step] # "find"
    BY DEF Throws
<1>6. \/ /\ Advance /\ shown \subseteq shown'
         /\ Script[step] = "find" => step \in shown'
      \/ \E prints \in Echoes : Exit(FALSE, prints) /\ step' = step
    BY <1>5 DEF Perform
<1> QED
    BY <1>3, <1>4, <1>6

LEMMA CloseKeeps ==
    ASSUME CaseInv, Close
    PROVE  CaseInv'
<1>1. /\ at = "browse" /\ step \in Nat /\ case.kind = "frontend"
      /\ UNCHANGED <<case, config, session, sent, code, verdict, step, shown>>
    BY DEF Close, InBrowser, CaseInv, CaseType, Route
<1>2. \A i \in 1 .. Len(Script) : Script[i] = "find" => i \in shown
    <2>1. step > Len(Script) /\ step \in 1 .. Len(Script) + 1
        BY <1>1 DEF Close, CaseInv, Browsing
    <2>2. Len(Script) \in Nat
        BY Context, CompiledPlan DEF Script
    <2>3. step - 1 = Len(Script)
        BY <2>1, <2>2
    <2> QED
        BY <1>1, <2>3 DEF CaseInv, Browsing
<1>3. ASSUME NEW prints \in Echoes, Exit(TRUE, prints) PROVE CaseInv'
    <2> DEFINE r == [reached |-> TRUE, passed |-> TRUE, long |-> FALSE,
                     lead |-> "other", prints |-> {}]
    <2>1. r \in Attempt /\ r.passed
        BY DEF Attempt
    <2>2. at' = "done" /\ outcome' = Pass /\ tries' = Append(tries, r)
        BY <1>3 DEF Exit, End
    <2> HIDE DEF r
    <2>3. \A i \in DOMAIN case.plan : Verifies(case.plan[i]) => i \in shown
        <3>1. CASE case.plan = <<>>
            BY <3>1, EmptyDomain
        <3>2. CASE case.plan # <<>>
            <4>1. case.plan \in Seq(Steps) /\ Script = Compile(case.plan)
                BY <1>1, <2>2, <3>2, Aside, Context DEF Script, BringsProgram
            <4>2. DOMAIN case.plan = 1 .. Len(Script)
                BY <4>1, CompiledPlan
            <4> QED
                BY <1>2, <4>1, <4>2, CompiledPlan
        <3> QED
            BY <3>1, <3>2
    <2>4. tries' # <<>> /\ LastTry' = r
        BY <1>1, <2>1, <2>2, OneMoreTry
    <2>5. Earned'
        BY <1>1, <2>1, <2>2, <2>3, <2>4, Aside DEF Earned
    <2> QED
        BY <1>1, <2>1, <2>2, <2>5, PassTyped, EndsWithTry
<1>4. ASSUME NEW prints \in Echoes, Exit(FALSE, prints) PROVE CaseInv'
    BY <1>1, <1>4, ExitFails
<1> QED
    BY <1>3, <1>4 DEF Close

LEMMA RepairKeeps ==
    ASSUME CaseInv, Repair
    PROVE  CaseInv'
<1>1. /\ at = "repair" /\ case.kind = "rust" /\ code = "llm"
      /\ tries # <<>> /\ IsCompileFailure(outcome)
      /\ UNCHANGED <<case, config, session, sent, code, tries, verdict, step>>
    BY DEF Repair, CaseInv, Route, Attempts
<1>2. CASE Goto("write")
    <2>1. CaseType'
        BY <1>1, <1>2, Aside DEF CaseType, Places, Goto
    <2>2. Route'
        BY <1>1, <1>2, Aside DEF CaseInv, Route, Goto, Over
    <2>3. Attempts' /\ Browsing' /\ Ended'
        BY <1>1, <1>2 DEF CaseInv, Attempts, Browsing, Ended, Over, Goto
    <2> QED
        BY <1>1, <1>2, <2>1, <2>2, <2>3, Aside DEF CaseInv, Goto
<1>3. CASE End(Stamp(outcome))
    <2>1. outcome \in Result /\ ~outcome.passed
        BY <1>1 DEF CaseInv, CaseType, IsCompileFailure
    <2>2. outcome' \in Result /\ ~outcome'.passed /\ at' = "done"
        BY <1>3, <2>1, StampKeeps DEF End
    <2> QED
        BY <1>1, <2>2, FailsHere
<1> QED
    BY <1>2, <1>3 DEF Repair

LEMMA ProbeKeeps ==
    ASSUME CaseInv, Probe
    PROVE  CaseInv'
<1>1. /\ at = "probe" /\ case.kind = "mcp"
      /\ UNCHANGED <<case, config, session, sent, code, tries, verdict, step, shown>>
    BY DEF Probe, CaseInv, Route
<1>2. CASE End(Pass)
    <2>1. at' = "done" /\ outcome' \in Result /\ outcome'.passed /\ outcome'.lead = "other"
        BY <1>2, PassTyped DEF End
    <2>2. ~BringsProgram /\ case.plan = <<>>
        BY <1>1, Context
    <2>3. \A i \in DOMAIN case.plan : FALSE
        BY <2>2, EmptyDomain
    <2>4. Earned'
        BY <1>1, <2>1, <2>2, <2>3, Aside DEF Earned
    <2>5. CaseType'
        BY <1>1, <2>1, Aside DEF CaseType, Places
    <2>6. Route'
        BY <1>1, <2>1, Aside DEF CaseInv, Route, Over
    <2>7. Attempts' /\ Browsing' /\ Ended'
        BY <1>1, <2>1, <2>4 DEF CaseInv, Attempts, Browsing, Ended, Over
    <2> QED
        BY <1>1, <2>1, <2>5, <2>6, <2>7, Aside DEF CaseInv
<1>3. ASSUME NEW says \in SUBSET Phrases, End(Fail("other", says)) PROVE CaseInv'
    <2>1. at' = "done" /\ outcome' \in Result /\ ~outcome'.passed /\ outcome'.lead = "other"
        BY <1>3, FailTyped DEF End
    <2> QED
        BY <1>1, <2>1, FailsHere
<1>4. /\ \A prints \in Echoes : prints \in SUBSET Phrases
      /\ \A slow \in {{}, {"timed out"}} : slow \in SUBSET Phrases
    BY CaseRunAssumption DEF Phrases
<1> QED
    BY <1>2, <1>3, <1>4 DEF Probe

LEMMA DropKeeps ==
    ASSUME CaseInv, Drop
    PROVE  CaseInv'
<1>1. /\ at \in {"send", "generate", "image", "write", "spawn", "browse", "repair", "probe"}
      /\ at' = "done" /\ outcome' = Fail("other", {"time limit"})
      /\ UNCHANGED <<case, config, session, sent, code, tries, verdict, step, shown>>
    BY DEF Drop, End
<1>2. /\ outcome' \in Result /\ ~outcome'.passed /\ outcome'.lead = "other"
      /\ outcome'.says = {"time limit"}
    <2>1. {"time limit"} \in SUBSET Phrases
        BY DEF Phrases
    <2> QED
        BY <1>1, <2>1, FailTyped
<1>3. CASE at = "send"
    <2>1. CaseType'
        BY <1>1, <1>2, <1>3 DEF CaseInv, CaseType, Places
    <2>2. Route'
        BY <1>1, <1>3 DEF CaseInv, Route, Over, Flow, BringsProgram, BringsCode
    <2>3. Attempts' /\ Browsing'
        BY <1>1, <1>3 DEF CaseInv, Attempts, Browsing, Over
    <2>4. Ended'
        BY <1>1, <1>2 DEF Ended, Explained
    <2> QED
        BY <1>1, <2>1, <2>2, <2>3, <2>4, FlowStands DEF CaseInv
<1>4. CASE at # "send"
    BY <1>1, <1>2, <1>4, FailsHere
<1> QED
    BY <1>3, <1>4

LEMMA JudgeKeeps ==
    ASSUME CaseInv, Judge
    PROVE  CaseInv'
<1>1. /\ at = "done" /\ at' = "judged" /\ verdict' = Classify(case.kind, outcome)
      /\ UNCHANGED <<case, config, step, session, sent, shown, code, tries, outcome>>
    BY DEF Judge
<1>2. CaseType'
    BY <1>1 DEF CaseInv, CaseType, Places
<1>3. Route'
    BY <1>1 DEF CaseInv, Route, Over, Flow, BringsProgram, BringsCode
<1>4. Attempts' /\ Browsing'
    BY <1>1 DEF CaseInv, Attempts, Browsing, Over
<1>5. /\ Earned => Earned'
      /\ Explained => Explained'
      /\ BuildFailed => BuildFailed'
    <2>1. LastTry' = LastTry /\ Flow' = Flow /\ BringsProgram' = BringsProgram
        BY <1>1 DEF LastTry, Flow, BringsProgram, BringsCode
    <2>2. (Earned => Earned') /\ (BuildFailed => BuildFailed')
        BY <1>1, <2>1 DEF Earned, BuildFailed
    <2>3. /\ Unanswered => Unanswered'
          /\ WrongAnswer => WrongAnswer'
          /\ ProgramFailed => ProgramFailed'
        BY <1>1, <2>1 DEF Unanswered, WrongAnswer, ProgramFailed
    <2> QED
        BY <1>1, <2>2, <2>3 DEF Explained
<1>6. Ended'
    BY <1>1, <1>5 DEF CaseInv, Ended, Over
<1> QED
    BY <1>1, <1>2, <1>3, <1>4, <1>6, FlowStands DEF CaseInv

LEMMA NothingKeeps ==
    ASSUME CaseInv, UNCHANGED vars
    PROVE  CaseInv'
<1>1. UNCHANGED <<case, at, step, config, session, sent, shown, code, tries, outcome, verdict>>
    BY DEF vars
<1>2. CaseType' /\ Attempts'
    BY <1>1 DEF CaseInv, CaseType, Attempts, Over
<1>3. Route'
    BY <1>1 DEF CaseInv, Route, Over, Flow, BringsProgram, BringsCode
<1>4. Browsing'
    BY <1>1 DEF CaseInv, Browsing, Script
<1>5. Flowing'
    <2>1. ASSUME NEW k \in DOMAIN sent PROVE (Fresh(k) /\ Noticed(k))'
        BY <1>1, StaysFresh DEF CaseInv, Flowing
    <2>2. ASSUME NEW v \in Vars, Holds(v) PROVE Holds(v)'
        <3>1. Saves(v)' = Saves(v)
            BY <1>1 DEF Saves
        <3> QED
            BY <1>1, <2>2, <3>1 DEF Holds
    <2> QED
        BY <1>1, <2>1, <2>2 DEF CaseInv, Flowing
<1>6. Ended'
    <2>1. LastTry' = LastTry /\ Flow' = Flow /\ BringsProgram' = BringsProgram
        BY <1>1 DEF LastTry, Flow, BringsProgram, BringsCode
    <2>2. (Earned => Earned') /\ (BuildFailed => BuildFailed')
        BY <1>1, <2>1 DEF Earned, BuildFailed
    <2>3. /\ Unanswered => Unanswered'
          /\ WrongAnswer => WrongAnswer'
          /\ ProgramFailed => ProgramFailed'
        BY <1>1, <2>1 DEF Unanswered, WrongAnswer, ProgramFailed
    <2>4. Explained => Explained'
        BY <1>1, <2>3, <2>2 DEF Explained
    <2> QED
        BY <1>1, <2>2, <2>4 DEF CaseInv, Ended, Over
<1> QED
    BY <1>2, <1>3, <1>4, <1>5, <1>6 DEF CaseInv

-----------------------------------------------------------------------------
(* The theorems *)

\* Throughout a case's execution its route, its tries, the answers to its flow and
\* the texts found on the page stand in the relations that its verdict rests on.
THEOREM CaseInvariance == Spec => []CaseInv
<1>1. Init => CaseInv
    BY CaseInitInv
<1>2. ASSUME CaseInv, [Next]_vars PROVE CaseInv'
    BY <1>2, StartKeeps, SendStepKeeps, GenerateKeeps, WriteFileKeeps, ImageKeeps, SpawnKeeps,
       OpenKeeps, PerformKeeps, CloseKeeps, RepairKeeps, ProbeKeeps, DropKeeps, JudgeKeeps,
       NothingKeeps DEF Next
<1> QED
    BY <1>1, <1>2, PTL DEF Spec

\* What classify makes of an outcome.
LEMMA Classified ==
    ASSUME NEW kind \in Kinds, NEW o \in Result
    PROVE  LET pair == Classify(kind, o)
           IN  /\ pair[1] = "passed" => o.passed
               /\ pair[1] = "blocked" =>
                    /\ ~o.passed
                    /\ \/ "infra" \in o.says
                       \/ o.lead = "build error"
                       \/ /\ kind \in {"backend", "frontend", "mcp"} /\ "time limit" \notin o.says
                          /\ \/ o.says \cap {"auth", "unreachable"} # {}
                             \/ kind = "frontend" /\ "browser crash" \in o.says
                             \/ o.lead = "request failed"
               /\ pair[2] = "build_error" => ~o.passed /\ o.lead = "build error"
<1>1. CASE o.passed
    BY <1>1 DEF Classify
<1>2. CASE ~o.passed
    BY <1>2 DEF Classify, IsTransport
<1> QED
    BY <1>1, <1>2

\* Every verdict of "passed" comes of an outcome that passed, and that earned it.
LEMMA Passed ==
    ASSUME CaseInv, verdict[1] = "passed"
    PROVE  Earned /\ at = "judged"
<1>1. at = "judged" /\ verdict = Classify(case.kind, outcome)
    BY DEF CaseInv, CaseType, Pending
<1>2. outcome.passed
    BY <1>1, Classified, Context DEF CaseInv, CaseType
<1> QED
    BY <1>1, <1>2 DEF CaseInv, Ended, Over

\* A case that brings its own check passes only by that check (execute_case,
\* execute_flow, the executors): however the app, the model and the subprocesses
\* behave, and wherever the time limit strikes.
THEOREM PassesAreEarned == Spec => []PassIsEarned
<1>1. CaseInv => PassIsEarned
    <2> SUFFICES ASSUME CaseInv, verdict[1] = "passed" PROVE PassIsEarned
        BY DEF PassIsEarned
    <2>1. Earned /\ at = "judged"
        BY Passed
    <2>2. case.kind = "backend" /\ case.form \in {"steps", "bad steps", "spec"} => Flow
        BY <2>1 DEF Earned, Flow
    <2>3. \A k \in DOMAIN sent : Fresh(k)
        BY DEF CaseInv, Flowing
    <2>4. BringsCode \/ case.plan # <<>> => code = "given"
        BY <2>1 DEF CaseInv, Route, BringsProgram
    <2> QED
        BY <2>1, <2>2, <2>3, <2>4 DEF PassIsEarned, Earned, BringsProgram
<1> QED
    BY <1>1, CaseInvariance, PTL

\* A flow that lint has no word against (lint.rs) passes on no error page.
THEOREM LintedFlowsNotice == Spec => []ErrorPagesAreNoticed
<1>1. CaseInv => ErrorPagesAreNoticed
    <2> SUFFICES ASSUME CaseInv, Earned, Linted, NEW k \in DOMAIN sent,
                        sent[k].body = "not json"
                 PROVE  sent[k].status \notin {401, 404}
        BY Passed DEF ErrorPagesAreNoticed
    <2>1. Noticed(k)
        BY DEF CaseInv, Flowing
    <2>2. Flow
        BY EmptyDomain DEF CaseInv, Route
    <2>3. k \in 1 .. Len(case.steps) /\ sent[k].passed
        <3>1. sent \in Seq(Request)
            BY DEF CaseInv, CaseType
        <3>2. k \in 1 .. Len(sent)
            BY <3>1, DomainOf
        <3> QED
            BY <2>2, <3>2 DEF Earned
    <2>4. SpecHasOracle(case.steps[k])
        <3>1. case.form = "steps" => FlowIsSound(case.steps, NoVar)
            BY DEF Linted
        <3>2. case.form = "spec" => Len(case.steps) = 1 /\ SpecHasOracle(case.steps[1])
            BY DEF Linted
        <3>3. case.form \in {"steps", "spec"} /\ case.steps \in Seq(StepSpec)
            BY <2>2, Context
        <3>4. CASE case.form = "steps"
            <4>1. \A i \in DOMAIN case.steps : SpecHasOracle(case.steps[i])
                BY <3>1, <3>4 DEF FlowIsSound
            <4>2. k \in DOMAIN case.steps
                BY <2>3, <3>3, DomainOf
            <4> QED
                BY <4>1, <4>2
        <3>5. CASE case.form = "spec"
            <4>1. k = 1
                BY <2>3, <3>2, <3>5, OnlyOne
            <4> QED
                BY <3>2, <3>5, <4>1
        <3> QED
            BY <3>3, <3>4, <3>5
    <2> QED
        BY <2>1, <2>3, <2>4 DEF Noticed
<1> QED
    BY <1>1, CaseInvariance, PTL

\* Compile repair goes on only past runs that did not reach their test (the loop of
\* RustExecutor::run), and nothing else is judged a build error, as long as the
\* output was short enough to keep the line that tells.
THEOREM RepairsStop == Spec => []RepairStopsAtRunner
<1>1. CaseInv => RepairStopsAtRunner
    <2> SUFFICES ASSUME CaseInv PROVE RepairStopsAtRunner
        OBVIOUS
    <2>1. \A k \in 1 .. Len(tries) - 1 : tries[k].reached => tries[k].long
        BY DEF CaseInv, Attempts, Broken
    <2>2. ASSUME case.kind = "rust", verdict[2] = "build_error"
          PROVE  Broken(LastTry)
        <3>1. at = "judged" /\ verdict = Classify(case.kind, outcome)
            BY <2>2 DEF CaseInv, CaseType, Pending
        <3>2. outcome.lead = "build error"
            BY <2>2, <3>1, Classified, Context DEF CaseInv, CaseType
        <3> QED
            BY <2>2, <3>1, <3>2 DEF CaseInv, Ended, Over, BuildFailed
    <2> QED
        BY <2>1, <2>2 DEF RepairStopsAtRunner, Broken
<1> QED
    BY <1>1, CaseInvariance, PTL

\* A failure that classify takes out of the flaky denominator has a reason in
\* what happened (local/verdict.rs), or in a text that happens to name one.
THEOREM BlocksHaveExcuses == Spec => []BlockedHasExcuse
<1>1. CaseInv => BlockedHasExcuse
    <2> SUFFICES ASSUME CaseInv, verdict[1] = "blocked" PROVE BlockedHasExcuse
        BY DEF BlockedHasExcuse
    <2>1. at = "judged" /\ verdict = Classify(case.kind, outcome)
        BY DEF CaseInv, CaseType, Pending
    <2>2. /\ ~outcome.passed
          /\ \/ "infra" \in outcome.says
             \/ outcome.lead = "build error"
             \/ /\ case.kind \in {"backend", "frontend", "mcp"} /\ "time limit" \notin outcome.says
                /\ \/ outcome.says \cap {"auth", "unreachable"} # {}
                   \/ case.kind = "frontend" /\ "browser crash" \in outcome.says
                   \/ outcome.lead = "request failed"
        BY <2>1, Classified, Context DEF CaseInv, CaseType
    <2>3. Explained
        BY <2>1, <2>2 DEF CaseInv, Ended, Over
    <2>4. CASE sent = <<>> /\ tries = <<>>
        BY <2>4 DEF BlockedHasExcuse
    <2>5. ~(outcome.lead = "other" /\ outcome.says = {"time limit"})
        BY <2>2
    <2>6. CASE Unanswered
        BY <2>6 DEF Unanswered, Flow, BlockedHasExcuse
    <2>7. CASE WrongAnswer
        <3> DEFINE last == sent[Len(sent)]
        <3>1. /\ case.kind = "backend" /\ sent # <<>> /\ ~last.passed
              /\ outcome.says \cap {"infra", "unreachable"} # {} => last.quotes # {}
              /\ "auth" \in outcome.says => last.quotes # {} \/ last.status \in {401, 403}
              /\ outcome.lead = "other"
            BY <2>7 DEF WrongAnswer, Flow
        <3>2. outcome.says \cap {"infra", "unreachable"} # {} \/ "auth" \in outcome.says
            BY <2>2, <3>1
        <3>3. last.quotes # {} \/ last.status \in {401, 403}
            BY <3>1, <3>2
        <3> QED
            BY <3>1, <3>3 DEF BlockedHasExcuse
    <2>8. CASE ProgramFailed
        BY <2>2, <2>8 DEF ProgramFailed, BlockedHasExcuse
    <2>9. CASE BuildFailed
        BY <2>9 DEF BuildFailed, Broken, BlockedHasExcuse
    <2> QED
        BY <2>3, <2>4, <2>5, <2>6, <2>7, <2>8, <2>9 DEF Explained
<1> QED
    BY <1>1, CaseInvariance, PTL

=============================================================================
