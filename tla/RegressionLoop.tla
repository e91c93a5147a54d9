--------------------------- MODULE RegressionLoop ---------------------------
(***************************************************************************)
(* The commands that execute stored tests: `test run`, `gate [--smoke]`,   *)
(* `loop [--changed] [--generate]`, `test flaky` and `test rerun           *)
(* [--failed]`, as the command line and the MCP server call them.  All but *)
(* rerun go through run_collect: what they will run is decided before it   *)
(* takes the project lock, and their verdict is drawn after the lock is    *)
(* given back, while the store, the approvals and the working tree are     *)
(* anyone's to change.  rerun takes no lock at all (what --heal does to a  *)
(* stored test is TestStore's).                                            *)
(*                                                                         *)
(* The execution itself is abstracted (SuiteRun): tests run in any order,  *)
(* with any verdict, and Ctrl-C ends a run at any point of it.             *)
(***************************************************************************)
EXTENDS CodeSurface

CONSTANTS
    Calls,      \* the commands under way
    NTests,     \* test ids, in the order of their names
    Prds,       \* stored PRDs
    Groups,     \* groups a test may be of
    Names,      \* names a test may mention
    Bodies,     \* the definitions a test may have
    Trees,      \* the states of the working tree
    Scenarios,  \* what the commands may have been asked, in which tree
    Replays,    \* `test flaky --runs`
    MaxEdits    \* bound on the changes from outside the commands

TestIds == 1 .. NTests

BodyShape == [quarantined : BOOLEAN,
              prd         : Prds \cup {"none"},
              group       : Groups \cup {"none"},
              words       : SUBSET Names]  \* what its text names

RequestShape == [kind     : {"run", "gate", "loop", "flaky", "rerun"},
                 pick     : {"all", "id", "group", "changed", "failed"},
                 id       : TestIds,
                 group    : Groups \cup {"none"},
                 mcp      : BOOLEAN,    \* through testsprite_run
                 approved : BOOLEAN,    \* require_approved_prd
                 smoke    : BOOLEAN,
                 generate : BOOLEAN]

\* The ways each command has of naming its tests.
Picks == [run   |-> {"all", "id", "group", "changed"},
          gate  |-> {"all"},
          loop  |-> {"all", "changed"},
          flaky |-> {"id"},
          rerun |-> {"all", "id", "failed"}]

ASSUME LoopAssumption ==
    /\ NTests \in Nat \ {0}
    /\ Replays \in Nat
    /\ MaxEdits \in Nat
    /\ Bodies \subseteq BodyShape
    /\ \A t \in Trees :
          /\ \A f \in t.code : IsFunction(f) /\ f.name \in Names
          /\ \A h \in t.hunks : h.start \in Nat /\ h.count \in Nat
    /\ Scenarios \subseteq [asked : [Calls -> RequestShape], tree : Trees]
    /\ \A s \in Scenarios : \A c \in Calls :
          /\ s.asked[c].approved => s.asked[c].kind \in {"run", "loop"}
          /\ s.asked[c].mcp => s.asked[c].kind = "run"
          /\ s.asked[c].pick \in Picks[s.asked[c].kind]

VARIABLES
    store,      \* the stored tests, by id
    approved,   \* PRDs with an approved_at
    latest,     \* verdict of the newest row of `runs` of each test
    tree,       \* the working tree, against the revision of --changed
    holder,     \* the command inside run_collect
    call,       \* where each command is
    edits

loopVars == <<store, approved, latest, tree, holder, call, edits>>

Verdicts == {"passed", "failed", "blocked"}
Selections == {"all", "changed", "unattributable", "no_changes"}
Steps == {"idle", "generate", "select", "approve", "acquire", "load",
          "execute", "triage", "done", "error"}

\* What the parts of next_action come to.
Advice == {"generated", "unattributable", "nothing to verify", "empty suite",
           "locked", "failing", "blocked"}

CallState ==
    [at          : Steps,
     req         : RequestShape,
     whole       : BOOLEAN,             \* ids is empty: the whole suite
     ids         : SUBSET TestIds,      \* ids
     smoking     : BOOLEAN,             \* inside the smoke run
     selection   : Selections,
     generated   : SUBSET TestIds,
     todo        : SUBSET TestIds,      \* loaded, not yet executed
     results     : [TestIds -> Verdicts \cup {"none"}],
     replays     : 0 .. Replays,
     passed      : 0 .. Replays,
     failed      : 0 .. Replays,
     blocked     : 0 .. Replays,
     green       : BOOLEAN,             \* exit code 0
     clusters    : SUBSET TestIds,      \* the tests triage groups
     says        : SUBSET Advice,       \* next_action
     interrupted : BOOLEAN,             \* history: Ctrl-C ended one of its runs
     crossed     : BOOLEAN]             \* history: someone else changed what it reads

Stored == DOMAIN store
Runnable == {t \in Stored : ~store[t].quarantined}

NoResults == [t \in TestIds |-> "none"]

Idle(req) ==
    [at |-> "idle", req |-> req, whole |-> FALSE, ids |-> {}, smoking |-> FALSE,
     selection |-> "all", generated |-> {}, todo |-> {}, results |-> NoResults,
     replays |-> 0, passed |-> 0, failed |-> 0, blocked |-> 0, green |-> FALSE,
     clusters |-> {}, says |-> {}, interrupted |-> FALSE, crossed |-> FALSE]

LoopInit ==
    /\ store \in UNION {[S -> Bodies] : S \in SUBSET TestIds}
    /\ approved \in SUBSET Prds
    /\ latest = NoResults
    /\ holder = {}
    /\ \E s \in Scenarios : tree = s.tree /\ call = [c \in Calls |-> Idle(s.asked[c])]
    /\ edits = 0

At(c, step) == call[c].at = step

Update(c, r) == call' = [call EXCEPT ![c] = r]

\* Everyone else's reading is out of date.
Crossing(c, r) ==
    call' = [d \in Calls |-> IF d = c THEN r ELSE [call[d] EXCEPT !.crossed = TRUE]]

Executed(r) == {t \in TestIds : r.results[t] # "none"}
Red(r) == {t \in TestIds : r.results[t] \in {"failed", "blocked"}}

-----------------------------------------------------------------------------
(* What to run *)

\* affected_test_ids: stored tests that name a changed function.
Affected == {t \in Stored : \E f \in ChangedUnits(tree) : Mentioned(f, {Haystack(store[t])})}

\* Mutant of Selection: a change that no test names is no change.
SelectionNothing == IF Affected = {} THEN "no_changes" ELSE "changed"

\* select: no ids and something changed means "cannot tell", never "nothing".
Selection == IF ChangedUnits(tree) = {} /\ FileLevel(tree) = {} THEN "no_changes"
             ELSE IF Affected = {} THEN "unattributable" ELSE "changed"

\* smoke_subset: the first runnable test, by id, of each group.
SmokeSubset ==
    {t \in Runnable : \A u \in Runnable : store[u].group = store[t].group => t <= u}

AfterSelect(req) == IF req.approved THEN "approve" ELSE "acquire"

\* last_failed_ids
LastFailed == {t \in Stored : latest[t] \in {"failed", "blocked"}}

\* The tests a command names; none means the whole suite.
Named(q) ==
    CASE q.pick = "id"     -> {q.id}
      [] q.pick = "group"  -> {t \in Stored : store[t].group = q.group}
      [] q.pick = "failed" -> LastFailed
      [] OTHER             -> {}

Started(r, ids, next) ==
    [r EXCEPT !.ids = ids, !.whole = ids = {}, !.crossed = FALSE, !.at = next]

Begins(c, kind, r) ==
    /\ At(c, "idle")
    /\ call[c].req.kind = kind
    /\ Update(c, r)
    /\ UNCHANGED <<store, approved, latest, tree, holder, edits>>

\* test run: a changed run goes through git first, and a group that is empty is
\* the end of it; testsprite_run takes it for the whole suite.
BeginRun(c) ==
    LET r == call[c]
        q == r.req
    IN  Begins(c, "run",
            IF q.pick = "changed" THEN Started(r, {}, "select")
            ELSE IF q.pick = "group" /\ Named(q) = {} /\ ~q.mcp
            THEN [Started(r, {}, "done") EXCEPT !.green = TRUE]
            ELSE Started(r, Named(q), AfterSelect(q)))

\* gate, which picks its smoke tests.
BeginGate(c) ==
    LET smoke == IF call[c].req.smoke THEN SmokeSubset ELSE {}
    IN  Begins(c, "gate", [Started(call[c], smoke, "acquire") EXCEPT !.smoking = smoke # {}])

\* cycle: --generate only acts with --changed.
BeginLoop(c) ==
    LET q == call[c].req
    IN  Begins(c, "loop",
            Started(call[c], {}, IF q.pick # "changed" THEN AfterSelect(q)
                                 ELSE IF q.generate THEN "generate" ELSE "select"))

BeginFlaky(c) ==
    Begins(c, "flaky",
        [Started(call[c], Named(call[c].req), IF Replays = 0 THEN "done" ELSE "acquire")
            EXCEPT !.replays = Replays])

\* test rerun: with no failed test there is nothing to do.
BeginRerun(c) ==
    LET r == call[c]
    IN  Begins(c, "rerun",
            IF r.req.pick = "failed" /\ LastFailed = {}
            THEN [Started(r, {}, "done") EXCEPT !.green = TRUE]
            ELSE Started(r, Named(r.req), "load"))

Begin(c) == BeginRun(c) \/ BeginGate(c) \/ BeginLoop(c) \/ BeginFlaky(c) \/ BeginRerun(c)

\* generate_changed, best effort: a test for a changed function no stored test
\* names. The model need not name it either; the acceptance gate may
\* quarantine what it wrote.
Generate(c) ==
    /\ At(c, "generate")
    /\ \/ /\ UncoveredChanged(tree, {Haystack(store[t]) : t \in Stored}) # {}
          /\ \E t \in TestIds \ Stored, b \in Bodies :
                /\ b.prd = "none"
                /\ store' = [u \in Stored \cup {t} |-> IF u = t THEN b ELSE store[u]]
                /\ Crossing(c, [call[c] EXCEPT !.at = "select", !.generated = {t}])
       \/ /\ Update(c, [call[c] EXCEPT !.at = "select"])
          /\ UNCHANGED store
    /\ UNCHANGED <<approved, latest, tree, holder, edits>>

\* changed_surface and select, and what run and loop make of the answer: with
\* nothing changed any more and something generated, the whole suite is run.
Select(c) ==
    LET r == call[c]
        nothing == Selection = "no_changes" /\ r.generated = {}
    IN  /\ At(c, "select")
        /\ Update(c, [r EXCEPT
              !.selection = Selection,
              !.ids = IF Selection = "changed" THEN Affected ELSE {},
              !.whole = Selection # "changed",
              !.green = nothing,
              !.says = IF nothing /\ r.req.kind = "loop" THEN {"nothing to verify"} ELSE {},
              !.at = IF nothing THEN "done" ELSE AfterSelect(r.req)])
        /\ UNCHANGED <<store, approved, latest, tree, holder, edits>>

\* assert_prds_approved: every stored test, quarantined ones too, or the ids.
Unapproved(S) == {t \in S : store[t].prd \notin approved \cup {"none"}}

\* Mutant of Approve: the empty ids are taken for no tests.
ApproveIds(c) ==
    /\ At(c, "approve")
    /\ Update(c, [call[c] EXCEPT
          !.at = IF call[c].ids \subseteq Stored /\ Unapproved(call[c].ids) = {}
                    THEN "acquire" ELSE "error"])
    /\ UNCHANGED <<store, approved, latest, tree, holder, edits>>

Approve(c) ==
    LET r == call[c]
        asked == IF r.whole THEN Stored ELSE r.ids
    IN  /\ At(c, "approve")
        /\ Update(c, [r EXCEPT
              !.at = IF asked \subseteq Stored /\ Unapproved(asked) = {}
                        THEN "acquire" ELSE "error"])
        /\ UNCHANGED <<store, approved, latest, tree, holder, edits>>

-----------------------------------------------------------------------------
(* run_collect *)

\* RunLock::acquire, which does not wait.
Acquire(c) ==
    /\ At(c, "acquire")
    /\ IF holder = {}
          THEN /\ holder' = {c}
               /\ Update(c, [call[c] EXCEPT !.at = "load"])
          ELSE /\ Update(c, [call[c] EXCEPT !.at = "error"])
               /\ UNCHANGED holder
    /\ UNCHANGED <<store, approved, latest, tree, edits>>

\* What an empty list of ids stands for: rerun does not leave the quarantined out.
Suite(kind) == IF kind = "rerun" THEN Stored ELSE Runnable

\* Ids are loaded as they are, and one that is gone is an error.
Load(c) ==
    LET r == call[c]
    IN  /\ At(c, "load")
        /\ IF r.whole \/ r.ids \subseteq Stored
              THEN /\ Update(c, [r EXCEPT !.todo = IF r.whole THEN Suite(r.req.kind) ELSE r.ids,
                                          !.results = NoResults, !.at = "execute"])
                   /\ UNCHANGED holder
              ELSE /\ Update(c, [r EXCEPT !.at = "error"])
                   /\ holder' = holder \ {c}
        /\ UNCHANGED <<store, approved, latest, tree, edits>>

\* One test is executed and its outcome recorded.
Execute(c) ==
    /\ At(c, "execute")
    /\ \E t \in call[c].todo, v \in Verdicts :
          /\ latest' = [latest EXCEPT ![t] = v]
          /\ Crossing(c, [call[c] EXCEPT !.todo = @ \ {t}, !.results[t] = v])
    /\ UNCHANGED <<store, approved, tree, holder, edits>>

\* Ctrl-C: what has run is returned like the answer of a whole run. (rerun has
\* no handler: the process dies, see Fail.)
Interrupt(c) ==
    /\ At(c, "execute") /\ call[c].req.kind # "rerun"
    /\ call[c].todo # {}
    /\ Update(c, [call[c] EXCEPT !.todo = {}, !.interrupted = TRUE])
    /\ UNCHANGED <<store, approved, latest, tree, holder, edits>>

\* An error in the middle: `?` leaves, and the lock's Drop gives it back.
Fail(c) ==
    /\ call[c].at \in {"generate", "select", "approve", "load", "execute", "triage"}
    /\ Update(c, [call[c] EXCEPT !.at = "error"])
    /\ holder' = holder \ {c}
    /\ UNCHANGED <<store, approved, latest, tree, edits>>

-----------------------------------------------------------------------------
(* What each command makes of the results *)

Returned(c, kind) ==
    /\ At(c, "execute")
    /\ call[c].todo = {}
    /\ call[c].req.kind = kind
    /\ holder' = holder \ {c}
    /\ UNCHANGED <<store, approved, latest, tree, edits>>

\* run: 0 with no results or none that did not pass.
EndRun(c) ==
    /\ Returned(c, "run")
    /\ Update(c, [call[c] EXCEPT !.at = "done", !.green = Red(call[c]) = {}])

\* rerun: the same, with the last outcome of each.
EndRerun(c) ==
    /\ Returned(c, "rerun")
    /\ Update(c, [call[c] EXCEPT !.at = "done", !.green = Red(call[c]) = {}])

\* A red smoke run is the answer; after any other the whole suite is run.
EndSmoke(c) ==
    /\ Returned(c, "gate")
    /\ call[c].smoking
    /\ Update(c, [call[c] EXCEPT !.smoking = FALSE, !.whole = TRUE, !.ids = {},
                                 !.at = IF Red(call[c]) = {} THEN "acquire" ELSE "done"])

\* What cargo-mutants says of up to two mutants, those apart that do not build or
\* time out. A tool that is not installed, fails or finds none judges nothing.
Unmeasured == [caught |-> 0, missed |-> 0]
Measurements == {m \in [caught : 0 .. 2, missed : 0 .. 2] : m.caught + m.missed <= 2}

\* The floor in per cent, 0 when none is asked for. Without a score nothing is
\* enforced.
MissesFloor(m, floor) == m # Unmeasured /\ 100 * m.caught < floor * (m.caught + m.missed)

\* The whole suite, then the mutation floor.
EndGate(c) ==
    /\ Returned(c, "gate")
    /\ ~call[c].smoking
    /\ \E m \in Measurements, floor \in {0, 60} :
          Update(c, [call[c] EXCEPT !.at = "done",
                                    !.green = Red(call[c]) = {} /\ ~MissesFloor(m, floor)])

\* summarize; the lock is gone when triage reads the store.
EndLoop(c) ==
    /\ Returned(c, "loop")
    /\ Update(c, [call[c] EXCEPT !.at = "triage"])

\* next_action, the line an agent acts on. With no results nothing else is said.
NextAction(r) ==
    LET ran(v) == \E t \in TestIds : r.results[t] = v
    IN  (IF r.generated # {} THEN {"generated"} ELSE {})
        \cup (IF r.selection = "unattributable" THEN {"unattributable"} ELSE {})
        \cup (IF Executed(r) = {} THEN {"empty suite"}
              ELSE IF Red(r) = {} THEN {"locked"}
              ELSE (IF ran("failed") THEN {"failing"} ELSE {})
                   \cup (IF ran("blocked") THEN {"blocked"} ELSE {}))

\* Mutant of Clustered: the blocked are no failures.
ClusteredFailed == {t \in Stored : latest[t] = "failed"}

\* latest_results: whether the newest run of each stored test that has one passed; a
\* blocked run did not.
LatestResults == [t \in {s \in Stored : latest[s] # "none"} |-> latest[t] = "passed"]

\* triage: what did not pass.
Clustered == {t \in DOMAIN LatestResults : ~LatestResults[t]}

Triage(c) ==
    /\ At(c, "triage")
    /\ Update(c, [call[c] EXCEPT
          !.clusters = Clustered,
          !.green = Red(call[c]) = {},
          !.says = NextAction(call[c]),
          !.at = "done"])
    /\ UNCHANGED <<store, approved, latest, tree, holder, edits>>

\* flaky: tally one replay and take the lock again for the next.
EndReplay(c) ==
    LET r == call[c]
        tally(v) == IF \E t \in TestIds : r.results[t] = v THEN 1 ELSE 0
    IN  /\ Returned(c, "flaky")
        /\ Update(c, [r EXCEPT
              !.passed = @ + tally("passed"),
              !.failed = @ + tally("failed"),
              !.blocked = @ + tally("blocked"),
              !.replays = @ - 1,
              !.at = IF r.replays = 1 THEN "done" ELSE "acquire"])

\* Mutant of Stability: nothing failed, so it is stable.
StabilityNoneFailed(r) == IF r.failed = 0 THEN "stable"
                          ELSE IF r.passed = 0 THEN "failing" ELSE "flaky"

\* classify_flaky
Stability(r) == IF r.passed + r.failed = 0 THEN "inconclusive"
                ELSE IF r.failed = 0 THEN "stable"
                ELSE IF r.passed = 0 THEN "failing" ELSE "flaky"

-----------------------------------------------------------------------------
(* Everyone else *)

\* A test is stored, rewritten, quarantined, released or deleted with its
\* history; a PRD is approved; the working tree changes.
Outside ==
    /\ edits < MaxEdits
    /\ edits' = edits + 1
    /\ call' = [d \in Calls |-> [call[d] EXCEPT !.crossed = TRUE]]
    /\ \/ \E t \in TestIds, b \in Bodies :
             /\ store' = [u \in Stored \cup {t} |-> IF u = t THEN b ELSE store[u]]
             /\ UNCHANGED <<approved, latest, tree>>
       \/ \E t \in Stored :
             /\ store' = [u \in Stored \ {t} |-> store[u]]
             /\ latest' = [latest EXCEPT ![t] = "none"]
             /\ UNCHANGED <<approved, tree>>
       \/ \E p \in Prds \ approved :
             /\ approved' = approved \cup {p}
             /\ UNCHANGED <<store, latest, tree>>
       \/ /\ tree' \in Trees \ {tree}
          /\ UNCHANGED <<store, latest, approved>>
    /\ UNCHANGED holder

Step(c) ==
    \/ Begin(c) \/ Generate(c) \/ Select(c) \/ Approve(c)
    \/ Acquire(c) \/ Load(c) \/ Execute(c)
    \/ EndRun(c) \/ EndSmoke(c) \/ EndGate(c) \/ EndLoop(c) \/ Triage(c)
    \/ EndReplay(c) \/ EndRerun(c)

LoopNext == Outside \/ \E c \in Calls : Step(c) \/ Interrupt(c) \/ Fail(c)

LoopSpec == LoopInit /\ [][LoopNext]_loopVars

-----------------------------------------------------------------------------
(* Properties *)

\* With require_approved_prd, no test of an unapproved PRD is loaded for
\* execution, whichever way the tests were selected, unless someone changed the
\* store between the check and the load (store.rs:220, run.rs:33, cycle.rs:110).
OnlyApprovedRuns ==
    [][\A c \in Calls :
          At(c, "load") /\ At(c, "execute")' /\ call[c].req.approved /\ ~call[c].crossed
          => Unapproved(call'[c].todo) = {}]_loopVars

\* Something in the tree has changed that a test could be about.
Changed == tree.hunks # {} \/ \E f \in Surface(tree.code) : f.file \in tree.untracked

\* What a command was asked to verify, as things stand when it answers.
Promised(q) ==
    CASE q.pick = "id"     -> {q.id}
      [] q.pick = "group"  -> {t \in Stored : store[t].group = q.group}
      [] q.pick = "failed" -> LastFailed
      [] q.pick = "changed" -> IF ~Changed THEN {} ELSE IF Affected # {} THEN Affected ELSE Runnable
      [] q.pick = "all"    -> Runnable

\* A command that ends green has seen all it was asked for pass: a smoke run
\* that went well is no excuse to skip the rest, changes nobody can attribute
\* are no excuse to run nothing (gate.rs:55, cycle.rs:8, changed.rs:208): a
\* line outside every function, a file without any, a new file.  Only Ctrl-C
\* and a change from outside excuse it; that a file is deleted goes unseen.
GreenMeansVerified ==
    [][\A c \in Calls :
          ~At(c, "done") /\ At(c, "done")' /\ call'[c].green
          /\ ~call'[c].interrupted /\ ~call'[c].crossed
          => \A t \in Promised(call[c].req) : latest'[t] = "passed"]_loopVars

\* Every failure the loop reports is in a cluster of its triage, though triage
\* reads the store after the lock is gone (cycle.rs:119), unless someone
\* changed the store or recorded another result in between. The line an agent
\* acts on (cycle.rs:177) agrees with both: it sends the agent to clusters only
\* when there are some, and calls the suite empty only when it has nothing to
\* run, or Ctrl-C came before the first test.
FailuresAreTriaged ==
    \A c \in Calls :
        LET r == call[c]
        IN  At(c, "done") /\ r.req.kind = "loop" /\ ~r.crossed
            => /\ Red(r) \subseteq r.clusters
               /\ "failing" \in r.says => r.clusters # {}
               /\ "empty suite" \in r.says /\ ~r.interrupted => Runnable = {}

\* "stable" has been earned by every replay asked for: all passed or were
\* blocked, and one at least passed (flaky.rs:27), unless Ctrl-C cut one short.
StableIsEarned ==
    \A c \in Calls :
        At(c, "done") /\ call[c].req.kind = "flaky" /\ Stability(call[c]) = "stable"
        /\ ~call[c].interrupted
        => /\ call[c].passed + call[c].blocked = Replays
           /\ call[c].passed > 0

=============================================================================
