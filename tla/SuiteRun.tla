------------------------------- MODULE SuiteRun -------------------------------
(***************************************************************************)
(* One run of the suite: run_collect of local/run.rs, from the moment the  *)
(* tests are loaded to its return, under the project lock (RunLock).       *)
(*                                                                         *)
(* Level after level: split off the tests whose needed capability has      *)
(* failed, run the others (up to Jobs at a time), record the outcomes in   *)
(* the order they came. Then the teardown tests, one by one. Ctrl-C is     *)
(* looked at between levels only. Any write to the result store may fail,  *)
(* and `?` then leaves run_collect on the spot.                            *)
(*                                                                         *)
(* waves() is pure, so each level is taken when it is reached; Waves shows *)
(* that the loop of local/waves.rs computes these same levels.             *)
(***************************************************************************)
EXTENDS Suite, Sequences, FiniteSets

CONSTANTS
    N,              \* the number of tests
    Caps,           \* capabilities
    Suites,         \* the suites a run may find stored
    Jobs,           \* --jobs, 0 and 1 meaning one at a time
    TimeLimit,      \* TRUE unless TESTSPRITE_TEST_TIMEOUT_SECS is 0
    StoreFails      \* TRUE where a write to the result store may fail

ASSUME SuiteRunAssumption ==
    /\ N \in Nat
    /\ Jobs \in Nat \ {0}
    /\ TimeLimit \in BOOLEAN
    /\ StoreFails \in BOOLEAN
    /\ Suites \subseteq [1 .. N -> [needs    : SUBSET Caps,
                                   produces : SUBSET Caps,
                                   teardown : BOOLEAN]]

VARIABLES
    suite,          \* the loaded tests in input order
    phase,          \* where run_collect stands
    emitted,        \* main tests of the levels begun so far
    leftover,       \* those of the final fallback level, once begun
    toSplit,        \* tests of this level not yet split
    toRun,          \* to_run, tests not yet launched
    running,        \* tests being executed
    outcomes,       \* executed tests in completion order, not yet recorded
    result,         \* what became of each test
    failedCaps,     \* failed_caps
    report,         \* the recorded tests, in order
    interrupted     \* the flag interrupt_watcher sets

vars == <<suite, phase, emitted, leftover, toSplit, toRun, running,
          outcomes, result, failedCaps, report, interrupted>>

Tests == 1 .. N

Main     == MainOf(suite)
Teardown == TeardownOf(suite)

\* The tests that produce something i needs; a test is not its own producer.
Deps == [i \in Tests |->
            {p \in Main \ {i} : suite[p].produces \cap suite[i].needs # {}}]

Results == {"none", "running", "passed", "failed", "blocked"}

Phases == {"level", "split", "wave", "record", "teardown", "returned", "error"}

InOutcomes(i) == \E k \in DOMAIN outcomes : outcomes[k] = i

TypeOK ==
    /\ suite \in Suites
    /\ phase \in Phases
    /\ emitted \subseteq Main
    /\ leftover \subseteq emitted
    /\ toSplit \subseteq Tests
    /\ toRun \subseteq Tests
    /\ running \subseteq Tests
    /\ outcomes \in Seq(Tests)
    /\ result \in [Tests -> Results]
    /\ failedCaps \subseteq Caps
    /\ report \in Seq(Tests)
    /\ interrupted \in BOOLEAN

Init ==
    /\ suite \in Suites
    /\ phase = "level"
    /\ emitted = {}
    /\ leftover = {}
    /\ toSplit = {}
    /\ toRun = {}
    /\ running = {}
    /\ outcomes = <<>>
    /\ result = [i \in Tests |-> "none"]
    /\ failedCaps = {}
    /\ report = <<>>
    /\ interrupted = FALSE

\* store::write_result(..).await? and the report.push after it.
Record(i, next) ==
    \/ /\ report' = Append(report, i)
       /\ phase' = next
    \/ /\ StoreFails
       /\ phase' = "error"
       /\ UNCHANGED report

\* Mutant of BeginLevel: waves() has no fallback level.
BeginLevelNoFallback ==
    /\ phase = "level"
    /\ ~interrupted
    /\ emitted # Main
    /\ toSplit' = ReadyLevel(Main, Deps, emitted)
    /\ emitted' = emitted \cup toSplit'
    /\ phase' = "split"
    /\ UNCHANGED <<suite, leftover, toRun, running, outcomes, result,
                   failedCaps, report, interrupted>>

\* "for level in levels": the interrupt is looked at here and only here.
BeginLevel ==
    /\ phase = "level"
    /\ ~interrupted
    /\ emitted # Main
    /\ toSplit' = NextLevelOf(Main, Deps, emitted)
    /\ leftover' = IF ReadyLevel(Main, Deps, emitted) = {}
                      THEN leftover \cup toSplit' ELSE leftover
    /\ emitted' = emitted \cup toSplit'
    /\ phase' = "split"
    /\ UNCHANGED <<suite, toRun, running, outcomes, result,
                   failedCaps, report, interrupted>>

\* Mutant of EndLevels: the interrupt is looked at between records as well,
\* and what the wave has not recorded yet is lost.
EndLevelsMidRecord ==
    /\ \/ phase = "level" /\ (interrupted \/ emitted = Main)
       \/ phase = "record" /\ interrupted
    /\ phase' = "teardown"
    /\ outcomes' = <<>>
    /\ UNCHANGED <<suite, emitted, leftover, toSplit, toRun, running,
                   result, failedCaps, report, interrupted>>

EndLevels ==
    /\ phase = "level"
    /\ interrupted \/ emitted = Main
    /\ phase' = "teardown"
    /\ UNCHANGED <<suite, emitted, leftover, toSplit, toRun, running,
                   outcomes, result, failedCaps, report, interrupted>>

\* Mutant of Block: the outputs of a skipped test do not cascade.
BlockWithoutCascade(i) ==
    /\ phase = "split"
    /\ Earliest(i, toSplit)
    /\ suite[i].needs \cap failedCaps # {}
    /\ toSplit' = toSplit \ {i}
    /\ result' = [result EXCEPT ![i] = "blocked"]
    /\ Record(i, "split")
    /\ UNCHANGED <<suite, emitted, leftover, toRun, running,
                   outcomes, failedCaps, interrupted>>

\* "Skip: mark blocked; its own outputs cascade as failed."
Block(i) ==
    /\ phase = "split"
    /\ Earliest(i, toSplit)
    /\ suite[i].needs \cap failedCaps # {}
    /\ toSplit' = toSplit \ {i}
    /\ failedCaps' = failedCaps \cup suite[i].produces
    /\ result' = [result EXCEPT ![i] = "blocked"]
    /\ Record(i, "split")
    /\ UNCHANGED <<suite, emitted, leftover, toRun, running,
                   outcomes, interrupted>>

Keep(i) ==
    /\ phase = "split"
    /\ Earliest(i, toSplit)
    /\ suite[i].needs \cap failedCaps = {}
    /\ toSplit' = toSplit \ {i}
    /\ toRun' = toRun \cup {i}
    /\ UNCHANGED <<suite, phase, emitted, leftover, running,
                   outcomes, result, failedCaps, report, interrupted>>

BeginWave ==
    /\ phase = "split"
    /\ toSplit = {}
    /\ phase' = "wave"
    /\ UNCHANGED <<suite, emitted, leftover, toSplit, toRun, running,
                   outcomes, result, failedCaps, report, interrupted>>

\* run_wave: buffer_unordered(jobs) starts tests in input order, as many as
\* fit; with one job that is the sequential loop.
Launch(i) ==
    /\ phase = "wave"
    /\ Earliest(i, toRun)
    /\ Cardinality(running) < Jobs
    /\ toRun' = toRun \ {i}
    /\ running' = running \cup {i}
    /\ result' = [result EXCEPT ![i] = "running"]
    /\ UNCHANGED <<suite, phase, emitted, leftover, toSplit,
                   outcomes, failedCaps, report, interrupted>>

\* execute_case returns, in time or at the time limit ("failed").
Finish(i) ==
    /\ i \in running
    /\ running' = running \ {i}
    /\ \E verdict \in {"passed", "failed"} :
          result' = [result EXCEPT ![i] = verdict]
    /\ outcomes' = Append(outcomes, i)
    /\ UNCHANGED <<suite, phase, emitted, leftover, toSplit, toRun,
                   failedCaps, report, interrupted>>

EndWave ==
    /\ phase = "wave"
    /\ toRun = {}
    /\ running = {}
    /\ phase' = "record"
    /\ UNCHANGED <<suite, emitted, leftover, toSplit, toRun, running,
                   outcomes, result, failedCaps, report, interrupted>>

\* Mutants of RecordOutcome: a failure does not fail its capabilities; the
\* test of the verdict is the wrong way round.
RecordOutcomeOnly ==
    /\ phase = "record"
    /\ outcomes # <<>>
    /\ Record(Head(outcomes), "record")
    /\ outcomes' = Tail(outcomes)
    /\ UNCHANGED <<suite, emitted, leftover, toSplit, toRun, running,
                   result, failedCaps, interrupted>>

RecordOutcomeInverted ==
    /\ phase = "record"
    /\ outcomes # <<>>
    /\ failedCaps' = IF result[Head(outcomes)] = "passed"
                        THEN failedCaps \cup suite[Head(outcomes)].produces
                        ELSE failedCaps
    /\ Record(Head(outcomes), "record")
    /\ outcomes' = Tail(outcomes)
    /\ UNCHANGED <<suite, emitted, leftover, toSplit, toRun, running,
                   result, interrupted>>

\* "for (t, outcome, ..) in outcomes"
RecordOutcome ==
    /\ phase = "record"
    /\ outcomes # <<>>
    /\ failedCaps' = IF result[Head(outcomes)] = "failed"
                        THEN failedCaps \cup suite[Head(outcomes)].produces
                        ELSE failedCaps
    /\ Record(Head(outcomes), "record")
    /\ outcomes' = Tail(outcomes)
    /\ UNCHANGED <<suite, emitted, leftover, toSplit, toRun, running,
                   result, interrupted>>

EndLevel ==
    /\ phase = "record"
    /\ outcomes = <<>>
    /\ phase' = "level"
    /\ UNCHANGED <<suite, emitted, leftover, toSplit, toRun, running,
                   outcomes, result, failedCaps, report, interrupted>>

\* "Teardown always runs (cleanup), sequentially, regardless of failures":
\* failed capabilities are not looked at.
LaunchTeardown(i) ==
    /\ phase = "teardown"
    /\ running = {}
    /\ outcomes = <<>>
    /\ Earliest(i, {t \in Teardown : result[t] = "none"})
    /\ running' = {i}
    /\ result' = [result EXCEPT ![i] = "running"]
    /\ UNCHANGED <<suite, phase, emitted, leftover, toSplit, toRun,
                   outcomes, failedCaps, report, interrupted>>

RecordTeardown ==
    /\ phase = "teardown"
    /\ outcomes # <<>>
    /\ Record(Head(outcomes), "teardown")
    /\ outcomes' = Tail(outcomes)
    /\ UNCHANGED <<suite, emitted, leftover, toSplit, toRun, running,
                   result, failedCaps, interrupted>>

Return ==
    /\ phase = "teardown"
    /\ running = {}
    /\ outcomes = <<>>
    /\ \A t \in Teardown : result[t] # "none"
    /\ phase' = "returned"
    /\ UNCHANGED <<suite, emitted, leftover, toSplit, toRun, running,
                   outcomes, result, failedCaps, report, interrupted>>

\* Ctrl-C, as long as the watcher is there.
Interrupt ==
    /\ phase \notin {"returned", "error"}
    /\ ~interrupted
    /\ interrupted' = TRUE
    /\ UNCHANGED <<suite, phase, emitted, leftover, toSplit, toRun,
                   running, outcomes, result, failedCaps, report>>

Next ==
    \/ BeginLevel \/ EndLevels \/ BeginWave \/ EndWave \/ EndLevel
    \/ RecordOutcome \/ RecordTeardown \/ Return \/ Interrupt
    \/ \E i \in Tests : \/ Block(i) \/ Keep(i) \/ Launch(i) \/ LaunchTeardown(i)
                      \/ Finish(i)

Spec == Init /\ [][Next]_vars

\* What run_collect does without waiting for a test.
Drive ==
    \/ BeginLevel \/ EndLevels \/ BeginWave \/ EndWave \/ EndLevel
    \/ RecordOutcome \/ RecordTeardown \/ Return
    \/ \E i \in Tests : Block(i) \/ Keep(i) \/ Launch(i) \/ LaunchTeardown(i)

\* run_collect itself never stops of its own accord, and where there is a time
\* limit every execute_case returns. Nobody has to press Ctrl-C, and what a
\* test leaves behind need never exit.
FairSpec ==
    /\ Spec
    /\ WF_vars(Drive)
    /\ TimeLimit => \A i \in Tests : WF_vars(Finish(i))

-----------------------------------------------------------------------------
(* Properties *)

Executed == {"running", "passed", "failed"}

Recorded(i) == \E k \in DOMAIN report : report[k] = i

\* A test that waits for producers is not started before every one of them
\* has passed and been dealt with, whatever order the tests of a level finish
\* in; only the final fallback level (cycles) is exempt.
UpstreamPassed ==
    \A i \in Main \ leftover :
        result[i] \in Executed => \A p \in Deps[i] : result[p] = "passed"

\* A skip is never spurious: something the test needs has another producer
\* that failed or was itself skipped. This one holds of cycles too.
BlockedHasCause ==
    \A i \in Main :
        result[i] = "blocked" =>
            \E p \in Deps[i] : result[p] \in {"failed", "blocked"}

\* Once a run has returned undisturbed, the skipped tests are exactly the
\* tests downstream of a failure, and every test is reported exactly once.
FailureConeIsSkipped ==
    phase = "returned" /\ ~interrupted =>
        /\ \A i \in Tests : \E k \in DOMAIN report :
              report[k] = i /\ \A l \in DOMAIN report : report[l] = i => l = k
        /\ \A i \in Main \ leftover :
              result[i] = "blocked" <=>
                  \E p \in Deps[i] : result[p] \in {"failed", "blocked"}

\* No cleanup runs while a main test is still running or could still be
\* started, nor before every executed test has been recorded.
CleanupComesLast ==
    \A t \in Teardown :
        result[t] # "none" =>
            \A i \in Main :
                /\ result[i] # "running"
                /\ result[i] = "none" => interrupted
                /\ result[i] # "none" => Recorded(i)

\* A run comes to an end, so that the project lock is given back.
RunEnds == <>(phase \in {"returned", "error"})

=============================================================================
