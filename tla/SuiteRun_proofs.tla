--------------------------- MODULE SuiteRun_proofs ---------------------------
(***************************************************************************)
(* What TLAPS establishes about a run of the suite, for suites of any size *)
(* over any capabilities, any number of jobs, interrupted or not, and with *)
(* the result store failing at any point.                                  *)
(***************************************************************************)
EXTENDS SuiteRun, TLAPS

(* What recording and completing do to the queue of outcomes. *)

LEMMA AppendOutcome ==
    ASSUME outcomes \in Seq(Tests), NEW i \in Tests, outcomes' = Append(outcomes, i)
    PROVE  \A j : InOutcomes(j)' <=> InOutcomes(j) \/ j = i
<1>1. /\ Len(outcomes') = Len(outcomes) + 1
      /\ Len(outcomes) \in Nat
      /\ DOMAIN outcomes = 1 .. Len(outcomes)
      /\ DOMAIN outcomes' = 1 .. Len(outcomes) + 1
      /\ \A k \in 1 .. Len(outcomes) : outcomes'[k] = outcomes[k]
      /\ outcomes'[Len(outcomes) + 1] = i
    OBVIOUS
<1>2. ASSUME NEW j
      PROVE  InOutcomes(j)' <=> InOutcomes(j) \/ j = i
    BY <1>1 DEF InOutcomes
<1> QED
    BY <1>2

LEMMA TailOutcome ==
    ASSUME outcomes \in Seq(Tests), outcomes # <<>>, outcomes' = Tail(outcomes)
    PROVE  /\ Head(outcomes) \in Tests
           /\ InOutcomes(Head(outcomes))
           /\ \A j : InOutcomes(j)' => InOutcomes(j)
           /\ \A j : InOutcomes(j) => j = Head(outcomes) \/ InOutcomes(j)'
<1>1. /\ Len(outcomes) \in Nat \ {0}
      /\ DOMAIN outcomes = 1 .. Len(outcomes)
      /\ DOMAIN outcomes' = 1 .. Len(outcomes) - 1
      /\ \A k \in 1 .. Len(outcomes) - 1 : outcomes'[k] = outcomes[k + 1]
      /\ Head(outcomes) = outcomes[1]
      /\ outcomes[1] \in Tests
    OBVIOUS
<1>2. ASSUME NEW j, InOutcomes(j)'
      PROVE  InOutcomes(j)
    <2>1. PICK k \in 1 .. Len(outcomes) - 1 : outcomes'[k] = j
        BY <1>1, <1>2 DEF InOutcomes
    <2>2. k + 1 \in 1 .. Len(outcomes) /\ outcomes[k + 1] = j
        BY <1>1, <2>1
    <2> QED
        BY <1>1, <2>2 DEF InOutcomes
<1>3. ASSUME NEW j, InOutcomes(j), j # Head(outcomes)
      PROVE  InOutcomes(j)'
    <2>1. PICK k \in 1 .. Len(outcomes) : outcomes[k] = j
        BY <1>1, <1>3 DEF InOutcomes
    <2>2. k - 1 \in 1 .. Len(outcomes) - 1 /\ outcomes'[k - 1] = j
        BY <1>1, <1>3, <2>1
    <2> QED
        BY <1>1, <2>2 DEF InOutcomes
<1>4. InOutcomes(Head(outcomes))
    BY <1>1 DEF InOutcomes
<1> QED
    BY <1>1, <1>2, <1>3, <1>4

\* Recording keeps the report a sequence of tests.
LEMMA RecordOK ==
    ASSUME TypeOK, NEW i \in Tests, NEW next \in Phases, Record(i, next)
    PROVE  report' \in Seq(Tests) /\ phase' \in Phases
<1>1. report \in Seq(Tests)
    BY DEF TypeOK
<1>2. CASE report' = Append(report, i) /\ phase' = next
    BY <1>1, <1>2
<1>3. CASE phase' = "error" /\ UNCHANGED report
    BY <1>1, <1>3 DEF Phases
<1> QED
    BY <1>2, <1>3 DEF Record

LEMMA DepsAreMain ==
    ASSUME TypeOK, NEW i \in Main, NEW p \in Deps[i]
    PROVE  /\ p \in Main /\ p # i
           /\ suite[p].produces \cap suite[i].needs # {}
BY SuiteRunAssumption DEF TypeOK, Deps, Main, MainOf, Tests

LEMMA MainAreTests ==
    ASSUME TypeOK
    PROVE  /\ Main \subseteq Tests /\ Teardown \subseteq Tests
           /\ Main \cap Teardown = {}
           /\ \A i \in Tests : suite[i].produces \subseteq Caps
BY SuiteRunAssumption DEF TypeOK, Main, MainOf, Teardown, TeardownOf, Tests

-----------------------------------------------------------------------------

LEMMA InitTypeOK == Init => TypeOK
<1>1. <<>> \in Seq(Tests)
    OBVIOUS
<1> QED
    BY <1>1, SuiteRunAssumption DEF Init, TypeOK, Results, Phases

LEMMA NextTypeOK == TypeOK /\ [Next]_vars => TypeOK'
<1> SUFFICES ASSUME TypeOK, [Next]_vars
             PROVE  TypeOK'
    OBVIOUS
<1>0. /\ Main \subseteq Tests /\ Teardown \subseteq Tests
      /\ \A i \in Tests : suite[i].produces \subseteq Caps
    BY MainAreTests
<1> USE DEF TypeOK, Results, Phases
<1>1. CASE BeginLevel
    <2>1. suite' = suite /\ Main' = Main
        BY <1>1 DEF BeginLevel, Main
    <2>2. NextLevelOf(Main, Deps, emitted) \subseteq Main
        BY DEF NextLevelOf, ReadyLevel
    <2>3. /\ emitted' \subseteq Main /\ leftover' \subseteq emitted'
          /\ toSplit' \subseteq Tests
        BY <1>0, <1>1, <2>2 DEF BeginLevel
    <2> QED
        BY <1>1, <2>1, <2>3 DEF BeginLevel
<1>2. CASE EndLevels
    BY <1>2 DEF EndLevels, Main
<1>3. CASE BeginWave
    BY <1>3 DEF BeginWave, Main
<1>4. CASE EndWave
    BY <1>4 DEF EndWave, Main
<1>5. CASE EndLevel
    BY <1>5 DEF EndLevel, Main
<1>6. CASE RecordOutcome
    <2>1. Head(outcomes) \in Tests /\ Tail(outcomes) \in Seq(Tests)
        BY <1>6 DEF RecordOutcome
    <2>2. failedCaps' \subseteq Caps
        BY <1>0, <1>6, <2>1 DEF RecordOutcome
    <2>3. report' \in Seq(Tests) /\ phase' \in Phases
        BY <1>6, <2>1, RecordOK DEF RecordOutcome
    <2> QED
        BY <1>6, <2>1, <2>2, <2>3 DEF RecordOutcome, Main
<1>7. CASE RecordTeardown
    <2>1. Head(outcomes) \in Tests /\ Tail(outcomes) \in Seq(Tests)
        BY <1>7 DEF RecordTeardown
    <2>2. report' \in Seq(Tests) /\ phase' \in Phases
        BY <1>7, <2>1, RecordOK DEF RecordTeardown
    <2> QED
        BY <1>7, <2>1, <2>2 DEF RecordTeardown, Main
<1>8. CASE Return
    BY <1>8 DEF Return, Main
<1>9. CASE Interrupt
    BY <1>9 DEF Interrupt, Main
<1>10. ASSUME NEW i \in Tests, Block(i)
       PROVE  TypeOK'
    <2>1. report' \in Seq(Tests) /\ phase' \in Phases
        BY <1>10, RecordOK DEF Block
    <2> QED
        BY <1>0, <1>10, <2>1 DEF Block, Main
<1>11. ASSUME NEW i \in Tests, Keep(i)
       PROVE  TypeOK'
    BY <1>11 DEF Keep, Main
<1>12. ASSUME NEW i \in Tests, Launch(i)
       PROVE  TypeOK'
    BY <1>12 DEF Launch, Main
<1>13. ASSUME NEW i \in Tests, Finish(i)
       PROVE  TypeOK'
    BY <1>13 DEF Finish, Main
<1>14. ASSUME NEW i \in Tests, LaunchTeardown(i)
       PROVE  TypeOK'
    BY <1>14 DEF LaunchTeardown, Main
<1>16. CASE UNCHANGED vars
    BY <1>16 DEF vars, Main
<1> QED
    BY <1>1, <1>2, <1>3, <1>4, <1>5, <1>6, <1>7, <1>8, <1>9, <1>10, <1>11,
       <1>12, <1>13, <1>14, <1>16 DEF Next

\* The state of a run is well typed throughout: in particular a capability
\* that is marked failed is one of the suite's, and only main tests are
\* emitted in levels.
THEOREM TypeCorrect == Spec => []TypeOK
BY InitTypeOK, NextTypeOK, PTL DEF Spec

-----------------------------------------------------------------------------
(***************************************************************************)
(* The inductive invariant behind UpstreamPassed and BlockedHasCause.      *)
(*                                                                         *)
(* A test is InHand from the moment its level begins until its outcome has *)
(* been recorded or it has been skipped.                                   *)
(***************************************************************************)

InHand(i) == i \in toSplit \/ i \in toRun \/ i \in running \/ InOutcomes(i)

\* Which collections are in use in which phase.
PhaseInv ==
    /\ phase \notin {"split", "error"} => toSplit = {}
    /\ phase \notin {"split", "wave", "error"} => toRun = {}
    /\ phase \notin {"wave", "teardown"} => running = {}
    /\ phase \in {"level", "split", "returned"} => outcomes = <<>>
    /\ phase \in {"wave", "record"} =>
          \A i \in Tests : i \in running \/ InOutcomes(i) => i \in emitted
    /\ phase = "teardown" =>
          /\ \A i \in Tests : i \in running \/ InOutcomes(i) => i \in Teardown
          /\ \A i, j \in running : i = j
          /\ running # {} => outcomes = <<>>

\* What a test's place says of its result, and the other way round.
ResultInv ==
    /\ toSplit \cap toRun = {}
    /\ \A i \in toSplit \cup toRun : i \in emitted /\ result[i] = "none"
    /\ \A i \in running : result[i] = "running"
    /\ \A i \in Tests : InOutcomes(i) => result[i] \in {"passed", "failed"}
    /\ \A i \in Main \ emitted : result[i] = "none"
    /\ \A i \in emitted : InHand(i) \/ result[i] \in {"passed", "failed", "blocked"}

\* A capability is marked failed exactly on account of a producer dealt with.
CapsInv ==
    /\ \A i \in emitted :
          result[i] \in {"failed", "blocked"} =>
              InHand(i) \/ suite[i].produces \subseteq failedCaps
    /\ \A c \in failedCaps : \E i \in Main :
          c \in suite[i].produces /\ result[i] \in {"failed", "blocked"}

\* The producers of a test belong to levels that are over when its own is in
\* hand, and once it has been kept they have all passed.
LevelInv ==
    \A i \in emitted \ leftover :
        /\ \A p \in Deps[i] : p \in emitted /\ (InHand(i) => ~InHand(p))
        /\ i \in toRun \/ result[i] \in Executed => \A p \in Deps[i] : result[p] = "passed"

RunInv == TypeOK /\ PhaseInv /\ ResultInv /\ CapsInv /\ LevelInv /\ BlockedHasCause

\* No step changes the suite, nor what is computed from it alone.
LEMMA SuiteFixed ==
    ASSUME [Next]_vars
    PROVE  suite' = suite /\ Main' = Main /\ Teardown' = Teardown /\ Deps' = Deps
<1>1. suite' = suite
    BY DEF Next, vars, BeginLevel, EndLevels, BeginWave, EndWave, EndLevel,
           RecordOutcome, RecordTeardown, Return, Interrupt, Block, Keep,
           Launch, Finish, LaunchTeardown
<1> QED
    BY <1>1 DEF Main, Teardown, Deps

LEMMA EmptyOutcomes == outcomes = <<>> => \A i : ~InOutcomes(i)
BY DEF InOutcomes

LEMMA RunInvInit == Init => RunInv
<1> SUFFICES ASSUME Init
             PROVE  RunInv
    OBVIOUS
<1>1. TypeOK
    BY InitTypeOK
<1>2. \A i : ~InOutcomes(i)
    BY EmptyOutcomes DEF Init
<1>3. \A i \in Tests : result[i] = "none"
    BY DEF Init
<1>4. Main \subseteq Tests
    BY <1>1, MainAreTests
<1> QED
    BY <1>1, <1>2, <1>3, <1>4
    DEF Init, RunInv, PhaseInv, ResultInv, CapsInv, LevelInv, BlockedHasCause

LEMMA BeginLevelStep ==
    ASSUME RunInv, TypeOK', BeginLevel, Main' = Main, Teardown' = Teardown,
           Deps' = Deps
    PROVE  RunInv'
<1> USE DEF RunInv, InHand
<1>1. /\ toSplit' \subseteq Main \ emitted
      /\ emitted' = emitted \cup toSplit'
      /\ \A i \in toSplit' \ leftover' : Deps[i] \subseteq emitted
      /\ leftover \subseteq leftover'
    <2>1. CASE ReadyLevel(Main, Deps, emitted) = {}
        BY <2>1 DEF BeginLevel, NextLevelOf
    <2>2. CASE ReadyLevel(Main, Deps, emitted) # {}
        BY <2>2 DEF BeginLevel, NextLevelOf, ReadyLevel
    <2> QED
        BY <2>1, <2>2
<1>2. /\ toRun = {} /\ running = {} /\ toSplit = {} /\ outcomes = <<>>
      /\ UNCHANGED <<toRun, running, outcomes, result, failedCaps, suite>>
      /\ phase' = "split"
    BY DEF BeginLevel, PhaseInv
<1>3. \A i : ~InOutcomes(i) /\ ~InOutcomes(i)'
    BY <1>2, EmptyOutcomes DEF InOutcomes
<1>4. Main \subseteq Tests
    BY MainAreTests
<1>5. PhaseInv'
    BY <1>2, <1>3 DEF PhaseInv
<1>6. ResultInv'
    BY <1>1, <1>2, <1>3, <1>4 DEF ResultInv
<1>7. CapsInv'
    BY <1>1, <1>2, <1>3 DEF CapsInv
<1>8. LevelInv'
    <2> SUFFICES ASSUME NEW i \in emitted' \ leftover'
                 PROVE  /\ \A p \in Deps[i] : p \in emitted' /\ ~InHand(p)'
                        /\ i \in toRun' \/ result'[i] \in Executed =>
                              \A p \in Deps[i] : result'[p] = "passed"
        BY DEF LevelInv, Executed
    <2>1. CASE i \in emitted
        BY <1>1, <1>2, <1>3, <2>1 DEF LevelInv
    <2>2. CASE i \in toSplit'
        BY <1>1, <1>2, <1>3, <2>2 DEF ResultInv, Executed
    <2> QED
        BY <1>1, <2>1, <2>2
<1>9. BlockedHasCause'
    BY <1>2 DEF BlockedHasCause
<1> QED
    BY <1>5, <1>6, <1>7, <1>8, <1>9

\* The steps that move run_collect to its next loop and no test.
LEMMA ControlStep ==
    ASSUME RunInv, TypeOK', Main' = Main, Teardown' = Teardown, Deps' = Deps,
           EndLevels \/ BeginWave \/ EndWave \/ EndLevel \/ Return \/ Interrupt
           \/ UNCHANGED vars
    PROVE  RunInv'
<1> USE DEF RunInv, InHand
<1>1. UNCHANGED <<suite, emitted, leftover, toSplit, toRun, running, outcomes,
                  result, failedCaps>>
    BY DEF EndLevels, BeginWave, EndWave, EndLevel, Return, Interrupt, vars
<1>2. \A i : InOutcomes(i)' <=> InOutcomes(i)
    BY <1>1 DEF InOutcomes
<1>3. PhaseInv'
    BY <1>1, <1>2, EmptyOutcomes
    DEF PhaseInv, EndLevels, BeginWave, EndWave, EndLevel, Return, Interrupt,
        vars
<1>4. ResultInv' /\ CapsInv'
    BY <1>1, <1>2 DEF ResultInv, CapsInv
<1>5. LevelInv'
    BY <1>1, <1>2 DEF LevelInv, Executed
<1>6. BlockedHasCause'
    BY <1>1 DEF BlockedHasCause
<1> QED
    BY <1>3, <1>4, <1>5, <1>6

LEMMA BlockStep ==
    ASSUME RunInv, TypeOK', Main' = Main, Teardown' = Teardown, Deps' = Deps,
           NEW i \in Tests, Block(i)
    PROVE  RunInv'
<1> USE DEF RunInv, InHand
<1>1. /\ i \in toSplit /\ i \in emitted /\ i \in Main /\ result[i] = "none"
      /\ toSplit' = toSplit \ {i}
      /\ failedCaps' = failedCaps \cup suite[i].produces
      /\ result' = [result EXCEPT ![i] = "blocked"]
      /\ UNCHANGED <<suite, emitted, leftover, toRun, running, outcomes>>
      /\ phase = "split" /\ phase' \in {"split", "error"}
    BY DEF Block, Record, ResultInv, TypeOK, Earliest
<1>2. \A j : ~InOutcomes(j) /\ ~InOutcomes(j)'
    BY <1>1, EmptyOutcomes DEF PhaseInv, InOutcomes
<1>3. /\ result'[i] = "blocked"
      /\ \A j \in Tests : j # i => result'[j] = result[j]
      /\ Main \subseteq Tests
    BY <1>1, MainAreTests DEF TypeOK
<1>4. PhaseInv'
    BY <1>1, <1>2 DEF PhaseInv
<1>5. ResultInv'
    BY <1>1, <1>2, <1>3 DEF ResultInv, PhaseInv, TypeOK
<1>6. CapsInv'
    BY <1>1, <1>2, <1>3 DEF CapsInv, TypeOK
<1>7. LevelInv'
    <2> SUFFICES ASSUME NEW j \in emitted \ leftover
                 PROVE  /\ \A p \in Deps[j] : p \in emitted /\ (InHand(j)' => ~InHand(p)')
                        /\ j \in toRun \/ result'[j] \in Executed =>
                              \A p \in Deps[j] : result'[p] = "passed"
        BY <1>1 DEF LevelInv, Executed
    <2>1. \A p \in Deps[j] : p \in emitted /\ (InHand(j)' => ~InHand(p)')
        BY <1>1, <1>2 DEF LevelInv
    <2>2. ASSUME j \in toRun \/ result'[j] \in Executed, NEW p \in Deps[j]
          PROVE  result'[p] = "passed"
        <3>1. result[p] = "passed"
            BY <1>1, <1>3, <2>2 DEF LevelInv, Executed, TypeOK
        <3> QED
            BY <1>1, <1>3, <3>1, DepsAreMain DEF TypeOK
    <2> QED
        BY <2>1, <2>2
<1>8. BlockedHasCause'
    <2> SUFFICES ASSUME NEW j \in Main, result'[j] = "blocked"
                 PROVE  \E p \in Deps[j] : result'[p] \in {"failed", "blocked"}
        BY DEF BlockedHasCause
    <2>1. \E p \in Deps[j] : result[p] \in {"failed", "blocked"}
        <3>1. CASE j = i
            <4>1. PICK c \in suite[i].needs : c \in failedCaps
                BY DEF Block
            <4>2. PICK p \in Main : /\ c \in suite[p].produces
                                    /\ result[p] \in {"failed", "blocked"}
                BY <4>1 DEF CapsInv
            <4>3. p \in Deps[i]
                BY <1>1, <4>1, <4>2 DEF Deps
            <4> QED
                BY <3>1, <4>2, <4>3
        <3>2. CASE j # i
            BY <1>3, <3>2 DEF BlockedHasCause
        <3> QED
            BY <3>1, <3>2
    <2> QED
        BY <1>1, <1>3, <2>1, DepsAreMain
<1> QED
    BY <1>4, <1>5, <1>6, <1>7, <1>8

LEMMA KeepStep ==
    ASSUME RunInv, TypeOK', Main' = Main, Teardown' = Teardown, Deps' = Deps,
           NEW i \in Tests, Keep(i)
    PROVE  RunInv'
<1> USE DEF RunInv, InHand
<1>1. /\ i \in toSplit /\ i \in emitted /\ i \in Main /\ result[i] = "none"
      /\ toSplit' = toSplit \ {i} /\ toRun' = toRun \cup {i}
      /\ UNCHANGED <<suite, emitted, leftover, running, outcomes, result, failedCaps>>
      /\ phase = "split" /\ phase' = "split"
    BY DEF Keep, ResultInv, TypeOK, Earliest
<1>2. \A j : InOutcomes(j)' <=> InOutcomes(j)
    BY <1>1 DEF InOutcomes
<1>3. PhaseInv'
    BY <1>1, <1>2 DEF PhaseInv
<1>4. ResultInv' /\ CapsInv'
    BY <1>1, <1>2 DEF ResultInv, CapsInv
<1>5. i \notin leftover => \A p \in Deps[i] : result[p] = "passed"
    <2> SUFFICES ASSUME i \notin leftover, NEW p \in Deps[i]
                 PROVE  result[p] = "passed"
        OBVIOUS
    <2>1. p \in emitted /\ ~InHand(p)
        BY <1>1 DEF LevelInv
    <2>2. result[p] \in {"passed", "failed", "blocked"}
        BY <2>1 DEF ResultInv
    <2>3. ~(suite[p].produces \subseteq failedCaps)
        BY <1>1, DepsAreMain DEF Keep
    <2> QED
        BY <2>1, <2>2, <2>3 DEF CapsInv
<1>6. LevelInv'
    BY <1>1, <1>2, <1>5 DEF LevelInv, Executed
<1>7. BlockedHasCause'
    BY <1>1 DEF BlockedHasCause
<1> QED
    BY <1>3, <1>4, <1>6, <1>7

LEMMA LaunchStep ==
    ASSUME RunInv, TypeOK', Main' = Main, Teardown' = Teardown, Deps' = Deps,
           NEW i \in Tests, Launch(i)
    PROVE  RunInv'
<1> USE DEF RunInv, InHand
<1>1. /\ i \in toRun /\ i \in emitted /\ i \in Main /\ result[i] = "none"
      /\ toRun' = toRun \ {i} /\ running' = running \cup {i}
      /\ result' = [result EXCEPT ![i] = "running"]
      /\ UNCHANGED <<suite, emitted, leftover, toSplit, outcomes, failedCaps>>
      /\ phase = "wave" /\ phase' = "wave"
    BY DEF Launch, ResultInv, TypeOK, Earliest
<1>2. \A j : InOutcomes(j)' <=> InOutcomes(j)
    BY <1>1 DEF InOutcomes
<1>3. /\ result'[i] = "running"
      /\ \A j \in Tests : j # i => result'[j] = result[j]
      /\ Main \subseteq Tests
    BY <1>1, MainAreTests DEF TypeOK
<1>4. PhaseInv'
    BY <1>1, <1>2 DEF PhaseInv
<1>5. ResultInv'
    BY <1>1, <1>2, <1>3 DEF ResultInv, PhaseInv, TypeOK
<1>6. CapsInv'
    BY <1>1, <1>2, <1>3 DEF CapsInv, TypeOK
<1>7. LevelInv'
    <2> SUFFICES ASSUME NEW j \in emitted \ leftover
                 PROVE  /\ \A p \in Deps[j] : p \in emitted /\ (InHand(j)' => ~InHand(p)')
                        /\ j \in toRun' \/ result'[j] \in Executed =>
                              \A p \in Deps[j] : result'[p] = "passed"
        BY <1>1 DEF LevelInv, Executed
    <2>1. \A p \in Deps[j] : p \in emitted /\ (InHand(j)' => ~InHand(p)')
        BY <1>1, <1>2 DEF LevelInv
    <2>2. ASSUME j \in toRun' \/ result'[j] \in Executed, NEW p \in Deps[j]
          PROVE  result'[p] = "passed"
        <3>1. result[p] = "passed"
            BY <1>1, <1>3, <2>2 DEF LevelInv, Executed, TypeOK
        <3> QED
            BY <1>1, <1>3, <3>1, DepsAreMain DEF TypeOK
    <2> QED
        BY <2>1, <2>2
<1>8. BlockedHasCause'
    BY <1>1, <1>3, DepsAreMain DEF BlockedHasCause
<1> QED
    BY <1>4, <1>5, <1>6, <1>7, <1>8

LEMMA FinishStep ==
    ASSUME RunInv, TypeOK', Main' = Main, Teardown' = Teardown, Deps' = Deps,
           NEW i \in Tests, Finish(i)
    PROVE  RunInv'
<1> USE DEF RunInv, InHand
<1>1. /\ i \in running /\ result[i] = "running"
      /\ running' = running \ {i}
      /\ outcomes' = Append(outcomes, i)
      /\ UNCHANGED <<suite, phase, emitted, leftover, toSplit, toRun, failedCaps>>
      /\ phase \in {"wave", "teardown"}
    BY DEF Finish, ResultInv, PhaseInv
<1>2. \A j : InOutcomes(j)' <=> InOutcomes(j) \/ j = i
    BY <1>1, AppendOutcome DEF TypeOK
<1>3. /\ result'[i] \in {"passed", "failed"}
      /\ \A j \in Tests : j # i => result'[j] = result[j]
      /\ Main \subseteq Tests
    BY MainAreTests DEF Finish, TypeOK
<1>4. PhaseInv'
    BY <1>1, <1>2 DEF PhaseInv, TypeOK
<1>5. ResultInv'
    BY <1>1, <1>2, <1>3 DEF ResultInv, TypeOK
<1>6. CapsInv'
    BY <1>1, <1>2, <1>3 DEF CapsInv, TypeOK
<1>7. LevelInv'
    <2> SUFFICES ASSUME NEW j \in emitted \ leftover
                 PROVE  /\ \A p \in Deps[j] : p \in emitted /\ (InHand(j)' => ~InHand(p)')
                        /\ j \in toRun \/ result'[j] \in Executed =>
                              \A p \in Deps[j] : result'[p] = "passed"
        BY <1>1 DEF LevelInv, Executed
    <2>1. \A p \in Deps[j] : p \in emitted /\ (InHand(j)' => ~InHand(p)')
        BY <1>1, <1>2 DEF LevelInv
    <2>2. ASSUME j \in toRun \/ result'[j] \in Executed, NEW p \in Deps[j]
          PROVE  result'[p] = "passed"
        <3>1. result[p] = "passed"
            BY <1>1, <1>3, <2>2 DEF LevelInv, Executed, TypeOK
        <3> QED
            BY <1>1, <1>3, <3>1, DepsAreMain DEF TypeOK
    <2> QED
        BY <2>1, <2>2
<1>8. BlockedHasCause'
    BY <1>1, <1>3, DepsAreMain DEF BlockedHasCause
<1> QED
    BY <1>4, <1>5, <1>6, <1>7, <1>8

LEMMA RecordOutcomeStep ==
    ASSUME RunInv, TypeOK', Main' = Main, Teardown' = Teardown, Deps' = Deps,
           RecordOutcome
    PROVE  RunInv'
<1> USE DEF RunInv, InHand
<1> DEFINE h == Head(outcomes)
<1>1. /\ phase = "record" /\ phase' \in {"record", "error"}
      /\ outcomes # <<>> /\ outcomes' = Tail(outcomes)
      /\ failedCaps' = IF result[h] = "failed"
                           THEN failedCaps \cup suite[h].produces ELSE failedCaps
      /\ UNCHANGED <<suite, emitted, leftover, toSplit, toRun, running, result>>
    BY DEF RecordOutcome, Record
<1>2. /\ h \in Tests /\ InOutcomes(h)
      /\ \A j : InOutcomes(j)' => InOutcomes(j)
      /\ \A j : InOutcomes(j) => j = h \/ InOutcomes(j)'
    BY <1>1, TailOutcome DEF TypeOK
<1>3. h \in Main /\ result[h] \in {"passed", "failed"}
    BY <1>1, <1>2 DEF PhaseInv, ResultInv, TypeOK
<1> HIDE DEF h
<1>4. PhaseInv'
    BY <1>1, <1>2 DEF PhaseInv
<1>5. ResultInv'
    BY <1>1, <1>2, <1>3 DEF ResultInv
<1>6. CapsInv'
    BY <1>1, <1>2, <1>3 DEF CapsInv
<1>7. LevelInv'
    BY <1>1, <1>2 DEF LevelInv, Executed
<1>8. BlockedHasCause'
    BY <1>1 DEF BlockedHasCause
<1> QED
    BY <1>4, <1>5, <1>6, <1>7, <1>8

LEMMA TeardownStep ==
    ASSUME RunInv, TypeOK', Main' = Main, Teardown' = Teardown, Deps' = Deps,
           RecordTeardown \/ \E i \in Tests : LaunchTeardown(i)
    PROVE  RunInv'
<1> USE DEF RunInv, InHand
<1>0. Main \subseteq Tests /\ Main \cap Teardown = {}
    BY MainAreTests
<1>1. CASE RecordTeardown
    <2>1. /\ phase = "teardown" /\ phase' \in {"teardown", "error"}
          /\ outcomes # <<>> /\ outcomes' = Tail(outcomes)
          /\ UNCHANGED <<suite, emitted, leftover, toSplit, toRun, running,
                         result, failedCaps>>
        BY <1>1 DEF RecordTeardown, Record
    <2>2. /\ \A j : InOutcomes(j)' => InOutcomes(j)
          /\ \A j \in Main : ~InOutcomes(j) /\ ~InOutcomes(j)'
          /\ running = {}
        BY <1>0, <2>1, TailOutcome DEF TypeOK, PhaseInv
    <2>3. PhaseInv'
        BY <2>1, <2>2 DEF PhaseInv
    <2>4. ResultInv' /\ CapsInv'
        BY <2>1, <2>2 DEF ResultInv, CapsInv, TypeOK
    <2>5. LevelInv'
        BY <2>1, <2>2 DEF LevelInv, Executed
    <2>6. BlockedHasCause'
        BY <2>1 DEF BlockedHasCause
    <2> QED
        BY <2>3, <2>4, <2>5, <2>6
<1>2. ASSUME NEW i \in Tests, LaunchTeardown(i)
      PROVE  RunInv'
    <2>1. /\ i \in Teardown /\ i \notin Main /\ result[i] = "none"
          /\ running = {} /\ running' = {i}
          /\ outcomes = <<>>
          /\ result' = [result EXCEPT ![i] = "running"]
          /\ UNCHANGED <<suite, emitted, leftover, toSplit, toRun, outcomes, failedCaps>>
          /\ phase = "teardown" /\ phase' = "teardown"
        BY <1>0, <1>2 DEF LaunchTeardown, Earliest
    <2>2. \A j : ~InOutcomes(j) /\ ~InOutcomes(j)'
        BY <2>1, EmptyOutcomes DEF InOutcomes
    <2>3. result'[i] = "running" /\ \A j \in Main : result'[j] = result[j]
        BY <1>0, <2>1 DEF TypeOK
    <2>4. PhaseInv'
        BY <2>1, <2>2 DEF PhaseInv
    <2>5. ResultInv'
        BY <1>0, <2>1, <2>2, <2>3 DEF ResultInv, PhaseInv, TypeOK
    <2>6. CapsInv'
        BY <2>1, <2>2, <2>3 DEF CapsInv, TypeOK
    <2>7. LevelInv'
        <3> SUFFICES ASSUME NEW j \in emitted \ leftover
                     PROVE  /\ \A p \in Deps[j] : p \in emitted /\ (InHand(j)' => ~InHand(p)')
                            /\ j \in toRun \/ result'[j] \in Executed =>
                                  \A p \in Deps[j] : result'[p] = "passed"
            BY <2>1 DEF LevelInv, Executed
        <3>1. j \in Main /\ \A p \in Deps[j] : p \in Main /\ p \in emitted
            BY DEF LevelInv, TypeOK
        <3> QED
            BY <2>1, <2>2, <2>3, <3>1 DEF LevelInv, Executed
    <2>8. BlockedHasCause'
        BY <2>1, <2>3, DepsAreMain DEF BlockedHasCause
    <2> QED
        BY <2>4, <2>5, <2>6, <2>7, <2>8
<1> QED
    BY <1>1, <1>2

LEMMA RunInvNext == RunInv /\ [Next]_vars => RunInv'
<1> SUFFICES ASSUME RunInv, [Next]_vars
             PROVE  RunInv'
    OBVIOUS
<1>1. TypeOK' /\ Main' = Main /\ Teardown' = Teardown /\ Deps' = Deps
    BY NextTypeOK, SuiteFixed DEF RunInv
<1> QED
    BY <1>1, BeginLevelStep, ControlStep, BlockStep, KeepStep, LaunchStep,
       FinishStep, RecordOutcomeStep, TeardownStep DEF Next

LEMMA RunInvHolds == Spec => []RunInv
BY RunInvInit, RunInvNext, PTL DEF Spec

\* waves.rs: "Each level is a set of tests whose dependencies are satisfied by
\* earlier levels". Whatever the suite, the number of jobs and the order in
\* which the tests of a level finish, a test outside the fallback level is
\* started only after every producer it waits for has passed.
THEOREM ConsumersRunAfterProducers == Spec => []UpstreamPassed
<1>1. RunInv => UpstreamPassed
    BY DEF RunInv, LevelInv, ResultInv, UpstreamPassed, Executed
<1> QED
    BY <1>1, RunInvHolds, PTL

\* run.rs: "skipped: dependency '{cap}' unmet (upstream producer failed or was
\* skipped)". Whenever a test is skipped with that message there is such a
\* producer, in a cycle too.
THEOREM SkipsAreCaused == Spec => []BlockedHasCause
<1>1. RunInv => BlockedHasCause
    BY DEF RunInv
<1> QED
    BY <1>1, RunInvHolds, PTL

-----------------------------------------------------------------------------
(***************************************************************************)
(* CleanupComesLast. Until the cleanups begin, a main test that has a      *)
(* result is on record or in the queue of outcomes; when they begin, the   *)
(* queue is empty and no level is in hand.                                 *)
(***************************************************************************)

MainPhase == {"level", "split", "wave", "record"}

MainDone ==
    \A i \in Main :
        /\ result[i] # "running"
        /\ result[i] = "none" => interrupted
        /\ result[i] # "none" => Recorded(i)

CleanInv ==
    /\ MainDone \/ \A t \in Teardown : result[t] = "none"
    /\ phase \in {"teardown", "returned"} => MainDone
    /\ phase \in MainPhase =>
          /\ \A t \in Teardown : result[t] = "none"
          /\ \A i \in Main : result[i] \in {"passed", "failed", "blocked"} =>
                InOutcomes(i) \/ Recorded(i)

\* Nothing that is on record leaves it.
LEMMA RecordKeeps ==
    ASSUME TypeOK, NEW i \in Tests, NEW next \in Phases, Record(i, next)
    PROVE  /\ \A j : Recorded(j) => Recorded(j)'
           /\ phase' # "error" => Recorded(i)'
           /\ phase' \in {next, "error"}
<1>1. CASE report' = Append(report, i) /\ phase' = next
    <2>1. /\ Len(report) \in Nat
          /\ DOMAIN report = 1 .. Len(report)
          /\ DOMAIN report' = 1 .. Len(report) + 1
          /\ \A k \in 1 .. Len(report) : report'[k] = report[k]
          /\ report'[Len(report) + 1] = i
        BY <1>1 DEF TypeOK
    <2> QED
        BY <1>1, <2>1 DEF Recorded
<1>2. CASE phase' = "error" /\ UNCHANGED report
    BY <1>2 DEF Recorded
<1> QED
    BY <1>1, <1>2 DEF Record

LEMMA CleanInit == Init => CleanInv
BY MainAreTests, InitTypeOK DEF Init, CleanInv, MainPhase

LEMMA CleanNext == RunInv /\ CleanInv /\ [Next]_vars => CleanInv'
<1> SUFFICES ASSUME RunInv, CleanInv, [Next]_vars
             PROVE  CleanInv'
    OBVIOUS
<1>0. /\ Main' = Main /\ Teardown' = Teardown
      /\ Main \subseteq Tests /\ Teardown \subseteq Tests
      /\ Main \cap Teardown = {}
      /\ TypeOK
    BY SuiteFixed, MainAreTests DEF RunInv
<1> USE DEF CleanInv, MainDone, MainPhase
<1>1. ASSUME BeginLevel \/ BeginWave \/ EndWave \/ EndLevel \/ Return
             \/ Interrupt \/ (\E i \in Tests : Keep(i))
             \/ UNCHANGED vars
      PROVE  CleanInv'
    <2>1. /\ UNCHANGED <<outcomes, result, report>>
          /\ interrupted => interrupted'
          /\ phase \in MainPhase <=> phase' \in MainPhase
          /\ phase' \in {"teardown", "returned"} =>
                phase \in {"teardown", "returned"}
        BY <1>1 DEF BeginLevel, BeginWave, EndWave, EndLevel, Return,
                    Interrupt, Keep, vars
    <2>2. /\ \A j : Recorded(j)' <=> Recorded(j)
          /\ \A j : InOutcomes(j)' <=> InOutcomes(j)
        BY <2>1 DEF Recorded, InOutcomes
    <2> QED
        BY <1>0, <2>1, <2>2
<1>2. CASE EndLevels
    <2>1. /\ phase = "level" /\ phase' = "teardown"
          /\ interrupted \/ emitted = Main
          /\ UNCHANGED <<outcomes, result, report, interrupted>>
        BY <1>2 DEF EndLevels
    <2>2. /\ toSplit = {} /\ toRun = {} /\ running = {}
          /\ \A j : ~InOutcomes(j)
        BY <2>1, EmptyOutcomes DEF RunInv, PhaseInv
    <2>3. \A i \in Main : \/ result[i] \in {"passed", "failed", "blocked"}
                          \/ result[i] = "none" /\ interrupted
        BY <2>1, <2>2 DEF RunInv, ResultInv, InHand, TypeOK
    <2>4. \A j : Recorded(j)' <=> Recorded(j)
        BY <2>1 DEF Recorded
    <2> QED
        BY <1>0, <2>1, <2>2, <2>3, <2>4
<1>3. CASE RecordOutcome
    <2>1. /\ phase = "record" /\ outcomes # <<>> /\ outcomes' = Tail(outcomes)
          /\ UNCHANGED <<result, interrupted>>
        BY <1>3 DEF RecordOutcome
    <2>2. PICK h \in Tests :
             /\ h = Head(outcomes)
             /\ \A j : InOutcomes(j) => j = h \/ InOutcomes(j)'
        BY <1>0, <2>1, TailOutcome DEF TypeOK
    <2>3. /\ \A j : Recorded(j) => Recorded(j)'
          /\ phase' # "error" => Recorded(h)'
          /\ phase' \in {"record", "error"}
        BY <1>0, <1>3, <2>2, RecordKeeps DEF RecordOutcome, Phases
    <2> QED
        BY <1>0, <2>1, <2>2, <2>3
<1>4. CASE RecordTeardown
    <2>1. /\ phase = "teardown" /\ outcomes # <<>>
          /\ UNCHANGED <<result, interrupted>>
        BY <1>4 DEF RecordTeardown
    <2>2. PICK h \in Tests : h = Head(outcomes)
        BY <1>0, <2>1 DEF TypeOK
    <2>3. /\ \A j : Recorded(j) => Recorded(j)'
          /\ phase' \in {"teardown", "error"}
        BY <1>0, <1>4, <2>2, RecordKeeps DEF RecordTeardown, Phases
    <2> QED
        BY <1>0, <2>1, <2>3
<1>5. ASSUME NEW i \in Tests, Block(i)
      PROVE  CleanInv'
    <2>1. /\ phase = "split" /\ i \in toSplit
          /\ result' = [result EXCEPT ![i] = "blocked"]
          /\ UNCHANGED <<outcomes, interrupted>>
        BY <1>5 DEF Block, Earliest
    <2>2. i \in Main
        BY <2>1 DEF RunInv, ResultInv, TypeOK
    <2>3. /\ \A j : Recorded(j) => Recorded(j)'
          /\ phase' # "error" => Recorded(i)'
          /\ phase' \in {"split", "error"}
        BY <1>0, <1>5, RecordKeeps DEF Block, Phases
    <2>4. \A j : InOutcomes(j)' <=> InOutcomes(j)
        BY <2>1 DEF InOutcomes
    <2>5. \A j \in Tests : j # i => result'[j] = result[j]
        BY <1>0, <2>1 DEF TypeOK
    <2> QED
        BY <1>0, <2>1, <2>2, <2>3, <2>4, <2>5
<1>6. ASSUME NEW i \in Tests, Launch(i)
      PROVE  CleanInv'
    <2>1. /\ phase = "wave" /\ phase' = "wave" /\ i \in toRun
          /\ result' = [result EXCEPT ![i] = "running"]
          /\ UNCHANGED <<outcomes, report, interrupted>>
        BY <1>6 DEF Launch, Earliest
    <2>2. i \in Main
        BY <2>1 DEF RunInv, ResultInv, TypeOK
    <2>3. /\ \A j : Recorded(j)' <=> Recorded(j)
          /\ \A j : InOutcomes(j)' <=> InOutcomes(j)
        BY <2>1 DEF Recorded, InOutcomes
    <2>4. /\ result'[i] = "running"
          /\ \A j \in Tests : j # i => result'[j] = result[j]
        BY <1>0, <2>1 DEF TypeOK
    <2> QED
        BY <1>0, <2>1, <2>2, <2>3, <2>4
<1>7. ASSUME NEW i \in Tests, Finish(i)
      PROVE  CleanInv'
    <2>1. /\ i \in running /\ outcomes' = Append(outcomes, i)
          /\ UNCHANGED <<phase, report, interrupted>>
        BY <1>7 DEF Finish
    <2>2. /\ \A j : Recorded(j)' <=> Recorded(j)
          /\ \A j : InOutcomes(j)' <=> InOutcomes(j) \/ j = i
        BY <1>0, <2>1, AppendOutcome DEF Recorded, TypeOK
    <2>3. \A j \in Tests : j # i => result'[j] = result[j]
        BY <1>0, <1>7 DEF Finish, TypeOK
    <2>4. CASE phase = "wave"
        <3>1. i \in Main
            BY <2>1, <2>4 DEF RunInv, PhaseInv, TypeOK
        <3> QED
            BY <1>0, <2>1, <2>2, <2>3, <2>4, <3>1
    <2>5. CASE phase = "teardown"
        <3>1. i \in Teardown
            BY <2>1, <2>5 DEF RunInv, PhaseInv
        <3> QED
            BY <1>0, <2>1, <2>2, <2>3, <2>5, <3>1
    <2> QED
        BY <2>1, <2>4, <2>5 DEF RunInv, PhaseInv
<1>8. ASSUME NEW i \in Tests, LaunchTeardown(i)
      PROVE  CleanInv'
    <2>1. /\ phase = "teardown" /\ phase' = "teardown" /\ i \in Teardown
          /\ result' = [result EXCEPT ![i] = "running"]
          /\ UNCHANGED <<outcomes, report, interrupted>>
        BY <1>8 DEF LaunchTeardown, Earliest
    <2>2. \A j : Recorded(j)' <=> Recorded(j)
        BY <2>1 DEF Recorded
    <2>3. \A j \in Main : result'[j] = result[j]
        BY <1>0, <2>1 DEF TypeOK
    <2> QED
        BY <1>0, <2>1, <2>2, <2>3
<1> QED
    BY <1>1, <1>2, <1>3, <1>4, <1>5, <1>6, <1>7, <1>8 DEF Next

\* waves.rs: "the whole list is followed by teardown steps that must run
\* last". Whatever the suite and wherever Ctrl-C falls, a cleanup starts only
\* when no main test is running or can still be started and every main test
\* that has a result has been recorded.
THEOREM CleanupsFollowTheRecord == Spec => []CleanupComesLast
<1>1. CleanInv => CleanupComesLast
    BY DEF CleanInv, MainDone, CleanupComesLast
<1>2. Spec => []CleanInv
    BY CleanInit, CleanNext, RunInvHolds, PTL DEF Spec
<1> QED
    BY <1>1, <1>2, PTL

-----------------------------------------------------------------------------
(***************************************************************************)
(* FailureConeIsSkipped. A test is in the queue of outcomes or on record,  *)
(* once and not in both; from the cleanups on, a cleanup that has been     *)
(* started is being executed, in the queue or on record.                   *)
(***************************************************************************)

Distinct(s) == \A k, l \in DOMAIN s : s[k] = s[l] => k = l

OnceInv ==
    /\ Distinct(report)
    /\ Distinct(outcomes)
    /\ \A i \in Tests : Recorded(i) =>
          result[i] \in {"passed", "failed", "blocked"} /\ ~InOutcomes(i)
    /\ phase \in {"teardown", "returned"} =>
          \A t \in Teardown :
              result[t] = "none" \/ t \in running \/ InOutcomes(t) \/ Recorded(t)
    /\ phase = "returned" => \A t \in Teardown : Recorded(t)

LEMMA AppendDistinct ==
    ASSUME NEW s \in Seq(Tests), NEW i \in Tests, Distinct(s),
           \A k \in DOMAIN s : s[k] # i
    PROVE  Distinct(Append(s, i))
<1> DEFINE t == Append(s, i)
<1>1. /\ Len(s) \in Nat
      /\ DOMAIN s = 1 .. Len(s)
      /\ DOMAIN t = 1 .. Len(s) + 1
      /\ \A k \in 1 .. Len(s) : t[k] = s[k]
      /\ t[Len(s) + 1] = i
    OBVIOUS
<1> HIDE DEF t
<1>2. Distinct(t)
    BY <1>1 DEF Distinct
<1> QED
    BY <1>2 DEF t

LEMMA TailDistinct ==
    ASSUME NEW s \in Seq(Tests), s # <<>>, Distinct(s)
    PROVE  /\ Distinct(Tail(s))
           /\ \A k \in DOMAIN Tail(s) : Tail(s)[k] # Head(s)
<1> DEFINE t == Tail(s)
<1>1. /\ Len(s) \in Nat \ {0}
      /\ DOMAIN s = 1 .. Len(s)
      /\ DOMAIN t = 1 .. Len(s) - 1
      /\ \A k \in 1 .. Len(s) - 1 : t[k] = s[k + 1]
      /\ Head(s) = s[1]
    OBVIOUS
<1> HIDE DEF t
<1>2. Distinct(t)
    <2> SUFFICES ASSUME NEW k \in DOMAIN t, NEW l \in DOMAIN t, t[k] = t[l]
                 PROVE  k = l
        BY DEF Distinct
    <2>1. k + 1 \in DOMAIN s /\ l + 1 \in DOMAIN s /\ s[k + 1] = s[l + 1]
        BY <1>1
    <2>2. k + 1 = l + 1
        BY <2>1 DEF Distinct
    <2> QED
        BY <1>1, <2>2
<1>3. ASSUME NEW k \in DOMAIN t, t[k] = Head(s)
      PROVE  FALSE
    <2>1. k + 1 \in DOMAIN s /\ 1 \in DOMAIN s /\ s[k + 1] = s[1]
        BY <1>1, <1>3
    <2>2. k + 1 = 1
        BY <2>1 DEF Distinct
    <2> QED
        BY <1>1, <2>2
<1> QED
    BY <1>2, <1>3 DEF t

\* A test that is not on record may be recorded.
LEMMA RecordOnce ==
    ASSUME TypeOK, NEW i \in Tests, NEW next \in Phases, Record(i, next),
           Distinct(report), ~Recorded(i)
    PROVE  /\ Distinct(report')
           /\ \A j : Recorded(j)' => Recorded(j) \/ j = i
<1>0. report \in Seq(Tests)
    BY DEF TypeOK
<1>1. CASE report' = Append(report, i)
    <2>1. Distinct(report')
        BY <1>0, <1>1, AppendDistinct DEF Recorded
    <2>2. /\ Len(report) \in Nat
          /\ DOMAIN report = 1 .. Len(report)
          /\ DOMAIN report' = 1 .. Len(report) + 1
          /\ \A k \in 1 .. Len(report) : report'[k] = report[k]
          /\ report'[Len(report) + 1] = i
        BY <1>0, <1>1
    <2>3. \A k \in DOMAIN report' : k \in DOMAIN report \/ k = Len(report) + 1
        BY <2>2
    <2> QED
        BY <2>1, <2>2, <2>3 DEF Recorded
<1>2. CASE UNCHANGED report
    BY <1>2 DEF Recorded
<1> QED
    BY <1>1, <1>2 DEF Record

LEMMA OnceInit == Init => OnceInv
<1> SUFFICES ASSUME Init
             PROVE  OnceInv
    OBVIOUS
<1>1. report = <<>> /\ outcomes = <<>> /\ phase = "level"
    BY DEF Init
<1>2. DOMAIN report = {} /\ DOMAIN outcomes = {}
    BY <1>1
<1> QED
    BY <1>1, <1>2 DEF OnceInv, Distinct, Recorded

LEMMA OnceNext == RunInv /\ CleanInv /\ OnceInv /\ [Next]_vars => OnceInv'
<1> SUFFICES ASSUME RunInv, CleanInv, OnceInv, [Next]_vars
             PROVE  OnceInv'
    OBVIOUS
<1>0. /\ Main' = Main /\ Teardown' = Teardown
      /\ Main \subseteq Tests /\ Teardown \subseteq Tests
      /\ Main \cap Teardown = {}
      /\ TypeOK
    BY SuiteFixed, MainAreTests DEF RunInv
<1> USE DEF OnceInv
<1>1. ASSUME BeginLevel \/ BeginWave \/ EndWave \/ EndLevel \/ Interrupt
             \/ (\E i \in Tests : Keep(i)) \/ UNCHANGED vars
      PROVE  OnceInv'
    <2>1. /\ UNCHANGED <<outcomes, result, report, running>>
          /\ phase' = "returned" => phase = "returned"
          /\ phase' = "teardown" => phase = "teardown"
        BY <1>1 DEF BeginLevel, BeginWave, EndWave, EndLevel, Interrupt, Keep, vars
    <2>2. /\ \A j : Recorded(j)' <=> Recorded(j)
          /\ \A j : InOutcomes(j)' <=> InOutcomes(j)
        BY <2>1 DEF Recorded, InOutcomes
    <2>3. Distinct(report') /\ Distinct(outcomes')
        BY <2>1
    <2> QED
        BY <1>0, <2>1, <2>2, <2>3
<1>2. CASE EndLevels
    <2>1. /\ UNCHANGED <<outcomes, result, report, running>>
          /\ phase = "level" /\ phase' = "teardown"
        BY <1>2 DEF EndLevels
    <2>2. /\ \A j : Recorded(j)' <=> Recorded(j)
          /\ \A j : InOutcomes(j)' <=> InOutcomes(j)
        BY <2>1 DEF Recorded, InOutcomes
    <2>3. Distinct(report') /\ Distinct(outcomes')
        BY <2>1
    <2>4. \A t \in Teardown : result[t] = "none"
        BY <2>1 DEF CleanInv, MainPhase
    <2> QED
        BY <1>0, <2>1, <2>2, <2>3, <2>4
<1>3. CASE Return
    <2>1. /\ UNCHANGED <<outcomes, result, report, running>>
          /\ phase = "teardown" /\ phase' = "returned"
          /\ running = {} /\ outcomes = <<>>
          /\ \A t \in Teardown : result[t] # "none"
        BY <1>3 DEF Return
    <2>2. /\ \A j : Recorded(j)' <=> Recorded(j)
          /\ \A j : InOutcomes(j)' <=> InOutcomes(j)
          /\ \A j : ~InOutcomes(j)
        BY <2>1, EmptyOutcomes DEF Recorded, InOutcomes
    <2>3. Distinct(report') /\ Distinct(outcomes')
        BY <2>1
    <2>4. \A t \in Teardown : Recorded(t)
        BY <2>1, <2>2
    <2> QED
        BY <1>0, <2>1, <2>2, <2>3, <2>4
<1>4. CASE RecordOutcome \/ RecordTeardown
    <2>1. /\ outcomes # <<>> /\ outcomes' = Tail(outcomes)
          /\ UNCHANGED <<result, running>>
          /\ phase' # "returned"
          /\ phase' = "teardown" => phase = "teardown"
        BY <1>4 DEF RecordOutcome, RecordTeardown, Record
    <2>2. PICK h \in Tests :
             /\ h = Head(outcomes)
             /\ InOutcomes(h)
             /\ \A j : InOutcomes(j)' => InOutcomes(j)
             /\ \A j : InOutcomes(j) => j = h \/ InOutcomes(j)'
        BY <1>0, <2>1, TailOutcome DEF TypeOK
    <2>3. Distinct(outcomes') /\ ~InOutcomes(h)'
        <3>1. /\ Distinct(Tail(outcomes))
              /\ \A k \in DOMAIN Tail(outcomes) : Tail(outcomes)[k] # Head(outcomes)
            BY <1>0, <2>1, TailDistinct DEF TypeOK
        <3> QED
            BY <2>1, <2>2, <3>1 DEF InOutcomes
    <2>4. ~Recorded(h)
        BY <2>2
    <2>5. PICK next \in Phases : Record(h, next)
        BY <1>4, <2>2 DEF RecordOutcome, RecordTeardown, Phases
    <2>6. /\ Distinct(report')
          /\ \A j : Recorded(j)' => Recorded(j) \/ j = h
        BY <1>0, <2>4, <2>5, RecordOnce
    <2>7. /\ \A j : Recorded(j) => Recorded(j)'
          /\ phase' # "error" => Recorded(h)'
        BY <1>0, <2>5, RecordKeeps
    <2>8. result[h] \in {"passed", "failed"}
        BY <2>2 DEF RunInv, ResultInv
    <2>9. \A i \in Tests : Recorded(i)' =>
              result'[i] \in {"passed", "failed", "blocked"} /\ ~InOutcomes(i)'
        BY <2>1, <2>2, <2>3, <2>6, <2>8
    <2>10. phase' = "teardown" =>
              \A t \in Teardown :
                  result'[t] = "none" \/ t \in running' \/ InOutcomes(t)' \/ Recorded(t)'
        BY <2>1, <2>2, <2>7
    <2> QED
        BY <1>0, <2>1, <2>3, <2>6, <2>9, <2>10
<1>5. ASSUME NEW i \in Tests, Block(i)
      PROVE  OnceInv'
    <2>1. /\ phase = "split" /\ i \in toSplit
          /\ result' = [result EXCEPT ![i] = "blocked"]
          /\ UNCHANGED outcomes
          /\ phase' \in {"split", "error"}
        BY <1>5 DEF Block, Earliest, Record
    <2>2. result[i] = "none"
        BY <2>1 DEF RunInv, ResultInv
    <2>3. ~Recorded(i) /\ ~InOutcomes(i)
        BY <2>2 DEF RunInv, ResultInv
    <2>4. /\ Distinct(report')
          /\ \A j : Recorded(j)' => Recorded(j) \/ j = i
        BY <1>0, <1>5, <2>3, RecordOnce DEF Block, Phases
    <2>5. \A j : InOutcomes(j)' <=> InOutcomes(j)
        BY <2>1 DEF InOutcomes
    <2>6. result'[i] = "blocked" /\ \A j \in Tests : j # i => result'[j] = result[j]
        BY <1>0, <2>1 DEF TypeOK
    <2>7. Distinct(outcomes')
        BY <2>1
    <2> QED
        BY <2>1, <2>3, <2>4, <2>5, <2>6, <2>7
<1>6. ASSUME NEW i \in Tests, Launch(i)
      PROVE  OnceInv'
    <2>1. /\ phase = "wave" /\ phase' = "wave" /\ i \in toRun
          /\ result' = [result EXCEPT ![i] = "running"]
          /\ UNCHANGED <<outcomes, report>>
        BY <1>6 DEF Launch, Earliest
    <2>2. ~Recorded(i)
        BY <2>1 DEF RunInv, ResultInv
    <2>3. /\ \A j : Recorded(j)' <=> Recorded(j)
          /\ \A j : InOutcomes(j)' <=> InOutcomes(j)
        BY <2>1 DEF Recorded, InOutcomes
    <2>4. \A j \in Tests : j # i => result'[j] = result[j]
        BY <1>0, <2>1 DEF TypeOK
    <2>5. Distinct(report') /\ Distinct(outcomes')
        BY <2>1
    <2> QED
        BY <2>1, <2>2, <2>3, <2>4, <2>5
<1>7. ASSUME NEW i \in Tests, Finish(i)
      PROVE  OnceInv'
    <2>1. /\ i \in running /\ running' = running \ {i}
          /\ outcomes' = Append(outcomes, i)
          /\ UNCHANGED <<phase, report>>
        BY <1>7 DEF Finish
    <2>2. ~Recorded(i) /\ ~InOutcomes(i) /\ phase # "returned"
        BY <2>1 DEF RunInv, ResultInv, PhaseInv
    <2>3. /\ \A j : Recorded(j)' <=> Recorded(j)
          /\ \A j : InOutcomes(j)' <=> InOutcomes(j) \/ j = i
        BY <1>0, <2>1, AppendOutcome DEF Recorded, TypeOK
    <2>4. \A j \in Tests : j # i => result'[j] = result[j]
        BY <1>0, <1>7 DEF Finish, TypeOK
    <2>5. Distinct(report') /\ Distinct(outcomes')
        <3>1. \A k \in DOMAIN outcomes : outcomes[k] # i
            BY <2>2 DEF InOutcomes
        <3>2. Distinct(Append(outcomes, i))
            BY <1>0, <3>1, AppendDistinct DEF TypeOK
        <3> QED
            BY <2>1, <3>2
    <2>6. phase' = "teardown" =>
              \A t \in Teardown :
                  result'[t] = "none" \/ t \in running' \/ InOutcomes(t)' \/ Recorded(t)'
        BY <1>0, <2>1, <2>3, <2>4
    <2>7. \A j \in Tests : Recorded(j)' =>
              result'[j] \in {"passed", "failed", "blocked"} /\ ~InOutcomes(j)'
        BY <2>2, <2>3, <2>4
    <2> QED
        BY <1>0, <2>1, <2>2, <2>5, <2>6, <2>7
<1>8. ASSUME NEW i \in Tests, LaunchTeardown(i)
      PROVE  OnceInv'
    <2>1. /\ phase = "teardown" /\ phase' = "teardown" /\ i \in Teardown
          /\ result[i] = "none" /\ running = {} /\ running' = {i}
          /\ result' = [result EXCEPT ![i] = "running"]
          /\ UNCHANGED <<outcomes, report>>
        BY <1>8 DEF LaunchTeardown, Earliest
    <2>2. ~Recorded(i)
        BY <1>0, <2>1
    <2>3. /\ \A j : Recorded(j)' <=> Recorded(j)
          /\ \A j : InOutcomes(j)' <=> InOutcomes(j)
        BY <2>1 DEF Recorded, InOutcomes
    <2>4. \A j \in Tests : j # i => result'[j] = result[j]
        BY <1>0, <2>1 DEF TypeOK
    <2>5. Distinct(report') /\ Distinct(outcomes')
        BY <2>1
    <2>6. \A t \in Teardown :
              result'[t] = "none" \/ t \in running' \/ InOutcomes(t)' \/ Recorded(t)'
        BY <1>0, <2>1, <2>3, <2>4
    <2> QED
        BY <1>0, <2>1, <2>2, <2>3, <2>4, <2>5, <2>6
<1> QED
    BY <1>1, <1>2, <1>3, <1>4, <1>5, <1>6, <1>7, <1>8 DEF Next

\* run.rs and waves.rs together: a run that was not cut short has skipped just
\* the tests downstream of a failure, cycles apart, and its report has every
\* test once, for suites of any size and whatever the order of the outcomes.
THEOREM ConeIsSkipped == Spec => []FailureConeIsSkipped
<1>1. RunInv /\ CleanInv /\ OnceInv => FailureConeIsSkipped
    <2> SUFFICES ASSUME RunInv, CleanInv, OnceInv, phase = "returned", ~interrupted
                 PROVE  /\ \A i \in Tests : \E k \in DOMAIN report :
                              report[k] = i /\ \A l \in DOMAIN report : report[l] = i => l = k
                        /\ \A i \in Main \ leftover :
                              result[i] = "blocked" <=>
                                  \E p \in Deps[i] : result[p] \in {"failed", "blocked"}
        BY DEF FailureConeIsSkipped
    <2>1. MainDone /\ \A t \in Teardown : Recorded(t)
        BY DEF CleanInv, OnceInv
    <2>2. Tests = Main \cup Teardown /\ Main \subseteq Tests
        BY SuiteRunAssumption DEF RunInv, TypeOK, Tests, Main, MainOf, Teardown, TeardownOf
    <2>3. \A i \in Tests : Recorded(i)
        BY <2>1, <2>2 DEF MainDone
    <2>4. ASSUME NEW i \in Tests
          PROVE  \E k \in DOMAIN report :
                    report[k] = i /\ \A l \in DOMAIN report : report[l] = i => l = k
        BY <2>3 DEF Recorded, OnceInv, Distinct
    <2>5. ASSUME NEW i \in Main \ leftover
          PROVE  result[i] = "blocked" <=>
                    \E p \in Deps[i] : result[p] \in {"failed", "blocked"}
        <3>1. result[i] \in {"passed", "failed", "blocked"}
            BY <2>1, <2>2 DEF MainDone, RunInv, TypeOK, Results
        <3>2. i \in emitted \ leftover
            BY <3>1 DEF RunInv, ResultInv
        <3>3. result[i] # "blocked" => \A p \in Deps[i] : result[p] = "passed"
            BY <3>1, <3>2 DEF RunInv, LevelInv, Executed
        <3>4. result[i] = "blocked" => \E p \in Deps[i] : result[p] \in {"failed", "blocked"}
            BY DEF RunInv, BlockedHasCause
        <3> QED
            BY <3>3, <3>4
    <2> QED
        BY <2>4, <2>5
<1>2. Spec => []CleanInv
    BY CleanInit, CleanNext, RunInvHolds, PTL DEF Spec
<1>3. Spec => []OnceInv
    BY <1>2, OnceInit, OnceNext, RunInvHolds, PTL DEF Spec
<1> QED
    BY <1>1, <1>2, <1>3, RunInvHolds, PTL

=============================================================================
