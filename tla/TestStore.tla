----------------------------- MODULE TestStore ------------------------------
(***************************************************************************)
(* The SQLite store of tests, results and revisions (src/src/local/store.rs)*)
(* under the callers that share it: the command line, the MCP server, the   *)
(* acceptance gate (accept.rs), whole-suite runs (run.rs) and rerun --heal  *)
(* (rerun.rs).  No caller but run_collect takes the run lock and nothing is *)
(* in a transaction, so each SQL statement is a step of its own.  A         *)
(* definition is abstracted to who wrote it last, how strict its pass       *)
(* criterion is, and its quarantine marker.                                 *)
(***************************************************************************)
EXTENDS Integers, Sequences, FiniteSets

CONSTANTS
  Ids,           \* test ids
  NCalls,        \* calls of the store's clients
  MaxOracle,     \* strictness of a pass criterion: 0 .. MaxOracle
  Keep,          \* TESTSPRITE_RUN_HISTORY_KEEP: results kept for a test, 0 = all
  MaxFaults      \* bound on killed callers and failed statements

ASSUME StoreAssumption ==
  /\ Ids # {}
  /\ NCalls \in Nat /\ MaxOracle \in Nat /\ Keep \in Nat /\ MaxFaults \in Nat

Calls == 1 .. NCalls      \* numbered in the order in which they begin

VARIABLES
  tests,         \* body of each row of `tests`
  runs,          \* rows of `runs` by test, oldest first: the call that inserted each
  revisions,     \* rows of `test_revisions` by test
  call,          \* what each call is doing
  faults,
  late,          \* history: calls that were at work on a test while a delete removed rows of it
  cleared,       \* history: calls whose write took a quarantine marker away
  cut            \* history: calls that ended between two statements, with the next one

vars == <<tests, runs, revisions, call, faults, late, cleared, cut>>
tables == <<tests, runs, revisions>>
history == <<late, cleared, cut>>

\* `ver` is the call that wrote the definition's contents, 0 for the initial one.
Defs == [ver : 0 .. NCalls, oracle : 0 .. MaxOracle, quarantine : BOOLEAN]
NoTest == [ver |-> -1, oracle |-> 0, quarantine |-> FALSE]

Edits == {"steps", "rename", "release"}
Executions == {"screen", "faultcheck", "run", "rerun"}
Ops == {"put", "delete", "prune"} \cup Edits \cup Executions
Steps == {"idle", "execute", "insert", "prune", "reload", "snapshot", "keep",
          "write", "runs", "revs", "done"}

CallState == [op : Ops \cup {"none"}, id : Ids, at : Steps,
              suspect : BOOLEAN,             \* the gate found the case failing
              got : Defs \cup {NoTest},      \* what load_one or list returned
              new : Defs \cup {NoTest},      \* what is to be written
              snap : Defs \cup {NoTest}]     \* what snapshot_revision selected

TypeOK ==
  /\ tests \in [Ids -> Defs \cup {NoTest}]
  /\ runs \in [Ids -> Seq(Calls)]
  /\ revisions \in [Ids -> SUBSET Defs]
  /\ call \in [Calls -> CallState]
  /\ faults \in 0 .. MaxFaults
  /\ late \subseteq Calls /\ cleared \subseteq Calls
  /\ cut \subseteq Calls \X Steps

Init ==
  /\ tests \in [Ids -> {NoTest} \cup [ver : {0}, oracle : 0 .. MaxOracle, quarantine : {FALSE}]]
  /\ runs = [t \in Ids |-> <<>>]
  /\ revisions = [t \in Ids |-> {}]
  /\ call = [c \in Calls |-> [op |-> "none", id |-> CHOOSE t \in Ids : TRUE, at |-> "idle",
               suspect |-> FALSE, got |-> NoTest, new |-> NoTest, snap |-> NoTest]]
  /\ faults = 0
  /\ late = {} /\ cleared = {} /\ cut = {}

At(c, step) == call[c].at = step
Row(c) == tests[call[c].id]
Goto(c, step) == call' = [call EXCEPT ![c].at = step]
\* The call goes on without what it had read.
Forget(c, step) == call' = [call EXCEPT ![c] = [@ EXCEPT !.at = step, !.got = NoTest,
                                                         !.new = NoTest, !.snap = NoTest]]

-----------------------------------------------------------------------------
(* Reading a definition and deciding what to write *)

\* Call c does its first statement, on test t.
Begins(c) == At(c, "idle") /\ \A d \in Calls : d < c => ~At(d, "idle")

\* add_value and import_values come with the whole definition: one upsert.
Put(c, t, oracle, q) ==
  /\ Begins(c)
  /\ call' = [call EXCEPT ![c] = [@ EXCEPT !.op = "put", !.id = t, !.at = "done"]]
  /\ tests' = [tests EXCEPT ![t] = [ver |-> c, oracle |-> oracle, quarantine |-> q]]
  /\ cleared' = IF tests[t].quarantine /\ ~q THEN cleared \cup {c} ELSE cleared
  /\ UNCHANGED <<runs, revisions, faults, late, cut>>

\* What put_plan_steps, set_quarantine(None) and rename write back of what they read.
Edited(c, op, def, oracle) ==
  IF op = "steps" THEN [def EXCEPT !.ver = c, !.oracle = oracle]
  ELSE IF op = "release" THEN [def EXCEPT !.quarantine = FALSE] ELSE def

\* SELECT body: load_one of an edit bails without a row, and so do the ids of a
\* run; a whole-suite run or rerun lists what is there.
LoadToEdit(c, op, t, oracle) ==
  /\ Begins(c)
  /\ call' = [call EXCEPT ![c] =
       IF tests[t] = NoTest THEN [@ EXCEPT !.op = op, !.id = t, !.at = "done"]
       ELSE [@ EXCEPT !.op = op, !.id = t, !.at = "write", !.got = tests[t],
                      !.new = Edited(c, op, tests[t], oracle)]]
  /\ UNCHANGED <<tables, faults, history>>
LoadToExecute(c, op, t) ==
  /\ Begins(c)
  /\ call' = [call EXCEPT ![c] =
       IF tests[t] = NoTest THEN [@ EXCEPT !.op = op, !.id = t, !.at = "done"]
       ELSE [@ EXCEPT !.op = op, !.id = t, !.at = "execute", !.got = tests[t]]]
  /\ UNCHANGED <<tables, faults, history>>

-----------------------------------------------------------------------------
(* Executing the test *)

\* run_collect records every verdict, and so does screen; fault_check passes over a
\* case that it could not judge on both revisions.
Execute(c) ==
  /\ At(c, "execute") /\ call[c].op \in {"run", "screen", "faultcheck", "rerun"}
  /\ Forget(c, "insert")
  /\ UNCHANGED <<tables, faults, history>>
Unjudged(c) ==
  /\ At(c, "execute") /\ call[c].op = "faultcheck"
  /\ Forget(c, "done")
  /\ UNCHANGED <<tables, faults, history>>
\* screen: the case fails on the baseline; fault_check: it does not tell the
\* revisions apart.
Suspect(c) ==
  /\ At(c, "execute") /\ call[c].op \in {"screen", "faultcheck"}
  /\ call' = [call EXCEPT ![c] = [@ EXCEPT !.suspect = TRUE, !.at = "insert", !.got = NoTest]]
  /\ UNCHANGED <<tables, faults, history>>

\* The rewrite proves less than the definition the rerun loaded.
Weakened(before, after) == after.oracle < before.oracle

\* Mutant of Heal: stored without a snapshot.
HealInPlace(c, oracle, q) ==
  LET healed == [ver |-> c, oracle |-> oracle, quarantine |-> q]
  IN /\ At(c, "execute") /\ call[c].op = "rerun" /\ ~Weakened(call[c].got, healed)
     /\ call' = [call EXCEPT ![c].new = healed, ![c].at = "write"]
     /\ UNCHANGED <<tables, faults, history>>
\* A failure called fragility, and the model's rewrite of the case as it was loaded:
\* whatever it returns replaces the whole definition, the marker included, if it is
\* not weaker and passes its retry.  (Otherwise, or when the test passes or the model
\* gives no answer, rerun only records the result: Execute.)
Heal(c, oracle, q) ==
  LET healed == [ver |-> c, oracle |-> oracle, quarantine |-> q]
  IN /\ At(c, "execute") /\ call[c].op = "rerun" /\ ~Weakened(call[c].got, healed)
     /\ call' = [call EXCEPT ![c].new = healed, ![c].at = "snapshot"]
     /\ UNCHANGED <<tables, faults, history>>

-----------------------------------------------------------------------------
(* snapshot_revision, the upsert, and the UPDATE of rename *)

Snapshot(c) ==
  /\ At(c, "snapshot")
  /\ call' = [call EXCEPT ![c].snap = Row(c), ![c].at = IF Row(c) = NoTest THEN "write" ELSE "keep"]
  /\ UNCHANGED <<tables, faults, history>>
KeepRevision(c) ==
  /\ At(c, "keep")
  /\ revisions' = [revisions EXCEPT ![call[c].id] = @ \cup {call[c].snap}]
  /\ Goto(c, "write")
  /\ UNCHANGED <<tests, runs, faults, history>>

\* INSERT ... ON CONFLICT DO UPDATE writes the row whether or not it is (still)
\* there; rename's UPDATE touches no row that is gone.
Write(c) ==
  LET lands == call[c].op # "rename" \/ Row(c) # NoTest
  IN /\ At(c, "write")
     /\ tests' = IF lands THEN [tests EXCEPT ![call[c].id] = call[c].new] ELSE tests
     /\ cleared' = IF lands /\ Row(c).quarantine /\ ~call[c].new.quarantine
                   THEN cleared \cup {c} ELSE cleared
     /\ Forget(c, IF call[c].op = "rerun" THEN "insert" ELSE "done")
     /\ UNCHANGED <<runs, revisions, faults, late, cut>>

-----------------------------------------------------------------------------
(* write_result: the insert, then the automatic prune *)

Insert(c) ==
  /\ At(c, "insert")
  /\ runs' = [runs EXCEPT ![call[c].id] = Append(@, c)]
  /\ Goto(c, "prune")
  /\ UNCHANGED <<tests, revisions, faults, history>>

Pruned(rows) ==
  IF Keep = 0 \/ Len(rows) <= Keep THEN rows ELSE SubSeq(rows, Len(rows) - Keep + 1, Len(rows))

\* Mutant of Prune: the suspect is recorded but not marked.
PruneAndReturn(c) ==
  /\ At(c, "prune")
  /\ runs' = [runs EXCEPT ![call[c].id] = Pruned(@)]
  /\ Goto(c, "done")
  /\ UNCHANGED <<tests, revisions, faults, history>>
Prune(c) ==
  /\ At(c, "prune")
  /\ runs' = [runs EXCEPT ![call[c].id] = Pruned(@)]
  /\ Goto(c, IF call[c].suspect THEN "reload" ELSE "done")
  /\ UNCHANGED <<tests, revisions, faults, history>>

\* set_quarantine(Some(..)) reads the definition again.
Reload(c) ==
  /\ At(c, "reload")
  /\ call' = [call EXCEPT ![c] = IF Row(c) = NoTest THEN [@ EXCEPT !.at = "done"]
       ELSE [@ EXCEPT !.got = Row(c), !.new = [Row(c) EXCEPT !.quarantine = TRUE], !.at = "write"]]
  /\ UNCHANGED <<tables, faults, history>>

\* prune_runs and prune_all.
PruneAll(c) ==
  /\ Begins(c)
  /\ runs' = [t \in Ids |-> Pruned(runs[t])]
  /\ call' = [call EXCEPT ![c].op = "prune", ![c].at = "done"]
  /\ UNCHANGED <<tests, revisions, faults, history>>

-----------------------------------------------------------------------------
(* delete: three statements *)

\* The calls at work on test t.
AtWorkOn(t) == {d \in Calls : call[d].id = t /\ call[d].at \notin {"idle", "done"}}

\* Mutant of DeleteRow: the row alone.
DeleteRowOnly(c, t) ==
  /\ Begins(c)
  /\ tests' = [tests EXCEPT ![t] = NoTest]
  /\ late' = late \cup AtWorkOn(t)
  /\ call' = [call EXCEPT ![c] = [@ EXCEPT !.op = "delete", !.id = t, !.at = "done"]]
  /\ UNCHANGED <<runs, revisions, faults, cleared, cut>>
DeleteRow(c, t) ==
  /\ Begins(c)
  /\ tests' = [tests EXCEPT ![t] = NoTest]
  /\ late' = late \cup AtWorkOn(t)
  /\ call' = [call EXCEPT ![c] = [@ EXCEPT !.op = "delete", !.id = t,
                !.at = IF tests[t] = NoTest THEN "done" ELSE "runs"]]
  /\ UNCHANGED <<runs, revisions, faults, cleared, cut>>
DeleteRuns(c) ==
  /\ At(c, "runs")
  /\ runs' = [runs EXCEPT ![call[c].id] = <<>>]
  /\ Goto(c, "revs")
  /\ UNCHANGED <<tests, revisions, faults, history>>
DeleteRevisions(c) ==
  /\ At(c, "revs")
  /\ revisions' = [revisions EXCEPT ![call[c].id] = {}]
  /\ late' = late \cup (AtWorkOn(call[c].id) \ {c})
  /\ Goto(c, "done")
  /\ UNCHANGED <<tests, runs, faults, cleared, cut>>

-----------------------------------------------------------------------------

\* The process is killed, or a statement fails (the database is locked, the disk is
\* full) and `?` leaves the call; only rerun goes on, to its result, when persist_heal
\* fails.
Fail(c) ==
  /\ faults < MaxFaults /\ call[c].at \notin {"idle", "done"}
  /\ faults' = faults + 1
  /\ cut' = cut \cup {<<c, call[c].at>>}
  /\ \/ Forget(c, "done")
     \/ call[c].op = "rerun" /\ call[c].at \in {"snapshot", "keep", "write"} /\ Forget(c, "insert")
  /\ UNCHANGED <<tables, late, cleared>>

Start(c) ==
  \/ \E t \in Ids :
       \/ \E oracle \in 0 .. MaxOracle, q \in BOOLEAN : Put(c, t, oracle, q)
       \/ \E op \in Edits, oracle \in 0 .. MaxOracle : LoadToEdit(c, op, t, oracle)
       \/ \E op \in Executions : LoadToExecute(c, op, t)
       \/ DeleteRow(c, t)
  \/ PruneAll(c)

Step(c) ==
  \/ Execute(c) \/ Unjudged(c) \/ Suspect(c)
  \/ \E oracle \in 0 .. MaxOracle, q \in BOOLEAN : Heal(c, oracle, q)
  \/ Snapshot(c) \/ KeepRevision(c) \/ Write(c)
  \/ Insert(c) \/ Prune(c) \/ Reload(c)
  \/ DeleteRuns(c) \/ DeleteRevisions(c)

Next == \E c \in Calls : Start(c) \/ Step(c) \/ Fail(c)

Spec == Init /\ [][Next]_vars
-----------------------------------------------------------------------------
(* Properties *)

\* Rows of a test that is not stored come only from a delete that has not reached
\* them (or was killed before), or from a caller that was at work on the test when
\* its row was deleted.
OrphansAreExcused ==
  \A t \in Ids : tests[t] = NoTest /\ (runs[t] # <<>> \/ revisions[t] # {}) =>
    \E c \in Calls :
      /\ call[c].id = t
      /\ c \in late \/ At(c, "runs") \/ At(c, "revs") \/ <<c, "runs">> \in cut \/ <<c, "revs">> \in cut

\* A case that the acceptance gate has screened and found failing is out of the
\* whole-suite runs: it carries the marker, unless some caller's write took the
\* marker away, the row was deleted meanwhile, or the gate itself was cut short.
SuspectsStayOut ==
  \A c \in Calls : At(c, "done") /\ call[c].suspect =>
    LET t == call[c].id
    IN \/ tests[t].quarantine \/ c \in late
       \/ \E s \in Steps : <<c, s>> \in cut
       \/ \E d \in Calls : call[d].id = t /\ (d \in cleared \/ call[d].op = "delete")

\* The step in which rerun stores its rewrite over a definition that is there.
Replaces(c) == At(c, "write") /\ call[c].op = "rerun" /\ Row(c) # NoTest
                 /\ tests'[call[c].id] = call[c].new /\ cut' = cut /\ At(c, "insert")'

\* "so the original is always recoverable" (rerun.rs:176): what a heal overwrites is
\* among the revisions, unless it was written after the snapshot or the test was
\* deleted under the rerun.
HealKeepsOriginal ==
  [][\A c \in Calls :
       LET known == IF call[c].snap = NoTest THEN call[c].got ELSE call[c].snap
       IN Replaces(c) /\ Row(c) = known /\ c \notin late => Row(c) \in revisions[call[c].id]]_vars
=============================================================================
