----------------------------- MODULE ExecuteFlow -----------------------------
(***************************************************************************)
(* One execute from its dispatch on: the orchestrator (tools/execute.rs    *)
(* run), its REST client (backend.rs) and the local backend                *)
(* (server/api.rs, server/store.rs).                                       *)
(*                                                                         *)
(* The backend inserts a RUNNING entity for each test of the plan, spawns  *)
(* a worker that executes them one after the other, and answers with their *)
(* ids. The client polls each id until it is no longer RUNNING, round      *)
(* after round. A request may fail at any time; the store is in memory, so *)
(* a restart of the backend loses it, and the worker with it.              *)
(***************************************************************************)
EXTENDS Integers

CONSTANTS
    N,              \* the number of tests in the plan
    MaxFaults,      \* bound on failed requests
    MaxRestarts,    \* bound on restarts of the backend
    Hangs           \* TRUE where an executor may hang, or panic

ASSUME FlowAssumption ==
    /\ N \in Nat \ {0}
    /\ MaxFaults \in Nat
    /\ MaxRestarts \in Nat
    /\ Hangs \in BOOLEAN

VARIABLES
    pc,         \* where run stands
    tunnel,     \* "up" until run has called tunnel.stop()
    next,       \* the test of this polling round whose turn it is
    answer,     \* the testStatus on its way to the client, if any
    slot,       \* results[i]: the last testStatus seen, if any
    done,       \* done
    handler,    \* where the backend's run handler stands
    store,      \* the testStatus of each entity of the backend's store
    worker,     \* the test spawn_execution's task is at, if any
    verdict,    \* what the executor has said of each test, if anything
    faults,     \* failed requests so far
    restarts    \* restarts so far

flowVars == <<pc, tunnel, next, answer, slot, done, handler, store, worker,
          verdict, faults, restarts>>

server  == <<handler, store, worker, verdict, restarts>>
polling == <<next, answer, slot, done>>

Tests == 1 .. N

Verdicts == {"PASSED", "FAILED"}

\* get_test answers {"error": ..} with 200 for an id it does not know, which
\* the client reads as an entity without a testStatus.
Statuses == {"absent", "RUNNING"} \cup Verdicts

FlowTypeOK ==
    /\ pc \in {"dispatch", "waiting", "polling", "writing", "returned", "failed",
               "unwritten"}
    /\ tunnel \in {"up", "stopped"}
    /\ next \in 1 .. N + 1
    /\ answer \in SUBSET Statuses
    /\ slot \in [Tests -> SUBSET Statuses]
    /\ done \in [Tests -> BOOLEAN]
    /\ handler \in {"idle", "inserting", "answering", "gone"}
    /\ store \in [Tests -> Statuses]
    /\ worker \in [at : SUBSET (1 .. N + 1), stuck : BOOLEAN]
    /\ verdict \in [Tests -> SUBSET Verdicts]
    /\ faults \in 0 .. MaxFaults
    /\ restarts \in 0 .. MaxRestarts

NoWorker == [at |-> {}, stuck |-> FALSE]

FlowInit ==
    /\ pc = "dispatch"
    /\ tunnel = "up"
    /\ next = 1
    /\ answer = {}
    /\ slot = [i \in Tests |-> {}]
    /\ done = [i \in Tests |-> FALSE]
    /\ handler = "idle"
    /\ store = [i \in Tests |-> "absent"]
    /\ worker = NoWorker
    /\ verdict = [i \in Tests |-> {}]
    /\ faults = 0
    /\ restarts = 0

-----------------------------------------------------------------------------
(* The client *)

Fault == faults < MaxFaults /\ faults' = faults + 1

\* POST /mcp/{backend,frontend}-test/run reaches the backend.
Dispatch ==
    /\ pc = "dispatch"
    /\ pc' = "waiting"
    /\ handler' = "inserting"
    /\ UNCHANGED <<tunnel, polling, store, worker, verdict, faults, restarts>>

Dispatched ==
    /\ pc = "waiting"
    /\ handler = "answering"
    /\ pc' = "polling"
    /\ handler' = "gone"
    /\ UNCHANGED <<tunnel, polling, store, worker, verdict, faults, restarts>>

\* No answer, because of the network or because the backend has gone down:
\* stop the tunnel and return the error. What the backend does goes on.
DispatchFails ==
    /\ \/ pc \in {"dispatch", "waiting"} /\ Fault
       \/ pc = "waiting" /\ handler = "gone" /\ UNCHANGED faults
    /\ pc' = "failed"
    /\ tunnel' = "stopped"
    /\ UNCHANGED <<polling, server>>

\* get_test reads the store, in the middle of poll_one.
Get ==
    /\ pc = "polling"
    /\ next \in Tests
    /\ ~done[next]
    /\ answer = {}
    /\ answer' = {store[next]}
    /\ UNCHANGED <<pc, tunnel, next, slot, done, server, faults>>

\* Mutant of Take: an entity that could be fetched counts as finished.
TakeAny ==
    /\ next \in Tests
    /\ answer # {}
    /\ slot' = [slot EXCEPT ![next] = answer]
    /\ done' = [done EXCEPT ![next] = TRUE]
    /\ next' = next + 1
    /\ answer' = {}
    /\ UNCHANGED <<pc, tunnel, server, faults>>

\* poll_one has the entity: finished unless it is RUNNING.
Take ==
    /\ next \in Tests
    /\ answer # {}
    /\ slot' = [slot EXCEPT ![next] = answer]
    /\ done' = [done EXCEPT ![next] = answer # {"RUNNING"}]
    /\ next' = next + 1
    /\ answer' = {}
    /\ UNCHANGED <<pc, tunnel, server, faults>>

\* Mutant of GetFails: the answer to a request that was given up is taken for
\* the answer to the next one.
GetFailsLate ==
    /\ pc = "polling"
    /\ next \in Tests
    /\ ~done[next]
    /\ Fault
    /\ next' = next + 1
    /\ answer' = IF next < N /\ ~done[next + 1] THEN answer ELSE {}
    /\ UNCHANGED <<pc, tunnel, slot, done, server>>

\* "transient error fetching": on to the next test, whatever it was.
GetFails ==
    /\ pc = "polling"
    /\ next \in Tests
    /\ ~done[next]
    /\ Fault
    /\ next' = next + 1
    /\ answer' = {}
    /\ UNCHANGED <<pc, tunnel, slot, done, server>>

SkipDone ==
    /\ pc = "polling"
    /\ next \in Tests
    /\ done[next]
    /\ next' = next + 1
    /\ UNCHANGED <<pc, tunnel, answer, slot, done, server, faults>>

\* Mutant of EndRound: the last round is not waited for.
EndRoundAtLast ==
    /\ pc = "polling"
    /\ next = N + 1
    /\ \/ done[N] /\ pc' = "writing" /\ UNCHANGED next
       \/ ~done[N] /\ next' = 1 /\ UNCHANGED pc
    /\ UNCHANGED <<tunnel, answer, slot, done, server, faults>>

\* All done, or sleep three seconds and begin again.
EndRound ==
    /\ pc = "polling"
    /\ next = N + 1
    /\ \/ (\A i \in Tests : done[i]) /\ pc' = "writing" /\ UNCHANGED next
       \/ (\E i \in Tests : ~done[i]) /\ next' = 1 /\ UNCHANGED pc
    /\ UNCHANGED <<tunnel, answer, slot, done, server, faults>>

\* write_outputs(..)? and tunnel.stop(), in this order.
Write ==
    /\ pc = "writing"
    /\ \/ pc' = "returned" /\ tunnel' = "stopped" /\ UNCHANGED faults
       \/ pc' = "unwritten" /\ Fault /\ UNCHANGED tunnel
    /\ UNCHANGED <<polling, server>>

-----------------------------------------------------------------------------
(* The backend *)

\* The handler's loop over the plan.
Insert(i) ==
    /\ handler = "inserting"
    /\ store[i] = "absent"
    /\ \A j \in Tests : j < i => store[j] # "absent"
    /\ store' = [store EXCEPT ![i] = "RUNNING"]
    /\ UNCHANGED <<pc, tunnel, polling, handler, worker, verdict, faults, restarts>>

\* spawn_execution, then the answer.
SpawnExecution ==
    /\ handler = "inserting"
    /\ \A i \in Tests : store[i] # "absent"
    /\ handler' = "answering"
    /\ worker' = [at |-> {1}, stuck |-> FALSE]
    /\ UNCHANGED <<pc, tunnel, polling, store, verdict, faults, restarts>>

\* A handler whose client has gone away may be dropped where it waits.
HandlerDropped ==
    /\ pc = "failed"
    /\ handler = "inserting"
    /\ handler' = "gone"
    /\ UNCHANGED <<pc, tunnel, polling, store, worker, verdict, faults, restarts>>

\* Mutant of CaseDone: a failed test ends the worker's loop.
CaseDoneThenStop(i, v) ==
    /\ worker = [at |-> {i}, stuck |-> FALSE]
    /\ verdict' = [verdict EXCEPT ![i] = {v}]
    /\ store' = [store EXCEPT ![i] = v]
    /\ worker' = [worker EXCEPT !.at = IF v = "FAILED" THEN {N + 1} ELSE {i + 1}]
    /\ UNCHANGED <<pc, tunnel, polling, handler, faults, restarts>>

\* The executor returns; set_status; on to the next case.
CaseDone(i, v) ==
    /\ worker = [at |-> {i}, stuck |-> FALSE]
    /\ verdict' = [verdict EXCEPT ![i] = {v}]
    /\ store' = [store EXCEPT ![i] = v]
    /\ worker' = [worker EXCEPT !.at = {i + 1}]
    /\ UNCHANGED <<pc, tunnel, polling, handler, faults, restarts>>

\* The executor never returns (the process of a test has no time limit here),
\* or panics: either way the worker's loop is over.
CaseHangs(i) ==
    /\ Hangs
    /\ worker = [at |-> {i}, stuck |-> FALSE]
    /\ worker' = [worker EXCEPT !.stuck = TRUE]
    /\ UNCHANGED <<pc, tunnel, polling, handler, store, verdict, faults, restarts>>

\* The backend ends and is started again.
Restart ==
    /\ restarts < MaxRestarts
    /\ restarts' = restarts + 1
    /\ store' = [i \in Tests |-> "absent"]
    /\ worker' = NoWorker
    /\ handler' = IF handler = "idle" THEN "idle" ELSE "gone"
    /\ UNCHANGED <<pc, tunnel, polling, verdict, faults>>

ClientStep ==
    \/ Dispatch \/ Dispatched \/ DispatchFails
    \/ Get \/ Take \/ GetFails \/ SkipDone \/ EndRound \/ Write

WorkerStep == \E i \in Tests : CaseHangs(i) \/ \E v \in Verdicts : CaseDone(i, v)

HandlerStep == SpawnExecution \/ \E i \in Tests : Insert(i)

FlowNext == ClientStep \/ HandlerStep \/ HandlerDropped \/ WorkerStep \/ Restart

FlowSpec == FlowInit /\ [][FlowNext]_flowVars

\* The client carries on, each task of the backend is scheduled, and a test
\* that does not hang comes to its end.
FairSpec ==
    /\ FlowSpec
    /\ WF_flowVars(ClientStep)
    /\ WF_flowVars(HandlerStep)
    /\ WF_flowVars(WorkerStep)

-----------------------------------------------------------------------------
(* Properties *)

\* "Returns the finished test entities": when the polling is over, every
\* result is a verdict, as long as the backend has not been restarted. After a
\* restart the ids are unknown to it, and an unknown test counts as finished.
ResultsAreVerdicts ==
    pc \in {"writing", "returned", "unwritten"} /\ restarts = 0 =>
        \A i \in Tests : \E v \in Verdicts : slot[i] = {v}

\* A verdict the client holds is the one the executor gave of that very test,
\* whatever is lost, late or restarted in between.
VerdictsAreGenuine ==
    \A i \in Tests : \A v \in Verdicts : v \in slot[i] => verdict[i] = {v}

\* The polling is not over, and the lock not given back, while the backend is
\* still executing tests of this run.
PollingOutlastsWorker ==
    pc \in {"writing", "returned", "unwritten"} => worker.at \subseteq {N + 1}

\* Whatever requests are lost and however often the backend restarts, run
\* comes to an end, and unless its outputs cannot be written it has stopped
\* the tunnel. The one thing that keeps it for ever is a test that hangs:
\* nothing limits its time, and "RUNNING -> PASSED/FAILED" never happens to it
\* and to those after it.
FlowEnds ==
    \/ <>(\/ pc \in {"returned", "failed"} /\ tunnel = "stopped"
          \/ pc = "unwritten")
    \/ <>[]worker.stuck

=============================================================================
