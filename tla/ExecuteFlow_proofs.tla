-------------------------- MODULE ExecuteFlow_proofs --------------------------
(***************************************************************************)
(* What TLAPS establishes about an execute and about the tunnel it opens:  *)
(* for plans of any length and any number of lost requests, restarts and   *)
(* hanging tests; for any tunnel ids, tasks and CloseTunnel messages.      *)
(***************************************************************************)
EXTENDS ExecuteFlow, TunnelClient, FiniteSetTheorems, TLAPS

-----------------------------------------------------------------------------
(* Orchestrator and backend (ExecuteFlow) *)

LEMMA FlowInitTypeOK == FlowInit => FlowTypeOK
BY FlowAssumption DEF FlowInit, FlowTypeOK, Tests, Statuses, NoWorker

LEMMA FlowNextTypeOK == FlowTypeOK /\ [FlowNext]_flowVars => FlowTypeOK'
<1> SUFFICES ASSUME FlowTypeOK, [FlowNext]_flowVars
             PROVE  FlowTypeOK'
    OBVIOUS
<1> USE FlowAssumption DEF FlowTypeOK, Tests, server, polling
<1>1. CASE Dispatch
    BY <1>1 DEF Dispatch
<1>2. CASE Dispatched
    BY <1>2 DEF Dispatched
<1>3. CASE DispatchFails
    BY <1>3 DEF DispatchFails, Fault
<1>4. CASE Get
    BY <1>4 DEF Get
<1>5. CASE Take
    BY <1>5 DEF Take
<1>6. CASE GetFails
    BY <1>6 DEF GetFails, Fault
<1>7. CASE SkipDone
    BY <1>7 DEF SkipDone
<1>8. CASE EndRound
    BY <1>8 DEF EndRound
<1>9. CASE Write
    BY <1>9 DEF Write, Fault
<1>10. CASE SpawnExecution
    BY <1>10 DEF SpawnExecution
<1>11. ASSUME NEW i \in Tests, Insert(i)
       PROVE  FlowTypeOK'
    BY <1>11 DEF Insert, Statuses
<1>12. CASE HandlerDropped
    BY <1>12 DEF HandlerDropped
<1>13. ASSUME NEW i \in Tests, CaseHangs(i)
       PROVE  FlowTypeOK'
    BY <1>13 DEF CaseHangs
<1>14. ASSUME NEW i \in Tests, NEW v \in Verdicts, CaseDone(i, v)
       PROVE  FlowTypeOK'
    <2>1. worker' \in [at : SUBSET (1 .. N + 1), stuck : BOOLEAN]
        <3>1. worker' = [at |-> {i + 1}, stuck |-> FALSE]
            BY <1>14 DEF CaseDone
        <3>2. i + 1 \in 1 .. N + 1
            OBVIOUS
        <3> QED
            BY <3>1, <3>2
    <2>2. store' \in [Tests -> Statuses] /\ verdict' \in [Tests -> SUBSET Verdicts]
        BY <1>14 DEF CaseDone, Statuses
    <2> QED
        BY <1>14, <2>1, <2>2 DEF CaseDone
<1>15. CASE Restart
    BY <1>15 DEF Restart, NoWorker, Statuses
<1>16. CASE UNCHANGED flowVars
    BY <1>16 DEF flowVars
<1> QED
    BY <1>1, <1>2, <1>3, <1>4, <1>5, <1>6, <1>7, <1>8, <1>9, <1>10, <1>11, <1>12,
       <1>13, <1>14, <1>15, <1>16 DEF FlowNext, ClientStep, HandlerStep, WorkerStep

\* The state of an execute is well typed throughout.
THEOREM FlowTypeCorrect == FlowSpec => []FlowTypeOK
BY FlowInitTypeOK, FlowNextTypeOK, PTL DEF FlowSpec

-----------------------------------------------------------------------------
(***************************************************************************)
(* The inductive invariant. A verdict is on its way from the executor to   *)
(* the entity, the answer and the slot of one and the same test; what the  *)
(* client finds absent belongs to a backend whose worker is gone for good. *)
(***************************************************************************)

Settled == {"writing", "returned", "unwritten"}

Polled == {"polling"} \cup Settled

\* The backend: the worker exists only once the handler is through, and has
\* not yet got to the tests from its own on.
ServerInv ==
    /\ handler \in {"idle", "inserting"} =>
          /\ worker.at = {}
          /\ \A i \in Tests : verdict[i] = {}
    /\ handler = "idle" => pc \in {"dispatch", "failed"}
    /\ pc = "dispatch" => handler = "idle"
    /\ handler = "answering" => worker.at # {}
    /\ \A a \in worker.at :
          /\ \A i \in Tests : a <= i => verdict[i] = {}
          /\ \A b \in worker.at : a = b
    /\ worker.at # {} => \A i \in Tests : store[i] # "absent"
    /\ \A i \in Tests : store[i] \in Verdicts => verdict[i] = {store[i]}

\* The client.
ClientInv ==
    /\ answer # {} => next \in Tests /\ ~done[next] /\ pc = "polling"
    /\ \A s \in answer : answer = {s}
    /\ \A v \in answer \cap Verdicts : verdict[next] = {v}
    /\ pc \in Polled => handler = "gone"
    /\ pc \notin Polled => \A i \in Tests : ~done[i] /\ slot[i] = {}
    /\ pc \in Settled => \A i \in Tests : done[i]
    /\ \A i \in Tests : done[i] =>
          \E s \in Statuses \ {"RUNNING"} : slot[i] = {s}

\* What is absent was lost in a restart, and the worker with it.
LossInv ==
    /\ pc \in Polled /\ (\E i \in Tests : store[i] = "absent") => restarts # 0
    /\ "absent" \in answer => restarts # 0 /\ worker.at = {}
    /\ \A i \in Tests : "absent" \in slot[i] => restarts # 0 /\ worker.at = {}

FlowInv == FlowTypeOK /\ ServerInv /\ ClientInv /\ LossInv /\ VerdictsAreGenuine

LEMMA FlowInvInit == FlowInit => FlowInv
<1> SUFFICES ASSUME FlowInit
             PROVE  FlowInv
    OBVIOUS
<1>1. ServerInv
    BY DEF FlowInit, ServerInv, NoWorker, Verdicts
<1>2. ClientInv
    BY DEF FlowInit, ClientInv, Polled, Settled
<1>3. LossInv /\ VerdictsAreGenuine
    BY DEF FlowInit, LossInv, VerdictsAreGenuine, Polled, Settled
<1> QED
    BY <1>1, <1>2, <1>3, FlowInitTypeOK DEF FlowInv

\* The steps of the client that have nothing to do with a slot or a verdict.
LEMMA ClientMoves ==
    ASSUME FlowInv, FlowTypeOK',
           Dispatch \/ Dispatched \/ DispatchFails \/ SkipDone \/ GetFails
           \/ EndRound \/ Write \/ UNCHANGED flowVars
    PROVE  FlowInv'
<1> USE DEF FlowInv, server, polling
<1>1. /\ UNCHANGED <<slot, done, store, worker, verdict, restarts>>
      /\ answer' \in {answer, {}}
    BY DEF Dispatch, Dispatched, DispatchFails, SkipDone, GetFails, EndRound,
           Write, flowVars
<1>2. ServerInv'
    BY <1>1 DEF ServerInv, Dispatch, Dispatched, DispatchFails, SkipDone,
                GetFails, EndRound, Write, flowVars
<1>3. ClientInv'
    BY <1>1, FlowAssumption
    DEF ClientInv, ServerInv, Polled, Settled, FlowTypeOK, Tests, Dispatch,
        Dispatched, DispatchFails, SkipDone, GetFails, EndRound, Write, flowVars
<1>4. LossInv'
    BY <1>1 DEF LossInv, ServerInv, Polled, Settled, Dispatch, Dispatched,
                DispatchFails, SkipDone, GetFails, EndRound, Write, flowVars
<1>5. VerdictsAreGenuine'
    BY <1>1 DEF VerdictsAreGenuine
<1> QED
    BY <1>2, <1>3, <1>4, <1>5

LEMMA GetStep ==
    ASSUME FlowInv, FlowTypeOK', Get
    PROVE  FlowInv'
<1> USE DEF FlowInv, server, polling
<1>1. /\ pc = "polling" /\ next \in Tests /\ ~done[next]
      /\ answer' = {store[next]}
      /\ UNCHANGED <<pc, next, slot, done, handler, store, worker, verdict, restarts>>
    BY DEF Get
<1>2. ServerInv'
    BY <1>1 DEF ServerInv
<1>3. ClientInv'
    BY <1>1 DEF ClientInv, ServerInv
<1>4. LossInv'
    BY <1>1 DEF LossInv, ServerInv, Polled
<1>5. VerdictsAreGenuine'
    BY <1>1 DEF VerdictsAreGenuine
<1> QED
    BY <1>2, <1>3, <1>4, <1>5

LEMMA TakeStep ==
    ASSUME FlowInv, FlowTypeOK', Take
    PROVE  FlowInv'
<1> USE DEF FlowInv, server, polling
<1>1. /\ pc = "polling" /\ next \in Tests
      /\ answer' = {}
      /\ UNCHANGED <<pc, handler, store, worker, verdict, restarts>>
    BY DEF Take, ClientInv
<1>2. PICK s \in Statuses : answer = {s}
    BY DEF Take, ClientInv, FlowTypeOK
<1>3. /\ slot'[next] = {s}
      /\ done'[next] = (s # "RUNNING")
      /\ \A i \in Tests : i # next => slot'[i] = slot[i] /\ done'[i] = done[i]
    BY <1>2 DEF Take, FlowTypeOK
<1>4. ServerInv'
    BY <1>1 DEF ServerInv
<1>5. ClientInv'
    <2>1. \A i \in Tests : done'[i] => \E t \in Statuses \ {"RUNNING"} : slot'[i] = {t}
        <3>1. ASSUME NEW i \in Tests, i # next, done'[i]
              PROVE  \E t \in Statuses \ {"RUNNING"} : slot'[i] = {t}
            BY <1>3, <3>1 DEF ClientInv
        <3>2. done'[next] => s \in Statuses \ {"RUNNING"} /\ slot'[next] = {s}
            BY <1>2, <1>3
        <3> QED
            BY <3>1, <3>2
    <2>2. /\ pc \in Polled => handler = "gone"
          /\ pc \in Polled /\ pc \notin Settled
        BY <1>1 DEF ClientInv, Polled, Settled
    <2> QED
        BY <1>1, <2>1, <2>2 DEF ClientInv
<1>6. LossInv'
    BY <1>1, <1>2, <1>3 DEF LossInv
<1>7. VerdictsAreGenuine'
    BY <1>1, <1>2, <1>3 DEF VerdictsAreGenuine, ClientInv
<1> QED
    BY <1>4, <1>5, <1>6, <1>7

LEMMA HandlerMoves ==
    ASSUME FlowInv, FlowTypeOK', SpawnExecution \/ HandlerDropped \/ \E i \in Tests : Insert(i)
    PROVE  FlowInv'
<1> USE DEF FlowInv, polling
<1>1. /\ handler = "inserting"
      /\ UNCHANGED <<pc, next, answer, slot, done, verdict, restarts>>
      /\ \A i \in Tests : store'[i] \in Verdicts => store[i] \in Verdicts /\ store'[i] = store[i]
    BY DEF SpawnExecution, HandlerDropped, Insert, FlowTypeOK, Verdicts
<1>2. pc \notin Polled /\ answer = {}
    BY <1>1 DEF ClientInv, Polled
<1>3. /\ worker.at = {}
      /\ \A i \in Tests : verdict[i] = {} /\ store[i] \notin Verdicts
    BY <1>1 DEF ServerInv
<1>4. ServerInv'
    BY <1>1, <1>2, <1>3
    DEF ServerInv, SpawnExecution, HandlerDropped, Insert, Polled, Settled
<1>5. ClientInv'
    BY <1>1, <1>2 DEF ClientInv, Polled, Settled
<1>6. LossInv'
    <2>1. \A i \in Tests : slot[i] = {}
        BY <1>2 DEF ClientInv
    <2> QED
        BY <1>1, <1>2, <1>3, <2>1 DEF LossInv
<1>7. VerdictsAreGenuine'
    BY <1>1 DEF VerdictsAreGenuine
<1> QED
    BY <1>4, <1>5, <1>6, <1>7

LEMMA CaseStep ==
    ASSUME FlowInv, FlowTypeOK', NEW i \in Tests, NEW v \in Verdicts, CaseDone(i, v)
    PROVE  FlowInv'
<1> USE DEF FlowInv, polling
<1>1. /\ worker.at = {i} /\ worker'.at = {i + 1}
      /\ UNCHANGED <<pc, next, answer, slot, done, handler, restarts>>
    BY DEF CaseDone, FlowTypeOK
<1>2. /\ store'[i] = v /\ verdict'[i] = {v}
      /\ \A j \in Tests : j # i => store'[j] = store[j] /\ verdict'[j] = verdict[j]
    BY DEF CaseDone, FlowTypeOK
<1>3. \A j \in Tests : i <= j => verdict[j] = {}
    BY <1>1 DEF ServerInv
<1>4. /\ handler \notin {"idle", "inserting"}
      /\ \A j \in Tests : store'[j] # "absent"
    BY <1>1, <1>2 DEF ServerInv, Verdicts
<1>5. ServerInv'
    <2>1. \A j \in Tests : i + 1 <= j => verdict'[j] = {}
        BY <1>2, <1>3 DEF Tests
    <2>2. \A j \in Tests : store'[j] \in Verdicts => verdict'[j] = {store'[j]}
        BY <1>2 DEF ServerInv
    <2> QED
        BY <1>1, <1>4, <2>1, <2>2 DEF ServerInv
<1>6. ClientInv'
    <2>1. \A w \in answer \cap Verdicts : next # i
        BY <1>3 DEF ClientInv, Tests
    <2>2. \A w \in answer \cap Verdicts : verdict'[next] = {w}
        BY <1>2, <2>1 DEF ClientInv
    <2> QED
        BY <1>1, <2>2 DEF ClientInv
<1>7. LossInv'
    BY <1>1, <1>4 DEF LossInv
<1>8. VerdictsAreGenuine'
    BY <1>1, <1>2, <1>3 DEF VerdictsAreGenuine, Tests
<1> QED
    BY <1>5, <1>6, <1>7, <1>8

LEMMA HangStep ==
    ASSUME FlowInv, FlowTypeOK', NEW i \in Tests, CaseHangs(i)
    PROVE  FlowInv'
<1>1. /\ worker'.at = worker.at
      /\ UNCHANGED <<pc, next, answer, slot, done, handler, store, verdict, restarts>>
    BY DEF CaseHangs, FlowInv, FlowTypeOK, polling
<1> QED
    BY <1>1
    DEF FlowInv, ServerInv, ClientInv, LossInv, VerdictsAreGenuine

LEMMA RestartStep ==
    ASSUME FlowInv, FlowTypeOK', Restart
    PROVE  FlowInv'
<1> USE DEF FlowInv, polling
<1>1. /\ restarts' # 0
      /\ \A i \in Tests : store'[i] = "absent"
      /\ worker'.at = {}
      /\ handler' \in {"idle", "gone"}
      /\ handler' = "idle" <=> handler = "idle"
      /\ UNCHANGED <<pc, next, answer, slot, done, verdict>>
    BY FlowAssumption DEF Restart, FlowTypeOK, NoWorker
<1>2. ServerInv'
    BY <1>1 DEF ServerInv, Verdicts
<1>3. ClientInv'
    BY <1>1 DEF ClientInv
<1>4. LossInv' /\ VerdictsAreGenuine'
    BY <1>1 DEF LossInv, VerdictsAreGenuine
<1> QED
    BY <1>2, <1>3, <1>4

LEMMA FlowInvNext == FlowInv /\ [FlowNext]_flowVars => FlowInv'
<1> SUFFICES ASSUME FlowInv, [FlowNext]_flowVars
             PROVE  FlowInv'
    OBVIOUS
<1>1. FlowTypeOK'
    BY FlowNextTypeOK DEF FlowInv
<1> QED
    BY <1>1, ClientMoves, GetStep, TakeStep, HandlerMoves, CaseStep, HangStep,
       RestartStep
    DEF FlowNext, ClientStep, HandlerStep, WorkerStep

LEMMA FlowInvHolds == FlowSpec => []FlowInv
BY FlowInvInit, FlowInvNext, PTL DEF FlowSpec

\* backend.rs poll_one: a verdict the client holds is the one the executor gave
\* of that very test, whatever requests are lost and however often the backend
\* restarts.
THEOREM ClientsHoldGenuineVerdicts == FlowSpec => []VerdictsAreGenuine
<1>1. FlowInv => VerdictsAreGenuine
    BY DEF FlowInv
<1> QED
    BY <1>1, FlowInvHolds, PTL

\* When the polling is over, nothing of the run is executing in the backend.
THEOREM NothingRunsAfterPolling == FlowSpec => []PollingOutlastsWorker
<1>1. FlowInv => PollingOutlastsWorker
    <2> SUFFICES ASSUME FlowInv, pc \in Settled, NEW a \in worker.at
                 PROVE  a = N + 1
        BY DEF PollingOutlastsWorker, Settled
    <2>1. N \in Tests /\ a \in 1 .. N + 1
        BY FlowAssumption DEF FlowInv, FlowTypeOK, Tests
    <2>2. PICK s \in Statuses \ {"RUNNING"} : slot[N] = {s}
        BY <2>1 DEF FlowInv, ClientInv
    <2>3. s \in Verdicts
        BY <2>1, <2>2 DEF FlowInv, LossInv, Statuses
    <2>4. verdict[N] # {}
        BY <2>1, <2>2, <2>3 DEF FlowInv, VerdictsAreGenuine
    <2>5. ~(a <= N)
        BY <2>1, <2>4 DEF FlowInv, ServerInv
    <2> QED
        BY <2>1, <2>5, FlowAssumption
<1> QED
    BY <1>1, FlowInvHolds, PTL

\* execute.rs: "Returns the finished test entities." As long as the backend is
\* not restarted, every result of a finished polling is a verdict.
THEOREM ResultsWithoutRestart == FlowSpec => []ResultsAreVerdicts
<1>1. FlowInv => ResultsAreVerdicts
    <2> SUFFICES ASSUME FlowInv, pc \in Settled, restarts = 0, NEW i \in Tests
                 PROVE  \E v \in Verdicts : slot[i] = {v}
        BY DEF ResultsAreVerdicts, Settled
    <2>1. PICK s \in Statuses \ {"RUNNING"} : slot[i] = {s}
        BY DEF FlowInv, ClientInv
    <2>2. s \in Verdicts
        BY <2>1 DEF FlowInv, LossInv, Statuses
    <2> QED
        BY <2>1, <2>2
<1> QED
    BY <1>1, FlowInvHolds, PTL

-----------------------------------------------------------------------------
(* The tunnel (TunnelClient) *)

LEMMA InitTypeOK == Init => TypeOK
BY TunnelAssumption
   DEF Init, TypeOK, ControlStates, RuntimeStates, StreamStates, StopStates

LEMMA NextTypeOK == TypeOK /\ [Next]_vars => TypeOK'
<1> SUFFICES ASSUME TypeOK, [Next]_vars
             PROVE  TypeOK'
    OBVIOUS
<1> USE TunnelAssumption
    DEF TypeOK, Move, ControlStates, RuntimeStates, StreamStates, StopStates
<1>1. CASE Start
    BY <1>1 DEF Start
<1>2. CASE Drain
    BY <1>2 DEF Drain
<1>3. CASE Clear
    BY <1>3 DEF Clear
<1>4. CASE Push
    BY <1>4 DEF Push
<1>5. CASE CloseTunnel
    BY <1>5 DEF CloseTunnel
<1>6. CASE ControlEnds
    BY <1>6 DEF ControlEnds
<1>7. CASE ControlDropped
    BY <1>7 DEF ControlDropped
<1>8. ASSUME NEW i \in Ids, NEW k \in Runtimes, Spawn(i, k)
      PROVE  TypeOK'
    BY <1>8 DEF Spawn
<1>9. ASSUME NEW k \in Runtimes, Dial(k)
      PROVE  TypeOK'
    BY <1>9 DEF Dial
<1>10. ASSUME NEW k \in Runtimes, ConnectionEnds(k)
       PROVE  TypeOK'
    BY <1>10 DEF ConnectionEnds
<1>11. ASSUME NEW k \in Runtimes, Leave(k)
       PROVE  TypeOK'
    BY <1>11 DEF Leave
<1>12. ASSUME NEW k \in Runtimes, RuntimeDropped(k)
       PROVE  TypeOK'
    BY <1>12 DEF RuntimeDropped
<1>13. ASSUME NEW k \in Runtimes, NEW s \in Streams, Accept(k, s)
       PROVE  TypeOK'
    BY <1>13 DEF Accept
<1>14. ASSUME NEW s \in Streams, Open(s)
       PROVE  TypeOK'
    BY <1>14 DEF Open
<1>15. ASSUME NEW s \in Streams, SpliceEnds(s)
       PROVE  TypeOK'
    BY <1>15 DEF SpliceEnds
<1>16. CASE UNCHANGED vars
    BY <1>16 DEF vars
<1> QED
    BY <1>1, <1>2, <1>3, <1>4, <1>5, <1>6, <1>7, <1>8, <1>9, <1>10, <1>11, <1>12,
       <1>13, <1>14, <1>15, <1>16 DEF Next

\* The variables of a tunnel client always have the types TypeOK gives them;
\* the handle in hand is there exactly while the control task is about to
\* push it.
THEOREM TypeCorrect == Spec => []TypeOK
<1>1. Init => TypeOK
    BY InitTypeOK
<1>2. TypeOK /\ [Next]_vars => TypeOK'
    BY NextTypeOK
<1> QED
    BY <1>1, <1>2, PTL DEF Spec

-----------------------------------------------------------------------------
(* Before the tunnel is up there is nothing; until stop() nothing is aborted. *)
IdleInv ==
    /\ stop \in {"starting", "failed"} =>
          /\ control = "off"
          /\ active = {}
          /\ \A k \in Runtimes : ~Live(k)
    /\ stop = "starting" \/ stop = "running" => aborted = {}

TunnelInv ==
    /\ TypeOK
    /\ IdleInv
    /\ ActiveIsServed
    /\ SurplusBounded
    /\ ReachableByStop

LEMMA RuntimesForFinite ==
    ASSUME NEW i
    PROVE  IsFiniteSet(RuntimesFor(i)) /\ Cardinality(RuntimesFor(i)) \in Nat
<1>1. RuntimesFor(i) \in SUBSET Runtimes
    BY DEF RuntimesFor
<1>2. IsFiniteSet(RuntimesFor(i))
    BY <1>1, FS_Subset, TunnelAssumption
<1> QED
    BY <1>2, FS_CardinalityType

LEMMA InitTunnelInv == Init => TunnelInv
<1> SUFFICES ASSUME Init
             PROVE  TunnelInv
    OBVIOUS
<1>1. TypeOK
    BY InitTypeOK
<1> QED
    BY <1>1 DEF Init, TunnelInv, IdleInv, ActiveIsServed, SurplusBounded,
                ReachableByStop, Live

LEMMA NextIdleInv == TypeOK /\ IdleInv /\ [Next]_vars => IdleInv'
<1> SUFFICES ASSUME TypeOK, IdleInv, [Next]_vars
             PROVE  IdleInv'
    OBVIOUS
<1> USE DEF TypeOK, IdleInv, Live, Move, StopStates
<1>1. CASE Start \/ Drain \/ Clear
    BY <1>1 DEF Start, Drain, Clear
<1>2. CASE Push \/ CloseTunnel \/ ControlEnds \/ ControlDropped
    BY <1>2 DEF Push, CloseTunnel, ControlEnds, ControlDropped
<1>3. ASSUME NEW i \in Ids, NEW k \in Runtimes, Spawn(i, k)
      PROVE  IdleInv'
    BY <1>3 DEF Spawn
<1>4. ASSUME NEW k \in Runtimes,
             Dial(k) \/ ConnectionEnds(k) \/ Leave(k) \/ RuntimeDropped(k)
      PROVE  IdleInv'
    BY <1>4 DEF Dial, ConnectionEnds, Leave, RuntimeDropped
<1>5. ASSUME NEW k \in Runtimes, NEW s \in Streams,
             Accept(k, s) \/ Open(s) \/ SpliceEnds(s)
      PROVE  IdleInv'
    BY <1>5 DEF Accept, Open, SpliceEnds
<1>6. CASE \E s \in Streams : Open(s) \/ SpliceEnds(s)
    BY <1>6 DEF Open, SpliceEnds
<1>7. CASE UNCHANGED vars
    BY <1>7 DEF vars
<1> QED
    BY <1>1, <1>2, <1>3, <1>4, <1>5, <1>6, <1>7 DEF Next

LEMMA NextReachable ==
    TunnelInv /\ [Next]_vars => ReachableByStop'
<1> SUFFICES ASSUME TunnelInv, [Next]_vars
             PROVE  ReachableByStop'
    OBVIOUS
<1> USE DEF TunnelInv, TypeOK, IdleInv, ReachableByStop, Live, Move, StopStates
<1>1. CASE Start \/ Drain \/ Clear
    BY <1>1 DEF Start, Drain, Clear
<1>2. CASE Push \/ CloseTunnel \/ ControlEnds \/ ControlDropped
    BY <1>2 DEF Push, CloseTunnel, ControlEnds, ControlDropped
<1>3. ASSUME NEW i \in Ids, NEW k \in Runtimes, Spawn(i, k)
      PROVE  ReachableByStop'
    BY <1>3 DEF Spawn
<1>4. ASSUME NEW k \in Runtimes,
             Dial(k) \/ ConnectionEnds(k) \/ Leave(k) \/ RuntimeDropped(k)
      PROVE  ReachableByStop'
    BY <1>4 DEF Dial, ConnectionEnds, Leave, RuntimeDropped
<1>5. CASE \E k \in Runtimes, s \in Streams : Accept(k, s)
    BY <1>5 DEF Accept
<1>6. CASE \E s \in Streams : Open(s) \/ SpliceEnds(s)
    BY <1>6 DEF Open, SpliceEnds
<1>7. CASE UNCHANGED vars
    BY <1>7 DEF vars
<1> QED
    BY <1>1, <1>2, <1>3, <1>4, <1>5, <1>6, <1>7 DEF Next

\* How a step changes the runtimes of an id: Spawn adds one, to an id that was
\* not active; Leave takes one away along with the mark; every other step
\* that is not an abort leaves them alone.
LEMMA RuntimesForSteps ==
    ASSUME TunnelInv, stop = "running", stop' = "running", [Next]_vars, NEW i \in Ids
    PROVE  \/ /\ RuntimesFor(i)' = RuntimesFor(i)
              /\ \/ active' = active /\ closes' = closes
                 \/ active' = {} /\ closes' = closes + 1
                 \/ (i \in active' <=> i \in active) /\ closes' = closes
           \/ /\ \E k : k \notin RuntimesFor(i) /\ RuntimesFor(i)' = RuntimesFor(i) \cup {k}
              /\ i \notin active /\ i \in active' /\ closes' = closes
           \/ /\ \E k \in RuntimesFor(i) : RuntimesFor(i)' = RuntimesFor(i) \ {k}
              /\ i \notin active' /\ closes' = closes
<1> USE DEF TunnelInv, TypeOK, IdleInv, RuntimesFor, Live, Move
<1>1. CASE Start \/ Drain \/ Clear
    BY <1>1 DEF Start, Drain, Clear
<1>2. CASE Push \/ CloseTunnel \/ ControlEnds \/ ControlDropped
    BY <1>2 DEF Push, CloseTunnel, ControlEnds, ControlDropped
<1>3. ASSUME NEW j \in Ids, NEW k \in Runtimes, Spawn(j, k), i = j
      PROVE  /\ k \notin RuntimesFor(i) /\ RuntimesFor(i)' = RuntimesFor(i) \cup {k}
             /\ i \notin active /\ i \in active' /\ closes' = closes
    BY <1>3 DEF Spawn
<1>4. ASSUME NEW j \in Ids, NEW k \in Runtimes, Spawn(j, k), i # j
      PROVE  /\ RuntimesFor(i)' = RuntimesFor(i)
             /\ (i \in active' <=> i \in active) /\ closes' = closes
    BY <1>4 DEF Spawn
<1>5. ASSUME NEW k \in Runtimes, Leave(k), i \in id[k]
      PROVE  /\ k \in RuntimesFor(i) /\ RuntimesFor(i)' = RuntimesFor(i) \ {k}
             /\ i \notin active' /\ closes' = closes
    BY <1>5 DEF Leave
<1>6. ASSUME NEW k \in Runtimes, Leave(k), i \notin id[k]
      PROVE  /\ RuntimesFor(i)' = RuntimesFor(i)
             /\ (i \in active' <=> i \in active) /\ closes' = closes
    BY <1>6 DEF Leave
<1>7. ASSUME NEW k \in Runtimes, Dial(k) \/ ConnectionEnds(k) \/ RuntimeDropped(k)
      PROVE  RuntimesFor(i)' = RuntimesFor(i) /\ active' = active /\ closes' = closes
    BY <1>7 DEF Dial, ConnectionEnds, RuntimeDropped
<1>8. CASE \E k \in Runtimes, s \in Streams : Accept(k, s)
    BY <1>8 DEF Accept
<1>9. CASE \E s \in Streams : Open(s) \/ SpliceEnds(s)
    BY <1>9 DEF Open, SpliceEnds
<1>10. CASE UNCHANGED vars
    BY <1>10 DEF vars
<1>11. CASE \E j \in Ids, k \in Runtimes : Spawn(j, k)
    BY <1>11, <1>3, <1>4
<1>12. CASE \E k \in Runtimes : Dial(k) \/ ConnectionEnds(k) \/ Leave(k) \/ RuntimeDropped(k)
    BY <1>12, <1>5, <1>6, <1>7
<1> QED
    BY <1>1, <1>2, <1>8, <1>9, <1>10, <1>11, <1>12 DEF Next

LEMMA NextTunnelInv == TunnelInv /\ [Next]_vars => TunnelInv'
<1> SUFFICES ASSUME TunnelInv, [Next]_vars
             PROVE  TunnelInv'
    OBVIOUS
<1>1. TypeOK' /\ IdleInv' /\ ReachableByStop'
    BY NextTypeOK, NextIdleInv, NextReachable DEF TunnelInv
<1>2. CASE stop' # "running"
    BY <1>1, <1>2 DEF TunnelInv, ActiveIsServed, SurplusBounded
<1>3. CASE stop' = "running" /\ stop # "running"
    <2>1. Start
        BY <1>3 DEF Next, vars, Start, Drain, Clear, Push, CloseTunnel, ControlEnds,
                    ControlDropped, Spawn, Dial, ConnectionEnds, Leave, RuntimeDropped,
                    Accept, Open, SpliceEnds
    <2>2. active' = {} /\ \A i \in Ids : RuntimesFor(i)' = {}
        BY <2>1 DEF Start, TunnelInv, IdleInv, RuntimesFor, Live
    <2>3. closes' \in Nat
        BY <1>1, TunnelAssumption DEF TypeOK
    <2> QED
        BY <1>1, <2>2, <2>3, FS_EmptySet DEF TunnelInv, ActiveIsServed, SurplusBounded
<1>4. CASE stop' = "running" /\ stop = "running"
    <2>1. ASSUME NEW i \in Ids
          PROVE  /\ i \in active' => RuntimesFor(i)' # {}
                 /\ Cardinality(RuntimesFor(i)') <= closes' + (IF i \in active' THEN 1 ELSE 0)
        <3> DEFINE S == RuntimesFor(i)
                   T == RuntimesFor(i)'
        <3>1. /\ i \in active => S # {}
              /\ Cardinality(S) <= closes + (IF i \in active THEN 1 ELSE 0)
            BY <1>4 DEF TunnelInv, ActiveIsServed, SurplusBounded
        <3>2. IsFiniteSet(S) /\ Cardinality(S) \in Nat /\ closes \in Nat
            BY RuntimesForFinite, TunnelAssumption DEF TunnelInv, TypeOK
        <3>3. CASE /\ T = S
                   /\ \/ active' = active /\ closes' = closes
                      \/ active' = {} /\ closes' = closes + 1
                      \/ (i \in active' <=> i \in active) /\ closes' = closes
            BY <3>1, <3>2, <3>3
        <3>4. CASE /\ \E k : k \notin S /\ T = S \cup {k}
                   /\ i \notin active /\ i \in active' /\ closes' = closes
            <4> PICK k : k \notin S /\ T = S \cup {k}
                BY <3>4
            <4>1. Cardinality(T) = Cardinality(S) + 1
                BY <3>2, FS_AddElement
            <4> QED
                BY <3>1, <3>2, <3>4, <4>1
        <3>5. CASE /\ \E k \in S : T = S \ {k}
                   /\ i \notin active' /\ closes' = closes
            <4> PICK k \in S : T = S \ {k}
                BY <3>5
            <4>1. Cardinality(T) = Cardinality(S) - 1
                BY <3>2, FS_RemoveElement
            <4> QED
                BY <3>1, <3>2, <3>5, <4>1
        <3> QED
            BY <1>4, <3>3, <3>4, <3>5, RuntimesForSteps
    <2> QED
        BY <1>1, <2>1 DEF TunnelInv, TypeOK, ActiveIsServed, SurplusBounded
<1> QED
    BY <1>2, <1>3, <1>4

LEMMA TunnelInvariant == Spec => []TunnelInv
<1>1. Init => TunnelInv
    BY InitTunnelInv
<1>2. TunnelInv /\ [Next]_vars => TunnelInv'
    BY NextTunnelInv
<1> QED
    BY <1>1, <1>2, PTL DEF Spec

\* A tunnel id never has more runtimes than one and one for every CloseTunnel
\* the server has sent.
THEOREM SurplusIsBounded == Spec => []SurplusBounded
<1>1. TunnelInv => SurplusBounded
    BY DEF TunnelInv
<1> QED
    BY <1>1, TunnelInvariant, PTL

\* A request is turned away as "already running" only when a runtime runs.
THEOREM ActiveIdsAreServed == Spec => []ActiveIsServed
<1>1. TunnelInv => ActiveIsServed
    BY DEF TunnelInv
<1> QED
    BY <1>1, TunnelInvariant, PTL

\* stop() reaches every runtime but the one whose handle is being pushed.
THEOREM StopReachesRuntimes == Spec => []ReachableByStop
<1>1. TunnelInv => ReachableByStop
    BY DEF TunnelInv
<1> QED
    BY <1>1, TunnelInvariant, PTL

\* Where the server never sends CloseTunnel, spawn_tunnel is idempotent as its
\* comment says, until stop().
THEOREM IdempotentWithoutClose ==
    ASSUME MaxCloses = 0
    PROVE  Spec => [](stop = "running" => OneRuntimePerId)
<1>1. ASSUME TunnelInv, stop = "running", NEW i \in Ids,
             NEW k \in RuntimesFor(i), NEW l \in RuntimesFor(i), k # l
      PROVE  FALSE
    <2> DEFINE S == RuntimesFor(i)
    <2>1. closes = 0 /\ Cardinality(S) <= 1
        BY <1>1, RuntimesForFinite DEF TunnelInv, TypeOK, SurplusBounded
    <2>2. IsFiniteSet(S) /\ Cardinality(S) \in Nat
        BY RuntimesForFinite
    <2>3. IsFiniteSet(S \ {k}) /\ Cardinality(S \ {k}) = Cardinality(S) - 1
        BY <1>1, <2>2, FS_RemoveElement
    <2>4. S \ {k} = {}
        BY <2>1, <2>2, <2>3, FS_EmptySet, FS_CardinalityType
    <2> QED
        BY <1>1, <2>4
<1>2. TunnelInv => (stop = "running" => OneRuntimePerId)
    BY <1>1 DEF OneRuntimePerId
<1> QED
    BY <1>2, TunnelInvariant, PTL

===============================================================================
