----------------------------- MODULE TunnelClient -----------------------------
(***************************************************************************)
(* The tunnel client, tunnel/client.rs: the tokio tasks of one tunnel from *)
(* TunnelClient::start to stop.                                            *)
(*                                                                         *)
(* The control task reads the control WebSocket. It spawns one runtime     *)
(* task for each requested tunnel id; a runtime spawns one task for each   *)
(* stream the server opens. stop() runs in the caller's task, on another   *)
(* thread: it aborts what the list `tasks` holds. An aborted task is       *)
(* dropped when it next waits; the poll it is in goes on until then.       *)
(***************************************************************************)
EXTENDS Integers, FiniteSets

CONSTANTS
    Ids,        \* tunnel_connection_ids the server may ask for
    Runtimes,   \* the runtime tasks there can be
    Streams,    \* the stream tasks there can be
    MaxCloses   \* bound on the CloseTunnel messages

ASSUME TunnelAssumption ==
    /\ IsFiniteSet(Runtimes)
    /\ MaxCloses \in Nat

VARIABLES
    control,    \* where the control task stands
    pushing,    \* the runtime whose handle it is about to push
    active,     \* active_tunnels
    runtime,    \* where each runtime task stands
    id,         \* id[k]: the tunnel id runtime k was spawned for, if any
    stream,     \* where each stream task stands
    tasks,      \* the runtimes whose handle is in `tasks`
    aborted,    \* the runtimes abort() has been called on
    stop,       \* where the caller stands
    closes      \* CloseTunnel messages so far

vars == <<control, pushing, active, runtime, id, stream, tasks, aborted, stop,
          closes>>

ControlStates == {"off", "loop", "push", "ended"}
RuntimeStates == {"unused", "dialing", "serving", "leaving", "gone"}
StreamStates  == {"unused", "opening", "spliced", "ended"}
StopStates    == {"starting", "running", "drained", "stopped", "failed"}

TypeOK ==
    /\ control \in ControlStates
    /\ pushing \in SUBSET Runtimes
    /\ control = "push" <=> pushing # {}
    /\ active \in SUBSET Ids
    /\ runtime \in [Runtimes -> RuntimeStates]
    /\ id \in [Runtimes -> SUBSET Ids]
    /\ stream \in [Streams -> StreamStates]
    /\ tasks \in SUBSET Runtimes
    /\ aborted \in SUBSET Runtimes
    /\ stop \in StopStates
    /\ closes \in 0 .. MaxCloses

Live(k) == runtime[k] \in {"dialing", "serving", "leaving"}

Move(k, from, to) ==
    /\ runtime[k] = from
    /\ runtime' = [runtime EXCEPT ![k] = to]

Init ==
    /\ control = "off"
    /\ pushing = {}
    /\ active = {}
    /\ runtime = [k \in Runtimes |-> "unused"]
    /\ id = [k \in Runtimes |-> {}]
    /\ stream = [s \in Streams |-> "unused"]
    /\ tasks = {}
    /\ aborted = {}
    /\ stop = "starting"
    /\ closes = 0

-----------------------------------------------------------------------------
(* The caller *)

\* start: connect, spawn the control task, push its handle; or fail.
Start ==
    /\ stop = "starting"
    /\ control = "off"
    /\ \/ stop' = "running" /\ control' = "loop"
       \/ stop' = "failed" /\ UNCHANGED control
    /\ UNCHANGED <<pushing, active, runtime, id, stream, tasks, aborted, closes>>

\* stop, first half: under the lock of `tasks`, drain it and abort each task,
\* the control task among them.
Drain ==
    /\ stop = "running"
    /\ stop' = "drained"
    /\ aborted' = aborted \cup tasks
    /\ tasks' = {}
    /\ UNCHANGED <<control, pushing, active, runtime, id, stream, closes>>

\* stop, second half.
Clear ==
    /\ stop = "drained"
    /\ stop' = "stopped"
    /\ active' = {}
    /\ UNCHANGED <<control, pushing, runtime, id, stream, tasks, aborted, closes>>

-----------------------------------------------------------------------------
(* The control task *)


\* RequestTunnel: spawn_tunnel up to the spawn, with no wait in between. For
\* an id that is active ("already running") nothing happens.
Spawn(i, k) ==
    /\ control = "loop"
    /\ i \notin active
    /\ active' = active \cup {i}
    /\ Move(k, "unused", "dialing")
    /\ id' = [id EXCEPT ![k] = {i}]
    /\ pushing' = {k}
    /\ control' = "push"
    /\ UNCHANGED <<stream, tasks, aborted, stop, closes>>

\* Mutant of Push: the handle is dropped.
PushNothing ==
    /\ control = "push"
    /\ pushing' = {}
    /\ control' = "loop"
    /\ UNCHANGED <<active, runtime, id, stream, tasks, aborted, stop, closes>>

\* tasks.lock().await.push(handle), on a lock that stop() uses too.
Push ==
    /\ control = "push"
    /\ tasks' = tasks \cup pushing
    /\ pushing' = {}
    /\ control' = "loop"
    /\ UNCHANGED <<active, runtime, id, stream, aborted, stop, closes>>

\* CloseTunnel forgets every id and leaves every runtime as it is.
CloseTunnel ==
    /\ control = "loop"
    /\ closes < MaxCloses
    /\ closes' = closes + 1
    /\ active' = {}
    /\ UNCHANGED <<control, pushing, runtime, id, stream, tasks, aborted, stop>>

\* A Close frame, the end of the WebSocket, an error or a failed heartbeat
\* ends the loop; the runtimes stay.
ControlEnds ==
    /\ control = "loop"
    /\ control' = "ended"
    /\ UNCHANGED <<pushing, active, runtime, id, stream, tasks, aborted, stop, closes>>

\* The control task waits and, having been aborted, is dropped, with the
\* handle it was about to push.
ControlDropped ==
    /\ stop \in {"drained", "stopped"}
    /\ control \in {"loop", "push"}
    /\ control' = "ended"
    /\ pushing' = {}
    /\ UNCHANGED <<active, runtime, id, stream, tasks, aborted, stop, closes>>

-----------------------------------------------------------------------------
(* A runtime task *)

\* run_tunnel dials the data plane and sends the hello.
Dial(k) ==
    /\ \/ Move(k, "dialing", "serving")
       \/ Move(k, "dialing", "leaving")
    /\ UNCHANGED <<control, pushing, active, id, stream, tasks, aborted, stop, closes>>

\* The yamux connection ends or fails: run_tunnel returns.
ConnectionEnds(k) ==
    /\ Move(k, "serving", "leaving")
    /\ UNCHANGED <<control, pushing, active, id, stream, tasks, aborted, stop, closes>>

\* Mutant of Leave: run_tunnel's error leaves the task before the removal.
LeaveMarked(k) ==
    /\ Move(k, "leaving", "gone")
    /\ UNCHANGED <<control, pushing, active, id, stream, tasks, aborted, stop, closes>>

\* The runtime task's last statement, whoever put the id there.
Leave(k) ==
    /\ Move(k, "leaving", "gone")
    /\ active' = active \ id[k]
    /\ UNCHANGED <<control, pushing, id, stream, tasks, aborted, stop, closes>>

RuntimeDropped(k) ==
    /\ k \in aborted
    /\ Live(k)
    /\ runtime' = [runtime EXCEPT ![k] = "gone"]
    /\ UNCHANGED <<control, pushing, active, id, stream, tasks, aborted, stop, closes>>

\* An inbound stream: spawned, and its handle is not kept.
Accept(k, s) ==
    /\ runtime[k] = "serving"
    /\ stream[s] = "unused"
    /\ stream' = [stream EXCEPT ![s] = "opening"]
    /\ UNCHANGED <<control, pushing, active, runtime, id, tasks, aborted, stop, closes>>

-----------------------------------------------------------------------------
(* A stream task: handle_stream *)

\* The open request is read and its target allowed and reached, or not.
Open(s) ==
    /\ stream[s] = "opening"
    /\ \E to \in {"spliced", "ended"} : stream' = [stream EXCEPT ![s] = to]
    /\ UNCHANGED <<control, pushing, active, runtime, id, tasks, aborted, stop, closes>>

\* Both copies have ended, which takes the server's side and the target's.
SpliceEnds(s) ==
    /\ stream[s] = "spliced"
    /\ stream' = [stream EXCEPT ![s] = "ended"]
    /\ UNCHANGED <<control, pushing, active, runtime, id, tasks, aborted, stop, closes>>

Next ==
    \/ Start \/ Drain \/ Clear
    \/ Push \/ CloseTunnel \/ ControlEnds \/ ControlDropped
    \/ \E i \in Ids, k \in Runtimes : Spawn(i, k)
    \/ \E k \in Runtimes : Dial(k) \/ ConnectionEnds(k) \/ Leave(k) \/ RuntimeDropped(k)
    \/ \E k \in Runtimes, s \in Streams : Accept(k, s)
    \/ \E s \in Streams : Open(s) \/ SpliceEnds(s)

Spec == Init /\ [][Next]_vars

-----------------------------------------------------------------------------
(* Properties *)

RuntimesFor(i) == {k \in Runtimes : Live(k) /\ i \in id[k]}

\* An id marked as running has a runtime that is: a request for it is never
\* turned away ("already running") when nothing serves it.
ActiveIsServed ==
    stop = "running" => \A i \in active : RuntimesFor(i) # {}

\* How many runtimes an id can have: one, and one more for every CloseTunnel,
\* which forgets runtimes without ending them. However often the runtimes
\* end, take each other's mark away and are spawned again, it is no more.
SurplusBounded ==
    stop = "running" =>
        \A i \in Ids :
            Cardinality(RuntimesFor(i)) <= closes + (IF i \in active THEN 1 ELSE 0)

\* Until stop() no runtime is out of its reach for longer than it takes to
\* push the handle.
ReachableByStop ==
    stop = "running" =>
        \A k \in Runtimes : Live(k) => k \in tasks \cup pushing

\* "Start a data-plane runtime for a tunnel id (idempotent)."
OneRuntimePerId ==
    \A i \in Ids : \A k, l \in RuntimesFor(i) : k = l

=============================================================================
