------------------------------- MODULE RunLock -------------------------------
(***************************************************************************)
(* The advisory run lock `testsprite_tests/tmp/execution.lock`.            *)
(*                                                                         *)
(* Two programs use the one file and disagree about its protocol:          *)
(*   - local/lock.rs (RunLock), taken by local/run.rs run_collect:         *)
(*     create_new, then write "pid=.. started=.."; on AlreadyExists judge  *)
(*     the body and steal the file when it is stale; remove it on Drop;    *)
(*   - tools/execute.rs (LockGuard): exists(), then an overwriting write   *)
(*     of "running"; remove it on drop.                                    *)
(*                                                                         *)
(* A run or an execute is ONE invocation, and it creates the file at most  *)
(* once, so the creator's name identifies the file it made (its inode).    *)
(* Every file-system call is a step of its own, which is where the other   *)
(* invocations get in.                                                     *)
(***************************************************************************)
EXTENDS Integers, FiniteSets

CONSTANTS
    Runs,       \* invocations that use lock.rs
    Execs,      \* invocations that use execute.rs
    TTL,        \* TESTSPRITE_LOCK_TTL_SECS, in ticks of the model's clock
    MaxTime,    \* bound on the clock
    MaxFaults,  \* bound on crashes and failed writes
    ProcFs      \* TRUE where /proc exists, so that a dead pid can be told

ASSUME RunLockAssumption ==
    /\ Runs \cap Execs = {}
    /\ TTL \in Nat \ {0}
    /\ MaxTime \in Nat
    /\ MaxFaults \in Nat
    /\ ProcFs \in BOOLEAN

VARIABLES
    entry,      \* the directory entry: the inode linked at the path, if any
    content,    \* content[i]: what inode i holds, linked or not
    pc,         \* where each invocation stands
    seen,       \* seen[r]: the body steal_if_stale of r has read
    opened,     \* opened[x]: the inode the write of x has open
    now,        \* now_secs()
    faults      \* crashes and failed writes so far

vars == <<entry, content, pc, seen, opened, now, faults>>

Procs == Runs \cup Execs

\* The two fields lock.rs parses out of a body, each present or absent.
Bodies == [pid : SUBSET Procs, started : SUBSET Nat]

Unstamped == [pid |-> {}, started |-> {}]

RunStates  == {"idle", "exists", "judging", "retry", "created", "held",
               "refused", "released", "gone"}
ExecStates == {"idle", "checked", "opened", "held", "refused", "released", "gone"}

TypeOK ==
    /\ entry \in SUBSET Procs
    /\ \A i, j \in entry : i = j
    /\ content \in [Procs -> Bodies]
    /\ pc \in [Procs -> RunStates \cup ExecStates]
    /\ \A r \in Runs : pc[r] \in RunStates
    /\ \A x \in Execs : pc[x] \in ExecStates
    /\ seen \in [Runs -> Bodies]
    /\ opened \in [Execs -> SUBSET Procs]
    /\ now \in 0 .. MaxTime
    /\ faults \in 0 .. MaxFaults

Goto(p, from, to) ==
    /\ pc[p] = from
    /\ pc' = [pc EXCEPT ![p] = to]

Alive(p) == pc[p] # "gone"

\* pid_alive: without /proc every pid is reported alive.
PidAlive(p) == Alive(p) \/ ~ProcFs

\* Mutant of Stale: a body with no pid in it counts as a dead one's.
StaleIfUnreadable(body) ==
    \/ \E s \in body.started : now - s >= TTL
    \/ \A p \in body.pid : ~PidAlive(p)

\* The judgement of steal_if_stale on a body it has read.
Stale(body) ==
    \/ \E s \in body.started : now - s >= TTL
    \/ \E p \in body.pid : ~PidAlive(p)

-----------------------------------------------------------------------------
(* local/lock.rs *)

\* Mutant of CreateNew: open with create(true), taking over a file that is
\* there.
CreateOver(r) == entry' = {r}

\* try_create's create_new(true).open(path): the kernel's atomic test-and-set.
\* The file is empty until the writeln that follows.
CreateNew(r) ==
    /\ entry = {}
    /\ entry' = {r}

\* acquire, first try_create.
Acquire(r) ==
    /\ \/ CreateNew(r) /\ Goto(r, "idle", "created")
       \/ entry # {} /\ Goto(r, "idle", "exists") /\ UNCHANGED entry
    /\ UNCHANGED <<content, seen, opened, now, faults>>

\* steal_if_stale's read_to_string; a file that has gone reads as live.
ReadBody(r) ==
    /\ \/ /\ entry = {}
          /\ Goto(r, "exists", "refused")
          /\ UNCHANGED seen
       \/ \E i \in entry :
             /\ Goto(r, "exists", "judging")
             /\ seen' = [seen EXCEPT ![r] = content[i]]
    /\ UNCHANGED <<entry, content, opened, now, faults>>

\* Mutant of Judge: refuse after the removal.
JudgeWithoutRetry(r) ==
    /\ Goto(r, "judging", "refused")
    /\ entry' = IF Stale(seen[r]) THEN {} ELSE entry
    /\ UNCHANGED <<content, seen, opened, now, faults>>

\* The rest of steal_if_stale. remove_file acts on the PATH: whatever is
\* linked there now goes, be it the file that was read or a later one.
Judge(r) ==
    /\ \/ /\ Stale(seen[r]) /\ entry # {}
          /\ Goto(r, "judging", "retry")
          /\ entry' = {}
       \/ /\ ~(Stale(seen[r]) /\ entry # {})
          /\ Goto(r, "judging", "refused")
          /\ UNCHANGED entry
    /\ UNCHANGED <<content, seen, opened, now, faults>>

\* acquire, the try_create after a steal; a second AlreadyExists is an error.
Recreate(r) ==
    /\ \/ CreateNew(r) /\ Goto(r, "retry", "created")
       \/ entry # {} /\ Goto(r, "retry", "refused") /\ UNCHANGED entry
    /\ UNCHANGED <<content, seen, opened, now, faults>>

\* try_create's writeln, through the handle it has open.
Stamp(r) ==
    /\ Goto(r, "created", "held")
    /\ content' = [content EXCEPT ![r] = [pid |-> {r}, started |-> {now}]]
    /\ UNCHANGED <<entry, seen, opened, now, faults>>

\* The writeln fails: acquire returns the error and the empty file stays.
StampFails(r) ==
    /\ faults < MaxFaults
    /\ Goto(r, "created", "refused")
    /\ faults' = faults + 1
    /\ UNCHANGED <<entry, content, seen, opened, now>>

-----------------------------------------------------------------------------
(* tools/execute.rs *)

\* lock_path.exists()
Check(x) ==
    /\ Goto(x, "idle", IF entry = {} THEN "checked" ELSE "refused")
    /\ UNCHANGED <<entry, content, seen, opened, now, faults>>

\* tokio::fs::write opens with create and truncate: it takes over any file
\* that has appeared since the check.
Open(x) ==
    /\ Goto(x, "checked", "opened")
    /\ entry' = IF entry = {} THEN {x} ELSE entry
    /\ opened' = [opened EXCEPT ![x] = entry']
    /\ content' = [i \in Procs |-> IF i \in entry' THEN Unstamped ELSE content[i]]
    /\ UNCHANGED <<seen, now, faults>>

\* ... and writes "running" at offset 0: over the pid of a stamp written since
\* the truncation, whose longer tail, the started= field, survives.
WriteRunning(x) ==
    /\ Goto(x, "opened", "held")
    /\ content' = [i \in Procs |-> IF i \in opened[x]
                                      THEN [content[i] EXCEPT !.pid = {}]
                                      ELSE content[i]]
    /\ UNCHANGED <<entry, seen, opened, now, faults>>

\* The result of the write is discarded with .ok(): a failure to open leaves
\* no file behind, and the execute proceeds as if it held the lock.
OpenFails(x) ==
    /\ faults < MaxFaults
    /\ Goto(x, "checked", "held")
    /\ faults' = faults + 1
    /\ UNCHANGED <<entry, content, seen, opened, now>>

-----------------------------------------------------------------------------
(* Both *)

\* Drop of RunLock and of LockGuard: remove_file on the path, whoever's file
\* is linked there.
Drop(p) ==
    /\ Goto(p, "held", "released")
    /\ entry' = {}
    /\ UNCHANGED <<content, seen, opened, now, faults>>

\* The process ends, normally, some time after the run has.
Exit(p) ==
    /\ \E s \in {"refused", "released"} : Goto(p, s, "gone")
    /\ UNCHANGED <<entry, content, seen, opened, now, faults>>

\* The process is killed: no destructor runs.
Crash(p) ==
    /\ faults < MaxFaults
    /\ pc[p] \notin {"idle", "refused", "released", "gone"}
    /\ pc' = [pc EXCEPT ![p] = "gone"]
    /\ faults' = faults + 1
    /\ UNCHANGED <<entry, content, seen, opened, now>>

Tick ==
    /\ now < MaxTime
    /\ now' = now + 1
    /\ UNCHANGED <<entry, content, pc, seen, opened, faults>>

Init ==
    /\ entry = {}
    /\ content = [p \in Procs |-> Unstamped]
    /\ pc = [p \in Procs |-> "idle"]
    /\ seen = [r \in Runs |-> Unstamped]
    /\ opened = [x \in Execs |-> {}]
    /\ now = 0
    /\ faults = 0

\* What acquire does by itself once it is called.
AcquireStep(r) ==
    Acquire(r) \/ ReadBody(r) \/ Judge(r) \/ Recreate(r) \/ Stamp(r)

RunStep(r)  == AcquireStep(r) \/ StampFails(r)
ExecStep(x) == Check(x) \/ Open(x) \/ WriteRunning(x) \/ OpenFails(x)

Next ==
    \/ \E r \in Runs : RunStep(r)
    \/ \E x \in Execs : ExecStep(x)
    \/ \E p \in Procs : Drop(p) \/ Exit(p) \/ Crash(p)
    \/ Tick

Spec == Init /\ [][Next]_vars

\* Every run of the instance is called sooner or later, what it has begun it
\* carries on (acquire never waits), and time passes. Nothing makes a holder
\* finish, a process exit, an execute start or a fault happen.
FairSpec ==
    /\ Spec
    /\ \A r \in Runs : WF_vars(AcquireStep(r))
    /\ WF_vars(Tick)

-----------------------------------------------------------------------------
(* The abstract lock, entered when the file is created. *)

Inside == {r \in Runs : pc[r] \in {"created", "held"}}

Mutex == INSTANCE ProjectMutex WITH Procs <- Runs, inside <- Inside

-----------------------------------------------------------------------------
(* Properties *)

\* No execute has looked at the file yet.
RunsOnly == \A x \in Execs : pc[x] = "idle"

\* So far nothing can have been judged stale: the clock has not reached the TTL,
\* and every process that can be told dead is alive.
NothingGoesStale ==
    /\ RunsOnly
    /\ now < TTL
    /\ ProcFs => \A p \in Procs : Alive(p)

\* Among runs the lock is the abstract one, at every step from a state in which
\* nothing can have been judged stale.
ImplementsMutex == Mutex!Init /\ [][NothingGoesStale => Mutex!Next]_Inside

Holders == {p \in Procs : pc[p] = "held"}

\* Two invocations are never inside a run at once ("Serialize with any other
\* testsprite-rs run against this project", run.rs).
MutualExclusion == \A p, q \in Holders : p = q

\* A run that has outlived the TTL is one acquire is entitled to steal from.
Overdue(r) == \E s \in content[r].started : now - s >= TTL

\* Among runs, two hold the lock together only if one of them has outlived the
\* TTL. True of two invocations, whatever crashes; a third one breaks it (see
\* MutualExclusion).
ExclusiveWithinTTL ==
    RunsOnly => \A p, q \in Holders \cap Runs : p # q => Overdue(p) \/ Overdue(q)

\* Before any lock can have outlived the TTL: while the file an execute made
\* is at the path, no run is inside. A run finds no pid and no started= in it,
\* and so never takes it for stale. True of two runs beside one execute: a third
\* run may have stolen a live one's file before the execute opens its own, and
\* of two executes one may have taken over a run's file and removed it.
ExecuteMarkExcludesRuns ==
    now < TTL =>
        \A x \in Execs \cap entry :
            Alive(x) => \A r \in Runs : pc[r] \notin {"created", "held"}

\* The path is free or holds a crashed run's stamped file, nobody is at work
\* on it, and no more faults will happen.
Quiet ==
    /\ faults = MaxFaults
    /\ \A p \in Procs : pc[p] \in {"idle", "refused", "released", "gone"}
    /\ \A i \in entry : ~Alive(i) /\ content[i].pid # {}

\* A crash that happened after the stamp wedges nobody where there is a /proc,
\* unless an execute wrote over the pid (then the TTL must pass first): if runs
\* arrive after it, one of them gets the lock, however their steals interleave,
\* unless an execute comes in between.
CrashRecovers ==
    (Quiet /\ \E r \in Runs : pc[r] = "idle")
        ~> \/ \E r \in Runs : pc[r] = "held"
           \/ \E x \in Execs : pc[x] \notin {"idle", "refused", "released", "gone"}

=============================================================================
