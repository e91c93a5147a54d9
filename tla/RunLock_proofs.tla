---------------------------- MODULE RunLock_proofs ----------------------------
(***************************************************************************)
(* What TLAPS establishes about the run lock, for any set of invocations,  *)
(* any TTL and any bound on faults and time.                               *)
(***************************************************************************)
EXTENDS RunLock, TLAPS

LEMMA InitTypeOK == Init => TypeOK
BY RunLockAssumption
   DEF Init, TypeOK, Procs, Bodies, Unstamped, RunStates, ExecStates

LEMMA NextTypeOK == TypeOK /\ [Next]_vars => TypeOK'
<1> SUFFICES ASSUME TypeOK, [Next]_vars
             PROVE  TypeOK'
    OBVIOUS
<1> USE RunLockAssumption DEF TypeOK, Procs, Bodies, Goto, RunStates, ExecStates
<1>1. ASSUME NEW r \in Runs, Acquire(r)
      PROVE  TypeOK'
    <2>1. CASE CreateNew(r) /\ Goto(r, "idle", "created")
        BY <1>1, <2>1 DEF Acquire, CreateNew
    <2>2. CASE entry # {} /\ Goto(r, "idle", "exists") /\ UNCHANGED entry
        BY <1>1, <2>2 DEF Acquire
    <2> QED
        BY <1>1, <2>1, <2>2 DEF Acquire
<1>2. ASSUME NEW r \in Runs, ReadBody(r)
      PROVE  TypeOK'
    <2>1. CASE entry = {} /\ Goto(r, "exists", "refused") /\ UNCHANGED seen
        BY <1>2, <2>1 DEF ReadBody
    <2>2. ASSUME NEW i \in entry, Goto(r, "exists", "judging"),
                 seen' = [seen EXCEPT ![r] = content[i]]
          PROVE  TypeOK'
        BY <1>2, <2>2 DEF ReadBody
    <2> QED
        BY <1>2, <2>1, <2>2 DEF ReadBody
<1>3. ASSUME NEW r \in Runs, Judge(r)
      PROVE  TypeOK'
    BY <1>3 DEF Judge
<1>4. ASSUME NEW r \in Runs, Recreate(r)
      PROVE  TypeOK'
    BY <1>4 DEF Recreate, CreateNew
<1>5. ASSUME NEW r \in Runs, Stamp(r)
      PROVE  TypeOK'
    BY <1>5 DEF Stamp
<1>6. ASSUME NEW r \in Runs, StampFails(r)
      PROVE  TypeOK'
    BY <1>6 DEF StampFails
<1>7. ASSUME NEW x \in Execs, Check(x)
      PROVE  TypeOK'
    BY <1>7 DEF Check
<1>8. ASSUME NEW x \in Execs, Open(x)
      PROVE  TypeOK'
    <2>1. /\ entry' \in SUBSET Procs
          /\ \A i, j \in entry' : i = j
        BY <1>8 DEF Open
    <2>2. content' \in [Procs -> Bodies]
        <3>1. Unstamped \in Bodies
            BY DEF Unstamped
        <3> QED
            BY <1>8, <3>1 DEF Open
    <2>3. /\ pc' \in [Procs -> RunStates \cup ExecStates]
          /\ \A r \in Runs : pc'[r] \in RunStates
          /\ \A y \in Execs : pc'[y] \in ExecStates
        BY <1>8 DEF Open
    <2>4. opened' \in [Execs -> SUBSET Procs]
        BY <1>8, <2>1 DEF Open
    <2>5. UNCHANGED <<seen, now, faults>>
        BY <1>8 DEF Open
    <2> QED
        BY <2>1, <2>2, <2>3, <2>4, <2>5
<1>9. ASSUME NEW x \in Execs, WriteRunning(x)
      PROVE  TypeOK'
    <2>1. content' \in [Procs -> Bodies]
        <3>1. ASSUME NEW i \in Procs
              PROVE  content'[i] \in Bodies
            BY <1>9 DEF WriteRunning
        <3> QED
            BY <1>9, <3>1 DEF WriteRunning
    <2>2. /\ pc' = [pc EXCEPT ![x] = "held"]
          /\ UNCHANGED <<entry, seen, opened, now, faults>>
        BY <1>9 DEF WriteRunning
    <2> QED
        BY <2>1, <2>2
<1>10. ASSUME NEW x \in Execs, OpenFails(x)
      PROVE  TypeOK'
    BY <1>10 DEF OpenFails
<1>11. ASSUME NEW p \in Procs, Drop(p)
      PROVE  TypeOK'
    BY <1>11 DEF Drop
<1>12. ASSUME NEW p \in Procs, Exit(p)
      PROVE  TypeOK'
    BY <1>12 DEF Exit
<1>13. ASSUME NEW p \in Procs, Crash(p)
      PROVE  TypeOK'
    BY <1>13 DEF Crash
<1>14. CASE Tick
    BY <1>14 DEF Tick
<1>15. CASE UNCHANGED vars
    BY <1>15 DEF vars
<1> QED
    BY <1>1, <1>2, <1>3, <1>4, <1>5, <1>6, <1>7, <1>8, <1>9, <1>10, <1>11,
       <1>12, <1>13, <1>14, <1>15
    DEF Next, RunStep, AcquireStep, ExecStep

\* The lock file's bookkeeping is well typed whatever runs, executes, crashes
\* and failed writes there are; in particular at most one inode is linked at
\* the path.
THEOREM TypeCorrect == Spec => []TypeOK
BY InitTypeOK, NextTypeOK, PTL DEF Spec

-----------------------------------------------------------------------------
(***************************************************************************)
(* Any number of runs, while no body can have been judged stale.           *)
(***************************************************************************)

\* A run that is inside has its own file at the path.
InsideOwnsEntry == \A r \in Inside : entry = {r}

OwnInv == TypeOK /\ (NothingGoesStale => InsideOwnsEntry)

LEMMA NeverStale ==
    ASSUME NothingGoesStale, TypeOK, NEW r \in Runs
    PROVE  ~Stale(seen[r])
<1>1. seen[r] \in Bodies /\ now \in Nat
    BY RunLockAssumption DEF TypeOK
<1>2. \A s \in seen[r].started : now - s < TTL
    BY <1>1, RunLockAssumption DEF NothingGoesStale, Bodies
<1>3. \A p \in seen[r].pid : PidAlive(p)
    BY <1>1 DEF NothingGoesStale, PidAlive, Bodies
<1> QED
    BY <1>1, <1>2, <1>3, RunLockAssumption DEF Stale, Bodies

\* Time does not go back, the dead stay dead, and an execute that has begun has
\* begun.
LEMMA StalenessGrows ==
    ASSUME TypeOK, [Next]_vars, NothingGoesStale'
    PROVE  NothingGoesStale
<1>1. now <= now'
    BY RunLockAssumption
    DEF TypeOK, Next, RunStep, AcquireStep, ExecStep, Acquire, ReadBody, Judge,
        Recreate, Stamp, StampFails, Check, Open, WriteRunning, OpenFails, Drop,
        Exit, Crash, Tick, vars
<1>2. \A p \in Procs : (pc[p] = "gone" => pc'[p] = "gone")
                       /\ (pc[p] # "idle" => pc'[p] # "idle")
    BY DEF TypeOK, Next, RunStep, AcquireStep, ExecStep, Acquire, ReadBody, Judge,
           Recreate, Stamp, StampFails, Check, Open, WriteRunning, OpenFails,
           Drop, Exit, Crash, Tick, vars, Goto, Procs
<1>3. now < TTL
    BY <1>1, RunLockAssumption, NextTypeOK DEF NothingGoesStale, TypeOK
<1>4. RunsOnly
    BY <1>2 DEF NothingGoesStale, RunsOnly, Procs
<1>5. ProcFs => \A p \in Procs : Alive(p)
    BY <1>2 DEF NothingGoesStale, Alive
<1> QED
    BY <1>3, <1>4, <1>5 DEF NothingGoesStale

\* A step after which nothing can have been judged stale is one of these.
LEMMA RunsStep ==
    ASSUME TypeOK, Next, NothingGoesStale'
    PROVE  \/ \E r \in Runs : \/ Acquire(r)
                             \/ ReadBody(r)
                             \/ Judge(r)
                             \/ Recreate(r)
                             \/ Stamp(r)
                             \/ StampFails(r)
                             \/ Drop(r)
                             \/ Exit(r)
                             \/ Crash(r)
           \/ Tick
<1>1. RunsOnly
    BY StalenessGrows DEF NothingGoesStale
<1>2. ASSUME NEW x \in Execs
      PROVE  ~ExecStep(x) /\ ~Drop(x) /\ ~Exit(x) /\ ~Crash(x)
    <2>1. pc[x] = "idle"
        BY <1>1 DEF RunsOnly
    <2>2. pc'[x] = "idle"
        BY DEF NothingGoesStale, RunsOnly
    <2>3. ~Check(x)
        BY <2>1, <2>2 DEF Check, Goto, TypeOK, Procs
    <2>4. ~Open(x) /\ ~WriteRunning(x) /\ ~OpenFails(x)
        BY <2>1 DEF Open, WriteRunning, OpenFails, Goto
    <2> QED
        BY <2>1, <2>3, <2>4 DEF ExecStep, Drop, Exit, Crash, Goto
<1> QED
    BY <1>2 DEF Next, RunStep, AcquireStep, Procs

LEMMA OwnInvInit == Init => OwnInv
BY InitTypeOK DEF Init, OwnInv, InsideOwnsEntry, Inside, Procs

LEMMA OwnInvNext == OwnInv /\ [Next]_vars => OwnInv'
<1> SUFFICES ASSUME OwnInv, [Next]_vars, NothingGoesStale'
             PROVE  InsideOwnsEntry'
    BY NextTypeOK DEF OwnInv
<1>1. TypeOK /\ TypeOK' /\ NothingGoesStale /\ InsideOwnsEntry
    BY NextTypeOK, StalenessGrows DEF OwnInv
<1> USE <1>1 DEF TypeOK, InsideOwnsEntry, Inside, Procs, Goto
<1>2. ASSUME NEW r \in Runs, Acquire(r)
      PROVE  InsideOwnsEntry'
    <2>1. CASE CreateNew(r) /\ Goto(r, "idle", "created")
        BY <1>2, <2>1 DEF CreateNew
    <2>2. CASE entry # {} /\ Goto(r, "idle", "exists") /\ UNCHANGED entry
        BY <1>2, <2>2
    <2> QED
        BY <1>2, <2>1, <2>2 DEF Acquire
<1>3. ASSUME NEW r \in Runs, ReadBody(r)
      PROVE  InsideOwnsEntry'
    BY <1>3 DEF ReadBody
<1>4. ASSUME NEW r \in Runs, Judge(r)
      PROVE  InsideOwnsEntry'
    <2>1. ~Stale(seen[r])
        BY NeverStale
    <2> QED
        BY <1>4, <2>1 DEF Judge
<1>5. ASSUME NEW r \in Runs, Recreate(r)
      PROVE  InsideOwnsEntry'
    <2>1. CASE CreateNew(r) /\ Goto(r, "retry", "created")
        BY <1>5, <2>1 DEF CreateNew
    <2>2. CASE entry # {} /\ Goto(r, "retry", "refused") /\ UNCHANGED entry
        BY <1>5, <2>2
    <2> QED
        BY <1>5, <2>1, <2>2 DEF Recreate
<1>6. ASSUME NEW r \in Runs, Stamp(r)
      PROVE  InsideOwnsEntry'
    BY <1>6 DEF Stamp
<1>7. ASSUME NEW r \in Runs, StampFails(r)
      PROVE  InsideOwnsEntry'
    BY <1>7 DEF StampFails
<1>8. ASSUME NEW p \in Runs, Drop(p)
      PROVE  InsideOwnsEntry'
    <2>1. Inside = {p}
        BY <1>8 DEF Drop
    <2>2. /\ \A q \in Procs \ {p} : pc'[q] = pc[q]
          /\ pc'[p] = "released"
        BY <1>8 DEF Drop
    <2>3. Inside' = {}
        BY <2>1, <2>2
    <2> QED
        BY <2>3
<1>9. ASSUME NEW p \in Runs, Exit(p)
      PROVE  InsideOwnsEntry'
    BY <1>9 DEF Exit
<1>10. ASSUME NEW p \in Runs, Crash(p)
       PROVE  InsideOwnsEntry'
    BY <1>10 DEF Crash
<1>11. CASE Tick
    BY <1>11 DEF Tick
<1>12. CASE UNCHANGED vars
    BY <1>12 DEF vars
<1> QED
    BY <1>2, <1>3, <1>4, <1>5, <1>6, <1>7, <1>8, <1>9, <1>10, <1>11, <1>12,
       RunsStep

LEMMA OwnInvHolds == Spec => []OwnInv
BY OwnInvInit, OwnInvNext, PTL DEF Spec

\* run.rs: "Serialize with any other testsprite-rs run against this project".
\* Any number of runs, crashing wherever they like, exclude each other until
\* something can have been judged stale.
THEOREM ExclusionWithoutSteals == Spec => [](NothingGoesStale => MutualExclusion)
<1>1. OwnInv => (NothingGoesStale => MutualExclusion)
    BY DEF OwnInv, InsideOwnsEntry, Inside, MutualExclusion, Holders, Procs,
           NothingGoesStale, RunsOnly
<1> QED
    BY <1>1, OwnInvHolds, PTL

LEMMA MutexStep ==
    ASSUME OwnInv, [Next]_vars
    PROVE  [NothingGoesStale => Mutex!Next]_Inside
<1> SUFFICES ASSUME NothingGoesStale, Inside' # Inside
             PROVE  Mutex!Next
    OBVIOUS
<1>1. TypeOK /\ TypeOK' /\ InsideOwnsEntry
    BY NextTypeOK DEF OwnInv
<1> USE <1>1 DEF TypeOK, InsideOwnsEntry, Inside, Procs, Goto, Mutex!Next,
        Mutex!Enter, Mutex!Leave
<1>2. ASSUME NEW r \in Runs, Acquire(r)
      PROVE  Mutex!Next
    <2>1. CASE CreateNew(r) /\ Goto(r, "idle", "created")
        <3>1. Inside = {} /\ Inside' = {r}
            BY <1>2, <2>1 DEF CreateNew
        <3> QED
            BY <3>1
    <2>2. CASE entry # {} /\ Goto(r, "idle", "exists") /\ UNCHANGED entry
        BY <1>2, <2>2
    <2> QED
        BY <1>2, <2>1, <2>2 DEF Acquire
<1>3. ASSUME NEW r \in Runs, ReadBody(r)
      PROVE  Mutex!Next
    BY <1>3 DEF ReadBody
<1>4. ASSUME NEW r \in Runs, Judge(r)
      PROVE  Mutex!Next
    BY <1>4 DEF Judge
<1>5. ASSUME NEW r \in Runs, Recreate(r)
      PROVE  Mutex!Next
    <2>1. CASE CreateNew(r) /\ Goto(r, "retry", "created")
        <3>1. Inside = {} /\ Inside' = {r}
            BY <1>5, <2>1 DEF CreateNew
        <3> QED
            BY <3>1
    <2>2. CASE entry # {} /\ Goto(r, "retry", "refused") /\ UNCHANGED entry
        BY <1>5, <2>2
    <2> QED
        BY <1>5, <2>1, <2>2 DEF Recreate
<1>6. ASSUME NEW r \in Runs, Stamp(r)
      PROVE  Mutex!Next
    BY <1>6 DEF Stamp
<1>7. ASSUME NEW r \in Runs, StampFails(r)
      PROVE  Mutex!Next
    <2>1. r \in Inside /\ Inside' = Inside \ {r}
        BY <1>7 DEF StampFails
    <2> QED
        BY <2>1
<1>8. ASSUME NEW r \in Runs, Drop(r)
      PROVE  Mutex!Next
    <2>1. r \in Inside /\ Inside' = Inside \ {r}
        BY <1>8 DEF Drop
    <2> QED
        BY <2>1
<1>9. ASSUME NEW p \in Procs, Exit(p)
      PROVE  Mutex!Next
    BY <1>9 DEF Exit
<1>10. ASSUME NEW r \in Runs, Crash(r)
       PROVE  Mutex!Next
    <2>1. Inside' = Inside \ {r}
        BY <1>10 DEF Crash
    <2> QED
        BY <2>1
<1>11. CASE Tick
    BY <1>11 DEF Tick
<1>12. CASE UNCHANGED vars
    BY <1>12 DEF vars
<1>13. ASSUME NEW x \in Execs, ExecStep(x) \/ Drop(x) \/ Crash(x)
       PROVE  Mutex!Next
    <2>1. pc[x] = "idle" /\ x \notin Runs
        BY RunLockAssumption DEF NothingGoesStale, RunsOnly
    <2>2. Check(x)
        BY <1>13, <2>1 DEF ExecStep, Open, WriteRunning, OpenFails, Drop, Crash
    <2> QED
        BY <2>1, <2>2 DEF Check
<1> QED
    BY <1>2, <1>3, <1>4, <1>5, <1>6, <1>7, <1>8, <1>9, <1>10, <1>11, <1>12,
       <1>13
    DEF Next, RunStep, AcquireStep

\* The lock file implements the abstract project lock, for any number of runs,
\* until something can have been judged stale.
THEOREM LockImplementsMutex == Spec => ImplementsMutex
<1>1. Init => Mutex!Init
    BY DEF Init, Mutex!Init, Inside, Procs
<1>2. OwnInv /\ [Next]_vars => [NothingGoesStale => Mutex!Next]_Inside
    BY MutexStep
<1> QED
    BY <1>1, <1>2, OwnInvHolds, PTL DEF Spec, ImplementsMutex

-----------------------------------------------------------------------------
(***************************************************************************)
(* Two runs, with steals: a and b are all the invocations there are.       *)
(***************************************************************************)

Fresh(r) == r \in Inside /\ ~Overdue(r)

PairInv(a, b) ==
    \* what a run has not stamped is blank
    /\ pc[a] \notin {"held", "released", "gone"} => content[a] = Unstamped
    \* a pid is written only by its own run
    /\ content[a].pid \subseteq {a}
    \* no file of a is at the path before a has created one
    /\ a \in entry => pc[a] \notin {"idle", "exists", "judging", "retry"}
    \* what a has read of a lock is what b's inode holds, or was blank
    /\ pc[a] = "judging" =>
          /\ seen[a].pid \subseteq {b}
          /\ seen[a].started \subseteq content[b].started
    \* a fresh run has its file at the path unless b has been and gone
    /\ Fresh(a) => entry = {a} \/ pc[b] \in {"released", "gone"}

TwoInv(a, b) ==
    /\ TypeOK
    /\ PairInv(a, b)
    /\ PairInv(b, a)
    /\ ~(Fresh(a) /\ Fresh(b))

\* Every step is one of these, with a run written c and with no execute.
LEMMA RunSteps ==
    ASSUME Execs = {}, Next
    PROVE  \/ \E c \in Runs : \/ Acquire(c)
                             \/ ReadBody(c)
                             \/ Judge(c)
                             \/ Recreate(c)
                             \/ Stamp(c)
                             \/ StampFails(c)
                             \/ Drop(c)
                             \/ Exit(c)
                             \/ Crash(c)
           \/ Tick
BY DEF Next, RunStep, AcquireStep, Procs

\* One half of the invariant is preserved; by symmetry so is the other.
LEMMA PairStep ==
    ASSUME NEW a, NEW b, a # b, Runs = {a, b}, Execs = {},
           TwoInv(a, b), [Next]_vars
    PROVE  PairInv(a, b)' /\ (~(Fresh(a) /\ Fresh(b)))'
<1> DEFINE Goal == PairInv(a, b)' /\ (~(Fresh(a) /\ Fresh(b)))'
<1>1. TypeOK /\ TypeOK'
    BY NextTypeOK DEF TwoInv
<1> USE RunLockAssumption, <1>1
    DEF TwoInv, PairInv, Fresh, Overdue, Inside, TypeOK, Procs, Bodies,
        Unstamped, Goto
<1>2. ASSUME NEW c \in Runs, Acquire(c)
      PROVE  Goal
    <2>1. CASE CreateNew(c) /\ Goto(c, "idle", "created")
        BY <1>2, <2>1 DEF Acquire, CreateNew
    <2>2. CASE entry # {} /\ Goto(c, "idle", "exists") /\ UNCHANGED entry
        BY <1>2, <2>2 DEF Acquire
    <2> QED
        BY <1>2, <2>1, <2>2 DEF Acquire
<1>3. ASSUME NEW c \in Runs, ReadBody(c)
      PROVE  Goal
    BY <1>3 DEF ReadBody
<1>4. ASSUME NEW c \in Runs, Judge(c)
      PROVE  Goal
    <2>1. CASE Stale(seen[c])
        <3>1. c = b => ~Fresh(a)
            BY <1>4, <2>1 DEF Judge, Stale, PidAlive, Alive
        <3>2. c = a => ~Fresh(b)
            BY <1>4, <2>1 DEF Judge, Stale, PidAlive, Alive
        <3> QED
            BY <1>4, <3>1, <3>2 DEF Judge
    <2>2. CASE ~Stale(seen[c])
        BY <1>4, <2>2 DEF Judge
    <2> QED
        BY <2>1, <2>2
<1>5. ASSUME NEW c \in Runs, Recreate(c)
      PROVE  Goal
    <2>1. CASE CreateNew(c) /\ Goto(c, "retry", "created")
        BY <1>5, <2>1 DEF Recreate, CreateNew
    <2>2. CASE entry # {} /\ Goto(c, "retry", "refused") /\ UNCHANGED entry
        BY <1>5, <2>2 DEF Recreate
    <2> QED
        BY <1>5, <2>1, <2>2 DEF Recreate
<1>6. ASSUME NEW c \in Runs, Stamp(c)
      PROVE  Goal
    BY <1>6 DEF Stamp
<1>7. ASSUME NEW c \in Runs, StampFails(c)
      PROVE  Goal
    BY <1>7 DEF StampFails
<1>8. ASSUME NEW c \in Runs, Drop(c)
      PROVE  Goal
    BY <1>8 DEF Drop
<1>9. ASSUME NEW c \in Runs, Exit(c)
      PROVE  Goal
    BY <1>9 DEF Exit
<1>10. ASSUME NEW c \in Runs, Crash(c)
       PROVE  Goal
    BY <1>10 DEF Crash
<1>11. CASE Tick
    BY <1>11 DEF Tick
<1>12. CASE UNCHANGED vars
    BY <1>12 DEF vars
<1> QED
    BY <1>2, <1>3, <1>4, <1>5, <1>6, <1>7, <1>8, <1>9, <1>10, <1>11, <1>12,
       RunSteps

LEMMA TwoInvInductive ==
    ASSUME NEW a, NEW b, a # b, Runs = {a, b}, Execs = {}
    PROVE  (Init => TwoInv(a, b)) /\ (TwoInv(a, b) /\ [Next]_vars => TwoInv(a, b)')
<1>1. Init => TwoInv(a, b)
    BY InitTypeOK DEF Init, TwoInv, PairInv, Fresh, Inside, Unstamped, Procs
<1>2. ASSUME TwoInv(a, b), [Next]_vars
      PROVE  TwoInv(a, b)'
    <2>1. TypeOK'
        BY <1>2, NextTypeOK DEF TwoInv
    <2>2. PairInv(a, b)' /\ (~(Fresh(a) /\ Fresh(b)))'
        BY <1>2, PairStep
    <2>3. TwoInv(b, a) /\ Runs = {b, a}
        BY <1>2 DEF TwoInv
    <2>4. PairInv(b, a)'
        BY <1>2, <2>3, PairStep
    <2> QED
        BY <2>1, <2>2, <2>4 DEF TwoInv
<1> QED
    BY <1>1, <1>2

\* Two runs are inside together only when one of them has outlived the TTL,
\* wherever either of them crashes and whatever they steal from each other.
THEOREM TwoRunsExclude ==
    ASSUME NEW CONSTANT a, NEW CONSTANT b, a # b, Runs = {a, b}, Execs = {}
    PROVE  Spec => []ExclusiveWithinTTL
<1>1. (Init => TwoInv(a, b)) /\ (TwoInv(a, b) /\ [Next]_vars => TwoInv(a, b)')
    BY TwoInvInductive
<1>2. TwoInv(a, b) => ExclusiveWithinTTL
    BY DEF TwoInv, Fresh, ExclusiveWithinTTL, Holders, Inside, Procs
<1> QED
    BY <1>1, <1>2, PTL DEF Spec

-----------------------------------------------------------------------------
(***************************************************************************)
(* Two runs a and b beside one execute x. Until x has opened its file a    *)
(* run that is inside has its own at the path, so that x, when it finds    *)
(* the path free, finds nobody inside; and while x's file is there nobody  *)
(* gets in.                                                                *)
(***************************************************************************)

Unopened(x) == pc[x] \in {"idle", "checked"}

MarkInv(x) ==
    /\ TypeOK
    \* a pid is written only by its own run
    /\ \A i \in Procs : content[i].pid \subseteq Runs \cap {i}
    \* a file is at the path only once its creator has made it
    /\ \A r \in Runs : r \in entry => pc[r] \notin {"idle", "exists", "judging", "retry"}
    /\ Unopened(x) => x \notin entry
    \* what a run has read names another run or none
    /\ \A r \in Runs : pc[r] = "judging" => seen[r].pid \subseteq Runs \ {r}
    /\ now < TTL /\ Unopened(x) => \A r \in Inside : entry = {r}
    /\ now < TTL /\ x \in entry /\ Alive(x) => Inside = {}

\* Before the TTL only the stamp of a dead run is stale.
LEMMA StaleIsDead ==
    ASSUME TypeOK, NEW r \in Runs, now < TTL, Stale(seen[r])
    PROVE  \E p \in seen[r].pid : pc[p] = "gone"
<1>1. seen[r] \in Bodies /\ now \in Nat
    BY DEF TypeOK
<1>2. \A s \in seen[r].started : ~(now - s >= TTL)
    BY <1>1, RunLockAssumption DEF Bodies
<1> QED
    BY <1>2 DEF Stale, PidAlive, Alive

LEMMA MarkInit ==
    ASSUME NEW x, Execs = {x}
    PROVE  Init => MarkInv(x)
BY InitTypeOK DEF Init, MarkInv, Unopened, Inside, Unstamped, Procs

LEMMA MarkStep ==
    ASSUME NEW a, NEW b, NEW x, a # b, Runs = {a, b}, Execs = {x},
           MarkInv(x), [Next]_vars
    PROVE  MarkInv(x)'
<1>1. TypeOK /\ TypeOK' /\ x \notin Runs /\ x \in Procs
    BY NextTypeOK, RunLockAssumption DEF MarkInv, Procs
<1> USE RunLockAssumption, <1>1
    DEF MarkInv, Unopened, Inside, Alive, TypeOK, Procs, Bodies, Goto
<1>2. ASSUME NEW r \in Runs, Acquire(r)
      PROVE  MarkInv(x)'
    <2>1. CASE CreateNew(r) /\ Goto(r, "idle", "created")
        BY <1>2, <2>1 DEF Acquire, CreateNew
    <2>2. CASE entry # {} /\ Goto(r, "idle", "exists") /\ UNCHANGED entry
        BY <1>2, <2>2 DEF Acquire
    <2> QED
        BY <1>2, <2>1, <2>2 DEF Acquire
<1>3. ASSUME NEW r \in Runs, ReadBody(r)
      PROVE  MarkInv(x)'
    <2>1. CASE Goto(r, "exists", "refused") /\ UNCHANGED seen
        BY <1>3, <2>1 DEF ReadBody
    <2>2. ASSUME NEW i \in entry, Goto(r, "exists", "judging"),
                 seen' = [seen EXCEPT ![r] = content[i]]
          PROVE  MarkInv(x)'
        <3>1. i # r /\ i \in Procs
            BY <2>2
        <3>2. seen'[r].pid \subseteq Runs \ {r}
            BY <2>2, <3>1
        <3> QED
            BY <1>3, <2>2, <3>2 DEF ReadBody
    <2> QED
        BY <1>3, <2>1, <2>2 DEF ReadBody
<1>4. ASSUME NEW r \in Runs, Judge(r)
      PROVE  MarkInv(x)'
    <2>1. CASE Stale(seen[r]) /\ entry' = {} /\ Goto(r, "judging", "retry")
        <3>1. ASSUME now < TTL
              PROVE  Inside = {}
            <4>1. PICK p \in seen[r].pid : pc[p] = "gone"
                BY <2>1, <3>1, StaleIsDead
            <4>2. p \in Runs \ {r}
                BY <2>1, <4>1
            <4> QED
                BY <2>1, <4>1, <4>2
        <3> QED
            BY <1>4, <2>1, <3>1 DEF Judge
    <2>2. CASE Goto(r, "judging", "refused") /\ UNCHANGED entry
        BY <1>4, <2>2 DEF Judge
    <2> QED
        BY <1>4, <2>1, <2>2 DEF Judge
<1>5. ASSUME NEW r \in Runs, Recreate(r)
      PROVE  MarkInv(x)'
    <2>1. CASE CreateNew(r) /\ Goto(r, "retry", "created")
        BY <1>5, <2>1 DEF Recreate, CreateNew
    <2>2. CASE entry # {} /\ Goto(r, "retry", "refused") /\ UNCHANGED entry
        BY <1>5, <2>2 DEF Recreate
    <2> QED
        BY <1>5, <2>1, <2>2 DEF Recreate
<1>6. ASSUME NEW r \in Runs, Stamp(r)
      PROVE  MarkInv(x)'
    <2>1. \A i \in Procs : content'[i].pid \subseteq Runs \cap {i}
        BY <1>6 DEF Stamp
    <2>2. Inside' = Inside
        BY <1>6 DEF Stamp
    <2> QED
        BY <1>6, <2>1, <2>2 DEF Stamp
<1>7. ASSUME NEW r \in Runs, StampFails(r)
      PROVE  MarkInv(x)'
    BY <1>7 DEF StampFails
<1>8. CASE Check(x)
    BY <1>8 DEF Check
<1>9. CASE Open(x)
    <2>1. /\ pc[x] = "checked" /\ pc' = [pc EXCEPT ![x] = "opened"]
          /\ entry' = IF entry = {} THEN {x} ELSE entry
          /\ UNCHANGED <<seen, now>>
        BY <1>9 DEF Open
    <2>2. \A i \in Procs : content'[i].pid \subseteq Runs \cap {i}
        BY <1>9 DEF Open, Unstamped
    <2>3. Inside' = Inside
        BY <2>1
    <2>4. now < TTL /\ x \in entry' => Inside = {}
        BY <2>1
    <2>5. \A r \in Runs : pc'[r] = pc[r] /\ (r \in entry' => r \in entry)
        BY <2>1
    <2> QED
        BY <2>1, <2>2, <2>3, <2>4, <2>5
<1>10. CASE WriteRunning(x)
    <2>1. \A i \in Procs : content'[i].pid \subseteq Runs \cap {i}
        BY <1>10 DEF WriteRunning
    <2>2. Inside' = Inside
        BY <1>10 DEF WriteRunning
    <2> QED
        BY <1>10, <2>1, <2>2 DEF WriteRunning
<1>11. CASE OpenFails(x)
    BY <1>11 DEF OpenFails
<1>12. ASSUME NEW p \in Procs, Drop(p)
       PROVE  MarkInv(x)'
    <2>1. /\ pc[p] = "held" /\ pc' = [pc EXCEPT ![p] = "released"] /\ entry' = {}
          /\ UNCHANGED <<content, seen, now>>
        BY <1>12 DEF Drop
    <2>2. now < TTL /\ Unopened(x) => Inside' = {}
        BY <2>1
    <2> QED
        BY <2>1, <2>2
<1>13. ASSUME NEW p \in Procs, Exit(p)
       PROVE  MarkInv(x)'
    BY <1>13 DEF Exit
<1>14. ASSUME NEW p \in Procs, Crash(p)
       PROVE  MarkInv(x)'
    BY <1>14 DEF Crash
<1>15. CASE Tick
    BY <1>15 DEF Tick
<1>16. CASE UNCHANGED vars
    BY <1>16 DEF vars
<1>17. ASSUME NEW r \in Runs, RunStep(r)
       PROVE  MarkInv(x)'
    BY ONLY <1>2, <1>3, <1>4, <1>5, <1>6, <1>7, <1>17 DEF RunStep, AcquireStep
<1>18. CASE ExecStep(x)
    BY ONLY <1>8, <1>9, <1>10, <1>11, <1>18 DEF ExecStep
<1> QED
    BY ONLY <1>12, <1>13, <1>14, <1>15, <1>16, <1>17, <1>18,
       [Next]_vars, Execs = {x}
    DEF Next

\* execute.rs:163 "refuse to run if a previous run is still in progress", and a
\* run refuses beside an execute as well: of two runs none is inside while the
\* file that an execute made is at the path, whatever they steal from each
\* other, until the TTL has passed.
THEOREM MarkKeepsRunsOut ==
    ASSUME NEW CONSTANT a, NEW CONSTANT b, NEW CONSTANT x, a # b,
           Runs = {a, b}, Execs = {x}
    PROVE  Spec => []ExecuteMarkExcludesRuns
<1>1. Init => MarkInv(x)
    BY MarkInit
<1>2. MarkInv(x) /\ [Next]_vars => MarkInv(x)'
    BY MarkStep
<1>3. MarkInv(x) => ExecuteMarkExcludesRuns
    BY DEF MarkInv, ExecuteMarkExcludesRuns, Inside
<1> QED
    BY <1>1, <1>2, <1>3, PTL DEF Spec

=============================================================================
