---------------------------- MODULE AgentActions ----------------------------
(***************************************************************************)
(* The conversational agent (src/src/local/agent.rs) over its SQLite        *)
(* tables, with the front ends that call it (the command line, the MCP      *)
(* server, the Discord bot).  A call is one `message` or one `resolve`.     *)
(* Every call opens its own pool and nothing is in a transaction, so the    *)
(* statements that read or write pending_actions are steps of their own; the *)
(* rows of conversations and the transcript, which only the LLM reads, are  *)
(* left out, and an action_id stands for itself with its conversation.      *)
(***************************************************************************)
EXTENDS Naturals

CONSTANTS
  NCalls,        \* calls of the agent, from any front end
  MaxFaults      \* bound on killed processes and failed statements

ASSUME AgentAssumption == NCalls \in Nat /\ MaxFaults \in Nat

Calls == 1 .. NCalls      \* numbered in the order in which they begin

VARIABLES
  actions,       \* rows of `pending_actions`, by action_id
  call,          \* what each call is doing
  faults,
  approvedBy,    \* history: the approving calls of each action
  executedBy,    \* history: the calls that ran the pipeline of each action
  raced,         \* history: actions two calls had read as pending at once
  unrecorded     \* history: actions executed by a call that ended before its UPDATE

vars == <<actions, call, faults, approvedBy, executedBy, raced, unrecorded>>
history == <<approvedBy, executedBy, raced, unrecorded>>

Kinds == {"generate", "run"}
Rows == [kind : Kinds, status : {"pending", "rejected", "applied"}]
NoRow == [kind |-> "none", status |-> "no row"]
Steps == {"idle", "decide", "propose", "select", "reject",
          "execute", "pipeline", "apply", "touch", "done", "failed"}
Ids == Calls              \* a message proposes at most one action: its id names it
NoAction == 0

CallState == [at : Steps, kind : Kinds \cup {"none"},
              auto : BOOLEAN, id : Ids \cup {NoAction}, approve : BOOLEAN]

TypeOK ==
  /\ actions \in [Ids -> Rows \cup {NoRow}]
  /\ call \in [Calls -> CallState]
  /\ faults \in 0 .. MaxFaults
  /\ approvedBy \in [Ids -> SUBSET Calls]
  /\ executedBy \in [Ids -> SUBSET Calls]
  /\ raced \subseteq Ids
  /\ unrecorded \subseteq Ids

Init ==
  /\ actions = [a \in Ids |-> NoRow]
  /\ call = [c \in Calls |-> [at |-> "idle", kind |-> "none", auto |-> FALSE,
                              id |-> NoAction, approve |-> FALSE]]
  /\ faults = 0
  /\ approvedBy = [a \in Ids |-> {}] /\ executedBy = [a \in Ids |-> {}]
  /\ raced = {} /\ unrecorded = {}

At(c, step) == call[c].at = step
Begins(c) == At(c, "idle") /\ \A d \in Calls : d < c => ~At(d, "idle")
Goto(c, step) == call' = [call EXCEPT ![c].at = step]

-----------------------------------------------------------------------------
(* `message` *)

\* INSERT (OR IGNORE) INTO conversations and the user's message.
MessageStart(c, auto) ==
  /\ Begins(c)
  /\ call' = [call EXCEPT ![c] = [@ EXCEPT !.at = "decide", !.auto = auto]]
  /\ UNCHANGED <<actions, faults, history>>

\* decide(): the LLM or the keyword router names one action, or none.
MessageDecide(c, kind) ==
  /\ At(c, "decide")
  /\ call' = [call EXCEPT ![c].kind = kind,
                          ![c].at = IF kind = "none" THEN "touch" ELSE "propose"]
  /\ UNCHANGED <<actions, faults, history>>

\* INSERT INTO pending_actions ... RETURNING action_id; auto_approve calls resolve.
MessagePropose(c) ==
  /\ At(c, "propose")
  /\ actions' = [actions EXCEPT ![c] = [kind |-> call[c].kind, status |-> "pending"]]
  /\ call' = [call EXCEPT ![c].id = c, ![c].approve = call[c].auto,
                          ![c].at = IF call[c].auto THEN "select" ELSE "touch"]
  /\ approvedBy' = IF call[c].auto THEN [approvedBy EXCEPT ![c] = @ \cup {c}] ELSE approvedBy
  /\ UNCHANGED <<faults, executedBy, raced, unrecorded>>

\* UPDATE conversations SET updated_at, and the answer.
MessageTouch(c) ==
  /\ At(c, "touch")
  /\ Goto(c, "done")
  /\ UNCHANGED <<actions, faults, history>>

-----------------------------------------------------------------------------
(* `resolve` *)

\* A button, a command or an MCP call names an action; it may be one whose row is
\* not there (yet), or is another conversation's.
ResolveStart(c, a, approve) ==
  /\ Begins(c)
  /\ call' = [call EXCEPT ![c] = [@ EXCEPT !.at = "select", !.id = a,
                                           !.approve = approve]]
  /\ approvedBy' = IF approve THEN [approvedBy EXCEPT ![a] = @ \cup {c}] ELSE approvedBy
  /\ UNCHANGED <<actions, faults, executedBy, raced, unrecorded>>

\* The calls that have read `a` as pending and have not yet updated it.
Readers(a) == {c \in Calls : call[c].id = a
                 /\ call[c].at \in {"reject", "execute", "pipeline", "apply"}}

\* Mutant of ResolveSelect: no look at the status.
SelectUnchecked(c) ==
  /\ At(c, "select")
  /\ Goto(c, IF actions[call[c].id] = NoRow THEN "failed"
             ELSE IF call[c].approve THEN "execute" ELSE "reject")
  /\ raced' = IF Readers(call[c].id) # {} THEN raced \cup {call[c].id} ELSE raced
  /\ UNCHANGED <<actions, faults, approvedBy, executedBy, unrecorded>>

\* SELECT kind,args,status: bail unless the row is there and pending.
ResolveSelect(c) ==
  /\ At(c, "select")
  /\ LET a == call[c].id
         fresh == actions[a].status = "pending"
     IN /\ Goto(c, IF ~fresh THEN "failed" ELSE IF call[c].approve THEN "execute" ELSE "reject")
        /\ raced' = IF fresh /\ Readers(a) # {} THEN raced \cup {a} ELSE raced
  /\ UNCHANGED <<actions, faults, approvedBy, executedBy, unrecorded>>

\* Mutant of ResolveReject: "Skipped." without the UPDATE.
RejectUnrecorded(c) ==
  /\ At(c, "reject")
  /\ Goto(c, "done")
  /\ UNCHANGED <<actions, faults, history>>

\* UPDATE ... SET status='rejected', and the "Skipped." message.
ResolveReject(c) ==
  /\ At(c, "reject")
  /\ actions' = [actions EXCEPT ![call[c].id].status = "rejected"]
  /\ Goto(c, "done")
  /\ UNCHANGED <<faults, history>>

\* The calls whose run_collect holds the project lock.
RunLock == {c \in Calls : At(c, "pipeline") /\ actions[call[c].id].kind = "run"}

\* generate starts at once; run_collect fails when another run holds the lock.
ResolveExecute(c) ==
  /\ At(c, "execute")
  /\ Goto(c, IF actions[call[c].id].kind = "run" /\ RunLock # {} THEN "failed" ELSE "pipeline")
  /\ UNCHANGED <<actions, faults, history>>

\* Mutant of ResolvePipeline: after an error it is tried again.
PipelineRetried(c, ok) ==
  /\ At(c, "pipeline")
  /\ executedBy' = IF ok THEN [executedBy EXCEPT ![call[c].id] = @ \cup {c}] ELSE executedBy
  /\ Goto(c, IF ok THEN "apply" ELSE "execute")
  /\ UNCHANGED <<actions, faults, approvedBy, raced, unrecorded>>

\* The pipeline returns; its error leaves resolve before the UPDATE.
ResolvePipeline(c, ok) ==
  /\ At(c, "pipeline")
  /\ executedBy' = IF ok THEN [executedBy EXCEPT ![call[c].id] = @ \cup {c}] ELSE executedBy
  /\ Goto(c, IF ok THEN "apply" ELSE "failed")
  /\ UNCHANGED <<actions, faults, approvedBy, raced, unrecorded>>

\* UPDATE pending_actions SET status='applied' WHERE action_id=?: the status is
\* not looked at again.  Then the summary message; an auto-approved message goes
\* on with its last UPDATE.
ResolveApply(c) ==
  /\ At(c, "apply")
  /\ actions' = [actions EXCEPT ![call[c].id].status = "applied"]
  /\ Goto(c, IF call[c].auto THEN "touch" ELSE "done")
  /\ UNCHANGED <<faults, history>>

\* The process is killed, or a statement fails and `?` leaves the call.  (What
\* becomes of a killed run's lock is the matter of module RunLock.)
Fail(c) ==
  /\ faults < MaxFaults
  /\ call[c].at \notin {"idle", "done", "failed"}
  /\ faults' = faults + 1
  /\ Goto(c, "failed")
  /\ unrecorded' = IF At(c, "apply") THEN unrecorded \cup {call[c].id} ELSE unrecorded
  /\ UNCHANGED <<actions, approvedBy, executedBy, raced>>

Step(c) ==
  \/ \E kind \in Kinds \cup {"none"} : MessageDecide(c, kind)
  \/ MessagePropose(c) \/ MessageTouch(c)
  \/ ResolveSelect(c) \/ ResolveReject(c) \/ ResolveExecute(c)
  \/ \E ok \in BOOLEAN : ResolvePipeline(c, ok)
  \/ ResolveApply(c)

Start(c) ==
  \/ \E auto \in BOOLEAN : MessageStart(c, auto)
  \/ \E a \in Ids, approve \in BOOLEAN : ResolveStart(c, a, approve)

Next == \E c \in Calls : Start(c) \/ Step(c) \/ Fail(c)

Spec == Init /\ [][Next]_vars

\* A call that has started keeps taking steps unless it is killed.
FairSpec == Spec /\ \A c \in Calls : WF_vars(Step(c))
-----------------------------------------------------------------------------
(* Properties *)

\* Only an approved action is executed: whatever calls cross each other, each
\* run of the generate or run pipeline is by a call that was told to approve
\* that action (resolve's early return of the reject branch, agent.rs:215).
NothingRunsUnapproved == \A a \in Ids : executedBy[a] \subseteq approvedBy[a]

\* An action is executed a second time only when two calls had read it as
\* pending at once, or when the call that executed it ended before its UPDATE:
\* the status check of resolve keeps every later call out.
RepeatsAreExcused ==
  \A a \in Ids : a \notin raced \cup unrecorded =>
    \A c, d \in executedBy[a] : c = d

\* The ledger never says applied of an action whose pipeline has not run.
AppliedWasExecuted ==
  \A a \in Ids : actions[a].status = "applied" => executedBy[a] # {}

\* What a call answers is what the ledger keeps: unless another call raced it, a
\* call that ended well with an approval left its action applied, one with a
\* rejection left it rejected, and an auto-approved message left nothing pending.
AnswerIsRecorded ==
  \A c \in Calls :
    LET a == call[c].id
    IN At(c, "done") /\ a # NoAction /\ a \notin raced /\ (call[c].approve \/ call[c].kind = "none") =>
         actions[a].status = IF call[c].approve THEN "applied" ELSE "rejected"

\* A decision once recorded stands, unless two calls had read the action as
\* pending at once (the UPDATEs have no condition on the status).
DecisionsStand ==
  [][\A a \in Ids :
        actions[a].status \in {"rejected", "applied"} /\ a \notin raced => actions'[a].status = actions[a].status]_vars

\* A call that has begun answers or fails: nothing waits for another call.
CallsEnd ==
  \A c \in Calls : call[c].at # "idle" ~> call[c].at \in {"done", "failed"}
=============================================================================
