------------------------- MODULE AgentActions_proofs -------------------------
(***************************************************************************)
(* Safety of the agent's ledger, for any number of calls and of faults.     *)
(* The inductive invariant says what a call knows at each of its steps      *)
(* (CallShape), what the history of an action tells of its row (Ledger), and *)
(* that an action nobody raced has one reader at most and none once it is   *)
(* decided (Unraced).                                                       *)
(***************************************************************************)
EXTENDS AgentActions, TLAPS

Reading == {"reject", "execute", "pipeline", "apply"}

Shape(c) ==
  /\ call[c].at \in {"idle", "decide", "propose"} =>
       actions[c] = NoRow /\ ~call[c].approve /\ call[c].id = NoAction
  /\ At(c, "propose") => call[c].kind \in Kinds
  /\ At(c, "select") => call[c].id \in Ids
  /\ call[c].at \in Reading => call[c].id \in Ids /\ actions[call[c].id] # NoRow
  /\ call[c].at \in {"execute", "pipeline", "apply"} => call[c].approve
  /\ At(c, "reject") => ~call[c].approve
  /\ call[c].approve => call[c].id \in Ids /\ c \in approvedBy[call[c].id]

CallShape == \A c \in Calls : Shape(c)

Ledger ==
  /\ \A a \in Ids : \A c \in executedBy[a] : c \in approvedBy[a]
  /\ \A c \in Calls : At(c, "apply") => c \in executedBy[call[c].id]
  /\ \A a \in Ids : actions[a].status = "applied" => executedBy[a] # {}

Decided(a) == actions[a].status \in {"rejected", "applied"}

Unraced ==
  \A a \in Ids : a \notin raced =>
    /\ \A c, d \in Readers(a) : c = d
    /\ Decided(a) => Readers(a) = {}

Executed ==
  \A a \in Ids : a \notin raced \cup unrecorded =>
    \A c \in executedBy[a] :
      /\ \A d \in executedBy[a] : c = d
      /\ actions[a].status = "applied" \/ (At(c, "apply") /\ call[c].id = a)

Answered ==
  \A c \in Calls :
    call[c].at \in {"touch", "done"} /\ call[c].id # NoAction
    /\ (call[c].approve \/ call[c].kind = "none") /\ call[c].id \notin raced =>
      call[c].id \in Ids /\ actions[call[c].id].status = IF call[c].approve THEN "applied" ELSE "rejected"

IInv == TypeOK /\ CallShape /\ Ledger /\ Unraced /\ Executed /\ Answered

\* What a step of one call leaves: the state of the others, and its own fields.
Others(c) == \A d \in Calls \ {c} : call'[d] = call[d]
Becomes(c, s) ==
  /\ call' \in [Calls -> CallState]
  /\ Others(c)
  /\ call'[c].at = s
  /\ call'[c].kind = call[c].kind /\ call'[c].auto = call[c].auto
  /\ call'[c].id = call[c].id /\ call'[c].approve = call[c].approve

LEMMA GotoFacts ==
  ASSUME TypeOK, NEW c \in Calls, NEW s \in Steps, Goto(c, s)
  PROVE  Becomes(c, s)
BY DEF TypeOK, CallState, Goto, Becomes, Others

LEMMA RowFacts ==
  /\ NoRow.status = "no row"
  /\ \A r \in Rows : r.status \in {"pending", "rejected", "applied"} /\ r # NoRow
<1>1. NoRow.status = "no row"
  BY DEF NoRow
<1>2. \A r \in Rows : r.status \in {"pending", "rejected", "applied"}
  BY DEF Rows
<1> QED
  BY <1>1, <1>2

LEMMA StatusFacts ==
  ASSUME TypeOK, NEW a \in Ids, actions[a] # NoRow, NEW s \in {"rejected", "applied"},
         actions' = [actions EXCEPT ![a].status = s]
  PROVE  /\ actions' \in [Ids -> Rows \cup {NoRow}]
         /\ actions'[a].status = s /\ actions'[a] # NoRow
         /\ \A b \in Ids \ {a} : actions'[b] = actions[b]
<1>1. actions[a] \in Rows
  BY DEF TypeOK
<1>2. actions'[a] = [actions[a] EXCEPT !.status = s]
  BY DEF TypeOK
<1>3. actions'[a] \in Rows /\ actions'[a].status = s /\ actions'[a] # NoRow
  <2> DEFINE r == [actions[a] EXCEPT !.status = s]
  <2>1. r \in Rows /\ r.status = s
    BY <1>1 DEF Rows
  <2> QED
    BY <2>1, <1>2, RowFacts
<1>4. \A b \in Ids \ {a} : actions'[b] = actions[b]
  BY DEF TypeOK
<1>5. actions' \in [Ids -> Rows \cup {NoRow}]
  <2>1. actions' = [b \in Ids |-> actions'[b]]
    BY DEF TypeOK
  <2>2. \A b \in Ids : actions'[b] \in Rows \cup {NoRow}
    BY <1>3, <1>4 DEF TypeOK
  <2> QED
    BY <2>1, <2>2
<1> QED
  BY <1>3, <1>4, <1>5


\* The actions that read or write the ledger, as facts about single cells.
ProposeEffect(c) ==
  /\ call' \in [Calls -> CallState] /\ Others(c)
  /\ At(c, "propose") /\ call[c].kind \in Kinds /\ actions[c] = NoRow
  /\ call'[c].at = (IF call[c].auto THEN "select" ELSE "touch")
  /\ call'[c].kind = call[c].kind /\ call'[c].auto = call[c].auto
  /\ call'[c].id = c /\ call'[c].approve = call[c].auto
  /\ actions' \in [Ids -> Rows \cup {NoRow}]
  /\ actions'[c] \in Rows /\ actions'[c] # NoRow /\ actions'[c].status = "pending"
  /\ \A a \in Ids \ {c} : actions'[a] = actions[a]
  /\ approvedBy' \in [Ids -> SUBSET Calls]
  /\ \A a \in Ids : approvedBy[a] \subseteq approvedBy'[a]
  /\ call'[c].approve => c \in approvedBy'[c]
  /\ UNCHANGED <<faults, executedBy, raced, unrecorded>>

LEMMA ProposeFacts ==
  ASSUME TypeOK, CallShape, NEW c \in Calls, MessagePropose(c)
  PROVE  ProposeEffect(c)
<1> USE DEF ProposeEffect
<1>1. At(c, "propose") /\ call[c].kind \in Kinds /\ actions[c] = NoRow
  BY DEF MessagePropose, CallShape, Shape, At
<1>2. actions' = [actions EXCEPT ![c] = [kind |-> call[c].kind, status |-> "pending"]]
  BY DEF MessagePropose
<1>3. [kind |-> call[c].kind, status |-> "pending"] \in Rows
  BY <1>1 DEF Rows
<1>4. /\ actions' \in [Ids -> Rows \cup {NoRow}]
      /\ actions'[c] \in Rows /\ actions'[c].status = "pending"
      /\ \A a \in Ids \ {c} : actions'[a] = actions[a]
  BY <1>2, <1>3 DEF TypeOK, Ids
<1>5. actions'[c] # NoRow
  BY <1>4, RowFacts
<1>6. /\ call' \in [Calls -> CallState] /\ Others(c)
      /\ call'[c].at = (IF call[c].auto THEN "select" ELSE "touch")
      /\ call'[c].kind = call[c].kind /\ call'[c].auto = call[c].auto
      /\ call'[c].id = c /\ call'[c].approve = call[c].auto
  <2> DEFINE r == [call[c] EXCEPT !.id = c, !.approve = call[c].auto,
                                  !.at = IF call[c].auto THEN "select" ELSE "touch"]
  <2>1. call[c] \in CallState
    BY DEF TypeOK
  <2>2. /\ r \in CallState /\ r.at = (IF call[c].auto THEN "select" ELSE "touch")
        /\ r.kind = call[c].kind /\ r.auto = call[c].auto
        /\ r.id = c /\ r.approve = call[c].auto
    BY <2>1 DEF CallState, Steps, Ids
  <2>3. call' = [call EXCEPT ![c] = r]
    BY DEF MessagePropose, TypeOK
  <2> HIDE DEF r
  <2> QED
    BY <2>2, <2>3 DEF TypeOK, Others
<1>7. /\ approvedBy' \in [Ids -> SUBSET Calls]
      /\ \A a \in Ids : approvedBy[a] \subseteq approvedBy'[a]
      /\ call[c].auto => c \in approvedBy'[c]
      /\ UNCHANGED <<faults, executedBy, raced, unrecorded>>
  BY DEF MessagePropose, TypeOK, Ids
<1> QED
  BY <1>1, <1>4, <1>5, <1>6, <1>7

BeginEffect(c) ==
  /\ call' \in [Calls -> CallState] /\ Others(c)
  /\ call[c].at \in {"idle", "decide"}
  /\ UNCHANGED <<actions, executedBy, raced, unrecorded, faults>>
  /\ \/ /\ call'[c].at \in {"decide", "propose", "touch"}
        /\ call'[c].at = "propose" => call'[c].kind \in Kinds
        /\ call'[c].id = call[c].id /\ call'[c].approve = call[c].approve
        /\ UNCHANGED approvedBy
     \/ /\ call'[c].at = "select" /\ call'[c].id \in Ids
        /\ approvedBy' \in [Ids -> SUBSET Calls]
        /\ \A b \in Ids : approvedBy[b] \subseteq approvedBy'[b]
        /\ call'[c].approve => c \in approvedBy'[call'[c].id]

LEMMA BeginFacts ==
  ASSUME TypeOK, NEW c \in Calls,
         (\E auto \in BOOLEAN : MessageStart(c, auto))
         \/ (\E kind \in Kinds \cup {"none"} : MessageDecide(c, kind))
         \/ (\E a \in Ids, approve \in BOOLEAN : ResolveStart(c, a, approve))
  PROVE  BeginEffect(c)
<1> USE DEF BeginEffect
<1>0. call[c] \in CallState
  BY DEF TypeOK
<1>1. CASE \E auto \in BOOLEAN : MessageStart(c, auto)
  <2>1. PICK auto \in BOOLEAN : MessageStart(c, auto)
    BY <1>1
  <2> DEFINE r == [call[c] EXCEPT !.at = "decide", !.auto = auto]
  <2>2. r \in CallState /\ r.at = "decide" /\ r.id = call[c].id /\ r.approve = call[c].approve
    BY <1>0 DEF CallState, Steps
  <2>3. call' = [call EXCEPT ![c] = r]
    BY <2>1 DEF MessageStart, TypeOK
  <2>4. call[c].at = "idle" /\ UNCHANGED <<actions, faults, history>>
    BY <2>1 DEF MessageStart, Begins, At
  <2> HIDE DEF r
  <2> QED
    BY <2>2, <2>3, <2>4 DEF TypeOK, Others, history
<1>2. CASE \E kind \in Kinds \cup {"none"} : MessageDecide(c, kind)
  <2>1. PICK kind \in Kinds \cup {"none"} : MessageDecide(c, kind)
    BY <1>2
  <2> DEFINE r == [call[c] EXCEPT !.kind = kind, !.at = IF kind = "none" THEN "touch" ELSE "propose"]
  <2>2. /\ r \in CallState /\ r.at \in {"propose", "touch"} /\ (r.at = "propose" => r.kind \in Kinds)
        /\ r.id = call[c].id /\ r.approve = call[c].approve
    BY <1>0 DEF CallState, Steps
  <2>3. call' = [call EXCEPT ![c] = r]
    BY <2>1 DEF MessageDecide, TypeOK
  <2>4. call[c].at = "decide" /\ UNCHANGED <<actions, faults, history>>
    BY <2>1 DEF MessageDecide, At
  <2> HIDE DEF r
  <2> QED
    BY <2>2, <2>3, <2>4 DEF TypeOK, Others, history
<1>3. CASE \E a \in Ids, approve \in BOOLEAN : ResolveStart(c, a, approve)
  <2>1. PICK a \in Ids, approve \in BOOLEAN : ResolveStart(c, a, approve)
    BY <1>3
  <2> DEFINE r == [call[c] EXCEPT !.at = "select", !.id = a, !.approve = approve]
  <2>2. r \in CallState /\ r.at = "select" /\ r.id = a /\ r.approve = approve
    BY <1>0 DEF CallState, Steps
  <2>3. call' = [call EXCEPT ![c] = r]
    BY <2>1 DEF ResolveStart, TypeOK
  <2>4. /\ call[c].at = "idle" /\ UNCHANGED <<actions, faults, executedBy, raced, unrecorded>>
        /\ approvedBy' = IF approve THEN [approvedBy EXCEPT ![a] = @ \cup {c}] ELSE approvedBy
    BY <2>1 DEF ResolveStart, Begins, At
  <2>10. approvedBy \in [Ids -> SUBSET Calls]
    BY DEF TypeOK
  <2>11. approvedBy' \in [Ids -> SUBSET Calls]
    BY <2>4, <2>10
  <2>12. \A b \in Ids : approvedBy[b] \subseteq approvedBy'[b]
    BY <2>4, <2>10
  <2>13. approve => c \in approvedBy'[a]
    BY <2>4, <2>10
  <2> HIDE DEF r
  <2>5. call \in [Calls -> CallState]
    BY DEF TypeOK
  <2>6. call' \in [Calls -> CallState] /\ call'[c] = r
    BY <2>2, <2>3, <2>5
  <2>7. Others(c)
    BY <2>3, <2>5 DEF Others
  <2>8. call'[c].at = "select" /\ call'[c].id = a /\ call'[c].approve = approve
    BY <2>2, <2>6
  <2>9. call'[c].id \in Ids /\ (call'[c].approve => c \in approvedBy'[call'[c].id])
    BY <2>8, <2>13
  <2> QED
    BY <2>4, <2>6, <2>7, <2>8, <2>9, <2>11, <2>12
<1> QED
  BY <1>1, <1>2, <1>3

SelectEffect(c) ==
  LET a == call[c].id
  IN /\ At(c, "select") /\ a \in Ids
     /\ Becomes(c, IF actions[a].status # "pending" THEN "failed"
                   ELSE IF call[c].approve THEN "execute" ELSE "reject")
     /\ raced' = IF actions[a].status = "pending" /\ Readers(a) # {} THEN raced \cup {a} ELSE raced
     /\ UNCHANGED <<actions, faults, approvedBy, executedBy, unrecorded>>

LEMMA SelectFacts ==
  ASSUME TypeOK, CallShape, NEW c \in Calls, ResolveSelect(c)
  PROVE  SelectEffect(c)
<1> USE DEF SelectEffect
<1>1. At(c, "select") /\ call[c].id \in Ids
  BY DEF ResolveSelect, CallShape, Shape
<1> DEFINE s == IF actions[call[c].id].status # "pending" THEN "failed"
                ELSE IF call[c].approve THEN "execute" ELSE "reject"
<1>2. s \in Steps /\ Goto(c, s)
  BY DEF ResolveSelect, Steps
<1> QED
  BY <1>1, <1>2, GotoFacts DEF ResolveSelect

DecideEffect(c) ==
  LET a == call[c].id
  IN /\ a \in Ids /\ c \in Readers(a) /\ actions[a] # NoRow
     /\ \E s \in {"rejected", "applied"} :
          /\ s = (IF At(c, "apply") THEN "applied" ELSE "rejected")
          /\ s = (IF call[c].approve THEN "applied" ELSE "rejected")
          /\ actions' \in [Ids -> Rows \cup {NoRow}]
          /\ actions'[a].status = s /\ actions'[a] # NoRow
          /\ \A b \in Ids \ {a} : actions'[b] = actions[b]
     /\ \E t \in {"done", "touch"} : Becomes(c, t)
     /\ UNCHANGED <<faults, approvedBy, executedBy, raced, unrecorded>>

LEMMA DecideFacts ==
  ASSUME TypeOK, CallShape, NEW c \in Calls, ResolveReject(c) \/ ResolveApply(c)
  PROVE  DecideEffect(c)
<1> USE DEF DecideEffect
<1> DEFINE a == call[c].id
<1>1. CASE ResolveReject(c)
  <2>1. At(c, "reject") /\ a \in Ids /\ actions[a] # NoRow /\ ~call[c].approve
    BY <1>1 DEF ResolveReject, CallShape, Shape, At, Reading
  <2>2. Becomes(c, "done")
    BY <1>1, GotoFacts DEF ResolveReject, Steps
  <2>3. actions' = [actions EXCEPT ![a].status = "rejected"]
    BY <1>1 DEF ResolveReject
  <2> QED
    BY <1>1, <2>1, <2>2, <2>3, StatusFacts DEF ResolveReject, Readers, At, history
<1>2. CASE ResolveApply(c)
  <2>1. At(c, "apply") /\ a \in Ids /\ actions[a] # NoRow /\ call[c].approve
    BY <1>2 DEF ResolveApply, CallShape, Shape, At, Reading
  <2>2. \E t \in {"done", "touch"} : Becomes(c, t)
    BY <1>2, GotoFacts DEF ResolveApply, Steps
  <2>3. actions' = [actions EXCEPT ![a].status = "applied"]
    BY <1>2 DEF ResolveApply
  <2> QED
    BY <1>2, <2>1, <2>2, <2>3, StatusFacts DEF ResolveApply, Readers, At, history
<1> QED
  BY <1>1, <1>2

RunEffect(c) ==
  /\ UNCHANGED <<actions, approvedBy, raced>> /\ faults' \in 0 .. MaxFaults
  /\ \/ /\ At(c, "execute") /\ UNCHANGED <<executedBy, unrecorded>>
        /\ Becomes(c, "pipeline") \/ Becomes(c, "failed")
     \/ /\ At(c, "pipeline") /\ UNCHANGED unrecorded
        /\ \/ /\ Becomes(c, "apply")
              /\ executedBy' = [executedBy EXCEPT ![call[c].id] = @ \cup {c}]
           \/ Becomes(c, "failed") /\ UNCHANGED executedBy
     \/ At(c, "touch") /\ Becomes(c, "done") /\ UNCHANGED <<executedBy, unrecorded>>
     \/ /\ call[c].at \notin {"idle", "done", "failed"} /\ Becomes(c, "failed")
        /\ UNCHANGED executedBy
        /\ unrecorded' = IF At(c, "apply") THEN unrecorded \cup {call[c].id} ELSE unrecorded

LEMMA RunFacts ==
  ASSUME TypeOK, CallShape, NEW c \in Calls,
         ResolveExecute(c) \/ (\E ok \in BOOLEAN : ResolvePipeline(c, ok)) \/ MessageTouch(c) \/ Fail(c)
  PROVE  RunEffect(c)
<1>1. CASE ResolveExecute(c)
  <2>1. Becomes(c, "pipeline") \/ Becomes(c, "failed")
    BY <1>1, GotoFacts DEF ResolveExecute, Steps
  <2> QED
    BY <1>1, <2>1 DEF ResolveExecute, RunEffect, TypeOK, history
<1>2. CASE \E ok \in BOOLEAN : ResolvePipeline(c, ok)
  <2>1. PICK ok \in BOOLEAN : ResolvePipeline(c, ok)
    BY <1>2
  <2>2. Becomes(c, IF ok THEN "apply" ELSE "failed")
    BY <2>1, GotoFacts DEF ResolvePipeline, Steps
  <2> QED
    BY <2>1, <2>2 DEF ResolvePipeline, RunEffect, TypeOK
<1>3. CASE MessageTouch(c)
  <2>1. Becomes(c, "done")
    BY <1>3, GotoFacts DEF MessageTouch, Steps
  <2> QED
    BY <1>3, <2>1 DEF MessageTouch, RunEffect, TypeOK, history
<1>4. CASE Fail(c)
  <2>1. Becomes(c, "failed")
    BY <1>4, GotoFacts DEF Fail, Steps
  <2>2. faults' \in 0 .. MaxFaults
    BY <1>4, AgentAssumption DEF Fail, TypeOK
  <2> QED
    BY <1>4, <2>1, <2>2 DEF Fail, RunEffect
<1> QED
  BY <1>1, <1>2, <1>3, <1>4

\* Every step is of one of these five kinds.
LEMMA NextEffects ==
  ASSUME TypeOK, CallShape, [Next]_vars
  PROVE  \/ UNCHANGED vars
         \/ \E c \in Calls : BeginEffect(c) \/ ProposeEffect(c) \/ SelectEffect(c)
                             \/ DecideEffect(c) \/ RunEffect(c)
<1>1. CASE Next
  <2>1. PICK c \in Calls : Start(c) \/ Step(c) \/ Fail(c)
    BY <1>1 DEF Next
  <2> QED
    BY <2>1, BeginFacts, ProposeFacts, SelectFacts, DecideFacts, RunFacts DEF Start, Step
<1> QED
  BY <1>1

LEMMA InitIInv == Init => IInv
<1> SUFFICES ASSUME Init PROVE IInv
  OBVIOUS
<1>1. TypeOK
  BY AgentAssumption DEF Init, TypeOK, Ids, CallState, Steps, NoAction
<1>2. CallShape
  BY DEF Init, CallShape, Shape, At, Reading, Ids
<1>3. Ledger /\ Unraced /\ Executed /\ Answered
  BY DEF Init, Ledger, Unraced, Executed, Answered, Decided, Readers, At, NoRow
<1> QED
  BY <1>1, <1>2, <1>3 DEF IInv

LEMMA NextCallShape == TypeOK /\ CallShape /\ [Next]_vars => CallShape'
<1> USE AgentAssumption
<1> SUFFICES ASSUME TypeOK, CallShape, [Next]_vars PROVE CallShape'
  OBVIOUS
<1>0. CASE UNCHANGED vars
  BY <1>0 DEF vars, CallShape, Shape, At
<1>1. ASSUME NEW c \in Calls, BeginEffect(c) PROVE CallShape'
  <2> SUFFICES ASSUME NEW d \in Calls PROVE Shape(d)'
    BY DEF CallShape
  <2>1. Shape(d) /\ Shape(c)
    BY DEF CallShape
  <2>2. CASE d = c
    BY <1>1, <2>1, <2>2, RowFacts DEF BeginEffect, Shape, At, Reading, TypeOK, CallState, Ids, Becomes, Readers, NoAction
  <2>3. CASE d # c
    BY <1>1, <2>1, <2>3, RowFacts DEF BeginEffect, Shape, At, Reading, TypeOK, CallState, Ids, Others, Becomes, Readers, NoAction
  <2> QED
    BY <2>2, <2>3
<1>2. ASSUME NEW c \in Calls, ProposeEffect(c) PROVE CallShape'
  <2> SUFFICES ASSUME NEW d \in Calls PROVE Shape(d)'
    BY DEF CallShape
  <2>1. Shape(d) /\ Shape(c)
    BY DEF CallShape
  <2>2. CASE d = c
    <3>1. /\ call'[c].at \in {"select", "touch"} /\ call'[c].id = c
          /\ call'[c].approve => c \in approvedBy'[c]
      BY <1>2 DEF ProposeEffect
    <3>2. /\ call'[d].at \in {"select", "touch"} /\ call'[d].id = d
          /\ call'[d].approve => d \in approvedBy'[d]
      BY <2>2, <3>1
    <3> QED
      BY <3>2 DEF Shape, At, Reading, Ids
  <2>3. CASE d # c
    <3>1. call'[d] = call[d]
      BY <1>2, <2>3 DEF ProposeEffect, Others
    <3>2. \A b \in Ids : actions[b] # NoRow => actions'[b] # NoRow
      BY <1>2 DEF ProposeEffect
    <3>3. actions'[d] = actions[d]
      BY <1>2, <2>3 DEF ProposeEffect, Ids
    <3>4. \A b \in Ids : approvedBy[b] \subseteq approvedBy'[b]
      BY <1>2 DEF ProposeEffect
    <3> QED
      BY <2>1, <3>1, <3>2, <3>3, <3>4 DEF Shape, At, Reading, Ids
  <2> QED
    BY <2>2, <2>3
<1>3. ASSUME NEW c \in Calls, SelectEffect(c) PROVE CallShape'
  <2> SUFFICES ASSUME NEW d \in Calls PROVE Shape(d)'
    BY DEF CallShape
  <2>1. Shape(d) /\ Shape(c)
    BY DEF CallShape
  <2>2. CASE d = c
    BY <1>3, <2>1, <2>2, RowFacts DEF SelectEffect, Shape, At, Reading, TypeOK, CallState, Ids, Becomes, Readers, NoAction
  <2>3. CASE d # c
    BY <1>3, <2>1, <2>3, RowFacts DEF SelectEffect, Shape, At, Reading, TypeOK, CallState, Ids, Others, Becomes, Readers, NoAction
  <2> QED
    BY <2>2, <2>3
<1>4. ASSUME NEW c \in Calls, DecideEffect(c) PROVE CallShape'
  <2> SUFFICES ASSUME NEW d \in Calls PROVE Shape(d)'
    BY DEF CallShape
  <2>1. Shape(d) /\ Shape(c)
    BY DEF CallShape
  <2>2. CASE d = c
    BY <1>4, <2>1, <2>2, RowFacts DEF DecideEffect, Shape, At, Reading, TypeOK, CallState, Ids, Becomes, Readers, NoAction
  <2>3. CASE d # c
    <3>1. \A b \in Ids : actions'[b] = NoRow <=> actions[b] = NoRow
      BY <1>4 DEF DecideEffect
    <3>2. call'[d] = call[d] /\ approvedBy' = approvedBy
      BY <1>4, <2>3 DEF DecideEffect, Becomes, Others
    <3> QED
      BY <2>1, <3>1, <3>2 DEF Shape, At, Reading, Ids
  <2> QED
    BY <2>2, <2>3
<1>5. ASSUME NEW c \in Calls, RunEffect(c) PROVE CallShape'
  <2> SUFFICES ASSUME NEW d \in Calls PROVE Shape(d)'
    BY DEF CallShape
  <2>1. Shape(d) /\ Shape(c)
    BY DEF CallShape
  <2>2. CASE d = c
    BY <1>5, <2>1, <2>2, RowFacts DEF RunEffect, Shape, At, Reading, TypeOK, CallState, Ids, Becomes, Readers, NoAction
  <2>3. CASE d # c
    BY <1>5, <2>1, <2>3, RowFacts DEF RunEffect, Shape, At, Reading, TypeOK, CallState, Ids, Others, Becomes, Readers, NoAction
  <2> QED
    BY <2>2, <2>3
<1> QED
  BY <1>0, <1>1, <1>2, <1>3, <1>4, <1>5, NextEffects

LEMMA NextTypeOK == TypeOK /\ CallShape /\ [Next]_vars => TypeOK'
<1> SUFFICES ASSUME TypeOK, CallShape, [Next]_vars PROVE TypeOK'
  OBVIOUS
<1>0. CASE UNCHANGED vars
  BY <1>0 DEF vars, TypeOK
<1>1. ASSUME NEW c \in Calls, BeginEffect(c) PROVE TypeOK'
  BY <1>1 DEF BeginEffect, TypeOK
<1>2. ASSUME NEW c \in Calls, ProposeEffect(c) PROVE TypeOK'
  BY <1>2 DEF ProposeEffect, TypeOK
<1>3. ASSUME NEW c \in Calls, SelectEffect(c) PROVE TypeOK'
  BY <1>3 DEF SelectEffect, Becomes, TypeOK
<1>4. ASSUME NEW c \in Calls, DecideEffect(c) PROVE TypeOK'
  BY <1>4 DEF DecideEffect, Becomes, TypeOK
<1>5. ASSUME NEW c \in Calls, RunEffect(c) PROVE TypeOK'
  <2>1. Shape(c)
    BY DEF CallShape
  <2>2. call' \in [Calls -> CallState]
    BY <1>5 DEF RunEffect, Becomes
  <2>3. executedBy' \in [Ids -> SUBSET Calls] /\ unrecorded' \subseteq Ids
    BY <1>5, <2>1 DEF RunEffect, TypeOK, Shape, At, Reading
  <2> QED
    BY <1>5, <2>2, <2>3 DEF RunEffect, TypeOK
<1> QED
  BY <1>0, <1>1, <1>2, <1>3, <1>4, <1>5, NextEffects

LEMMA NextLedger == TypeOK /\ CallShape /\ Ledger /\ [Next]_vars => Ledger'
<1> SUFFICES ASSUME TypeOK, CallShape, Ledger, [Next]_vars PROVE Ledger'
  OBVIOUS
<1>0. CASE UNCHANGED vars
  BY <1>0 DEF vars, Ledger, At
<1>1. ASSUME NEW c \in Calls, BeginEffect(c) PROVE Ledger'
  BY <1>1 DEF BeginEffect, Ledger, TypeOK, Others, At
<1>2. ASSUME NEW c \in Calls, ProposeEffect(c) PROVE Ledger'
  BY <1>2 DEF ProposeEffect, Ledger, TypeOK, Others, At
<1>3. ASSUME NEW c \in Calls, SelectEffect(c) PROVE Ledger'
  BY <1>3 DEF SelectEffect, Ledger, TypeOK, Others, At, Becomes
<1>4. ASSUME NEW c \in Calls, DecideEffect(c) PROVE Ledger'
  BY <1>4 DEF DecideEffect, Ledger, TypeOK, Others, At, Becomes
<1>5. ASSUME NEW c \in Calls, RunEffect(c) PROVE Ledger'
  <2>1. Shape(c)
    BY DEF CallShape
  <2>2. CASE At(c, "pipeline") /\ executedBy' = [executedBy EXCEPT ![call[c].id] = @ \cup {c}]
                               /\ Becomes(c, "apply")
    <3>1. call[c].id \in Ids /\ c \in approvedBy[call[c].id]
      BY <2>1, <2>2 DEF Shape, At, Reading
    <3>2. c \in executedBy'[call[c].id] /\ \A a \in Ids : executedBy[a] \subseteq executedBy'[a]
      BY <2>2, <3>1 DEF TypeOK
    <3>3. \A a \in Ids : \A d \in executedBy'[a] : d \in approvedBy'[a]
      BY <1>5, <2>2, <3>1 DEF RunEffect, Ledger, TypeOK
    <3>4. \A d \in Calls : At(d, "apply")' => d \in executedBy'[call'[d].id]
      <4> SUFFICES ASSUME NEW d \in Calls, At(d, "apply")' PROVE d \in executedBy'[call'[d].id]
        OBVIOUS
      <4>1. CASE d = c
        BY <2>2, <3>2, <4>1 DEF Becomes
      <4>2. CASE d # c
        <5>1. call'[d] = call[d] /\ At(d, "apply")
          BY <2>2, <4>2 DEF Becomes, Others, At
        <5>2. Shape(d) /\ d \in executedBy[call[d].id]
          BY <5>1 DEF CallShape, Ledger
        <5> QED
          BY <3>2, <5>1, <5>2 DEF Shape, At, Reading
      <4> QED
        BY <4>1, <4>2
    <3> QED
      BY <1>5, <3>2, <3>3, <3>4 DEF RunEffect, Ledger
  <2>3. CASE executedBy' = executedBy /\ \E s \in {"pipeline", "failed", "done"} : Becomes(c, s)
    BY <1>5, <2>3 DEF RunEffect, Ledger, Others, At, Becomes
  <2> QED
    BY <1>5, <2>2, <2>3 DEF RunEffect
<1> QED
  BY <1>0, <1>1, <1>2, <1>3, <1>4, <1>5, NextEffects

LEMMA NextUnraced == TypeOK /\ CallShape /\ Unraced /\ [Next]_vars => Unraced'
<1> SUFFICES ASSUME TypeOK, CallShape, Unraced, [Next]_vars PROVE Unraced'
  OBVIOUS
<1>0. CASE UNCHANGED vars
  BY <1>0 DEF vars, Unraced, Readers, Decided
<1>1. ASSUME NEW c \in Calls, BeginEffect(c) PROVE Unraced'
  <2>1. \A a \in Ids : Readers(a)' \subseteq Readers(a)
    BY <1>1 DEF BeginEffect, Readers, Others
  <2> QED
    BY <1>1, <2>1 DEF BeginEffect, Unraced, Decided
<1>2. ASSUME NEW c \in Calls, ProposeEffect(c) PROVE Unraced'
  <2>1. \A a \in Ids : Readers(a)' \subseteq Readers(a)
    BY <1>2 DEF ProposeEffect, Readers, Others
  <2> QED
    BY <1>2, <2>1 DEF ProposeEffect, Unraced, Decided, Ids
<1>3. ASSUME NEW c \in Calls, SelectEffect(c) PROVE Unraced'
  <2>0. PICK b \in Ids : b = call[c].id
    BY <1>3 DEF SelectEffect
  <2>1. \A a \in Ids : a # b => Readers(a)' \subseteq Readers(a)
    BY <1>3, <2>0 DEF SelectEffect, Becomes, Readers, Others
  <2>2. Readers(b)' \subseteq Readers(b) \cup {c}
    BY <1>3, <2>0 DEF SelectEffect, Becomes, Readers, Others
  <2>3. actions[b].status # "pending" => Readers(b)' \subseteq Readers(b)
    BY <1>3, <2>0 DEF SelectEffect, Becomes, Readers, Others
  <2>4. raced \subseteq raced' /\ actions' = actions
    BY <1>3 DEF SelectEffect
  <2>5. actions[b].status = "pending" /\ b \notin raced' => Readers(b) = {}
    BY <1>3, <2>0 DEF SelectEffect
  <2> SUFFICES ASSUME NEW a \in Ids, a \notin raced'
               PROVE (\A d, e \in Readers(a)' : d = e) /\ (Decided(a)' => Readers(a)' = {})
    BY DEF Unraced
  <2>6. (\A d, e \in Readers(a) : d = e) /\ (Decided(a) => Readers(a) = {})
    BY <2>4 DEF Unraced
  <2>7. Decided(a)' <=> Decided(a)
    BY <2>4 DEF Decided
  <2>8. CASE a # b
    BY <2>1, <2>6, <2>7, <2>8
  <2>9. CASE a = b /\ actions[a].status = "pending"
    BY <2>2, <2>5, <2>7, <2>9 DEF Decided
  <2>10. CASE a = b /\ actions[a].status # "pending"
    BY <2>3, <2>6, <2>7, <2>10
  <2> QED
    BY <2>8, <2>9, <2>10
<1>4. ASSUME NEW c \in Calls, DecideEffect(c) PROVE Unraced'
  <2> SUFFICES ASSUME NEW a \in Ids, a \notin raced'
               PROVE (\A d, e \in Readers(a)' : d = e) /\ (Decided(a)' => Readers(a)' = {})
    BY DEF Unraced
  <2>1. (\A d, e \in Readers(a) : d = e) /\ (Decided(a) => Readers(a) = {})
    BY <1>4 DEF Unraced, DecideEffect
  <2>2. Readers(a)' = Readers(a) \ {c}
    BY <1>4 DEF DecideEffect, Becomes, Readers, Others
  <2>3. a # call[c].id => (Decided(a)' <=> Decided(a))
    BY <1>4 DEF DecideEffect, Decided
  <2>4. a = call[c].id => c \in Readers(a)
    BY <1>4 DEF DecideEffect
  <2> QED
    BY <2>1, <2>2, <2>3, <2>4
<1>5. ASSUME NEW c \in Calls, RunEffect(c) PROVE Unraced'
  <2>1. \A a \in Ids : Readers(a)' \subseteq Readers(a)
    BY <1>5 DEF RunEffect, Becomes, Readers, Others, At
  <2> QED
    BY <1>5, <2>1 DEF RunEffect, Unraced, Decided
<1> QED
  BY <1>0, <1>1, <1>2, <1>3, <1>4, <1>5, NextEffects

LEMMA NextExecuted ==
  TypeOK /\ CallShape /\ Unraced /\ Executed /\ [Next]_vars => Executed'
<1> SUFFICES ASSUME TypeOK, CallShape, Unraced, Executed, [Next]_vars PROVE Executed'
  OBVIOUS
<1> DEFINE Once(a) == \A e \in executedBy[a] :
                        /\ \A f \in executedBy[a] : e = f
                        /\ actions[a].status = "applied" \/ (At(e, "apply") /\ call[e].id = a)
<1> SUFFICES ASSUME NEW a \in Ids, a \notin raced' \cup unrecorded' PROVE Once(a)'
  BY DEF Executed
<1>0. CASE UNCHANGED vars
  BY <1>0 DEF vars, Executed, At
<1>1. ASSUME NEW c \in Calls, BeginEffect(c) PROVE Once(a)'
  BY <1>1 DEF BeginEffect, Executed, At, Others, TypeOK
<1>2. ASSUME NEW c \in Calls, ProposeEffect(c) PROVE Once(a)'
  <2>1. Once(a) /\ executedBy' = executedBy
    BY <1>2 DEF ProposeEffect, Executed
  <2>2. \A e \in Calls : At(e, "apply") => call'[e] = call[e]
    BY <1>2 DEF ProposeEffect, Others, At
  <2>3. actions[a].status = "applied" => actions'[a] = actions[a]
    BY <1>2, RowFacts DEF ProposeEffect, Ids
  <2> QED
    BY <2>1, <2>2, <2>3 DEF At, TypeOK
<1>3. ASSUME NEW c \in Calls, SelectEffect(c) PROVE Once(a)'
  <2>1. Once(a) /\ executedBy' = executedBy /\ actions' = actions
    BY <1>3 DEF SelectEffect, Executed
  <2>2. \A e \in Calls : At(e, "apply") => call'[e] = call[e]
    BY <1>3 DEF SelectEffect, Becomes, Others, At
  <2> QED
    BY <2>1, <2>2 DEF At, TypeOK
<1>4. ASSUME NEW c \in Calls, DecideEffect(c) PROVE Once(a)'
  <2>1. Once(a) /\ executedBy' = executedBy /\ a \notin raced
    BY <1>4 DEF DecideEffect, Executed
  <2>2. (\A d, e \in Readers(a) : d = e) /\ (Decided(a) => Readers(a) = {})
    BY <2>1 DEF Unraced
  <2>3. CASE call[c].id = a
    <3>1. c \in Readers(a)
      BY <1>4, <2>3 DEF DecideEffect
    <3>2. \A e \in executedBy[a] : e = c /\ At(c, "apply")
      BY <2>1, <2>2, <3>1 DEF Decided, Readers, At, TypeOK
    <3>3. At(c, "apply") => actions'[a].status = "applied"
      BY <1>4, <2>3 DEF DecideEffect
    <3> QED
      BY <2>1, <3>2, <3>3
  <2>4. CASE call[c].id # a
    <3>1. actions'[a] = actions[a] /\ \A e \in Calls \ {c} : call'[e] = call[e]
      BY <1>4, <2>4 DEF DecideEffect, Becomes, Others
    <3> QED
      BY <2>1, <2>4, <3>1 DEF At, TypeOK
  <2> QED
    BY <2>3, <2>4
<1>5. ASSUME NEW c \in Calls, RunEffect(c) PROVE Once(a)'
  <2>1. Once(a) /\ a \notin raced /\ actions' = actions /\ Shape(c)
    BY <1>5 DEF RunEffect, Executed, CallShape
  <2>2. (\A d, e \in Readers(a) : d = e) /\ (Decided(a) => Readers(a) = {})
    BY <2>1 DEF Unraced
  <2>3. \A e \in Calls \ {c} : call'[e] = call[e]
    BY <1>5 DEF RunEffect, Becomes, Others
  <2>4. CASE /\ At(c, "pipeline") /\ Becomes(c, "apply")
             /\ executedBy' = [executedBy EXCEPT ![call[c].id] = @ \cup {c}]
    <3>1. call[c].id \in Ids
      BY <2>1, <2>4 DEF Shape, At, Reading
    <3>2. CASE call[c].id = a
      <4>1. c \in Readers(a)
        BY <2>4, <3>2 DEF Readers, At
      <4>2. executedBy[a] = {}
        BY <2>1, <2>2, <2>4, <4>1 DEF Decided, Readers, At, TypeOK
      <4>3. executedBy'[a] = {c}
        BY <2>4, <3>2, <4>2 DEF TypeOK
      <4>4. At(c, "apply")' /\ call'[c].id = a
        BY <2>4, <3>2 DEF Becomes, At
      <4> QED
        BY <4>3, <4>4
    <3>3. CASE call[c].id # a
      <4>1. executedBy'[a] = executedBy[a]
        BY <2>4, <3>1, <3>3 DEF TypeOK
      <4> QED
        BY <2>1, <2>3, <2>4, <3>3, <4>1 DEF At, TypeOK
    <3> QED
      BY <3>2, <3>3
  <2>5. CASE executedBy' = executedBy
    <3>1. At(c, "apply") => call[c].id # a
      BY <1>5 DEF RunEffect, At
    <3> QED
      BY <2>1, <2>3, <2>5, <3>1 DEF At, TypeOK
  <2> QED
    BY <1>5, <2>4, <2>5 DEF RunEffect
<1> QED
  BY <1>0, <1>1, <1>2, <1>3, <1>4, <1>5, NextEffects

LEMMA NextAnswered ==
  TypeOK /\ CallShape /\ Unraced /\ Answered /\ [Next]_vars => Answered'
<1> SUFFICES ASSUME TypeOK, CallShape, Unraced, Answered, [Next]_vars PROVE Answered'
  OBVIOUS
<1> DEFINE Due(d) == /\ call[d].at \in {"touch", "done"} /\ call[d].id # NoAction
                     /\ call[d].approve \/ call[d].kind = "none"
                     /\ call[d].id \notin raced
           Told(d) == /\ call[d].id \in Ids
                      /\ actions[call[d].id].status = IF call[d].approve THEN "applied" ELSE "rejected"
<1> SUFFICES ASSUME NEW d \in Calls, Due(d)' PROVE Told(d)'
  BY DEF Answered
<1>a. Shape(d) /\ (Due(d) => Told(d))
  BY DEF CallShape, Answered
<1>b. Due(d) => \A c \in Calls : c \notin Readers(call[d].id)
  BY <1>a DEF Unraced, Decided
<1>0. CASE UNCHANGED vars
  BY <1>0, <1>a DEF vars
<1>1. ASSUME NEW c \in Calls, BeginEffect(c) PROVE Told(d)'
  <2>1. CASE d # c
    BY <1>1, <1>a, <2>1 DEF BeginEffect, Others
  <2>2. CASE d = c
    BY <1>1, <1>a, <2>2 DEF BeginEffect, Shape
  <2> QED
    BY <2>1, <2>2
<1>2. ASSUME NEW c \in Calls, ProposeEffect(c) PROVE Told(d)'
  <2>1. CASE d # c
    <3>1. call'[d] = call[d] /\ Told(d)
      BY <1>2, <1>a, <2>1 DEF ProposeEffect, Others
    <3>2. call[d].id # c
      BY <1>2, <3>1, RowFacts DEF ProposeEffect
    <3> QED
      BY <1>2, <3>1, <3>2 DEF ProposeEffect
  <2>2. CASE d = c
    BY <1>2, <2>2 DEF ProposeEffect, Kinds
  <2> QED
    BY <2>1, <2>2
<1>3. ASSUME NEW c \in Calls, SelectEffect(c) PROVE Told(d)'
  <2>1. CASE d # c
    BY <1>3, <1>a, <2>1 DEF SelectEffect, Becomes, Others
  <2>2. CASE d = c
    BY <1>3, <2>2 DEF SelectEffect, Becomes
  <2> QED
    BY <2>1, <2>2
<1>4. ASSUME NEW c \in Calls, DecideEffect(c) PROVE Told(d)'
  <2>1. CASE d # c
    <3>1. call'[d] = call[d] /\ Told(d) /\ call[c].id # call[d].id
      BY <1>4, <1>a, <1>b, <2>1 DEF DecideEffect, Becomes, Others
    <3> QED
      BY <1>4, <3>1 DEF DecideEffect
  <2>2. CASE d = c
    BY <1>4, <2>2 DEF DecideEffect, Becomes
  <2> QED
    BY <2>1, <2>2
<1>5. ASSUME NEW c \in Calls, RunEffect(c) PROVE Told(d)'
  <2>1. CASE d # c
    BY <1>5, <1>a, <2>1 DEF RunEffect, Becomes, Others
  <2>2. CASE d = c
    BY <1>5, <1>a, <2>2 DEF RunEffect, Becomes, At
  <2> QED
    BY <2>1, <2>2
<1> QED
  BY <1>0, <1>1, <1>2, <1>3, <1>4, <1>5, NextEffects

LEMMA Invariance == Spec => []IInv
<1>1. Init => IInv
  BY InitIInv
<1>2. IInv /\ [Next]_vars => IInv'
  BY NextTypeOK, NextCallShape, NextLedger, NextUnraced, NextExecuted, NextAnswered DEF IInv
<1> QED
  BY <1>1, <1>2, PTL DEF Spec

\* The rows, the calls and the histories stay in their types.
THEOREM TypeCorrect == Spec => []TypeOK
  BY Invariance, PTL DEF IInv

\* Whatever calls interleave or are killed, an action is executed only by a call
\* that was told to approve it.
THEOREM ApprovalFirst == Spec => []NothingRunsUnapproved
<1>1. IInv => NothingRunsUnapproved
  BY DEF IInv, Ledger, NothingRunsUnapproved
<1> QED
  BY <1>1, Invariance, PTL

\* A second execution of an action has one of the two excuses: two calls had read
\* it as pending at once, or its first executor ended before the UPDATE.
THEOREM RepeatsExcused == Spec => []RepeatsAreExcused
<1>1. IInv => RepeatsAreExcused
  BY DEF IInv, Executed, RepeatsAreExcused
<1> QED
  BY <1>1, Invariance, PTL

\* An action the ledger calls applied has been executed.
THEOREM AppliedIsTrue == Spec => []AppliedWasExecuted
<1>1. IInv => AppliedWasExecuted
  BY DEF IInv, Ledger, AppliedWasExecuted
<1> QED
  BY <1>1, Invariance, PTL

\* What a call answered is what the ledger keeps, unless another call raced it.
THEOREM AnswersHold == Spec => []AnswerIsRecorded
<1>1. IInv => AnswerIsRecorded
  BY DEF IInv, Answered, AnswerIsRecorded, At
<1> QED
  BY <1>1, Invariance, PTL

\* A recorded decision about an action nobody raced is never changed.
THEOREM DecisionsAreFinal == Spec => DecisionsStand
<1> DEFINE Stands == \A a \in Ids : actions[a].status \in {"rejected", "applied"} /\ a \notin raced
                       => actions'[a].status = actions[a].status
<1>1. ASSUME IInv, [Next]_vars PROVE Stands
  <2> SUFFICES ASSUME NEW a \in Ids, Decided(a), a \notin raced PROVE actions'[a].status = actions[a].status
    BY DEF Decided
  <2>0. TypeOK /\ CallShape /\ Unraced
    BY <1>1 DEF IInv
  <2>1. \A c \in Calls : c \notin Readers(a)
    BY <2>0 DEF Unraced
  <2>2. CASE UNCHANGED vars
    BY <2>2 DEF vars
  <2>3. ASSUME NEW c \in Calls, ProposeEffect(c) PROVE actions'[a] = actions[a]
    BY <2>3, RowFacts DEF ProposeEffect, Decided, Ids
  <2>4. ASSUME NEW c \in Calls, DecideEffect(c) PROVE actions'[a] = actions[a]
    BY <2>1, <2>4 DEF DecideEffect
  <2>5. ASSUME NEW c \in Calls, BeginEffect(c) \/ SelectEffect(c) \/ RunEffect(c)
        PROVE actions'[a] = actions[a]
    BY <2>5 DEF BeginEffect, SelectEffect, RunEffect
  <2> QED
    BY <1>1, <2>0, <2>2, <2>3, <2>4, <2>5, NextEffects
<1>2. IInv /\ [Next]_vars => [Stands]_vars
  BY <1>1
<1> QED
  BY <1>2, Invariance, PTL DEF Spec, DecisionsStand

=============================================================================
