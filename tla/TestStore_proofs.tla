-------------------------- MODULE TestStore_proofs --------------------------
(***************************************************************************)
(* Safety of the store for any number of tests, calls and faults.  The       *)
(* inductive invariant says what a call that is at work knows (Shape), who   *)
(* answers for the rows of a test that is gone (RunsExcused, RevsExcused),   *)
(* and who for a suspect that is not marked (Suspects).                      *)
(***************************************************************************)
EXTENDS TestStore, TLAPS

Working == {"execute", "insert", "prune", "reload", "snapshot", "keep", "write"}

\* A call that is at work found the test stored, so its row has gone only by a
\* delete, which counts the call among the late ones.
Shape(c) ==
  /\ call[c].at \in Working =>
       call[c].op \in Edits \cup Executions /\ (tests[call[c].id] = NoTest => c \in late)
  /\ call[c].at \in {"snapshot", "keep", "write"} => call[c].new \in Defs
  /\ At(c, "keep") => call[c].snap \in Defs
  /\ call[c].at \in {"snapshot", "keep"} => call[c].op = "rerun"
  /\ At(c, "reload") => call[c].suspect
  /\ call[c].at \in {"runs", "revs"} => call[c].op = "delete"
  /\ call[c].suspect =>
       /\ call[c].at \in {"insert", "prune", "reload", "write", "done"}
       /\ call[c].op \in {"screen", "faultcheck"}
       /\ At(c, "write") => call[c].new.quarantine
  /\ At(c, "idle") =>
       call[c].op = "none" /\ c \notin late \cup cleared /\ \A s \in Steps : <<c, s>> \notin cut

Heals(c) ==
  At(c, "write") /\ call[c].op = "rerun" =>
    c \in late \/ (call[c].snap # NoTest /\ call[c].snap \in revisions[call[c].id])

RunsExcuse(c, t) == call[c].id = t /\ (c \in late \/ At(c, "runs") \/ <<c, "runs">> \in cut)
RevsExcuse(c, t) ==
  RunsExcuse(c, t) \/ (call[c].id = t /\ (At(c, "revs") \/ <<c, "revs">> \in cut))

RunsExcused == \A t \in Ids : tests[t] = NoTest /\ runs[t] # <<>> => \E c \in Calls : RunsExcuse(c, t)
RevsExcused == \A t \in Ids : tests[t] = NoTest /\ revisions[t] # {} => \E c \in Calls : RevsExcuse(c, t)

Unmarked(d, t) == call[d].id = t /\ (d \in cleared \/ call[d].op = "delete")
SuspectExcuse(c) ==
  \/ c \in late
  \/ \E s \in Steps : <<c, s>> \in cut
  \/ \E d \in Calls : Unmarked(d, call[c].id)
Suspects == \A c \in Calls : At(c, "done") /\ call[c].suspect =>
              tests[call[c].id].quarantine \/ SuspectExcuse(c)

IInv == TypeOK /\ (\A c \in Calls : Shape(c) /\ Heals(c)) /\ RunsExcused /\ RevsExcused /\ Suspects

-----------------------------------------------------------------------------
(* What a step of one call leaves *)

Others(d) == \A c \in Calls \ {d} : call'[c] = call[c]
Keeps(d) == call'[d].op = call[d].op /\ call'[d].id = call[d].id

LEMMA NoTestFacts ==
  /\ NoTest \notin Defs
  /\ NoTest.quarantine = FALSE
<1>1. NoTest.ver = -1 /\ NoTest.quarantine = FALSE
  BY DEF NoTest
<1>2. \A x \in Defs : x.ver \in 0 .. NCalls
  BY DEF Defs
<1> QED
  BY <1>1, <1>2, StoreAssumption

LEMMA MoveFacts ==
  ASSUME TypeOK, NEW d \in Calls, NEW r \in CallState, call' = [call EXCEPT ![d] = r]
  PROVE  call' \in [Calls -> CallState] /\ call'[d] = r /\ Others(d)
BY DEF TypeOK, Others

LEMMA CellFacts ==
  ASSUME TypeOK, NEW t \in Ids, NEW x \in Defs \cup {NoTest}, tests' = [tests EXCEPT ![t] = x]
  PROVE  /\ tests' \in [Ids -> Defs \cup {NoTest}] /\ tests'[t] = x
         /\ \A u \in Ids \ {t} : tests'[u] = tests[u]
BY DEF TypeOK

LEMMA EditedFacts ==
  ASSUME NEW d \in Calls, NEW op, NEW x \in Defs, NEW oracle \in 0 .. MaxOracle
  PROVE  Edited(d, op, x, oracle) \in Defs
<1>1. [x EXCEPT !.ver = d, !.oracle = oracle] \in Defs
  <2>1. d \in 0 .. NCalls
    BY StoreAssumption DEF Calls
  <2> QED
    BY <2>1 DEF Defs
<1>2. [x EXCEPT !.quarantine = FALSE] \in Defs
  BY DEF Defs
<1> QED
  BY <1>1, <1>2 DEF Edited

LEMMA PrunedFacts ==
  ASSUME NEW rows \in Seq(Calls)
  PROVE  Pruned(rows) \in Seq(Calls) /\ (rows = <<>> => Pruned(rows) = <<>>)
<1>1. CASE Keep = 0 \/ Len(rows) <= Keep
  BY <1>1 DEF Pruned
<1>2. CASE ~(Keep = 0 \/ Len(rows) <= Keep)
  <2>1. rows # <<>>
    BY <1>2, StoreAssumption
  <2>2. SubSeq(rows, Len(rows) - Keep + 1, Len(rows)) \in Seq(Calls)
    BY <1>2, StoreAssumption
  <2> QED
    BY <1>2, <2>1, <2>2 DEF Pruned
<1> QED
  BY <1>1, <1>2

\* The statements of a call as facts about single cells.
LoadEffect(d) ==
  /\ At(d, "idle") /\ UNCHANGED <<tables, faults, history>>
  /\ call' \in [Calls -> CallState] /\ Others(d) /\ ~call'[d].suspect
  /\ \/ call'[d].at = "done"
     \/ call'[d].at = "write" /\ call'[d].op \in Edits /\ call'[d].new \in Defs
        /\ tests[call'[d].id] # NoTest
     \/ call'[d].at = "execute" /\ call'[d].op \in Executions /\ tests[call'[d].id] # NoTest

LEMMA LoadFacts ==
  ASSUME TypeOK, NEW d \in Calls, Shape(d),
         \E t \in Ids : (\E op \in Edits, oracle \in 0 .. MaxOracle : LoadToEdit(d, op, t, oracle))
                        \/ (\E op \in Executions : LoadToExecute(d, op, t))
  PROVE  LoadEffect(d)
<1>1. PICK t \in Ids : (\E op \in Edits, oracle \in 0 .. MaxOracle : LoadToEdit(d, op, t, oracle))
                       \/ (\E op \in Executions : LoadToExecute(d, op, t))
  OBVIOUS
<1>2. call[d] \in CallState /\ tests[t] \in Defs \cup {NoTest}
  BY DEF TypeOK
<1>3. CASE \E op \in Edits, oracle \in 0 .. MaxOracle : LoadToEdit(d, op, t, oracle)
  <2>1. PICK op \in Edits, oracle \in 0 .. MaxOracle : LoadToEdit(d, op, t, oracle)
    BY <1>3
  <2>2. At(d, "idle") /\ UNCHANGED <<tables, faults, history>> /\ ~call[d].suspect
    BY <2>1 DEF LoadToEdit, Begins, Shape, At
  <2>3. CASE tests[t] = NoTest
    <3> DEFINE r == [call[d] EXCEPT !.op = op, !.id = t, !.at = "done"]
    <3>1. r \in CallState /\ r.at = "done" /\ ~r.suspect
      BY <1>2, <2>2 DEF CallState, Steps, Ops
    <3>2. call' = [call EXCEPT ![d] = r]
      BY <2>1, <2>3 DEF LoadToEdit, TypeOK
    <3> HIDE DEF r
    <3> QED
      BY <2>2, <3>1, <3>2, MoveFacts DEF LoadEffect
  <2>4. CASE tests[t] # NoTest
    <3> DEFINE x == Edited(d, op, tests[t], oracle)
               r == [call[d] EXCEPT !.op = op, !.id = t, !.at = "write", !.got = tests[t], !.new = x]
    <3>1. tests[t] \in Defs
      BY <1>2, <2>4
    <3>2. x \in Defs
      BY <3>1, EditedFacts
    <3>3. call' = [call EXCEPT ![d] = r]
      BY <2>1, <2>4 DEF LoadToEdit, TypeOK
    <3> HIDE DEF x
    <3>4. r \in CallState /\ r.at = "write" /\ r.op \in Edits /\ r.new \in Defs /\ r.id = t /\ ~r.suspect
      BY <1>2, <2>2, <3>2 DEF CallState, Steps, Ops
    <3> HIDE DEF r
    <3> QED
      BY <2>2, <2>4, <3>3, <3>4, MoveFacts DEF LoadEffect
  <2> QED
    BY <2>3, <2>4
<1>4. CASE \E op \in Executions : LoadToExecute(d, op, t)
  <2>1. PICK op \in Executions : LoadToExecute(d, op, t)
    BY <1>4
  <2>2. At(d, "idle") /\ UNCHANGED <<tables, faults, history>> /\ ~call[d].suspect
    BY <2>1 DEF LoadToExecute, Begins, Shape, At
  <2>3. CASE tests[t] = NoTest
    <3> DEFINE r == [call[d] EXCEPT !.op = op, !.id = t, !.at = "done"]
    <3>1. r \in CallState /\ r.at = "done" /\ ~r.suspect
      BY <1>2, <2>2 DEF CallState, Steps, Ops
    <3>2. call' = [call EXCEPT ![d] = r]
      BY <2>1, <2>3 DEF LoadToExecute, TypeOK
    <3> HIDE DEF r
    <3> QED
      BY <2>2, <3>1, <3>2, MoveFacts DEF LoadEffect
  <2>4. CASE tests[t] # NoTest
    <3> DEFINE r == [call[d] EXCEPT !.op = op, !.id = t, !.at = "execute", !.got = tests[t]]
    <3>1. r \in CallState /\ r.at = "execute" /\ r.op \in Executions /\ r.id = t /\ ~r.suspect
      BY <1>2, <2>2 DEF CallState, Steps, Ops
    <3>2. call' = [call EXCEPT ![d] = r]
      BY <2>1, <2>4 DEF LoadToExecute, TypeOK
    <3> HIDE DEF r
    <3> QED
      BY <2>2, <2>4, <3>1, <3>2, MoveFacts DEF LoadEffect
  <2> QED
    BY <2>3, <2>4
<1> QED
  BY <1>1, <1>3, <1>4

\* The steps of a call that touch nothing but what the call knows.
WorkEffect(d) ==
  /\ call[d].at \in Working \ {"insert", "prune", "keep", "write"}
  /\ UNCHANGED <<tables, faults, history>>
  /\ call' \in [Calls -> CallState] /\ Others(d) /\ Keeps(d)
  /\ \/ /\ At(d, "execute") /\ call'[d].at \in {"insert", "done"} /\ ~call'[d].suspect
     \/ /\ At(d, "execute") /\ call'[d].at = "insert" /\ call'[d].op \in {"screen", "faultcheck"}
     \/ /\ At(d, "execute") /\ call'[d].at = "snapshot" /\ call'[d].op = "rerun"
        /\ call'[d].new \in Defs /\ ~call'[d].suspect
     \/ /\ At(d, "snapshot") /\ ~call'[d].suspect /\ call'[d].new \in Defs
        /\ \/ call'[d].at = "write" /\ tests[call[d].id] = NoTest
           \/ call'[d].at = "keep" /\ call'[d].snap \in Defs
     \/ /\ At(d, "reload") /\ call'[d].suspect
        /\ \/ call'[d].at = "done" /\ tests[call[d].id] = NoTest
           \/ call'[d].at = "write" /\ call'[d].new \in Defs /\ call'[d].new.quarantine

LEMMA ForgetFacts ==
  ASSUME TypeOK, NEW d \in Calls, NEW s \in Steps, Forget(d, s)
  PROVE  /\ call' \in [Calls -> CallState] /\ Others(d) /\ Keeps(d)
         /\ call'[d].at = s /\ call'[d].suspect = call[d].suspect
<1> DEFINE r == [call[d] EXCEPT !.at = s, !.got = NoTest, !.new = NoTest, !.snap = NoTest]
<1>1. call[d] \in CallState
  BY DEF TypeOK
<1>2. NoTest \in Defs \cup {NoTest}
  OBVIOUS
<1>3. call' = [call EXCEPT ![d] = r]
  BY DEF Forget, TypeOK
<1>4. /\ r \in CallState /\ r.at = s
      /\ r.suspect = call[d].suspect /\ r.op = call[d].op /\ r.id = call[d].id
  BY <1>1, <1>2 DEF CallState
<1> HIDE DEF r
<1> QED
  BY <1>3, <1>4, MoveFacts DEF Keeps

LEMMA GotoFacts ==
  ASSUME TypeOK, NEW d \in Calls, NEW s \in Steps, Goto(d, s)
  PROVE  /\ call' \in [Calls -> CallState] /\ Others(d) /\ Keeps(d)
         /\ call'[d].at = s /\ call'[d].suspect = call[d].suspect
         /\ call'[d].new = call[d].new /\ call'[d].snap = call[d].snap
<1> DEFINE r == [call[d] EXCEPT !.at = s]
<1>1. call[d] \in CallState
  BY DEF TypeOK
<1>2. call' = [call EXCEPT ![d] = r]
  BY DEF Goto, TypeOK
<1>3. /\ r \in CallState /\ r.at = s
      /\ r.suspect = call[d].suspect /\ r.op = call[d].op /\ r.id = call[d].id
      /\ r.new = call[d].new /\ r.snap = call[d].snap
  BY <1>1 DEF CallState
<1> HIDE DEF r
<1> QED
  BY <1>2, <1>3, MoveFacts DEF Keeps

LEMMA ExecuteFacts ==
  ASSUME TypeOK, NEW d \in Calls, Shape(d),
         Execute(d) \/ Unjudged(d) \/ Suspect(d)
         \/ (\E oracle \in 0 .. MaxOracle, q \in BOOLEAN : Heal(d, oracle, q))
  PROVE  WorkEffect(d)
<1>0. call[d] \in CallState
  BY DEF TypeOK
<1>1. CASE Execute(d) \/ Unjudged(d)
  <2>1. At(d, "execute") /\ ~call[d].suspect /\ UNCHANGED <<tables, faults, history>>
    BY <1>1 DEF Execute, Unjudged, Shape, At
  <2>2. Forget(d, "insert") \/ Forget(d, "done")
    BY <1>1 DEF Execute, Unjudged
  <2>3. /\ call' \in [Calls -> CallState] /\ Others(d) /\ Keeps(d)
        /\ call'[d].at \in {"insert", "done"} /\ call'[d].suspect = call[d].suspect
    BY <2>2, ForgetFacts DEF Steps
  <2> QED
    BY <2>1, <2>3 DEF WorkEffect, At, Working
<1>2. CASE Suspect(d)
  <2> DEFINE r == [call[d] EXCEPT !.suspect = TRUE, !.at = "insert", !.got = NoTest]
  <2>1. At(d, "execute") /\ call[d].op \in {"screen", "faultcheck"}
        /\ UNCHANGED <<tables, faults, history>>
    BY <1>2 DEF Suspect
  <2>2. call' = [call EXCEPT ![d] = r]
    BY <1>2 DEF Suspect, TypeOK
  <2>3. r \in CallState /\ r.at = "insert" /\ r.op = call[d].op /\ r.id = call[d].id
    BY <1>0 DEF CallState, Steps
  <2> HIDE DEF r
  <2> QED
    BY <2>1, <2>2, <2>3, MoveFacts DEF WorkEffect, Keeps, At, Working
<1>3. CASE \E oracle \in 0 .. MaxOracle, q \in BOOLEAN : Heal(d, oracle, q)
  <2>1. PICK oracle \in 0 .. MaxOracle, q \in BOOLEAN : Heal(d, oracle, q)
    BY <1>3
  <2> DEFINE x == [ver |-> d, oracle |-> oracle, quarantine |-> q]
             r == [call[d] EXCEPT !.new = x, !.at = "snapshot"]
  <2>2. At(d, "execute") /\ call[d].op = "rerun" /\ ~call[d].suspect
        /\ UNCHANGED <<tables, faults, history>>
    BY <2>1 DEF Heal, Shape, At
  <2>3. call' = [call EXCEPT ![d] = r]
    BY <2>1 DEF Heal, TypeOK
  <2>4. x \in Defs
    BY StoreAssumption DEF Defs, Calls
  <2> HIDE DEF x
  <2>5. /\ r \in CallState /\ r.at = "snapshot" /\ r.op = call[d].op /\ r.id = call[d].id
        /\ r.new \in Defs /\ r.suspect = call[d].suspect
    BY <1>0, <2>4 DEF CallState, Steps
  <2> HIDE DEF r
  <2> QED
    BY <2>2, <2>3, <2>5, MoveFacts DEF WorkEffect, Keeps, At, Working
<1> QED
  BY <1>1, <1>2, <1>3

LEMMA ReadFacts ==
  ASSUME TypeOK, NEW d \in Calls, Shape(d), Snapshot(d) \/ Reload(d)
  PROVE  WorkEffect(d)
<1>0. call[d] \in CallState /\ Row(d) \in Defs \cup {NoTest} /\ Row(d) = tests[call[d].id]
  BY DEF TypeOK, CallState, Row
<1>1. CASE Snapshot(d)
  <2> DEFINE s == IF Row(d) = NoTest THEN "write" ELSE "keep"
             r == [call[d] EXCEPT !.snap = Row(d), !.at = s]
  <2>1. At(d, "snapshot") /\ ~call[d].suspect /\ call[d].new \in Defs
        /\ UNCHANGED <<tables, faults, history>>
    BY <1>1 DEF Snapshot, Shape, At
  <2>2. call' = [call EXCEPT ![d] = r]
    BY <1>1 DEF Snapshot, TypeOK
  <2>3. /\ r \in CallState /\ r.at = s /\ r.op = call[d].op /\ r.id = call[d].id
        /\ r.snap = Row(d) /\ r.new = call[d].new /\ r.suspect = call[d].suspect
    BY <1>0 DEF CallState, Steps
  <2> HIDE DEF r
  <2>4. call' \in [Calls -> CallState] /\ call'[d] = r /\ Others(d)
    BY <2>2, <2>3, MoveFacts
  <2>5. (s = "write" /\ tests[call[d].id] = NoTest) \/ (s = "keep" /\ Row(d) \in Defs)
    BY <1>0
  <2> QED
    BY <2>1, <2>3, <2>4, <2>5 DEF WorkEffect, Keeps, At, Working
<1>2. CASE Reload(d)
  <2>1. At(d, "reload") /\ call[d].suspect /\ UNCHANGED <<tables, faults, history>>
    BY <1>2 DEF Reload, Shape, At
  <2>2. CASE Row(d) = NoTest
    <3> DEFINE r == [call[d] EXCEPT !.at = "done"]
    <3>1. call' = [call EXCEPT ![d] = r]
      BY <1>2, <2>2 DEF Reload, TypeOK
    <3>2. /\ r \in CallState /\ r.at = "done" /\ r.op = call[d].op /\ r.id = call[d].id
          /\ r.suspect = call[d].suspect
      BY <1>0 DEF CallState, Steps
    <3> HIDE DEF r
    <3> QED
      BY <1>0, <2>1, <2>2, <3>1, <3>2, MoveFacts DEF WorkEffect, Keeps, At, Working
  <2>3. CASE Row(d) # NoTest
    <3> DEFINE x == [Row(d) EXCEPT !.quarantine = TRUE]
               r == [call[d] EXCEPT !.got = Row(d), !.new = x, !.at = "write"]
    <3>1. Row(d) \in Defs
      BY <1>0, <2>3
    <3>2. x \in Defs /\ x.quarantine
      BY <3>1 DEF Defs
    <3>3. call' = [call EXCEPT ![d] = r]
      BY <1>2, <2>3 DEF Reload, TypeOK
    <3> HIDE DEF x
    <3>4. /\ r \in CallState /\ r.at = "write" /\ r.op = call[d].op /\ r.id = call[d].id
          /\ r.new = x /\ r.suspect = call[d].suspect
      BY <1>0, <3>2 DEF CallState, Steps
    <3> HIDE DEF r
    <3> QED
      BY <2>1, <3>2, <3>3, <3>4, MoveFacts DEF WorkEffect, Keeps, At, Working
  <2> QED
    BY <2>2, <2>3
<1> QED
  BY <1>1, <1>2

\* The statements that change a table.
PutEffect(d) ==
  \E t \in Ids, x \in Defs :
    /\ At(d, "idle") /\ call' \in [Calls -> CallState] /\ Others(d)
    /\ call'[d].at = "done" /\ call'[d].id = t /\ ~call'[d].suspect
    /\ tests' = [tests EXCEPT ![t] = x]
    /\ cleared' = IF tests[t].quarantine /\ ~x.quarantine THEN cleared \cup {d} ELSE cleared
    /\ UNCHANGED <<runs, revisions, faults, late, cut>>

WriteEffect(d) ==
  LET t == call[d].id
      x == call[d].new
      lands == call[d].op # "rename" \/ tests[t] # NoTest
  IN /\ At(d, "write") /\ x \in Defs
     /\ call' \in [Calls -> CallState] /\ Others(d) /\ Keeps(d)
     /\ call'[d].at = (IF call[d].op = "rerun" THEN "insert" ELSE "done")
     /\ call'[d].suspect = call[d].suspect
     /\ tests' = IF lands THEN [tests EXCEPT ![t] = x] ELSE tests
     /\ cleared' = IF lands /\ tests[t].quarantine /\ ~x.quarantine THEN cleared \cup {d} ELSE cleared
     /\ UNCHANGED <<runs, revisions, faults, late, cut>>

KeepEffect(d) ==
  /\ At(d, "keep") /\ call[d].snap \in Defs
  /\ call' \in [Calls -> CallState] /\ Others(d) /\ Keeps(d)
  /\ call'[d].at = "write" /\ call'[d].suspect = call[d].suspect
  /\ call'[d].new = call[d].new /\ call'[d].snap = call[d].snap
  /\ revisions' = [revisions EXCEPT ![call[d].id] = @ \cup {call[d].snap}]
  /\ UNCHANGED <<tests, runs, faults, history>>

\* insert, prune, prune_all: no row of `runs` appears but at an insert.
RunsEffect(d) ==
  /\ UNCHANGED <<tests, revisions, faults, history>>
  /\ call' \in [Calls -> CallState] /\ Others(d) /\ runs' \in [Ids -> Seq(Calls)]
  /\ \/ /\ At(d, "insert") /\ Keeps(d) /\ call'[d].suspect = call[d].suspect
        /\ call'[d].at = "prune" /\ \A t \in Ids \ {call[d].id} : runs'[t] = runs[t]
     \/ /\ \A t \in Ids : runs[t] = <<>> => runs'[t] = <<>>
        /\ \/ /\ At(d, "prune") /\ Keeps(d) /\ call'[d].suspect = call[d].suspect
              /\ call'[d].at = (IF call[d].suspect THEN "reload" ELSE "done")
           \/ At(d, "idle") /\ call'[d].at = "done" /\ ~call'[d].suspect

DeleteEffect(d) ==
  /\ call' \in [Calls -> CallState] /\ Others(d) /\ UNCHANGED <<faults, cleared, cut>>
  /\ call'[d].op = "delete" /\ ~call'[d].suspect
  /\ \/ /\ At(d, "idle") /\ UNCHANGED <<runs, revisions>>
        /\ tests' = [tests EXCEPT ![call'[d].id] = NoTest]
        /\ late' = late \cup AtWorkOn(call'[d].id)
        /\ call'[d].at = (IF tests[call'[d].id] = NoTest THEN "done" ELSE "runs")
     \/ /\ At(d, "runs") /\ Keeps(d) /\ UNCHANGED <<tests, revisions, late>>
        /\ runs' = [runs EXCEPT ![call[d].id] = <<>>] /\ call'[d].at = "revs"
     \/ /\ At(d, "revs") /\ Keeps(d) /\ UNCHANGED <<tests, runs>>
        /\ revisions' = [revisions EXCEPT ![call[d].id] = {}]
        /\ late' = late \cup (AtWorkOn(call[d].id) \ {d}) /\ call'[d].at = "done"

FailEffect(d) ==
  /\ call[d].at \notin {"idle", "done"} /\ UNCHANGED <<tables, late, cleared>>
  /\ faults' \in 0 .. MaxFaults /\ cut' = cut \cup {<<d, call[d].at>>}
  /\ call' \in [Calls -> CallState] /\ Others(d) /\ Keeps(d)
  /\ call'[d].suspect = call[d].suspect
  /\ \/ call'[d].at = "done"
     \/ call'[d].at = "insert" /\ call[d].op = "rerun" /\ call[d].at \in {"snapshot", "keep", "write"}

LEMMA PutFacts ==
  ASSUME TypeOK, NEW d \in Calls, Shape(d),
         \E t \in Ids, oracle \in 0 .. MaxOracle, q \in BOOLEAN : Put(d, t, oracle, q)
  PROVE  PutEffect(d)
<1>1. PICK t \in Ids, oracle \in 0 .. MaxOracle, q \in BOOLEAN : Put(d, t, oracle, q)
  OBVIOUS
<1> DEFINE x == [ver |-> d, oracle |-> oracle, quarantine |-> q]
           r == [call[d] EXCEPT !.op = "put", !.id = t, !.at = "done"]
<1>2. At(d, "idle") /\ ~call[d].suspect
  BY <1>1 DEF Put, Begins, Shape, At
<1>3. call' = [call EXCEPT ![d] = r]
  BY <1>1 DEF Put, TypeOK
<1>4. call[d] \in CallState
  BY DEF TypeOK
<1>5. r \in CallState /\ r.at = "done" /\ r.id = t /\ r.suspect = call[d].suspect
  BY <1>4 DEF CallState, Steps, Ops
<1>6. x \in Defs /\ x.quarantine = q
  BY StoreAssumption DEF Defs, Calls
<1>7. /\ tests' = [tests EXCEPT ![t] = x]
      /\ cleared' = IF tests[t].quarantine /\ ~q THEN cleared \cup {d} ELSE cleared
      /\ UNCHANGED <<runs, revisions, faults, late, cut>>
  BY <1>1 DEF Put
<1> HIDE DEF r, x
<1>8. call' \in [Calls -> CallState] /\ call'[d] = r /\ Others(d)
  BY <1>3, <1>5, MoveFacts
<1> QED
  BY <1>2, <1>5, <1>6, <1>7, <1>8 DEF PutEffect

LEMMA WriteFacts ==
  ASSUME TypeOK, NEW d \in Calls, Shape(d), Write(d)
  PROVE  WriteEffect(d)
<1> DEFINE s == IF call[d].op = "rerun" THEN "insert" ELSE "done"
<1>1. At(d, "write") /\ call[d].new \in Defs
  BY DEF Write, Shape, At
<1>2. s \in Steps /\ Forget(d, s)
  BY DEF Write, Steps
<1>3. /\ call' \in [Calls -> CallState] /\ Others(d) /\ Keeps(d)
      /\ call'[d].at = s /\ call'[d].suspect = call[d].suspect
  BY <1>2, ForgetFacts
<1> QED
  BY <1>1, <1>3 DEF Write, WriteEffect, Row

LEMMA KeepFacts ==
  ASSUME TypeOK, NEW d \in Calls, Shape(d), KeepRevision(d)
  PROVE  KeepEffect(d)
<1>1. At(d, "keep") /\ call[d].snap \in Defs /\ Goto(d, "write")
  BY DEF KeepRevision, Shape, At
<1> QED
  BY <1>1, GotoFacts DEF KeepRevision, KeepEffect, Steps

LEMMA RunsFacts ==
  ASSUME TypeOK, NEW d \in Calls, Shape(d), Insert(d) \/ Prune(d) \/ PruneAll(d)
  PROVE  RunsEffect(d)
<1>0. runs \in [Ids -> Seq(Calls)] /\ call[d] \in CallState /\ call[d].id \in Ids
  BY DEF TypeOK, CallState
<1>1. CASE Insert(d)
  <2>1. runs' = [runs EXCEPT ![call[d].id] = Append(@, d)]
    BY <1>1 DEF Insert
  <2>2. runs' \in [Ids -> Seq(Calls)] /\ \A t \in Ids \ {call[d].id} : runs'[t] = runs[t]
    BY <1>0, <2>1
  <2>3. At(d, "insert") /\ Goto(d, "prune") /\ UNCHANGED <<tests, revisions, faults, history>>
    BY <1>1 DEF Insert
  <2>4. /\ call' \in [Calls -> CallState] /\ Others(d) /\ Keeps(d)
        /\ call'[d].at = "prune" /\ call'[d].suspect = call[d].suspect
    BY <2>3, GotoFacts DEF Steps
  <2> QED
    BY <2>2, <2>3, <2>4 DEF RunsEffect
<1>2. CASE Prune(d)
  <2> DEFINE s == IF call[d].suspect THEN "reload" ELSE "done"
  <2>1. runs' = [runs EXCEPT ![call[d].id] = Pruned(@)]
    BY <1>2 DEF Prune
  <2>2. /\ Pruned(runs[call[d].id]) \in Seq(Calls)
        /\ runs[call[d].id] = <<>> => Pruned(runs[call[d].id]) = <<>>
    BY <1>0, PrunedFacts
  <2>3. runs' \in [Ids -> Seq(Calls)] /\ \A t \in Ids : runs[t] = <<>> => runs'[t] = <<>>
    BY <1>0, <2>1, <2>2
  <2>4. At(d, "prune") /\ s \in Steps /\ Goto(d, s) /\ UNCHANGED <<tests, revisions, faults, history>>
    BY <1>2 DEF Prune, Steps
  <2>5. /\ call' \in [Calls -> CallState] /\ Others(d) /\ Keeps(d)
        /\ call'[d].at = s /\ call'[d].suspect = call[d].suspect
    BY <2>4, GotoFacts
  <2> QED
    BY <2>3, <2>4, <2>5 DEF RunsEffect
<1>3. CASE PruneAll(d)
  <2> DEFINE r == [call[d] EXCEPT !.op = "prune", !.at = "done"]
  <2>1. runs' = [t \in Ids |-> Pruned(runs[t])]
    BY <1>3 DEF PruneAll
  <2>2. \A t \in Ids : /\ Pruned(runs[t]) \in Seq(Calls)
                       /\ runs[t] = <<>> => Pruned(runs[t]) = <<>>
    BY <1>0, PrunedFacts
  <2>3. runs' \in [Ids -> Seq(Calls)] /\ \A t \in Ids : runs[t] = <<>> => runs'[t] = <<>>
    BY <2>1, <2>2
  <2>4. At(d, "idle") /\ ~call[d].suspect /\ UNCHANGED <<tests, revisions, faults, history>>
    BY <1>3 DEF PruneAll, Begins, Shape, At
  <2>5. call' = [call EXCEPT ![d] = r]
    BY <1>3 DEF PruneAll, TypeOK
  <2>6. r \in CallState /\ r.at = "done" /\ r.suspect = call[d].suspect
    BY <1>0 DEF CallState, Steps, Ops
  <2> HIDE DEF r
  <2>7. call' \in [Calls -> CallState] /\ call'[d] = r /\ Others(d)
    BY <2>5, <2>6, MoveFacts
  <2> QED
    BY <2>3, <2>4, <2>6, <2>7 DEF RunsEffect
<1> QED
  BY <1>1, <1>2, <1>3

LEMMA DeleteFacts ==
  ASSUME TypeOK, NEW d \in Calls, Shape(d),
         (\E t \in Ids : DeleteRow(d, t)) \/ DeleteRuns(d) \/ DeleteRevisions(d)
  PROVE  DeleteEffect(d)
<1>0. call[d] \in CallState
  BY DEF TypeOK
<1>1. CASE \E t \in Ids : DeleteRow(d, t)
  <2>1. PICK t \in Ids : DeleteRow(d, t)
    BY <1>1
  <2> DEFINE s == IF tests[t] = NoTest THEN "done" ELSE "runs"
             r == [call[d] EXCEPT !.op = "delete", !.id = t, !.at = s]
  <2>2. At(d, "idle") /\ ~call[d].suspect /\ UNCHANGED <<runs, revisions, faults, cleared, cut>>
    BY <2>1 DEF DeleteRow, Begins, Shape, At
  <2>3. call' = [call EXCEPT ![d] = r]
    BY <2>1 DEF DeleteRow, TypeOK
  <2>4. s \in Steps
    BY DEF Steps
  <2>5. tests' = [tests EXCEPT ![t] = NoTest] /\ late' = late \cup AtWorkOn(t)
    BY <2>1 DEF DeleteRow
  <2> HIDE DEF s
  <2>6. r \in CallState /\ r.at = s /\ r.op = "delete" /\ r.id = t /\ r.suspect = call[d].suspect
    BY <1>0, <2>4 DEF CallState, Ops
  <2> HIDE DEF r
  <2>7. call' \in [Calls -> CallState] /\ call'[d] = r /\ Others(d)
    BY <2>3, <2>6, MoveFacts
  <2> QED
    BY <2>2, <2>5, <2>6, <2>7 DEF DeleteEffect, s
<1>2. CASE DeleteRuns(d)
  <2>1. At(d, "runs") /\ Goto(d, "revs") /\ call[d].op = "delete" /\ ~call[d].suspect
    BY <1>2 DEF DeleteRuns, Shape, At
  <2>2. /\ call' \in [Calls -> CallState] /\ Others(d) /\ Keeps(d)
        /\ call'[d].at = "revs" /\ call'[d].suspect = call[d].suspect
    BY <2>1, GotoFacts DEF Steps
  <2> QED
    BY <1>2, <2>1, <2>2 DEF DeleteRuns, DeleteEffect, Keeps, history
<1>3. CASE DeleteRevisions(d)
  <2>1. At(d, "revs") /\ Goto(d, "done") /\ call[d].op = "delete" /\ ~call[d].suspect
    BY <1>3 DEF DeleteRevisions, Shape, At
  <2>2. /\ call' \in [Calls -> CallState] /\ Others(d) /\ Keeps(d)
        /\ call'[d].at = "done" /\ call'[d].suspect = call[d].suspect
    BY <2>1, GotoFacts DEF Steps
  <2> QED
    BY <1>3, <2>1, <2>2 DEF DeleteRevisions, DeleteEffect, Keeps, history
<1> QED
  BY <1>1, <1>2, <1>3

LEMMA FailFacts ==
  ASSUME TypeOK, NEW d \in Calls, Fail(d)
  PROVE  FailEffect(d)
<1>1. /\ call[d].at \notin {"idle", "done"} /\ UNCHANGED <<tables, late, cleared>>
      /\ cut' = cut \cup {<<d, call[d].at>>}
  BY DEF Fail
<1>2. faults' \in 0 .. MaxFaults
  BY StoreAssumption DEF Fail, TypeOK
<1>3. CASE Forget(d, "done")
  BY <1>1, <1>2, <1>3, ForgetFacts DEF FailEffect, Steps
<1>4. CASE /\ call[d].op = "rerun" /\ call[d].at \in {"snapshot", "keep", "write"}
           /\ Forget(d, "insert")
  BY <1>1, <1>2, <1>4, ForgetFacts DEF FailEffect, Steps
<1> QED
  BY <1>3, <1>4 DEF Fail

Effect(d) ==
  \/ LoadEffect(d) \/ WorkEffect(d) \/ PutEffect(d) \/ WriteEffect(d) \/ KeepEffect(d)
  \/ RunsEffect(d) \/ DeleteEffect(d) \/ FailEffect(d)

LEMMA NextEffects ==
  ASSUME IInv, Next
  PROVE  \E d \in Calls : Effect(d)
<1>1. PICK d \in Calls : Start(d) \/ Step(d) \/ Fail(d)
  BY DEF Next
<1>2. TypeOK /\ Shape(d)
  BY DEF IInv
<1>3. CASE Start(d)
  <2>1. CASE PruneAll(d)
    BY <1>2, <2>1, RunsFacts DEF Effect
  <2>2. CASE \E t \in Ids : DeleteRow(d, t)
    BY <1>2, <2>2, DeleteFacts DEF Effect
  <2>3. CASE \E t \in Ids, oracle \in 0 .. MaxOracle, q \in BOOLEAN : Put(d, t, oracle, q)
    BY <1>2, <2>3, PutFacts DEF Effect
  <2>4. CASE \E t \in Ids : (\E op \in Edits, oracle \in 0 .. MaxOracle : LoadToEdit(d, op, t, oracle))
                           \/ (\E op \in Executions : LoadToExecute(d, op, t))
    BY <1>2, <2>4, LoadFacts DEF Effect
  <2> QED
    BY <1>3, <2>1, <2>2, <2>3, <2>4 DEF Start
<1>4. CASE Step(d)
  <2>1. CASE Execute(d) \/ Unjudged(d) \/ Suspect(d)
             \/ (\E oracle \in 0 .. MaxOracle, q \in BOOLEAN : Heal(d, oracle, q))
    BY <1>2, <2>1, ExecuteFacts DEF Effect
  <2>2. CASE Snapshot(d) \/ Reload(d)
    BY <1>2, <2>2, ReadFacts DEF Effect
  <2>3. CASE KeepRevision(d)
    BY <1>2, <2>3, KeepFacts DEF Effect
  <2>4. CASE Write(d)
    BY <1>2, <2>4, WriteFacts DEF Effect
  <2>5. CASE Insert(d) \/ Prune(d)
    BY <1>2, <2>5, RunsFacts DEF Effect
  <2>6. CASE DeleteRuns(d) \/ DeleteRevisions(d)
    BY <1>2, <2>6, DeleteFacts DEF Effect
  <2> QED
    BY <1>4, <2>1, <2>2, <2>3, <2>4, <2>5, <2>6 DEF Step
<1>5. CASE Fail(d)
  BY <1>2, <1>5, FailFacts DEF Effect
<1> QED
  BY <1>1, <1>3, <1>4, <1>5

-----------------------------------------------------------------------------
(* The invariant is preserved *)

LEMMA TypeKept ==
  ASSUME TypeOK, NEW d \in Calls, Effect(d)
  PROVE  TypeOK'
<1>1. call' \in [Calls -> CallState]
  BY DEF Effect, LoadEffect, WorkEffect, PutEffect, WriteEffect, KeepEffect, RunsEffect,
         DeleteEffect, FailEffect
<1>2. tests' \in [Ids -> Defs \cup {NoTest}]
  <2>1. CASE UNCHANGED tests
    BY <2>1 DEF TypeOK
  <2>2. CASE PutEffect(d)
    BY <2>2 DEF PutEffect, TypeOK
  <2>3. CASE WriteEffect(d)
    BY <2>3 DEF WriteEffect, TypeOK
  <2>4. CASE DeleteEffect(d)
    BY <2>4 DEF DeleteEffect, TypeOK
  <2> QED
    BY <2>1, <2>2, <2>3, <2>4 DEF Effect, LoadEffect, WorkEffect, KeepEffect, RunsEffect, FailEffect,
                                  tables
<1>3. runs' \in [Ids -> Seq(Calls)]
  <2>1. CASE UNCHANGED runs
    BY <2>1 DEF TypeOK
  <2>2. CASE RunsEffect(d)
    BY <2>2 DEF RunsEffect
  <2>3. CASE DeleteEffect(d)
    <3>1. runs' = runs \/ runs' = [runs EXCEPT ![call[d].id] = <<>>]
      BY <2>3 DEF DeleteEffect
    <3>2. <<>> \in Seq(Calls)
      OBVIOUS
    <3> HIDE DEF Calls
    <3> QED
      BY <3>1, <3>2 DEF TypeOK
  <2> QED
    BY <2>1, <2>2, <2>3 DEF Effect, LoadEffect, WorkEffect, PutEffect, WriteEffect, KeepEffect,
                            FailEffect, tables
<1>4. revisions' \in [Ids -> SUBSET Defs]
  <2>1. CASE UNCHANGED revisions
    BY <2>1 DEF TypeOK
  <2>2. CASE KeepEffect(d)
    BY <2>2 DEF KeepEffect, TypeOK
  <2>3. CASE DeleteEffect(d)
    BY <2>3 DEF DeleteEffect, TypeOK
  <2> QED
    BY <2>1, <2>2, <2>3 DEF Effect, LoadEffect, WorkEffect, PutEffect, WriteEffect, RunsEffect,
                            FailEffect, tables
<1>5. faults' \in 0 .. MaxFaults
  BY DEF TypeOK, Effect, LoadEffect, WorkEffect, PutEffect, WriteEffect, KeepEffect, RunsEffect,
         DeleteEffect, FailEffect
<1>6. late' \subseteq Calls
  BY DEF TypeOK, Effect, LoadEffect, WorkEffect, PutEffect, WriteEffect, KeepEffect, RunsEffect,
         DeleteEffect, FailEffect, history, AtWorkOn
<1>7. cleared' \subseteq Calls
  BY DEF TypeOK, Effect, LoadEffect, WorkEffect, PutEffect, WriteEffect, KeepEffect, RunsEffect,
         DeleteEffect, FailEffect, history
<1>8. cut' \subseteq Calls \X Steps
  <2>1. call[d].at \in Steps
    BY DEF TypeOK, CallState
  <2> QED
    BY <2>1 DEF TypeOK, Effect, LoadEffect, WorkEffect, PutEffect, WriteEffect, KeepEffect, RunsEffect,
         DeleteEffect, FailEffect, history
<1> QED
  BY <1>1, <1>2, <1>3, <1>4, <1>5, <1>6, <1>7, <1>8 DEF TypeOK

\* What any step does to the histories, and to a call other than its own.
LEMMA HistoryGrows ==
  ASSUME NEW d \in Calls, Effect(d)
  PROVE  /\ Others(d)
         /\ late \subseteq late' /\ cleared \subseteq cleared' /\ cut \subseteq cut'
         /\ \A c \in late' \ late : call[c].at \notin {"idle", "done"}
         /\ \A c \in cleared' \ cleared : c = d
         /\ \A c \in Calls, s \in Steps : <<c, s>> \in cut' => <<c, s>> \in cut \/ c = d
         /\ call'[d].at # "idle"
         /\ call[d].at # "done"
         /\ call[d].at # "idle" => Keeps(d)
<1>1. CASE LoadEffect(d)
  BY <1>1 DEF LoadEffect, history, At
<1>2. CASE WorkEffect(d)
  BY <1>2 DEF WorkEffect, history, At, Working
<1>3. CASE PutEffect(d)
  BY <1>3 DEF PutEffect, At
<1>4. CASE WriteEffect(d)
  BY <1>4 DEF WriteEffect, At
<1>5. CASE KeepEffect(d)
  BY <1>5 DEF KeepEffect, history, At
<1>6. CASE RunsEffect(d)
  BY <1>6 DEF RunsEffect, history, At
<1>7. CASE DeleteEffect(d)
  BY <1>7 DEF DeleteEffect, history, At, AtWorkOn
<1>8. CASE FailEffect(d)
  BY <1>8 DEF FailEffect, At
<1> QED
  BY <1>1, <1>2, <1>3, <1>4, <1>5, <1>6, <1>7, <1>8 DEF Effect

\* A row that goes while a call is at work on it makes the call late.
LEMMA RowsStay ==
  ASSUME TypeOK, NEW d \in Calls, Effect(d), NEW t \in Ids, tests[t] # NoTest, tests'[t] = NoTest
  PROVE  DeleteEffect(d) /\ At(d, "idle") /\ call'[d].id = t /\ late' = late \cup AtWorkOn(t)
<1>1. CASE UNCHANGED tests
  BY <1>1
<1>2. CASE PutEffect(d)
  BY <1>2, NoTestFacts DEF PutEffect, TypeOK
<1>3. CASE WriteEffect(d)
  BY <1>3, NoTestFacts DEF WriteEffect, TypeOK
<1>4. CASE DeleteEffect(d)
  <2>1. CASE At(d, "idle")
    <3>1. tests' = [tests EXCEPT ![call'[d].id] = NoTest] /\ late' = late \cup AtWorkOn(call'[d].id)
      BY <1>4, <2>1 DEF DeleteEffect, At
    <3>2. call'[d].id = t
      BY <3>1 DEF TypeOK
    <3> QED
      BY <1>4, <2>1, <3>1, <3>2
  <2>2. CASE ~At(d, "idle")
    BY <1>1, <1>4, <2>2 DEF DeleteEffect
  <2> QED
    BY <2>1, <2>2
<1> QED
  BY <1>1, <1>2, <1>3, <1>4 DEF Effect, LoadEffect, WorkEffect, KeepEffect, RunsEffect, FailEffect, tables

LEMMA ShapeOfOthers ==
  ASSUME TypeOK, NEW d \in Calls, Effect(d), NEW c \in Calls \ {d}, Shape(c)
  PROVE  Shape(c)'
<1>1. call'[c] = call[c] /\ call[c].id \in Ids
  BY HistoryGrows DEF Others, TypeOK, CallState
<1>2. ASSUME call[c].at \in Working, tests'[call[c].id] = NoTest
      PROVE  c \in late'
  <2>1. CASE tests[call[c].id] = NoTest
    BY <1>2, <2>1, HistoryGrows DEF Shape
  <2>2. CASE tests[call[c].id] # NoTest
    <3>1. late' = late \cup AtWorkOn(call[c].id)
      BY <1>1, <1>2, <2>2, RowsStay
    <3>2. c \in AtWorkOn(call[c].id)
      BY <1>2 DEF AtWorkOn, Working
    <3> QED
      BY <3>1, <3>2
  <2> QED
    BY <2>1, <2>2
<1>3. call[c].at = "idle" => c \notin late' \cup cleared' /\ \A s \in Steps : <<c, s>> \notin cut'
  BY HistoryGrows DEF Shape, At
<1> QED
  BY <1>1, <1>2, <1>3 DEF Shape, At

LEMMA ShapeOfOwn ==
  ASSUME TypeOK, NEW d \in Calls, Effect(d), Shape(d)
  PROVE  Shape(d)'
<1>0. call[d].id \in Ids /\ call'[d].id \in Ids /\ call[d] \in CallState
  BY TypeKept DEF TypeOK, CallState
<1>1. CASE LoadEffect(d)
  BY <1>1 DEF LoadEffect, Shape, At, Working, tables
<1>2. CASE WorkEffect(d)
  <2>1. /\ call[d].op \in Edits \cup Executions
        /\ tests[call[d].id] = NoTest => d \in late
    BY <1>2 DEF WorkEffect, Shape, Working
  <2>2. At(d, "snapshot") => call[d].op = "rerun"
    BY DEF Shape, At
  <2>3. At(d, "reload") => call[d].op \in {"screen", "faultcheck"}
    BY DEF Shape, At
  <2> QED
    BY <1>2, <2>1, <2>2, <2>3 DEF WorkEffect, Shape, At, Keeps, Working, tables, history
<1>3. CASE PutEffect(d)
  BY <1>3 DEF PutEffect, Shape, At, Working
<1>4. CASE WriteEffect(d)
  <2>1. /\ call[d].op \in Edits \cup Executions
        /\ tests[call[d].id] = NoTest => d \in late
        /\ call[d].suspect => call[d].op \in {"screen", "faultcheck"}
    BY <1>4 DEF WriteEffect, Shape, Working, At
  <2>2. tests'[call[d].id] = NoTest => d \in late'
    BY <1>4, <2>1, <1>0, NoTestFacts DEF WriteEffect, TypeOK
  <2> QED
    BY <1>4, <2>1, <2>2 DEF WriteEffect, Shape, At, Keeps, Working
<1>5. CASE KeepEffect(d)
  BY <1>5 DEF KeepEffect, Shape, At, Keeps, Working, history
<1>6. CASE RunsEffect(d)
  BY <1>6 DEF RunsEffect, Shape, At, Keeps, Working, history
<1>7. CASE DeleteEffect(d)
  BY <1>7 DEF DeleteEffect, Shape, At, Working
<1>8. CASE FailEffect(d)
  BY <1>8 DEF FailEffect, Shape, At, Keeps, Working, tables
<1> QED
  BY <1>1, <1>2, <1>3, <1>4, <1>5, <1>6, <1>7, <1>8 DEF Effect

\* What a heal is about to overwrite is among the revisions.
LEMMA HealsKept ==
  ASSUME TypeOK, NEW d \in Calls, Effect(d), NEW c \in Calls, Shape(c), Heals(c)
  PROVE  Heals(c)'
<1>0. call[c].id \in Ids /\ call[c] \in CallState
  BY DEF TypeOK, CallState
<1>1. CASE c # d
  <2>1. call'[c] = call[c] /\ late \subseteq late'
    BY <1>1, HistoryGrows DEF Others
  <2>2. SUFFICES ASSUME At(c, "write"), call[c].op = "rerun", c \notin late'
                 PROVE  call[c].snap # NoTest /\ call[c].snap \in revisions'[call[c].id]
    BY <2>1 DEF Heals, At
  <2>3. call[c].snap # NoTest /\ call[c].snap \in revisions[call[c].id]
    BY <2>1, <2>2 DEF Heals
  <2>4. CASE UNCHANGED revisions
    BY <2>3, <2>4
  <2>5. CASE KeepEffect(d)
    BY <1>0, <2>3, <2>5 DEF KeepEffect, TypeOK
  <2>6. CASE DeleteEffect(d) /\ At(d, "revs")
    <3>1. late' = late \cup (AtWorkOn(call[d].id) \ {d})
          /\ revisions' = [revisions EXCEPT ![call[d].id] = {}]
      BY <2>6 DEF DeleteEffect, At
    <3>2. call[c].id # call[d].id
      BY <1>1, <2>2, <3>1 DEF AtWorkOn, At
    <3> QED
      BY <1>0, <2>3, <3>1, <3>2 DEF TypeOK
  <2> QED
    BY <2>4, <2>5, <2>6 DEF Effect, LoadEffect, WorkEffect, PutEffect, WriteEffect, RunsEffect,
                            DeleteEffect, FailEffect, tables
<1>2. CASE c = d
  <2>1. CASE LoadEffect(d)
    BY <1>2, <2>1 DEF LoadEffect, Heals, At, Edits
  <2>2. CASE WorkEffect(d)
    BY <1>2, <2>2 DEF WorkEffect, Heals, At, Keeps, Shape, Working, history
  <2>3. CASE KeepEffect(d)
    BY <1>0, <1>2, <2>3, NoTestFacts DEF KeepEffect, Heals, At, Keeps, TypeOK
  <2>4. CASE PutEffect(d) \/ WriteEffect(d) \/ RunsEffect(d) \/ DeleteEffect(d) \/ FailEffect(d)
    <3>1. call'[d].at # "write"
      BY <2>4 DEF PutEffect, WriteEffect, RunsEffect, DeleteEffect, FailEffect
    <3> QED
      BY <1>2, <3>1 DEF Heals, At
  <2> QED
    BY <2>1, <2>2, <2>3, <2>4 DEF Effect
<1> QED
  BY <1>1, <1>2

\* A step that leaves rows of a test that is gone leaves someone to answer for them.
LEMMA RunsExcusedKept ==
  ASSUME TypeOK, NEW d \in Calls, Effect(d), Shape(d), RunsExcused
  PROVE  RunsExcused'
<1> SUFFICES ASSUME NEW t \in Ids, tests'[t] = NoTest, runs'[t] # <<>>
             PROVE  \E c \in Calls : RunsExcuse(c, t)'
  BY DEF RunsExcused
<1>1. CASE tests[t] # NoTest
  <2>1. DeleteEffect(d) /\ At(d, "idle") /\ call'[d].id = t
    BY <1>1, RowsStay
  <2>2. call'[d].at = "runs"
    BY <1>1, <2>1 DEF DeleteEffect, At
  <2> QED
    BY <2>1, <2>2 DEF RunsExcuse, At
<1>2. CASE tests[t] = NoTest /\ runs[t] = <<>>
  <2>1. RunsEffect(d) /\ At(d, "insert") /\ call[d].id = t
    BY <1>2 DEF Effect, LoadEffect, WorkEffect, PutEffect, WriteEffect, KeepEffect, RunsEffect,
                DeleteEffect, FailEffect, TypeOK, tables
  <2>2. d \in late
    BY <1>2, <2>1 DEF Shape, At, Working
  <2>3. d \in late' /\ call'[d].id = t
    BY <2>1, <2>2, HistoryGrows DEF Keeps, At
  <2> QED
    BY <2>3 DEF RunsExcuse
<1>3. CASE tests[t] = NoTest /\ runs[t] # <<>>
  <2>1. PICK c \in Calls : RunsExcuse(c, t)
    BY <1>3 DEF RunsExcused
  <2>2. CASE c # d
    BY <2>1, <2>2, HistoryGrows DEF RunsExcuse, At, Others
  <2>3. CASE c = d
    <3>1. call[d].at # "idle" /\ call[d].id = t
      BY <2>1, <2>3 DEF RunsExcuse, Shape, At, Steps
    <3>2. call'[d].id = t
      BY <3>1, HistoryGrows DEF Keeps
    <3>3. CASE d \in late \/ <<d, "runs">> \in cut
      BY <3>2, <3>3, HistoryGrows DEF RunsExcuse
    <3>4. CASE At(d, "runs")
      <4>1. DeleteEffect(d) \/ FailEffect(d)
        BY <3>4 DEF Effect, LoadEffect, WorkEffect, PutEffect, WriteEffect, KeepEffect, RunsEffect, At,
                    Working
      <4>2. ~DeleteEffect(d)
        BY <3>1, <3>4 DEF DeleteEffect, At, TypeOK
      <4>3. <<d, "runs">> \in cut'
        BY <3>4, <4>1, <4>2 DEF FailEffect, At
      <4> QED
        BY <3>2, <4>3 DEF RunsExcuse
    <3> QED
      BY <2>1, <2>3, <3>3, <3>4 DEF RunsExcuse
  <2> QED
    BY <2>2, <2>3
<1> QED
  BY <1>1, <1>2, <1>3

LEMMA RevsExcusedKept ==
  ASSUME TypeOK, NEW d \in Calls, Effect(d), Shape(d), RevsExcused
  PROVE  RevsExcused'
<1> SUFFICES ASSUME NEW t \in Ids, tests'[t] = NoTest, revisions'[t] # {}
             PROVE  \E c \in Calls : RevsExcuse(c, t)'
  BY DEF RevsExcused
<1>1. CASE tests[t] # NoTest
  <2>1. DeleteEffect(d) /\ At(d, "idle") /\ call'[d].id = t
    BY <1>1, RowsStay
  <2>2. call'[d].at = "runs"
    BY <1>1, <2>1 DEF DeleteEffect, At
  <2> QED
    BY <2>1, <2>2 DEF RevsExcuse, RunsExcuse, At
<1>2. CASE tests[t] = NoTest /\ revisions[t] = {}
  <2>1. KeepEffect(d) /\ call[d].id = t
    BY <1>2 DEF Effect, LoadEffect, WorkEffect, PutEffect, WriteEffect, KeepEffect, RunsEffect,
                DeleteEffect, FailEffect, TypeOK, tables
  <2>2. d \in late
    BY <1>2, <2>1 DEF KeepEffect, Shape, At, Working
  <2>3. d \in late' /\ call'[d].id = t
    BY <2>1, <2>2, HistoryGrows DEF Keeps, KeepEffect, At
  <2> QED
    BY <2>3 DEF RevsExcuse, RunsExcuse
<1>3. CASE tests[t] = NoTest /\ revisions[t] # {}
  <2>1. PICK c \in Calls : RevsExcuse(c, t)
    BY <1>3 DEF RevsExcused
  <2>2. CASE c # d
    BY <2>1, <2>2, HistoryGrows DEF RevsExcuse, RunsExcuse, At, Others
  <2>3. CASE c = d
    <3>1. call[d].at # "idle" /\ call[d].id = t
      BY <2>1, <2>3 DEF RevsExcuse, RunsExcuse, Shape, At, Steps
    <3>2. call'[d].id = t
      BY <3>1, HistoryGrows DEF Keeps
    <3>3. CASE d \in late \/ <<d, "runs">> \in cut \/ <<d, "revs">> \in cut
      BY <3>2, <3>3, HistoryGrows DEF RevsExcuse, RunsExcuse
    <3>4. CASE At(d, "runs") \/ At(d, "revs")
      <4>1. DeleteEffect(d) \/ FailEffect(d)
        BY <3>4 DEF Effect, LoadEffect, WorkEffect, PutEffect, WriteEffect, KeepEffect, RunsEffect, At,
                    Working
      <4>2. CASE DeleteEffect(d)
        <5>1. At(d, "runs")
          BY <3>1, <3>4, <4>2 DEF DeleteEffect, At, TypeOK
        <5>2. call'[d].at = "revs"
          BY <4>2, <5>1 DEF DeleteEffect, At
        <5> QED
          BY <3>2, <5>2 DEF RevsExcuse, At
      <4>3. CASE FailEffect(d)
        <5>1. <<d, "runs">> \in cut' \/ <<d, "revs">> \in cut'
          BY <3>4, <4>3 DEF FailEffect, At
        <5> QED
          BY <3>2, <5>1 DEF RevsExcuse, RunsExcuse
      <4> QED
        BY <4>1, <4>2, <4>3
    <3> QED
      BY <2>1, <2>3, <3>3, <3>4 DEF RevsExcuse, RunsExcuse
  <2> QED
    BY <2>2, <2>3
<1> QED
  BY <1>1, <1>2, <1>3

LEMMA ExcuseStays ==
  ASSUME TypeOK, NEW d \in Calls, Effect(d), Shape(d),
         NEW c \in Calls, call'[c].id = call[c].id, SuspectExcuse(c)
  PROVE  SuspectExcuse(c)'
<1>1. CASE c \in late \/ \E s \in Steps : <<c, s>> \in cut
  BY <1>1, HistoryGrows DEF SuspectExcuse
<1>2. CASE \E e \in Calls : Unmarked(e, call[c].id)
  <2>1. PICK e \in Calls : Unmarked(e, call[c].id)
    BY <1>2
  <2>2. e = d => call[d].at # "idle"
    BY <2>1 DEF Unmarked, Shape, At
  <2>3. call'[e].id = call[e].id /\ call'[e].op = call[e].op /\ cleared \subseteq cleared'
    BY <2>2, HistoryGrows DEF Others, Keeps
  <2>4. Unmarked(e, call[c].id)'
    BY <2>1, <2>3 DEF Unmarked
  <2> QED
    BY <2>4 DEF SuspectExcuse
<1> QED
  BY <1>1, <1>2 DEF SuspectExcuse

\* A marker goes only by a write that is counted, or with its row.
LEMMA MarkersStay ==
  ASSUME TypeOK, NEW d \in Calls, Effect(d), NEW t \in Ids, tests[t].quarantine
  PROVE  tests'[t].quarantine \/ Unmarked(d, t)'
<1>1. CASE UNCHANGED tests
  BY <1>1
<1>2. CASE PutEffect(d)
  <2>1. PICK u \in Ids, x \in Defs : /\ call'[d].id = u /\ tests' = [tests EXCEPT ![u] = x]
          /\ cleared' = IF tests[u].quarantine /\ ~x.quarantine THEN cleared \cup {d} ELSE cleared
    BY <1>2 DEF PutEffect
  <2>2. CASE u # t
    BY <2>1, <2>2 DEF TypeOK
  <2>3. CASE u = t
    <3>1. tests'[t] = x
      BY <2>1, <2>3 DEF TypeOK
    <3>2. x.quarantine \/ d \in cleared'
      BY <2>1, <2>3
    <3> QED
      BY <2>1, <2>3, <3>1, <3>2 DEF Unmarked
  <2> QED
    BY <2>2, <2>3
<1>3. CASE WriteEffect(d)
  <2> DEFINE u == call[d].id
             lands == call[d].op # "rename" \/ tests[u] # NoTest
  <2>1. /\ call'[d].id = u
        /\ tests' = IF lands THEN [tests EXCEPT ![u] = call[d].new] ELSE tests
        /\ cleared' = IF lands /\ tests[u].quarantine /\ ~call[d].new.quarantine
                      THEN cleared \cup {d} ELSE cleared
    BY <1>3 DEF WriteEffect, Keeps
  <2>2. CASE u # t \/ ~lands
    BY <2>1, <2>2 DEF TypeOK
  <2>3. CASE u = t /\ lands
    <3>1. tests'[t] = call[d].new
      BY <2>1, <2>3 DEF TypeOK
    <3>2. call[d].new.quarantine \/ d \in cleared'
      BY <2>1, <2>3
    <3> QED
      BY <2>1, <2>3, <3>1, <3>2 DEF Unmarked
  <2> QED
    BY <2>2, <2>3
<1>4. CASE DeleteEffect(d)
  <2>1. CASE tests' = [tests EXCEPT ![call'[d].id] = NoTest]
    <3>1. CASE call'[d].id = t
      BY <1>4, <3>1 DEF DeleteEffect, Unmarked
    <3>2. CASE call'[d].id # t
      BY <2>1, <3>2 DEF TypeOK
    <3> QED
      BY <3>1, <3>2
  <2> QED
    BY <1>1, <1>4, <2>1 DEF DeleteEffect
<1> QED
  BY <1>1, <1>2, <1>3, <1>4 DEF Effect, LoadEffect, WorkEffect, KeepEffect, RunsEffect, FailEffect, tables

LEMMA SuspectsKept ==
  ASSUME TypeOK, NEW d \in Calls, Effect(d), Shape(d), Suspects
  PROVE  Suspects'
<1> SUFFICES ASSUME NEW c \in Calls, call'[c].at = "done", call'[c].suspect
             PROVE  tests'[call'[c].id].quarantine \/ SuspectExcuse(c)'
  BY DEF Suspects, At
<1>0. call[c].id \in Ids
  BY DEF TypeOK, CallState
<1>1. CASE c # d
  <2>1. call'[c] = call[c]
    BY <1>1, HistoryGrows DEF Others
  <2>2. CASE SuspectExcuse(c)
    BY <2>1, <2>2, ExcuseStays
  <2>3. CASE tests[call[c].id].quarantine
    <3>1. PICK t \in Ids : t = call[c].id
      BY <1>0
    <3>2. tests'[t].quarantine \/ Unmarked(d, t)'
      BY <2>3, <3>1, MarkersStay
    <3> QED
      BY <2>1, <3>1, <3>2 DEF SuspectExcuse, Unmarked
  <2> QED
    BY <2>1, <2>2, <2>3 DEF Suspects, At
<1>2. CASE c = d
  <2>1. CASE WorkEffect(d)
    <3>1. At(d, "reload") /\ tests[call[d].id] = NoTest
      BY <1>2, <2>1 DEF WorkEffect
    <3>2. d \in late
      BY <3>1 DEF Shape, At, Working
    <3> QED
      BY <1>2, <3>2, HistoryGrows DEF SuspectExcuse
  <2>2. CASE WriteEffect(d)
    <3>1. call[d].suspect /\ At(d, "write") /\ Keeps(d)
      BY <1>2, <2>2 DEF WriteEffect
    <3>2. call[d].new.quarantine /\ call[d].op # "rename"
      BY <3>1 DEF Shape
    <3>3. tests' = [tests EXCEPT ![call[d].id] = call[d].new]
      BY <2>2, <3>2 DEF WriteEffect
    <3> QED
      BY <1>0, <1>2, <3>1, <3>2, <3>3 DEF TypeOK, Keeps
  <2>3. CASE FailEffect(d)
    <3>1. call[d].at \in Steps
      BY DEF TypeOK, CallState
    <3> QED
      BY <1>2, <2>3, <3>1 DEF FailEffect, SuspectExcuse
  <2>4. CASE LoadEffect(d) \/ PutEffect(d) \/ KeepEffect(d) \/ RunsEffect(d) \/ DeleteEffect(d)
    <3>1. call'[d].at # "done" \/ ~call'[d].suspect
      BY <2>4 DEF LoadEffect, PutEffect, KeepEffect, RunsEffect, DeleteEffect
    <3> QED
      BY <1>2, <3>1
  <2> QED
    BY <2>1, <2>2, <2>3, <2>4 DEF Effect
<1> QED
  BY <1>1, <1>2

-----------------------------------------------------------------------------

LEMMA InitInvariant ==
  ASSUME Init
  PROVE  IInv
<1> DEFINE r == [op |-> "none", id |-> CHOOSE t \in Ids : TRUE, at |-> "idle",
                 suspect |-> FALSE, got |-> NoTest, new |-> NoTest, snap |-> NoTest]
<1>1. call = [c \in Calls |-> r]
  BY DEF Init
<1>2. (CHOOSE t \in Ids : TRUE) \in Ids
  BY StoreAssumption
<1>3. r \in CallState /\ r.at = "idle" /\ r.op = "none" /\ ~r.suspect
  BY <1>2 DEF CallState, Ops, Steps
<1> HIDE DEF r
<1>4. call \in [Calls -> CallState]
      /\ \A c \in Calls : call[c].at = "idle" /\ call[c].op = "none" /\ ~call[c].suspect
  BY <1>1, <1>3
<1>5. tests \in [Ids -> Defs \cup {NoTest}]
  <2>1. [ver : {0}, oracle : 0 .. MaxOracle, quarantine : {FALSE}] \subseteq Defs
    <3>1. {0} \subseteq 0 .. NCalls
      BY StoreAssumption
    <3> QED
      BY <3>1 DEF Defs
  <2>2. tests \in [Ids -> {NoTest} \cup [ver : {0}, oracle : 0 .. MaxOracle, quarantine : {FALSE}]]
    BY DEF Init
  <2> QED
    BY <2>1, <2>2
<1>6. /\ runs = [t \in Ids |-> <<>>] /\ revisions = [t \in Ids |-> {}]
      /\ faults = 0 /\ late = {} /\ cleared = {} /\ cut = {}
  BY DEF Init
<1>7. TypeOK
  <2>1. runs \in [Ids -> Seq(Calls)] /\ revisions \in [Ids -> SUBSET Defs]
    BY <1>6
  <2>2. faults \in 0 .. MaxFaults
    BY <1>6, StoreAssumption
  <2> QED
    BY <1>4, <1>5, <1>6, <2>1, <2>2 DEF TypeOK
<1>8. \A c \in Calls : Shape(c) /\ Heals(c)
  BY <1>4, <1>6 DEF Shape, Heals, At, Working
<1>9. RunsExcused /\ RevsExcused
  BY <1>6 DEF RunsExcused, RevsExcused
<1>10. Suspects
  BY <1>4 DEF Suspects, At
<1> QED
  BY <1>7, <1>8, <1>9, <1>10 DEF IInv

LEMMA NextInvariant ==
  ASSUME IInv, [Next]_vars
  PROVE  IInv'
<1>1. CASE Next
  <2>1. PICK d \in Calls : Effect(d)
    BY <1>1, NextEffects
  <2>2. TypeOK /\ (\A c \in Calls : Shape(c) /\ Heals(c)) /\ RunsExcused /\ RevsExcused /\ Suspects
    BY DEF IInv
  <2>3. TypeOK'
    BY <2>1, <2>2, TypeKept
  <2>4. ASSUME NEW c \in Calls
        PROVE  Shape(c)' /\ Heals(c)'
    <3>1. Shape(c)'
      BY <2>1, <2>2, ShapeOfOthers, ShapeOfOwn
    <3>2. Heals(c)'
      BY <2>1, <2>2, HealsKept
    <3> QED
      BY <3>1, <3>2
  <2>5. RunsExcused' /\ RevsExcused'
    BY <2>1, <2>2, RunsExcusedKept, RevsExcusedKept
  <2>6. Suspects'
    BY <2>1, <2>2, SuspectsKept
  <2> QED
    BY <2>3, <2>4, <2>5, <2>6 DEF IInv
<1>2. CASE UNCHANGED vars
  <2>1. TypeOK'
    BY <1>2 DEF vars, IInv, TypeOK
  <2>2. \A c \in Calls : Shape(c)' /\ Heals(c)'
    BY <1>2 DEF vars, IInv, Shape, Heals, At
  <2>3. RunsExcused' /\ RevsExcused'
    BY <1>2 DEF vars, IInv, RunsExcused, RevsExcused, RunsExcuse, RevsExcuse, At
  <2>4. Suspects'
    BY <1>2 DEF vars, IInv, Suspects, SuspectExcuse, Unmarked, At
  <2> QED
    BY <2>1, <2>2, <2>3, <2>4 DEF IInv
<1> QED
  BY <1>1, <1>2

THEOREM Invariance == Spec => []IInv
<1> QED
  BY InitInvariant, NextInvariant, PTL DEF Spec

\* Every variable keeps its type, whatever the callers do to each other.
THEOREM TypeCorrect == Spec => []TypeOK
<1>1. IInv => TypeOK
  BY DEF IInv
<1> QED
  BY <1>1, Invariance, PTL

\* Rows of a test that is gone are someone's: store.rs's delete takes three
\* statements, and no other caller leaves rows behind but one it overtook.
THEOREM OrphansAreAlwaysExcused == Spec => []OrphansAreExcused
<1>1. IInv => OrphansAreExcused
  BY DEF IInv, RunsExcused, RevsExcused, RunsExcuse, RevsExcuse, OrphansAreExcused
<1> QED
  BY <1>1, Invariance, PTL

\* The gate's suspects stay out of whole-suite runs (accept.rs, set_quarantine).
THEOREM SuspectsAlwaysStayOut == Spec => []SuspectsStayOut
<1>1. IInv => SuspectsStayOut
  BY DEF IInv, Suspects, SuspectExcuse, Unmarked, SuspectsStayOut
<1> QED
  BY <1>1, Invariance, PTL

\* "so the original is always recoverable" (rerun.rs:176): a heal overwrites only
\* what is among the revisions.
THEOREM HealAlwaysKeepsOriginal == Spec => HealKeepsOriginal
<1> DEFINE known(c) == IF call[c].snap = NoTest THEN call[c].got ELSE call[c].snap
           Kept == \A c \in Calls :
                     Replaces(c) /\ Row(c) = known(c) /\ c \notin late => Row(c) \in revisions[call[c].id]
<1>1. IInv /\ [Next]_vars => [Kept]_vars
  <2> SUFFICES ASSUME IInv, NEW c \in Calls, Replaces(c), Row(c) = known(c), c \notin late
               PROVE  Row(c) \in revisions[call[c].id]
    OBVIOUS
  <2>1. At(c, "write") /\ call[c].op = "rerun"
    BY DEF Replaces
  <2>2. call[c].snap # NoTest /\ call[c].snap \in revisions[call[c].id]
    BY <2>1 DEF IInv, Heals
  <2> QED
    BY <2>2
<1> QED
  BY <1>1, Invariance, PTL DEF Spec, HealKeepsOriginal

=============================================================================
