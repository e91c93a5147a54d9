------------------------ MODULE RegressionLoop_proofs ------------------------
(***************************************************************************)
(* What the commands of RegressionLoop run and answer, and the levels that *)
(* Waves arranges a suite in, for any number of commands, tests, changes   *)
(* and edits from outside.                                                 *)
(*                                                                         *)
(* The commands.  LoopInv says what a command knows of itself (Consistent, *)
(* Tallied) and, as long as nobody has crossed it, of the store and the    *)
(* tree (UpToDate): what it was asked for is among what it is going to     *)
(* run, what it has run is what the store has on record.  An edit from     *)
(* outside or another command's result crosses it, so no lemma is needed   *)
(* about what the others do.  One lemma per action; the properties of      *)
(* single steps follow from LoopInv before the step.                       *)
(*                                                                         *)
(* The levels.  They are disjoint and hold exactly the tests in `done`,    *)
(* and the pass that finds none adds what is left.  An in-degree is at     *)
(* every pass the number of edges whose producer is still to come, so it   *)
(* is zero exactly when every producer has been emitted.                   *)
(***************************************************************************)
EXTENDS RegressionLoop, Waves, TLAPS, FiniteSetTheorems

\* From the check of the approvals to the triage.
Working == {"approve", "acquire", "load", "execute", "triage"}

\* What the command is going to run or has run.
Target(r) == IF r.whole THEN Suite(r.req.kind) ELSE r.ids

Approvable(q) == q.approved => q.kind \in {"run", "loop"}

\* What a command knows of itself.
Consistent(r) ==
    /\ r.req.pick \in Picks[r.req.kind] /\ Approvable(r.req)
    /\ r.at \in {"idle", "generate", "select", "approve"} =>
          r.results = NoResults /\ ~r.smoking /\ ~r.interrupted
    /\ r.at = "idle" => r.passed = 0 /\ r.failed = 0 /\ r.blocked = 0
    /\ r.at \in {"generate", "select"} => r.req.pick = "changed"
    /\ r.at \in Working /\ ~r.whole => r.ids # {}
    /\ r.at = "triage" => r.req.kind = "loop" /\ r.todo = {}
    /\ r.smoking => r.req.kind = "gate"
    /\ r.green => r.at = "done"

\* The replays of `test flaky`: one test, tallied once each time.
Tallied(r) ==
    r.req.kind = "flaky" /\ r.at \notin {"idle", "error"} =>
        /\ r.at \in {"acquire", "load", "execute", "done"}
        /\ ~r.whole /\ r.ids = {r.req.id}
        /\ r.passed + r.failed + r.blocked + r.replays <= Replays
        /\ ~r.interrupted => r.passed + r.failed + r.blocked + r.replays = Replays
        /\ r.replays = 0 <=> r.at = "done"
        /\ r.at = "execute" => /\ r.todo \cup Executed(r) \subseteq {r.req.id}
                               /\ ~r.interrupted => r.req.id \in r.todo \cup Executed(r)

\* What it knows of the store and the tree, as long as nobody crosses it.
UpToDate(r) ==
    /\ r.at \in Working /\ ~r.smoking => Promised(r.req) \subseteq Target(r)
    /\ r.at \in {"acquire", "load"} /\ r.req.approved =>
          Unapproved(IF r.whole THEN Stored ELSE r.ids) = {}
    /\ r.at = "execute" => r.todo \subseteq Stored /\ r.todo \subseteq Target(r)
    /\ r.at \in {"execute", "triage"} =>
          /\ \A t \in Executed(r) : t \in Stored /\ latest[t] = r.results[t]
          /\ ~r.interrupted => Target(r) \subseteq r.todo \cup Executed(r)
    /\ r.at = "done" /\ r.req.kind = "loop" =>
          /\ Red(r) \subseteq r.clusters
          /\ "failing" \in r.says => r.clusters # {}
          /\ "empty suite" \in r.says /\ ~r.interrupted => Runnable = {}

LoopType ==
    /\ Stored \subseteq TestIds /\ store \in [Stored -> Bodies]
    /\ approved \subseteq Prds
    /\ latest \in [TestIds -> Verdicts \cup {"none"}]
    /\ tree \in Trees
    /\ call \in [Calls -> CallState]

LoopInv ==
    /\ LoopType
    /\ \A c \in Calls : /\ Consistent(call[c]) /\ Tallied(call[c])
                        /\ ~call[c].crossed => UpToDate(call[c])

\* Of the functions that begin at a line or above there is a last one.
LEMMA LastFunctionAbove ==
    ASSUME NEW U, \A f \in U : f.line \in Nat,
           NEW l \in Nat, NEW g \in U, g.line <= l
    PROVE  \E f \in U : f.line <= l /\ \A h \in U : h.line <= l => h.line <= f.line
<1> DEFINE T == {l - f.line : f \in {x \in U : x.line <= l}}
           R == OpToRel(<, Nat)
<1>1. T \subseteq Nat /\ T # {}
    OBVIOUS
<1>2. PICK m \in T : \A y \in T : <<y, m>> \notin R
    <2>1. IsWellFoundedOn(R, Nat)
        BY NatLessThanWellFounded
    <2> HIDE DEF R, T
    <2>2. \E m \in T : \A y \in T : ~ (<<y, m>> \in R)
        BY <1>1, <2>1, WFMin
    <2> QED
        BY <2>2
<1>3. PICK f \in U : f.line <= l /\ m = l - f.line
    OBVIOUS
<1>4. ASSUME NEW h \in U, h.line <= l PROVE h.line <= f.line
    <2>1. l - h.line \in T /\ l - h.line \in Nat /\ m \in Nat
        BY <1>1, <1>4
    <2>2. ~(l - h.line < m)
        BY <1>2, <2>1 DEF OpToRel
    <2> QED
        BY <1>3, <1>4, <2>2
<1> QED
    BY <1>3, <1>4

\* changed_surface says that nothing changed only when neither the diff nor the
\* untracked files show anything: every line of a hunk is of some function or of
\* the top of a file.
LEMMA NoChangeIsNothing ==
    ASSUME tree \in Trees, ChangedUnits(tree) = {}, FileLevel(tree) = {}
    PROVE  ~Changed
<1> DEFINE S == Surface(tree.code)
<1>1. \A f \in S : f.file \notin tree.untracked
    BY DEF ChangedUnits, NewUnits
<1>2. ASSUME NEW h \in tree.hunks PROVE FALSE
    <2> DEFINE F == InFile(h.file, S)
               L == LinesOf(h.file, tree)
    <2>1. h.file \in {x.file : x \in tree.hunks}
        OBVIOUS
    <2>2. F # {} /\ ~TouchesTop(F, L)
        BY <2>1 DEF FileLevel
    <2>3. \A f \in F : f.line \in Nat
        BY LoopAssumption DEF InFile, Surface, IsFunction
    <2>4. PICK l \in Nat : l \in HunkLines(h)
        <3>1. h.start \in Nat /\ h.count \in Nat
            BY LoopAssumption
        <3>2. CASE h.start = 0
            <4>1. 1 \in HunkLines(h)
                BY <3>1, <3>2 DEF HunkLines
            <4> QED
                BY <4>1
        <3>3. CASE h.start # 0
            <4>1. h.start \in HunkLines(h)
                BY <3>1, <3>3 DEF HunkLines
            <4> QED
                BY <3>1, <4>1
        <3> QED
            BY <3>2, <3>3
    <2>5. l \in L
        BY <2>4 DEF LinesOf
    <2>6. PICK g \in F : g.line <= l
        <3>1. \E f \in F : ~(l < f.line)
            BY <2>2, <2>5 DEF TouchesTop
        <3> QED
            BY <2>3, <3>1
    <2> HIDE DEF F, L
    <2>7. PICK f \in F : f.line <= l /\ \A x \in F : x.line <= l => x.line <= f.line
        BY <2>3, <2>6, LastFunctionAbove
    <2>8. f \in Touched(F, L)
        BY <2>5, <2>7 DEF Touched
    <2>9. f \in ChangedUnits(tree)
        BY <2>1, <2>8 DEF ChangedUnits, F, L
    <2> QED
        BY <2>9
<1> QED
    BY <1>1, <1>2 DEF Changed

\* What a command knows changes only with the store, the approvals, the results
\* and the tree.
LEMMA KnowledgeKept ==
    ASSUME UNCHANGED <<store, approved, latest, tree>>, NEW r
    PROVE  UpToDate(r)' <=> UpToDate(r)
<1>1. /\ Stored' = Stored /\ Runnable' = Runnable /\ LastFailed' = LastFailed
      /\ Changed' = Changed /\ Affected' = Affected
    BY DEF Stored, Runnable, LastFailed, Changed, Affected
<1>2. /\ Promised(r.req)' = Promised(r.req) /\ Target(r)' = Target(r)
      /\ Unapproved(r.ids)' = Unapproved(r.ids) /\ Unapproved(Stored)' = Unapproved(Stored)
    BY <1>1 DEF Promised, Target, Suite, Unapproved
<1>3. Unapproved(IF r.whole THEN Stored ELSE r.ids)' = Unapproved(IF r.whole THEN Stored ELSE r.ids)
    BY <1>1 DEF Unapproved
<1> QED
    BY <1>1, <1>2, <1>3 DEF UpToDate

LEMMA CrossedFacts ==
    ASSUME NEW r \in CallState, Consistent(r), Tallied(r),
           NEW x, x = [r EXCEPT !.crossed = TRUE]
    PROVE  x \in CallState /\ Consistent(x) /\ Tallied(x) /\ x.crossed
BY DEF CallState, Consistent, Approvable, Tallied, Executed

\* A step of c that leaves alone what the others know.
LEMMA ByUpdate ==
    ASSUME LoopInv, NEW c \in Calls, NEW r \in CallState, Update(c, r),
           UNCHANGED <<store, approved, latest, tree>>,
           Consistent(r), Tallied(r), ~r.crossed => UpToDate(r)
    PROVE  LoopInv'
<1>1. /\ call' \in [Calls -> CallState] /\ call'[c] = r
      /\ \A d \in Calls \ {c} : call'[d] = call[d]
    BY DEF Update, LoopInv, LoopType
<1>2. LoopType'
    BY <1>1 DEF LoopInv, LoopType, Stored
<1>3. ASSUME NEW d \in Calls
      PROVE  (/\ Consistent(call[d]) /\ Tallied(call[d])
              /\ ~call[d].crossed => UpToDate(call[d]))'
    <2> PICK x : x = call'[d]
        OBVIOUS
    <2>1. Consistent(x) /\ Tallied(x) /\ (~x.crossed => UpToDate(x))
        BY <1>1 DEF LoopInv
    <2>2. ~x.crossed => UpToDate(x)'
        BY <2>1, KnowledgeKept
    <2> QED
        BY <2>1, <2>2
<1> QED
    BY <1>2, <1>3 DEF LoopInv

\* A step of c that crosses the others.
LEMMA ByCrossing ==
    ASSUME LoopInv, NEW c \in Calls, NEW r \in CallState, Crossing(c, r),
           Stored' \subseteq TestIds, store' \in [Stored' -> Bodies],
           approved' = approved, tree' = tree,
           latest' \in [TestIds -> Verdicts \cup {"none"}],
           Consistent(r), Tallied(r), ~r.crossed => UpToDate(r)'
    PROVE  LoopInv'
<1>1. \A d \in Calls : \/ d = c /\ call'[d] = r
                       \/ d # c /\ call'[d] = [call[d] EXCEPT !.crossed = TRUE]
    BY DEF Crossing
<1>2. call' \in [Calls -> CallState]
    <2>1. \A d \in Calls : call'[d] \in CallState
        BY <1>1, CrossedFacts DEF LoopInv, LoopType
    <2>2. DOMAIN call' = Calls /\ call' = [d \in Calls |-> call'[d]]
        BY DEF Crossing
    <2> QED
        BY <2>1, <2>2
<1>3. LoopType'
    BY <1>2 DEF LoopInv, LoopType
<1>4. ASSUME NEW d \in Calls
      PROVE  (/\ Consistent(call[d]) /\ Tallied(call[d])
              /\ ~call[d].crossed => UpToDate(call[d]))'
    <2>1. CASE d = c
        <3>1. call'[d] = r
            BY <1>1, <2>1
        <3> QED
            BY <3>1
    <2>2. CASE d # c
        <3>1. call'[d] = [call[d] EXCEPT !.crossed = TRUE] /\ call[d] \in CallState
            BY <1>1, <2>2 DEF LoopInv, LoopType
        <3>2. Consistent(call[d]) /\ Tallied(call[d])
            BY DEF LoopInv
        <3> PICK x : x = call'[d]
            OBVIOUS
        <3>3. Consistent(x) /\ Tallied(x) /\ x.crossed
            BY <3>1, <3>2, CrossedFacts
        <3> QED
            BY <3>3
    <2> QED
        BY <2>1, <2>2
<1> QED
    BY <1>3, <1>4 DEF LoopInv

LEMMA LoopInitInv == LoopInit => LoopInv
<1> SUFFICES ASSUME LoopInit PROVE LoopInv
    OBVIOUS
<1>1. PICK s \in Scenarios : tree = s.tree /\ call = [c \in Calls |-> Idle(s.asked[c])]
    BY DEF LoopInit
<1>2. s.tree \in Trees /\ \A c \in Calls :
          /\ s.asked[c] \in RequestShape /\ Approvable(s.asked[c])
          /\ s.asked[c].pick \in Picks[s.asked[c].kind]
    BY LoopAssumption DEF Approvable
<1>3. ASSUME NEW q \in RequestShape
      PROVE  Idle(q) \in CallState
    BY LoopAssumption DEF Idle, CallState, NoResults, Steps, Selections
<1>4. ASSUME NEW q \in RequestShape, Approvable(q), q.pick \in Picks[q.kind]
      PROVE  Consistent(Idle(q)) /\ Tallied(Idle(q)) /\ UpToDate(Idle(q))
    BY <1>4 DEF Idle, Consistent, Tallied, UpToDate, Working
<1>5. LoopType
    BY <1>1, <1>2, <1>3 DEF LoopInit, LoopType, Stored, NoResults
<1> QED
    BY <1>1, <1>2, <1>4, <1>5 DEF LoopInv

-----------------------------------------------------------------------------
(* The commands begin *)

LEMMA CallFacts ==
    ASSUME LoopInv, NEW c \in Calls
    PROVE  /\ call[c] \in CallState /\ call[c].req \in RequestShape
           /\ Consistent(call[c]) /\ Tallied(call[c])
           /\ ~call[c].crossed => UpToDate(call[c])
BY DEF LoopInv, LoopType, CallState

LEMMA NamedIds ==
    ASSUME LoopInv, NEW q \in RequestShape
    PROVE  /\ Stored \subseteq TestIds /\ Runnable \subseteq Stored
           /\ LastFailed \subseteq Stored /\ Affected \subseteq Stored
           /\ Named(q) \subseteq TestIds
<1>1. Stored \subseteq TestIds /\ Runnable \subseteq Stored /\ LastFailed \subseteq Stored /\ Affected \subseteq Stored
    BY DEF LoopInv, LoopType, Runnable, LastFailed, Affected
<1>2. q.id \in TestIds
    BY DEF RequestShape
<1> QED
    BY <1>1, <1>2 DEF Named

LEMMA StartedFacts ==
    ASSUME NEW r \in CallState, Consistent(r), r.at = "idle",
           NEW S \in SUBSET TestIds, NEW next \in Steps,
           NEW x, x = Started(r, S, next)
    PROVE  /\ x \in CallState /\ x.req = r.req /\ x.at = next /\ x.ids = S
           /\ x.whole <=> S = {}
           /\ x.results = NoResults /\ ~x.smoking /\ ~x.interrupted /\ ~x.green
           /\ x.passed = 0 /\ x.failed = 0 /\ x.blocked = 0
           /\ x.req.pick \in Picks[x.req.kind] /\ Approvable(x.req)
BY DEF CallState, Consistent, Started

\* A command that has decided what to run, before it takes the lock.
LEMMA BegunAtWork ==
    ASSUME LoopInv, NEW c \in Calls,
           NEW x \in CallState, Update(c, x), UNCHANGED <<store, approved, latest, tree>>,
           x.at \in {"generate", "select", "approve", "acquire", "load"},
           x.whole <=> x.ids = {},
           x.results = NoResults, ~x.interrupted, ~x.green,
           x.smoking => x.req.kind = "gate" /\ x.at = "acquire",
           x.req.kind # "flaky",
           x.req.pick \in Picks[x.req.kind], Approvable(x.req),
           x.at \in {"generate", "select"} => x.req.pick = "changed",
           x.at \in {"acquire", "load"} => ~x.req.approved,
           x.at \in {"approve", "acquire", "load"} /\ ~x.smoking => Promised(x.req) \subseteq Target(x)
    PROVE  LoopInv'
<1>1. Consistent(x) /\ Tallied(x)
    BY DEF Consistent, Tallied, Working
<1>2. UpToDate(x)
    BY DEF UpToDate, Working
<1> QED
    BY <1>1, <1>2, ByUpdate

LEMMA BeginRunKeeps ==
    ASSUME LoopInv, NEW c \in Calls, BeginRun(c)
    PROVE  LoopInv'
<1> PICK r : r = call[c]
    OBVIOUS
<1> DEFINE q == r.req
           S == IF q.pick = "changed" THEN {} ELSE Named(q)
           next == IF q.pick = "changed" THEN "select"
                   ELSE IF q.pick = "group" /\ Named(q) = {} /\ ~q.mcp THEN "done"
                   ELSE AfterSelect(q)
           s == Started(r, S, next)
<1>1. /\ r \in CallState /\ q \in RequestShape /\ Consistent(r)
      /\ r.at = "idle" /\ q.kind = "run"
      /\ UNCHANGED <<store, approved, latest, tree>>
    BY CallFacts DEF BeginRun, Begins, At
<1>2. S \in SUBSET TestIds /\ next \in Steps
    BY <1>1, NamedIds DEF AfterSelect, Steps
<1>3. Update(c, IF next = "done" THEN [s EXCEPT !.green = TRUE] ELSE s)
    BY <1>1 DEF BeginRun, Begins, AfterSelect
<1> HIDE DEF S, next
<1>4. /\ s \in CallState /\ s.req = q /\ s.at = next /\ s.ids = S
      /\ s.whole <=> S = {}
      /\ s.results = NoResults /\ ~s.smoking /\ ~s.interrupted /\ ~s.green
      /\ s.req.pick \in Picks[s.req.kind] /\ Approvable(s.req)
    BY <1>1, <1>2, StartedFacts
<1> HIDE DEF s
<1>5. CASE next = "done"
    <2> DEFINE x == [s EXCEPT !.green = TRUE]
    <2>1. /\ x \in CallState /\ x.req = q /\ x.at = "done"
          /\ x.results = s.results /\ x.smoking = s.smoking
        BY <1>4, <1>5 DEF CallState
    <2> HIDE DEF x
    <2>2. Consistent(x) /\ Tallied(x) /\ UpToDate(x)
        BY <1>1, <1>4, <2>1 DEF Consistent, Tallied, UpToDate, Working
    <2> QED
        BY <1>1, <1>3, <1>5, <2>1, <2>2, ByUpdate DEF x
<1>6. CASE next # "done"
    <2>1. q.pick \in {"all", "id", "group", "changed"}
        BY <1>1, <1>4 DEF Picks
    <2>2. next \in {"select", "approve", "acquire"} /\ (next = "select" <=> q.pick = "changed")
        BY <1>6 DEF next, AfterSelect
    <2>3. next = "acquire" => ~q.approved
        BY <1>6 DEF next, AfterSelect
    <2>4. next \in {"approve", "acquire"} => Promised(q) \subseteq Target(s)
        BY <1>1, <1>4, <2>1, <2>2 DEF S, Named, Promised, Target, Suite
    <2> QED
        BY <1>1, <1>3, <1>4, <1>6, <2>2, <2>3, <2>4, BegunAtWork
<1> QED
    BY <1>5, <1>6

LEMMA BeginGateKeeps ==
    ASSUME LoopInv, NEW c \in Calls, BeginGate(c)
    PROVE  LoopInv'
<1> PICK r : r = call[c]
    OBVIOUS
<1> DEFINE S == IF r.req.smoke THEN SmokeSubset ELSE {}
           s == Started(r, S, "acquire")
           x == [s EXCEPT !.smoking = S # {}]
<1>1. /\ r \in CallState /\ r.req \in RequestShape /\ Consistent(r)
      /\ r.at = "idle" /\ r.req.kind = "gate"
      /\ UNCHANGED <<store, approved, latest, tree>> /\ Update(c, x)
    BY CallFacts DEF BeginGate, Begins, At
<1>2. S \in SUBSET TestIds /\ "acquire" \in Steps
    BY <1>1, NamedIds DEF SmokeSubset, Steps
<1> HIDE DEF S
<1>3. /\ s \in CallState /\ s.req = r.req /\ s.at = "acquire" /\ s.ids = S
      /\ s.whole <=> S = {}
      /\ s.results = NoResults /\ ~s.smoking /\ ~s.interrupted /\ ~s.green
      /\ s.req.pick \in Picks[s.req.kind] /\ Approvable(s.req)
    BY <1>1, <1>2, StartedFacts
<1> HIDE DEF s
<1>4. /\ x \in CallState /\ x.req = s.req /\ x.at = s.at /\ x.ids = s.ids /\ x.whole = s.whole
      /\ x.results = s.results /\ (x.smoking <=> S # {}) /\ x.interrupted = s.interrupted
      /\ x.green = s.green
    BY <1>3 DEF CallState
<1> HIDE DEF x
<1>5. x.req.pick = "all" /\ ~x.req.approved
    BY <1>1, <1>3, <1>4 DEF Picks, Approvable
<1>6. ~x.smoking => Promised(x.req) \subseteq Target(x)
    BY <1>1, <1>3, <1>4, <1>5 DEF Promised, Target, Suite
<1> QED
    BY <1>1, <1>3, <1>4, <1>5, <1>6, BegunAtWork

LEMMA BeginLoopKeeps ==
    ASSUME LoopInv, NEW c \in Calls, BeginLoop(c)
    PROVE  LoopInv'
<1> PICK r : r = call[c]
    OBVIOUS
<1> DEFINE q == r.req
           next == IF q.pick # "changed" THEN AfterSelect(q)
                   ELSE IF q.generate THEN "generate" ELSE "select"
           S == {}
           s == Started(r, S, next)
<1>1. /\ r \in CallState /\ q \in RequestShape /\ Consistent(r)
      /\ r.at = "idle" /\ q.kind = "loop"
      /\ UNCHANGED <<store, approved, latest, tree>> /\ Update(c, s)
    BY CallFacts DEF BeginLoop, Begins, At
<1>2. S \in SUBSET TestIds /\ next \in Steps
    BY DEF AfterSelect, Steps
<1>3. /\ next \in {"generate", "select", "approve", "acquire"}
      /\ next \in {"generate", "select"} <=> q.pick = "changed"
      /\ next = "acquire" => ~q.approved
    BY DEF AfterSelect
<1> HIDE DEF next, S
<1>4. /\ s \in CallState /\ s.req = q /\ s.at = next /\ s.ids = S
      /\ s.whole <=> S = {}
      /\ s.results = NoResults /\ ~s.smoking /\ ~s.interrupted /\ ~s.green
      /\ s.req.pick \in Picks[s.req.kind] /\ Approvable(s.req)
    BY <1>1, <1>2, StartedFacts
<1> HIDE DEF s
<1>5. q.pick \in {"all", "changed"}
    BY <1>1, <1>4 DEF Picks
<1>6. next \in {"approve", "acquire"} => Promised(q) \subseteq Target(s)
    BY <1>1, <1>3, <1>4, <1>5 DEF S, Promised, Target, Suite
<1> QED
    BY <1>1, <1>3, <1>4, <1>6, BegunAtWork

LEMMA BeginFlakyKeeps ==
    ASSUME LoopInv, NEW c \in Calls, BeginFlaky(c)
    PROVE  LoopInv'
<1> PICK r : r = call[c]
    OBVIOUS
<1> DEFINE S == Named(r.req)
           next == IF Replays = 0 THEN "done" ELSE "acquire"
           s == Started(r, S, next)
           x == [s EXCEPT !.replays = Replays]
<1>1. /\ r \in CallState /\ r.req \in RequestShape /\ Consistent(r)
      /\ r.at = "idle" /\ r.req.kind = "flaky"
      /\ UNCHANGED <<store, approved, latest, tree>> /\ Update(c, x)
    BY CallFacts DEF BeginFlaky, Begins, At
<1>2. S \in SUBSET TestIds /\ next \in Steps
    BY <1>1, NamedIds DEF Steps
<1>3. next = "done" <=> Replays = 0
    OBVIOUS
<1>4. next \in {"acquire", "done"}
    OBVIOUS
<1> HIDE DEF next, S
<1>5. /\ s \in CallState /\ s.req = r.req /\ s.at = next /\ s.ids = S
      /\ s.whole <=> S = {}
      /\ s.results = NoResults /\ ~s.smoking /\ ~s.interrupted /\ ~s.green
      /\ s.passed = 0 /\ s.failed = 0 /\ s.blocked = 0
      /\ s.req.pick \in Picks[s.req.kind] /\ Approvable(s.req)
    BY <1>1, <1>2, StartedFacts
<1> HIDE DEF s
<1>6. /\ x \in CallState /\ x.req = s.req /\ x.at = s.at /\ x.ids = s.ids /\ x.whole = s.whole
      /\ x.results = s.results /\ x.smoking = s.smoking /\ x.interrupted = s.interrupted
      /\ x.green = s.green /\ x.replays = Replays
      /\ x.passed = 0 /\ x.failed = 0 /\ x.blocked = 0
    BY <1>5, LoopAssumption DEF CallState
<1> HIDE DEF x
<1>7. r.req.pick = "id" /\ ~r.req.approved /\ S = {r.req.id}
    BY <1>1, <1>5 DEF Picks, Approvable, S, Named
<1>8. Consistent(x)
    BY <1>1, <1>4, <1>5, <1>6, <1>7 DEF Consistent, Working
<1>9. Tallied(x)
    <2>1. x.passed + x.failed + x.blocked + x.replays = Replays /\ Replays <= Replays
        BY <1>6, LoopAssumption
    <2>2. x.at \in {"acquire", "done"} /\ (x.replays = 0 <=> x.at = "done")
        BY <1>3, <1>4, <1>5, <1>6
    <2>3. ~x.whole /\ x.ids = {x.req.id}
        BY <1>5, <1>6, <1>7
    <2> QED
        BY <2>1, <2>2, <2>3 DEF Tallied
<1>10. UpToDate(x)
    BY <1>1, <1>4, <1>5, <1>6, <1>7 DEF UpToDate, Working, Promised, Target
<1> QED
    BY <1>1, <1>6, <1>8, <1>9, <1>10, ByUpdate

LEMMA BeginRerunKeeps ==
    ASSUME LoopInv, NEW c \in Calls, BeginRerun(c)
    PROVE  LoopInv'
<1> PICK r : r = call[c]
    OBVIOUS
<1> DEFINE q == r.req
           none == q.pick = "failed" /\ LastFailed = {}
           S == Named(q)
           next == IF none THEN "done" ELSE "load"
           s == Started(r, S, next)
<1>1. /\ r \in CallState /\ q \in RequestShape /\ Consistent(r)
      /\ r.at = "idle" /\ q.kind = "rerun"
      /\ UNCHANGED <<store, approved, latest, tree>>
    BY CallFacts DEF BeginRerun, Begins, At
<1>2. S \in SUBSET TestIds /\ next \in Steps
    BY <1>1, NamedIds DEF Steps
<1>3. none => S = {}
    BY DEF Named
<1>4. Update(c, IF none THEN [s EXCEPT !.green = TRUE] ELSE s)
    BY <1>1, <1>3 DEF BeginRerun, Begins
<1> HIDE DEF S, next
<1>5. /\ s \in CallState /\ s.req = q /\ s.at = next /\ s.ids = S
      /\ s.whole <=> S = {}
      /\ s.results = NoResults /\ ~s.smoking /\ ~s.interrupted /\ ~s.green
      /\ s.req.pick \in Picks[s.req.kind] /\ Approvable(s.req)
    BY <1>1, <1>2, StartedFacts
<1> HIDE DEF s
<1>6. CASE none
    <2> DEFINE x == [s EXCEPT !.green = TRUE]
    <2>1. /\ x \in CallState /\ x.req = q /\ x.at = "done"
          /\ x.results = s.results /\ x.smoking = s.smoking
        BY <1>5, <1>6 DEF CallState, next
    <2> HIDE DEF x
    <2>2. Consistent(x) /\ Tallied(x) /\ UpToDate(x)
        BY <1>1, <1>5, <2>1 DEF Consistent, Tallied, UpToDate, Working
    <2> QED
        BY <1>1, <1>4, <1>6, <2>1, <2>2, ByUpdate DEF x
<1>7. CASE ~none
    <2>1. q.pick \in {"all", "id", "failed"} /\ ~q.approved
        BY <1>1, <1>5 DEF Picks, Approvable
    <2>2. next = "load"
        BY <1>7 DEF next
    <2>3. Promised(q) \subseteq Target(s)
        BY <1>1, <1>5, <1>7, <2>1, NamedIds DEF S, Named, Promised, Target, Suite
    <2> QED
        BY <1>1, <1>4, <1>5, <1>7, <2>1, <2>2, <2>3, BegunAtWork
<1> QED
    BY <1>6, <1>7

-----------------------------------------------------------------------------
(* They select, check and load *)

LEMMA GenerateKeeps ==
    ASSUME LoopInv, NEW c \in Calls, Generate(c)
    PROVE  LoopInv'
<1> PICK r : r = call[c]
    OBVIOUS
<1>1. /\ r \in CallState /\ Consistent(r) /\ Tallied(r) /\ r.at = "generate"
      /\ approved' = approved /\ latest' = latest /\ tree' = tree
    BY CallFacts DEF Generate, At
<1>2. ASSUME NEW t \in TestIds \ Stored, NEW b \in Bodies,
             store' = [u \in Stored \cup {t} |-> IF u = t THEN b ELSE store[u]],
             Crossing(c, [r EXCEPT !.at = "select", !.generated = {t}])
      PROVE  LoopInv'
    <2> DEFINE x == [r EXCEPT !.at = "select", !.generated = {t}]
    <2>1. /\ x \in CallState /\ x.at = "select" /\ x.req = r.req /\ x.results = r.results
          /\ x.smoking = r.smoking /\ x.interrupted = r.interrupted /\ x.green = r.green
        BY <1>1 DEF CallState, Steps
    <2> HIDE DEF x
    <2>2. Consistent(x) /\ Tallied(x)
        BY <1>1, <2>1 DEF Consistent, Tallied, Working, Picks
    <2>3. UpToDate(x)'
        BY <2>1 DEF UpToDate, Working
    <2>4. DOMAIN store' = Stored \cup {t} /\ store' \in [Stored \cup {t} -> Bodies]
        BY <1>2 DEF LoopInv, LoopType
    <2>5. /\ Stored' \subseteq TestIds /\ store' \in [Stored' -> Bodies]
          /\ latest' \in [TestIds -> Verdicts \cup {"none"}]
        BY <1>1, <2>4 DEF LoopInv, LoopType, Stored
    <2> QED
        BY <1>1, <1>2, <2>1, <2>2, <2>3, <2>5, ByCrossing DEF x
<1>3. ASSUME Update(c, [r EXCEPT !.at = "select"]), store' = store
      PROVE  LoopInv'
    <2> DEFINE x == [r EXCEPT !.at = "select"]
    <2>1. /\ x \in CallState /\ x.at = "select" /\ x.req = r.req /\ x.results = r.results
          /\ x.smoking = r.smoking /\ x.interrupted = r.interrupted /\ x.green = r.green
        BY <1>1 DEF CallState, Steps
    <2> HIDE DEF x
    <2>2. Consistent(x) /\ Tallied(x) /\ UpToDate(x)
        BY <1>1, <2>1 DEF Consistent, Tallied, UpToDate, Working, Picks
    <2> QED
        BY <1>1, <1>3, <2>1, <2>2, ByUpdate DEF x
<1> QED
    BY <1>2, <1>3 DEF Generate

\* What select answers covers what was promised.
LEMMA SelectionCovers ==
    ASSUME LoopInv, NEW q \in RequestShape, q.pick = "changed"
    PROVE  /\ Selection = "no_changes" => Promised(q) = {}
           /\ Selection = "changed" => Promised(q) \subseteq Affected /\ Affected # {}
           /\ Promised(q) \subseteq Affected \/ Promised(q) = Runnable
           /\ Selection # "changed" => Promised(q) \subseteq Runnable
<1>1. Promised(q) = IF ~Changed THEN {} ELSE IF Affected # {} THEN Affected ELSE Runnable
    BY DEF Promised
<1>2. Selection = "no_changes" => ~Changed
    <2>1. tree \in Trees
        BY DEF LoopInv, LoopType
    <2>2. Selection = "no_changes" => ChangedUnits(tree) = {} /\ FileLevel(tree) = {}
        BY DEF Selection
    <2> QED
        BY <2>1, <2>2, NoChangeIsNothing
<1>3. /\ Selection = "changed" => Affected # {}
      /\ Selection = "unattributable" => Affected = {}
      /\ Selection \in {"no_changes", "unattributable", "changed"}
    BY DEF Selection
<1> QED
    BY <1>1, <1>2, <1>3

LEMMA SelectKeeps ==
    ASSUME LoopInv, NEW c \in Calls, Select(c)
    PROVE  LoopInv'
<1> PICK r : r = call[c]
    OBVIOUS
<1> DEFINE nothing == Selection = "no_changes" /\ r.generated = {}
           S == IF Selection = "changed" THEN Affected ELSE {}
           says == IF nothing /\ r.req.kind = "loop" THEN {"nothing to verify"} ELSE {}
           next == IF nothing THEN "done" ELSE AfterSelect(r.req)
           all == Selection # "changed"
           x == [r EXCEPT !.selection = Selection, !.ids = S, !.whole = all,
                          !.green = nothing, !.says = says, !.at = next]
<1>1. /\ r \in CallState /\ r.req \in RequestShape /\ Consistent(r) /\ r.at = "select"
      /\ UNCHANGED <<store, approved, latest, tree>> /\ Update(c, x)
    BY CallFacts DEF Select, At
<1>2. /\ S \in SUBSET TestIds /\ Selection \in Selections /\ says \in SUBSET Advice
      /\ next \in {"done", "approve", "acquire"} /\ next \in Steps
      /\ next = "done" <=> nothing
      /\ next = "acquire" => ~r.req.approved
      /\ nothing \in BOOLEAN /\ all \in BOOLEAN
      /\ "failing" \notin says /\ "empty suite" \notin says
    <2>1. S \in SUBSET TestIds
        BY <1>1, NamedIds
    <2>2. Selection \in Selections
        BY DEF Selections, Selection
    <2>3. says \in SUBSET Advice /\ "failing" \notin says /\ "empty suite" \notin says
        BY DEF Advice
    <2>4. /\ next \in {"done", "approve", "acquire"}
          /\ next = "done" <=> nothing
          /\ next = "acquire" => ~r.req.approved
        BY DEF AfterSelect
    <2>5. next \in Steps
        BY <2>4 DEF Steps
    <2> QED
        BY <2>1, <2>2, <2>3, <2>4, <2>5
<1> HIDE DEF nothing, S, says, next, all
<1>3. /\ x.at = next /\ x.req = r.req /\ x.ids = S
      /\ x.whole = all /\ x.green = nothing /\ x.says = says
      /\ x.results = r.results /\ x.smoking = r.smoking /\ x.interrupted = r.interrupted
    BY <1>1 DEF CallState
<1>4. x \in CallState
    BY <1>1, <1>2, ZenonT(60) DEF CallState
<1> HIDE DEF x
<1> USE DEF all
<1>5. /\ r.req.pick = "changed" /\ r.req.kind \in {"run", "loop"} /\ Approvable(r.req)
      /\ r.results = NoResults /\ ~r.smoking /\ ~r.interrupted
    BY <1>1 DEF Consistent, Picks, RequestShape
<1>6. x.whole \/ x.ids # {}
    BY <1>1, <1>3, <1>5, SelectionCovers DEF S
<1>7. Consistent(x) /\ Tallied(x)
    BY <1>1, <1>2, <1>3, <1>5, <1>6 DEF Consistent, Tallied, Working
<1>8. Promised(r.req) \subseteq Target(x)
    BY <1>1, <1>3, <1>5, SelectionCovers DEF Target, Suite, S
<1>9. Red(x) = {}
    BY <1>3, <1>5 DEF Red, NoResults
<1>10. UpToDate(x)
    BY <1>2, <1>3, <1>5, <1>8, <1>9 DEF UpToDate, Working
<1> QED
    BY <1>1, <1>7, <1>10, <1>4, ByUpdate

LEMMA ApproveKeeps ==
    ASSUME LoopInv, NEW c \in Calls, Approve(c)
    PROVE  LoopInv'
<1> PICK r : r = call[c]
    OBVIOUS
<1> DEFINE asked == IF r.whole THEN Stored ELSE r.ids
           next == IF asked \subseteq Stored /\ Unapproved(asked) = {} THEN "acquire" ELSE "error"
           x == [r EXCEPT !.at = next]
<1>1. /\ r \in CallState /\ Consistent(r) /\ Tallied(r) /\ r.at = "approve"
      /\ ~r.crossed => UpToDate(r)
      /\ UNCHANGED <<store, approved, latest, tree>> /\ Update(c, x)
    BY CallFacts DEF Approve, At
<1>2. next \in {"acquire", "error"} /\ next \in Steps /\ (next = "acquire" => Unapproved(asked) = {})
    BY DEF Steps
<1> HIDE DEF next
<1>3. /\ x \in CallState /\ x.at = next /\ x.req = r.req /\ x.ids = r.ids /\ x.whole = r.whole
      /\ x.green = r.green /\ x.smoking = r.smoking /\ x.crossed = r.crossed
    BY <1>1, <1>2 DEF CallState
<1> HIDE DEF x
<1>4. r.req.kind # "flaky"
    BY <1>1 DEF Tallied
<1>5. Consistent(x) /\ Tallied(x)
    BY <1>1, <1>2, <1>3, <1>4 DEF Consistent, Tallied, Working
<1>6. ~x.crossed => UpToDate(x)
    BY <1>1, <1>2, <1>3 DEF UpToDate, Working, Target
<1> QED
    BY <1>1, <1>3, <1>5, <1>6, ByUpdate

LEMMA AcquireKeeps ==
    ASSUME LoopInv, NEW c \in Calls, Acquire(c)
    PROVE  LoopInv'
<1> PICK r : r = call[c]
    OBVIOUS
<1>1. /\ r \in CallState /\ Consistent(r) /\ Tallied(r) /\ r.at = "acquire"
      /\ ~r.crossed => UpToDate(r)
      /\ UNCHANGED <<store, approved, latest, tree>>
    BY CallFacts DEF Acquire, At
<1>2. PICK next \in {"load", "error"} : Update(c, [r EXCEPT !.at = next])
    BY DEF Acquire
<1> DEFINE x == [r EXCEPT !.at = next]
<1>3. /\ x \in CallState /\ x.at = next /\ x.req = r.req /\ x.ids = r.ids /\ x.whole = r.whole
      /\ x.green = r.green /\ x.smoking = r.smoking /\ x.crossed = r.crossed
      /\ x.passed = r.passed /\ x.failed = r.failed /\ x.blocked = r.blocked
      /\ x.replays = r.replays /\ x.interrupted = r.interrupted
    BY <1>1 DEF CallState, Steps
<1>4. Update(c, x)
    BY <1>2
<1> HIDE DEF x
<1>5. Consistent(x)
    BY <1>1, <1>3 DEF Consistent, Working
<1>6. Tallied(x)
    BY <1>1, <1>3 DEF Tallied
<1>7. ~x.crossed => UpToDate(x)
    BY <1>1, <1>3 DEF UpToDate, Working, Target
<1> QED
    BY <1>1, <1>3, <1>4, <1>5, <1>6, <1>7, ByUpdate

LEMMA LoadKeeps ==
    ASSUME LoopInv, NEW c \in Calls, Load(c)
    PROVE  LoopInv'
<1> PICK r : r = call[c]
    OBVIOUS
<1> DEFINE S == IF r.whole THEN Suite(r.req.kind) ELSE r.ids
<1>1. /\ r \in CallState /\ r.req \in RequestShape /\ Consistent(r) /\ Tallied(r) /\ r.at = "load"
      /\ ~r.crossed => UpToDate(r)
      /\ UNCHANGED <<store, approved, latest, tree>>
    BY CallFacts DEF Load, At
<1>2. CASE r.whole \/ r.ids \subseteq Stored
    <2> DEFINE x == [r EXCEPT !.todo = S, !.results = NoResults, !.at = "execute"]
    <2>1. Update(c, x)
        BY <1>2 DEF Load
    <2>2. S \subseteq Stored /\ Stored \subseteq TestIds
        BY <1>1, <1>2, NamedIds DEF Suite
    <2> HIDE DEF S
    <2>3. /\ x \in CallState /\ x.at = "execute" /\ x.todo = S /\ x.results = NoResults
          /\ x.req = r.req /\ x.ids = r.ids /\ x.whole = r.whole
          /\ x.green = r.green /\ x.smoking = r.smoking /\ x.crossed = r.crossed
          /\ x.passed = r.passed /\ x.failed = r.failed /\ x.blocked = r.blocked
          /\ x.replays = r.replays /\ x.interrupted = r.interrupted
        BY <1>1, <2>2 DEF CallState, Steps, NoResults
    <2> HIDE DEF x
    <2>4. Executed(x) = {}
        BY <2>3 DEF Executed, NoResults
    <2>5. Target(x) = S
        BY <2>3 DEF Target, S
    <2>6. Consistent(x)
        BY <1>1, <2>3 DEF Consistent, Working
    <2>7. Tallied(x)
        BY <1>1, <2>3, <2>4 DEF Tallied, S
    <2>8. Target(r) = S
        BY DEF Target, S
    <2>9. ~x.crossed => UpToDate(x)
        BY <1>1, <2>2, <2>3, <2>4, <2>5, <2>8 DEF UpToDate, Working
    <2> QED
        BY <1>1, <2>1, <2>3, <2>6, <2>7, <2>9, ByUpdate
<1>3. CASE ~(r.whole \/ r.ids \subseteq Stored)
    <2> DEFINE x == [r EXCEPT !.at = "error"]
    <2>1. Update(c, x)
        BY <1>3 DEF Load
    <2>2. x \in CallState /\ x.at = "error" /\ x.req = r.req /\ x.green = r.green /\ x.smoking = r.smoking
        BY <1>1 DEF CallState, Steps
    <2> HIDE DEF x
    <2>3. Consistent(x) /\ Tallied(x) /\ UpToDate(x)
        BY <1>1, <2>2 DEF Consistent, Tallied, UpToDate, Working
    <2> QED
        BY <1>1, <2>1, <2>2, <2>3, ByUpdate
<1> QED
    BY <1>2, <1>3

LEMMA FailKeepsCalls ==
    ASSUME LoopInv, NEW c \in Calls, Fail(c)
    PROVE  LoopInv'
<1> PICK r : r = call[c]
    OBVIOUS
<1> DEFINE x == [r EXCEPT !.at = "error"]
<1>1. /\ r \in CallState /\ Consistent(r) /\ r.at # "done"
      /\ UNCHANGED <<store, approved, latest, tree>> /\ Update(c, x)
    BY CallFacts DEF Fail
<1>2. x \in CallState /\ x.at = "error" /\ x.req = r.req /\ x.green = r.green /\ x.smoking = r.smoking
    BY <1>1 DEF CallState, Steps
<1> HIDE DEF x
<1>3. Consistent(x) /\ Tallied(x) /\ UpToDate(x)
    BY <1>1, <1>2 DEF Consistent, Tallied, UpToDate, Working
<1> QED
    BY <1>1, <1>2, <1>3, ByUpdate

\* Whatever is edited from outside, everyone's reading is out of date.
LEMMA OutsideKeeps ==
    ASSUME LoopInv, Outside
    PROVE  LoopInv'
<1>1. /\ Stored' \subseteq TestIds /\ store' \in [Stored' -> Bodies]
      /\ approved' \subseteq Prds /\ tree' \in Trees
      /\ latest' \in [TestIds -> Verdicts \cup {"none"}]
    <2>1. ASSUME NEW t \in TestIds, NEW b \in Bodies,
                 store' = [u \in Stored \cup {t} |-> IF u = t THEN b ELSE store[u]]
          PROVE  Stored' \subseteq TestIds /\ store' \in [Stored' -> Bodies]
        <3>1. DOMAIN store' = Stored \cup {t} /\ store' \in [Stored \cup {t} -> Bodies]
            BY <2>1 DEF LoopInv, LoopType
        <3> QED
            BY <3>1 DEF LoopInv, LoopType, Stored
    <2>2. ASSUME NEW t \in Stored, store' = [u \in Stored \ {t} |-> store[u]]
          PROVE  Stored' \subseteq TestIds /\ store' \in [Stored' -> Bodies]
        <3>1. DOMAIN store' = Stored \ {t} /\ store' \in [Stored \ {t} -> Bodies]
            BY <2>2 DEF LoopInv, LoopType
        <3> QED
            BY <3>1 DEF LoopInv, LoopType, Stored
    <2>3. store' = store => Stored' \subseteq TestIds /\ store' \in [Stored' -> Bodies]
        BY DEF LoopInv, LoopType, Stored
    <2>4. Stored' \subseteq TestIds /\ store' \in [Stored' -> Bodies]
        BY <2>1, <2>2, <2>3 DEF Outside
    <2>5. latest' \in [TestIds -> Verdicts \cup {"none"}]
        BY DEF Outside, LoopInv, LoopType
    <2>6. approved' \subseteq Prds /\ tree' \in Trees
        BY DEF Outside, LoopInv, LoopType
    <2> QED
        BY <2>4, <2>5, <2>6
<1>2. ASSUME NEW d \in Calls
      PROVE  call'[d] \in CallState /\ (Consistent(call[d]) /\ Tallied(call[d]) /\ call[d].crossed)'
    <2>1. call'[d] = [call[d] EXCEPT !.crossed = TRUE] /\ call[d] \in CallState
        BY DEF Outside, LoopInv, LoopType
    <2>2. Consistent(call[d]) /\ Tallied(call[d])
        BY DEF LoopInv
    <2> PICK x : x = call'[d]
        OBVIOUS
    <2>3. x \in CallState /\ Consistent(x) /\ Tallied(x) /\ x.crossed
        BY <2>1, <2>2, CrossedFacts
    <2> QED
        BY <2>3
<1>3. call' \in [Calls -> CallState]
    <2>1. DOMAIN call' = Calls /\ call' = [d \in Calls |-> call'[d]]
        BY DEF Outside
    <2> QED
        BY <1>2, <2>1
<1> QED
    BY <1>1, <1>2, <1>3 DEF LoopInv, LoopType

-----------------------------------------------------------------------------
(* They execute *)

LEMMA ExecuteKeeps ==
    ASSUME LoopInv, NEW c \in Calls, Execute(c)
    PROVE  LoopInv'
<1> PICK r : r = call[c]
    OBVIOUS
<1>1. /\ r \in CallState /\ Consistent(r) /\ Tallied(r) /\ r.at = "execute"
      /\ ~r.crossed => UpToDate(r)
      /\ store' = store /\ approved' = approved /\ tree' = tree
    BY CallFacts DEF Execute, At
<1>2. PICK t \in r.todo, v \in Verdicts :
         /\ latest' = [latest EXCEPT ![t] = v]
         /\ Crossing(c, [r EXCEPT !.todo = @ \ {t}, !.results[t] = v])
    BY DEF Execute
<1> DEFINE x == [r EXCEPT !.todo = @ \ {t}, !.results[t] = v]
<1>3. t \in TestIds /\ v # "none" /\ v \in Verdicts \cup {"none"}
    BY <1>1 DEF CallState, Verdicts
<1>4. /\ x \in CallState /\ x.at = "execute" /\ x.req = r.req
      /\ x.todo = r.todo \ {t} /\ x.results = [r.results EXCEPT ![t] = v]
      /\ x.ids = r.ids /\ x.whole = r.whole
      /\ x.green = r.green /\ x.smoking = r.smoking /\ x.crossed = r.crossed
      /\ x.passed = r.passed /\ x.failed = r.failed /\ x.blocked = r.blocked
      /\ x.replays = r.replays /\ x.interrupted = r.interrupted
    BY <1>1, <1>3 DEF CallState
<1>5. Crossing(c, x)
    BY <1>2
<1> HIDE DEF x
<1>6. Executed(x) = Executed(r) \cup {t}
    BY <1>1, <1>3, <1>4 DEF Executed, CallState
<1>7. x.todo \cup Executed(x) = r.todo \cup Executed(r)
    BY <1>4, <1>6
<1>8. Consistent(x) /\ Tallied(x)
    <2>1. Consistent(x)
        BY <1>1, <1>4 DEF Consistent, Working
    <2>2. Tallied(x)
        BY <1>1, <1>4, <1>7 DEF Tallied
    <2> QED
        BY <2>1, <2>2
<1>9. /\ Stored' = Stored /\ Runnable' = Runnable /\ Changed' = Changed /\ Affected' = Affected
    BY <1>1 DEF Stored, Runnable, Changed, Affected
<1>10. latest' \in [TestIds -> Verdicts \cup {"none"}]
    BY <1>2, <1>3 DEF LoopInv, LoopType
<1>11. Target(x)' = Target(r)
    BY <1>4, <1>9 DEF Target, Suite
<1>12. ASSUME ~x.crossed PROVE UpToDate(x)'
    <2>1. UpToDate(r) /\ t \in Stored /\ t \in Target(r)
        BY <1>1, <1>2, <1>4, <1>12 DEF UpToDate
    <2>2. latest \in [TestIds -> Verdicts \cup {"none"}]
        BY DEF LoopInv, LoopType
    <2>3. ~x.smoking => Promised(x.req)' \subseteq Target(x)'
        <3>1. Promised(x.req)' \subseteq Promised(r.req) \cup {t}
            <4>1. LastFailed' \subseteq LastFailed \cup {t}
                BY <1>2, <1>9, <2>2 DEF LastFailed, LoopInv, LoopType
            <4>2. {u \in Stored : store[u].group = r.req.group}' = {u \in Stored : store[u].group = r.req.group}
                BY <1>1, <1>9
            <4>3. r.req.pick \in {"id", "group", "failed", "changed", "all"}
                BY <1>1 DEF CallState, RequestShape
            <4> QED
                BY <1>1, <1>4, <1>9, <4>1, <4>2, <4>3 DEF Promised
        <3>2. ~r.smoking => Promised(r.req) \subseteq Target(r)
            BY <1>1, <2>1 DEF UpToDate, Working
        <3> QED
            BY <1>4, <1>11, <2>1, <3>1, <3>2
    <2>4. x.todo \subseteq Stored' /\ x.todo \subseteq Target(x)'
        BY <1>1, <1>4, <1>9, <1>11, <2>1 DEF UpToDate
    <2>5. ASSUME NEW u \in Executed(x) PROVE u \in Stored' /\ latest'[u] = x.results[u]
        <3>1. u \in TestIds
            BY DEF Executed
        <3>2. CASE u = t
            BY <1>2, <1>3, <1>4, <1>9, <2>1, <2>2, <3>2, <1>1 DEF CallState
        <3>3. CASE u # t
            <4>1. u \in Stored /\ latest[u] = r.results[u]
                BY <1>1, <1>6, <2>1, <3>3 DEF UpToDate
            <4> QED
                BY <1>1, <1>2, <1>4, <1>9, <2>2, <3>1, <3>3, <4>1 DEF CallState
        <3> QED
            BY <3>2, <3>3
    <2>6. ~x.interrupted => Target(x)' \subseteq x.todo \cup Executed(x)
        BY <1>1, <1>4, <1>7, <1>11, <2>1 DEF UpToDate
    <2> QED
        BY <1>4, <2>3, <2>4, <2>5, <2>6 DEF UpToDate, Executed
<1>13. Stored' \subseteq TestIds /\ store' \in [Stored' -> Bodies]
    BY <1>1, <1>9 DEF LoopInv, LoopType
<1> QED
    BY <1>1, <1>4, <1>5, <1>8, <1>10, <1>12, <1>13, ByCrossing

LEMMA InterruptKeeps ==
    ASSUME LoopInv, NEW c \in Calls, Interrupt(c)
    PROVE  LoopInv'
<1> PICK r : r = call[c]
    OBVIOUS
<1> DEFINE x == [r EXCEPT !.todo = {}, !.interrupted = TRUE]
<1>1. /\ r \in CallState /\ Consistent(r) /\ Tallied(r) /\ r.at = "execute"
      /\ ~r.crossed => UpToDate(r)
      /\ UNCHANGED <<store, approved, latest, tree>> /\ Update(c, x)
    BY CallFacts DEF Interrupt, At
<1>2. /\ x \in CallState /\ x.at = "execute" /\ x.req = r.req
      /\ x.todo = {} /\ x.results = r.results
      /\ x.ids = r.ids /\ x.whole = r.whole
      /\ x.green = r.green /\ x.smoking = r.smoking /\ x.crossed = r.crossed
      /\ x.passed = r.passed /\ x.failed = r.failed /\ x.blocked = r.blocked
      /\ x.replays = r.replays /\ x.interrupted
    BY <1>1 DEF CallState
<1> HIDE DEF x
<1>3. Executed(x) = Executed(r)
    BY <1>2 DEF Executed
<1>4. Consistent(x)
    BY <1>1, <1>2 DEF Consistent, Working
<1>5. Tallied(x)
    <2>1. x.passed + x.failed + x.blocked + x.replays = r.passed + r.failed + r.blocked + r.replays
        BY <1>2
    <2> QED
        BY <1>1, <1>2, <1>3, <2>1 DEF Tallied
<1>6. ~x.crossed => UpToDate(x)
    BY <1>1, <1>2, <1>3 DEF UpToDate, Working, Target
<1> QED
    BY <1>1, <1>2, <1>4, <1>5, <1>6, ByUpdate

-----------------------------------------------------------------------------
(* They answer *)

LEMMA ReturnedFacts ==
    ASSUME LoopInv, NEW c \in Calls, NEW kind, Returned(c, kind),
           NEW r, r = call[c]
    PROVE  /\ r \in CallState /\ r.req \in RequestShape /\ Consistent(r) /\ Tallied(r)
           /\ r.at = "execute" /\ r.todo = {} /\ r.req.kind = kind
           /\ ~r.crossed => UpToDate(r)
           /\ UNCHANGED <<store, approved, latest, tree>>
BY CallFacts DEF Returned, At

\* A command that ends without triage.
LEMMA EndedKeeps ==
    ASSUME LoopInv, NEW c \in Calls, NEW r \in CallState, Consistent(r), r.at = "execute",
           r.req.kind \in {"run", "gate", "rerun"}, ~r.smoking,
           UNCHANGED <<store, approved, latest, tree>>,
           NEW g \in BOOLEAN, NEW x, x = [r EXCEPT !.at = "done", !.green = g], Update(c, x)
    PROVE  LoopInv'
<1>1. x \in CallState /\ x.at = "done" /\ x.req = r.req /\ x.smoking = r.smoking
    BY DEF CallState, Steps
<1>2. Consistent(x) /\ Tallied(x) /\ UpToDate(x)
    BY <1>1 DEF Consistent, Tallied, UpToDate, Working
<1> QED
    BY <1>1, <1>2, ByUpdate

LEMMA EndRunKeeps ==
    ASSUME LoopInv, NEW c \in Calls, EndRun(c) \/ EndRerun(c) \/ EndGate(c)
    PROVE  LoopInv'
<1> PICK r : r = call[c]
    OBVIOUS
<1>1. \E kind \in {"run", "rerun", "gate"} : Returned(c, kind)
    BY DEF EndRun, EndRerun, EndGate
<1>2. /\ r \in CallState /\ Consistent(r) /\ r.at = "execute"
      /\ r.req.kind \in {"run", "gate", "rerun"}
      /\ UNCHANGED <<store, approved, latest, tree>>
    BY <1>1, ReturnedFacts
<1>3. ~r.smoking
    <2>1. CASE EndGate(c)
        BY <2>1 DEF EndGate
    <2>2. CASE EndRun(c) \/ EndRerun(c)
        BY <1>2, <2>2 DEF EndRun, EndRerun, Returned, Consistent
    <2> QED
        BY <2>1, <2>2
<1>4. PICK g \in BOOLEAN : Update(c, [r EXCEPT !.at = "done", !.green = g])
    BY DEF EndRun, EndRerun, EndGate
<1> QED
    BY <1>2, <1>3, <1>4, EndedKeeps

LEMMA EndSmokeKeeps ==
    ASSUME LoopInv, NEW c \in Calls, EndSmoke(c)
    PROVE  LoopInv'
<1> PICK r : r = call[c]
    OBVIOUS
<1> DEFINE next == IF Red(r) = {} THEN "acquire" ELSE "done"
           x == [r EXCEPT !.smoking = FALSE, !.whole = TRUE, !.ids = {}, !.at = next]
<1>1. /\ r \in CallState /\ r.req \in RequestShape /\ Consistent(r)
      /\ r.at = "execute" /\ r.req.kind = "gate"
      /\ UNCHANGED <<store, approved, latest, tree>> /\ Update(c, x)
    BY ReturnedFacts DEF EndSmoke
<1>2. next \in {"acquire", "done"} /\ next \in Steps
    BY DEF Steps
<1> HIDE DEF next
<1>3. /\ x \in CallState /\ x.at = next /\ x.req = r.req /\ x.whole /\ ~x.smoking
      /\ x.green = r.green
    BY <1>1, <1>2 DEF CallState
<1> HIDE DEF x
<1>4. r.req.pick = "all" /\ ~r.req.approved
    BY <1>1 DEF Consistent, Picks, Approvable
<1>5. Consistent(x) /\ Tallied(x)
    BY <1>1, <1>2, <1>3 DEF Consistent, Tallied, Working
<1>6. Promised(x.req) = Runnable /\ Target(x) = Runnable
    BY <1>1, <1>3, <1>4 DEF Promised, Target, Suite
<1>7. UpToDate(x)
    BY <1>1, <1>2, <1>3, <1>4, <1>6 DEF UpToDate, Working
<1> QED
    BY <1>1, <1>3, <1>5, <1>7, ByUpdate

LEMMA EndLoopKeeps ==
    ASSUME LoopInv, NEW c \in Calls, EndLoop(c)
    PROVE  LoopInv'
<1> PICK r : r = call[c]
    OBVIOUS
<1> DEFINE x == [r EXCEPT !.at = "triage"]
<1>1. /\ r \in CallState /\ Consistent(r) /\ r.todo = {}
      /\ r.at = "execute" /\ r.req.kind = "loop" /\ (~r.crossed => UpToDate(r))
      /\ UNCHANGED <<store, approved, latest, tree>> /\ Update(c, x)
    BY ReturnedFacts DEF EndLoop
<1>2. /\ x \in CallState /\ x.at = "triage" /\ x.req = r.req /\ x.whole = r.whole /\ x.ids = r.ids
      /\ x.green = r.green /\ x.smoking = r.smoking /\ x.crossed = r.crossed
      /\ x.results = r.results /\ x.todo = r.todo /\ x.interrupted = r.interrupted
    BY <1>1 DEF CallState, Steps
<1> HIDE DEF x
<1>3. Consistent(x) /\ Tallied(x)
    BY <1>1, <1>2 DEF Consistent, Tallied, Working
<1>4. ~x.crossed => UpToDate(x)
    BY <1>1, <1>2 DEF UpToDate, Working, Target, Executed
<1> QED
    BY <1>1, <1>2, <1>3, <1>4, ByUpdate

\* Triage groups what the loop has seen fail, and the line agrees with both.
LEMMA TriageAgrees ==
    ASSUME LoopInv, NEW r \in CallState, Consistent(r), r.at = "triage", UpToDate(r)
    PROVE  /\ Red(r) \subseteq Clustered
           /\ "failing" \in NextAction(r) => Clustered # {}
           /\ "empty suite" \in NextAction(r) /\ ~r.interrupted => Runnable = {}
<1>1. ASSUME NEW t \in Red(r) PROVE t \in Clustered
    <2>1. t \in Executed(r) /\ r.results[t] \in {"failed", "blocked"}
        BY DEF Red, Executed
    <2>2. t \in Stored /\ latest[t] \in {"failed", "blocked"}
        BY <2>1 DEF UpToDate
    <2>3. t \in DOMAIN LatestResults /\ LatestResults[t] = FALSE
        BY <2>2 DEF LatestResults
    <2> QED
        BY <2>3 DEF Clustered
<1>2. "failing" \in NextAction(r) => Red(r) # {}
    BY DEF NextAction, Red
<1>3. ASSUME "empty suite" \in NextAction(r), ~r.interrupted PROVE Runnable = {}
    <2>1. Executed(r) = {}
        BY <1>3 DEF NextAction
    <2>2. Target(r) = {}
        BY <1>3, <2>1 DEF UpToDate, Consistent
    <2> QED
        BY <2>2 DEF Target, Suite, Consistent, Working
<1> QED
    BY <1>1, <1>2, <1>3

LEMMA TriageKeeps ==
    ASSUME LoopInv, NEW c \in Calls, Triage(c)
    PROVE  LoopInv'
<1> PICK r : r = call[c]
    OBVIOUS
<1> DEFINE C == Clustered
           g == Red(r) = {}
           s == NextAction(r)
           x == [r EXCEPT !.clusters = C, !.green = g, !.says = s, !.at = "done"]
<1>1. /\ r \in CallState /\ Consistent(r) /\ r.at = "triage"
      /\ ~r.crossed => UpToDate(r)
      /\ UNCHANGED <<store, approved, latest, tree>> /\ Update(c, x)
    BY CallFacts DEF Triage, At
<1>2. C \in SUBSET TestIds /\ g \in BOOLEAN /\ s \in SUBSET Advice
    <2>1. C \subseteq Stored
        BY DEF Clustered, LatestResults
    <2>2. s \in SUBSET Advice
        BY DEF NextAction, Advice
    <2> QED
        BY <2>1, <2>2, NamedIds, <1>1 DEF LoopInv, LoopType
<1>3. ~r.crossed => /\ Red(r) \subseteq C
                    /\ "failing" \in s => C # {}
                    /\ "empty suite" \in s /\ ~r.interrupted => Runnable = {}
    BY <1>1, TriageAgrees
<1> HIDE DEF C, g, s
<1>4. /\ x \in CallState /\ x.at = "done" /\ x.req = r.req /\ x.clusters = C /\ x.says = s
      /\ x.smoking = r.smoking /\ x.crossed = r.crossed
      /\ x.results = r.results /\ x.interrupted = r.interrupted
    BY <1>1, <1>2 DEF CallState, Steps
<1> HIDE DEF x
<1>5. Consistent(x) /\ Tallied(x)
    BY <1>1, <1>4 DEF Consistent, Tallied, Working
<1>6. Red(x) = Red(r)
    BY <1>4 DEF Red
<1>7. ~x.crossed => UpToDate(x)
    BY <1>3, <1>4, <1>6 DEF UpToDate, Working
<1> QED
    BY <1>1, <1>4, <1>5, <1>7, ByUpdate

LEMMA EndReplayKeeps ==
    ASSUME LoopInv, NEW c \in Calls, EndReplay(c)
    PROVE  LoopInv'
<1> PICK r : r = call[c]
    OBVIOUS
<1> DEFINE tally(v) == IF \E t \in TestIds : r.results[t] = v THEN 1 ELSE 0
           p == tally("passed")
           f == tally("failed")
           b == tally("blocked")
           next == IF r.replays = 1 THEN "done" ELSE "acquire"
           x == [r EXCEPT !.passed = @ + p, !.failed = @ + f, !.blocked = @ + b,
                          !.replays = @ - 1, !.at = next]
<1>1. /\ r \in CallState /\ r.req \in RequestShape /\ Consistent(r) /\ Tallied(r)
      /\ r.at = "execute" /\ r.todo = {} /\ r.req.kind = "flaky"
      /\ ~r.crossed => UpToDate(r)
      /\ UNCHANGED <<store, approved, latest, tree>> /\ Update(c, x)
    BY ReturnedFacts DEF EndReplay
<1>2. /\ ~r.whole /\ r.ids = {r.req.id} /\ r.replays # 0
      /\ r.passed + r.failed + r.blocked + r.replays <= Replays
      /\ ~r.interrupted => r.passed + r.failed + r.blocked + r.replays = Replays
      /\ Executed(r) \subseteq {r.req.id}
      /\ ~r.interrupted => r.req.id \in Executed(r)
    BY <1>1 DEF Tallied
<1>3. r.results \in [TestIds -> Verdicts \cup {"none"}] /\ r.req.id \in TestIds
    BY <1>1 DEF CallState, RequestShape
<1>4. \A t \in TestIds : r.results[t] # "none" => t = r.req.id
    BY <1>2 DEF Executed
<1>5. /\ p \in {0, 1} /\ f \in {0, 1} /\ b \in {0, 1}
      /\ p + f + b <= 1
      /\ ~r.interrupted => p + f + b = 1
    <2>1. r.results[r.req.id] \in {"passed", "failed", "blocked", "none"}
        BY <1>3 DEF Verdicts
    <2>2. /\ p = 1 <=> r.results[r.req.id] = "passed"
          /\ f = 1 <=> r.results[r.req.id] = "failed"
          /\ b = 1 <=> r.results[r.req.id] = "blocked"
        BY <1>3, <1>4
    <2>3. ~r.interrupted => r.results[r.req.id] # "none"
        BY <1>2 DEF Executed
    <2>4. p \in {0, 1} /\ f \in {0, 1} /\ b \in {0, 1}
        OBVIOUS
    <2> HIDE DEF p, f, b
    <2> QED
        BY <2>1, <2>2, <2>3, <2>4
<1>6. next \in Steps /\ next \in {"acquire", "done"} /\ (next = "done" <=> r.replays = 1)
    BY DEF Steps
<1>7. /\ r.passed \in Nat /\ r.failed \in Nat /\ r.blocked \in Nat /\ r.replays \in Nat
    BY <1>1, LoopAssumption DEF CallState
<1> HIDE DEF p, f, b, next
<1>8. /\ r.passed + p \in 0 .. Replays /\ r.failed + f \in 0 .. Replays
      /\ r.blocked + b \in 0 .. Replays /\ r.replays - 1 \in 0 .. Replays
    BY <1>2, <1>5, <1>7, LoopAssumption
<1>9. /\ x \in CallState /\ x.at = next /\ x.req = r.req /\ x.whole = r.whole /\ x.ids = r.ids
      /\ x.green = r.green /\ x.smoking = r.smoking /\ x.crossed = r.crossed
      /\ x.interrupted = r.interrupted
      /\ x.passed = r.passed + p /\ x.failed = r.failed + f /\ x.blocked = r.blocked + b
      /\ x.replays = r.replays - 1
    BY <1>1, <1>6, <1>8 DEF CallState
<1> HIDE DEF x
<1>10. Consistent(x)
    BY <1>1, <1>6, <1>9 DEF Consistent, Working
<1>11. Tallied(x)
    <2>1. x.passed + x.failed + x.blocked + x.replays
            = r.passed + r.failed + r.blocked + r.replays + (p + f + b) - 1
        BY <1>5, <1>7, <1>9
    <2>2. /\ x.passed + x.failed + x.blocked + x.replays <= Replays
          /\ ~r.interrupted => x.passed + x.failed + x.blocked + x.replays = Replays
        BY <1>2, <1>5, <1>7, <2>1, LoopAssumption
    <2>3. x.replays = 0 <=> next = "done"
        BY <1>6, <1>7, <1>9
    <2> QED
        BY <1>1, <1>2, <1>6, <1>9, <2>2, <2>3 DEF Tallied
<1>12. ~x.crossed => UpToDate(x)
    <2>1. ~x.req.approved
        BY <1>1, <1>9 DEF Consistent, Approvable
    <2> QED
        BY <1>1, <1>6, <1>9, <2>1 DEF UpToDate, Working, Target
<1> QED
    BY <1>1, <1>9, <1>10, <1>11, <1>12, ByUpdate

-----------------------------------------------------------------------------
(* The theorems *)

LEMMA LoopStep == LoopInv /\ [LoopNext]_loopVars => LoopInv'
<1> SUFFICES ASSUME LoopInv, [LoopNext]_loopVars PROVE LoopInv'
    OBVIOUS
<1>1. CASE Outside
    BY <1>1, OutsideKeeps
<1>2. ASSUME NEW c \in Calls, Step(c) PROVE LoopInv'
    <2>1. CASE Begin(c)
        BY <2>1, BeginRunKeeps, BeginGateKeeps, BeginLoopKeeps, BeginFlakyKeeps, BeginRerunKeeps
           DEF Begin
    <2>2. CASE Generate(c) \/ Select(c) \/ Approve(c)
        BY <2>2, GenerateKeeps, SelectKeeps, ApproveKeeps
    <2>3. CASE Acquire(c) \/ Load(c) \/ Execute(c)
        BY <2>3, AcquireKeeps, LoadKeeps, ExecuteKeeps
    <2>4. CASE EndRun(c) \/ EndSmoke(c) \/ EndGate(c) \/ EndRerun(c)
        BY <2>4, EndRunKeeps, EndSmokeKeeps
    <2>5. CASE EndLoop(c) \/ Triage(c) \/ EndReplay(c)
        BY <2>5, EndLoopKeeps, TriageKeeps, EndReplayKeeps
    <2> QED
        BY <1>2, <2>1, <2>2, <2>3, <2>4, <2>5 DEF Step
<1>3. ASSUME NEW c \in Calls, Interrupt(c) \/ Fail(c) PROVE LoopInv'
    BY <1>3, InterruptKeeps, FailKeepsCalls
<1>4. CASE UNCHANGED loopVars
    <2>1. UNCHANGED <<store, approved, latest, tree, call>>
        BY <1>4 DEF loopVars
    <2>2. LoopType'
        BY <2>1 DEF LoopInv, LoopType, Stored
    <2>3. ASSUME NEW c \in Calls
          PROVE  (/\ Consistent(call[c]) /\ Tallied(call[c])
                  /\ ~call[c].crossed => UpToDate(call[c]))'
        <3> PICK r : r = call'[c]
            OBVIOUS
        <3>1. Consistent(r) /\ Tallied(r) /\ (~r.crossed => UpToDate(r))
            BY <2>1 DEF LoopInv
        <3>2. ~r.crossed => UpToDate(r)'
            BY <2>1, <3>1, KnowledgeKept
        <3> QED
            BY <3>1, <3>2
    <2> QED
        BY <2>2, <2>3 DEF LoopInv
<1> QED
    BY <1>1, <1>2, <1>3, <1>4 DEF LoopNext

\* What a command knows of itself and, unless it has been crossed, of the store
\* and the tree, for any commands, tests and changes.
THEOREM LoopInvariance == LoopSpec => []LoopInv
BY LoopInitInv, LoopStep, PTL DEF LoopSpec

\* Every failure the loop reports is in a cluster, and its line agrees with
\* both (cycle.rs, triage.rs).
THEOREM FailuresAlwaysTriaged == LoopSpec => []FailuresAreTriaged
<1>1. LoopInv => FailuresAreTriaged
    BY DEF LoopInv, FailuresAreTriaged, UpToDate, At
<1> QED
    BY <1>1, LoopInvariance, PTL

\* A test is called stable only when every replay passed or was blocked and one
\* at least passed (flaky.rs).
THEOREM StableAlwaysEarned == LoopSpec => []StableIsEarned
<1>1. LoopInv => StableIsEarned
    <2> SUFFICES ASSUME LoopInv, NEW c \in Calls, At(c, "done"), call[c].req.kind = "flaky",
                        Stability(call[c]) = "stable", ~call[c].interrupted
                 PROVE  call[c].passed + call[c].blocked = Replays /\ call[c].passed > 0
        BY DEF StableIsEarned
    <2> PICK r : r = call[c]
        OBVIOUS
    <2>1. r \in CallState /\ Tallied(r) /\ r.at = "done"
        BY CallFacts DEF At
    <2>2. r.passed \in Nat /\ r.failed \in Nat /\ r.blocked \in Nat /\ r.replays = 0
        BY <2>1, LoopAssumption DEF CallState, Tallied
    <2>3. r.passed + r.failed + r.blocked + r.replays = Replays
        BY <2>1 DEF Tallied
    <2>4. r.passed + r.failed # 0 /\ r.failed = 0
        BY DEF Stability
    <2> QED
        BY <2>2, <2>3, <2>4
<1> QED
    BY <1>1, LoopInvariance, PTL

\* Where one call goes, another stays.
LEMMA OthersStay ==
    ASSUME LoopInv, NEW c \in Calls, NEW d \in Calls, d # c, Step(d) \/ Interrupt(d) \/ Fail(d)
    PROVE  call'[c].at = call[c].at
<1>1. call \in [Calls -> CallState]
    BY DEF LoopInv, LoopType
<1>2. ASSUME NEW r, Update(d, r) PROVE call'[c].at = call[c].at
    BY <1>1, <1>2 DEF Update
<1>3. ASSUME NEW r, Crossing(d, r) PROVE call'[c].at = call[c].at
    BY <1>1, <1>3 DEF Crossing, CallState
<1>4. ASSUME Step(d) PROVE \E r : Update(d, r) \/ Crossing(d, r)
    <2>1. CASE Begin(d)
        BY <2>1 DEF Begin, BeginRun, BeginGate, BeginLoop, BeginFlaky, BeginRerun, Begins
    <2>2. CASE Generate(d) \/ Select(d) \/ Approve(d)
        BY <2>2 DEF Generate, Select, Approve
    <2>3. CASE Acquire(d) \/ Load(d) \/ Execute(d)
        BY <2>3 DEF Acquire, Load, Execute
    <2>4. CASE EndRun(d) \/ EndSmoke(d) \/ EndGate(d) \/ EndRerun(d)
        BY <2>4 DEF EndRun, EndSmoke, EndGate, EndRerun
    <2>5. CASE EndLoop(d) \/ Triage(d) \/ EndReplay(d)
        BY <2>5 DEF EndLoop, Triage, EndReplay
    <2> QED
        BY <1>4, <2>1, <2>2, <2>3, <2>4, <2>5 DEF Step
<1>5. ASSUME Interrupt(d) \/ Fail(d) PROVE \E r : Update(d, r)
    BY <1>5 DEF Interrupt, Fail
<1> QED
    BY <1>2, <1>3, <1>4, <1>5

\* Where a step takes the command that makes it.
LEMMA WhereItGoes ==
    ASSUME LoopInv, NEW c \in Calls, NEW r, Update(c, r)
    PROVE  call'[c] = r
BY DEF LoopInv, LoopType, Update

\* It is its own step that takes a command elsewhere.
LEMMA ItMoves ==
    ASSUME LoopInv, [LoopNext]_loopVars, NEW c \in Calls, call'[c].at # call[c].at
    PROVE  Step(c) \/ Interrupt(c) \/ Fail(c)
<1>1. ~UNCHANGED loopVars
    BY DEF loopVars
<1>2. ~Outside
    <2>1. ASSUME Outside PROVE call'[c].at = call[c].at
        BY <2>1 DEF Outside, LoopInv, LoopType, CallState
    <2> QED
        BY <2>1
<1>3. \A d \in Calls \ {c} : ~(Step(d) \/ Interrupt(d) \/ Fail(d))
    BY OthersStay
<1> QED
    BY <1>1, <1>2, <1>3 DEF LoopNext

LEMMA FailsToError ==
    ASSUME LoopInv, NEW c \in Calls, Fail(c)
    PROVE  call'[c].at = "error"
BY WhereItGoes, CallFacts DEF Fail, CallState

\* Under require_approved_prd nothing of an unapproved PRD is loaded, however
\* the tests were picked (store.rs, assert_prds_approved).
THEOREM OnlyApprovedLoads == LoopSpec => OnlyApprovedRuns
<1>1. ASSUME LoopInv, [LoopNext]_loopVars, NEW c \in Calls,
             At(c, "load"), At(c, "execute")', call[c].req.approved, ~call[c].crossed
      PROVE  Unapproved(call'[c].todo) = {}
    <2>1. call[c].at = "load" /\ call'[c].at = "execute"
        BY <1>1 DEF At
    <2>2. Step(c) \/ Interrupt(c) \/ Fail(c)
        BY <1>1, <2>1, ItMoves
    <2>3. Load(c)
        BY <1>1, <2>1, <2>2, FailsToError
           DEF Step, Begin, BeginRun, BeginGate, BeginLoop, BeginFlaky, BeginRerun, Begins,
               Generate, Select, Approve, Acquire, Execute, EndRun, EndSmoke, EndGate, EndLoop,
               EndReplay, EndRerun, Returned, Triage, Interrupt, At
    <2> PICK r : r = call[c]
        OBVIOUS
    <2>4. r \in CallState /\ UpToDate(r) /\ r.at = "load" /\ r.req.approved
        BY <1>1, <2>1, CallFacts
    <2>5. r.whole \/ r.ids \subseteq Stored
        <3>1. ASSUME ~(r.whole \/ r.ids \subseteq Stored) PROVE call'[c].at = "error"
            BY <1>1, <2>3, <2>4, <3>1, WhereItGoes DEF Load, CallState
        <3> QED
            BY <2>1, <3>1
    <2>6. call'[c].todo = IF r.whole THEN Suite(r.req.kind) ELSE r.ids
        <3> DEFINE S == IF r.whole THEN Suite(r.req.kind) ELSE r.ids
        <3>1. call'[c] = [r EXCEPT !.todo = S, !.results = NoResults, !.at = "execute"]
            BY <1>1, <2>3, <2>5, WhereItGoes DEF Load
        <3> HIDE DEF S
        <3>2. call'[c].todo = S
            BY <2>4, <3>1 DEF CallState
        <3> QED
            BY <3>2 DEF S
    <2>7. Unapproved(IF r.whole THEN Stored ELSE r.ids) = {}
        BY <2>4 DEF UpToDate
    <2>8. Suite(r.req.kind) \subseteq Stored
        BY DEF Suite, Runnable
    <2> QED
        BY <2>6, <2>7, <2>8 DEF Unapproved
<1>2. LoopInv /\ [LoopNext]_loopVars =>
        [\A c \in Calls :
            At(c, "load") /\ At(c, "execute")' /\ call[c].req.approved /\ ~call[c].crossed
            => Unapproved(call'[c].todo) = {}]_loopVars
    BY <1>1
<1> QED
    BY <1>2, LoopInvariance, PTL DEF LoopSpec, OnlyApprovedRuns

\* When the tests a command was to run have run and none of them is red, what it
\* was asked for has passed.
LEMMA CoveredAndGreen ==
    ASSUME LoopInv, NEW r \in CallState, UpToDate(r), r.at \in {"execute", "triage"},
           r.todo = {}, ~r.smoking, ~r.interrupted, Red(r) = {}
    PROVE  \A t \in Promised(r.req) : latest[t] = "passed"
<1> SUFFICES ASSUME NEW t \in Promised(r.req) PROVE latest[t] = "passed"
    OBVIOUS
<1>1. t \in Executed(r)
    BY DEF UpToDate, Working
<1>2. latest[t] = r.results[t]
    BY <1>1 DEF UpToDate
<1>3. r.results[t] \in Verdicts /\ r.results[t] \notin {"failed", "blocked"}
    BY <1>1 DEF Executed, Red, CallState, Verdicts
<1> QED
    BY <1>2, <1>3 DEF Verdicts

\* A command that ends green has seen all it was asked for pass (gate.rs,
\* cycle.rs, changed.rs).
THEOREM GreenAlwaysVerified == LoopSpec => GreenMeansVerified
<1>1. ASSUME LoopInv, [LoopNext]_loopVars, NEW c \in Calls,
             ~At(c, "done"), At(c, "done")', call'[c].green,
             ~call'[c].interrupted, ~call'[c].crossed
      PROVE  \A t \in Promised(call[c].req) : latest'[t] = "passed"
    <2> PICK r : r = call[c]
        OBVIOUS
    <2> PICK x : x = call'[c]
        OBVIOUS
    <2>1. /\ r \in CallState /\ r.req \in RequestShape /\ Consistent(r)
          /\ ~r.crossed => UpToDate(r)
          /\ r.at # "done" /\ x.at = "done" /\ x.green /\ ~x.interrupted /\ ~x.crossed
          /\ ~r.green
        BY <1>1, CallFacts DEF At, Consistent
    <2>2. Step(c)
        <3>1. ~Fail(c)
            BY <1>1, <2>1, FailsToError
        <3>2. ASSUME Interrupt(c) PROVE x.at = "execute"
            <4>1. x = [r EXCEPT !.todo = {}, !.interrupted = TRUE] /\ r.at = "execute"
                BY <1>1, <3>2, WhereItGoes DEF Interrupt, At
            <4> QED
                BY <2>1, <4>1 DEF CallState
        <3> QED
            BY <1>1, <2>1, <3>1, <3>2, ItMoves
    <2>3. CASE BeginRun(c)
        <3>1. r.at = "idle" /\ r.req.kind = "run"
            BY <2>3 DEF BeginRun, Begins, At
        <3>2. ASSUME NEW S \in SUBSET TestIds, NEW next \in Steps, x = Started(r, S, next)
              PROVE  FALSE
            BY <2>1, <3>1, <3>2, StartedFacts
        <3>3. AfterSelect(r.req) \in Steps /\ "select" \in Steps
            BY DEF AfterSelect, Steps
        <3>4. r.req.pick = "group" /\ Named(r.req) = {}
            BY <1>1, <2>1, <2>3, <3>2, <3>3, WhereItGoes, NamedIds DEF BeginRun, Begins
        <3> QED
            BY <3>4 DEF Named, Promised
    <2>4. CASE BeginRerun(c)
        <3>1. r.at = "idle" /\ r.req.kind = "rerun"
            BY <2>4 DEF BeginRerun, Begins, At
        <3>2. ASSUME NEW S \in SUBSET TestIds, NEW next \in Steps, x = Started(r, S, next)
              PROVE  FALSE
            BY <2>1, <3>1, <3>2, StartedFacts
        <3>3. "load" \in Steps
            BY DEF Steps
        <3>4. r.req.pick = "failed" /\ LastFailed = {}
            BY <1>1, <2>1, <2>4, <3>2, <3>3, WhereItGoes, NamedIds DEF BeginRerun, Begins
        <3> QED
            BY <3>4 DEF Promised
    <2>5. CASE Select(c)
        <3>1. Selection = "no_changes"
            <4> DEFINE nothing == Selection = "no_changes" /\ r.generated = {}
                       S == IF Selection = "changed" THEN Affected ELSE {}
                       says == IF nothing /\ r.req.kind = "loop" THEN {"nothing to verify"} ELSE {}
                       next == IF nothing THEN "done" ELSE AfterSelect(r.req)
            <4>1. x = [r EXCEPT !.selection = Selection, !.ids = S,
                                !.whole = Selection # "changed", !.green = nothing,
                                !.says = says, !.at = next]
                BY <1>1, <2>5, WhereItGoes DEF Select
            <4> HIDE DEF nothing, S, says, next
            <4>2. x.green = nothing
                BY <2>1, <4>1 DEF CallState
            <4> QED
                BY <2>1, <4>2 DEF nothing
        <3>2. r.req.pick = "changed"
            BY <2>1, <2>5 DEF Select, At, Consistent
        <3> QED
            BY <1>1, <2>1, <3>1, <3>2, SelectionCovers
    <2>6. CASE EndRun(c) \/ EndRerun(c) \/ EndGate(c)
        <3>1. \E kind \in {"run", "rerun", "gate"} : Returned(c, kind)
            BY <2>6 DEF EndRun, EndRerun, EndGate
        <3>2. /\ r.at = "execute" /\ r.todo = {} /\ r.req.kind \in {"run", "rerun", "gate"}
              /\ latest' = latest
            BY <1>1, <3>1, ReturnedFacts
        <3>3. ~r.smoking
            <4>1. CASE EndGate(c)
                BY <4>1 DEF EndGate
            <4>2. CASE EndRun(c) \/ EndRerun(c)
                BY <2>1, <4>2 DEF EndRun, EndRerun, Returned, Consistent
            <4> QED
                BY <2>6, <4>1, <4>2
        <3>4. \E g \in BOOLEAN : /\ Update(c, [r EXCEPT !.at = "done", !.green = g])
                                 /\ g => Red(r) = {}
            BY <2>6 DEF EndRun, EndRerun, EndGate
        <3>5. Red(r) = {} /\ r.interrupted = x.interrupted /\ r.crossed = x.crossed
            <4>1. PICK g \in BOOLEAN : x = [r EXCEPT !.at = "done", !.green = g] /\ (g => Red(r) = {})
                BY <1>1, <3>4, WhereItGoes
            <4>2. x.green = g /\ r.interrupted = x.interrupted /\ r.crossed = x.crossed
                BY <2>1, <4>1 DEF CallState
            <4> QED
                BY <2>1, <4>1, <4>2
        <3> QED
            BY <1>1, <2>1, <3>2, <3>3, <3>5, CoveredAndGreen
    <2>7. CASE Triage(c)
        <3>1. r.at = "triage" /\ latest' = latest
            BY <2>7 DEF Triage, At
        <3>2. r.todo = {} /\ ~r.smoking
            BY <2>1, <3>1 DEF Consistent
        <3>3. x = [r EXCEPT !.clusters = Clustered, !.green = (Red(r) = {}),
                            !.says = NextAction(r), !.at = "done"]
            BY <1>1, <2>7, WhereItGoes DEF Triage
        <3>4. x.green = (Red(r) = {}) /\ r.interrupted = x.interrupted /\ r.crossed = x.crossed
            BY <2>1, <3>3 DEF CallState
        <3> QED
            BY <1>1, <2>1, <3>1, <3>2, <3>4, CoveredAndGreen
    <2>8. CASE BeginGate(c) \/ BeginLoop(c) \/ BeginFlaky(c)
        <3>1. r.at = "idle"
            BY <2>8 DEF BeginGate, BeginLoop, BeginFlaky, Begins, At
        <3>2. \E S \in SUBSET TestIds, next \in Steps :
                 \/ x = Started(r, S, next)
                 \/ \E b \in BOOLEAN : x = [Started(r, S, next) EXCEPT !.smoking = b]
                 \/ x = [Started(r, S, next) EXCEPT !.replays = Replays]
            <4>1. SmokeSubset \subseteq TestIds /\ Named(r.req) \subseteq TestIds
                BY <1>1, <2>1, NamedIds DEF SmokeSubset
            <4>2. AfterSelect(r.req) \in Steps /\ {"generate", "select", "acquire", "done"} \subseteq Steps
                BY DEF AfterSelect, Steps
            <4>3. CASE BeginGate(c)
                <5> DEFINE S == IF r.req.smoke THEN SmokeSubset ELSE {}
                           b == S # {}
                <5>1. x = [Started(r, S, "acquire") EXCEPT !.smoking = b]
                    BY <1>1, <4>3, WhereItGoes DEF BeginGate, Begins
                <5>2. S \in SUBSET TestIds /\ b \in BOOLEAN
                    BY <4>1
                <5> HIDE DEF S, b
                <5> QED
                    BY <4>2, <5>1, <5>2
            <4>4. CASE BeginLoop(c)
                BY <1>1, <4>1, <4>2, <4>4, WhereItGoes DEF BeginLoop, Begins
            <4>5. CASE BeginFlaky(c)
                BY <1>1, <4>1, <4>2, <4>5, WhereItGoes DEF BeginFlaky, Begins
            <4> QED
                BY <2>8, <4>3, <4>4, <4>5
        <3>3. ~x.green
            BY <2>1, <3>2 DEF Started, CallState
        <3> QED
            BY <2>1, <3>3
    <2>9. CASE EndReplay(c)
        <3> DEFINE tally(v) == IF \E t \in TestIds : r.results[t] = v THEN 1 ELSE 0
                   p == tally("passed")
                   f == tally("failed")
                   b == tally("blocked")
                   next == IF r.replays = 1 THEN "done" ELSE "acquire"
        <3>1. x = [r EXCEPT !.passed = @ + p, !.failed = @ + f, !.blocked = @ + b,
                            !.replays = @ - 1, !.at = next]
            BY <1>1, <2>9, WhereItGoes DEF EndReplay
        <3> HIDE DEF p, f, b, next
        <3>2. x.green = r.green
            BY <2>1, <3>1 DEF CallState
        <3> QED
            BY <2>1, <3>2
    <2>10. CASE EndSmoke(c)
        <3>1. \E a : x = [r EXCEPT !.smoking = FALSE, !.whole = TRUE, !.ids = {}, !.at = a]
            BY <1>1, <2>10, WhereItGoes DEF EndSmoke
        <3>2. x.green = r.green
            BY <2>1, <3>1 DEF CallState
        <3> QED
            BY <2>1, <3>2
    <2>11. ASSUME Generate(c) \/ Approve(c) \/ Acquire(c) \/ Load(c) \/ Execute(c) \/ EndLoop(c)
           PROVE  FALSE
        <3>1. CASE Generate(c)
            <4>1. \A y : Crossing(c, y) => x = y
                BY DEF Crossing
            <4>2. x.at = "select"
                <5>1. \/ \E t : x = [r EXCEPT !.at = "select", !.generated = {t}]
                      \/ x = [r EXCEPT !.at = "select"]
                    BY <1>1, <3>1, <4>1, WhereItGoes DEF Generate
                <5> QED
                    BY <2>1, <5>1 DEF CallState
            <4> QED
                BY <2>1, <4>2
        <3>2. CASE Approve(c) \/ Acquire(c) \/ Load(c) \/ EndLoop(c)
            <4>1. CASE Approve(c) \/ Acquire(c) \/ EndLoop(c)
                <5>1. \E a \in {"acquire", "error", "load", "triage"} : x = [r EXCEPT !.at = a]
                    BY <1>1, <4>1, WhereItGoes DEF Approve, Acquire, EndLoop
                <5> QED
                    BY <2>1, <5>1 DEF CallState
            <4>2. CASE Load(c)
                <5>1. \/ \E S : x = [r EXCEPT !.todo = S, !.results = NoResults, !.at = "execute"]
                      \/ x = [r EXCEPT !.at = "error"]
                    BY <1>1, <4>2, WhereItGoes DEF Load
                <5> QED
                    BY <2>1, <5>1 DEF CallState
            <4> QED
                BY <3>2, <4>1, <4>2
        <3>3. CASE Execute(c)
            <4>1. \A y : Crossing(c, y) => x = y
                BY DEF Crossing
            <4>2. x.at = "execute"
                BY <1>1, <2>1, <3>3, <4>1 DEF Execute, At, CallState
            <4> QED
                BY <2>1, <4>2
        <3> QED
            BY <2>11, <3>1, <3>2, <3>3
    <2> QED
        BY <2>2, <2>3, <2>4, <2>5, <2>6, <2>7, <2>8, <2>9, <2>10, <2>11 DEF Step, Begin
<1>2. LoopInv /\ [LoopNext]_loopVars =>
        [\A c \in Calls :
            ~At(c, "done") /\ At(c, "done")' /\ call'[c].green
            /\ ~call'[c].interrupted /\ ~call'[c].crossed
            => \A t \in Promised(call[c].req) : latest'[t] = "passed"]_loopVars
    BY <1>1
<1> QED
    BY <1>2, LoopInvariance, PTL DEF LoopSpec, GreenMeansVerified

-----------------------------------------------------------------------------
(* The levels of a suite (Waves) *)

InLevels(i) == \E k \in DOMAIN levels : i \in levels[k]

IInv ==
    /\ levels \in Seq(SUBSET Main)
    /\ done \subseteq Main
    /\ phase \in {"loop", "returned"}
    /\ \A i \in done : InLevels(i)
    /\ phase = "loop" => \A i \in Main : InLevels(i) => i \in done
    /\ phase = "returned" => \A i \in Main : InLevels(i)
    /\ \A j, k \in DOMAIN levels : j # k => levels[j] \cap levels[k] = {}

\* A level of tests that have not been emitted is appended.
LEMMA AppendedLevel ==
    ASSUME NEW M, NEW l \in Seq(SUBSET M), NEW S \in SUBSET M,
           \A j, k \in DOMAIN l : j # k => l[j] \cap l[k] = {},
           \A k \in DOMAIN l : l[k] \cap S = {}
    PROVE  /\ Append(l, S) \in Seq(SUBSET M)
           /\ \A i : (\E k \in DOMAIN Append(l, S) : i \in Append(l, S)[k])
                       <=> i \in S \/ \E k \in DOMAIN l : i \in l[k]
           /\ \A j, k \in DOMAIN Append(l, S) :
                j # k => Append(l, S)[j] \cap Append(l, S)[k] = {}
<1> DEFINE a == Append(l, S)
<1>1. /\ a \in Seq(SUBSET M) /\ DOMAIN l = 1 .. Len(l) /\ DOMAIN a = 1 .. Len(l) + 1
      /\ a[Len(l) + 1] = S /\ \A k \in DOMAIN l : a[k] = l[k]
    OBVIOUS
<1>2. Len(l) \in Nat
    OBVIOUS
<1> HIDE DEF a
<1>3. \A k \in DOMAIN a : k \in DOMAIN l \/ k = Len(l) + 1
    BY <1>1, <1>2
<1>4. \A i : (\E k \in DOMAIN a : i \in a[k]) <=> i \in S \/ \E k \in DOMAIN l : i \in l[k]
    BY <1>1, <1>2, <1>3
<1>5. \A j, k \in DOMAIN a : j # k => a[j] \cap a[k] = {}
    BY <1>1, <1>3
<1> QED
    BY <1>1, <1>4, <1>5 DEF a

LEMMA AddedLevel ==
    ASSUME IInv, NEW S \in SUBSET Main, levels' = Append(levels, S),
           \A k \in DOMAIN levels : levels[k] \cap S = {}
    PROVE  /\ levels' \in Seq(SUBSET Main)
           /\ \A i : InLevels(i)' <=> i \in S \/ InLevels(i)
           /\ \A j, k \in DOMAIN levels' : j # k => levels'[j] \cap levels'[k] = {}
<1>1. PICK M : M = Main
    OBVIOUS
<1>2. levels \in Seq(SUBSET M) /\ \A j, k \in DOMAIN levels : j # k => levels[j] \cap levels[k] = {}
    BY <1>1 DEF IInv
<1>3. /\ Append(levels, S) \in Seq(SUBSET M)
      /\ \A i : (\E k \in DOMAIN Append(levels, S) : i \in Append(levels, S)[k])
                  <=> i \in S \/ \E k \in DOMAIN levels : i \in levels[k]
      /\ \A j, k \in DOMAIN Append(levels, S) :
           j # k => Append(levels, S)[j] \cap Append(levels, S)[k] = {}
    BY <1>1, <1>2, AppendedLevel
<1>4. /\ levels' \in Seq(SUBSET M)
      /\ \A i : (\E k \in DOMAIN levels' : i \in levels'[k])
                  <=> i \in S \/ \E k \in DOMAIN levels : i \in levels[k]
      /\ \A j, k \in DOMAIN levels' : j # k => levels'[j] \cap levels'[k] = {}
    BY <1>3
<1> QED
    BY <1>1, <1>4 DEF InLevels

LEMMA InitInvariant == Init => IInv
BY DEF Init, IInv, InLevels

LEMMA EmitLevelKeeps ==
    ASSUME IInv, EmitLevel
    PROVE  IInv'
<1>1. Main' = Main /\ phase = "loop" /\ phase' = "loop"
    BY DEF EmitLevel, Main
<1>2. Ready \subseteq Main /\ \A i \in Ready : i \notin done
    BY DEF Ready
<1>3. \A k \in DOMAIN levels : levels[k] \cap Ready = {}
    BY <1>1, <1>2 DEF IInv, InLevels
<1>4. levels' = Append(levels, Ready) /\ done' = done \cup Ready
    BY DEF EmitLevel
<1> HIDE DEF Ready
<1>5. /\ levels' \in Seq(SUBSET Main)
      /\ \A i : InLevels(i)' <=> i \in Ready \/ InLevels(i)
      /\ \A j, k \in DOMAIN levels' : j # k => levels'[j] \cap levels'[k] = {}
    BY <1>2, <1>3, <1>4, AddedLevel
<1>6. /\ \A i \in done : InLevels(i)
      /\ \A i \in Main : InLevels(i) => i \in done
    BY <1>1 DEF IInv
<1>7. done' \subseteq Main /\ \A i \in done' : InLevels(i)'
    BY <1>2, <1>4, <1>5, <1>6 DEF IInv
<1>8. \A i \in Main : InLevels(i)' => i \in done'
    BY <1>4, <1>5, <1>6
<1> QED
    BY <1>1, <1>5, <1>7, <1>8 DEF IInv

LEMMA ReturnKeeps ==
    ASSUME IInv, Return
    PROVE  IInv'
<1>1. Main' = Main /\ phase = "loop" /\ phase' = "returned" /\ done' = done
    BY DEF Return, Main
<1>2. /\ \A i \in done : InLevels(i)
      /\ \A i \in Main : InLevels(i) => i \in done
    BY <1>1 DEF IInv
<1>3. CASE Leftover = {}
    <2>1. levels' = levels /\ \A i \in Main : InLevels(i)
        BY <1>2, <1>3 DEF Return, Leftover
    <2> QED
        BY <1>1, <1>2, <2>1 DEF IInv, InLevels
<1>4. CASE Leftover # {}
    <2>1. levels' = Append(levels, Leftover)
        BY <1>4 DEF Return
    <2>2. Leftover \subseteq Main /\ \A k \in DOMAIN levels : levels[k] \cap Leftover = {}
        BY <1>2 DEF Leftover, InLevels
    <2>3. /\ levels' \in Seq(SUBSET Main)
          /\ \A i : InLevels(i)' <=> i \in Leftover \/ InLevels(i)
          /\ \A j, k \in DOMAIN levels' : j # k => levels'[j] \cap levels'[k] = {}
        BY <2>1, <2>2, AddedLevel
    <2>4. \A i \in Main : InLevels(i)'
        BY <1>2, <2>3 DEF Leftover
    <2>5. done' \subseteq Main /\ \A i \in done' : InLevels(i)'
        BY <1>1, <1>2, <2>3 DEF IInv
    <2> QED
        BY <1>1, <2>3, <2>4, <2>5 DEF IInv
<1> QED
    BY <1>3, <1>4

\* The levels emitted are disjoint and hold what is in `done`.
THEOREM Invariance == Spec => []IInv
<1>1. IInv /\ [Next]_vars => IInv'
    <2> SUFFICES ASSUME IInv, [Next]_vars PROVE IInv'
        OBVIOUS
    <2>1. CASE EmitLevel
        BY <2>1, EmitLevelKeeps
    <2>2. CASE Return
        BY <2>2, ReturnKeeps
    <2>3. CASE UNCHANGED vars
        BY <2>3 DEF vars, IInv, InLevels, Main
    <2> QED
        BY <2>1, <2>2, <2>3 DEF Next
<1> QED
    BY <1>1, InitInvariant, PTL DEF Spec

\* When waves returns, every test of the main phase is in exactly one level,
\* whatever the suite: a cycle, a need without a producer, a list that repeats
\* itself (waves.rs, the fallback level).
THEOREM NoTestIsDropped == Spec => []NeverDropsATest
<1>1. IInv => NeverDropsATest
    <2> SUFFICES ASSUME IInv, phase = "returned"
                 PROVE  /\ Emitted(Len(levels)) = Main
                        /\ \A j, k \in DOMAIN levels : j # k => levels[j] \cap levels[k] = {}
        BY DEF NeverDropsATest
    <2>1. DOMAIN levels = 1 .. Len(levels) /\ \A k \in DOMAIN levels : levels[k] \subseteq Main
        BY DEF IInv
    <2>2. \A i \in Main : \E k \in DOMAIN levels : i \in levels[k]
        BY DEF IInv, InLevels
    <2> QED
        BY <2>1, <2>2 DEF IInv, Emitted
<1> QED
    BY <1>1, Invariance, PTL

-----------------------------------------------------------------------------
(* The levels and the dependencies *)

\* The edges f[p] of every p of S, told apart by where they come from.
Tagged(f, S) == UNION {{p} \X f[p] : p \in S}

\* A finite family of finite sets, each tagged with its index, is finite.
LEMMA TaggedIsFinite ==
    ASSUME NEW f, NEW S, IsFiniteSet(S), \A p \in S : IsFiniteSet(f[p])
    PROVE  IsFiniteSet(Tagged(f, S))
<1> DEFINE T == {{p} \X f[p] : p \in S}
           g == [p \in S |-> {p} \X f[p]]
<1>1. g \in Surjection(S, T)
    <2>1. g \in [S -> T] /\ \A t \in T : \E p \in S : g[p] = t
        OBVIOUS
    <2> QED
        BY <2>1 DEF Surjection
<1>2. IsFiniteSet(T)
    <2> HIDE DEF T, g
    <2> QED
        BY <1>1, FS_Surjection
<1>3. \A p \in S : IsFiniteSet({p} \X f[p])
    BY FS_Singleton, FS_Product
<1>4. \A t \in T : IsFiniteSet(t)
    BY <1>3
<1>5. IsFiniteSet(UNION T)
    <2> HIDE DEF T
    <2> QED
        BY <1>2, <1>4, FS_UNION
<1> QED
    BY <1>5 DEF Tagged

\* Of two disjoint parts the edges add up.
LEMMA TaggedSplits ==
    ASSUME NEW f, NEW A, NEW B, A \cap B = {}, IsFiniteSet(A), IsFiniteSet(B),
           \A p \in A \cup B : IsFiniteSet(f[p])
    PROVE  /\ Cardinality(Tagged(f, A)) \in Nat
           /\ Cardinality(Tagged(f, B)) \in Nat
           /\ Cardinality(Tagged(f, A \cup B))
                = Cardinality(Tagged(f, A)) + Cardinality(Tagged(f, B))
<1>1. IsFiniteSet(Tagged(f, A)) /\ IsFiniteSet(Tagged(f, B))
    BY TaggedIsFinite
<1>2. Tagged(f, A \cup B) = Tagged(f, A) \cup Tagged(f, B)
    BY DEF Tagged
<1>3. Tagged(f, A) \cap Tagged(f, B) = {}
    BY DEF Tagged
<1>4. /\ Cardinality(Tagged(f, A)) \in Nat
      /\ Cardinality(Tagged(f, B)) \in Nat
    BY <1>1, FS_CardinalityType
<1>5. Cardinality({}) = 0
    BY FS_EmptySet
<1>6. Cardinality(Tagged(f, A) \cup Tagged(f, B))
        = Cardinality(Tagged(f, A)) + Cardinality(Tagged(f, B)) - Cardinality({})
    BY <1>1, <1>3, FS_Union
<1>7. \A a, b \in Nat : a + b - 0 = a + b
    OBVIOUS
<1>8. Cardinality(Tagged(f, A \cup B))
        = Cardinality(Tagged(f, A)) + Cardinality(Tagged(f, B)) - 0
    BY <1>2, <1>5, <1>6, Zenon
<1> QED
    BY <1>4, <1>7, <1>8, Zenon

\* No edges at all when no producer has one.
LEMMA NoneTagged ==
    ASSUME NEW f, NEW S, IsFiniteSet(S), \A p \in S : IsFiniteSet(f[p])
    PROVE  Cardinality(Tagged(f, S)) = 0 <=> \A p \in S : f[p] = {}
<1>1. Cardinality(Tagged(f, S)) = 0 <=> Tagged(f, S) = {}
    BY TaggedIsFinite, FS_EmptySet
<1>2. Tagged(f, S) = {} <=> \A p \in S : f[p] = {}
    <2>1. ASSUME Tagged(f, S) = {}, NEW p \in S, NEW e \in f[p] PROVE FALSE
        <3>1. <<p, e>> \in Tagged(f, S)
            BY <2>1 DEF Tagged
        <3> QED
            BY <2>1, <3>1
    <2>2. ASSUME \A p \in S : f[p] = {}, NEW x \in Tagged(f, S) PROVE FALSE
        BY <2>2 DEF Tagged
    <2> QED
        BY <2>1, <2>2
<1> QED
    BY <1>1, <1>2

\* saturating_sub takes nothing off when there is enough.
LEMMA MaxOfZeroAnd ==
    ASSUME NEW n \in Nat
    PROVE  Max({0, n}) = n
<1>1. n \in {0, n} /\ \A y \in {0, n} : n >= y
    OBVIOUS
<1>2. \A x \in {0, n} : (\A y \in {0, n} : x >= y) => x = n
    OBVIOUS
<1> QED
    BY <1>1, <1>2 DEF Max

\* The suites waves is given.
Suites == [Tests -> [needs : Lists, produces : Lists, teardown : BOOLEAN]]

\* The edges into c by producer.
ProducersOf(c) == [p \in Main |-> Edges(p, c)]

\* Where the edges into a test come from.
LEMMA EdgesAreFinite ==
    ASSUME tests \in Suites, NEW c \in Main
    PROVE  /\ IsFiniteSet(Main)
           /\ \A p \in Main : IsFiniteSet(Edges(p, c)) /\ ProducersOf(c)[p] = Edges(p, c)
           /\ \A S \in SUBSET Main :
                EdgesFrom(S, c) = Cardinality(Tagged(ProducersOf(c), S))
<1>1. Main \subseteq 1 .. N /\ IsFiniteSet(1 .. N)
    BY WavesAssumption, FS_Interval DEF Suites, Tests, Main, MainOf
<1>2. IsFiniteSet(Main)
    BY <1>1, FS_Subset
<1>3. ASSUME NEW p \in Main PROVE IsFiniteSet(Edges(p, c))
    <2> DEFINE A == DOMAIN tests[c].needs
               B == DOMAIN tests[p].produces
    <2>1. tests[c].needs \in Seq(Capabilities) /\ tests[p].produces \in Seq(Capabilities)
        BY <1>1, WavesAssumption DEF Suites, Tests
    <2>2. /\ A = 1 .. Len(tests[c].needs) /\ Len(tests[c].needs) \in Int
          /\ B = 1 .. Len(tests[p].produces) /\ Len(tests[p].produces) \in Int
        BY <2>1
    <2>3. IsFiniteSet(A) /\ IsFiniteSet(B)
        BY <2>2, FS_Interval
    <2>4. Edges(p, c) \subseteq A \X B
        BY DEF Edges
    <2> HIDE DEF A, B
    <2>5. IsFiniteSet(A \X B)
        BY <2>3, FS_Product
    <2> QED
        BY <2>4, <2>5, FS_Subset
<1>4. \A p \in Main : ProducersOf(c)[p] = Edges(p, c)
    BY DEF ProducersOf
<1>5. ASSUME NEW S \in SUBSET Main
      PROVE  EdgesFrom(S, c) = Cardinality(Tagged(ProducersOf(c), S))
    <2>1. {{p} \X Edges(p, c) : p \in S} = {{p} \X ProducersOf(c)[p] : p \in S}
        BY <1>4
    <2> QED
        BY <2>1 DEF EdgesFrom, Tagged
<1> QED
    BY <1>2, <1>3, <1>4, <1>5
\* In the loop the counts are those of the edges whose producers are still to
\* come, and what has been emitted is what the levels hold.
LevelInv ==
    /\ tests \in Suites
    /\ phase = "loop" => /\ indeg = [c \in Main |-> EdgesFrom(Main \ done, c)]
                         /\ done = Emitted(Len(levels))
    /\ LevelsFollowDependencies

\* The suite is given: so are its edges.
LEMMA EdgesStay ==
    ASSUME tests' = tests
    PROVE  /\ Main' = Main /\ Deps' = Deps
           /\ \A p, c : Edges(p, c)' = Edges(p, c)
<1>1. Main' = Main
    BY DEF Main
<1>2. \A p, c : Edges(p, c)' = Edges(p, c)
    BY DEF Edges
<1> QED
    BY <1>1, <1>2 DEF Deps

\* In the loop a test is ready when all its producers have been emitted.
LEMMA ReadyIsReadyLevel ==
    ASSUME LevelInv, phase = "loop"
    PROVE  Ready = ReadyLevel(Main, Deps, done)
<1>1. ASSUME NEW i \in Main \ done
      PROVE  indeg[i] = 0 <=> Deps[i] \subseteq done
    <2> DEFINE f == ProducersOf(i)
    <2>1. /\ IsFiniteSet(Main \ done)
          /\ \A p \in Main \ done : IsFiniteSet(f[p]) /\ f[p] = Edges(p, i)
          /\ EdgesFrom(Main \ done, i) = Cardinality(Tagged(f, Main \ done))
        BY EdgesAreFinite, FS_Subset DEF LevelInv
    <2> HIDE DEF f
    <2>2. EdgesFrom(Main \ done, i) = 0 <=> \A p \in Main \ done : f[p] = {}
        BY <2>1, NoneTagged
    <2>3. indeg[i] = EdgesFrom(Main \ done, i)
        BY DEF LevelInv
    <2>4. Deps[i] = {p \in Main : Edges(p, i) # {}}
        BY DEF Deps
    <2> QED
        BY <2>1, <2>2, <2>3, <2>4
<1> QED
    BY <1>1 DEF Ready, ReadyLevel

\* A level appended after those there are leaves what they emit alone.
LEMMA AppendedLevelFollows ==
    ASSUME LevelInv, levels \in Seq(SUBSET Main), tests' = tests,
           NEW S \in SUBSET Main, levels' = Append(levels, S),
           S = NextLevelOf(Main, Deps, Emitted(Len(levels)))
    PROVE  LevelsFollowDependencies' /\ Emitted(Len(levels))' = Emitted(Len(levels)) \cup S
<1> PICK M : M = Main
    OBVIOUS
<1>1. /\ Len(levels) \in Nat /\ Len(levels') = Len(levels) + 1
      /\ DOMAIN levels = 1 .. Len(levels) /\ DOMAIN levels' = 1 .. Len(levels) + 1
      /\ levels'[Len(levels) + 1] = S /\ \A k \in DOMAIN levels : levels'[k] = levels[k]
    <2>1. levels \in Seq(SUBSET M) /\ S \in SUBSET M
        OBVIOUS
    <2> QED
        BY <2>1
<1>2. ASSUME NEW k \in 0 .. Len(levels)
      PROVE  UNION {levels'[j] : j \in 1 .. k} = Emitted(k)
    <2>1. \A j \in 1 .. k : levels'[j] = levels[j]
        BY <1>1
    <2> QED
        BY <2>1 DEF Emitted
<1>3. UNION {levels'[j] : j \in 1 .. Len(levels) + 1} = Emitted(Len(levels)) \cup S
    <2>1. UNION {levels'[j] : j \in 1 .. Len(levels) + 1}
            = (UNION {levels'[j] : j \in 1 .. Len(levels)}) \cup levels'[Len(levels) + 1]
        <3>1. 1 .. Len(levels) + 1 = (1 .. Len(levels)) \cup {Len(levels) + 1}
            BY <1>1
        <3> QED
            BY <3>1
    <2> QED
        BY <1>1, <1>2, <2>1
<1>4. ASSUME NEW k \in DOMAIN levels'
      PROVE  levels'[k] = NextLevelOf(Main, Deps, UNION {levels'[j] : j \in 1 .. k - 1})
    <2>1. k - 1 \in 0 .. Len(levels)
        BY <1>1
    <2>2. UNION {levels'[j] : j \in 1 .. k - 1} = Emitted(k - 1)
        BY <1>2, <2>1
    <2>3. CASE k = Len(levels) + 1
        <3>1. k - 1 = Len(levels)
            BY <1>1, <2>3
        <3> QED
            BY <1>1, <2>2, <2>3, <3>1
    <2>4. CASE k \in DOMAIN levels
        BY <1>1, <2>2, <2>4 DEF LevelInv, LevelsFollowDependencies
    <2>5. k = Len(levels) + 1 \/ k \in DOMAIN levels
        BY <1>1
    <2> QED
        BY <2>3, <2>4, <2>5, Zenon
<1>5. LevelsFollowDependencies'
    BY <1>4, EdgesStay DEF LevelsFollowDependencies, Emitted
<1>6. Emitted(Len(levels))' = UNION {levels'[j] : j \in 1 .. Len(levels')}
    BY DEF Emitted
<1> QED
    BY <1>1, <1>3, <1>5, <1>6

\* At first all the edges are to come.
LEMMA InitFollows == Init => LevelInv
<1> SUFFICES ASSUME Init PROVE LevelInv
    OBVIOUS
<1>1. Main \ {} = Main
    OBVIOUS
<1>2. indeg = [c \in Main |-> EdgesFrom(Main \ done, c)]
    BY <1>1 DEF Init
<1>3. Emitted(Len(levels)) = {}
    BY DEF Init, Emitted
<1> QED
    BY <1>2, <1>3 DEF Init, LevelInv, LevelsFollowDependencies, Suites

\* Releasing the edges out of a level leaves those out of the rest.
LEMMA EmitLevelFollows ==
    ASSUME LevelInv, levels \in Seq(SUBSET Main), EmitLevel
    PROVE  LevelInv'
<1>1. /\ phase = "loop" /\ phase' = "loop" /\ tests' = tests
      /\ Ready # {} /\ levels' = Append(levels, Ready) /\ done' = done \cup Ready
      /\ indeg' = [c \in Main |-> Max({0, indeg[c] - EdgesFrom(Ready, c)})]
    BY DEF EmitLevel
<1>2. Ready \subseteq Main \ done
    BY DEF Ready
<1>3. Ready = ReadyLevel(Main, Deps, Emitted(Len(levels)))
    BY <1>1, ReadyIsReadyLevel DEF LevelInv
<1> HIDE DEF Ready
<1>4. Ready = NextLevelOf(Main, Deps, Emitted(Len(levels)))
    BY <1>1, <1>3 DEF NextLevelOf
<1>5. LevelsFollowDependencies' /\ Emitted(Len(levels))' = done'
    BY <1>1, <1>2, <1>4, AppendedLevelFollows DEF LevelInv
<1>6. ASSUME NEW c \in Main
      PROVE  Max({0, indeg[c] - EdgesFrom(Ready, c)}) = EdgesFrom(Main \ done', c)
    <2> DEFINE f == ProducersOf(c)
               A == Ready
               B == Main \ done'
    <2>1. A \cup B = Main \ done /\ A \cap B = {}
        BY <1>1, <1>2
    <2>2. /\ IsFiniteSet(A) /\ IsFiniteSet(B)
          /\ \A p \in Main : IsFiniteSet(f[p])
          /\ EdgesFrom(A, c) = Cardinality(Tagged(f, A))
          /\ EdgesFrom(B, c) = Cardinality(Tagged(f, B))
          /\ EdgesFrom(A \cup B, c) = Cardinality(Tagged(f, A \cup B))
        BY <1>2, <2>1, EdgesAreFinite, FS_Subset DEF LevelInv
    <2>3. indeg[c] = EdgesFrom(A \cup B, c)
        BY <1>1, <2>1 DEF LevelInv
    <2>4. \A p \in A \cup B : IsFiniteSet(f[p])
        BY <2>1, <2>2
    <2> HIDE DEF f, A, B
    <2>5. /\ EdgesFrom(A, c) \in Nat /\ EdgesFrom(B, c) \in Nat
          /\ indeg[c] = EdgesFrom(A, c) + EdgesFrom(B, c)
        <3>1. /\ Cardinality(Tagged(f, A)) \in Nat
              /\ Cardinality(Tagged(f, B)) \in Nat
              /\ Cardinality(Tagged(f, A \cup B))
                   = Cardinality(Tagged(f, A)) + Cardinality(Tagged(f, B))
            BY <2>1, <2>2, <2>4, TaggedSplits, Zenon
        <3> QED
            BY <2>2, <2>3, <3>1, Zenon
    <2>6. indeg[c] - EdgesFrom(A, c) = EdgesFrom(B, c)
        BY <2>5
    <2>7. Max({0, indeg[c] - EdgesFrom(A, c)}) = EdgesFrom(B, c)
        BY <2>5, <2>6, MaxOfZeroAnd
    <2> QED
        BY <2>7 DEF A, B
<1>7. indeg' = [c \in Main |-> EdgesFrom(Main \ done', c)]
    BY <1>1, <1>6
<1>8. indeg' = [c \in Main' |-> EdgesFrom(Main \ done, c)']
    <2>1. Main' = Main /\ \A p, x : Edges(p, x)' = Edges(p, x)
        BY <1>1, EdgesStay
    <2>2. \A c : EdgesFrom(Main \ done, c)' = EdgesFrom(Main \ done', c)
        BY <2>1 DEF EdgesFrom
    <2> QED
        BY <1>7, <2>1, <2>2
<1>9. (tests \in Suites)'
    BY <1>1 DEF LevelInv, Suites
<1> QED
    BY <1>1, <1>5, <1>8, <1>9 DEF LevelInv

\* The leftovers are what the specification of a level takes.
LEMMA ReturnFollows ==
    ASSUME LevelInv, levels \in Seq(SUBSET Main), Return
    PROVE  LevelInv'
<1>1. /\ phase = "loop" /\ phase' = "returned" /\ tests' = tests
      /\ Ready = {}
      /\ levels' = IF Leftover = {} THEN levels ELSE Append(levels, Leftover)
    BY DEF Return
<1>2. (tests \in Suites)'
    BY <1>1 DEF LevelInv, Suites
<1>3. CASE Leftover = {}
    BY <1>1, <1>2, <1>3, EdgesStay DEF LevelInv, LevelsFollowDependencies, Emitted
<1>4. CASE Leftover # {}
    <2>1. {} = ReadyLevel(Main, Deps, done)
        BY <1>1, ReadyIsReadyLevel
    <2>2. Leftover = NextLevelOf(Main, Deps, Emitted(Len(levels))) /\ Leftover \subseteq Main
        BY <1>1, <2>1 DEF NextLevelOf, Leftover, LevelInv
    <2>3. levels' = Append(levels, Leftover)
        BY <1>1, <1>4
    <2>4. LevelsFollowDependencies'
        BY <1>1, <2>2, <2>3, AppendedLevelFollows
    <2> QED
        BY <1>1, <1>2, <2>4 DEF LevelInv
<1> QED
    BY <1>3, <1>4

\* The in-degrees of topo_levels count the edges still to come.
THEOREM DegreesCountEdges == Spec => []LevelInv
<1>1. IInv /\ LevelInv /\ [Next]_vars => LevelInv'
    <2> SUFFICES ASSUME IInv, LevelInv, [Next]_vars PROVE LevelInv'
        OBVIOUS
    <2>1. levels \in Seq(SUBSET Main)
        BY DEF IInv
    <2>2. CASE EmitLevel
        BY <2>1, <2>2, EmitLevelFollows
    <2>3. CASE Return
        BY <2>1, <2>3, ReturnFollows
    <2>4. CASE UNCHANGED vars
        BY <2>4
           DEF vars, LevelInv, LevelsFollowDependencies, Emitted, Suites, Deps, Main,
               EdgesFrom, Edges
    <2> QED
        BY <2>2, <2>3, <2>4 DEF Next
<1> QED
    BY <1>1, InitFollows, Invariance, PTL DEF Spec

\* Counting edges comes to the dependencies (waves.rs, the Kahn loop): for any
\* suite, lists that repeat a capability and cycles included, each level holds
\* the tests whose producers were all emitted earlier, or what is left.
THEOREM LevelsAreDependencyLevels == Spec => []LevelsFollowDependencies
<1>1. LevelInv => LevelsFollowDependencies
    BY DEF LevelInv
<1> QED
    BY <1>1, DegreesCountEdges, PTL

=============================================================================
