----------------------------- MODULE Generation -----------------------------
(***************************************************************************)
(* Test generation (local/generate.rs): one `test generate`, `test audit`  *)
(* or `project ingest-prd` after another, from the answers of the model    *)
(* (server/llm.rs) or a document with endpoints to the stored tests, the   *)
(* PRD they are stamped with and their screening (accept.rs).              *)
(*                                                                         *)
(* A case is the id and the title it was proposed with, and what its spec  *)
(* accepts, if it has one.  What documents yield is ApiSurface, what the   *)
(* store does under several callers TestStore; here any statement may fail *)
(* and `?` leaves the command on the spot.                                 *)
(***************************************************************************)
EXTENDS ApiSurface, CodeSurface

CONSTANTS
    Kinds,      \* the ways to generate that are tried
    Commands,   \* how many commands are run, one after another
    Documents,  \* the documents and summaries at hand
    NIds,       \* ids a model proposes: TC001 to TC00NIds, or none
    Titles,     \* titles a model proposes
    Similar,    \* pairs of titles that differ, with title_similarity > 0.85
    MaxCases,   \* cases of one answer
    NViews,     \* perspectives of a units pass, models of an audit
    Iterate,    \* --iterate
    Code,       \* the functions of the scanned path
    Words(_),   \* Words(title): the names a test of that title mentions
    Profiles,   \* what a coverage run may find executed; {}: it cannot be made
    Trees,      \* the working trees --changed may find
    Budget,     \* --budget
    Gate,       \* whether answers are screened: not with --no-gate
    MaxCost     \* tokens of one call of the model

AllKinds == {"structured",                \* an API document or code summary
             "plan",                      \* PRD and plan by the model
             "cover", "changed", "audit",
             "checked"}                   \* changed, and fault-checked

ASSUME GenerationAssumption ==
    /\ Kinds \subseteq AllKinds
    /\ Documents \subseteq Document
    /\ Commands \in Nat /\ NIds \in Nat
    /\ MaxCases \in Nat /\ NViews \in Nat /\ Iterate \in Nat
    /\ \A f \in Code : IsFunction(f)
    /\ IsFiniteSet(Code) /\ \A tree \in Trees : IsFiniteSet(tree.code)
    /\ Budget \in Nat /\ MaxCost \in Nat \ {0}
    /\ Gate \in BOOLEAN

VARIABLES
    store,      \* the stored tests by id
    uuids,      \* uuids handed out so far
    prds,       \* the stored PRDs: the commands that saved one
    cmd,        \* the command under way
    ended,      \* commands that have ended
    answer      \* what the last of them answered, until the next starts

vars == <<store, uuids, prds, cmd, ended, answer>>

Ids    == {"TC", "BND", "GQL", "uuid"} \X (Nat \ {0})
NoId   == <<"", 0>>             \* none, or emptied
\* Those of a model, and those of derived cases.
AllTitles == Titles \cup ((Methods \cup {"", "other"}) \X (Paths \cup {""}) \X {"TC", "BND", "GQL"})

Case == [id : Ids \cup {NoId}, title : AllTitles, accepts : SUBSET Statuses, origin : Origins]

Screened == {"kept", "quarantined"}     \* kept: accepted, or not evaluated
Test == [title   : AllTitles,
         prd     : 0 .. Commands,                   \* 0: no prdId
         gate    : Screened \cup {"unscreened", "exempt"},
         accepts : SUBSET Statuses,                 \* {}: it has no spec
         origin  : Origins]

Steps == {"idle", "propose", "measure", "ask", "persist", "write", "screen",
          "faultcheck"}

Command ==
    [at     : Steps,
     kind   : AllKinds,
     round  : Nat,              \* passes begun
     prev   : Nat,              \* prev_uncovered
     asked  : 0 .. NViews,      \* views or models tried in this pass
     failed : BOOLEAN,          \* errors is not empty
     cases  : Seq(Case),
     ids    : Seq(Ids),         \* test_ids of this pass
     left   : Seq(Ids),         \* those still to be screened or checked
     all    : SUBSET Ids,       \* all_ids, of the earlier passes
     quarantined : SUBSET Ids,  \* the ids to report as quarantined
     pass   : Nat,              \* tokens of this pass's ledger
     spent  : Nat]              \* history: tokens of a cover

Idle == [at |-> "idle", kind |-> "plan", round |-> 0, prev |-> Cardinality(Code) + 1,
         asked |-> 0, failed |-> FALSE, cases |-> <<>>, ids |-> <<>>, left |-> <<>>,
         all |-> {}, quarantined |-> {}, pass |-> 0, spent |-> 0]

\* The error of a command, which names no tests.
Error == [ok |-> FALSE, ids |-> {}, quarantined |-> {}]

Stored == DOMAIN store

\* Kinds whose cases are proposed by views or models and merged.
MergedKinds == {"cover", "changed", "checked", "audit"}
UnitKinds   == MergedKinds \ {"audit"}

Rounds == IF Iterate <= 1 THEN 1 ELSE Iterate

Init ==
    /\ store = [i \in {} |-> 0]
    /\ uuids = 0
    /\ prds = {}
    /\ cmd = Idle
    /\ ended = 0
    /\ answer = Error

At(step) == cmd.at = step

\* The command ends with an error, or it answers (GenSummary).
End(a) == cmd' = Idle /\ ended' = ended + 1 /\ answer' = a
Reply(ids, quarantined) ==
    End([ok |-> TRUE, ids |-> ids, quarantined |-> quarantined])

-----------------------------------------------------------------------------
(* Cases *)

\* dedupe_cases: the first of each title.
DedupeCases(s) ==
    Keep(s, {i \in DOMAIN s : \A j \in 1 .. i - 1 : s[j].title # s[i].title})

\* title_similarity > 0.85
Near(t, u) == t = u \/ {t, u} \in Similar

\* drop_known_duplicates: not those whose title is near a stored one's.
DropKnown(s) ==
    Keep(s, {i \in DOMAIN s : ~\E j \in Stored : Near(s[i].title, store[j].title)})

\* clear_duplicate_ids: a repeated id is emptied, and add_value makes up one.
ClearDuplicateIds(s) ==
    [i \in DOMAIN s |->
        IF \E j \in 1 .. i - 1 : s[j].id = s[i].id THEN [s[i] EXCEPT !.id = NoId] ELSE s[i]]

\* A case as a model writes it.
Written(id, title) == [id |-> id, title |-> title, accepts |-> {}, origin |-> "model"]

ModelCases == {Written(id, title) : id \in {NoId} \cup {<<"TC", n>> : n \in 1 .. NIds},
                                    title \in Titles}
Answers == UNION {[1 .. n -> ModelCases] : n \in 0 .. MaxCases}

\* A derived case under its title, which names the operation.
Titled(c) == [id |-> c.id, title |-> <<c.method, c.path, c.id[1]>>,
              accepts |-> c.accepts, origin |-> c.origin]

TitledCases(doc, boundary) ==
    [i \in DOMAIN Derived(doc, boundary) |-> Titled(Derived(doc, boundary)[i])]

\* A document that yields nothing is refused, but a PRD may be ingested.
Usable == {doc \in Documents : Derived(doc, FALSE) = <<>> => doc.form = "summary" /\ ~IsSummary(doc)}

\* What is derived from a document, with the boundary probes or without.
Structured == {TitledCases(doc, boundary) : doc \in Usable, boundary \in BOOLEAN}

-----------------------------------------------------------------------------
(* The commands *)

Start(kind) ==
    /\ At("idle")
    /\ ended < Commands
    /\ cmd' = [Idle EXCEPT !.kind = kind,
                           !.at = CASE kind \in {"structured", "plan"} -> "propose"
                                    [] kind \in UnitKinds -> "measure"
                                    [] kind = "audit" -> "ask"]
    /\ answer' = Error
    /\ UNCHANGED <<store, uuids, prds, ended>>

\* The cases of a PRD: what a document yields, or a PRD and a plan by the model,
\* asked without a look at the budget, whose ids are taken as they come.
Propose ==
    /\ At("propose")
    /\ \E s \in IF cmd.kind = "structured" THEN Structured ELSE Answers :
          cmd' = [cmd EXCEPT !.cases = s, !.at = "persist"]
    /\ UNCHANGED <<store, uuids, prds, ended, answer>>

\* Mutant of Persist: the PRD is left to the end.
PersistLater ==
    /\ At("persist")
    /\ cmd' = [cmd EXCEPT !.at = "write"]
    /\ UNCHANGED <<store, uuids, prds, ended, answer>>

\* persist_prd, before its cases are stored.
Persist ==
    /\ At("persist")
    /\ prds' = prds \cup {ended + 1}
    /\ cmd' = [cmd EXCEPT !.at = "write"]
    /\ UNCHANGED <<store, uuids, ended, answer>>

\* A pass starts with a new client, and so with a new ledger.
NewPass(n) ==
    cmd' = [cmd EXCEPT !.at = "ask", !.round = @ + 1, !.prev = n, !.asked = 0,
                       !.failed = FALSE, !.cases = <<>>, !.ids = <<>>, !.pass = 0,
                       !.all = @ \cup ToSet(cmd.ids)]

Texts == {Words(store[i].title) : i \in Stored}

\* What there is to write tests for: all functions of the path, for a cover
\* with rounds those that are not covered, or the changed ones no test names.
\* A quarantined test covers what it names like any other.
Targets ==
    IF cmd.kind # "cover" THEN {UncoveredChanged(tree, Texts) : tree \in Trees}
    ELSE IF Iterate <= 1 THEN {Surface(Code)}
    ELSE {Uncovered(Surface(Code), Texts, profile) : profile \in Profiles}

\* Measured anew before each round.
Measure ==
    /\ At("measure")
    /\ cmd.round < Rounds
    /\ \E left \in Targets :
          left # {} /\ Cardinality(left) < cmd.prev /\ NewPass(Cardinality(left))
    /\ UNCHANGED <<store, uuids, prds, ended, answer>>

\* Nothing is left, or a round closed nothing, or that was the last one.
MeasureDone ==
    /\ At("measure")
    /\ \/ cmd.round = Rounds
       \/ \E left \in Targets : left = {} \/ Cardinality(left) >= cmd.prev
    /\ Reply(cmd.all \cup ToSet(cmd.ids), cmd.quarantined)
    /\ UNCHANGED <<store, uuids, prds>>

\* A view or a model is asked: cases, or an error that may have cost as much.
Ask ==
    /\ At("ask")
    /\ cmd.asked < NViews
    /\ \E s \in Answers, cost \in 0 .. MaxCost, failed \in BOOLEAN :
          /\ failed => s = <<>>
          /\ cmd' = [cmd EXCEPT !.asked = @ + 1, !.cases = @ \o s,
                                !.failed = @ \/ failed, !.pass = @ + cost,
                                !.spent = IF cmd.kind = "cover" THEN @ + cost ELSE @]
    /\ UNCHANGED <<store, uuids, prds, ended, answer>>

\* One view of a units pass or one model of an audit, unless the tokens of the
\* pass have reached the budget.
AskView == cmd.pass < Budget /\ Ask

AskedEnough == At("ask") /\ (cmd.asked = NViews \/ cmd.pass >= Budget)

\* No case at all is an error of a units pass, and of an audit with errors.
NothingProposed == cmd.cases = <<>> /\ (cmd.kind = "audit" => cmd.failed)

\* Mutant of Merge: the stored tests are not looked at.
MergeKnown ==
    /\ AskedEnough /\ ~NothingProposed
    /\ cmd' = [cmd EXCEPT !.at = "write",
                          !.cases = ClearDuplicateIds(DedupeCases(cmd.cases))]
    /\ UNCHANGED <<store, uuids, prds, ended, answer>>

\* The answers are merged, an audit's without emptying repeated ids.
Merge ==
    LET merged == DedupeCases(cmd.cases)
    IN  /\ AskedEnough /\ ~NothingProposed
        /\ cmd' = [cmd EXCEPT !.at = "write",
                      !.cases = DropKnown(IF cmd.kind = "audit" THEN merged
                                          ELSE ClearDuplicateIds(merged))]
        /\ UNCHANGED <<store, uuids, prds, ended, answer>>

\* An audit that is not to store its cases answers with them.
AuditOnly ==
    /\ AskedEnough /\ ~NothingProposed /\ cmd.kind = "audit"
    /\ Reply({}, {})
    /\ UNCHANGED <<store, uuids, prds>>

\* store_cases: one case is stamped and upserted, whatever had its id before.
StoreCase ==
    LET c   == Head(cmd.cases)
        id  == IF c.id = NoId THEN <<"uuid", uuids + 1>> ELSE c.id
        new == [title |-> c.title,
                prd   |-> IF cmd.kind \in MergedKinds THEN 0 ELSE ended + 1,
                gate  |-> IF cmd.kind = "structured" THEN "exempt" ELSE "unscreened",
                accepts |-> c.accepts, origin |-> c.origin]
    IN  /\ At("write") /\ cmd.cases # <<>>
        /\ store' = [i \in Stored \cup {id} |->
                        IF i = id THEN new ELSE store[i]]
        /\ uuids' = IF c.id = NoId THEN uuids + 1 ELSE uuids
        /\ cmd' = [cmd EXCEPT !.cases = Tail(@), !.ids = Append(@, id)]
        /\ UNCHANGED <<prds, ended, answer>>

\* screen_if: the ids of the pass are screened.
ToScreen ==
    /\ cmd' = [cmd EXCEPT !.at = "screen", !.left = IF Gate THEN cmd.ids ELSE <<>>]
    /\ UNCHANGED <<store, uuids, prds, ended, answer>>

\* Mutant of StoreDone: an audit's cases are not screened.
StoreDoneAudit ==
    /\ At("write") /\ cmd.cases = <<>>
    /\ IF cmd.kind \in {"structured", "audit"}
          THEN Reply(ToSet(cmd.ids), {}) /\ UNCHANGED <<store, uuids, prds>>
          ELSE ToScreen

\* All is stored; only what a model wrote is screened.
StoreDone ==
    /\ At("write") /\ cmd.cases = <<>>
    /\ IF cmd.kind = "structured"
          THEN Reply(ToSet(cmd.ids), {}) /\ UNCHANGED <<store, uuids, prds>>
          ELSE ToScreen

\* screen: one case is run against the current baseline.
ScreenCase ==
    LET id == Head(cmd.left)
    IN  /\ At("screen") /\ cmd.left # <<>>
        /\ \E g \in Screened :
              /\ store' = [store EXCEPT ![id].gate = IF @ = "quarantined" THEN @ ELSE g]
              /\ cmd' = [cmd EXCEPT !.left = Tail(@),
                            !.quarantined = IF g = "quarantined" THEN @ \cup {id} ELSE @]
        /\ UNCHANGED <<uuids, prds, ended, answer>>

\* A cover measures again; a fault check goes through the same ids and reports
\* only what it quarantines itself; an audit reports nothing as quarantined.
ScreenDone ==
    /\ At("screen") /\ cmd.left = <<>>
    /\ UNCHANGED <<store, uuids, prds>>
    /\ CASE cmd.kind = "cover" ->
              cmd' = [cmd EXCEPT !.at = "measure"] /\ UNCHANGED <<ended, answer>>
         [] cmd.kind = "checked" ->
              /\ cmd' = [cmd EXCEPT !.at = "faultcheck", !.left = cmd.ids, !.quarantined = {}]
              /\ UNCHANGED <<ended, answer>>
         [] OTHER ->
              Reply(ToSet(cmd.ids), IF cmd.kind = "audit" THEN {} ELSE cmd.quarantined)

\* fault_check: one case on the base and on the current tree.  It is kept when
\* it fails there and passes here, or could not be judged.
FaultCheckCase ==
    LET id == Head(cmd.left)
    IN  /\ At("faultcheck") /\ cmd.left # <<>>
        /\ \/ /\ store' = [store EXCEPT ![id].gate = "quarantined"]
              /\ cmd' = [cmd EXCEPT !.left = Tail(@), !.quarantined = @ \cup {id}]
           \/ /\ cmd' = [cmd EXCEPT !.left = Tail(@)]
              /\ UNCHANGED store
        /\ UNCHANGED <<uuids, prds, ended, answer>>

FaultCheckDone ==
    /\ At("faultcheck") /\ cmd.left = <<>>
    /\ Reply(ToSet(cmd.ids), cmd.quarantined)
    /\ UNCHANGED <<store, uuids, prds>>

\* An error: no key, an answer that is no plan, a statement of the store that
\* failed, no view that proposed anything.
Fail ==
    /\ ~At("idle")
    /\ End(Error)
    /\ UNCHANGED <<store, uuids, prds>>

Next ==
    \/ \E kind \in Kinds : Start(kind)
    \/ Propose \/ Persist \/ Measure \/ MeasureDone \/ AskView \/ Merge \/ AuditOnly
    \/ StoreCase \/ StoreDone \/ ScreenCase \/ ScreenDone
    \/ FaultCheckCase \/ FaultCheckDone \/ Fail

Spec == Init /\ [][Next]_vars

-----------------------------------------------------------------------------
(* Properties *)

\* Wherever a command fails, a stored test that names a PRD names a stored one:
\* require_approved_prd would refuse it for ever otherwise (store.rs:218,
\* persist_prd before store_cases).
StampedTestsHavePrd ==
    \A i \in Stored : store[i].prd # 0 => store[i].prd \in prds

\* Coverage passes and audits, one after another and whatever ids they reuse,
\* never give the suite a test it has: two stored tests have one title only if
\* a PRD's plan brought one of them (dedupe_cases, drop_known_duplicates).
MergedTitlesAreNew ==
    \A i, j \in Stored :
        i # j /\ store[i].title = store[j].title => store[i].prd # 0 \/ store[j].prd # 0

\* No test that a model wrote is answered with before it has been tried against
\* the baseline, in whichever round, view or model it was proposed and even if
\* another case has taken its id since (screen_if, generate.rs:249).
AnswersAreScreened ==
    At("idle") /\ answer.ok /\ Gate
        => \A i \in answer.ids : store[i].gate # "unscreened"

\* No test that was imported from an API document passes on an endpoint that is
\* missing or walled off, whatever the document declares or a capture recorded:
\* "Neither band accepts 401/403/404/405" (apidoc.rs:27), and nothing that is
\* imported is pinned to such a status.
ImportsJudgeMissing ==
    \A i \in Stored : store[i].origin = "import" => store[i].accepts \cap {401, 404, 500} = {}

=============================================================================
