------------------------------ MODULE ApiSurface ------------------------------
(***************************************************************************)
(* What a document says of an API and the cases that are derived from it   *)
(* without a model: code summaries and PRDs (server/engine.rs,             *)
(* local/prd_ingest.rs), API documents (local/apidoc.rs), and the surface  *)
(* the coverage guard counts (server/coverage.rs).  Operators only: their  *)
(* users are LocalBackend and Generation.                                  *)
(*                                                                         *)
(* A path is normalised; a method is a read, a write, or a word that is no *)
(* method; "" stands for a field that is missing.  A body is left out: no  *)
(* expectation depends on it.                                              *)
(***************************************************************************)
EXTENDS Integers, Sequences, FiniteSets, SequencesExt

CONSTANTS
    Paths,      \* the paths documents name
    Templated,  \* those of them with a {parameter}
    Roles       \* the roles of testCredentials

ASSUME ApiSurfaceAssumption == Templated \subseteq Paths /\ "" \notin Paths

Methods  == {"GET", "POST"}
Statuses == {200, 201, 302, 400, 401, 404, 422, 500}

\* An element of a list of endpoints; says: the statuses it names, a declared
\* expectation or what was recorded; closed: an operation whose arguments
\* cannot be made up.
Entry == [method : Methods \cup {"", "other"}, path : Paths \cup {""},
          says : SUBSET Statuses, closed : BOOLEAN]

Forms == {"summary", "postman", "openapi", "har", "graphql"}

Document ==
    [form    : Forms,
     ops     : Seq(Entry),      \* top-level api_endpoints; paths; items; fields
     nested  : Seq(Entry),      \* in features, under code_summary, in apis
     guarded : Seq(Paths),      \* security: protected and public endpoints
     roles   : SUBSET Roles]    \* roles with test credentials

-----------------------------------------------------------------------------
(* Expectations, as the statuses they accept *)

Success  == {s \in Statuses : 200 <= s /\ s < 400}
Accepted == Success \cup {400, 422}
AnyBand  == {s \in Statuses : s < 500}

\* expect_for: a guessed body of a write may be refused.
ExpectFor(method) == IF method = "POST" THEN Accepted ELSE Success

Least(S) == CHOOSE s \in S : \A t \in S : s <= t

\* Mutant of Oracle: what was recorded or declared is what is expected.
OracleAsRecorded(form, e) == IF e.says # {} THEN e.says ELSE ExpectFor(e.method)

\* The expectation of an imported operation: the least success that is declared
\* for a read, the success that was recorded, or the band of the method.
Oracle(form, e) ==
    LET declared == {s \in e.says : 200 <= s /\ s < 300}
        recorded == e.says \cap Success
    IN  CASE form = "openapi" /\ declared # {} /\ e.method # "POST" -> {Least(declared)}
          [] form = "har" /\ recorded # {} -> {Least(recorded)}
          [] form = "graphql" -> Success
          [] OTHER -> ExpectFor(e.method)

-----------------------------------------------------------------------------
(* Lists of endpoints *)

Named(e) == IF e.method = "" THEN [e EXCEPT !.method = "GET"] ELSE e

SameOp(e, f) == e.method = f.method /\ e.path = f.path

\* The elements of s at the positions in P, in order.
Nth(P, k)  == CHOOSE i \in P : Cardinality({j \in P : j <= i}) = k
Keep(s, P) == [k \in 1 .. Cardinality(P) |-> s[Nth(P, k)]]

\* The first of each operation.
FirstOfEach(s) == Keep(s, {i \in DOMAIN s : \A j \in 1 .. i - 1 : ~SameOp(s[j], s[i])})

WithPath(s) == Keep(s, {i \in DOMAIN s : s[i].path # ""})

\* postman_endpoints: every item with a URL, a missing method being GET.
PostmanOps(doc) == [i \in DOMAIN WithPath(doc.ops) |-> Named(WithPath(doc.ops)[i])]

\* openapi_endpoints: the methods of each path, not its other keys.
OpenapiOps(doc) == Keep(doc.ops, {i \in DOMAIN doc.ops : doc.ops[i].method \in Methods})

\* har_endpoints: each operation as it was first captured.
HarOps(doc) == FirstOfEach(PostmanOps(doc))

\* gql_operations: the fields of Query and Mutation, a read or a write each,
\* that need no argument.
GraphqlOps(doc) == Keep(doc.ops, {i \in DOMAIN doc.ops : ~doc.ops[i].closed})

Operations(doc) ==
    CASE doc.form = "postman" -> PostmanOps(doc)
      [] doc.form = "openapi" -> OpenapiOps(doc)
      [] doc.form = "har" -> HarOps(doc)
      [] doc.form = "graphql" -> GraphqlOps(doc)
      [] OTHER -> <<>>

\* A summary with a non-empty top-level list is taken as it is.
IsSummary(doc) == doc.ops # <<>>

\* recover_endpoints: each operation once, wherever the PRD has it; what is
\* said to be protected or public is read.
Recovered(doc) ==
    LET stated  == WithPath(doc.nested)
        guarded == [i \in DOMAIN doc.guarded |->
                      [method |-> "GET", path |-> doc.guarded[i], says |-> {}, closed |-> FALSE]]
    IN  FirstOfEach([i \in DOMAIN stated |-> [Named(stated[i]) EXCEPT !.says = {}]] \o guarded)

\* ingest_summary: the list that is planned from.
Effective(doc) == IF IsSummary(doc) THEN doc.ops ELSE Recovered(doc)

\* variable_seeds: the roles whose credentials become variables.
Seeds(doc) == IF IsSummary(doc) THEN {} ELSE doc.roles

\* read_endpoints: an entry without a method or a path is dropped.
ReadEndpoints(entries) ==
    Keep(entries, {i \in DOMAIN entries : entries[i].method # "" /\ entries[i].path # ""})

-----------------------------------------------------------------------------
(* Cases: an id of a numbering, the operation, what it accepts, where from *)

Origins == {"summary", "probe", "import", "model"}

ApiCase(label, n, e, accepts, origin) ==
    [id |-> <<label, n>>, method |-> e.method, path |-> e.path,
     accepts |-> accepts, origin |-> origin]

\* plan_from_code_summary: the expectation is the declared one, or success.
PlanOf(entries) ==
    LET read == ReadEndpoints(entries)
    IN  [i \in DOMAIN read |->
            ApiCase("TC", i, read[i],
                    IF read[i].says = {} THEN Success ELSE read[i].says, "summary")]

\* boundary_cases: edge values for a parameter, then malformed bodies for a
\* write, numbered through; anything but a server error passes.  One probe
\* stands for the several of its kind.
Boundary(entries) ==
    LET read   == ReadEndpoints(entries)
        twice  == [n \in 1 .. 2 * Len(read) |-> read[(n + 1) \div 2]]
        probes == Keep(twice, {n \in DOMAIN twice :
                     IF n % 2 = 1 THEN twice[n].path \in Templated ELSE twice[n].method = "POST"})
    IN  [n \in DOMAIN probes |-> ApiCase("BND", n, probes[n], AnyBand, "probe")]

\* extract: the cases of an API document; none if it has no operation.
Extract(doc) ==
    LET ops == Operations(doc)
    IN  [i \in DOMAIN ops |->
            ApiCase(IF doc.form = "graphql" THEN "GQL" ELSE "TC", i, ops[i],
                    Oracle(doc.form, ops[i]), "import")]

\* What generate derives from a document without a model.
Derived(doc, boundary) ==
    IF doc.form # "summary" THEN Extract(doc)
    ELSE PlanOf(Effective(doc)) \o (IF boundary THEN Boundary(Effective(doc)) ELSE <<>>)

\* prd_from_code_summary: a PRD whose features name the operations in words; it
\* lists no endpoints and has no credentials.
PrdFrom(doc) == [doc EXCEPT !.ops = <<>>, !.nested = <<>>, !.guarded = <<>>, !.roles = {}]

-----------------------------------------------------------------------------
(* The coverage guard *)

\* declared_surface: of the top-level list only, a missing method being GET.
DeclaredSurface(doc) ==
    {<<Named(e).method, e.path>> : e \in ToSet(WithPath(doc.ops))}

\* Mutant of Touches: the path alone.
TouchesPath(case, target) == case.path = target[2]

\* case_touches: both the method and the whole path are in the case's text.
Touches(case, target) == case.method = target[1] /\ case.path = target[2]

\* evaluate: the elements no case touches.
Gaps(surface, cases) == {t \in surface : ~\E c \in cases : Touches(c, t)}

=============================================================================
