---------------------------- MODULE MCGeneration ----------------------------
(***************************************************************************)
(* TLC instances of Generation: an API document of each form, a summary    *)
(* that lists its endpoints and a PRD that has them elsewhere, and titles  *)
(* of which two are similar and one is a derived one.                      *)
(***************************************************************************)
EXTENDS Generation

Op(method, path, says) == [method |-> method, path |-> path, says |-> says, closed |-> FALSE]

\* Documents that are not PRDs have operations only.
Api(form, ops) ==
    [form |-> form, ops |-> ops, nested |-> <<>>, guarded |-> <<>>, roles |-> {}]

MCDocuments ==
    {Api("openapi", <<Op("GET", "/a", {404, 201, 200}), Op("other", "/a", {})>>),
     Api("openapi", <<Op("POST", "/a", {404})>>),
     Api("har", <<Op("GET", "/a", {401}), Op("GET", "/a", {200})>>),
     Api("har", <<Op("POST", "/a", {302})>>),
     Api("postman", <<Op("", "/a", {}), Op("POST", "", {})>>),
     Api("graphql", <<[Op("POST", "/a", {}) EXCEPT !.closed = TRUE], Op("GET", "/a", {})>>),
     Api("summary", <<Op("POST", "/a", {404}), Op("", "/a", {})>>),
     [Api("summary", <<>>) EXCEPT !.nested = <<Op("", "/a", {200})>>, !.guarded = <<"/a">>],
     Api("summary", <<>>)}

MCTitles == {<<"GET", "/a", "TC">>, <<"GET", "/a", "too">>, <<"POST", "/a", "free">>}
MCSimilar == {{<<"GET", "/a", "TC">>, <<"GET", "/a", "too">>}}

\* Two functions in one file, one of them the name of a module too; the third
\* title names the other.
Lib == [path |-> "lib", language |-> "rust", tests |-> FALSE, skipped |-> FALSE]
Function(name, line) ==
    [name |-> name, file |-> Lib, line |-> line, marked |-> FALSE, testName |-> FALSE]

MCCode     == {Function("a", 1), Function("free", 4)}
MCWords(t) == IF t[3] = "free" THEN {"free"} ELSE {}
MCProfiles == {{}, {[path |-> {"lib", "free"}, count |-> 0], [path |-> {"a", "run"}, count |-> 1]}}
MCTrees    == {[code |-> MCCode, hunks |-> {[file |-> Lib, start |-> 5, count |-> 1]},
                untracked |-> {}, deleted |-> {}]}

=============================================================================
