-------------------------- MODULE MCRegressionLoop --------------------------
\* RegressionLoop for TLC: a few definitions of a test and the requests that
\* take each path through the commands.
EXTENDS RegressionLoop

CONSTANTS c1, c2, p, g     \* two commands, a PRD, a group

Body(quarantined, prd, group, words) ==
    [quarantined |-> quarantined, prd |-> prd, group |-> group, words |-> words]

Menu == {Body(FALSE, "none", g, {"f"}),  Body(FALSE, p, "none", {}),
         Body(TRUE, "none", "none", {"f", "h"})}

\* A file with a constant above the functions f and h and a test below them, a
\* file of no known language, and a new one.
File(path) == [path |-> path, language |-> "rust", tests |-> FALSE, skipped |-> FALSE]
Old   == File("lib")
New   == File("new")
Notes == [File("notes") EXCEPT !.language = "none"]

Function(name, file, line) ==
    [name |-> name, file |-> file, line |-> line, marked |-> FALSE, testName |-> FALSE]

Code == {Function("f", Old, 2), Function("h", Old, 5),
         [Function("t", Old, 8) EXCEPT !.marked = TRUE]}

Clean == [code |-> Code, hunks |-> {}, untracked |-> {}, deleted |-> {}]
Hunk(file, start, count) == [file |-> file, start |-> start, count |-> count]

\* Nothing the diff shows, lines of both functions, the constant, the other
\* file, and a new file with a function beside lines that are gone from h.
Unseen == [Clean EXCEPT !.deleted = {New}]
MCTrees == {Unseen,
            [Clean EXCEPT !.hunks = {Hunk(Old, 3, 4)}, !.untracked = {Notes}],
            [Clean EXCEPT !.hunks = {Hunk(Old, 0, 1)}],
            [Clean EXCEPT !.hunks = {Hunk(Notes, 1, 2)}],
            [Clean EXCEPT !.code = Code \cup {Function("n", New, 1)}, !.untracked = {New},
                          !.hunks = {Hunk(Old, 6, 0)}]}

Ask(kind, pick) ==
    [kind |-> kind, pick |-> pick, id |-> 1, group |-> "none", mcp |-> FALSE,
     approved |-> FALSE, smoke |-> FALSE, generate |-> FALSE]

Asked ==
    {[Ask("run", "all") EXCEPT !.approved = TRUE],
     [Ask("run", "group") EXCEPT !.group = g],
     [Ask("run", "group") EXCEPT !.group = g, !.mcp = TRUE],
     [Ask("run", "changed") EXCEPT !.approved = TRUE],
     [Ask("gate", "all") EXCEPT !.smoke = TRUE],
     Ask("loop", "changed"),
     [Ask("loop", "changed") EXCEPT !.generate = TRUE],
     Ask("flaky", "id"),
     Ask("rerun", "all"),
     Ask("rerun", "failed")}

Beside(request, start) ==
    [asked |-> [c \in Calls |-> IF c = c1 THEN request ELSE Ask("run", "id")],
     tree  |-> start]

\* The first is asked any of these, the second to run one test. Where nothing
\* looks at the tree, one tree is enough to begin with.
OneBesideARun ==
    {Beside(q, Unseen) : q \in Asked}
    \cup {Beside(q, t) : q \in {r \in Asked : r.pick = "changed"}, t \in MCTrees}

=============================================================================
