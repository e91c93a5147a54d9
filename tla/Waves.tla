-------------------------------- MODULE Waves --------------------------------
(***************************************************************************)
(* Dependency-wave ordering, local/waves.rs: Kahn's algorithm by levels,   *)
(* over in-degrees that count EDGES. A test that lists a capability twice, *)
(* or whose capability has two producers, has that many edges, and each is *)
(* taken off again when its producer's level is emitted. One action is one *)
(* pass of topo_levels' loop.                                              *)
(***************************************************************************)
EXTENDS Suite, Sequences, FiniteSets, FiniteSetsExt

CONSTANTS
    N,              \* the number of tests
    Capabilities,   \* what tests need and produce
    Lists           \* the values of "needs" and "produces" in a stored body

ASSUME WavesAssumption ==
    /\ N \in Nat \ {0}
    /\ <<>> \in Lists /\ Lists \subseteq Seq(Capabilities)

VARIABLES
    tests,      \* the input, in its order
    indeg,      \* indeg: edges whose producer has not been emitted
    done,       \* done: what has been emitted
    levels,     \* levels: each one a set, read in input order
    phase       \* "loop", then "returned"

vars == <<tests, indeg, done, levels, phase>>

Tests == 1 .. N

Main == MainOf(tests)

\* The edges p -> c: one for each entry of c's needs and each equal entry of
\* p's produces. A test is not its own producer.
Edges(p, c) ==
    IF p = c THEN {}
    ELSE {e \in (DOMAIN tests[c].needs) \X (DOMAIN tests[p].produces) :
             tests[c].needs[e[1]] = tests[p].produces[e[2]]}

EdgesFrom(S, c) == Cardinality(UNION {{p} \X Edges(p, c) : p \in S})

Init ==
    /\ tests \in [Tests -> [needs : Lists, produces : Lists, teardown : BOOLEAN]]
    /\ indeg = [c \in Main |-> EdgesFrom(Main, c)]
    /\ done = {}
    /\ levels = <<>>
    /\ phase = "loop"

Ready == {i \in Main : i \notin done /\ indeg[i] = 0}

\* Mutant of EmitLevel: one edge released for each producer.
EmitLevelOncePerProducer ==
    /\ phase = "loop"
    /\ Ready # {}
    /\ done' = done \cup Ready
    /\ indeg' = [c \in Main |->
                   Max({0, indeg[c] - Cardinality({p \in Ready : Edges(p, c) # {}})})]
    /\ levels' = Append(levels, Ready)
    /\ UNCHANGED <<tests, phase>>

\* A pass that finds ready tests: emit them and release their consumers.
EmitLevel ==
    /\ phase = "loop"
    /\ Ready # {}
    /\ done' = done \cup Ready
    /\ indeg' = [c \in Main |-> Max({0, indeg[c] - EdgesFrom(Ready, c)})]
    /\ levels' = Append(levels, Ready)
    /\ UNCHANGED <<tests, phase>>

\* The pass that finds none leaves the loop; leftovers form a final level.
Leftover == Main \ done

\* Mutant of Return: the leftovers are forgotten.
ReturnWithoutLeftover ==
    /\ phase = "loop"
    /\ Ready = {}
    /\ phase' = "returned"
    /\ UNCHANGED <<tests, indeg, done, levels>>

Return ==
    /\ phase = "loop"
    /\ Ready = {}
    /\ levels' = IF Leftover = {} THEN levels ELSE Append(levels, Leftover)
    /\ phase' = "returned"
    /\ UNCHANGED <<tests, indeg, done>>

Next == EmitLevel \/ Return

Spec == Init /\ [][Next]_vars

-----------------------------------------------------------------------------
(* Properties *)

Emitted(k) == UNION {levels[j] : j \in 1 .. k}

\* The producers a test waits for, edges counted once.
Deps == [c \in Main |-> {p \in Main : Edges(p, c) # {}}]

\* "It never drops a test": when waves returns, every main test is in one
\* level and in no other.
NeverDropsATest ==
    phase = "returned" =>
        /\ Emitted(Len(levels)) = Main
        /\ \A j, k \in DOMAIN levels : j # k => levels[j] \cap levels[k] = {}

\* Counting edges comes to the same as asking which producers are still to
\* come: each level is the set of tests whose producers have all been emitted
\* earlier (or the leftovers), as SuiteRun takes it. A list that repeats a
\* capability neither strands a test nor frees it early.
LevelsFollowDependencies ==
    \A k \in DOMAIN levels : levels[k] = NextLevelOf(Main, Deps, Emitted(k - 1))

=============================================================================
