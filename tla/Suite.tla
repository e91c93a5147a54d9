-------------------------------- MODULE Suite --------------------------------
(***************************************************************************)
(* The tests of a suite as local/waves.rs and local/run.rs see them: a     *)
(* test stands at a position of the input order, needs and produces        *)
(* capabilities, and is either of the main phase or a teardown.            *)
(***************************************************************************)
EXTENDS Integers

\* is_teardown and the split of the input into main_idx and teardown_idx.
TeardownOf(suite) == {i \in DOMAIN suite : suite[i].teardown}

MainOf(suite) == DOMAIN suite \ TeardownOf(suite)

\* waves(), one level at a time: the tests left whose producers have all been
\* emitted; when there is none, all that is left (a cycle and what hangs off
\* it) as the final level. deps[i] is the set of producers i waits for.
ReadyLevel(main, deps, emitted) ==
    {i \in main \ emitted : deps[i] \subseteq emitted}

NextLevelOf(main, deps, emitted) ==
    LET ready == ReadyLevel(main, deps, emitted)
    IN  IF ready # {} THEN ready ELSE main \ emitted

\* i comes first, in input order, in S.
Earliest(i, S) == i \in S /\ \A j \in S : i <= j

=============================================================================
