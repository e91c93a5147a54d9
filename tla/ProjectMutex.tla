---------------------------- MODULE ProjectMutex ----------------------------
(***************************************************************************)
(* What run.rs asks of its lock, with no file in sight: "Serialize with    *)
(* any other testsprite-rs run against this project". At most one          *)
(* invocation is inside; it leaves by finishing or by dying.               *)
(***************************************************************************)
CONSTANT Procs

VARIABLE inside     \* the invocations inside a run

Init == inside = {}

Enter(p) == inside = {} /\ inside' = {p}

Leave(p) == p \in inside /\ inside' = inside \ {p}

Next == \E p \in Procs : Enter(p) \/ Leave(p)

Spec == Init /\ [][Next]_inside

=============================================================================
