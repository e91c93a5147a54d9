---------------------------- MODULE MCTestStore -----------------------------
(* Three calls on one stored or absent test, a history of one result. *)
EXTENDS TestStore

=============================================================================
