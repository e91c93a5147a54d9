---------------------------- MODULE MCLocalBackend ----------------------------
(***************************************************************************)
(* TLC instances of LocalBackend: a frontend project whose summary lists   *)
(* two operations of one path, of which one run covers one; a backend      *)
(* project with a loose PRD whose endpoints must be recovered, its two     *)
(* entries being one operation; and one whose PRD names no endpoint but    *)
(* has credentials of its own for the same role.                           *)
(***************************************************************************)
EXTENDS LocalBackend

CONSTANTS listed, loose, empty

Op(m, p) == [method |-> m, path |-> p, says |-> {}, closed |-> FALSE]

Nothing == [form |-> "summary", ops |-> <<>>, nested |-> <<>>, guarded |-> <<>>, roles |-> {"admin"}]

MCDoc ==
    [c \in Clients |->
        CASE c = listed -> [Nothing EXCEPT !.ops = <<Op("GET", "/a"), Op("POST", "/a")>>]
          [] c = loose  -> [Nothing EXCEPT !.nested = <<Op("", "/b"), Op("GET", "/b")>>]
          [] c = empty  -> Nothing]

MCAsked == {{}, {<<"TC", 2>>}}

=============================================================================
