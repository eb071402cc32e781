------------------------- MODULE MCLibraryMembership -------------------------
(***************************************************************************)
(* A TLC instance of LibraryMembership: somebody who adds, moves and        *)
(* removes archives, builds the index and may crash, somebody who scans and *)
(* writes with failures, and a reader.                                      *)
(***************************************************************************)
EXTENDS LibraryMembership, TLC

CONSTANTS w1, w2, r1

Modes == (w1 :> "write") @@ (w2 :> "write") @@ (r1 :> "read")

Operations ==
  (w1 :> {"add", "move", "remove", "rebuild", "clean"}) @@
  (w2 :> {"scan", "write", "replace"}) @@
  (r1 :> {"query"})
=============================================================================
