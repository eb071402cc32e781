---------------------------- MODULE MCStateLock ----------------------------
(***************************************************************************)
(* A TLC instance of StateLock.                                            *)
(***************************************************************************)
EXTENDS StateLock, TLC

CONSTANTS c1, c2, c3

\* Two readers and a writer of one resource.
Modes == (c1 :> "read") @@ (c2 :> "read") @@ (c3 :> "write")
=============================================================================
