--------------------------- MODULE MCBuildWorker ---------------------------
(***************************************************************************)
(* TLC instances of BuildWorker.                                           *)
(***************************************************************************)
EXTENDS BuildWorker, TLC

CONSTANTS j1, j2, w1, w2, a1, b1

\* One worker with one slot, and two workers with a slot each.
OneSlot == (a1 :> w1)
OneSlotEach == (a1 :> w1) @@ (b1 :> w2)

\* Job ids differ in nothing but their identity.
JobSymmetry == Permutations(Jobs)
=============================================================================
