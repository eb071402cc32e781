----------------------- MODULE MCArchiveCoordinator -----------------------
(***************************************************************************)
(* TLC instances of ArchiveCoordinator.                                    *)
(***************************************************************************)
EXTENDS ArchiveCoordinator, TLC

CONSTANTS s1, s2, s3, s4, e1, e2

OneWriter == [s \in {s1} |-> "writer"]
TwoWriters == [s \in {s1, s2} |-> "writer"]
MixedKinds == (s1 :> "writer") @@ (s2 :> "reader") @@ (s3 :> "replacer") @@ (s4 :> "probe")

OneEntry == [s \in Sessions |-> {e1}]
AllEntries == [s \in Sessions |-> Entries]
=============================================================================
