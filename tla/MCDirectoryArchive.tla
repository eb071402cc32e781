------------------------ MODULE MCDirectoryArchive ------------------------
(***************************************************************************)
(* TLC instances of DirectoryArchive.                                      *)
(***************************************************************************)
EXTENDS DirectoryArchive

\* Sessions on a directory archive always ask for the write lock.
Writers == [c \in Clients |-> "write"]
=============================================================================
