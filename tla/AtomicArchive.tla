---------------------------- MODULE AtomicArchive ----------------------------
(***************************************************************************)
(* What a directory archive promises its clients: a publication changes    *)
(* all of its paths in one step or none, a session reads one state of the  *)
(* archive, and nothing is published while anybody reads.  No journal, no  *)
(* locks, and a crash is only a request or a session that goes away.       *)
(***************************************************************************)
CONSTANTS Clients, Paths, Absent, Content

VARIABLES
  contents,  \* the archive
  view,      \* per client, the archive its session reads
  request    \* per client, the changes it is about to publish

Nothing == [p \in {} |-> Absent]

\* A path of the request is replaced or removed, every other one kept.
Applied(change) ==
  [p \in Paths |-> IF p \in DOMAIN change THEN change[p] ELSE contents[p]]

Init ==
  /\ contents \in [Paths -> Content \union {Absent}]
  /\ view = [c \in Clients |-> Nothing]
  /\ request = [c \in Clients |-> Nothing]

Open(c) ==
  /\ view[c] = Nothing
  /\ request[c] = Nothing
  /\ view' = [view EXCEPT ![c] = contents]
  /\ UNCHANGED <<contents, request>>

Close(c) ==
  /\ view[c] # Nothing
  /\ view' = [view EXCEPT ![c] = Nothing]
  /\ UNCHANGED <<contents, request>>

\* A session that publishes reads again afterwards.
Request(c) ==
  /\ request[c] = Nothing
  /\ request'[c] # Nothing
  /\ DOMAIN request'[c] \subseteq Paths
  /\ \A p \in DOMAIN request'[c] : request'[c][p] \in Content \union {Absent}
  /\ request' = [request EXCEPT ![c] = request'[c]]
  /\ view' = [view EXCEPT ![c] = Nothing]
  /\ UNCHANGED contents

Publish(c) ==
  /\ request[c] # Nothing
  /\ \A d \in Clients : view[d] = Nothing
  /\ request' = [request EXCEPT ![c] = Nothing]
  /\ contents' = Applied(request[c])
  /\ UNCHANGED view

Abandon(c) ==
  /\ request[c] # Nothing
  /\ request' = [request EXCEPT ![c] = Nothing]
  /\ UNCHANGED <<contents, view>>

Next ==
  \E c \in Clients :
    Open(c) \/ Close(c) \/ Request(c) \/ Publish(c) \/ Abandon(c)

Spec == Init /\ [][Next]_<<contents, view, request>>
=============================================================================
