---------------------------- MODULE AtomicLibrary ----------------------------
(***************************************************************************)
(* What a library promises of its archives: one client at a time is at     *)
(* work, and what it asks for takes effect in one step, exactly as asked,  *)
(* while it is at work or never.  No transactions, no copies, no recovery; *)
(* a crash is only a client that goes away.                                *)
(***************************************************************************)
CONSTANTS
  Clients, Paths,
  Contents,  \* of archives: pairs, the archive comes first
  Absent

VARIABLES
  contents,  \* the archives: what is at each path
  request    \* per client, what it is about to do

Request(kind, from, to, content) ==
  [kind |-> kind, from |-> from, to |-> to, content |-> content]

\* Not at work, and at work with nothing more to change.
Out == Request("out", 0, 0, Absent)
Idle == Request("idle", 0, 0, Absent)

Alone(c) == \A d \in Clients \ {c} : request[d] = Out

\* What may be asked for: a new archive at a free path; an archive that is there
\* is removed, moved to a free path, changed, or put back.
Possible(r) ==
  \/ /\ r.kind = "add"
     /\ r.to \in Paths /\ contents[r.to] = Absent
     /\ r.content \in Contents
     /\ \A p \in Paths : contents[p] # Absent => contents[p][1] # r.content[1]
  \/ /\ r.kind \in {"remove", "move", "change", "restore"}
     /\ r.from \in Paths /\ contents[r.from] # Absent
     /\ r.kind \in {"remove", "move"} => r.content = contents[r.from]
     /\ r.kind = "move" => r.to \in Paths /\ contents[r.to] = Absent
     /\ r.kind = "restore" => /\ r.content \in Contents
                              /\ r.content[1] = contents[r.from][1]

\* What comes of it.
Done(r) ==
  \/ r.kind = "add" /\ contents' = [contents EXCEPT ![r.to] = r.content]
  \/ r.kind = "remove" /\ contents' = [contents EXCEPT ![r.from] = Absent]
  \/ /\ r.kind = "move"
     /\ contents' = [contents EXCEPT ![r.from] = Absent, ![r.to] = r.content]
  \/ /\ r.kind = "change"
     /\ \E x \in Contents :
          /\ x[1] = contents[r.from][1]
          /\ contents' = [contents EXCEPT ![r.from] = x]
  \/ r.kind = "restore" /\ contents' = [contents EXCEPT ![r.from] = r.content]

Init ==
  /\ contents \in [Paths -> Contents \cup {Absent}]
  /\ request = [c \in Clients |-> Out]

Start(c) ==
  /\ Alone(c) /\ request[c] = Out
  /\ request' = [request EXCEPT ![c] = Idle]
  /\ UNCHANGED contents

Ask(c) ==
  /\ Alone(c) /\ request[c] \in {Out, Idle}
  /\ Possible(request'[c])
  /\ request' = [request EXCEPT ![c] = request'[c]]
  /\ UNCHANGED contents

Commit(c) ==
  /\ request[c] \notin {Out, Idle}
  /\ Done(request[c])
  /\ request' = [request EXCEPT ![c] = Idle]

Abandon(c) ==
  /\ request[c] # Out
  /\ request'[c] \in {Out, Idle}
  /\ request' = [request EXCEPT ![c] = request'[c]]
  /\ UNCHANGED contents

\* While nobody is at work other programs rename archives and change them.
Others ==
  /\ \A c \in Clients : request[c] = Out
  /\ \E p \in Paths :
       /\ contents[p] # Absent
       /\ \/ \E q \in Paths :
               /\ contents[q] = Absent
               /\ contents' = [contents EXCEPT ![q] = contents[p], ![p] = Absent]
          \/ \E x \in Contents :
               /\ x[1] = contents[p][1]
               /\ contents' = [contents EXCEPT ![p] = x]
  /\ UNCHANGED request

Next == Others \/ \E c \in Clients : Start(c) \/ Ask(c) \/ Commit(c) \/ Abandon(c)

Spec == Init /\ [][Next]_<<contents, request>>
=============================================================================
