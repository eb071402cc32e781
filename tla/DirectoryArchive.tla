-------------------------- MODULE DirectoryArchive --------------------------
(***************************************************************************)
(* Publication in a directory archive                                      *)
(* (packages/core/src/storage/wikg/archive/directory-backend.ts) by        *)
(* clients that exclude each other with the state lock of scope            *)
(* "wikg-directory": an undo journal `.wikg-transaction` keeps the files   *)
(* from before a publication until it is committed, and whoever comes next *)
(* recovers from it.                                                       *)
(*                                                                         *)
(* A file write (temporary file, then rename) is one action; so is the     *)
(* copy of one file.  A client is between actions wherever a crash can     *)
(* find it.                                                                *)
(* Definitions named Mutant... are faults the properties must notice.      *)
(***************************************************************************)
EXTENDS StateLock

CONSTANTS
  Paths,         \* entry paths of the archive
  Absent,        \* no file
  Empty,         \* a file just created, before its content is renamed into it
  MaxVersion,    \* bound: publications
  Replacers,     \* clients that replace the archive (library membership)
  WriteFailers   \* clients whose file operations may fail

\* Sessions on a directory and replacements always ask for the write lock.
ASSUME DirectoryAssumption ==
  /\ \A c \in Clients : Mode[c] = "write"
  /\ Paths # {}
  /\ MaxVersion \in Nat
  /\ Absent \notin Nat /\ Empty \notin Nat /\ Absent # Empty

VARIABLES
  live,     \* the archive's files: the publication that wrote each
  journal,  \* directory JOURNAL: copies in before/, pending.json, committed
  version,  \* publications so far
  change,   \* per client, the changes of its publication
  todo,     \* per client, the paths its current loop has still to visit
  good,     \* auxiliary: the files as of the last committed publication
  torn,     \* auxiliary: what pending.json stands without: its content until
            \* it is written, a copy or the marker the removal took before it
  cut       \* auxiliary: what it stood without when its writer or remover was
            \* interrupted

files == <<live, journal, version>>
history == <<good, torn, cut>>
vars == <<lock, files, change, todo, history>>

\* What a path can hold: nothing, or a file of version 0 (before any
\* publication here) or later.
Contents == 0 .. MaxVersion \cup {Absent, Empty}

\* pending.json lists the paths and whether they existed, once written (blank:
\* it is there and empty).
NotPending == [p \in {} |-> TRUE]
NoJournal == [exists |-> FALSE, before |-> [p \in Paths |-> Absent],
              blank |-> FALSE, pending |-> NotPending, committed |-> FALSE]

\* The client's process dies, or its operation fails: the journal stays as it is.
Interrupted == cut' = cut \cup torn /\ UNCHANGED <<good, torn>>

NoChange == [p \in {} |-> Absent]

LockUnchanged == UNCHANGED <<row, seen, owners>>

-----------------------------------------------------------------------------
(* recoverDirectoryArchive *)

\* Where a recovery goes on: a session's own, the one commitDirectoryArchive
\* starts with, and the one after its failure.
Recovering == {"recover", "precommit", "undo"}
Rollback == [recover |-> "rollback", precommit |-> "prerollback",
             undo |-> "undorollback"]
Resumes(label) ==
  CASE label \in {"recover", "rollback"}      -> "session"
    [] label \in {"precommit", "prerollback"} -> "begin"
    [] label \in {"undo", "undorollback"}     -> "release"

\* A session on the directory (host-session.ts, schema-upgrade) recovers as
\* soon as it has the lock.
StartSession(c) ==
  /\ pc[c] = "held"
  /\ c \notin Replacers
  /\ Goto(c, "recover")
  /\ UNCHANGED <<files, change, todo, history>> /\ LockUnchanged

\* Rollback is due for a journal with pending.json and without the marker.
\* (The mutant forgets the marker.)
MutantMustRollBack == journal.pending # NotPending

MustRollBack == journal.pending # NotPending /\ ~journal.committed

\* There is a journal: its pending.json, unless committed or missing, is parsed.
OpenJournal(c) ==
  /\ pc[c] \in Recovering
  /\ journal.exists
  /\ ~journal.blank
  /\ todo' = [todo EXCEPT ![c] = IF MustRollBack THEN DOMAIN journal.pending
                                                 ELSE {}]
  /\ Goto(c, Rollback[pc[c]])
  /\ UNCHANGED <<files, change, history>> /\ LockUnchanged

\* One path of pending.json: the file comes back, or goes.
RestoreFile(c, p) ==
  /\ pc[c] \in {Rollback[l] : l \in Recovering}
  /\ p \in todo[c]
  /\ journal.pending[p] => journal.before[p] # Absent
  /\ live' = [live EXCEPT ![p] = IF journal.pending[p] THEN journal.before[p]
                                                       ELSE Absent]
  /\ todo' = [todo EXCEPT ![c] = @ \ {p}]
  /\ UNCHANGED <<pc, journal, version, change, history>> /\ LockUnchanged

\* The journal is removed, or there is none.
FinishRecovery(c) ==
  /\ \/ pc[c] \in Recovering /\ ~journal.exists
     \/ pc[c] \in {Rollback[l] : l \in Recovering} /\ todo[c] = {}
  /\ journal' = NoJournal
  /\ torn' = {}
  /\ Goto(c, Resumes(pc[c]))
  /\ UNCHANGED <<live, version, change, todo, good, cut>> /\ LockUnchanged

\* Recovery throws: a file operation fails, an empty pending.json does not
\* parse, or a rollback file is missing.
FailRecovery(c) ==
  /\ \/ pc[c] \in Recovering \cup {Rollback[l] : l \in Recovering}
        /\ c \in WriteFailers
     \/ pc[c] \in Recovering /\ journal.blank
     \/ /\ pc[c] \in {Rollback[l] : l \in Recovering}
        /\ \E p \in todo[c] : journal.pending[p] /\ journal.before[p] = Absent
  /\ todo' = [todo EXCEPT ![c] = {}]
  /\ change' = [change EXCEPT ![c] = NoChange]
  /\ Interrupted
  /\ Goto(c, "release")
  /\ UNCHANGED files /\ LockUnchanged

-----------------------------------------------------------------------------
(* commitDirectoryArchive *)

\* The changes of a publication: new content, or removal.
Changes(paths) == [paths -> {version + 1, Absent}]

\* The session's settlement publishes some paths (flusher.ts).
CallCommit(c) ==
  /\ pc[c] = "session"
  /\ version < MaxVersion
  /\ \E paths \in (SUBSET Paths) \ {{}} : \E new \in Changes(paths) :
       change' = [change EXCEPT ![c] = new]
  /\ Goto(c, "precommit")
  /\ UNCHANGED <<files, todo, history>> /\ LockUnchanged

\* replaceManagedDirectoryArchive lists the present files before anything
\* recovers the directory, and removes those that are not in the new archive.
StartReplacement(c) ==
  /\ pc[c] = "held"
  /\ c \in Replacers
  /\ version < MaxVersion
  /\ \E staged \in (SUBSET Paths) \ {{}} :
       LET listed == {p \in Paths : live[p] # Absent}
       IN  change' = [change EXCEPT ![c] =
             [p \in staged \cup listed |-> IF p \in staged THEN version + 1
                                                           ELSE Absent]]
  /\ Goto(c, "precommit")
  /\ UNCHANGED <<files, todo, history>> /\ LockUnchanged

\* The replacement fails before that: the new archive does not unpack or read.
FailStaging(c) ==
  /\ c \in Replacers
  /\ Finish(c)
  /\ UNCHANGED <<files, change, todo, history>>

CreateJournal(c) ==
  /\ pc[c] = "begin"
  /\ ~journal.exists
  /\ journal' = [NoJournal EXCEPT !.exists = TRUE]
  /\ version' = version + 1
  /\ todo' = [todo EXCEPT ![c] = DOMAIN change[c]]
  /\ Goto(c, "backup")
  /\ UNCHANGED <<live, change, history>> /\ LockUnchanged

\* Copies a file that exists into before/.
BackUp(c, p) ==
  /\ pc[c] = "backup"
  /\ p \in todo[c]
  /\ journal' = [journal EXCEPT !.before[p] = live[p]]
  /\ todo' = [todo EXCEPT ![c] = @ \ {p}]
  /\ UNCHANGED <<pc, live, version, change, history>> /\ LockUnchanged

\* (The mutant does not wait for the copies.)
MutantCreatePending(c) ==
  /\ pc[c] = "backup"
  /\ journal' = [journal EXCEPT !.blank = TRUE]
  /\ torn' = {"content"}
  /\ Goto(c, "pending")
  /\ UNCHANGED <<live, version, change, todo, good, cut>> /\ LockUnchanged

\* createFile: pending.json is there, and empty.
CreatePending(c) ==
  /\ pc[c] = "backup"
  /\ todo[c] = {}
  /\ journal' = [journal EXCEPT !.blank = TRUE]
  /\ torn' = {"content"}
  /\ Goto(c, "pending")
  /\ UNCHANGED <<live, version, change, todo, good, cut>> /\ LockUnchanged

\* (The mutant records a missing file as such and not as one that did not exist.)
MutantWritePending(c) ==
  /\ pc[c] = "pending"
  /\ journal' = [journal EXCEPT !.blank = FALSE, !.pending =
        [p \in DOMAIN change[c] |-> IF live[p] = Absent THEN Absent ELSE TRUE]]
  /\ todo' = [todo EXCEPT ![c] = DOMAIN change[c]]
  /\ torn' = {}
  /\ Goto(c, "publish")
  /\ UNCHANGED <<live, version, change, good, cut>> /\ LockUnchanged

\* Its content, renamed into it, makes the journal complete.
WritePending(c) ==
  /\ pc[c] = "pending"
  /\ journal' = [journal EXCEPT !.blank = FALSE, !.pending =
        [p \in DOMAIN change[c] |-> live[p] # Absent]]
  /\ todo' = [todo EXCEPT ![c] = DOMAIN change[c]]
  /\ torn' = {}
  /\ Goto(c, "publish")
  /\ UNCHANGED <<live, version, change, good, cut>> /\ LockUnchanged

\* ensureRelativeFile creates a file that is new.
CreateFile(c, p) ==
  /\ pc[c] = "publish"
  /\ p \in todo[c]
  /\ live[p] = Absent
  /\ change[c][p] # Absent
  /\ live' = [live EXCEPT ![p] = Empty]
  /\ UNCHANGED <<pc, journal, version, change, todo, history>> /\ LockUnchanged

\* The content is renamed into place, or the file is removed.
PublishFile(c, p) ==
  /\ pc[c] = "publish"
  /\ p \in todo[c]
  /\ live[p] = Absent => change[c][p] = Absent
  /\ live' = [live EXCEPT ![p] = change[c][p]]
  /\ todo' = [todo EXCEPT ![c] = @ \ {p}]
  /\ UNCHANGED <<pc, journal, version, change, history>> /\ LockUnchanged

\* (The mutant does not wait for the last file.)
MutantCreateCommitted(c) ==
  /\ pc[c] = "publish"
  /\ journal' = [journal EXCEPT !.committed = TRUE]
  /\ good' = live
  /\ Goto(c, "committed")
  /\ UNCHANGED <<live, version, change, todo, torn, cut>> /\ LockUnchanged

\* The file `committed`, even still empty, ends the transaction.
CreateCommitted(c) ==
  /\ pc[c] = "publish"
  /\ todo[c] = {}
  /\ journal' = [journal EXCEPT !.committed = TRUE]
  /\ good' = live
  /\ Goto(c, "committed")
  /\ UNCHANGED <<live, version, change, todo, torn, cut>> /\ LockUnchanged

\* Any step of the publication fails, also the write into `committed`: the
\* error leaves commitDirectoryArchive after a recovery.
FailCommit(c) ==
  /\ pc[c] \in {"backup", "pending", "publish", "committed"}
  /\ c \in WriteFailers
  /\ todo' = [todo EXCEPT ![c] = {}]
  /\ change' = [change EXCEPT ![c] = NoChange]
  /\ Interrupted
  /\ Goto(c, "undo")
  /\ UNCHANGED files /\ LockUnchanged

\* root.remove(JOURNAL, recursive); its failure is swallowed.
RemoveJournal(c) ==
  /\ pc[c] \in {"committed", "remove"}
  /\ \/ journal' = NoJournal /\ torn' = {} /\ UNCHANGED <<good, cut>>
     \/ c \in WriteFailers /\ Interrupted /\ UNCHANGED journal
  /\ change' = [change EXCEPT ![c] = NoChange]
  /\ Goto(c, IF c \in Replacers THEN "release" ELSE "session")
  /\ UNCHANGED <<live, version, todo>> /\ LockUnchanged

\* A client whose next call removes the journal, or that is in that call.
Removing(c) ==
  \/ pc[c] \in {"committed", "remove"}
  \/ pc[c] \in {Rollback[l] : l \in Recovering} /\ todo[c] = {}

\* Recursive removal deletes the journal's files one by one, in an order of
\* the host's: a crash or an error leaves what is left.
RemovePart(c) ==
  /\ Removing(c)
  /\ \/ /\ journal.pending # NotPending
        /\ journal' = [journal EXCEPT !.pending = NotPending]
        /\ torn' = {}
     \/ /\ journal.committed
        /\ journal' = [journal EXCEPT !.committed = FALSE]
        /\ torn' = IF MustRollBack' THEN torn \cup {"marker"} ELSE torn
     \/ \E p \in Paths :
          /\ journal.before[p] # Absent
          /\ journal' = [journal EXCEPT !.before[p] = Absent]
          /\ torn' = IF MustRollBack THEN torn \cup {"copy"} ELSE torn
  /\ pc' = [pc EXCEPT ![c] = IF @ = "committed" THEN "remove" ELSE @]
  /\ UNCHANGED <<live, version, change, todo, good, cut>> /\ LockUnchanged

\* The operation of a session ends.
FinishSession(c) ==
  /\ pc[c] = "session"
  /\ Goto(c, "release")
  /\ UNCHANGED <<files, change, todo, history>> /\ LockUnchanged

Crash(c) ==
  /\ CrashClient(c)
  /\ change' = [change EXCEPT ![c] = NoChange]
  /\ todo' = [todo EXCEPT ![c] = {}]
  /\ IF Holding(c) THEN Interrupted ELSE UNCHANGED history
  /\ UNCHANGED files

-----------------------------------------------------------------------------
Init ==
  /\ LockInit
  /\ live \in [Paths -> {0, Absent}]
  /\ journal = NoJournal
  /\ version = 0
  /\ change = [c \in Clients |-> NoChange]
  /\ todo = [c \in Clients |-> {}]
  /\ good = live
  /\ torn = {}
  /\ cut = {}

Recover(c) ==
  \/ StartSession(c)
  \/ OpenJournal(c)
  \/ \E p \in Paths : RestoreFile(c, p)
  \/ FinishRecovery(c)
  \/ FailRecovery(c)

Commit(c) ==
  \/ CreateJournal(c)
  \/ \E p \in Paths : BackUp(c, p) \/ CreateFile(c, p) \/ PublishFile(c, p)
  \/ CreatePending(c) \/ WritePending(c)
  \/ CreateCommitted(c)
  \/ FailCommit(c)
  \/ RemoveJournal(c)

Next ==
  \/ LockStep /\ UNCHANGED <<files, change, todo, history>>
  \/ \E c \in Clients :
       \/ Recover(c)
       \/ Commit(c)
       \/ RemovePart(c)
       \/ CallCommit(c)
       \/ StartReplacement(c)
       \/ FailStaging(c)
       \/ FinishSession(c)
       \/ Crash(c)
  \/ Spent /\ UNCHANGED vars

Spec == Init /\ [][Next]_vars

-----------------------------------------------------------------------------
\* Every variable keeps its type.
TypeOK ==
  /\ LockTypeOK
  /\ pc \in [Clients -> {"idle", "wait", "held", "recover", "rollback",
        "session", "precommit", "prerollback", "begin", "backup", "pending",
        "publish", "committed", "remove", "undo", "undorollback", "release",
        "dead"}]
  /\ live \in [Paths -> Contents]
  /\ journal.exists \in BOOLEAN
  /\ journal.before \in [Paths -> Contents]
  /\ journal.blank \in BOOLEAN /\ journal.committed \in BOOLEAN
  /\ DOMAIN journal.pending \subseteq Paths
  /\ \A p \in DOMAIN journal.pending : journal.pending[p] \in BOOLEAN
  /\ version \in 0 .. MaxVersion
  /\ \A c \in Clients : /\ DOMAIN change[c] \subseteq Paths
                         /\ \A p \in DOMAIN change[c] :
                              change[c][p] \in Contents
  /\ todo \in [Clients -> SUBSET Paths]
  /\ good \in [Paths -> Contents]
  /\ {torn, cut} \subseteq SUBSET {"content", "copy", "marker"}

\* Once committed, recovery only cleans the journal; it never rolls back
\* (directory-backend.ts): whatever crashes and fails, a session reads, and
\* builds its own publication on, the last committed publication.
CommittedStays ==
  \A c \in Clients : pc[c] = "session" => live = good

\* The code keeps that promise unless the recursive removal of a committed
\* journal was interrupted between the marker and pending.json.  All or nothing:
\* whatever else crashed or failed, and in whatever order the host removed the
\* rest, no session sees part of a publication or one that was not committed.
SessionSeesCommitted == "marker" \notin cut => CommittedStays

\* At any moment a crash loses nothing: a file that differs from the last
\* committed publication has its undo record ("No live data is modified until
\* the complete undo journal is durable", directory-backend.ts).
Undoable ==
  "marker" \notin cut =>
    \A p \in Paths : live[p] # good[p] =>
      /\ MustRollBack
      /\ p \in DOMAIN journal.pending
      /\ IF journal.pending[p] THEN journal.before[p] = good[p]
                               ELSE good[p] = Absent

\* A live client is between creating and writing pending.json, or in a removal.
Busy == \E c \in Clients : pc[c] = "pending" \/ Removing(c)

\* Recovery locks nobody out for good: unless a client was interrupted between
\* creating and writing pending.json, or in a removal that had taken a copy or
\* the marker before it, pending.json parses and has the copies it asks for.
Recoverable ==
  cut = {} /\ ~Busy =>
    /\ ~journal.blank
    /\ MustRollBack =>
         \A p \in DOMAIN journal.pending :
           journal.pending[p] => journal.before[p] # Absent

\* The archive as whoever comes next will find it: with a complete journal that
\* is not committed, the files before the publication.
Recovered ==
  [p \in Paths |->
     IF torn = {} /\ MustRollBack /\ p \in DOMAIN journal.pending
     THEN IF journal.pending[p] THEN journal.before[p] ELSE Absent
     ELSE live[p]]

\* Where a client has called a publication that is not committed.
Publishing == {"precommit", "prerollback", "begin", "backup", "pending", "publish"}

\* What each session reads, and what each client is about to publish.
View == [c \in Clients |-> IF pc[c] = "session" THEN live ELSE NoChange]
Requested == [c \in Clients |-> IF pc[c] \in Publishing THEN change[c]
                                                        ELSE NoChange]

Atomic == INSTANCE AtomicArchive WITH
  Content <- 0 .. MaxVersion,
  contents <- Recovered,
  view <- View,
  request <- Requested

\* File by file, with crashes and failures anywhere, the archive does what
\* AtomicArchive says: publication is one step, the creation of `committed`, and
\* the files a session reads are those of one state; until a removal of a
\* committed journal is interrupted between the marker and pending.json.
ImplementsAtomic ==
  /\ Atomic!Init
  /\ [][Atomic!Next \/ "marker" \in cut']_<<Recovered, View, Requested>>
=============================================================================
