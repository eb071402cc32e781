----------------------- MODULE DirectoryArchiveProofs -----------------------
(***************************************************************************)
(* Publication in a directory archive is all or nothing, for any clients,  *)
(* paths, crashes, failing file operations and orders of removal:          *)
(* DirectoryArchive implements AtomicArchive, until the removal of a       *)
(* committed journal is interrupted between the marker and pending.json.   *)
(* One thing is assumed: no holder misses its heartbeats (or the lock is   *)
(* lost).                                                                  *)
(***************************************************************************)
EXTENDS DirectoryArchive, StateLockProofs

Assumed == Stallers = {}

Labels == {"idle", "wait", "held", "recover", "rollback", "session", "precommit",
           "prerollback", "begin", "backup", "pending", "publish", "committed",
           "remove", "undo", "undorollback", "release", "dead"}
RollingBack == {"rollback", "prerollback", "undorollback"}

\* Functions on some of the paths.
OnPaths(S) == UNION {[D -> S] : D \in SUBSET Paths}

Journals == [exists : BOOLEAN, before : [Paths -> Contents], blank : BOOLEAN,
             pending : OnPaths(BOOLEAN), committed : BOOLEAN]
Parts == {"content", "copy", "marker"}

Types ==
  /\ LockTypeOK
  /\ pc \in [Clients -> Labels]
  /\ live \in [Paths -> Contents]
  /\ journal \in Journals
  /\ version \in 0 .. MaxVersion
  /\ change \in [Clients -> OnPaths(Contents \ {Empty})]
  /\ todo \in [Clients -> SUBSET Paths]
  /\ good \in [Paths -> Contents]
  /\ torn \in SUBSET Parts
  /\ cut \in SUBSET Parts

\* What each client is about to publish, whatever was interrupted.
Task(c) ==
  /\ pc[c] = "publish" => todo[c] \subseteq DOMAIN change[c]
  /\ pc[c] \in Publishing => change[c] # NoChange
  /\ pc[c] \in {"precommit", "prerollback", "begin"} => version < MaxVersion

Base == Types /\ LockInv /\ HoldersFresh /\ \A c \in Clients : Task(c)

\* No removal of a committed journal was interrupted between the marker and
\* pending.json.
Safe == "marker" \notin cut

\* The undo record of every path in pending.json, unless the removal took it.
Recorded ==
  \A p \in DOMAIN journal.pending :
    IF journal.pending[p]
    THEN /\ good[p] # Absent
         /\ journal.before[p] = good[p] \/ ("copy" \in torn /\ journal.before[p] = Absent)
    ELSE good[p] = Absent

\* The archive can be recovered to the last publication; only the client that
\* removes a committed journal finds it without its marker.
Core ==
  /\ Recovered = good
  /\ MustRollBack /\ "marker" \notin torn => Recorded
  /\ journal.pending # NotPending => journal.exists
  /\ torn # {} => journal.exists
  /\ journal.blank => "content" \in torn /\ journal.pending = NotPending
  /\ "marker" \in torn => \E c \in Clients : Removing(c)

\* What each client has done so far of its recovery or its publication.
Phase(c) ==
  /\ pc[c] \in RollingBack =>
       /\ todo[c] # {} => MustRollBack
       /\ MustRollBack =>
            /\ todo[c] \subseteq DOMAIN journal.pending
            /\ \A p \in DOMAIN journal.pending \ todo[c] : live[p] = good[p]
  /\ pc[c] \in {"session", "begin", "backup", "committed"} => ~MustRollBack /\ torn = {}
  /\ pc[c] = "remove" => (~MustRollBack /\ torn = {}) \/ "marker" \in torn
  /\ pc[c] \in {"backup", "pending"} =>
       /\ journal.exists
       /\ journal.pending = NotPending
       /\ ~journal.committed
       /\ \A p \in DOMAIN change[c] \ todo[c] : journal.before[p] = live[p]
  /\ pc[c] = "pending" => todo[c] = {} /\ torn = {"content"}
  /\ pc[c] = "publish" =>
       /\ torn = {}
       /\ ~journal.committed
       /\ DOMAIN journal.pending = DOMAIN change[c]
       /\ \A p \in DOMAIN change[c] \ todo[c] : live[p] = change[c][p]

Full == Core /\ \A c \in Clients : Phase(c)

DirInv == Base /\ (Safe => Full)

-----------------------------------------------------------------------------
LEMMA RollbackLabels == {Rollback[l] : l \in Recovering} = RollingBack
BY DEF Rollback, Recovering, RollingBack

LEMMA RemovingWhere ==
  ASSUME NEW c \in Clients
  PROVE  Removing(c) <=> \/ pc[c] \in {"committed", "remove"}
                         \/ pc[c] \in RollingBack /\ todo[c] = {}
BY RollbackLabels DEF Removing

\* There is one holder at a time.
LEMMA Alone ==
  ASSUME Base, NEW c \in Clients, NEW d \in Clients, Holding(c), Holding(d)
  PROVE  c = d
BY DirectoryAssumption
   DEF Base, HoldersFresh, LockInv, RowsCompatible, LocksConflict

\* Who holds the lock and removes nothing finds no committed journal without its
\* marker.
LEMMA MarkerThere ==
  ASSUME Base, Full, NEW c \in Clients, Holding(c), ~Removing(c)
  PROVE  "marker" \notin torn
<1>1. \A d \in Clients : Removing(d) => Holding(d)
  BY RemovingWhere DEF RollingBack, Holding
<1> QED
  BY <1>1, Alone DEF Full, Core

\* Without a rollback to do, or with a torn journal, the files are those of the
\* last publication.
LEMMA Settled ==
  ASSUME Base, Full, ~MustRollBack \/ torn # {} PROVE live = good
BY DEF Base, Types, Full, Core, Recovered

\* A client that has not begun has nothing to keep.
LEMMA PhaseOfOthers ==
  ASSUME NEW d \in Clients, ~Holding(d) PROVE Phase(d) /\ Task(d)
BY DEF Phase, Task, Holding, RollingBack, Publishing

\* A holder's step leaves the others where they are: outside.
LEMMA HolderStep ==
  ASSUME DirInv, NEW c \in Clients, Holding(c), NEW l \in Labels,
         pc' = [pc EXCEPT ![c] = l], LockUnchanged,
         Types', Task(c)', cut \subseteq cut',
         Full /\ Safe' => Core' /\ Phase(c)'
  PROVE  DirInv'
<1>1. row' = row
  BY DEF LockUnchanged
<1>2. LockInv'
  BY <1>1 DEF DirInv, Base, LockInv, RowTypes, RowsCompatible
<1>3. \A d \in Clients \ {c} : pc'[d] = pc[d]
  BY DEF DirInv, Base, Types
<1>4. \A d \in Clients \ {c} : ~Holding(d)'
  BY <1>3, Alone DEF Holding, DirInv
<1>5. HoldersFresh'
  BY <1>1, <1>4 DEF DirInv, Base, HoldersFresh
<1>6. \A d \in Clients \ {c} : Phase(d)' /\ Task(d)'
  BY <1>4 DEF Phase, Task, Holding, RollingBack, Publishing
<1>7. Safe' => Safe
  BY DEF Safe
<1> QED
  BY <1>2, <1>5, <1>6, <1>7 DEF DirInv, Base, Full

\* The steps of the lock change no file and begin no phase.
LEMMA LockPart ==
  ASSUME DirInv, Assumed, LockStep, UNCHANGED <<files, change, todo, history>>
  PROVE  DirInv'
<1>1. LockInv'
  BY LockStepPreserves DEF DirInv, Base, LockNext
<1>2. LockKept(Labels)
  BY LockStepKeeps DEF DirInv, Base, Types, Assumed, Labels
<1>3. Types'
  BY <1>2 DEF DirInv, Base, Types, LockKept, files, history
<1>4. \A c \in Clients : Task(c)'
  BY <1>2 DEF DirInv, Base, LockKept, Task, Publishing, files, history
<1>5. ASSUME Full PROVE Full'
  <2>1. UNCHANGED <<Recovered, MustRollBack, Recorded>>
    BY DEF Recovered, MustRollBack, Recorded, files, history
  <2>2. \A c \in Clients : Removing(c) => Removing(c)'
    <3> SUFFICES ASSUME NEW c \in Clients, Removing(c) PROVE Removing(c)'
      OBVIOUS
    <3>1. pc[c] \in {"committed", "remove"} \union RollingBack
      BY RemovingWhere
    <3>2. pc'[c] = pc[c]
      BY <1>2, <3>1 DEF LockKept, RollingBack, Holding
    <3> QED
      BY <3>2 DEF Removing
  <2>3. Core'
    BY <1>5, <2>1, <2>2 DEF Full, Core, files, history
  <2>4. \A c \in Clients : Phase(c)'
    BY <1>2, <1>5 DEF Full, LockKept, Phase, RollingBack, MustRollBack, files, history
  <2> QED
    BY <2>3, <2>4 DEF Full
<1> QED
  BY <1>1, <1>2, <1>3, <1>4, <1>5 DEF DirInv, Base, LockKept, Safe, history

-----------------------------------------------------------------------------
(* Recovery *)

LEMMA EmptyOnPaths ==
  ASSUME NEW S PROVE NoChange \in OnPaths(S) /\ NotPending \in OnPaths(S)
BY DEF NoChange, NotPending, OnPaths

LEMMA EmptyDomains == DOMAIN NoChange = {} /\ DOMAIN NotPending = {}
BY DEF NoChange, NotPending

\* What a client may be about to publish.
LEMMA NextContents ==
  ASSUME Base, version < MaxVersion
  PROVE  {version + 1, Absent} \subseteq Contents \ {Empty}
<1>1. version + 1 \in 0 .. MaxVersion
  BY DirectoryAssumption DEF Base, Types
<1>2. version + 1 # Empty /\ Absent # Empty
  BY <1>1, DirectoryAssumption
<1> QED
  BY <1>1, <1>2 DEF Contents

LEMMA NoJournalType ==
  NoJournal \in Journals /\ [NoJournal EXCEPT !.exists = TRUE] \in Journals
<1>1. [p \in Paths |-> Absent] \in [Paths -> Contents]
  BY DEF Contents
<1> QED
  BY <1>1, EmptyOnPaths DEF NoJournal, Journals

\* A rollback that has visited every path has brought the files back.
LEMMA RolledBack ==
  ASSUME Base, Full, NEW c \in Clients, pc[c] \in RollingBack, todo[c] = {}
  PROVE  live = good
<1>1. CASE ~MustRollBack \/ torn # {}
  BY <1>1, Settled
<1>2. CASE MustRollBack /\ torn = {}
  <2>1. \A p \in DOMAIN journal.pending : live[p] = good[p]
    BY <1>2 DEF Full, Phase
  <2>2. \A p \in Paths \ DOMAIN journal.pending : live[p] = good[p]
    BY DEF Full, Core, Recovered
  <2> QED
    BY <2>1, <2>2 DEF Base, Types
<1> QED
  BY <1>1, <1>2

\* Who removes the journal has the files of the last publication before it.
LEMMA RemovingSettled ==
  ASSUME Base, Full, NEW c \in Clients, Removing(c) PROVE live = good
BY RemovingWhere, RolledBack, Settled DEF Full, Phase

\* Files that are those of the last publication, and a journal that asks for
\* nothing.
LEMMA CoreWithoutRollback ==
  ASSUME ~MustRollBack', live' = good', good' \in [Paths -> Contents],
         journal'.pending # NotPending => journal'.exists,
         ~journal'.blank, torn' = {}
  PROVE  Core'
BY DEF Core, Recovered

\* Steps that leave the files and the journal alone, of a client that removes
\* nothing afterwards or is interrupted.
LEMMA CoreUnchanged ==
  ASSUME Full, UNCHANGED <<live, journal, good, torn>>, "marker" \notin torn
  PROVE  Core'
BY DEF Full, Core, Recovered, Recorded, MustRollBack

LEMMA InterruptedAtCore ==
  ASSUME Full, UNCHANGED <<live, journal>>, Interrupted, Safe'
  PROVE  Core' /\ "marker" \notin torn
<1>1. "marker" \notin torn
  BY DEF Interrupted, Safe
<1> QED
  BY <1>1, CoreUnchanged DEF Interrupted

LEMMA StartSessionKeeps ==
  ASSUME DirInv, NEW c \in Clients, StartSession(c) PROVE DirInv'
<1>1. Holding(c) /\ pc' = [pc EXCEPT ![c] = "recover"] /\ ~Removing(c)
  BY RemovingWhere DEF StartSession, Holding, Goto, RollingBack
<1>2. UNCHANGED <<live, journal, version, change, todo, good, torn, cut>>
  BY DEF StartSession, files, history
<1>3. Types' /\ Task(c)'
  BY <1>1, <1>2 DEF DirInv, Base, Types, StartSession, Labels, LockUnchanged, LockTypeOK,
                    Task, Publishing
<1>4. ASSUME Full PROVE Core' /\ Phase(c)'
  <2>1. Core'
    BY <1>1, <1>2, <1>4, MarkerThere, CoreUnchanged DEF DirInv
  <2>2. pc'[c] = "recover"
    BY <1>1 DEF DirInv, Base, Types
  <2> QED
    BY <2>1, <2>2 DEF Phase, RollingBack
<1> QED
  BY <1>1, <1>2, <1>3, <1>4, HolderStep DEF StartSession, Labels

LEMMA OpenJournalKeeps ==
  ASSUME DirInv, NEW c \in Clients, OpenJournal(c) PROVE DirInv'
<1>1. Holding(c) /\ Rollback[pc[c]] \in RollingBack /\ ~Removing(c)
  BY RollbackLabels, RemovingWhere DEF OpenJournal, Holding, Recovering, RollingBack
<1>2. pc' = [pc EXCEPT ![c] = Rollback[pc[c]]]
  BY DEF OpenJournal, Goto
<1>3. DOMAIN journal.pending \subseteq Paths
  BY DEF DirInv, Base, Types, OnPaths, Journals
<1>4. UNCHANGED <<live, journal, version, change, good, torn, cut>>
  BY DEF OpenJournal, files, history
<1>5. Types'
  BY <1>1, <1>2, <1>3, <1>4
     DEF DirInv, Base, Types, OpenJournal, Labels, RollingBack, LockUnchanged, LockTypeOK
<1>6. pc'[c] = Rollback[pc[c]] /\ (pc'[c] = "prerollback" => pc[c] = "precommit")
  BY <1>2 DEF DirInv, Base, Types, OpenJournal, Recovering, Rollback
<1>7. Task(c)'
  <2>1. pc'[c] \in Publishing \union {"precommit", "begin"} => pc'[c] = "prerollback"
    BY <1>1, <1>6 DEF RollingBack, Publishing
  <2>2. pc[c] = "precommit" => change[c] # NoChange /\ version < MaxVersion
    BY DEF DirInv, Base, Task, Publishing
  <2> QED
    BY <1>1, <1>4, <1>6, <2>1, <2>2 DEF Task, Publishing, RollingBack
<1>8. ASSUME Full PROVE Core' /\ Phase(c)'
  <2>1. Core'
    BY <1>1, <1>4, <1>8, MarkerThere, CoreUnchanged DEF DirInv
  <2>2. todo'[c] = IF MustRollBack THEN DOMAIN journal.pending ELSE {}
    BY DEF DirInv, Base, Types, OpenJournal
  <2>3. MustRollBack' = MustRollBack /\ journal' = journal
    BY <1>4 DEF MustRollBack
  <2> QED
    BY <1>1, <1>6, <2>1, <2>2, <2>3 DEF Phase, RollingBack
<1> QED
  BY <1>1, <1>2, <1>4, <1>5, <1>7, <1>8, HolderStep DEF OpenJournal, RollingBack, Labels

LEMMA RestoreFileKeeps ==
  ASSUME DirInv, NEW c \in Clients, NEW p \in Paths, RestoreFile(c, p) PROVE DirInv'
<1>1. /\ Holding(c) /\ pc[c] \in RollingBack /\ pc' = [pc EXCEPT ![c] = pc[c]]
      /\ p \in todo[c] /\ pc[c] \in Labels /\ ~Removing(c)
  BY RollbackLabels, RemovingWhere
     DEF RestoreFile, Holding, RollingBack, DirInv, Base, Types
<1>2. UNCHANGED <<pc, journal, version, change, good, torn, cut>>
  BY DEF RestoreFile, history
<1>3. /\ live' = [live EXCEPT ![p] = IF journal.pending[p] THEN journal.before[p]
                                                         ELSE Absent]
      /\ todo' = [todo EXCEPT ![c] = @ \ {p}]
  BY DEF RestoreFile
<1>4. Types'
  <2>1. live' \in [Paths -> Contents]
    BY <1>3 DEF DirInv, Base, Types, Contents, Journals
  <2> QED
    BY <1>2, <1>3, <2>1 DEF DirInv, Base, Types, RestoreFile, LockUnchanged, LockTypeOK
<1>5. todo'[c] = todo[c] \ {p}
  BY <1>3 DEF DirInv, Base, Types
<1>6. Task(c)'
  BY <1>1, <1>2, <1>5 DEF DirInv, Base, Task, RollingBack
<1>7. ASSUME Full PROVE Core' /\ Phase(c)'
  <2>1. /\ MustRollBack /\ p \in DOMAIN journal.pending
        /\ \A q \in DOMAIN journal.pending \ todo[c] : live[q] = good[q]
        /\ todo[c] \subseteq DOMAIN journal.pending
    BY <1>1, <1>7 DEF Full, Phase
  <2>2. "marker" \notin torn
    BY <1>1, <1>7, MarkerThere DEF DirInv
  <2>3. good[p] = IF journal.pending[p] THEN journal.before[p] ELSE Absent
    BY <1>7, <2>1, <2>2 DEF Full, Core, Recorded, RestoreFile
  <2>4. live' = [live EXCEPT ![p] = good[p]]
    BY <1>3, <2>3
  <2>5. live'[p] = good[p] /\ \A q \in Paths \ {p} : live'[q] = live[q]
    BY <2>4 DEF DirInv, Base, Types
  <2>6. MustRollBack' = MustRollBack /\ Recorded' = Recorded
    BY <1>2 DEF MustRollBack, Recorded
  <2>7. Recovered' = Recovered
    <3>1. CASE torn = {}
      BY <1>2, <2>1, <2>5, <2>6, <3>1 DEF Recovered
    <3>2. CASE torn # {}
      <4>1. live = good
        BY <1>7, <3>2, Settled DEF DirInv
      <4>2. live' = live
        BY <2>4, <4>1 DEF DirInv, Base, Types
      <4> QED
        BY <1>2, <2>6, <4>2 DEF Recovered
    <3> QED
      BY <3>1, <3>2
  <2>8. Core'
    BY <1>2, <1>7, <2>2, <2>6, <2>7 DEF Full, Core
  <2>9. DOMAIN journal.pending \subseteq Paths
    BY DEF DirInv, Base, Types, OnPaths, Journals
  <2> QED
    BY <1>1, <1>2, <1>5, <2>1, <2>5, <2>6, <2>8, <2>9 DEF Phase, RollingBack
<1> QED
  BY <1>1, <1>2, <1>4, <1>6, <1>7, HolderStep DEF RestoreFile

LEMMA FinishRecoveryKeeps ==
  ASSUME DirInv, NEW c \in Clients, FinishRecovery(c)
  PROVE  DirInv' /\ (Full => live = good)
<1>1. Holding(c) /\ pc[c] \in Recovering \union RollingBack
  BY RollbackLabels DEF FinishRecovery, Holding, RollingBack, Recovering
<1>2. journal' = NoJournal /\ torn' = {} /\ UNCHANGED <<live, good, change, version, todo, cut>>
  BY DEF FinishRecovery
<1>3. ASSUME Full PROVE live = good
  <2>1. CASE pc[c] \in Recovering
    <3>1. ~MustRollBack
      BY <1>3, <2>1, RollbackLabels
         DEF FinishRecovery, Full, Core, MustRollBack, RollingBack, Recovering
    <3> QED
      BY <1>3, <3>1, Settled DEF DirInv
  <2>2. CASE pc[c] \in RollingBack
    BY <1>3, <2>2, RolledBack DEF FinishRecovery, RollingBack, Recovering, DirInv
  <2> QED
    BY <1>1, <2>1, <2>2
<1>4. ~MustRollBack' /\ ~journal'.blank /\ journal'.pending = NotPending
  BY <1>2 DEF MustRollBack, NoJournal
<1>5. /\ pc' = [pc EXCEPT ![c] = Resumes(pc[c])]
      /\ Resumes(pc[c]) \in {"session", "begin", "release"}
      /\ Resumes(pc[c]) = "begin" => pc[c] \in {"precommit", "prerollback"}
  BY <1>1 DEF FinishRecovery, Goto, Resumes, Recovering, RollingBack
<1>6. pc'[c] = Resumes(pc[c])
  BY <1>5 DEF DirInv, Base, Types
<1>7. Types'
  BY <1>2, <1>5, NoJournalType
     DEF DirInv, Base, Types, FinishRecovery, LockUnchanged, LockTypeOK, Labels
<1>8. Task(c)'
  BY <1>2, <1>5, <1>6 DEF DirInv, Base, Task, Publishing
<1>9. ASSUME Full PROVE Core' /\ Phase(c)'
  <2>1. Core'
    BY <1>2, <1>3, <1>4, <1>9, CoreWithoutRollback DEF DirInv, Base, Types
  <2> QED
    BY <1>2, <1>4, <1>5, <1>6, <2>1 DEF Phase, RollingBack
<1> QED
  BY <1>1, <1>2, <1>3, <1>5, <1>7, <1>8, <1>9, HolderStep DEF FinishRecovery, Labels

LEMMA FailRecoveryKeeps ==
  ASSUME DirInv, NEW c \in Clients, FailRecovery(c) PROVE DirInv'
<1>1. Holding(c) /\ pc' = [pc EXCEPT ![c] = "release"]
  BY RollbackLabels DEF FailRecovery, Holding, RollingBack, Recovering, Goto
<1>2. /\ UNCHANGED <<live, journal, version, good, torn>> /\ cut' = cut \union torn
      /\ todo' = [todo EXCEPT ![c] = {}]
      /\ change' = [change EXCEPT ![c] = NoChange]
  BY DEF FailRecovery, files, Interrupted
<1>3. Types'
  <2>1. cut' \in SUBSET Parts
    BY <1>2 DEF DirInv, Base, Types
  <2>2. /\ pc' \in [Clients -> Labels] /\ todo' \in [Clients -> SUBSET Paths]
        /\ change' \in [Clients -> OnPaths(Contents \ {Empty})]
    BY <1>1, <1>2, EmptyOnPaths DEF DirInv, Base, Types, Labels
  <2> QED
    BY <1>2, <2>1, <2>2
       DEF DirInv, Base, Types, FailRecovery, LockUnchanged, LockTypeOK
<1>4. pc'[c] = "release"
  BY <1>1 DEF DirInv, Base, Types
<1>5. Task(c)' /\ Phase(c)'
  BY <1>4 DEF Task, Publishing, Phase, RollingBack
<1>6. ASSUME Full, Safe' PROVE Core'
  BY <1>2, <1>6, InterruptedAtCore DEF FailRecovery
<1> QED
  BY <1>1, <1>2, <1>3, <1>5, <1>6, HolderStep DEF FailRecovery, Labels

-----------------------------------------------------------------------------
(* Publication *)

\* A holder that neither removes the journal nor will, and changes no file.
LEMMA CallKeeps ==
  ASSUME Base, Full, NEW c \in Clients, Holding(c), ~Removing(c),
         UNCHANGED <<live, journal, good, torn>>
  PROVE  Core'
BY MarkerThere, CoreUnchanged

LEMMA CallCommitKeeps ==
  ASSUME DirInv, NEW c \in Clients, CallCommit(c) PROVE DirInv'
<1>1. Holding(c) /\ ~Removing(c) /\ pc' = [pc EXCEPT ![c] = "precommit"]
  BY RemovingWhere DEF CallCommit, Holding, RollingBack, Goto
<1>2. PICK paths \in (SUBSET Paths) \ {{}} :
        \E new \in Changes(paths) : change' = [change EXCEPT ![c] = new]
  BY DEF CallCommit
<1>3. PICK new \in Changes(paths) : change' = [change EXCEPT ![c] = new]
  BY <1>2
<1>4. new \in [paths -> Contents \ {Empty}] /\ new # NoChange
  <2>1. new \in [paths -> {version + 1, Absent}]
    BY DEF Changes
  <2>2. {version + 1, Absent} \subseteq Contents \ {Empty}
    BY NextContents DEF CallCommit, DirInv
  <2>3. DOMAIN new # DOMAIN NoChange
    <3>1. paths # {}
      BY <1>2
    <3>2. DOMAIN new = paths
      BY <2>1
    <3> QED
      BY <3>1, <3>2, EmptyDomains
  <2> QED
    BY <2>1, <2>2, <2>3
<1>5. UNCHANGED <<live, journal, version, todo, good, torn, cut>> /\ version < MaxVersion
  BY DEF CallCommit, files, history
<1>6. Types'
  <2>1. LockTypeOK' /\ pc' \in [Clients -> Labels]
    BY <1>1 DEF DirInv, Base, Types, CallCommit, LockUnchanged, LockTypeOK, Labels
  <2>2. new \in OnPaths(Contents \ {Empty})
    BY <1>4 DEF OnPaths
  <2>3. change' \in [Clients -> OnPaths(Contents \ {Empty})]
    BY <1>3, <2>2 DEF DirInv, Base, Types
  <2> QED
    BY <1>5, <2>1, <2>3 DEF DirInv, Base, Types
<1>7. pc'[c] = "precommit" /\ change'[c] = new
  BY <1>1, <1>3 DEF DirInv, Base, Types
<1>8. Task(c)'
  BY <1>4, <1>5, <1>7 DEF Task
<1>9. ASSUME Full PROVE Core' /\ Phase(c)'
  BY <1>1, <1>5, <1>7, <1>9, CallKeeps DEF DirInv, Phase, RollingBack
<1> QED
  BY <1>1, <1>5, <1>6, <1>8, <1>9, HolderStep DEF CallCommit, Labels

LEMMA StartReplacementKeeps ==
  ASSUME DirInv, NEW c \in Clients, StartReplacement(c) PROVE DirInv'
<1>1. Holding(c) /\ ~Removing(c) /\ pc' = [pc EXCEPT ![c] = "precommit"]
  BY RemovingWhere DEF StartReplacement, Holding, RollingBack, Goto
<1> DEFINE listed == {p \in Paths : live[p] # Absent}
<1>2. PICK staged \in (SUBSET Paths) \ {{}} :
        change' = [change EXCEPT ![c] =
          [p \in staged \cup listed |-> IF p \in staged THEN version + 1 ELSE Absent]]
  BY DEF StartReplacement
<1> DEFINE new == [p \in staged \cup listed |->
                     IF p \in staged THEN version + 1 ELSE Absent]
<1>3. new \in [staged \cup listed -> Contents \ {Empty}] /\ new # NoChange
  <2>1. version + 1 \in Contents \ {Empty} /\ Absent \in Contents \ {Empty}
    BY NextContents DEF StartReplacement, DirInv
  <2>2. DOMAIN new # DOMAIN NoChange
    <3>1. staged \cup listed # {}
      BY <1>2
    <3>2. DOMAIN new = staged \cup listed
      OBVIOUS
    <3> QED
      BY <3>1, <3>2, EmptyDomains
  <2> QED
    BY <2>1, <2>2
<1>4. UNCHANGED <<live, journal, version, todo, good, torn, cut>> /\ version < MaxVersion
  BY DEF StartReplacement, files, history
<1>5. Types'
  <2>1. LockTypeOK' /\ pc' \in [Clients -> Labels]
    BY <1>1 DEF DirInv, Base, Types, StartReplacement, LockUnchanged, LockTypeOK, Labels
  <2>2. new \in OnPaths(Contents \ {Empty})
    BY <1>3 DEF OnPaths
  <2>3. change' \in [Clients -> OnPaths(Contents \ {Empty})]
    BY <1>2, <2>2 DEF DirInv, Base, Types
  <2> QED
    BY <1>4, <2>1, <2>3 DEF DirInv, Base, Types
<1>6. pc'[c] = "precommit" /\ change'[c] = new
  BY <1>1, <1>2 DEF DirInv, Base, Types
<1>7. Task(c)'
  BY <1>3, <1>4, <1>6 DEF Task
<1>8. ASSUME Full PROVE Core' /\ Phase(c)'
  BY <1>1, <1>4, <1>6, <1>8, CallKeeps DEF DirInv, Phase, RollingBack
<1> QED
  BY <1>1, <1>4, <1>5, <1>7, <1>8, HolderStep DEF StartReplacement, Labels

LEMMA EndsKeep ==
  ASSUME DirInv, NEW c \in Clients, FailStaging(c) \/ FinishSession(c) PROVE DirInv'
<1>1. Holding(c) /\ pc' = [pc EXCEPT ![c] = "release"] /\ LockUnchanged /\ ~Removing(c)
  BY RemovingWhere
     DEF FailStaging, Finish, FinishSession, Holding, Goto, LockUnchanged, RollingBack
<1>2. UNCHANGED <<live, journal, version, change, todo, good, torn, cut>>
  BY DEF FailStaging, FinishSession, files, history
<1>3. Types'
  BY <1>1, <1>2 DEF DirInv, Base, Types, LockUnchanged, LockTypeOK, Labels
<1>4. pc'[c] = "release"
  BY <1>1 DEF DirInv, Base, Types
<1>5. Task(c)' /\ Phase(c)'
  BY <1>4 DEF Task, Publishing, Phase, RollingBack
<1>6. ASSUME Full PROVE Core'
  BY <1>1, <1>2, <1>6, CallKeeps DEF DirInv
<1> QED
  BY <1>1, <1>2, <1>3, <1>5, <1>6, HolderStep DEF Labels

LEMMA CreateJournalKeeps ==
  ASSUME DirInv, NEW c \in Clients, CreateJournal(c) PROVE DirInv'
<1>1. Holding(c) /\ pc' = [pc EXCEPT ![c] = "backup"]
  BY DEF CreateJournal, Holding, Goto
<1>2. /\ journal' = [NoJournal EXCEPT !.exists = TRUE]
      /\ UNCHANGED <<live, change, good, torn, cut>>
      /\ todo' = [todo EXCEPT ![c] = DOMAIN change[c]]
  BY DEF CreateJournal, history
<1>3. /\ ~MustRollBack' /\ journal'.pending = NotPending /\ ~journal'.committed
      /\ journal'.exists /\ ~journal'.blank
  BY <1>2 DEF MustRollBack, NoJournal
<1>4. version' \in 0 .. MaxVersion /\ DOMAIN change[c] \subseteq Paths
  BY DirectoryAssumption DEF DirInv, Base, Types, Task, CreateJournal, OnPaths
<1>5. Types'
  <2>1. LockTypeOK' /\ pc' \in [Clients -> Labels]
    BY <1>1 DEF DirInv, Base, Types, CreateJournal, LockUnchanged, LockTypeOK, Labels
  <2>2. todo' \in [Clients -> SUBSET Paths]
    BY <1>2, <1>4 DEF DirInv, Base, Types
  <2> QED
    BY <1>2, <1>4, <2>1, <2>2, NoJournalType DEF DirInv, Base, Types
<1>6. pc'[c] = "backup" /\ todo'[c] = DOMAIN change[c]
  BY <1>1, <1>2 DEF DirInv, Base, Types
<1>7. Task(c)'
  BY <1>2, <1>6 DEF DirInv, Base, Task, Publishing, CreateJournal
<1>8. ASSUME Full PROVE Core' /\ Phase(c)'
  <2>1. torn = {} /\ live = good
    BY <1>8, Settled DEF DirInv, Full, Core, Phase, CreateJournal
  <2>2. Core'
    BY <1>2, <1>3, <2>1, CoreWithoutRollback DEF DirInv, Base, Types
  <2> QED
    BY <1>2, <1>3, <1>6, <2>1, <2>2 DEF Phase, RollingBack
<1> QED
  BY <1>1, <1>2, <1>5, <1>7, <1>8, HolderStep DEF CreateJournal, Labels

LEMMA BackUpKeeps ==
  ASSUME DirInv, NEW c \in Clients, NEW p \in Paths, BackUp(c, p) PROVE DirInv'
<1>1. Holding(c) /\ pc[c] \in Labels /\ pc' = [pc EXCEPT ![c] = pc[c]]
  BY DEF BackUp, Holding, DirInv, Base, Types
<1>2. /\ journal' = [journal EXCEPT !.before[p] = live[p]]
      /\ todo' = [todo EXCEPT ![c] = @ \ {p}]
      /\ UNCHANGED <<pc, live, version, change, good, torn, cut>>
  BY DEF BackUp, history
<1>3. /\ journal'.pending = journal.pending
      /\ journal'.committed = journal.committed
      /\ journal'.exists = journal.exists
      /\ journal'.blank = journal.blank
      /\ journal'.before = [journal.before EXCEPT ![p] = live[p]]
  BY <1>2 DEF DirInv, Base, Types, Journals
<1>4. Types'
  <2>1. [journal.before EXCEPT ![p] = live[p]] \in [Paths -> Contents]
    BY DEF DirInv, Base, Types, Journals
  <2>2. journal' \in Journals
    BY <1>2, <2>1 DEF DirInv, Base, Types, Journals
  <2> QED
    BY <1>2, <2>2 DEF DirInv, Base, Types, BackUp, LockUnchanged, LockTypeOK
<1>5. Task(c)'
  BY <1>2 DEF DirInv, Base, Task, BackUp, Publishing
<1>6. ASSUME Full PROVE Core' /\ Phase(c)'
  <2>1. ~MustRollBack /\ torn = {} /\ journal.pending = NotPending /\ live = good
    BY <1>6, Settled DEF DirInv, Full, Phase, BackUp
  <2>2. ~MustRollBack' /\ ~journal'.blank
    BY <1>3, <1>6, <2>1 DEF MustRollBack, Full, Core
  <2>3. Core'
    BY <1>2, <1>3, <2>1, <2>2, CoreWithoutRollback DEF DirInv, Base, Types
  <2>4. /\ journal'.before[p] = live[p]
        /\ \A q \in Paths \ {p} : journal'.before[q] = journal.before[q]
    BY <1>3 DEF DirInv, Base, Types, Journals
  <2>5. DOMAIN change[c] \subseteq Paths /\ todo'[c] = todo[c] \ {p}
    BY <1>2 DEF DirInv, Base, Types, OnPaths
  <2>6. Phase(c) /\ pc[c] = "backup"
    BY <1>6 DEF Full, BackUp
  <2> QED
    BY <1>2, <1>3, <2>1, <2>2, <2>3, <2>4, <2>5, <2>6 DEF Phase, RollingBack
<1> QED
  BY <1>1, <1>2, <1>4, <1>5, <1>6, HolderStep DEF BackUp

LEMMA CreatePendingKeeps ==
  ASSUME DirInv, NEW c \in Clients, CreatePending(c) PROVE DirInv'
<1>1. Holding(c) /\ pc' = [pc EXCEPT ![c] = "pending"]
  BY DEF CreatePending, Holding, Goto
<1>2. /\ journal' = [journal EXCEPT !.blank = TRUE]
      /\ torn' = {"content"}
      /\ UNCHANGED <<live, version, change, todo, good, cut>>
  BY DEF CreatePending
<1>3. /\ journal'.pending = journal.pending
      /\ journal'.committed = journal.committed
      /\ journal'.exists = journal.exists
      /\ journal'.before = journal.before
  BY <1>2 DEF DirInv, Base, Types, Journals
<1>4. Types'
  <2>1. journal' \in Journals /\ torn' \in SUBSET Parts
    BY <1>2 DEF DirInv, Base, Types, Journals, Parts
  <2> QED
    BY <1>1, <1>2, <2>1
       DEF DirInv, Base, Types, CreatePending, LockUnchanged, LockTypeOK, Labels
<1>5. pc'[c] = "pending" /\ pc[c] = "backup" /\ todo[c] = {}
  BY <1>1 DEF DirInv, Base, Types, CreatePending
<1>6. Task(c)'
  BY <1>2, <1>5 DEF DirInv, Base, Task, Publishing
<1>7. ASSUME Full PROVE Core' /\ Phase(c)'
  <2>1. /\ ~MustRollBack /\ journal.pending = NotPending /\ live = good
        /\ ~journal.committed /\ journal.exists
        /\ \A p \in DOMAIN change[c] : journal.before[p] = live[p]
    BY <1>5, <1>7, Settled DEF DirInv, Full, Phase
  <2>2. ~MustRollBack'
    BY <1>3, <2>1 DEF MustRollBack
  <2>3. Recovered' = good'
    BY <1>2, <2>1, <2>2 DEF Recovered, DirInv, Base, Types
  <2>4. Core'
    BY <1>2, <1>3, <2>1, <2>2, <2>3 DEF Core
  <2> QED
    BY <1>2, <1>3, <1>5, <2>1, <2>4 DEF Phase, RollingBack
<1> QED
  BY <1>1, <1>2, <1>4, <1>6, <1>7, HolderStep DEF CreatePending, Labels

LEMMA WritePendingKeeps ==
  ASSUME DirInv, NEW c \in Clients, WritePending(c) PROVE DirInv'
<1>1. Holding(c) /\ pc' = [pc EXCEPT ![c] = "publish"]
  BY DEF WritePending, Holding, Goto
<1> DEFINE pending == [p \in DOMAIN change[c] |-> live[p] # Absent]
<1>2. /\ journal' = [journal EXCEPT !.blank = FALSE, !.pending = pending]
      /\ todo' = [todo EXCEPT ![c] = DOMAIN change[c]]
      /\ torn' = {}
      /\ UNCHANGED <<live, version, change, good, cut>>
  BY DEF WritePending
<1>3. DOMAIN change[c] \subseteq Paths
  BY DEF DirInv, Base, Types, OnPaths
<1>4. /\ journal'.pending = pending
      /\ journal'.before = journal.before
      /\ journal'.exists = journal.exists
      /\ journal'.committed = journal.committed
      /\ ~journal'.blank
  BY <1>2 DEF DirInv, Base, Types, Journals
<1>5. Types'
  <2>1. pending \in OnPaths(BOOLEAN)
    BY <1>3 DEF OnPaths
  <2>2. journal' \in Journals
    BY <1>2, <2>1 DEF DirInv, Base, Types, Journals
  <2> QED
    BY <1>1, <1>2, <1>3, <2>2
       DEF DirInv, Base, Types, WritePending, LockUnchanged, LockTypeOK, Labels
<1>6. pc'[c] = "publish" /\ pc[c] = "pending" /\ todo'[c] = DOMAIN change[c]
  BY <1>1, <1>2 DEF DirInv, Base, Types, WritePending
<1>7. Task(c)'
  BY <1>2, <1>6 DEF DirInv, Base, Task, Publishing
<1>8. ASSUME Full PROVE Core' /\ Phase(c)'
  <2>1. /\ ~journal.committed /\ journal.exists /\ torn # {}
        /\ \A p \in DOMAIN change[c] : journal.before[p] = live[p]
    BY <1>6, <1>8 DEF Full, Phase
  <2>2. live = good
    BY <1>8, <2>1, Settled DEF DirInv
  <2>3. Recorded'
    <3>1. DOMAIN journal'.pending = DOMAIN change[c]
      BY <1>4
    <3>2. ASSUME NEW p \in DOMAIN change[c]
          PROVE  /\ journal'.pending[p] <=> good'[p] # Absent
                 /\ journal'.before[p] = good'[p]
      BY <1>2, <1>4, <2>1, <2>2
    <3> QED
      BY ONLY <3>1, <3>2 DEF Recorded
  <2>4. Recovered' = good'
    BY <1>2, <1>3, <1>4, <2>1, <2>2 DEF DirInv, Base, Types, Recovered
  <2>5. Core'
    BY <1>2, <1>4, <2>1, <2>3, <2>4 DEF Core
  <2> QED
    BY <1>2, <1>4, <1>6, <2>1, <2>5 DEF Phase, RollingBack
<1> QED
  BY <1>1, <1>2, <1>5, <1>7, <1>8, HolderStep DEF WritePending, Labels

\* A step on a file that the journal can undo.
LEMMA UndoableStep ==
  ASSUME Base, Full, NEW c \in Clients, pc[c] = "publish",
         NEW p \in todo[c], NEW v, live' = [live EXCEPT ![p] = v],
         UNCHANGED <<journal, good, torn>>
  PROVE  Core'
<1>1. p \in DOMAIN journal.pending /\ ~journal.committed /\ torn = {}
  BY DEF Base, Task, Full, Phase
<1>2. MustRollBack
  BY <1>1, EmptyDomains DEF MustRollBack
<1>3. Recovered' = Recovered
  BY <1>1, <1>2 DEF Base, Types, Recovered, MustRollBack
<1>4. Recorded' = Recorded /\ MustRollBack' = MustRollBack
  BY DEF Recorded, MustRollBack
<1> QED
  BY <1>1, <1>3, <1>4 DEF Full, Core

LEMMA CreateFileKeeps ==
  ASSUME DirInv, NEW c \in Clients, NEW p \in Paths, CreateFile(c, p) PROVE DirInv'
<1>1. Holding(c) /\ pc[c] \in Labels /\ pc' = [pc EXCEPT ![c] = pc[c]]
  BY DEF CreateFile, Holding, DirInv, Base, Types
<1>2. /\ UNCHANGED <<pc, journal, version, change, todo, good, torn, cut>>
      /\ live' = [live EXCEPT ![p] = Empty] /\ p \in todo[c] /\ pc[c] = "publish"
  BY DEF CreateFile, history
<1>3. Types'
  BY <1>2 DEF DirInv, Base, Types, CreateFile, LockUnchanged, LockTypeOK, Contents
<1>4. Task(c)'
  BY <1>2 DEF DirInv, Base, Task, Publishing
<1>5. ASSUME Full PROVE Core' /\ Phase(c)'
  <2>1. Core'
    BY <1>2, <1>5, UndoableStep DEF DirInv
  <2>2. \A q \in Paths \ {p} : live'[q] = live[q]
    BY <1>2 DEF DirInv, Base, Types
  <2>3. DOMAIN change[c] \subseteq Paths
    BY DEF DirInv, Base, Types, OnPaths
  <2>4. Phase(c)
    BY <1>5 DEF Full
  <2> QED
    BY <1>2, <2>1, <2>2, <2>3, <2>4 DEF Phase, RollingBack
<1> QED
  BY <1>1, <1>2, <1>3, <1>4, <1>5, HolderStep DEF CreateFile

LEMMA PublishFileKeeps ==
  ASSUME DirInv, NEW c \in Clients, NEW p \in Paths, PublishFile(c, p) PROVE DirInv'
<1>1. Holding(c) /\ pc[c] \in Labels /\ pc' = [pc EXCEPT ![c] = pc[c]]
  BY DEF PublishFile, Holding, DirInv, Base, Types
<1>2. /\ UNCHANGED <<pc, journal, version, change, good, torn, cut>>
      /\ live' = [live EXCEPT ![p] = change[c][p]] /\ p \in todo[c] /\ pc[c] = "publish"
      /\ todo' = [todo EXCEPT ![c] = @ \ {p}]
  BY DEF PublishFile, history
<1>3. p \in DOMAIN change[c] /\ change[c][p] \in Contents /\ DOMAIN change[c] \subseteq Paths
  BY <1>2 DEF DirInv, Base, Types, OnPaths, Task
<1>4. Types'
  BY <1>2, <1>3 DEF DirInv, Base, Types, PublishFile, LockUnchanged, LockTypeOK
<1>5. todo'[c] = todo[c] \ {p}
  BY <1>2 DEF DirInv, Base, Types
<1>6. Task(c)'
  BY <1>2, <1>5 DEF DirInv, Base, Task, Publishing
<1>7. ASSUME Full PROVE Core' /\ Phase(c)'
  <2>1. Core'
    BY <1>2, <1>7, UndoableStep DEF DirInv
  <2>2. live'[p] = change[c][p] /\ \A q \in Paths \ {p} : live'[q] = live[q]
    BY <1>2 DEF DirInv, Base, Types
  <2>3. Phase(c)
    BY <1>7 DEF Full
  <2> QED
    BY <1>2, <1>3, <1>5, <2>1, <2>2, <2>3 DEF Phase, RollingBack
<1> QED
  BY <1>1, <1>2, <1>4, <1>6, <1>7, HolderStep DEF PublishFile

LEMMA CreateCommittedKeeps ==
  ASSUME DirInv, NEW c \in Clients, CreateCommitted(c) PROVE DirInv'
<1>1. Holding(c) /\ pc' = [pc EXCEPT ![c] = "committed"]
  BY DEF CreateCommitted, Holding, Goto
<1>2. /\ journal' = [journal EXCEPT !.committed = TRUE] /\ good' = live
      /\ UNCHANGED <<live, version, change, todo, torn, cut>>
  BY DEF CreateCommitted
<1>3. /\ journal'.committed /\ journal'.pending = journal.pending
      /\ journal'.exists = journal.exists /\ journal'.blank = journal.blank
  BY <1>2 DEF DirInv, Base, Types, Journals
<1>4. Types'
  BY <1>1, <1>2
     DEF DirInv, Base, Types, CreateCommitted, LockUnchanged, LockTypeOK, Labels, Journals
<1>5. pc'[c] = "committed" /\ pc[c] = "publish"
  BY <1>1 DEF DirInv, Base, Types, CreateCommitted
<1>6. Task(c)'
  BY <1>5 DEF Task, Publishing
<1>7. ASSUME Full PROVE Core' /\ Phase(c)'
  <2>1. torn = {} /\ ~journal.blank
    BY <1>5, <1>7 DEF Full, Phase, Core
  <2>2. ~MustRollBack'
    BY <1>3 DEF MustRollBack
  <2>3. Core'
    BY <1>2, <1>3, <1>4, <1>7, <2>1, <2>2, CoreWithoutRollback DEF Types, Full, Core
  <2> QED
    BY <1>2, <1>5, <2>1, <2>2, <2>3 DEF Phase, RollingBack
<1> QED
  BY <1>1, <1>2, <1>4, <1>6, <1>7, HolderStep DEF CreateCommitted, Labels

LEMMA FailCommitKeeps ==
  ASSUME DirInv, NEW c \in Clients, FailCommit(c) PROVE DirInv'
<1>1. Holding(c) /\ pc' = [pc EXCEPT ![c] = "undo"]
  BY DEF FailCommit, Holding, Goto
<1>2. /\ UNCHANGED <<live, journal, version, good, torn>> /\ cut' = cut \union torn
      /\ todo' = [todo EXCEPT ![c] = {}]
      /\ change' = [change EXCEPT ![c] = NoChange]
  BY DEF FailCommit, files, Interrupted
<1>3. Types'
  <2>1. cut' \in SUBSET Parts
    BY <1>2 DEF DirInv, Base, Types
  <2>2. /\ pc' \in [Clients -> Labels] /\ todo' \in [Clients -> SUBSET Paths]
        /\ change' \in [Clients -> OnPaths(Contents \ {Empty})]
    BY <1>1, <1>2, EmptyOnPaths DEF DirInv, Base, Types, Labels
  <2> QED
    BY <1>2, <2>1, <2>2
       DEF DirInv, Base, Types, FailCommit, LockUnchanged, LockTypeOK
<1>4. pc'[c] = "undo"
  BY <1>1 DEF DirInv, Base, Types
<1>5. Task(c)' /\ Phase(c)'
  BY <1>4 DEF Task, Publishing, Phase, RollingBack
<1>6. ASSUME Full, Safe' PROVE Core'
  BY <1>2, <1>6, InterruptedAtCore DEF FailCommit
<1> QED
  BY <1>1, <1>2, <1>3, <1>5, <1>6, HolderStep DEF FailCommit, Labels

LEMMA RemoveJournalKeeps ==
  ASSUME DirInv, NEW c \in Clients, RemoveJournal(c)
  PROVE  DirInv' /\ (Full => live = good)
<1>1. /\ Holding(c) /\ Removing(c)
      /\ pc' = [pc EXCEPT ![c] = IF c \in Replacers THEN "release" ELSE "session"]
  BY DEF RemoveJournal, Removing, Holding, Goto
<1>2. /\ UNCHANGED <<live, version, todo, good>>
      /\ change' = [change EXCEPT ![c] = NoChange]
      /\ \/ journal' = NoJournal /\ torn' = {} /\ cut' = cut
         \/ UNCHANGED <<journal, torn>> /\ cut' = cut \union torn
  BY DEF RemoveJournal, Interrupted
<1>3. Types'
  <2>1. /\ cut' \in SUBSET Parts /\ torn' \in SUBSET Parts /\ journal' \in Journals
    BY <1>2, NoJournalType DEF DirInv, Base, Types
  <2>2. /\ pc' \in [Clients -> Labels]
        /\ change' \in [Clients -> OnPaths(Contents \ {Empty})]
    BY <1>1, <1>2, EmptyOnPaths DEF DirInv, Base, Types, Labels
  <2> QED
    BY <1>2, <2>1, <2>2
       DEF DirInv, Base, Types, RemoveJournal, LockUnchanged, LockTypeOK
<1>4. pc'[c] \in {"release", "session"}
  BY <1>1 DEF DirInv, Base, Types
<1>5. Task(c)'
  BY <1>4 DEF Task, Publishing
<1>6. ASSUME Full PROVE live = good
  BY <1>1, <1>6, RemovingSettled DEF DirInv
<1>7. ASSUME Full, Safe' PROVE Core' /\ Phase(c)'
  <2>1. CASE journal' = NoJournal /\ torn' = {}
    <3>1. ~MustRollBack' /\ ~journal'.blank /\ journal'.pending = NotPending
      BY <2>1 DEF MustRollBack, NoJournal
    <3>2. Core'
      BY <1>2, <1>6, <1>7, <2>1, <3>1, CoreWithoutRollback DEF DirInv, Base, Types
    <3> QED
      BY <1>4, <2>1, <3>1, <3>2 DEF Phase, RollingBack
  <2>2. CASE UNCHANGED <<journal, torn>> /\ cut' = cut \union torn
    <3>1. "marker" \notin torn
      BY <1>7, <2>2 DEF Safe
    <3>2. Core'
      BY <1>2, <1>7, <2>2, <3>1, CoreUnchanged
    <3>3. ~MustRollBack /\ torn = {}
      BY <1>7, <3>1 DEF Full, Phase, RemoveJournal
    <3> QED
      BY <1>4, <2>2, <3>2, <3>3 DEF Phase, RollingBack, MustRollBack
  <2> QED
    BY <1>2, <2>1, <2>2
<1> QED
  BY <1>1, <1>2, <1>3, <1>5, <1>6, <1>7, HolderStep DEF RemoveJournal, Labels

\* Taking one file out of the journal of a committed publication or of a finished
\* rollback.
LEMMA RemovePartKeeps ==
  ASSUME DirInv, NEW c \in Clients, RemovePart(c) PROVE DirInv'
<1> DEFINE l == IF pc[c] = "committed" THEN "remove" ELSE pc[c]
<1>1. /\ Holding(c) /\ Removing(c) /\ l \in Labels /\ pc' = [pc EXCEPT ![c] = l]
      /\ pc[c] \in {"committed", "remove"} \/ (pc[c] \in RollingBack /\ todo[c] = {})
  <2>1. Removing(c)
    BY DEF RemovePart
  <2>2. pc[c] \in {"committed", "remove"} \/ (pc[c] \in RollingBack /\ todo[c] = {})
    BY ONLY <2>1, RemovingWhere
  <2>3. Holding(c) /\ l \in Labels
    BY ONLY <2>2 DEF Holding, RollingBack, Labels
  <2>4. pc' = [pc EXCEPT ![c] = l]
    BY DEF RemovePart
  <2> QED
    BY <2>1, <2>2, <2>3, <2>4
<1>2. UNCHANGED <<live, version, change, todo, good, cut>>
  BY DEF RemovePart
<1>3. pc'[c] = l
  BY <1>1 DEF DirInv, Base, Types
<1>4. Task(c)'
  BY <1>1, <1>2, <1>3 DEF DirInv, Base, Task, RollingBack, Publishing
<1>5. Removing(c)'
  BY <1>1, <1>2, <1>3, RollbackLabels DEF Removing, RollingBack
<1>6. ASSUME Full PROVE live = good
  BY <1>1, <1>6, RemovingSettled DEF DirInv
\* What is left in each case.
<1>7. CASE journal' = [journal EXCEPT !.pending = NotPending] /\ torn' = {}
           /\ journal.pending # NotPending
  <2>1. /\ journal'.pending = NotPending /\ journal'.blank = journal.blank
        /\ ~MustRollBack' /\ journal' \in Journals
    BY <1>7, EmptyOnPaths DEF DirInv, Base, Types, Journals, MustRollBack
  <2>2. Types'
    BY <1>1, <1>2, <1>7, <2>1 DEF DirInv, Base, Types, RemovePart, LockUnchanged, LockTypeOK
  <2>3. ASSUME Full PROVE Core' /\ Phase(c)'
    <3>1. ~journal.blank
      BY <1>7, <2>3 DEF Full, Core
    <3>2. Core'
      BY <1>2, <1>6, <1>7, <2>1, <2>3, <3>1, CoreWithoutRollback DEF DirInv, Base, Types
    <3> QED
      BY <1>1, <1>2, <1>3, <1>7, <2>1, <3>2 DEF Phase, RollingBack
  <2> QED
    BY <1>1, <1>2, <1>4, <2>2, <2>3, HolderStep DEF RemovePart
<1>8. CASE /\ journal.committed
           /\ journal' = [journal EXCEPT !.committed = FALSE]
           /\ torn' = IF MustRollBack' THEN torn \union {"marker"} ELSE torn
  <2>1. /\ journal'.pending = journal.pending /\ journal'.blank = journal.blank
        /\ journal'.exists = journal.exists /\ ~journal'.committed /\ journal' \in Journals
    BY <1>8 DEF DirInv, Base, Types, Journals
  <2>2. Types'
    <3>1. torn' \in SUBSET Parts
      BY <1>8 DEF DirInv, Base, Types, Parts
    <3> QED
      BY <1>1, <1>2, <2>1, <3>1 DEF DirInv, Base, Types, RemovePart, LockUnchanged, LockTypeOK
  <2>3. ASSUME Full PROVE Core' /\ Phase(c)'
    <3>1. ~MustRollBack /\ (MustRollBack' <=> journal.pending # NotPending)
      BY <1>8, <2>1 DEF MustRollBack
    <3>2. MustRollBack' => torn' # {} /\ "marker" \in torn'
      BY <1>8
    <3>3. Recovered' = good'
      BY <1>2, <1>6, <2>3, <3>2 DEF Recovered, DirInv, Base, Types
    <3>4. Core'
      <4>1. torn' # {} => journal'.exists
        BY <1>8, <2>1, <2>3, <3>1 DEF Full, Core
      <4>2. journal'.pending # NotPending => journal'.exists
        BY <2>1, <2>3 DEF Full, Core
      <4>3. journal'.blank => "content" \in torn' /\ journal'.pending = NotPending
        BY <1>8, <2>1, <2>3 DEF Full, Core
      <4> QED
        BY <1>5, <3>2, <3>3, <4>1, <4>2, <4>3 DEF Core
    <3>5. Phase(c)
      BY <2>3 DEF Full
    <3>6. l \in {"remove"} \union RollingBack
      BY <1>1
    <3>7. l = "remove" => (~MustRollBack' /\ torn' = {}) \/ "marker" \in torn'
      BY <1>1, <1>8, <3>1, <3>5 DEF Phase, RollingBack
    <3>8. l \in RollingBack => todo'[c] = {} /\ live' = good'
      BY <1>1, <1>2, <1>6, <2>3 DEF RollingBack
    <3>9. DOMAIN journal'.pending \subseteq Paths
      BY <2>1 DEF Journals, OnPaths
    <3> QED
      BY <1>3, <3>4, <3>6, <3>7, <3>8, <3>9 DEF Phase, RollingBack
  <2> QED
    BY <1>1, <1>2, <1>4, <2>2, <2>3, HolderStep DEF RemovePart
<1>9. ASSUME NEW p \in Paths,
             journal' = [journal EXCEPT !.before[p] = Absent],
             torn' = IF MustRollBack THEN torn \union {"copy"} ELSE torn
      PROVE  DirInv'
  <2>1. /\ journal'.pending = journal.pending /\ journal'.blank = journal.blank
        /\ journal'.exists = journal.exists /\ journal'.committed = journal.committed
        /\ journal'.before = [journal.before EXCEPT ![p] = Absent]
    BY <1>9 DEF DirInv, Base, Types, Journals
  <2>2. journal' \in Journals
    <3>1. [journal.before EXCEPT ![p] = Absent] \in [Paths -> Contents]
      BY DEF DirInv, Base, Types, Contents, Journals
    <3> QED
      BY <1>9, <3>1 DEF DirInv, Base, Types, Journals
  <2>3. Types'
    <3>1. torn' \in SUBSET Parts
      BY <1>9 DEF DirInv, Base, Types, Parts
    <3> QED
      BY <1>1, <1>2, <2>2, <3>1 DEF DirInv, Base, Types, RemovePart, LockUnchanged, LockTypeOK
  <2>4. MustRollBack' = MustRollBack
    BY <2>1 DEF MustRollBack
  <2>5. ASSUME Full PROVE Core' /\ Phase(c)'
    <3>1. Recovered' = good'
      BY <1>2, <1>6, <1>9, <2>4, <2>5 DEF Recovered, DirInv, Base, Types
    <3>2. MustRollBack /\ "marker" \notin torn' => Recorded'
      <4> SUFFICES ASSUME MustRollBack, "marker" \notin torn', NEW q \in DOMAIN journal.pending
                   PROVE  IF journal.pending[q]
                          THEN /\ good[q] # Absent
                               /\ \/ journal'.before[q] = good[q]
                                  \/ journal'.before[q] = Absent /\ "copy" \in torn'
                          ELSE good[q] = Absent
        BY <1>2, <2>1 DEF Recorded
      <4>1. Recorded /\ "copy" \in torn'
        BY <1>9, <2>5 DEF Full, Core
      <4>2. q \in Paths
        BY DEF DirInv, Base, Types, Journals, OnPaths
      <4>3. journal'.before[q] = journal.before[q] \/ journal'.before[q] = Absent
        BY <2>1, <4>2 DEF DirInv, Base, Types, Journals
      <4> QED
        BY <4>1, <4>3 DEF Recorded
    <3>3. torn' # {} => journal'.exists
      BY <1>9, <2>1, <2>5 DEF Full, Core, MustRollBack
    <3>4. journal'.pending # NotPending => journal'.exists
      BY <2>1, <2>5 DEF Full, Core
    <3>5. journal'.blank => "content" \in torn' /\ journal'.pending = NotPending
      BY <1>9, <2>1, <2>5 DEF Full, Core
    <3>6. Core'
      BY <1>5, <2>4, <3>1, <3>2, <3>3, <3>4, <3>5 DEF Core
    <3>7. Phase(c)
      BY <2>5 DEF Full
    <3>8. l \in {"remove"} \union RollingBack
      BY <1>1
    <3>9. l = "remove" => (~MustRollBack' /\ torn' = {}) \/ "marker" \in torn'
      BY <1>1, <1>9, <2>4, <3>7 DEF Phase, RollingBack
    <3>10. l \in RollingBack => todo'[c] = {} /\ live' = good'
      BY <1>1, <1>2, <1>6, <2>5 DEF RollingBack
    <3>11. DOMAIN journal'.pending \subseteq Paths
      BY <2>2 DEF Journals, OnPaths
    <3> QED
      BY <1>3, <3>6, <3>8, <3>9, <3>10, <3>11 DEF Phase, RollingBack
  <2> QED
    BY <1>1, <1>2, <1>4, <2>3, <2>5, HolderStep DEF RemovePart
<1> QED
  BY <1>7, <1>8, <1>9 DEF RemovePart

\* A client may die anywhere, also waiting for the lock.
LEMMA CrashKeeps ==
  ASSUME DirInv, NEW c \in Clients, Crash(c) PROVE DirInv'
<1>1. /\ pc' = [pc EXCEPT ![c] = "dead"] /\ UNCHANGED <<row, seen, owners>>
      /\ change' = [change EXCEPT ![c] = NoChange]
      /\ todo' = [todo EXCEPT ![c] = {}]
      /\ UNCHANGED <<live, journal, version, good, torn>>
      /\ cut' = IF Holding(c) THEN cut \union torn ELSE cut
  BY DEF Crash, CrashClient, Goto, files, history, Interrupted
<1>2. Types'
  <2>1. cut' \in SUBSET Parts
    BY <1>1 DEF DirInv, Base, Types
  <2> QED
    BY <1>1, <2>1, EmptyOnPaths DEF DirInv, Base, Types, LockTypeOK, Labels
<1>3. LockInv' /\ HoldersFresh'
  BY <1>1 DEF DirInv, Base, Types, LockInv, RowTypes, RowsCompatible, HoldersFresh, Holding
<1>4. /\ pc'[c] = "dead"
      /\ \A d \in Clients \ {c} : /\ pc'[d] = pc[d] /\ change'[d] = change[d]
                                  /\ todo'[d] = todo[d]
  BY <1>1 DEF DirInv, Base, Types
<1>5. \A d \in Clients : Task(d)'
  BY <1>1, <1>4 DEF DirInv, Base, Task, Publishing
<1>6. ASSUME Full, Safe' PROVE Full'
  <2>1. \A d \in Clients : Phase(d)'
    BY <1>1, <1>4, <1>6 DEF Full, Phase, RollingBack, Publishing, MustRollBack
  <2>2. "marker" \in torn => \E d \in Clients : Removing(d)'
    <3> SUFFICES ASSUME "marker" \in torn PROVE \E d \in Clients : Removing(d)'
      OBVIOUS
    <3>1. ~Holding(c)
      BY <1>1, <1>6 DEF Safe
    <3>2. PICK d \in Clients : Removing(d)
      BY <1>6 DEF Full, Core
    <3>3. d # c
      BY <3>1, <3>2, RemovingWhere DEF Holding, RollingBack
    <3> QED
      BY <1>4, <3>2, <3>3 DEF Removing
  <2>3. UNCHANGED <<Recovered, Recorded, MustRollBack>>
    BY <1>1 DEF Recovered, Recorded, MustRollBack
  <2> QED
    BY <1>1, <1>6, <2>1, <2>2, <2>3 DEF Full, Core
<1> QED
  BY <1>1, <1>2, <1>3, <1>5, <1>6 DEF DirInv, Base, Safe

-----------------------------------------------------------------------------
(* The invariant *)

LEMMA DirInit == Init => DirInv /\ Full
<1> SUFFICES ASSUME Init PROVE DirInv /\ Full
  OBVIOUS
<1> USE DEF Init
<1>1. Types
  <2>1. live \in [Paths -> Contents]
    BY DirectoryAssumption DEF Contents
  <2>2. journal \in Journals
    BY NoJournalType
  <2>3. change \in [Clients -> OnPaths(Contents \ {Empty})]
    BY EmptyOnPaths
  <2>4. LockTypeOK /\ pc \in [Clients -> Labels]
    BY LockAssumption DEF LockInit, LockTypeOK, Labels
  <2>5. todo \in [Clients -> SUBSET Paths]
    OBVIOUS
  <2>6. version \in 0 .. MaxVersion
    BY DirectoryAssumption
  <2>7. good \in [Paths -> Contents] /\ torn \in SUBSET Parts /\ cut \in SUBSET Parts
    BY <2>1
  <2> QED
    BY ONLY <2>1, <2>2, <2>3, <2>4, <2>5, <2>6, <2>7 DEF Types
<1>2. LockInv /\ HoldersFresh
  BY DEF LockInit, LockInv, RowTypes, RowsCompatible, HoldersFresh, Holding
<1>3. Core
  BY <1>1 DEF Types, Core, Recovered, MustRollBack, NoJournal
<1>4. \A c \in Clients : Phase(c) /\ Task(c)
  BY PhaseOfOthers DEF LockInit, Holding
<1> QED
  BY <1>1, <1>2, <1>3, <1>4 DEF DirInv, Base, Full

LEMMA DirStep ==
  ASSUME DirInv, Assumed, [Next]_vars PROVE DirInv'
<1>1. CASE LockStep /\ UNCHANGED <<files, change, todo, history>>
  BY <1>1, LockPart
<1>2. CASE UNCHANGED vars
  <2>1. UNCHANGED <<pc, row, seen, owners, live, journal, version, change, todo, good,
                    torn, cut>>
    BY <1>2 DEF vars, lock, files, history
  <2>2. Types' /\ LockInv' /\ HoldersFresh'
    BY <2>1 DEF DirInv, Base, Types, LockTypeOK, LockInv, RowTypes, RowsCompatible,
                HoldersFresh, Holding
  <2>3. \A c \in Clients : Task(c)' = Task(c) /\ Phase(c)' = Phase(c)
                                              /\ Removing(c)' = Removing(c)
    BY <2>1 DEF Task, Phase, MustRollBack, Removing
  <2>4. Core => Core'
    BY <2>1, <2>3 DEF Core, Recovered, Recorded, MustRollBack
  <2> QED
    BY <2>1, <2>2, <2>3, <2>4 DEF DirInv, Base, Full, Safe
<1>3. ASSUME NEW c \in Clients, Recover(c) PROVE DirInv'
  BY <1>3, StartSessionKeeps, OpenJournalKeeps, RestoreFileKeeps,
     FinishRecoveryKeeps, FailRecoveryKeeps DEF Recover
<1>4. ASSUME NEW c \in Clients, Commit(c) PROVE DirInv'
  BY <1>4, CreateJournalKeeps, BackUpKeeps, CreateFileKeeps, PublishFileKeeps,
     CreatePendingKeeps, WritePendingKeeps, CreateCommittedKeeps, FailCommitKeeps,
     RemoveJournalKeeps DEF Commit
<1>5. ASSUME NEW c \in Clients,
             \/ RemovePart(c) \/ CallCommit(c) \/ StartReplacement(c)
             \/ FailStaging(c) \/ FinishSession(c) \/ Crash(c)
      PROVE  DirInv'
  BY <1>5, RemovePartKeeps, CallCommitKeeps, StartReplacementKeeps, EndsKeep,
     CrashKeeps
<1> QED
  BY <1>1, <1>2, <1>3, <1>4, <1>5 DEF Next

\* The inductive invariant: types and the exclusion of the lock whatever happens,
\* and, until a removal is interrupted between the marker and pending.json, that
\* the archive can be recovered to the last publication and that each client knows
\* how far it has come.
THEOREM DirInvariance == ASSUME Assumed PROVE Spec => []DirInv
<1>1. DirInv /\ [Next]_vars => DirInv'
  BY DirStep
<1> QED
  BY <1>1, DirInit, PTL DEF Spec

\* Every variable of a directory archive keeps its type, the journal's and the
\* publications' included, whatever is interrupted.
THEOREM DirTypes == ASSUME Assumed PROVE Spec => []TypeOK
<1>1. Types => TypeOK
  BY DEF Types, TypeOK, Labels, OnPaths, Journals, Parts
<1> QED
  BY <1>1, DirInvariance, PTL DEF DirInv, Base

\* A session works on the last committed publication, whatever crashed or failed
\* before it and wherever, unless a removal was interrupted between the marker and
\* pending.json.
THEOREM SessionTheorem == ASSUME Assumed PROVE Spec => []SessionSeesCommitted
<1>1. DirInv => SessionSeesCommitted
  BY Settled DEF DirInv, Full, Phase, SessionSeesCommitted, CommittedStays, Safe
<1> QED
  BY <1>1, DirInvariance, PTL

\* No file is ever changed whose undo record is not in a complete journal.
THEOREM UndoableTheorem == ASSUME Assumed PROVE Spec => []Undoable
<1>1. DirInv => Undoable
  BY DEF DirInv, Base, Types, Full, Core, Recovered, Undoable, Safe
<1> QED
  BY <1>1, DirInvariance, PTL

\* What pending.json stands without is somebody's: a live client's that is still
\* at it, or it was left by an interrupted one.
TornOwned == torn \subseteq cut \/ Busy

\* A holder that neither creates nor removes a journal finds it left by others.
LEMMA TornLeft ==
  ASSUME DirInv, TornOwned, NEW c \in Clients, Holding(c),
         pc[c] # "pending", ~Removing(c), UNCHANGED <<torn, cut>>
  PROVE  TornOwned'
<1>1. \A d \in Clients : pc[d] = "pending" \/ Removing(d) => Holding(d)
  BY RemovingWhere DEF RollingBack, Holding
<1>2. ~Busy
  BY <1>1, Alone DEF Busy, DirInv
<1> QED
  BY <1>2 DEF TornOwned

\* An interruption records it, and a complete journal stands without nothing.
LEMMA TornSettled ==
  ASSUME DirInv, Interrupted \/ torn' = {} PROVE TornOwned'
BY DEF TornOwned, Interrupted

\* Who keeps a live client where it is keeps what that client is at.
LEMMA TornElsewhere ==
  ASSUME TornOwned, UNCHANGED <<torn, cut>>,
         \A d \in Clients : pc[d] = "pending" \/ Removing(d) =>
                              pc'[d] = pc[d] /\ todo'[d] = todo[d]
  PROVE  TornOwned'
BY DEF TornOwned, Busy, Removing

LEMMA TornStep ==
  ASSUME DirInv, TornOwned, Assumed, [Next]_vars PROVE TornOwned'
<1>1. CASE LockStep /\ UNCHANGED <<files, change, todo, history>>
  <2>1. LockKept(Labels)
    BY <1>1, LockStepKeeps DEF DirInv, Base, Types, Assumed, Labels
  <2> QED
    BY <1>1, <2>1, TornElsewhere, RemovingWhere
       DEF LockKept, Holding, RollingBack, history
<1>2. CASE UNCHANGED vars
  BY <1>2, TornElsewhere DEF vars, lock, history
<1>3. ASSUME NEW c \in Clients, Recover(c) PROVE TornOwned'
  <2>1. CASE StartSession(c)
    BY <2>1, TornLeft, RemovingWhere DEF StartSession, Holding, RollingBack, history
  <2>2. CASE OpenJournal(c)
    BY <2>2, TornLeft, RemovingWhere
       DEF OpenJournal, Recovering, Holding, RollingBack, history
  <2>3. ASSUME NEW p \in Paths, RestoreFile(c, p) PROVE TornOwned'
    BY <2>3, TornLeft, RemovingWhere, RollbackLabels
       DEF RestoreFile, Holding, RollingBack, history
  <2>4. CASE FinishRecovery(c)
    BY <2>4, TornSettled DEF FinishRecovery
  <2>5. CASE FailRecovery(c)
    BY <2>5, TornSettled DEF FailRecovery
  <2> QED
    BY <1>3, <2>1, <2>2, <2>3, <2>4, <2>5 DEF Recover
<1>4. ASSUME NEW c \in Clients, Commit(c) PROVE TornOwned'
  <2>1. CASE CreateJournal(c)
    BY <2>1, TornLeft, RemovingWhere DEF CreateJournal, Holding, RollingBack, history
  <2>2. ASSUME NEW p \in Paths, BackUp(c, p) \/ CreateFile(c, p) \/ PublishFile(c, p)
        PROVE  TornOwned'
    BY <2>2, TornLeft, RemovingWhere
       DEF BackUp, CreateFile, PublishFile, Holding, RollingBack, history
  <2>3. CASE CreatePending(c)
    <3>1. pc'[c] = "pending"
      BY <2>3 DEF CreatePending, Goto, DirInv, Base, Types
    <3> QED
      BY <3>1 DEF TornOwned, Busy
  <2>4. CASE WritePending(c)
    BY <2>4, TornSettled DEF WritePending
  <2>5. CASE CreateCommitted(c)
    BY <2>5, TornLeft, RemovingWhere DEF CreateCommitted, Holding, RollingBack
  <2>6. CASE FailCommit(c) \/ RemoveJournal(c)
    BY <2>6, TornSettled DEF FailCommit, RemoveJournal
  <2> QED
    BY <1>4, <2>1, <2>2, <2>3, <2>4, <2>5, <2>6 DEF Commit
<1>5. ASSUME NEW c \in Clients, RemovePart(c) PROVE TornOwned'
  <2>1. pc[c] \in {"committed", "remove"} \/ (pc[c] \in RollingBack /\ todo[c] = {})
    BY <1>5, RemovingWhere DEF RemovePart
  <2>2. /\ pc'[c] = (IF pc[c] = "committed" THEN "remove" ELSE pc[c])
        /\ todo' = todo
    BY <1>5 DEF RemovePart, DirInv, Base, Types
  <2>3. Removing(c)'
    BY <2>1, <2>2, RollbackLabels DEF Removing, RollingBack
  <2> QED
    BY <2>3 DEF TornOwned, Busy
<1>6. ASSUME NEW c \in Clients,
             CallCommit(c) \/ StartReplacement(c) \/ FailStaging(c) \/ FinishSession(c)
      PROVE  TornOwned'
  <2>1. pc[c] \in {"session", "held"} /\ UNCHANGED <<torn, cut>>
    BY <1>6 DEF CallCommit, StartReplacement, FailStaging, FinishSession, Finish, history
  <2> QED
    BY <2>1, TornLeft, RemovingWhere DEF Holding, RollingBack
<1>7. ASSUME NEW c \in Clients, Crash(c) PROVE TornOwned'
  <2>1. CASE Holding(c)
    BY <1>7, <2>1, TornSettled DEF Crash
  <2>2. CASE ~Holding(c)
    <3>1. UNCHANGED <<torn, cut>>
      BY <1>7, <2>2 DEF Crash, history
    <3>2. \A d \in Clients \ {c} : pc'[d] = pc[d] /\ todo'[d] = todo[d]
      BY <1>7 DEF Crash, CrashClient, Goto, DirInv, Base, Types
    <3>3. pc[c] # "pending" /\ ~Removing(c)
      BY <2>2, RemovingWhere DEF Holding, RollingBack
    <3> QED
      BY <3>1, <3>2, <3>3, TornElsewhere
  <2> QED
    BY <2>1, <2>2
<1> QED
  BY <1>1, <1>2, <1>3, <1>4, <1>5, <1>6, <1>7 DEF Next

\* Recovery never meets a journal it has to roll back and cannot, unless the
\* creation or the removal of a journal was interrupted while pending.json stood
\* without its content or its copies.
THEOREM RecoverableTheorem == ASSUME Assumed PROVE Spec => []Recoverable
<1>1. Init => DirInv /\ TornOwned
  BY DirInit DEF Init, TornOwned
<1>2. DirInv /\ TornOwned /\ [Next]_vars => (DirInv /\ TornOwned)'
  BY DirStep, TornStep
<1>3. DirInv /\ TornOwned => Recoverable
  <2> SUFFICES ASSUME DirInv, TornOwned, ~Busy, cut = {}
               PROVE  /\ ~journal.blank
                      /\ MustRollBack =>
                           \A p \in DOMAIN journal.pending :
                             journal.pending[p] => journal.before[p] # Absent
    BY DEF Recoverable
  <2>1. torn = {} /\ Core
    BY DEF TornOwned, DirInv, Safe, Full
  <2> QED
    BY <2>1 DEF Core, Recorded
<1> QED
  BY <1>1, <1>2, <1>3, PTL DEF Spec

-----------------------------------------------------------------------------
(* The refinement *)

Mapped == <<Recovered, View, Requested>>
AtomicStep == Atomic!Next \/ UNCHANGED Mapped

\* The invariant while the archive can be recovered.
SafeInv == Base /\ Full

\* A holder's step changes no view and no request but its own, and nobody else
\* has one.
LEMMA HolderMap ==
  ASSUME Base, NEW c \in Clients, Holding(c), NEW l,
         pc' = [pc EXCEPT ![c] = l], NEW x, change' = [change EXCEPT ![c] = x]
  PROVE  /\ View' = [View EXCEPT ![c] = IF l = "session" THEN live' ELSE NoChange]
         /\ Requested' = [Requested EXCEPT ![c] = IF l \in Publishing THEN x
                                                                      ELSE NoChange]
         /\ \A d \in Clients \ {c} : View[d] = NoChange
<1>1. pc'[c] = l /\ change'[c] = x
  BY DEF Base, Types
<1>2. \A d \in Clients \ {c} : pc'[d] = pc[d] /\ change'[d] = change[d]
  BY DEF Base, Types
<1>3. \A d \in Clients \ {c} : pc[d] # "session"
  BY Alone DEF Holding
<1> QED
  BY <1>1, <1>2, <1>3 DEF View, Requested

\* A holder that throws has neither afterwards.
LEMMA HolderLoses ==
  ASSUME Base, NEW c \in Clients, Holding(c), NEW l, l # "session",
         pc' = [pc EXCEPT ![c] = l], change' = [change EXCEPT ![c] = NoChange]
  PROVE  /\ View' = [View EXCEPT ![c] = NoChange]
         /\ Requested' = [Requested EXCEPT ![c] = NoChange]
<1>1. /\ View' = [View EXCEPT ![c] = IF l = "session" THEN live' ELSE NoChange]
      /\ Requested' = [Requested EXCEPT ![c] = IF l \in Publishing THEN NoChange
                                                                  ELSE NoChange]
  BY HolderMap
<1> QED
  BY <1>1

\* Steps without a change of the committed files, outside sessions and requests.
LEMMA Stutter ==
  ASSUME SafeInv, SafeInv', good' = good,
         \A d \in Clients : /\ pc'[d] = "session" <=> pc[d] = "session"
                            /\ pc[d] = "session" => live' = live
                            /\ pc'[d] \in Publishing <=> pc[d] \in Publishing
                            /\ pc[d] \in Publishing => change'[d] = change[d]
  PROVE  AtomicStep
<1>1. Recovered' = Recovered
  BY DEF SafeInv, Full, Core
<1>2. View' = View /\ Requested' = Requested
  BY DEF View, Requested
<1> QED
  BY <1>1, <1>2 DEF AtomicStep, Mapped

\* A client that loses its request by a failure or a crash.
LEMMA AbandonStep ==
  ASSUME SafeInv, SafeInv', NEW c \in Clients, pc[c] \in Publishing, good' = good,
         View' = [View EXCEPT ![c] = NoChange],
         Requested' = [Requested EXCEPT ![c] = NoChange]
  PROVE  AtomicStep
<1>1. Requested[c] # NoChange /\ View[c] = NoChange
  BY DEF SafeInv, Base, Task, Requested, View, Publishing
<1>2. View' = View /\ Recovered' = Recovered
  BY <1>1 DEF View, SafeInv, Full, Core
<1>3. Atomic!Abandon(c)
  BY <1>1, <1>2 DEF Atomic!Abandon, Atomic!Nothing, NoChange
<1> QED
  BY <1>3 DEF AtomicStep, Atomic!Next

\* A client that opens a session on the recovered files.
LEMMA OpenStep ==
  ASSUME SafeInv, SafeInv', NEW c \in Clients, Holding(c), good' = good,
         live' = good, pc[c] \notin Publishing \union {"session"},
         pc' = [pc EXCEPT ![c] = "session"], NEW x,
         change' = [change EXCEPT ![c] = x]
  PROVE  AtomicStep
<1>1. live' = Recovered /\ Recovered' = Recovered
  BY DEF SafeInv, Full, Core
<1>2. View[c] = NoChange /\ Requested[c] = NoChange
  BY DEF View, Requested
<1>3. View' = [View EXCEPT ![c] = Recovered]
  BY <1>1, HolderMap DEF SafeInv
<1>4. Requested' = Requested
  BY <1>2, HolderMap DEF Publishing, Requested, SafeInv
<1>5. Atomic!Open(c)
  BY <1>1, <1>2, <1>3, <1>4 DEF Atomic!Open, Atomic!Nothing, NoChange
<1> QED
  BY <1>5 DEF AtomicStep, Atomic!Next

LEMMA RecoverRefines ==
  ASSUME SafeInv, SafeInv', DirInv, NEW c \in Clients, Recover(c) PROVE AtomicStep
<1>1. CASE StartSession(c)
  BY <1>1, Stutter DEF StartSession, Goto, SafeInv, Base, Types, Publishing, files, history
<1>2. CASE OpenJournal(c)
  <2>1. pc[c] \in Recovering /\ UNCHANGED <<live, change, good>>
    BY <1>2 DEF OpenJournal, files, history
  <2>2. /\ pc'[c] = Rollback[pc[c]]
        /\ \A d \in Clients \ {c} : pc'[d] = pc[d]
    BY <1>2 DEF OpenJournal, Goto, SafeInv, Base, Types
  <2>3. /\ Rollback[pc[c]] # "session" /\ pc[c] # "session"
        /\ Rollback[pc[c]] \in Publishing <=> pc[c] \in Publishing
    BY <2>1 DEF Rollback, Recovering, Publishing
  <2> QED
    BY <2>1, <2>2, <2>3, Stutter
<1>3. ASSUME NEW p \in Paths, RestoreFile(c, p) PROVE AtomicStep
  <2>1. pc[c] \in RollingBack /\ Holding(c)
    BY <1>3, RollbackLabels DEF RestoreFile, RollingBack, Holding
  <2>2. \A d \in Clients : pc[d] # "session"
    BY <2>1, Alone DEF RollingBack, Holding, SafeInv
  <2> QED
    BY <1>3, <2>2, Stutter DEF RestoreFile, history
<1>4. CASE FinishRecovery(c)
  <2>1. pc[c] \in Recovering \union RollingBack /\ Holding(c)
    BY <1>4, RollbackLabels DEF FinishRecovery, RollingBack, Recovering, Holding
  <2>2. UNCHANGED <<live, change, good>> /\ pc' = [pc EXCEPT ![c] = Resumes(pc[c])]
    BY <1>4 DEF FinishRecovery, Goto
  <2>3. CASE pc[c] \in {"recover", "rollback"}
    <3>1. live' = good
      BY <1>4, <2>2, FinishRecoveryKeeps DEF SafeInv
    <3>2. pc' = [pc EXCEPT ![c] = "session"]
      BY <2>2, <2>3 DEF Resumes
    <3>3. change' = [change EXCEPT ![c] = change[c]]
      BY <2>2 DEF SafeInv, Base, Types
    <3>4. pc[c] \notin Publishing \union {"session"}
      BY <2>3 DEF Publishing
    <3> QED
      BY <2>1, <2>2, <3>1, <3>2, <3>3, <3>4, OpenStep
  <2>4. CASE pc[c] \notin {"recover", "rollback"}
    <3>1. Resumes(pc[c]) \in {"begin", "release"}
      BY <2>1, <2>4 DEF Resumes, Recovering, RollingBack
    <3>2. Resumes(pc[c]) = "begin" <=> pc[c] \in {"precommit", "prerollback"}
      BY <2>1, <2>4 DEF Resumes, Recovering, RollingBack
    <3>3. \A d \in Clients \ {c} : pc'[d] = pc[d]
      BY <2>2 DEF SafeInv, Base, Types
    <3>4. pc'[c] = Resumes(pc[c])
      BY <2>2 DEF SafeInv, Base, Types
    <3> QED
      BY <2>1, <2>2, <3>1, <3>2, <3>3, <3>4, Stutter
         DEF Publishing, Recovering, RollingBack
  <2> QED
    BY <2>3, <2>4
<1>5. CASE FailRecovery(c)
  <2>1. pc[c] \in Recovering \union RollingBack /\ Holding(c)
    BY <1>5, RollbackLabels DEF FailRecovery, RollingBack, Recovering, Holding
  <2>2. /\ pc' = [pc EXCEPT ![c] = "release"]
        /\ change' = [change EXCEPT ![c] = NoChange]
        /\ UNCHANGED <<live, journal, good>>
    BY <1>5 DEF FailRecovery, Goto, files, Interrupted
  <2>3. CASE pc[c] \in Publishing
    <3>1. /\ View' = [View EXCEPT ![c] = NoChange]
          /\ Requested' = [Requested EXCEPT ![c] = NoChange]
      BY <2>1, <2>2, HolderLoses DEF SafeInv
    <3> QED
      BY <2>2, <2>3, <3>1, AbandonStep
  <2>4. CASE pc[c] \notin Publishing
    <3>1. /\ pc'[c] = "release" /\ pc[c] # "session"
          /\ \A d \in Clients \ {c} : pc'[d] = pc[d] /\ change'[d] = change[d]
      BY <2>1, <2>2 DEF SafeInv, Base, Types, Recovering, RollingBack
    <3> QED
      BY <2>2, <2>4, <3>1, Stutter DEF Publishing
  <2> QED
    BY <2>3, <2>4
<1> QED
  BY <1>1, <1>2, <1>3, <1>4, <1>5 DEF Recover

\* The creation of `committed` is the publication.
LEMMA CreateCommittedRefines ==
  ASSUME SafeInv, SafeInv', NEW c \in Clients, CreateCommitted(c)
  PROVE  Atomic!Publish(c)
<1>1. Holding(c) /\ pc' = [pc EXCEPT ![c] = "committed"]
  BY DEF CreateCommitted, Holding, Goto
<1>2. change' = [change EXCEPT ![c] = change[c]] /\ good' = live
  BY DEF CreateCommitted, SafeInv, Base, Types
<1>3. Requested[c] = change[c] /\ change[c] # NoChange /\ View[c] = NoChange
  BY DEF CreateCommitted, SafeInv, Base, Task, Requested, View, Publishing
<1>4. \A d \in Clients : View[d] = NoChange
  BY <1>1, <1>2, <1>3, HolderMap DEF SafeInv
<1>5. /\ View' = [View EXCEPT ![c] = NoChange]
      /\ Requested' = [Requested EXCEPT ![c] = NoChange]
  <2>1. "committed" \notin Publishing
    BY DEF Publishing
  <2>2. Base
    BY DEF SafeInv
  <2>3. /\ View' = [View EXCEPT ![c] = IF "committed" = "session" THEN live'
                                                                ELSE NoChange]
        /\ Requested' = [Requested EXCEPT ![c] = IF "committed" \in Publishing
                                                 THEN change[c] ELSE NoChange]
    BY ONLY <2>2, <1>1, <1>2, HolderMap
  <2> QED
    BY <2>1, <2>3
<1>6. View' = View
  BY <1>3, <1>5 DEF View
<1>7. Recovered' = Atomic!Applied(Requested[c])
  <2>1. Recovered' = live
    BY <1>2 DEF SafeInv, Full, Core
  <2>2. \A p \in DOMAIN change[c] : live[p] = change[c][p]
    BY DEF CreateCommitted, SafeInv, Full, Phase
  <2>3. \A p \in Paths \ DOMAIN change[c] : Recovered[p] = live[p]
    BY DEF CreateCommitted, SafeInv, Full, Phase, Recovered
  <2>4. live = [p \in Paths |-> live[p]]
    BY DEF SafeInv, Base, Types
  <2> QED
    BY <1>3, <2>1, <2>2, <2>3, <2>4 DEF Atomic!Applied
<1> QED
  BY <1>3, <1>4, <1>5, <1>6, <1>7 DEF Atomic!Publish, Atomic!Nothing, NoChange

LEMMA CommitRefines ==
  ASSUME SafeInv, SafeInv', DirInv, NEW c \in Clients, Commit(c) PROVE AtomicStep
<1>1. CASE CreateJournal(c)
  BY <1>1, Stutter DEF CreateJournal, Goto, SafeInv, Base, Types, Publishing, history
<1>2. ASSUME NEW p \in Paths, BackUp(c, p) \/ CreateFile(c, p) \/ PublishFile(c, p)
      PROVE  AtomicStep
  <2>1. pc[c] \in {"backup", "publish"} /\ UNCHANGED <<pc, change, good>>
    BY <1>2 DEF BackUp, CreateFile, PublishFile, history
  <2>2. \A d \in Clients : pc[d] # "session"
    BY <2>1, Alone DEF Holding, SafeInv
  <2> QED
    BY <2>1, <2>2, Stutter
<1>3. CASE CreatePending(c) \/ WritePending(c)
  BY <1>3, Stutter
     DEF CreatePending, WritePending, Goto, SafeInv, Base, Types, Publishing
<1>4. CASE CreateCommitted(c)
  BY <1>4, CreateCommittedRefines DEF AtomicStep, Atomic!Next
<1>5. CASE FailCommit(c)
  <2>1. Holding(c) /\ pc[c] \in {"backup", "pending", "publish", "committed"}
    BY <1>5 DEF FailCommit, Holding
  <2>2. /\ pc' = [pc EXCEPT ![c] = "undo"]
        /\ change' = [change EXCEPT ![c] = NoChange]
        /\ UNCHANGED <<live, journal, good>>
    BY <1>5 DEF FailCommit, Goto, files, Interrupted
  <2>3. CASE pc[c] \in Publishing
    <3>1. /\ View' = [View EXCEPT ![c] = NoChange]
          /\ Requested' = [Requested EXCEPT ![c] = NoChange]
      BY <2>1, <2>2, HolderLoses DEF SafeInv
    <3> QED
      BY <2>2, <2>3, <3>1, AbandonStep
  <2>4. CASE pc[c] \notin Publishing
    BY <2>1, <2>2, <2>4, Stutter DEF SafeInv, Base, Types, Publishing
  <2> QED
    BY <2>3, <2>4
<1>6. CASE RemoveJournal(c)
  <2>1. Holding(c) /\ pc[c] \in {"committed", "remove"} /\ UNCHANGED <<live, good>>
    BY <1>6 DEF RemoveJournal, Holding, Interrupted
  <2>2. change' = [change EXCEPT ![c] = NoChange]
    BY <1>6 DEF RemoveJournal
  <2>3. CASE c \in Replacers
    <3>1. pc' = [pc EXCEPT ![c] = "release"]
      BY <1>6, <2>3 DEF RemoveJournal, Goto
    <3> QED
      BY <2>1, <2>2, <3>1, Stutter DEF SafeInv, Base, Types, Publishing
  <2>4. CASE c \notin Replacers
    <3>1. pc' = [pc EXCEPT ![c] = "session"]
      BY <1>6, <2>4 DEF RemoveJournal, Goto
    <3>2. live' = good
      BY <1>6, <2>1, RemoveJournalKeeps DEF SafeInv
    <3>3. pc[c] \notin Publishing \union {"session"}
      BY <2>1 DEF Publishing
    <3> QED
      BY <2>1, <2>2, <3>1, <3>2, <3>3, OpenStep
  <2> QED
    BY <2>3, <2>4
<1> QED
  BY <1>1, <1>2, <1>3, <1>4, <1>5, <1>6 DEF Commit

\* Files are not nothing: a session's view differs from no view.
LEMMA LiveIsSomething ==
  ASSUME Base PROVE live # NoChange
<1>1. DOMAIN live = Paths /\ Paths # {}
  BY DirectoryAssumption DEF Base, Types
<1> QED
  BY <1>1, EmptyDomains

LEMMA RequestRefines ==
  ASSUME SafeInv, SafeInv', NEW c \in Clients, CallCommit(c) \/ StartReplacement(c)
  PROVE  AtomicStep
<1>1. /\ Holding(c) /\ pc[c] \in {"session", "held"}
      /\ pc' = [pc EXCEPT ![c] = "precommit"]
      /\ UNCHANGED <<live, good>>
  BY DEF CallCommit, StartReplacement, Goto, Holding, files, history
<1>2. PICK x : change' = [change EXCEPT ![c] = x]
  BY DEF CallCommit, StartReplacement
<1>3. /\ change'[c] = x /\ x # NoChange
      /\ x \in OnPaths(Contents \ {Empty})
  BY <1>1, <1>2 DEF SafeInv, Base, Types, Task, Publishing
<1>4. Requested[c] = NoChange
  BY <1>1 DEF Requested, Publishing
<1>5. Requested' = [Requested EXCEPT ![c] = x]
  BY <1>1, <1>2, HolderMap DEF Publishing, SafeInv
<1>6. View' = [View EXCEPT ![c] = NoChange]
  <2>1. Base
    BY DEF SafeInv
  <2>2. View' = [View EXCEPT ![c] = IF "precommit" = "session" THEN live' ELSE NoChange]
    BY ONLY <2>1, <1>1, <1>2, HolderMap
  <2> QED
    BY <2>2
<1>7. Recovered' = Recovered
  BY <1>1 DEF SafeInv, Full, Core
<1>8. Requested'[c] = x
  BY <1>5 DEF Requested
<1>9. DOMAIN x \subseteq Paths /\ \A p \in DOMAIN x : x[p] \in 0 .. MaxVersion \union {Absent}
  <2>1. Contents \ {Empty} \subseteq 0 .. MaxVersion \union {Absent}
    BY DEF Contents
  <2> QED
    BY <1>3, <2>1 DEF OnPaths
<1>10. Atomic!Request(c)
  BY <1>3, <1>4, <1>5, <1>6, <1>7, <1>8, <1>9
     DEF Atomic!Request, Atomic!Nothing, NoChange
<1> QED
  BY <1>10 DEF AtomicStep, Atomic!Next

\* The end of a session, by return or by crash, and a crash elsewhere.
LEMMA EndRefines ==
  ASSUME SafeInv, SafeInv', NEW c \in Clients,
         FailStaging(c) \/ FinishSession(c) \/ Crash(c)
  PROVE  AtomicStep
<1>1. /\ pc' = [pc EXCEPT ![c] = "release"] \/ pc' = [pc EXCEPT ![c] = "dead"]
      /\ UNCHANGED <<live, journal, good>>
      /\ \A d \in Clients \ {c} : change'[d] = change[d]
  BY DEF FailStaging, Finish, FinishSession, Crash, CrashClient, Goto, files, history,
         Interrupted, SafeInv, Base, Types
<1>2. /\ pc'[c] \in {"release", "dead"}
      /\ \A d \in Clients \ {c} : pc'[d] = pc[d]
  BY <1>1 DEF SafeInv, Base, Types
<1>3. Recovered' = Recovered
  BY <1>1 DEF SafeInv, Full, Core
<1>4. /\ View' = [View EXCEPT ![c] = NoChange]
      /\ Requested' = [Requested EXCEPT ![c] = NoChange]
  BY <1>1, <1>2 DEF View, Requested, Publishing
<1>5. CASE pc[c] = "session"
  <2>1. View[c] # NoChange /\ Requested[c] = NoChange
    BY <1>5, LiveIsSomething DEF View, Requested, Publishing, SafeInv
  <2>2. Requested' = Requested
    BY <1>4, <2>1 DEF Requested
  <2>3. Atomic!Close(c)
    BY <1>3, <1>4, <2>1, <2>2 DEF Atomic!Close, Atomic!Nothing, NoChange
  <2> QED
    BY <2>3 DEF AtomicStep, Atomic!Next
<1>6. CASE pc[c] \in Publishing
  BY <1>1, <1>4, <1>6, AbandonStep
<1>7. CASE pc[c] # "session" /\ pc[c] \notin Publishing
  BY <1>1, <1>2, <1>7, Stutter DEF Publishing
<1> QED
  BY <1>5, <1>6, <1>7

LEMMA RefinementStep ==
  ASSUME DirInv, DirInv', Assumed, [Next]_vars, Safe, Safe' PROVE AtomicStep
<1>1. SafeInv /\ SafeInv'
  BY DEF DirInv, SafeInv
<1>2. CASE LockStep /\ UNCHANGED <<files, change, todo, history>>
  <2>1. LockKept(Labels)
    BY <1>2, LockStepKeeps DEF DirInv, Base, Types, Assumed, Labels
  <2>2. \A d \in Clients : /\ pc'[d] = "session" <=> pc[d] = "session"
                           /\ pc'[d] \in Publishing <=> pc[d] \in Publishing
    BY <2>1 DEF LockKept, Holding, Publishing
  <2> QED
    BY <1>1, <1>2, <2>2, Stutter DEF files, history
<1>3. CASE UNCHANGED vars
  BY <1>1, <1>3, Stutter DEF vars, lock, files, history
<1>4. ASSUME NEW c \in Clients, RemovePart(c) PROVE AtomicStep
  <2>1. /\ pc' = [pc EXCEPT ![c] = IF @ = "committed" THEN "remove" ELSE @]
        /\ UNCHANGED <<live, change, good>>
    BY <1>4 DEF RemovePart
  <2>2. \A d \in Clients \ {c} : pc'[d] = pc[d]
    BY <2>1 DEF DirInv, Base, Types
  <2>3. pc'[c] = IF pc[c] = "committed" THEN "remove" ELSE pc[c]
    BY <2>1 DEF DirInv, Base, Types
  <2>4. \A d \in Clients : /\ pc'[d] = "session" <=> pc[d] = "session"
                           /\ pc'[d] \in Publishing <=> pc[d] \in Publishing
    BY <2>2, <2>3 DEF Publishing
  <2> QED
    BY <1>1, <2>1, <2>4, Stutter
<1>5. ASSUME NEW c \in Clients,
             \/ Recover(c) \/ Commit(c) \/ CallCommit(c) \/ StartReplacement(c)
             \/ FailStaging(c) \/ FinishSession(c) \/ Crash(c)
      PROVE  AtomicStep
  BY <1>1, <1>5, RecoverRefines, CommitRefines, RequestRefines, EndRefines
<1> QED
  BY <1>2, <1>3, <1>4, <1>5 DEF Next

\* What was interrupted stays interrupted.
LEMMA CutGrows ==
  ASSUME [Next]_vars PROVE cut \subseteq cut'
BY DEF Next, vars, history, Interrupted, Recover, Commit, StartSession, OpenJournal,
       RestoreFile, FinishRecovery, FailRecovery, CreateJournal, BackUp, CreatePending,
       WritePending, CreateFile, PublishFile, CreateCommitted, FailCommit,
       RemoveJournal, RemovePart, CallCommit, StartReplacement, FailStaging,
       FinishSession, Crash

\* A directory archive is atomic: with any number of clients and files, whatever
\* crashes and fails, it does only what AtomicArchive does, until a removal is
\* interrupted between the marker and pending.json.
THEOREM DirectoryIsAtomic == ASSUME Assumed PROVE Spec => ImplementsAtomic
<1>1. Init => Atomic!Init
  <2> SUFFICES ASSUME Init PROVE Atomic!Init
    OBVIOUS
  <2>1. Recovered = live /\ live \in [Paths -> {0, Absent}]
    BY DirInit DEF Init, Full, Core
  <2>2. {0, Absent} \subseteq 0 .. MaxVersion \union {Absent}
    BY DirectoryAssumption
  <2>3. View = [c \in Clients |-> NoChange] /\ Requested = [c \in Clients |-> NoChange]
    BY DEF Init, LockInit, View, Requested, Publishing
  <2> QED
    BY <2>1, <2>2, <2>3 DEF Atomic!Init, Atomic!Nothing, NoChange
<1>2. DirInv /\ DirInv' /\ [Next]_vars =>
        [Atomic!Next \/ "marker" \in cut']_<<Recovered, View, Requested>>
  <2> SUFFICES ASSUME DirInv, DirInv', [Next]_vars, "marker" \notin cut'
               PROVE  AtomicStep
    BY DEF AtomicStep, Mapped
  <2> QED
    BY CutGrows, RefinementStep DEF Safe
<1> QED
  BY <1>1, <1>2, DirInvariance, PTL DEF Spec, ImplementsAtomic
=============================================================================
