------------------------ MODULE ArchiveCoordinator ------------------------
(***************************************************************************)
(* The reader/settlement protocol of one `.wikg` archive                   *)
(* (packages/core/src/storage/wikg/wikg-coordinator): sessions in several  *)
(* processes share the coordinator database (owners, settlement phases,    *)
(* commit and replacement fences, entry locks, overlays) and the archive   *)
(* file.  A session publishes writes as overlays, rolls them back when it  *)
(* fails, and settles them into the archive once no foreign reader is      *)
(* left.                                                                   *)
(*                                                                         *)
(* One action is one coordinator transaction (BEGIN IMMEDIATE) or one file *)
(* operation.  An operation that runs under an entry lock from start to    *)
(* end is one action: nobody else can touch that overlay meanwhile.        *)
(* SQLite entries (leases, in-place edits) are not in this module.         *)
(* Definitions named Mutant... are faults the properties must notice.       *)
(***************************************************************************)
EXTENDS Naturals, Sequences, FiniteSets

CONSTANTS
  Sessions,      \* archive owners; each runs one session, in its own process
  Entries,       \* archive entry paths
  None,          \* "undefined" / no row
  Base,          \* the content every entry has before the first session
  Kind,          \* what a session is: "writer", "reader", "probe", "replacer"
  Touches,       \* the entries a session's callback reads or writes
  MaxWrites,     \* bound: publications per session and entry
  Aborters,      \* sessions whose callback may throw
  Crashers,      \* sessions whose process may die
  CommitFailers, \* sessions whose archive write or cache settlement may fail
  UnlinkFailers, \* sessions whose cleanup of a committed overlay may fail
  CloseFailers   \* sessions whose native reader may refuse to close

ASSUME ConstantsAssumption ==
  /\ None \notin Sessions \cup [owner : Sessions, n : Nat]
  /\ Base \notin [owner : Sessions, n : Nat]
  /\ Kind \in [Sessions -> {"writer", "reader", "probe", "replacer"}]
  /\ Touches \in [Sessions -> SUBSET Entries]
  /\ MaxWrites \in Nat \ {0}

\* An overlay row, and the content it stands for: who published it, and a
\* serial number for the row's random workspace path and its updated_at.
Version == [owner : Sessions, n : 1 .. MaxWrites]

VARIABLES
  pc,          \* where each session is
  then,        \* where a session goes on after flushArchiveOverlays
  owners,      \* archive_owners
  settlement,  \* archive_settlements: no row is "reading"
  commitLock,  \* archive_commit_locks
  replaceLock, \* archive_replacement_locks
  entryLock,   \* entry_locks in mode write held across steps
  overlay,     \* entry_overlays
  snapshots,   \* workspace snapshot files on disk
  archive,     \* the entries of the physical archive
  generation,  \* number of physical rewrites: the mutation token
  reader,      \* generation a session's open native reader is pinned to
  changes,     \* #changes: current and previous overlay per entry
  requested,   \* #modifiedEntryPaths and #observedDirtyEntryPaths; while
               \* settling, the entry paths of the flush in progress
  batch,       \* overlays a flush read under its locks, not yet cleaned up
  image,       \* the new archive a settler has written but not renamed
  aborted,     \* #aborted, or a failure recorded while closing
  writes,      \* publications made so far
  history,     \* auxiliary: publications per entry, in order
  withdrawn,   \* auxiliary: the publications among them that were rolled back
  overlapped   \* auxiliary: entries written over a write not yet final

database == <<owners, settlement, commitLock, replaceLock>>
files    == <<snapshots, archive, generation>>
work     == <<batch, image>>
memory   == <<changes, requested, work, aborted, writes>>
ghosts   == <<history, withdrawn, overlapped>>
vars == <<pc, then, database, entryLock, overlay, files, reader, memory,
          ghosts>>

NoChange == [current |-> None, previous |-> None]
NoImage == [e \in Entries |-> None]

\* What a session observes of an entry: the overlay, or else the archive.
View(e) == IF overlay[e] # None THEN overlay[e] ELSE archive[e]

Goto(s, label) == pc' = [pc EXCEPT ![s] = label]

-----------------------------------------------------------------------------
(* cleanupStaleState: every admission transaction first drops the rows of *)
(* owners whose process is dead.  Their overlays stay.                     *)

MutantStale == {o \in owners : pc[o] \in {"dead", "rename"}}
Stale == {o \in owners : pc[o] = "dead"}

Unstale(holder) == IF holder \in Stale THEN None ELSE holder

CleanOwners  == owners \ Stale
CleanPhases  == [s \in Sessions |-> IF s \in Stale THEN "reading"
                                                   ELSE settlement[s]]
CleanCommit  == Unstale(commitLock)
CleanReplace == Unstale(replaceLock)
CleanLocks   == [e \in Entries |-> Unstale(entryLock[e])]

\* The transaction changes nothing but what the cleanup removes.
CleanupStaleState ==
  /\ owners' = CleanOwners
  /\ settlement' = CleanPhases
  /\ commitLock' = CleanCommit
  /\ replaceLock' = CleanReplace
  /\ entryLock' = CleanLocks

\* A waiting session polls every 100 ms; each poll commits the cleanup.
Poll(s) ==
  /\ pc[s] \in {"idle", "drain", "fence", "lock"}
  /\ Stale # {}
  /\ CleanupStaleState
  /\ UNCHANGED <<pc, then, overlay, files, reader, memory, ghosts>>

-----------------------------------------------------------------------------
(* Registration *)

MutantRegisterArchiveOwner(s) ==
  /\ pc[s] = "idle"
  /\ Kind[s] # "replacer"
  /\ owners' = owners \cup {s}
  /\ Goto(s, IF Kind[s] = "writer" THEN "openReap" ELSE "openReader")
  /\ UNCHANGED <<then, settlement, commitLock, replaceLock, entryLock, overlay,
                 files, reader, memory, ghosts>>

\* registerArchiveOwner: both fences are checked with the insertion.
RegisterArchiveOwner(s) ==
  /\ pc[s] = "idle"
  /\ Kind[s] # "replacer"
  /\ CleanReplace = None
  /\ CleanCommit = None
  /\ owners' = CleanOwners \cup {s}
  /\ settlement' = CleanPhases
  /\ commitLock' = None
  /\ replaceLock' = None
  /\ entryLock' = CleanLocks
  /\ Goto(s, IF Kind[s] = "writer" THEN "openReap" ELSE "openReader")
  /\ UNCHANGED <<then, overlay, files, reader, memory, ghosts>>

\* registerArchiveReplacementOwner: only one replacement, no commit running;
\* active owners are drained afterwards.
RegisterReplacementOwner(s) ==
  /\ pc[s] = "idle"
  /\ Kind[s] = "replacer"
  /\ CleanCommit = None
  /\ CleanReplace = None
  /\ owners' = CleanOwners \cup {s}
  /\ settlement' = CleanPhases
  /\ commitLock' = None
  /\ replaceLock' = s
  /\ entryLock' = CleanLocks
  /\ Goto(s, "drain")
  /\ UNCHANGED <<then, overlay, files, reader, memory, ghosts>>

MutantOthersDrained(s) ==
  /\ pc[s] = "drain"
  /\ CleanOwners \ {s} = {}
  /\ CleanupStaleState
  /\ Goto(s, "replace")
  /\ UNCHANGED <<then, overlay, files, reader, memory, ghosts>>

\* waitForOtherArchiveOwnersToDrain
OthersDrained(s) ==
  /\ pc[s] = "drain"
  /\ CleanOwners \ {s} = {}
  /\ CleanupStaleState
  /\ Goto(s, "replaceReap")
  /\ UNCHANGED <<then, overlay, files, reader, memory, ghosts>>

\* The physical replacement itself; the overlay table is not consulted.
ReplaceArchive(s) ==
  /\ pc[s] = "replace"
  /\ archive' = [e \in Entries |-> [owner |-> s, n |-> 1]]
  /\ history' = [e \in Entries |-> <<[owner |-> s, n |-> 1]>>]
  /\ withdrawn' = {}
  /\ overlapped' = {}
  /\ generation' = generation + 1
  /\ Goto(s, "leave")
  /\ UNCHANGED <<then, database, entryLock, overlay, snapshots, reader,
                 memory>>

\* exportArchive copies the drained and settled file; the operation of a
\* replacement may also throw before it replaces anything.
ExportArchive(s) ==
  /\ pc[s] = "replace"
  /\ Goto(s, "leave")
  /\ UNCHANGED <<then, database, entryLock, overlay, files, reader, memory,
                 ghosts>>

\* unregisterArchiveOwner: phase, locks, fences and owner row go together.
UnregisterArchiveOwner(s) ==
  /\ pc[s] = "leave"
  /\ owners' = owners \ {s}
  /\ settlement' = [settlement EXCEPT ![s] = "reading"]
  /\ commitLock' = IF commitLock = s THEN None ELSE commitLock
  /\ replaceLock' = IF replaceLock = s THEN None ELSE replaceLock
  /\ entryLock' = [e \in Entries |-> IF entryLock[e] = s THEN None
                                                         ELSE entryLock[e]]
  /\ Goto(s, "done")
  /\ UNCHANGED <<then, overlay, files, reader, memory, ghosts>>

-----------------------------------------------------------------------------
(* The callback of a session: entry operations *)

\* The source reader opens only after admission and after the opening reap.
OpenReader(s) ==
  /\ pc[s] = "openReader"
  /\ reader' = [reader EXCEPT ![s] = generation]
  /\ Goto(s, "active")
  /\ UNCHANGED <<then, database, entryLock, overlay, files, memory, ghosts>>

EntryFree(s, e) == CleanLocks[e] \in {None, s}

\* readEntry: an overlay it sees must be settled by this session too.
ReadEntry(s, e) ==
  /\ pc[s] = "active"
  /\ e \in Touches[s]
  /\ EntryFree(s, e)
  /\ overlay[e] # None
  /\ e \notin requested[s]
  /\ requested' = [requested EXCEPT ![s] = @ \cup {e}]
  /\ CleanupStaleState
  /\ UNCHANGED <<pc, then, overlay, files, reader, changes, work, aborted,
                 writes, ghosts>>

\* #recordChange, after the publication of `current` over `latest`.
RecordChange(s, e, current, latest) ==
  LET existing == changes[s][e].previous
  IN  changes' = [changes EXCEPT ![s][e] =
        [current  |-> current,
         previous |-> IF existing # None THEN existing ELSE latest]]

\* Whether s now publishes over a write that may still be rolled back: its own
\* first one, or one of a session that has not completed.
Unfinished(s, e) ==
  /\ overlay[e] # None
  /\ IF overlay[e].owner = s
       THEN changes[s][e].previous = None
       ELSE /\ overlay[e].owner \in CleanOwners
            /\ CleanPhases[overlay[e].owner] # "completed"

\* writeEntry, appendEntry and deleteEntry publish the same way.
WriteEntry(s, e) ==
  /\ pc[s] = "active"
  /\ Kind[s] = "writer"
  /\ e \in Touches[s]
  /\ writes[s][e] < MaxWrites
  /\ EntryFree(s, e)
  /\ LET version == [owner |-> s, n |-> writes[s][e] + 1]
     IN  /\ overlay' = [overlay EXCEPT ![e] = version]
         /\ snapshots' = snapshots \cup {<<e, version>>}
         /\ RecordChange(s, e, version, overlay[e])
         /\ history' = [history EXCEPT ![e] = Append(@, version)]
         /\ overlapped' = IF Unfinished(s, e) THEN overlapped \cup {e}
                                              ELSE overlapped
  /\ writes' = [writes EXCEPT ![s][e] = @ + 1]
  /\ requested' = [requested EXCEPT ![s] = @ \cup {e}]
  /\ CleanupStaleState
  /\ UNCHANGED <<pc, then, archive, generation, reader, work, aborted,
                 withdrawn>>

\* The callback returns; close() starts.
FinishCallback(s) ==
  /\ pc[s] = "active"
  /\ Goto(s, "close")
  /\ UNCHANGED <<then, database, entryLock, overlay, files, reader, memory,
                 ghosts>>

\* The callback throws: abort() rolls back before close() starts.
FailCallback(s) ==
  /\ pc[s] = "active"
  /\ s \in Aborters
  /\ aborted' = [aborted EXCEPT ![s] = TRUE]
  /\ then' = [then EXCEPT ![s] = "close"]
  /\ Goto(s, "rollback")
  /\ UNCHANGED <<database, entryLock, overlay, files, reader, changes,
                 requested, work, writes, ghosts>>

-----------------------------------------------------------------------------
(* Rollback *)

\* What a rollback of session s takes back: what it published for entry e,
\* unless that is in the archive.
Withdrawn(s, e) ==
  {<<e, history[e][i]>> : i \in {k \in 1 .. Len(history[e]) :
     history[e][k].owner = s /\ history[e][k] # archive[e]}}

MutantRollbackChange(s, e) ==
  /\ pc[s] = "rollback"
  /\ changes[s][e] # NoChange
  /\ EntryFree(s, e)
  /\ overlay' = IF overlay[e] = changes[s][e].current
                  THEN [overlay EXCEPT ![e] = None]
                  ELSE overlay
  /\ changes' = [changes EXCEPT ![s][e] = NoChange]
  /\ withdrawn' = withdrawn \cup Withdrawn(s, e)
  /\ UNCHANGED <<pc, then, database, entryLock, files, reader, requested, work,
                 aborted, writes, history, overlapped>>

\* restoreOverlay, under the entry's write lock: only while the row is still
\* the one this session published last.
RollbackChange(s, e) ==
  LET change   == changes[s][e]
      restores == overlay[e] = change.current
  IN  /\ pc[s] = "rollback"
      /\ change # NoChange
      /\ EntryFree(s, e)
      /\ overlay' = IF restores
                      THEN [overlay EXCEPT ![e] = change.previous]
                      ELSE overlay
      /\ snapshots' = IF restores THEN snapshots \ {<<e, change.current>>}
                                  ELSE snapshots
      /\ changes' = [changes EXCEPT ![s][e] = NoChange]
      /\ withdrawn' = withdrawn \cup Withdrawn(s, e)
      /\ CleanupStaleState
      /\ UNCHANGED <<pc, then, archive, generation, reader, requested, work,
                     aborted, writes, history, overlapped>>

FinishRollback(s) ==
  /\ pc[s] = "rollback"
  /\ \A e \in Entries : changes[s][e] = NoChange
  /\ requested' = [requested EXCEPT ![s] = {}]
  /\ Goto(s, then[s])
  /\ UNCHANGED <<then, database, entryLock, overlay, files, reader, changes,
                 work, aborted, writes, ghosts>>

-----------------------------------------------------------------------------
(* flushArchiveOverlays and reapArchive.  A flush starts with the entry     *)
(* paths in requested[s] and goes on at then[s]; its failure goes on at     *)
(* Recovery(then[s]).                                                       *)

\* Calls flushArchiveOverlays(paths): nothing to do without candidates.
CallFlush(s, paths, next) ==
  LET candidates == {e \in paths : overlay[e] # None}
  IN  /\ requested' = [requested EXCEPT ![s] = candidates]
      /\ then' = [then EXCEPT ![s] = next]
      /\ Goto(s, IF candidates = {} THEN next ELSE "fence")

\* listOrphanOverlayPaths: the publisher is gone or logically complete.
OrphanPaths(registered, phases) ==
  {e \in Entries : /\ overlay[e] # None
                   /\ \/ overlay[e].owner \notin registered
                      \/ phases[overlay[e].owner] = "completed"}

\* The overlays a settler may commit (listSettleableOverlays).
Settleable(s, e) ==
  /\ overlay[e] # None
  /\ \/ overlay[e].owner = s
     \/ overlay[e].owner \notin owners
     \/ settlement[overlay[e].owner] = "completed"

\* reapArchive: from open, from close, after completion, and in a replacement.
Reap(s) ==
  /\ pc[s] \in {"openReap", "reap", "finalReap", "replaceReap"}
  /\ CleanupStaleState
  /\ CallFlush(s, OrphanPaths(CleanOwners, CleanPhases),
               CASE pc[s] = "openReap"    -> "openReader"
                 [] pc[s] = "reap"        -> "tidy"
                 [] pc[s] = "finalReap"   -> "leave"
                 [] pc[s] = "replaceReap" -> "replace")
  /\ UNCHANGED <<overlay, files, reader, changes, work, aborted, writes,
                 ghosts>>

\* close() settles what the session wrote or saw dirty.
Flush(s) ==
  /\ pc[s] = "flush"
  /\ CallFlush(s, requested[s], "reap")
  /\ UNCHANGED <<database, entryLock, overlay, files, reader, changes, work,
                 aborted, writes, ghosts>>

MutantForeignReader(s) ==
  \E o \in CleanOwners \ {s} :
    CleanPhases[o] = "reading" /\ Kind[o] = "writer"

\* acquireArchiveCommitLock: a foreign owner without a settlement row still
\* reads, so the settlement is deferred; a foreign fence is waited for.
ForeignReader(s) ==
  \E o \in CleanOwners \ {s} : CleanPhases[o] = "reading"

MutantDeferSettlement(s) ==
  /\ pc[s] = "fence"
  /\ ForeignReader(s)
  /\ CleanupStaleState
  /\ UNCHANGED <<pc, then, overlay, files, reader, memory, ghosts>>

DeferSettlement(s) ==
  /\ pc[s] = "fence"
  /\ ForeignReader(s)
  /\ CleanupStaleState
  /\ Goto(s, then[s])
  /\ UNCHANGED <<then, overlay, files, reader, memory, ghosts>>

MutantAcquireCommitLock(s) ==
  /\ pc[s] = "fence"
  /\ ~ForeignReader(s)
  /\ commitLock' = s
  /\ Goto(s, "lock")
  /\ UNCHANGED <<then, owners, settlement, replaceLock, entryLock, overlay,
                 files, reader, memory, ghosts>>

AcquireCommitLock(s) ==
  /\ pc[s] = "fence"
  /\ ~ForeignReader(s)
  /\ CleanCommit \in {None, s}
  /\ owners' = CleanOwners
  /\ settlement' = CleanPhases
  /\ commitLock' = s
  /\ replaceLock' = CleanReplace
  /\ entryLock' = CleanLocks
  /\ Goto(s, "lock")
  /\ UNCHANGED <<then, overlay, files, reader, memory, ghosts>>

\* The entry write locks of the flush, one transaction each.
AcquireEntryLock(s, e) ==
  /\ pc[s] = "lock"
  /\ e \in requested[s]
  /\ CleanLocks[e] = None
  /\ owners' = CleanOwners
  /\ settlement' = CleanPhases
  /\ commitLock' = CleanCommit
  /\ replaceLock' = CleanReplace
  /\ entryLock' = [CleanLocks EXCEPT ![e] = s]
  /\ UNCHANGED <<pc, then, overlay, files, reader, memory, ghosts>>

\* With every lock held, the overlays are read again.
CollectOverlays(s) ==
  LET collected == {e \in requested[s] : Settleable(s, e)}
  IN  /\ pc[s] = "lock"
      /\ \A e \in requested[s] : entryLock[e] = s
      /\ batch' = [batch EXCEPT ![s] =
            [e \in Entries |-> IF e \in collected THEN overlay[e] ELSE None]]
      /\ Goto(s, IF collected = {} THEN "release" ELSE "commit")
      /\ UNCHANGED <<then, database, entryLock, overlay, files, reader,
                     changes, requested, image, aborted, writes, ghosts>>

MutantWriteImage(s) ==
  /\ pc[s] = "commit"
  /\ image' = [image EXCEPT ![s] = batch[s]]
  /\ Goto(s, "rename")
  /\ UNCHANGED <<then, database, entryLock, overlay, files, reader, changes,
                 requested, batch, aborted, writes, ghosts>>

\* commitOverlays: the settler opens the archive and writes a new image of it.
WriteImage(s) ==
  /\ pc[s] = "commit"
  /\ \A e \in Entries : batch[s][e] # None => <<e, batch[s][e]>> \in snapshots
  /\ image' = [image EXCEPT ![s] =
        [e \in Entries |-> IF batch[s][e] # None THEN batch[s][e]
                                                 ELSE archive[e]]]
  /\ Goto(s, "rename")
  /\ UNCHANGED <<then, database, entryLock, overlay, files, reader, changes,
                 requested, batch, aborted, writes, ghosts>>

\* The image replaces the archive in one step, with a new mutation token.
CommitOverlays(s) ==
  /\ pc[s] = "rename"
  /\ archive' = image[s]
  /\ generation' = generation + 1
  /\ image' = [image EXCEPT ![s] = NoImage]
  /\ Goto(s, "unlink")
  /\ UNCHANGED <<then, database, entryLock, overlay, snapshots, reader,
                 changes, requested, batch, aborted, writes, ghosts>>

\* Where a session goes on when the flush that returns to `next` throws.
Recovery(next) == IF next \in {"reap", "tidy"} THEN "rollback" ELSE "leave"

\* The ZIP writer aborts: the old bytes stay, the error leaves the flush.
FailCommit(s) ==
  /\ \/ pc[s] \in {"commit", "rename"} /\ s \in CommitFailers
     \/ /\ pc[s] = "commit"
        /\ \E e \in Entries : /\ batch[s][e] # None
                              /\ <<e, batch[s][e]>> \notin snapshots
  /\ batch' = [batch EXCEPT ![s] = NoImage]
  /\ image' = [image EXCEPT ![s] = NoImage]
  /\ aborted' = [aborted EXCEPT ![s] = TRUE]
  /\ Goto(s, "release")
  /\ UNCHANGED <<then, database, entryLock, overlay, files, reader, changes,
                 requested, writes, ghosts>>

\* deleteCommittedOverlay: the row goes only if it is still the one written;
\* a failure is swallowed and leaves the row.
DeleteCommittedOverlay(s, e) ==
  /\ pc[s] = "unlink"
  /\ batch[s][e] # None
  /\ batch' = [batch EXCEPT ![s][e] = None]
  /\ \/ /\ overlay[e] = batch[s][e]
        /\ overlay' = [overlay EXCEPT ![e] = None]
        /\ snapshots' = snapshots \ {<<e, batch[s][e]>>}
     \/ /\ overlay[e] # batch[s][e] \/ s \in UnlinkFailers
        /\ UNCHANGED <<overlay, snapshots>>
  /\ UNCHANGED <<pc, then, database, entryLock, archive, generation, reader,
                 changes, requested, image, aborted, writes, ghosts>>

FinishCommit(s) ==
  /\ pc[s] = "unlink"
  /\ \A e \in Entries : batch[s][e] = None
  /\ Goto(s, "release")
  /\ UNCHANGED <<then, database, entryLock, overlay, files, reader, memory,
                 ghosts>>

\* Entry locks are released before the commit fence.
ReleaseEntryLock(s, e) ==
  /\ pc[s] = "release"
  /\ entryLock[e] = s
  /\ entryLock' = [entryLock EXCEPT ![e] = None]
  /\ UNCHANGED <<pc, then, database, overlay, files, reader, memory, ghosts>>

ReleaseCommitLock(s) ==
  /\ pc[s] = "release"
  /\ \A e \in Entries : entryLock[e] # s
  /\ commitLock' = IF commitLock = s THEN None ELSE commitLock
  /\ IF aborted[s]
       THEN /\ Goto(s, Recovery(then[s]))
            /\ then' = [then EXCEPT ![s] = "leave"]
       ELSE /\ Goto(s, then[s])
            /\ UNCHANGED then
  /\ UNCHANGED <<owners, settlement, replaceLock, entryLock, overlay, files,
                 reader, memory, ghosts>>

-----------------------------------------------------------------------------
(* close() *)

\* The source reader closes before anything is settled.
CloseReader(s) ==
  /\ pc[s] = "close"
  /\ reader' = [reader EXCEPT ![s] = None]
  /\ Goto(s, IF Kind[s] = "probe" THEN "leave" ELSE "drained")
  /\ UNCHANGED <<then, database, entryLock, overlay, files, memory, ghosts>>

\* A reader that cannot close keeps its owner row; the session rolls back.
FailCloseReader(s) ==
  /\ pc[s] = "close"
  /\ s \in CloseFailers
  /\ aborted' = [aborted EXCEPT ![s] = TRUE]
  /\ IF Kind[s] = "writer"
       THEN /\ Goto(s, "rollback")
            /\ then' = [then EXCEPT ![s] = "retained"]
       ELSE /\ Goto(s, "retained")
            /\ UNCHANGED then
  /\ UNCHANGED <<database, entryLock, overlay, files, reader, changes,
                 requested, work, writes, ghosts>>

\* markArchiveSettlement(completed = 0)
MarkDrained(s) ==
  /\ pc[s] = "drained"
  /\ settlement' = [settlement EXCEPT ![s] = "drained"]
  /\ Goto(s, CASE aborted[s]                       -> "leave"
               [] ~aborted[s] /\ Kind[s] = "writer" -> "flush"
               [] OTHER                            -> "complete")
  /\ UNCHANGED <<then, owners, commitLock, replaceLock, entryLock, overlay,
                 files, reader, memory, ghosts>>

MutantCleanupSupersededSnapshots(s) ==
  /\ pc[s] = "tidy"
  /\ snapshots' = snapshots \ {<<e, changes[s][e].current>> : e \in Entries}
  /\ changes' = [changes EXCEPT ![s] = [e \in Entries |-> NoChange]]
  /\ Goto(s, "complete")
  /\ UNCHANGED <<then, database, entryLock, overlay, archive, generation,
                 reader, requested, work, aborted, writes, ghosts>>

\* #settleSearchIndexCache, then #cleanupSupersededSnapshots.
CleanupSupersededSnapshots(s) ==
  /\ pc[s] = "tidy"
  /\ snapshots' = snapshots \ {<<e, changes[s][e].previous>> : e \in Entries}
  /\ changes' = [changes EXCEPT ![s] = [e \in Entries |-> NoChange]]
  /\ Goto(s, "complete")
  /\ UNCHANGED <<then, database, entryLock, overlay, archive, generation,
                 reader, requested, work, aborted, writes, ghosts>>

\* Settling the search cache throws: close() rolls back.
FailTidy(s) ==
  /\ pc[s] = "tidy"
  /\ s \in CommitFailers
  /\ aborted' = [aborted EXCEPT ![s] = TRUE]
  /\ then' = [then EXCEPT ![s] = "leave"]
  /\ Goto(s, "rollback")
  /\ UNCHANGED <<database, entryLock, overlay, files, reader, changes,
                 requested, work, writes, ghosts>>

MutantMarkCompleted(s) ==
  /\ pc[s] = "complete"
  /\ Goto(s, IF Kind[s] = "writer" THEN "finalReap" ELSE "leave")
  /\ UNCHANGED <<then, database, entryLock, overlay, files, reader, memory,
                 ghosts>>

\* markArchiveSettlement(completed = 1): the logical operation is complete.
MarkCompleted(s) ==
  /\ pc[s] = "complete"
  /\ settlement' = [settlement EXCEPT ![s] = "completed"]
  /\ Goto(s, IF Kind[s] = "writer" THEN "finalReap" ELSE "leave")
  /\ UNCHANGED <<then, owners, commitLock, replaceLock, entryLock, overlay,
                 files, reader, memory, ghosts>>

\* The process dies: what it held in memory is gone, its rows stay.
Crash(s) ==
  /\ s \in Crashers
  /\ pc[s] \notin {"idle", "done", "dead"}
  /\ Goto(s, "dead")
  /\ reader' = [reader EXCEPT ![s] = None]
  /\ changes' = [changes EXCEPT ![s] = [e \in Entries |-> NoChange]]
  /\ requested' = [requested EXCEPT ![s] = {}]
  /\ batch' = [batch EXCEPT ![s] = NoImage]
  /\ image' = [image EXCEPT ![s] = NoImage]
  /\ UNCHANGED <<then, database, entryLock, overlay, files, aborted, writes,
                 ghosts>>

-----------------------------------------------------------------------------
Init ==
  /\ pc = [s \in Sessions |-> "idle"]
  /\ then = [s \in Sessions |-> "done"]
  /\ owners = {}
  /\ settlement = [s \in Sessions |-> "reading"]
  /\ commitLock = None
  /\ replaceLock = None
  /\ entryLock = [e \in Entries |-> None]
  /\ overlay = [e \in Entries |-> None]
  /\ snapshots = {}
  /\ archive = [e \in Entries |-> Base]
  /\ generation = 0
  /\ reader = [s \in Sessions |-> None]
  /\ changes = [s \in Sessions |-> [e \in Entries |-> NoChange]]
  /\ requested = [s \in Sessions |-> {}]
  /\ batch = [s \in Sessions |-> NoImage]
  /\ image = [s \in Sessions |-> NoImage]
  /\ aborted = [s \in Sessions |-> FALSE]
  /\ writes = [s \in Sessions |-> [e \in Entries |-> 0]]
  /\ history = [e \in Entries |-> <<>>]
  /\ withdrawn = {}
  /\ overlapped = {}

Open(s) == RegisterArchiveOwner(s) \/ OpenReader(s)

Replace(s) ==
  \/ RegisterReplacementOwner(s)
  \/ OthersDrained(s)
  \/ ReplaceArchive(s)
  \/ ExportArchive(s)

Callback(s) ==
  \/ \E e \in Entries : ReadEntry(s, e) \/ WriteEntry(s, e)
  \/ FinishCallback(s)
  \/ FailCallback(s)

Rollback(s) ==
  \/ \E e \in Entries : RollbackChange(s, e)
  \/ FinishRollback(s)

Settle(s) ==
  \/ Reap(s)
  \/ Flush(s)
  \/ DeferSettlement(s)
  \/ AcquireCommitLock(s)
  \/ \E e \in Entries : AcquireEntryLock(s, e)
  \/ CollectOverlays(s)
  \/ WriteImage(s)
  \/ CommitOverlays(s)
  \/ FailCommit(s)
  \/ \E e \in Entries : DeleteCommittedOverlay(s, e)
  \/ FinishCommit(s)
  \/ \E e \in Entries : ReleaseEntryLock(s, e)
  \/ ReleaseCommitLock(s)

Close(s) ==
  \/ CloseReader(s)
  \/ FailCloseReader(s)
  \/ MarkDrained(s)
  \/ CleanupSupersededSnapshots(s)
  \/ FailTidy(s)
  \/ MarkCompleted(s)
  \/ UnregisterArchiveOwner(s)

Protocol(s) == Open(s) \/ Replace(s) \/ Rollback(s) \/ Settle(s) \/ Close(s)

\* Nothing is left to do (keeps TLC's deadlock check meaningful).
Terminated ==
  /\ \A s \in Sessions : pc[s] \in {"done", "dead", "retained"}
  /\ UNCHANGED vars

Next ==
  \/ \E s \in Sessions : Poll(s) \/ Protocol(s) \/ Callback(s) \/ Crash(s)
  \/ Terminated

Spec == Init /\ [][Next]_vars

\* Only callbacks may take forever: each session keeps running its own protocol
\* steps, and its waits poll.
FairSpec == Spec /\ \A s \in Sessions : WF_vars(Protocol(s))

-----------------------------------------------------------------------------
(* Type correctness *)

OptSession == Sessions \cup {None}
OptVersion == Version \cup {None}
Labels == {"idle", "openReap", "openReader", "active", "rollback", "close",
           "drained", "flush", "reap", "fence", "lock", "commit", "rename",
           "unlink", "release", "tidy", "complete", "finalReap", "drain",
           "replaceReap", "replace", "leave", "done", "retained", "dead"}

\* Every variable keeps its type.
TypeOK ==
  /\ pc \in [Sessions -> Labels]
  /\ then \in [Sessions -> Labels]
  /\ owners \subseteq Sessions
  /\ settlement \in [Sessions -> {"reading", "drained", "completed"}]
  /\ commitLock \in OptSession
  /\ replaceLock \in OptSession
  /\ entryLock \in [Entries -> OptSession]
  /\ overlay \in [Entries -> OptVersion]
  /\ snapshots \subseteq Entries \X OptVersion
  /\ archive \in [Entries -> Version \cup {Base}]
  /\ generation \in Nat
  /\ reader \in [Sessions -> Nat \cup {None}]
  /\ changes \in [Sessions -> [Entries ->
        [current : OptVersion, previous : OptVersion]]]
  /\ requested \in [Sessions -> SUBSET Entries]
  /\ batch \in [Sessions -> [Entries -> OptVersion]]
  /\ image \in [Sessions -> [Entries -> OptVersion \cup {Base}]]
  /\ aborted \in [Sessions -> BOOLEAN]
  /\ writes \in [Sessions -> [Entries -> 0 .. MaxWrites]]
  /\ history \in [Entries -> Seq(Version)]
  /\ withdrawn \subseteq Entries \X Version
  /\ overlapped \subseteq Entries

-----------------------------------------------------------------------------
(* Safety *)

\* A native reader stays on the generation it opened: nobody, not even a
\* replacement, rewrites the archive under a live reader, so a session never
\* mixes two physical generations (README "Lock order and generation").
ReaderPinned ==
  \A s \in Sessions : reader[s] # None => reader[s] = generation

\* Admission is fenced: while a commit runs, every other registered owner has
\* already closed its reader, from the fence's acquisition to its release.
CommitExcludesReaders ==
  \A s \in Sessions :
    pc[s] \in {"lock", "commit", "rename", "unlink", "release"} =>
      /\ commitLock = s
      /\ \A o \in owners \ {s} : settlement[o] # "reading" \/ pc[o] = "dead"

\* Settlements are serialized: when a settler renames its new image over the
\* archive, every entry it does not settle is still the archive's, so neither a
\* concurrent settlement nor a replacement is lost (README "Lock order").
ImageCurrent ==
  \A s \in Sessions, e \in Entries :
    (pc[s] = "rename" /\ batch[s][e] = None) => image[s][e] = archive[e]

\* Every published overlay can still be settled: no rollback, settlement or
\* garbage cleanup removes the snapshot an overlay row points at.
OverlayHasSnapshot ==
  \A e \in Entries : overlay[e] # None => <<e, overlay[e]>> \in snapshots

\* The last publication of an entry that was not rolled back.
Kept(e) == {i \in 1 .. Len(history[e]) : <<e, history[e][i]>> \notin withdrawn}

LastWrite(e) ==
  IF Kept(e) = {} THEN Base
  ELSE history[e][CHOOSE i \in Kept(e) : \A j \in Kept(e) : i >= j]

\* Without failures the last publication wins, whoever settles it and however
\* often it is deferred, adopted by another session or recovered after a crash.
LastWriteWins == \A e \in Entries : View(e) = LastWrite(e)

\* A rollback undoes what the failing session published and nothing else, as
\* long as nobody published over a write that could still be rolled back.
RollbackExact ==
  \A e \in Entries \ overlapped : View(e) = LastWrite(e)

\* "rolls back archive writes when the operation fails": once a session whose
\* callback threw is gone, no entry shows what it wrote.
FailedWritesUndone ==
  \A s \in Aborters, e \in Entries :
    (pc[s] = "done" /\ aborted[s] /\ View(e) # Base) => View(e).owner # s

\* A replacement or an export starts from a fully settled archive: no logical
\* write is missing from the bytes it copies or replaces.
ExclusiveIsSettled ==
  \A s \in Sessions : pc[s] = "replace" =>
    \A e \in Entries : View(e) = archive[e]

\* When every session has completed and each is a writer, nothing is left to
\* settle: simultaneous closers do not both miss the other's deferred writes
\* (host-session.ts, the final reap).
NothingLeftBehind ==
  (\A s \in Sessions : pc[s] = "done" /\ ~aborted[s] /\ Kind[s] = "writer")
    => \A e \in Entries : View(e) = archive[e]

-----------------------------------------------------------------------------
(* Liveness *)

\* A session that has started to close ends, even while a foreign callback
\* never returns: settlement is deferred to the others instead of waiting for
\* them (locks.ts, "Waiting here can deadlock").
CloseTerminates ==
  \A s \in Sessions :
    pc[s] = "close" ~> pc[s] \in {"done", "retained", "dead"}
=============================================================================
