---------------------- MODULE ArchiveCoordinatorProofs ----------------------
(***************************************************************************)
(* Proofs about ArchiveCoordinator, for every set of sessions and entries, *)
(* every mix of session kinds and every choice of who may fail or crash:   *)
(* no native reader ever has its archive rewritten underneath it, a commit *)
(* never overlaps a foreign reading session, a settlement writes exactly   *)
(* the overlays it settles, an exclusive session starts on a settled       *)
(* archive, and an overlay's file is never collected under its row.        *)
(***************************************************************************)
EXTENDS ArchiveCoordinator, TLAPS

-----------------------------------------------------------------------------
(* The inductive invariant.  A native reader implies a registered owner in  *)
(* its reading phase; a commit implies the commit fence; a replacement      *)
(* implies the replacement fence and no other live owner.  The two fences   *)
(* are what admission checks, so these exclude each other.                  *)

\* Where a settler holds the commit fence.
Settling == {"lock", "commit", "rename", "unlink", "release"}

\* Where a flush or a rollback may return to.
Returns == {"done", "close", "retained", "leave", "reap", "tidy",
            "openReader", "replace"}

\* The types the argument needs: control state and generations.
ControlTypes ==
  /\ pc \in [Sessions -> Labels]
  /\ then \in [Sessions -> Returns]
  /\ owners \subseteq Sessions
  /\ settlement \in [Sessions -> {"reading", "drained", "completed"}]
  /\ reader \in [Sessions -> Nat \cup {None}]
  /\ generation \in Nat

\* A rollback and a flush come back to a label close() or open() waits at.
RollbackReturns ==
  \A s \in Sessions :
    pc[s] = "rollback" => then[s] \in {"close", "retained", "leave"}

\* s is registered and has not opened its reader yet.
Opening(s) ==
  \/ pc[s] \in {"openReap", "openReader"}
  \/ pc[s] \in Settling \cup {"fence"} /\ then[s] = "openReader"

\* Who is about to open a reader is an owner without a settlement row.
OpenersRegistered ==
  \A s \in Sessions :
    /\ pc[s] = "idle" => settlement[s] = "reading"
    /\ Opening(s) => s \in owners /\ settlement[s] = "reading"

\* Who has a reader is registered as reading, and the reader is current.
ReadersRegistered ==
  \A s \in Sessions : reader[s] # None =>
    /\ s \in owners
    /\ settlement[s] = "reading"
    /\ pc[s] \in {"active", "rollback", "close", "retained"}
    /\ pc[s] = "rollback" => then[s] # "leave"

\* s has drained the archive and not yet replaced it.
Exclusive(s) ==
  \/ pc[s] \in {"replaceReap", "replace"}
  \/ pc[s] \in Settling \cup {"fence"} /\ then[s] = "replace"

\* It holds the replacement fence, and no other live owner is registered.
ReplacerAlone ==
  \A s \in Sessions :
    /\ pc[s] = "drain" \/ Exclusive(s) => replaceLock = s
    /\ Exclusive(s) => \A o \in owners \ {s} : pc[o] = "dead"

\* The inductive invariant.
IInv ==
  /\ ControlTypes
  /\ RollbackReturns
  /\ OpenersRegistered
  /\ ReadersRegistered
  /\ ReplacerAlone
  /\ CommitExcludesReaders
  /\ ReaderPinned
-----------------------------------------------------------------------------
\* Nothing is registered, open or fenced at the start.
LEMMA InitEstablishes == Init => IInv
BY ConstantsAssumption
   DEF Init, IInv, ControlTypes, RollbackReturns, OpenersRegistered, Opening,
       ReadersRegistered, ReplacerAlone, Exclusive, CommitExcludesReaders,
       ReaderPinned, Settling, Returns, Labels

\* One step per action.  An action is looked at through what it does to the
\* control state; the definitions of the invariant are in use throughout.
LEMMA StepPreserves == IInv /\ [Next]_vars => IInv'
<1> SUFFICES ASSUME IInv, [Next]_vars PROVE IInv'
  OBVIOUS
<1> USE ConstantsAssumption
    DEF IInv, ControlTypes, RollbackReturns, OpenersRegistered, Opening,
        ReadersRegistered, ReplacerAlone, Exclusive, CommitExcludesReaders,
        ReaderPinned, Settling, Returns, Labels,
        database, files, memory, Goto
<1>1. ASSUME NEW s \in Sessions, Open(s) PROVE IInv'
  <2>1. CASE RegisterArchiveOwner(s)
    BY <2>1 DEF RegisterArchiveOwner, CleanupStaleState, CleanOwners,
           CleanPhases, CleanCommit, CleanReplace, Unstale, Stale
  <2>2. CASE OpenReader(s)
    BY <2>2 DEF OpenReader
  <2> QED
    BY <1>1, <2>1, <2>2 DEF Open
<1>2. ASSUME NEW s \in Sessions, Replace(s) PROVE IInv'
  <2>1. CASE RegisterReplacementOwner(s)
    BY <2>1 DEF RegisterReplacementOwner, CleanupStaleState, CleanOwners,
           CleanPhases, CleanCommit, CleanReplace, Unstale, Stale
  <2>2. CASE OthersDrained(s)
    BY <2>2 DEF OthersDrained, CleanupStaleState, CleanOwners, CleanPhases,
           CleanCommit, CleanReplace, Unstale, Stale
  <2>3. CASE ReplaceArchive(s)
    BY <2>3 DEF ReplaceArchive
  <2>4. CASE ExportArchive(s)
    BY <2>4 DEF ExportArchive
  <2> QED
    BY <1>2, <2>1, <2>2, <2>3, <2>4 DEF Replace
<1>3. ASSUME NEW s \in Sessions, Rollback(s) PROVE IInv'
  <2>1. ASSUME NEW e \in Entries, RollbackChange(s, e) PROVE IInv'
    BY <2>1 DEF RollbackChange, CleanupStaleState, CleanOwners, CleanPhases,
           CleanCommit, CleanReplace, Unstale, Stale
  <2>2. CASE FinishRollback(s)
    BY <2>2 DEF FinishRollback
  <2> QED
    BY <1>3, <2>1, <2>2 DEF Rollback
<1>4. ASSUME NEW s \in Sessions, Settle(s) PROVE IInv'
  <2>1. CASE Reap(s)
    BY <2>1 DEF Reap, CleanupStaleState, CleanOwners, CleanPhases,
           CleanCommit, CleanReplace, Unstale, Stale, CallFlush
  <2>2. CASE Flush(s)
    BY <2>2 DEF Flush, CallFlush
  <2>3. CASE DeferSettlement(s)
    BY <2>3 DEF DeferSettlement, CleanupStaleState, CleanOwners, CleanPhases,
           CleanCommit, CleanReplace, Unstale, Stale
  <2>4. CASE AcquireCommitLock(s)
    BY <2>4 DEF AcquireCommitLock, CleanupStaleState, CleanOwners,
           CleanPhases, CleanCommit, CleanReplace, Unstale, Stale,
           ForeignReader
  <2>5. ASSUME NEW e \in Entries, AcquireEntryLock(s, e) PROVE IInv'
    BY <2>5 DEF AcquireEntryLock, CleanupStaleState, CleanOwners, CleanPhases,
           CleanCommit, CleanReplace, Unstale, Stale
  <2>6. CASE CollectOverlays(s)
    BY <2>6 DEF CollectOverlays
  <2>7. CASE WriteImage(s)
    BY <2>7 DEF WriteImage
  <2>8. CASE CommitOverlays(s)
    BY <2>8 DEF CommitOverlays
  <2>9. CASE FailCommit(s)
    BY <2>9 DEF FailCommit
  <2>10. ASSUME NEW e \in Entries, DeleteCommittedOverlay(s, e) PROVE IInv'
    BY <2>10 DEF DeleteCommittedOverlay
  <2>11. CASE FinishCommit(s)
    BY <2>11 DEF FinishCommit
  <2>12. ASSUME NEW e \in Entries, ReleaseEntryLock(s, e) PROVE IInv'
    BY <2>12 DEF ReleaseEntryLock
  <2>13. CASE ReleaseCommitLock(s)
    BY <2>13 DEF ReleaseCommitLock, Recovery
  <2> QED
    BY <1>4, <2>1, <2>2, <2>3, <2>4, <2>5, <2>6, <2>7, <2>8, <2>9, <2>10, <2>11, <2>12, <2>13 DEF Settle
<1>5. ASSUME NEW s \in Sessions, Close(s) PROVE IInv'
  <2>1. CASE CloseReader(s)
    BY <2>1 DEF CloseReader
  <2>2. CASE FailCloseReader(s)
    BY <2>2 DEF FailCloseReader
  <2>3. CASE MarkDrained(s)
    BY <2>3 DEF MarkDrained
  <2>4. CASE CleanupSupersededSnapshots(s)
    BY <2>4 DEF CleanupSupersededSnapshots
  <2>5. CASE FailTidy(s)
    BY <2>5 DEF FailTidy
  <2>6. CASE MarkCompleted(s)
    BY <2>6 DEF MarkCompleted
  <2>7. CASE UnregisterArchiveOwner(s)
    BY <2>7 DEF UnregisterArchiveOwner
  <2> QED
    BY <1>5, <2>1, <2>2, <2>3, <2>4, <2>5, <2>6, <2>7 DEF Close
<1>6. ASSUME NEW s \in Sessions, Callback(s) PROVE IInv'
  <2>1. ASSUME NEW e \in Entries, ReadEntry(s, e) PROVE IInv'
    BY <2>1 DEF ReadEntry, CleanupStaleState, CleanOwners, CleanPhases,
           CleanCommit, CleanReplace, Unstale, Stale
  <2>2. ASSUME NEW e \in Entries, WriteEntry(s, e) PROVE IInv'
    BY <2>2 DEF WriteEntry, CleanupStaleState, CleanOwners, CleanPhases,
           CleanCommit, CleanReplace, Unstale, Stale
  <2>3. CASE FinishCallback(s)
    BY <2>3 DEF FinishCallback
  <2>4. CASE FailCallback(s)
    BY <2>4 DEF FailCallback
  <2> QED
    BY <1>6, <2>1, <2>2, <2>3, <2>4 DEF Callback
<1>7. ASSUME NEW s \in Sessions, Poll(s) PROVE IInv'
  BY <1>7 DEF Poll, CleanupStaleState, CleanOwners, CleanPhases, CleanCommit,
       CleanReplace, Unstale, Stale
<1>8. ASSUME NEW s \in Sessions, Crash(s) PROVE IInv'
  BY <1>8 DEF Crash
<1>9. CASE UNCHANGED vars
  BY <1>9 DEF vars
<1> QED
  BY <1>1, <1>2, <1>3, <1>4, <1>5, <1>6, <1>7, <1>8, <1>9 DEF Next, Protocol, Terminated

-----------------------------------------------------------------------------
\* The strengthened invariant holds throughout every behaviour.
THEOREM Invariance == Spec => []IInv
<1>1. Init => IInv
  BY InitEstablishes
<1>2. IInv /\ [Next]_vars => IInv'
  BY StepPreserves
<1> QED
  BY <1>1, <1>2, PTL DEF Spec

\* A native reader stays on the physical generation it opened, whatever else is
\* settled, replaced, rolled back or crashes meanwhile (wikg-coordinator/README,
\* "Lock order and generation").
THEOREM ReaderPinnedTheorem == Spec => []ReaderPinned
<1>1. IInv => ReaderPinned
  BY DEF IInv
<1> QED
  BY <1>1, Invariance, PTL

\* From acquireArchiveCommitLock to its release a settler holds the archive's
\* only commit fence, and every other live owner has closed its reader.
THEOREM CommitExcludesReadersTheorem == Spec => []CommitExcludesReaders
<1>1. IInv => CommitExcludesReaders
  BY DEF IInv
<1> QED
  BY <1>1, Invariance, PTL

-----------------------------------------------------------------------------
(* Settlements lose nothing: a second invariant, on top of the first, about *)
(* what a settler and an exclusive session have in hand.                    *)

\* The types of what a settlement moves.
DataTypes ==
  /\ overlay \in [Entries -> OptVersion]
  /\ archive \in [Entries -> OptVersion \cup {Base}]
  /\ changes \in [Sessions -> [Entries ->
        [current : OptVersion, previous : OptVersion]]]
  /\ requested \in [Sessions -> SUBSET Entries]
  /\ batch \in [Sessions -> [Entries -> OptVersion]]
  /\ image \in [Sessions -> [Entries -> OptVersion \cup {Base}]]
  /\ aborted \in [Sessions -> BOOLEAN]
  /\ writes \in [Sessions -> [Entries -> Nat]]

\* Who is under way is registered.
ActiveRegistered ==
  \A s \in Sessions : pc[s] \notin {"idle", "done", "dead"} => s \in owners

\* Every overlay, and everything a rollback may restore, is a writer's.
OverlaysOfWriters ==
  \A e \in Entries :
    /\ overlay[e] # None => Kind[overlay[e].owner] = "writer"
    /\ \A s \in Sessions : changes[s][e].previous # None =>
         Kind[changes[s][e].previous.owner] = "writer"

\* A new image is the batch over the archive as it still is.
Images ==
  \A s \in Sessions : pc[s] = "rename" =>
    \A e \in Entries :
      image[s][e] = IF batch[s][e] # None THEN batch[s][e] ELSE archive[e]

Settled == \A e \in Entries : overlay[e] = None \/ overlay[e] = archive[e]

\* An exclusive session is the only owner, and its flush takes every overlay.
FlushesAll(s) ==
  /\ pc[s] \in {"fence", "lock"} =>
       \A e \in Entries : overlay[e] # None => e \in requested[s]
  /\ pc[s] \in {"commit", "rename"} => batch[s] = overlay
  /\ pc[s] \in {"unlink", "replace"} => Settled
  /\ pc[s] = "release" => aborted[s] \/ Settled

ExclusiveFlushes ==
  \A s \in Sessions :
    /\ pc[s] = "drain" => Kind[s] = "replacer"
    /\ Exclusive(s) => /\ Kind[s] = "replacer"
                       /\ owners = {s}
                       /\ FlushesAll(s)

SInv ==
  /\ DataTypes
  /\ ActiveRegistered
  /\ OverlaysOfWriters
  /\ Images
  /\ ExclusiveFlushes

Step(s) == Poll(s) \/ Protocol(s) \/ Callback(s) \/ Crash(s)

\* A session changes nobody else's memory.
LEMMA MemoryIsLocal ==
  ASSUME IInv, DataTypes, NEW s \in Sessions, Step(s), NEW t \in Sessions, t # s
  PROVE  /\ pc'[t] = pc[t] /\ then'[t] = then[t]
         /\ requested'[t] = requested[t] /\ aborted'[t] = aborted[t]
         /\ batch'[t] = batch[t] /\ image'[t] = image[t]
<1> USE DEF IInv, ControlTypes, DataTypes, database, files, work, memory, Goto
<1>1. CASE Poll(s) \/ Crash(s)
  BY <1>1 DEF Poll, Crash
<1>2. CASE Open(s) \/ Replace(s)
  BY <1>2 DEF Open, RegisterArchiveOwner, OpenReader, Replace, RegisterReplacementOwner,
         OthersDrained, ReplaceArchive, ExportArchive
<1>3. CASE Callback(s) \/ Rollback(s)
  BY <1>3 DEF Callback, ReadEntry, WriteEntry, FinishCallback, FailCallback, Rollback,
         RollbackChange, FinishRollback
<1>4. CASE Reap(s) \/ Flush(s) \/ DeferSettlement(s)
  BY <1>4 DEF Reap, Flush, DeferSettlement, CallFlush
<1>5. CASE Settle(s)
  BY <1>4, <1>5 DEF Settle, AcquireCommitLock, AcquireEntryLock, CollectOverlays,
         WriteImage, CommitOverlays, FailCommit, DeleteCommittedOverlay, FinishCommit,
         ReleaseEntryLock, ReleaseCommitLock
<1>6. CASE Close(s)
  BY <1>6 DEF Close, CloseReader, FailCloseReader, MarkDrained,
         CleanupSupersededSnapshots, FailTidy, MarkCompleted, UnregisterArchiveOwner
<1> QED
  BY <1>1, <1>2, <1>3, <1>5, <1>6 DEF Step, Protocol

\* Beside an exclusive session nobody touches an overlay or the archive, and nobody
\* registers.
LEMMA ExclusiveIsAlone ==
  ASSUME IInv, SInv, NEW s \in Sessions, Step(s), NEW t \in Sessions, t # s, Exclusive(t)
  PROVE  UNCHANGED <<overlay, archive>> /\ owners' = {t}
<1>1. /\ owners = {t} /\ replaceLock = t /\ pc[t] \notin {"idle", "done", "dead"}
      /\ t # None
  BY ConstantsAssumption
     DEF IInv, ReplacerAlone, SInv, ExclusiveFlushes, Exclusive, Settling
<1>2. pc[s] \in {"idle", "done", "dead"}
  BY <1>1 DEF SInv, ActiveRegistered
<1>3. CleanReplace = t /\ CleanOwners = {t}
  BY <1>1 DEF CleanReplace, CleanOwners, Unstale, Stale
<1>4. CASE Poll(s)
  BY <1>1, <1>3, <1>4 DEF Poll, CleanupStaleState, files
<1>5. ~Open(s) /\ ~Replace(s)
  BY <1>1, <1>2, <1>3 DEF Open, RegisterArchiveOwner, OpenReader, Replace,
         RegisterReplacementOwner, OthersDrained, ReplaceArchive, ExportArchive
<1>6. ~Callback(s) /\ ~Rollback(s)
  BY <1>2 DEF Callback, ReadEntry, WriteEntry, FinishCallback, FailCallback, Rollback,
         RollbackChange, FinishRollback
<1>7. ~Settle(s)
  BY <1>2 DEF Settle, Reap, Flush, DeferSettlement, AcquireCommitLock, AcquireEntryLock,
         CollectOverlays, WriteImage, CommitOverlays, FailCommit,
         DeleteCommittedOverlay, FinishCommit, ReleaseEntryLock, ReleaseCommitLock
<1>8. ~Close(s) /\ ~Crash(s)
  BY <1>2 DEF Close, CloseReader, FailCloseReader, MarkDrained,
         CleanupSupersededSnapshots, FailTidy, MarkCompleted, UnregisterArchiveOwner,
         Crash
<1> QED
  BY <1>4, <1>5, <1>6, <1>7, <1>8 DEF Step, Protocol

\* While a settler has an image in hand nobody else rewrites the archive: not a
\* settler, for the commit fence, and not a replacer, which is alone.
LEMMA RenamerIsAlone ==
  ASSUME IInv, SInv, NEW s \in Sessions, Step(s), NEW t \in Sessions, t # s,
         pc[t] = "rename"
  PROVE  archive' = archive
<1>1. commitLock = t /\ t \in owners
  BY DEF IInv, CommitExcludesReaders, SInv, ActiveRegistered
<1>2. pc[s] # "rename"
  BY <1>1 DEF IInv, CommitExcludesReaders
<1>3. pc[s] # "replace"
  BY <1>1 DEF SInv, ExclusiveFlushes, Exclusive
<1>4. CASE Poll(s) \/ Crash(s)
  BY <1>4 DEF Poll, Crash, files
<1>5. CASE Open(s) \/ Replace(s)
  BY <1>3, <1>5 DEF Open, RegisterArchiveOwner, OpenReader, Replace,
         RegisterReplacementOwner, OthersDrained, ReplaceArchive, ExportArchive, files
<1>6. CASE Callback(s) \/ Rollback(s)
  BY <1>6 DEF Callback, ReadEntry, WriteEntry, FinishCallback, FailCallback, Rollback,
         RollbackChange, FinishRollback, files
<1>7. CASE Settle(s)
  BY <1>2, <1>7 DEF Settle, Reap, Flush, DeferSettlement, AcquireCommitLock,
         AcquireEntryLock, CollectOverlays, WriteImage, CommitOverlays, FailCommit,
         DeleteCommittedOverlay, FinishCommit, ReleaseEntryLock, ReleaseCommitLock, files
<1>8. CASE Close(s)
  BY <1>8 DEF Close, CloseReader, FailCloseReader, MarkDrained,
         CleanupSupersededSnapshots, FailTidy, MarkCompleted, UnregisterArchiveOwner, files
<1> QED
  BY <1>4, <1>5, <1>6, <1>7, <1>8 DEF Step, Protocol

LEMMA DataTypesKept ==
  ASSUME IInv, SInv, NEW s \in Sessions, Step(s)
  PROVE  DataTypes'
<1> USE DEF IInv, ControlTypes, SInv, DataTypes, OptVersion, database, files, work,
            memory, ghosts
<1>1. CASE Poll(s) \/ Open(s)
  BY <1>1 DEF Poll, Open, RegisterArchiveOwner, OpenReader
<1>2. CASE Replace(s)
  <2>1. [owner |-> s, n |-> 1] \in Version
    BY ConstantsAssumption DEF Version
  <2> QED
    BY <1>2, <2>1 DEF Replace, RegisterReplacementOwner, OthersDrained, ReplaceArchive,
           ExportArchive
<1>3. CASE Callback(s)
  <2>1. ASSUME NEW e \in Entries, ReadEntry(s, e) PROVE DataTypes'
    BY <2>1 DEF ReadEntry
  <2>2. ASSUME NEW e \in Entries, WriteEntry(s, e) PROVE DataTypes'
    <3> DEFINE version == [owner |-> s, n |-> writes[s][e] + 1]
               change == [current |-> version,
                          previous |-> IF changes[s][e].previous # None
                                       THEN changes[s][e].previous ELSE overlay[e]]
    <3>1. version \in Version
      BY <2>2, ConstantsAssumption DEF WriteEntry, Version
    <3>2. change \in [current : OptVersion, previous : OptVersion]
      BY <3>1
    <3>3. /\ overlay' = [overlay EXCEPT ![e] = version]
          /\ changes' = [changes EXCEPT ![s][e] = change]
          /\ writes' = [writes EXCEPT ![s][e] = @ + 1]
          /\ requested' = [requested EXCEPT ![s] = @ \cup {e}]
          /\ UNCHANGED <<archive, batch, image, aborted>>
      BY <2>2 DEF WriteEntry, RecordChange
    <3> HIDE DEF version, change
    <3> QED
      BY <3>1, <3>2, <3>3
  <2>3. CASE FinishCallback(s) \/ FailCallback(s)
    BY <2>3 DEF FinishCallback, FailCallback
  <2> QED
    BY <1>3, <2>1, <2>2, <2>3 DEF Callback
<1>4. CASE Rollback(s)
  <2>1. NoChange \in [current : OptVersion, previous : OptVersion]
    BY DEF NoChange
  <2>2. ASSUME NEW e \in Entries, RollbackChange(s, e) PROVE DataTypes'
    <3>1. changes[s][e].previous \in OptVersion
      OBVIOUS
    <3>2. overlay' \in [Entries -> OptVersion]
      BY <2>2, <3>1 DEF RollbackChange
    <3>3. changes' = [changes EXCEPT ![s][e] = NoChange]
      BY <2>2 DEF RollbackChange
    <3>4. changes' \in [Sessions -> [Entries ->
            [current : OptVersion, previous : OptVersion]]]
      BY <2>1, <3>3
    <3> QED
      BY <2>2, <3>2, <3>4 DEF RollbackChange
  <2>3. CASE FinishRollback(s)
    BY <2>3 DEF FinishRollback
  <2> QED
    BY <1>4, <2>2, <2>3 DEF Rollback
<1>5. NoImage \in [Entries -> OptVersion]
  BY DEF NoImage
<1>6. CASE Settle(s)
  <2>1. CASE Reap(s) \/ Flush(s) \/ DeferSettlement(s)
    <3>1. \A paths \in SUBSET Entries, label \in Labels :
            CallFlush(s, paths, label) => requested' \in [Sessions -> SUBSET Entries]
      BY DEF CallFlush
    <3>2. OrphanPaths(CleanOwners, CleanPhases) \in SUBSET Entries
      BY DEF OrphanPaths
    <3>3. CASE Reap(s)
      BY <3>1, <3>2, <3>3 DEF Reap, Labels
    <3>4. CASE Flush(s)
      BY <3>1, <3>4 DEF Flush, Labels
    <3>5. CASE DeferSettlement(s)
      BY <3>5 DEF DeferSettlement
    <3> QED
      BY <2>1, <3>3, <3>4, <3>5
  <2>2. CASE CollectOverlays(s) \/ WriteImage(s)
    <3>1. ASSUME NEW S PROVE [e \in Entries |-> IF e \in S THEN overlay[e] ELSE None]
                               \in [Entries -> OptVersion]
      OBVIOUS
    <3>2. [e \in Entries |-> IF batch[s][e] # None THEN batch[s][e] ELSE archive[e]]
            \in [Entries -> OptVersion \cup {Base}]
      OBVIOUS
    <3>3. CASE CollectOverlays(s)
      <4>1. batch' \in [Sessions -> [Entries -> OptVersion]]
        BY <3>1, <3>3 DEF CollectOverlays
      <4> QED
        BY <3>3, <4>1 DEF CollectOverlays
    <3>4. CASE WriteImage(s)
      <4>1. image' \in [Sessions -> [Entries -> OptVersion \cup {Base}]]
        BY <3>2, <3>4 DEF WriteImage
      <4> QED
        BY <3>4, <4>1 DEF WriteImage
    <3> QED
      BY <2>2, <3>3, <3>4
  <2>3. CASE CommitOverlays(s) \/ FailCommit(s)
    <3>1. NoImage \in [Entries -> OptVersion \cup {Base}]
      BY <1>5
    <3>2. /\ batch' = batch \/ batch' = [batch EXCEPT ![s] = NoImage]
          /\ image' = [image EXCEPT ![s] = NoImage]
          /\ archive' = archive \/ archive' = image[s]
          /\ aborted' = aborted \/ aborted' = [aborted EXCEPT ![s] = TRUE]
          /\ UNCHANGED <<overlay, changes, requested, writes>>
      BY <2>3 DEF CommitOverlays, FailCommit
    <3>3. batch' \in [Sessions -> [Entries -> OptVersion]]
      BY <1>5, <3>2
    <3>4. image' \in [Sessions -> [Entries -> OptVersion \cup {Base}]]
      BY <3>1, <3>2
    <3>5. archive' \in [Entries -> OptVersion \cup {Base}]
      BY <3>2
    <3>6. aborted' \in [Sessions -> BOOLEAN]
      BY <3>2
    <3> QED
      BY <3>2, <3>3, <3>4, <3>5, <3>6
  <2>4. ASSUME NEW e \in Entries, DeleteCommittedOverlay(s, e) PROVE DataTypes'
    BY <2>4 DEF DeleteCommittedOverlay
  <2> QED
    BY <1>6, <2>1, <2>2, <2>3, <2>4
       DEF Settle, AcquireCommitLock, AcquireEntryLock, FinishCommit, ReleaseEntryLock,
           ReleaseCommitLock
<1>7. CASE Close(s)
  <2>1. NoChange \in [current : OptVersion, previous : OptVersion]
    BY DEF NoChange
  <2>2. CASE CleanupSupersededSnapshots(s)
    <3>1. [e \in Entries |-> NoChange]
            \in [Entries -> [current : OptVersion, previous : OptVersion]]
      BY <2>1
    <3> QED
      BY <2>2, <3>1 DEF CleanupSupersededSnapshots
  <2>3. CASE FailCloseReader(s) \/ FailTidy(s)
    <3>1. aborted' \in [Sessions -> BOOLEAN]
      BY <2>3 DEF FailCloseReader, FailTidy
    <3> QED
      BY <2>3, <3>1 DEF FailCloseReader, FailTidy
  <2> QED
    BY <1>7, <2>2, <2>3 DEF Close, CloseReader, MarkDrained, MarkCompleted,
         UnregisterArchiveOwner
<1>8. CASE Crash(s)
  <2>1. NoChange \in [current : OptVersion, previous : OptVersion]
    BY DEF NoChange
  <2> QED
    BY <1>5, <1>8, <2>1 DEF Crash
<1> QED
  BY <1>1, <1>2, <1>3, <1>4, <1>6, <1>7, <1>8 DEF Step, Protocol

\* An owner row goes with its owner's death or its last step.
LEMMA ActiveRegisteredKept ==
  ASSUME IInv, SInv, NEW s \in Sessions, Step(s)
  PROVE  ActiveRegistered'
<1> USE DEF IInv, ControlTypes, SInv, ActiveRegistered, CleanupStaleState, CleanOwners,
            Stale, database, Goto
<1>1. CASE Poll(s) \/ Open(s) \/ Crash(s)
  BY <1>1 DEF Poll, Open, RegisterArchiveOwner, OpenReader, Crash
<1>2. CASE Replace(s)
  BY <1>2 DEF Replace, RegisterReplacementOwner, OthersDrained, ReplaceArchive,
         ExportArchive
<1>3. CASE Callback(s) \/ Rollback(s)
  BY <1>3 DEF Callback, ReadEntry, WriteEntry, FinishCallback, FailCallback, Rollback,
         RollbackChange, FinishRollback
<1>4. CASE Settle(s)
  BY <1>4 DEF Settle, Reap, Flush, DeferSettlement, CallFlush, AcquireCommitLock,
         AcquireEntryLock, CollectOverlays, WriteImage, CommitOverlays, FailCommit,
         DeleteCommittedOverlay, FinishCommit, ReleaseEntryLock, ReleaseCommitLock
<1>5. CASE Close(s)
  BY <1>5 DEF Close, CloseReader, FailCloseReader, MarkDrained,
         CleanupSupersededSnapshots, FailTidy, MarkCompleted, UnregisterArchiveOwner
<1> QED
  BY <1>1, <1>2, <1>3, <1>4, <1>5 DEF Step, Protocol

\* Only writers publish, and a rollback restores what a writer published.
LEMMA OverlaysOfWritersKept ==
  ASSUME IInv, SInv, NEW s \in Sessions, Step(s)
  PROVE  OverlaysOfWriters'
<1> USE DEF SInv, DataTypes, OverlaysOfWriters, database, files, work, memory
<1>1. CASE UNCHANGED <<overlay, changes>>
  BY <1>1
<1>2. ASSUME NEW e \in Entries, WriteEntry(s, e) PROVE OverlaysOfWriters'
  <2> DEFINE version == [owner |-> s, n |-> writes[s][e] + 1]
             previous == IF changes[s][e].previous # None
                         THEN changes[s][e].previous ELSE overlay[e]
  <2>1. /\ overlay' = [overlay EXCEPT ![e] = version]
        /\ changes' = [changes EXCEPT ![s][e] =
                         [current |-> version, previous |-> previous]]
        /\ Kind[s] = "writer"
    BY <1>2 DEF WriteEntry, RecordChange
  <2>2. version.owner = s
    OBVIOUS
  <2>3. previous # None => Kind[previous.owner] = "writer"
    OBVIOUS
  <2> HIDE DEF version, previous
  <2> QED
    BY <2>1, <2>2, <2>3
<1>3. ASSUME NEW e \in Entries, RollbackChange(s, e) PROVE OverlaysOfWriters'
  BY <1>3 DEF RollbackChange, NoChange
<1>4. ASSUME NEW e \in Entries, DeleteCommittedOverlay(s, e) PROVE OverlaysOfWriters'
  BY <1>4 DEF DeleteCommittedOverlay
<1>5. CASE CleanupSupersededSnapshots(s) \/ Crash(s)
  <2>1. /\ overlay' = overlay
        /\ changes' = [changes EXCEPT ![s] = [e \in Entries |-> NoChange]]
    BY <1>5 DEF CleanupSupersededSnapshots, Crash
  <2>2. NoChange.previous = None
    BY DEF NoChange
  <2> QED
    BY <2>1, <2>2
<1>6. CASE Poll(s) \/ Open(s) \/ Replace(s)
  BY <1>1, <1>6 DEF Poll, Open, RegisterArchiveOwner, OpenReader, Replace,
         RegisterReplacementOwner, OthersDrained, ReplaceArchive, ExportArchive
<1>7. CASE Callback(s) \/ Rollback(s)
  BY <1>1, <1>2, <1>3, <1>7 DEF Callback, ReadEntry, FinishCallback, FailCallback,
         Rollback, FinishRollback
<1>8. CASE Settle(s)
  BY <1>1, <1>4, <1>8 DEF Settle, Reap, Flush, DeferSettlement, AcquireCommitLock,
         AcquireEntryLock, CollectOverlays, WriteImage, CommitOverlays, FailCommit,
         FinishCommit, ReleaseEntryLock, ReleaseCommitLock
<1>9. CASE Close(s)
  BY <1>1, <1>5, <1>9 DEF Close, CloseReader, FailCloseReader, MarkDrained, FailTidy,
         MarkCompleted, UnregisterArchiveOwner
<1> QED
  BY <1>5, <1>6, <1>7, <1>8, <1>9 DEF Step, Protocol

\* A settler writes its image from the archive and then is the only one to change it.
LEMMA ImagesKept ==
  ASSUME IInv, SInv, NEW s \in Sessions, Step(s)
  PROVE  Images'
<1> SUFFICES ASSUME NEW t \in Sessions, pc'[t] = "rename", NEW e \in Entries
             PROVE  image'[t][e] = IF batch'[t][e] # None THEN batch'[t][e]
                                                         ELSE archive'[e]
  BY DEF Images
<1>1. CASE t # s
  BY <1>1, MemoryIsLocal, RenamerIsAlone DEF SInv, Images
<1>2. CASE t = s
  <2>1. CASE WriteImage(s)
    BY <1>2, <2>1 DEF WriteImage, SInv, DataTypes, files
  <2>2. CASE ~WriteImage(s)
    <3> USE <1>2, <2>2 DEF IInv, ControlTypes, RollbackReturns, Returns, Goto, database
    <3>1. ~Poll(s) /\ ~Crash(s) /\ ~Open(s) /\ ~Replace(s)
      BY DEF Poll, Crash, Open, RegisterArchiveOwner, OpenReader, Replace,
         RegisterReplacementOwner, OthersDrained, ReplaceArchive, ExportArchive
    <3>2. ~Callback(s) /\ ~Rollback(s)
      BY DEF Callback, ReadEntry, WriteEntry, FinishCallback, FailCallback, Rollback,
         RollbackChange, FinishRollback
    <3>3. ~Close(s)
      BY DEF Close, CloseReader, FailCloseReader, MarkDrained,
         CleanupSupersededSnapshots, FailTidy, MarkCompleted, UnregisterArchiveOwner
    <3>4. ~Settle(s)
      BY DEF Settle, Reap, Flush, DeferSettlement, CallFlush, AcquireCommitLock,
         AcquireEntryLock, CollectOverlays, CommitOverlays, FailCommit,
         DeleteCommittedOverlay, FinishCommit, ReleaseEntryLock, ReleaseCommitLock,
         Recovery
    <3> QED
      BY <3>1, <3>2, <3>3, <3>4 DEF Step, Protocol
  <2> QED
    BY <2>1, <2>2
<1> QED
  BY <1>1, <1>2

\* An exclusive session drains the others, finds that every overlay is somebody
\* else's who has gone, and settles them all before it goes on.
LEMMA ExclusiveFlushesKept ==
  ASSUME IInv, SInv, NEW s \in Sessions, Step(s)
  PROVE  ExclusiveFlushes'
<1> DEFINE Good(t) == /\ pc[t] = "drain" => Kind[t] = "replacer"
                      /\ Exclusive(t) => /\ Kind[t] = "replacer"
                                         /\ owners = {t}
                                         /\ FlushesAll(t)
<1>1. ASSUME NEW t \in Sessions, t # s PROVE Good(t)'
  <2>1. /\ pc'[t] = pc[t] /\ then'[t] = then[t]
        /\ requested'[t] = requested[t] /\ aborted'[t] = aborted[t]
        /\ batch'[t] = batch[t]
    BY <1>1, MemoryIsLocal DEF SInv
  <2>2. Good(t) /\ (Exclusive(t)' <=> Exclusive(t))
    BY <2>1 DEF SInv, ExclusiveFlushes, Exclusive
  <2>3. CASE Exclusive(t)
    BY <1>1, <2>1, <2>2, <2>3, ExclusiveIsAlone DEF FlushesAll, Settled
  <2> QED
    BY <2>1, <2>2, <2>3
<1>2. Good(s)'
  <2> USE DEF IInv, ControlTypes, RollbackReturns, Returns, Goto, database, Settling,
              Exclusive
  <2>1. CASE pc'[s] \notin Settling \cup {"drain", "fence", "replaceReap", "replace"}
    BY <2>1
  <2>2. CASE pc'[s] = "drain"
    <3>1. ~Exclusive(s)'
      BY <2>2
    <3>2. Kind[s] = "replacer"
      <4>1. CASE Poll(s) \/ Crash(s)
        BY <2>2, <4>1 DEF Poll, Crash, SInv, ExclusiveFlushes
      <4>2. CASE Replace(s) \/ Open(s)
        BY <2>2, <4>2 DEF Open, RegisterArchiveOwner, OpenReader, Replace,
               RegisterReplacementOwner, OthersDrained, ReplaceArchive, ExportArchive
      <4>3. ~Callback(s) /\ ~Rollback(s)
        BY <2>2 DEF Callback, ReadEntry, WriteEntry, FinishCallback, FailCallback,
               Rollback, RollbackChange, FinishRollback
      <4>4. ~Settle(s)
        BY <2>2 DEF Settle, Reap, Flush, DeferSettlement, CallFlush, AcquireCommitLock,
               AcquireEntryLock, CollectOverlays, WriteImage, CommitOverlays, FailCommit,
               DeleteCommittedOverlay, FinishCommit, ReleaseEntryLock,
               ReleaseCommitLock, Recovery
      <4>5. ~Close(s)
        BY <2>2 DEF Close, CloseReader, FailCloseReader, MarkDrained,
               CleanupSupersededSnapshots, FailTidy, MarkCompleted,
               UnregisterArchiveOwner
      <4> QED
        BY <4>1, <4>2, <4>3, <4>4, <4>5 DEF Step, Protocol
    <3> QED
      BY <3>1, <3>2
  \* What it has in hand when it is exclusive already.
  <2>3. Exclusive(s) =>
          /\ Kind[s] = "replacer" /\ owners = {s} /\ CleanOwners = {s} /\ FlushesAll(s)
          /\ \A e \in Entries : overlay[e] # None => overlay[e].owner # s
    BY DEF SInv, ExclusiveFlushes, OverlaysOfWriters, CleanOwners, Stale
  <2>4. CASE OthersDrained(s)
    <3>1. CleanOwners = {s} /\ pc'[s] = "replaceReap" /\ owners' = CleanOwners
      BY <2>4 DEF OthersDrained, SInv, ActiveRegistered, CleanOwners, Stale,
             CleanupStaleState
    <3>2. Kind[s] = "replacer"
      BY <2>4 DEF OthersDrained, SInv, ExclusiveFlushes
    <3> QED
      BY <3>1, <3>2 DEF FlushesAll
  <2>5. CASE Poll(s) \/ Crash(s)
    <3>1. CASE Crash(s)
      BY <3>1 DEF Crash
    <3>2. CASE Poll(s)
      <4>1. /\ UNCHANGED <<pc, then, overlay, archive, requested, batch, aborted>>
            /\ owners' = CleanOwners
        BY <3>2 DEF Poll, CleanupStaleState, files, memory, work
      <4> QED
        BY <2>3, <4>1 DEF FlushesAll, Settled, SInv, ExclusiveFlushes
    <3> QED
      BY <2>5, <3>1, <3>2
  <2>6. CASE Reap(s)
    <3>1. CASE pc[s] = "replaceReap"
      <4>1. OrphanPaths(CleanOwners, CleanPhases) = {e \in Entries : overlay[e] # None}
        BY <2>3, <3>1 DEF OrphanPaths
      <4>2. /\ owners' = CleanOwners /\ then'[s] = "replace" /\ overlay' = overlay
            /\ requested'[s] = {e \in Entries : overlay[e] # None}
            /\ pc'[s] = IF requested'[s] = {} THEN "replace" ELSE "fence"
        BY <2>6, <3>1, <4>1 DEF Reap, CallFlush, CleanupStaleState, SInv, DataTypes
      <4> QED
        BY <2>3, <3>1, <4>2 DEF FlushesAll, Settled
    <3>2. CASE pc[s] # "replaceReap"
      BY <2>6, <3>2 DEF Reap, CallFlush
    <3> QED
      BY <3>1, <3>2
  <2>7. CASE Flush(s)
    BY <2>7 DEF Flush, CallFlush
  <2>8. CASE DeferSettlement(s)
    <3>1. ~Exclusive(s)
      BY <2>3, <2>8 DEF DeferSettlement, ForeignReader
    <3> QED
      BY <2>8, <3>1 DEF DeferSettlement
  <2>9. ASSUME NEW e \in Entries, AcquireEntryLock(s, e)
        PROVE  Good(s)'
    <3>1. /\ pc[s] = "lock" /\ pc'[s] = "lock" /\ owners' = CleanOwners
          /\ UNCHANGED <<then, overlay, requested>>
      BY <2>9 DEF AcquireEntryLock, memory
    <3> QED
      BY <2>3, <3>1 DEF FlushesAll
  <2>10. CASE AcquireCommitLock(s)
    <3>1. /\ pc[s] = "fence" /\ pc'[s] = "lock" /\ owners' = CleanOwners
          /\ UNCHANGED <<then, overlay, requested>>
      BY <2>10 DEF AcquireCommitLock, memory
    <3> QED
      BY <2>3, <3>1 DEF FlushesAll
  <2>11. CASE CollectOverlays(s)
    <3> DEFINE collected == {e \in requested[s] : Settleable(s, e)}
    <3>1. /\ pc[s] = "lock" /\ UNCHANGED <<then, owners, overlay, archive>>
          /\ batch'[s] = [e \in Entries |-> IF e \in collected THEN overlay[e] ELSE None]
          /\ pc'[s] = IF collected = {} THEN "release" ELSE "commit"
      BY <2>11 DEF CollectOverlays, files, SInv, DataTypes
    <3>2. CASE Exclusive(s)
      <4>1. \A e \in Entries : overlay[e] # None => e \in collected
        BY <2>3, <3>1, <3>2 DEF FlushesAll, Settleable
      <4>2. batch'[s] = overlay
        BY <3>1, <4>1 DEF SInv, DataTypes
      <4>3. collected = {} => Settled
        BY <4>1 DEF Settled
      <4> HIDE DEF collected
      <4> QED
        BY <2>3, <3>1, <3>2, <4>2, <4>3 DEF FlushesAll, Settled
    <3> QED
      BY <3>1, <3>2
  <2>12. CASE WriteImage(s)
    <3>1. /\ pc[s] = "commit" /\ pc'[s] = "rename"
          /\ UNCHANGED <<then, owners, overlay, batch>>
      BY <2>12 DEF WriteImage
    <3> QED
      BY <2>3, <3>1 DEF FlushesAll
  <2>13. CASE CommitOverlays(s)
    <3>1. /\ pc[s] = "rename" /\ pc'[s] = "unlink" /\ archive' = image[s]
          /\ UNCHANGED <<then, owners, overlay>>
      BY <2>13 DEF CommitOverlays
    <3>2. Exclusive(s) => Settled'
      BY <2>3, <3>1 DEF FlushesAll, Settled, SInv, Images
    <3> QED
      BY <2>3, <3>1, <3>2 DEF FlushesAll
  <2>14. CASE FailCommit(s)
    <3>1. /\ pc[s] \in Settling /\ pc'[s] = "release" /\ aborted'[s]
          /\ UNCHANGED <<then, owners>>
      BY <2>14 DEF FailCommit, SInv, DataTypes
    <3> QED
      BY <2>3, <3>1 DEF FlushesAll
  <2>15. ASSUME NEW e \in Entries, DeleteCommittedOverlay(s, e) PROVE Good(s)'
    <3>1. /\ pc[s] = "unlink" /\ UNCHANGED <<pc, then, owners, archive>>
          /\ overlay' = overlay \/ overlay' = [overlay EXCEPT ![e] = None]
      BY <2>15 DEF DeleteCommittedOverlay
    <3>2. Settled => Settled'
      BY <3>1 DEF Settled, SInv, DataTypes
    <3> QED
      BY <2>3, <3>1, <3>2 DEF FlushesAll
  <2>16. CASE FinishCommit(s)
    <3>1. /\ pc[s] = "unlink" /\ pc'[s] = "release"
          /\ UNCHANGED <<then, owners, overlay, archive>>
      BY <2>16 DEF FinishCommit, files
    <3> QED
      BY <2>3, <3>1 DEF FlushesAll, Settled
  <2>17. ASSUME NEW e \in Entries, ReleaseEntryLock(s, e) PROVE Good(s)'
    <3>1. /\ pc[s] = "release"
          /\ UNCHANGED <<pc, then, owners, overlay, archive, aborted>>
      BY <2>17 DEF ReleaseEntryLock, files, memory
    <3> QED
      BY <2>3, <3>1 DEF FlushesAll, Settled
  <2>18. CASE ReleaseCommitLock(s)
    <3>1. CASE aborted[s]
      BY <2>18, <3>1 DEF ReleaseCommitLock, Recovery
    <3>2. CASE ~aborted[s]
      <4>1. /\ pc[s] = "release" /\ pc'[s] = then[s]
            /\ UNCHANGED <<then, owners, overlay, archive>>
        BY <2>18, <3>2 DEF ReleaseCommitLock, files
      <4> QED
        BY <2>3, <3>2, <4>1 DEF FlushesAll, Settled
    <3> QED
      BY <3>1, <3>2
  <2>19. CASE Open(s) \/ Replace(s)
    BY <2>1, <2>2, <2>4, <2>19 DEF Open, RegisterArchiveOwner, OpenReader, Replace,
           RegisterReplacementOwner, ReplaceArchive, ExportArchive
  <2>20. CASE Callback(s) \/ Rollback(s)
    BY <2>1, <2>20 DEF Callback, ReadEntry, WriteEntry, FinishCallback, FailCallback,
           Rollback, RollbackChange, FinishRollback
  <2>21. CASE Close(s)
    BY <2>1, <2>21 DEF Close, CloseReader, FailCloseReader, MarkDrained,
           CleanupSupersededSnapshots, FailTidy, MarkCompleted, UnregisterArchiveOwner
  <2>22. CASE Settle(s)
    BY <2>6, <2>7, <2>8, <2>9, <2>10, <2>11, <2>12, <2>13, <2>14, <2>15, <2>16, <2>17,
       <2>18, <2>22 DEF Settle
  <2> QED
    BY <2>5, <2>19, <2>20, <2>21, <2>22 DEF Step, Protocol
<1> QED
  BY <1>1, <1>2 DEF ExclusiveFlushes

LEMMA SInvInit == Init => SInv
<1> SUFFICES ASSUME Init PROVE SInv
  OBVIOUS
<1>1. DataTypes
  BY DEF Init, DataTypes, OptVersion, NoChange, NoImage
<1>2. ActiveRegistered /\ OverlaysOfWriters /\ Images /\ ExclusiveFlushes
  BY DEF Init, ActiveRegistered, OverlaysOfWriters, NoChange, Images, ExclusiveFlushes,
         Exclusive, Settling
<1> QED
  BY <1>1, <1>2 DEF SInv

LEMMA SInvStep == IInv /\ SInv /\ [Next]_vars => SInv'
<1> SUFFICES ASSUME IInv, SInv, [Next]_vars PROVE SInv'
  OBVIOUS
<1>1. ASSUME NEW s \in Sessions, Step(s) PROVE SInv'
  BY <1>1, DataTypesKept, ActiveRegisteredKept, OverlaysOfWritersKept, ImagesKept,
     ExclusiveFlushesKept DEF SInv
<1>2. CASE UNCHANGED vars
  BY <1>2 DEF SInv, DataTypes, ActiveRegistered, OverlaysOfWriters, Images,
         ExclusiveFlushes, Exclusive, FlushesAll, Settled, vars, database, files, memory,
         work
<1> QED
  BY <1>1, <1>2 DEF Next, Step, Terminated

\* What settlers and exclusive sessions have in hand, for any sessions and failures.
THEOREM SettlementInvariance == Spec => []SInv
<1>1. Init => SInv
  BY SInvInit
<1>2. IInv /\ SInv /\ [Next]_vars => SInv'
  BY SInvStep
<1> QED
  BY <1>1, <1>2, Invariance, PTL DEF Spec

\* A new image that replaces the archive loses no entry another settlement or a
\* replacement has put there meanwhile.
THEOREM ImageCurrentTheorem == Spec => []ImageCurrent
<1>1. SInv => ImageCurrent
  BY DEF SInv, Images, ImageCurrent
<1> QED
  BY <1>1, SettlementInvariance, PTL

\* A replacement or an export starts from the bytes of every logical write.
THEOREM ExclusiveIsSettledTheorem == Spec => []ExclusiveIsSettled
<1>1. SInv => ExclusiveIsSettled
  BY DEF SInv, ExclusiveFlushes, Exclusive, FlushesAll, Settled, View,
         ExclusiveIsSettled
<1> QED
  BY <1>1, SettlementInvariance, PTL

-----------------------------------------------------------------------------
(* No snapshot goes while it may still be shown: a third invariant.  A version *)
(* is kept in one place only, in the overlay row or as what one session would  *)
(* restore, so who drops it knows that nobody else needs its file.             *)

Previous(s, e) == changes[s][e].previous

\* Versions in use are old ones, of their entry.
VersionsUsed ==
  \A e \in Entries :
    /\ overlay[e] # None => overlay[e].n <= writes[overlay[e].owner][e]
    /\ \A s \in Sessions : Previous(s, e) # None =>
         Previous(s, e).n <= writes[Previous(s, e).owner][e]

\* Each is kept once.
KeptOnce ==
  \A e \in Entries, s \in Sessions : Previous(s, e) # None =>
    /\ Previous(s, e) # overlay[e]
    /\ \A t \in Sessions \ {s} : Previous(t, e) # Previous(s, e)

\* And has its file.
PreviousHasSnapshot ==
  \A s \in Sessions, e \in Entries :
    Previous(s, e) # None => <<e, Previous(s, e)>> \in snapshots

RInv == VersionsUsed /\ KeptOnce /\ PreviousHasSnapshot /\ OverlayHasSnapshot

LEMMA RInvInit == Init => RInv
BY DEF Init, RInv, VersionsUsed, KeptOnce, PreviousHasSnapshot, OverlayHasSnapshot,
       Previous, NoChange

\* A write keeps what was there for its session's rollback, unless that has
\* something older to restore.
LEMMA WriteEntryKeepsRInv ==
  ASSUME DataTypes, RInv, NEW s \in Sessions, NEW e \in Entries, WriteEntry(s, e)
  PROVE  RInv'
<1> DEFINE version == [owner |-> s, n |-> writes[s][e] + 1]
           previous == IF Previous(s, e) # None THEN Previous(s, e) ELSE overlay[e]
<1>1. /\ overlay' = [overlay EXCEPT ![e] = version]
      /\ snapshots' = snapshots \cup {<<e, version>>}
      /\ changes' = [changes EXCEPT ![s][e] =
                       [current |-> version, previous |-> previous]]
      /\ writes' = [writes EXCEPT ![s][e] = @ + 1]
  BY DEF WriteEntry, RecordChange, Previous
<1>2. version.owner = s /\ version.n = writes[s][e] + 1 /\ writes[s][e] \in Nat
  BY DEF DataTypes
<1>3. \A t \in Sessions, d \in Entries :
        Previous(t, d)' = IF t = s /\ d = e THEN previous ELSE Previous(t, d)
  BY <1>1 DEF DataTypes, Previous
<1>4. \A d \in Entries : overlay'[d] = IF d = e THEN version ELSE overlay[d]
  BY <1>1 DEF DataTypes
<1>5. \A t \in Sessions, d \in Entries :
        writes'[t][d] = IF t = s /\ d = e THEN writes[s][e] + 1 ELSE writes[t][d]
  BY <1>1 DEF DataTypes
<1>6. \A v \in Version, d \in Entries :
        v.n <= writes[v.owner][d] => v.n <= writes'[v.owner][d] /\ (d = e => v # version)
  BY <1>2, <1>5, ConstantsAssumption DEF Version, DataTypes
<1>7. \A t \in Sessions, d \in Entries :
        /\ Previous(t, d) # None => Previous(t, d) \in Version
        /\ overlay[d] # None => overlay[d] \in Version
  BY DEF DataTypes, OptVersion, Previous
<1>8. previous # None => /\ previous \in Version
                        /\ previous.n <= writes[previous.owner][e]
                        /\ <<e, previous>> \in snapshots
  BY <1>7 DEF RInv, VersionsUsed, PreviousHasSnapshot, OverlayHasSnapshot
<1> HIDE DEF version
<1>9. VersionsUsed'
  <2>1. version.n <= writes'[version.owner][e]
    BY <1>2, <1>5
  <2> QED
    BY <1>3, <1>4, <1>6, <1>7, <1>8, <2>1 DEF RInv, VersionsUsed
<1>10. KeptOnce'
  <2> SUFFICES ASSUME NEW d \in Entries, NEW t \in Sessions, Previous(t, d)' # None
               PROVE  /\ Previous(t, d)' # overlay'[d]
                      /\ \A u \in Sessions \ {t} : Previous(u, d)' # Previous(t, d)'
    BY DEF KeptOnce
  <2>1. CASE d # e
    BY <1>3, <1>4, <2>1 DEF RInv, KeptOnce
  <2>2. CASE d = e
    <3>1. Previous(t, e)' # version
      BY <1>3, <1>6, <1>7, <1>8, <2>2 DEF RInv, VersionsUsed
    <3>2. \A u \in Sessions \ {s} : Previous(u, e) # previous \/ previous = None
      BY DEF RInv, KeptOnce
    <3> QED
      BY <1>3, <1>4, <2>2, <3>1, <3>2 DEF RInv, KeptOnce
  <2> QED
    BY <2>1, <2>2
<1>11. PreviousHasSnapshot' /\ OverlayHasSnapshot'
  BY <1>1, <1>3, <1>4, <1>8 DEF RInv, PreviousHasSnapshot, OverlayHasSnapshot
<1> QED
  BY <1>9, <1>10, <1>11 DEF RInv

\* A rollback moves a version back to the row and drops the file of the one that
\* was there.
LEMMA RollbackChangeKeepsRInv ==
  ASSUME DataTypes, RInv, NEW s \in Sessions, NEW e \in Entries, RollbackChange(s, e)
  PROVE  RInv'
<1>1. /\ changes' = [changes EXCEPT ![s][e] = NoChange]
      /\ writes' = writes
      /\ \/ UNCHANGED <<overlay, snapshots>>
         \/ /\ overlay' = [overlay EXCEPT ![e] = Previous(s, e)]
            /\ snapshots' = snapshots \ {<<e, overlay[e]>>}
  BY DEF RollbackChange, Previous
<1>2. \A t \in Sessions, d \in Entries :
        Previous(t, d)' = IF t = s /\ d = e THEN None ELSE Previous(t, d)
  BY <1>1 DEF DataTypes, Previous, NoChange
<1>3. CASE UNCHANGED <<overlay, snapshots>>
  BY <1>1, <1>2, <1>3
     DEF RInv, VersionsUsed, KeptOnce, PreviousHasSnapshot, OverlayHasSnapshot
<1>4. CASE /\ overlay' = [overlay EXCEPT ![e] = Previous(s, e)]
           /\ snapshots' = snapshots \ {<<e, overlay[e]>>}
  <2>1. \A d \in Entries : overlay'[d] = IF d = e THEN Previous(s, e) ELSE overlay[d]
    BY <1>4 DEF DataTypes
  <2>2. VersionsUsed'
    BY <1>1, <1>2, <2>1 DEF RInv, VersionsUsed
  <2>3. KeptOnce'
    BY <1>2, <2>1 DEF RInv, KeptOnce
  <2>4. PreviousHasSnapshot' /\ OverlayHasSnapshot'
    BY <1>2, <1>4, <2>1
       DEF RInv, KeptOnce, PreviousHasSnapshot, OverlayHasSnapshot
  <2> QED
    BY <2>2, <2>3, <2>4 DEF RInv
<1> QED
  BY <1>1, <1>3, <1>4

LEMMA RInvKept ==
  ASSUME DataTypes, RInv, NEW s \in Sessions, Step(s)
  PROVE  RInv'
<1> USE DEF database, files, work, memory
<1>1. CASE UNCHANGED <<overlay, snapshots, changes, writes>>
  BY <1>1 DEF RInv, VersionsUsed, KeptOnce, PreviousHasSnapshot, OverlayHasSnapshot,
         Previous
<1>2. CASE CleanupSupersededSnapshots(s) \/ Crash(s)
  <2>1. /\ UNCHANGED <<overlay, writes>>
        /\ changes' = [changes EXCEPT ![s] = [e \in Entries |-> NoChange]]
        /\ \/ snapshots' = snapshots
           \/ snapshots' = snapshots \ {<<e, Previous(s, e)>> : e \in Entries}
    BY <1>2 DEF CleanupSupersededSnapshots, Crash, Previous
  <2>2. \A t \in Sessions, d \in Entries :
          Previous(t, d)' = IF t = s THEN None ELSE Previous(t, d)
    BY <2>1 DEF DataTypes, Previous, NoChange
  <2>3. VersionsUsed' /\ KeptOnce'
    BY <2>1, <2>2 DEF RInv, VersionsUsed, KeptOnce
  <2>4. PreviousHasSnapshot'
    BY <2>1, <2>2 DEF RInv, KeptOnce, PreviousHasSnapshot
  <2>5. OverlayHasSnapshot'
    BY <2>1 DEF RInv, KeptOnce, OverlayHasSnapshot
  <2> QED
    BY <2>3, <2>4, <2>5 DEF RInv
<1>3. ASSUME NEW e \in Entries, DeleteCommittedOverlay(s, e) PROVE RInv'
  <2>1. CASE /\ overlay' = [overlay EXCEPT ![e] = None]
             /\ snapshots' = snapshots \ {<<e, overlay[e]>>}
             /\ UNCHANGED <<changes, writes>>
    <3>1. \A d \in Entries : overlay'[d] = IF d = e THEN None ELSE overlay[d]
      BY <2>1 DEF DataTypes
    <3> QED
      BY <2>1, <3>1 DEF RInv, VersionsUsed, KeptOnce, PreviousHasSnapshot,
             OverlayHasSnapshot, Previous
  <2> QED
    BY <1>1, <1>3, <2>1 DEF DeleteCommittedOverlay
<1>4. CASE Poll(s) \/ Open(s) \/ Replace(s)
  BY <1>1, <1>4 DEF Poll, Open, RegisterArchiveOwner, OpenReader, Replace,
         RegisterReplacementOwner, OthersDrained, ReplaceArchive, ExportArchive
<1>5. CASE Callback(s) \/ Rollback(s)
  BY <1>1, <1>5, WriteEntryKeepsRInv, RollbackChangeKeepsRInv
     DEF Callback, ReadEntry, FinishCallback, FailCallback, Rollback, FinishRollback
<1>6. CASE Settle(s)
  BY <1>1, <1>3, <1>6 DEF Settle, Reap, Flush, DeferSettlement, AcquireCommitLock,
         AcquireEntryLock, CollectOverlays, WriteImage, CommitOverlays, FailCommit,
         FinishCommit, ReleaseEntryLock, ReleaseCommitLock
<1>7. CASE Close(s)
  BY <1>1, <1>2, <1>7 DEF Close, CloseReader, FailCloseReader, MarkDrained, FailTidy,
         MarkCompleted, UnregisterArchiveOwner
<1> QED
  BY <1>2, <1>4, <1>5, <1>6, <1>7 DEF Step, Protocol

\* Every overlay row has its snapshot, so it can be settled, whoever rolls back,
\* settles, tidies up or dies.
THEOREM OverlayHasSnapshotTheorem == Spec => []OverlayHasSnapshot
<1>1. Init => RInv
  BY RInvInit
<1>2. SInv /\ RInv /\ [Next]_vars => RInv'
  <2> SUFFICES ASSUME SInv, RInv, [Next]_vars PROVE RInv'
    OBVIOUS
  <2>1. ASSUME NEW s \in Sessions, Step(s) PROVE RInv'
    BY <2>1, RInvKept DEF SInv
  <2>2. CASE UNCHANGED vars
    BY <2>2 DEF RInv, VersionsUsed, KeptOnce, PreviousHasSnapshot, OverlayHasSnapshot,
           Previous, vars, files, memory
  <2> QED
    BY <2>1, <2>2 DEF Next, Step, Terminated
<1>3. RInv => OverlayHasSnapshot
  BY DEF RInv
<1> QED
  BY <1>1, <1>2, <1>3, SettlementInvariance, PTL DEF Spec
=============================================================================
