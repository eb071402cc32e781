------------------------ MODULE ArchiveHistoryProofs ------------------------
(***************************************************************************)
(* Proofs about what an archive shows in the long run, on top of           *)
(* ArchiveCoordinatorProofs: every variable keeps its type, a settler's    *)
(* batch stays what the overlays are, the last publication wins, and the   *)
(* last session to close leaves nothing behind.                            *)
(***************************************************************************)
EXTENDS ArchiveCoordinatorProofs, SequenceTheorems

-----------------------------------------------------------------------------
(* Types *)

\* The types that the other invariants do not have.
LockTypes ==
  /\ commitLock \in OptSession
  /\ replaceLock \in OptSession
  /\ entryLock \in [Entries -> OptSession]

RecordTypes ==
  /\ archive \in [Entries -> Version \cup {Base}]
  /\ writes \in [Sessions -> [Entries -> 0 .. MaxWrites]]
  /\ snapshots \subseteq Entries \X OptVersion
  /\ history \in [Entries -> Seq(Version)]
  /\ withdrawn \subseteq Entries \X Version
  /\ overlapped \subseteq Entries

TInv == LockTypes /\ RecordTypes

LEMMA TInvInit == Init => TInv
<1> SUFFICES ASSUME Init PROVE TInv
  OBVIOUS
<1>1. LockTypes
  BY DEF Init, LockTypes, OptSession
<1>2. RecordTypes
  BY ConstantsAssumption DEF Init, RecordTypes
<1> QED
  BY <1>1, <1>2 DEF TInv

\* Fences and entry locks are given to the session that asks, and dropped.
LEMMA LockTypesKept ==
  ASSUME TInv, NEW s \in Sessions, Step(s)
  PROVE  LockTypes'
<1> USE DEF TInv, LockTypes, OptSession, CleanupStaleState, CleanCommit, CleanReplace,
            CleanLocks, Unstale, database
<1>1. CASE UNCHANGED <<commitLock, replaceLock, entryLock>>
  BY <1>1
<1>2. CASE CleanupStaleState
  BY <1>2
<1>3. CASE Open(s) \/ Replace(s)
  BY <1>1, <1>2, <1>3 DEF Open, RegisterArchiveOwner, OpenReader, Replace,
         RegisterReplacementOwner, OthersDrained, ReplaceArchive, ExportArchive
<1>4. CASE Poll(s) \/ Callback(s) \/ Rollback(s) \/ Crash(s)
  BY <1>1, <1>2, <1>4 DEF Poll, Callback, ReadEntry, WriteEntry, FinishCallback,
         FailCallback, Rollback, RollbackChange, FinishRollback, Crash
<1>5. CASE Settle(s)
  <2>1. CASE Reap(s) \/ Flush(s) \/ DeferSettlement(s)
    BY <1>1, <1>2, <2>1 DEF Reap, Flush, DeferSettlement
  <2>2. CASE AcquireCommitLock(s) \/ \E e \in Entries : AcquireEntryLock(s, e)
    BY <2>2 DEF AcquireCommitLock, AcquireEntryLock
  <2>3. CASE (\E e \in Entries : ReleaseEntryLock(s, e)) \/ ReleaseCommitLock(s)
    BY <2>3 DEF ReleaseEntryLock, ReleaseCommitLock
  <2> QED
    BY <1>1, <1>5, <2>1, <2>2, <2>3 DEF Settle, CollectOverlays, WriteImage,
       CommitOverlays, FailCommit, DeleteCommittedOverlay, FinishCommit
<1>6. CASE Close(s)
  BY <1>1, <1>6 DEF Close, CloseReader, FailCloseReader, MarkDrained,
     CleanupSupersededSnapshots, FailTidy, MarkCompleted, UnregisterArchiveOwner
<1> QED
  BY <1>3, <1>4, <1>5, <1>6 DEF Step, Protocol

\* What is published, archived and withdrawn are versions of sessions.
LEMMA RecordTypesKept ==
  ASSUME SInv, TInv, NEW s \in Sessions, Step(s)
  PROVE  RecordTypes'
<1> USE DEF TInv, RecordTypes, files, memory, work, ghosts, database
<1>1. CASE UNCHANGED <<archive, writes, snapshots, history, withdrawn, overlapped>>
  BY <1>1
<1>2. ASSUME NEW e \in Entries, WriteEntry(s, e) PROVE RecordTypes'
  <2> DEFINE version == [owner |-> s, n |-> writes[s][e] + 1]
  <2>1. version \in Version
    BY <1>2, ConstantsAssumption DEF WriteEntry, Version
  <2>2. /\ writes[s][e] < MaxWrites
        /\ writes' = [writes EXCEPT ![s][e] = @ + 1]
        /\ snapshots' = snapshots \cup {<<e, version>>}
        /\ history' = [history EXCEPT ![e] = Append(@, version)]
        /\ overlapped' \in {overlapped, overlapped \cup {e}}
        /\ UNCHANGED <<archive, withdrawn>>
    BY <1>2 DEF WriteEntry
  <2> HIDE DEF version
  <2>3. Append(history[e], version) \in Seq(Version)
    BY <2>1, AppendProperties
  <2>4. writes[s][e] + 1 \in 0 .. MaxWrites
    BY <2>2, ConstantsAssumption
  <2>5. writes' \in [Sessions -> [Entries -> 0 .. MaxWrites]]
    BY <2>2, <2>4
  <2>6. history' \in [Entries -> Seq(Version)]
    BY <2>2, <2>3
  <2> QED
    BY <2>1, <2>2, <2>5, <2>6 DEF OptVersion
<1>3. ASSUME NEW e \in Entries, RollbackChange(s, e) PROVE RecordTypes'
  <2>1. Withdrawn(s, e) \subseteq Entries \X Version
    BY DEF Withdrawn
  <2> QED
    BY <1>3, <2>1 DEF RollbackChange
<1>4. CASE CommitOverlays(s)
  <2>1. \A e \in Entries : image[s][e] \in Version \cup {Base}
    BY <1>4 DEF CommitOverlays, SInv, Images, DataTypes, OptVersion
  <2> QED
    BY <1>4, <2>1 DEF CommitOverlays, SInv, DataTypes
<1>5. CASE ReplaceArchive(s)
  <2> DEFINE version == [owner |-> s, n |-> 1]
  <2>1. version \in Version
    BY ConstantsAssumption DEF Version
  <2>2. <<version>> \in Seq(Version)
    BY <2>1
  <2> QED
    BY <1>5, <2>1, <2>2 DEF ReplaceArchive
<1>6. CASE Poll(s) \/ Open(s) \/ Replace(s) \/ Crash(s)
  BY <1>1, <1>5, <1>6 DEF Poll, Open, RegisterArchiveOwner, OpenReader, Replace,
         RegisterReplacementOwner, OthersDrained, ExportArchive, Crash
<1>7. CASE Callback(s) \/ Rollback(s)
  BY <1>1, <1>2, <1>3, <1>7 DEF Callback, ReadEntry, FinishCallback, FailCallback,
         Rollback, FinishRollback
<1>8. CASE Settle(s)
  BY <1>1, <1>4, <1>8 DEF Settle, Reap, Flush, DeferSettlement, AcquireCommitLock,
         AcquireEntryLock, CollectOverlays, WriteImage, FailCommit,
         DeleteCommittedOverlay, FinishCommit, ReleaseEntryLock, ReleaseCommitLock
<1>9. CASE Close(s)
  BY <1>1, <1>9 DEF Close, CloseReader, FailCloseReader, MarkDrained,
     CleanupSupersededSnapshots, FailTidy, MarkCompleted, UnregisterArchiveOwner
<1> QED
  BY <1>6, <1>7, <1>8, <1>9 DEF Step, Protocol

LEMMA TypeInvariance == Spec => []TInv
<1>1. Init => TInv
  BY TInvInit
<1>2. SInv /\ TInv /\ [Next]_vars => TInv'
  <2> SUFFICES ASSUME SInv, TInv, [Next]_vars PROVE TInv'
    OBVIOUS
  <2>1. ASSUME NEW s \in Sessions, Step(s) PROVE TInv'
    BY <2>1, LockTypesKept, RecordTypesKept DEF TInv
  <2>2. CASE UNCHANGED vars
    BY <2>2 DEF TInv, LockTypes, RecordTypes, vars, database, files, memory, ghosts
  <2> QED
    BY <2>1, <2>2 DEF Next, Step, Terminated
<1> QED
  BY <1>1, <1>2, SettlementInvariance, PTL DEF Spec

\* Every variable keeps its type, for any sessions, entries and failures.
THEOREM ArchiveTypesTheorem == Spec => []TypeOK
<1>1. IInv /\ SInv /\ TInv => TypeOK
  BY DEF IInv, ControlTypes, Returns, Labels, SInv, DataTypes, TInv, LockTypes,
         RecordTypes, TypeOK
<1> QED
  BY <1>1, Invariance, SettlementInvariance, TypeInvariance, PTL

-----------------------------------------------------------------------------
(* What a settler has in hand: the overlays of its batch stay as it read    *)
(* them, under its entry locks, until it has cleaned up.                    *)

\* From the collection of the batch to the last cleanup.
Committing == {"commit", "rename", "unlink"}

BatchLocked ==
  \A s \in Sessions, e \in Entries :
    (pc[s] \in Committing /\ batch[s][e] # None) =>
      /\ entryLock[e] = s
      /\ overlay[e] = batch[s][e]
      /\ pc[s] = "unlink" => archive[e] = batch[s][e]

\* Nobody takes a living session's entry lock away or touches the entry's overlay.
LEMMA LockedIsUntouched ==
  ASSUME SInv, TInv, BatchLocked, NEW s \in Sessions, Step(s),
         NEW t \in Sessions, t # s, pc[t] # "dead", NEW e \in Entries, entryLock[e] = t
  PROVE  entryLock'[e] = t /\ overlay'[e] = overlay[e]
<1> USE DEF SInv, DataTypes, TInv, LockTypes, database, files, work, memory
<1>1. CleanLocks[e] = t /\ t # None
  BY ConstantsAssumption DEF CleanLocks, Unstale, Stale
<1>2. CASE Poll(s) \/ Open(s) \/ Replace(s) \/ Crash(s)
  BY <1>1, <1>2 DEF Poll, CleanupStaleState, Open, RegisterArchiveOwner, OpenReader,
         Replace, RegisterReplacementOwner, OthersDrained, ReplaceArchive,
         ExportArchive, Crash
<1>3. CASE Callback(s)
  BY <1>1, <1>3 DEF Callback, ReadEntry, WriteEntry, EntryFree, CleanupStaleState,
         FinishCallback, FailCallback
<1>4. CASE Rollback(s)
  BY <1>1, <1>4 DEF Rollback, RollbackChange, EntryFree, CleanupStaleState,
         FinishRollback
<1>5. CASE Settle(s)
  <2>1. CASE Reap(s) \/ Flush(s) \/ DeferSettlement(s) \/ AcquireCommitLock(s)
    BY <1>1, <2>1 DEF Reap, CleanupStaleState, Flush, DeferSettlement, AcquireCommitLock
  <2>2. ASSUME NEW d \in Entries, AcquireEntryLock(s, d)
        PROVE  entryLock'[e] = t /\ overlay'[e] = overlay[e]
    BY <1>1, <2>2 DEF AcquireEntryLock, CleanLocks
  <2>3. ASSUME NEW d \in Entries, DeleteCommittedOverlay(s, d)
        PROVE  entryLock'[e] = t /\ overlay'[e] = overlay[e]
    BY <2>3 DEF DeleteCommittedOverlay, BatchLocked, Committing
  <2>4. ASSUME NEW d \in Entries, ReleaseEntryLock(s, d)
        PROVE  entryLock'[e] = t /\ overlay'[e] = overlay[e]
    BY <2>4 DEF ReleaseEntryLock
  <2> QED
    BY <1>5, <2>1, <2>2, <2>3, <2>4 DEF Settle, CollectOverlays, WriteImage,
           CommitOverlays, FailCommit, FinishCommit, ReleaseCommitLock
<1>6. CASE Close(s)
  BY <1>6 DEF Close, CloseReader, FailCloseReader, MarkDrained,
     CleanupSupersededSnapshots, FailTidy, MarkCompleted, UnregisterArchiveOwner
<1> QED
  BY <1>2, <1>3, <1>4, <1>5, <1>6 DEF Step, Protocol

\* Nor does anybody rewrite the archive while a settler cleans up after its commit.
LEMMA CleanerIsAlone ==
  ASSUME IInv, SInv, NEW s \in Sessions, Step(s), NEW t \in Sessions, t # s,
         pc[t] = "unlink"
  PROVE  archive' = archive
<1>1. pc[s] # "rename" /\ pc[s] # "replace"
  BY DEF IInv, CommitExcludesReaders, SInv, ActiveRegistered, ExclusiveFlushes, Exclusive
<1>2. ~CommitOverlays(s) /\ ~ReplaceArchive(s)
  BY <1>1 DEF CommitOverlays, ReplaceArchive
<1> QED
  BY <1>2 DEF Step, Protocol, Poll, Crash, Open, RegisterArchiveOwner, OpenReader,
     Replace, RegisterReplacementOwner, OthersDrained, ExportArchive, Callback,
     ReadEntry, WriteEntry, FinishCallback, FailCallback, Rollback, RollbackChange,
     FinishRollback, Settle, Reap, Flush, DeferSettlement, AcquireCommitLock,
     AcquireEntryLock, CollectOverlays, WriteImage, FailCommit, DeleteCommittedOverlay,
     FinishCommit, ReleaseEntryLock, ReleaseCommitLock, Close, CloseReader,
     FailCloseReader, MarkDrained, CleanupSupersededSnapshots, FailTidy, MarkCompleted,
     UnregisterArchiveOwner, files

\* The steps that leave a settler with a batch in hand.
LEMMA CommittingSteps ==
  ASSUME IInv, SInv, NEW s \in Sessions, Step(s), pc'[s] \in Committing
  PROVE  \/ CollectOverlays(s) \/ WriteImage(s) \/ CommitOverlays(s)
         \/ \E d \in Entries : DeleteCommittedOverlay(s, d)
<1> USE DEF IInv, ControlTypes, SInv, DataTypes, Committing, Goto, database, files
<1>1. ~Poll(s) /\ ~Crash(s) /\ ~Open(s) /\ ~Replace(s) /\ ~Callback(s)
  BY DEF Poll, Crash, Open, RegisterArchiveOwner, OpenReader, Replace,
     RegisterReplacementOwner, OthersDrained, ReplaceArchive, ExportArchive, Callback,
     ReadEntry, WriteEntry, FinishCallback, FailCallback
<1>2. ~Rollback(s) /\ ~Close(s)
  BY DEF RollbackReturns, Returns, Rollback, RollbackChange, FinishRollback, Close,
     CloseReader, FailCloseReader, MarkDrained, CleanupSupersededSnapshots, FailTidy,
     MarkCompleted, UnregisterArchiveOwner
<1>3. ASSUME Settle(s)
      PROVE  \/ CollectOverlays(s) \/ WriteImage(s) \/ CommitOverlays(s)
             \/ \E d \in Entries : DeleteCommittedOverlay(s, d)
  <2>1. ~Reap(s) /\ ~Flush(s) /\ ~DeferSettlement(s)
    BY ZenonT(40) DEF Returns, Reap, Flush, DeferSettlement, CallFlush
  <2>2. ~AcquireCommitLock(s) /\ ~FailCommit(s) /\ ~FinishCommit(s)
    BY DEF AcquireCommitLock, FailCommit, FinishCommit
  <2>3. \A d \in Entries : ~AcquireEntryLock(s, d) /\ ~ReleaseEntryLock(s, d)
    BY DEF AcquireEntryLock, ReleaseEntryLock
  <2>4. ~ReleaseCommitLock(s)
    <3>1. then[s] \notin Committing /\ Recovery(then[s]) \notin Committing
      BY DEF Returns, Recovery
    <3> QED
      BY <3>1 DEF ReleaseCommitLock
  <2> QED
    BY <1>3, <2>1, <2>2, <2>3, <2>4 DEF Settle
<1> QED
  BY <1>1, <1>2, <1>3 DEF Step, Protocol

LEMMA BatchLockedKept ==
  ASSUME IInv, SInv, TInv, BatchLocked, NEW s \in Sessions, Step(s)
  PROVE  BatchLocked'
<1> SUFFICES ASSUME NEW t \in Sessions, NEW e \in Entries,
                    pc'[t] \in Committing, batch'[t][e] # None
             PROVE  /\ entryLock'[e] = t
                    /\ overlay'[e] = batch'[t][e]
                    /\ pc'[t] = "unlink" => archive'[e] = batch'[t][e]
  BY DEF BatchLocked
<1>1. CASE t # s
  <2>1. /\ pc[t] \in Committing /\ pc[t] # "dead" /\ pc'[t] = pc[t]
        /\ batch'[t] = batch[t] /\ batch[t][e] # None
    BY <1>1, MemoryIsLocal DEF SInv, Committing
  <2> QED
    BY <1>1, <2>1, LockedIsUntouched, CleanerIsAlone DEF BatchLocked
<1>2. CASE t = s
  <2> USE <1>2 DEF IInv, ControlTypes, SInv, DataTypes, Committing, Goto, database, files
  <2>1. CASE CollectOverlays(s)
    BY <2>1 DEF CollectOverlays
  <2>2. CASE WriteImage(s) \/ CommitOverlays(s)
    BY <2>2 DEF WriteImage, CommitOverlays, BatchLocked, Images
  <2>3. ASSUME NEW d \in Entries, DeleteCommittedOverlay(s, d)
        PROVE  /\ entryLock'[e] = t
               /\ overlay'[e] = batch'[t][e]
               /\ pc'[t] = "unlink" => archive'[e] = batch'[t][e]
    <3>1. batch' = [batch EXCEPT ![s][d] = None]
      BY <2>3 DEF DeleteCommittedOverlay
    <3>2. e # d /\ batch'[s][e] = batch[s][e]
      BY <3>1
    <3> QED
      BY <2>3, <3>2 DEF DeleteCommittedOverlay, BatchLocked
  <2> QED
    BY <2>1, <2>2, <2>3, CommittingSteps
<1> QED
  BY <1>1, <1>2

LEMMA BatchInvariance == Spec => []BatchLocked
<1>1. Init => BatchLocked
  BY DEF Init, BatchLocked, Committing
<1>2. IInv /\ SInv /\ TInv /\ BatchLocked /\ [Next]_vars => BatchLocked'
  <2> SUFFICES ASSUME IInv, SInv, TInv, BatchLocked, [Next]_vars PROVE BatchLocked'
    OBVIOUS
  <2>1. ASSUME NEW s \in Sessions, Step(s) PROVE BatchLocked'
    BY <2>1, BatchLockedKept
  <2>2. CASE UNCHANGED vars
    BY <2>2 DEF BatchLocked, vars, files, memory, work
  <2> QED
    BY <2>1, <2>2 DEF Next, Step, Terminated
<1> QED
  BY <1>1, <1>2, Invariance, SettlementInvariance, TypeInvariance, PTL DEF Spec

-----------------------------------------------------------------------------
(* The last to close settles.  While every session is a writer that neither *)
(* died nor failed, an overlay that is not in the archive yet has somebody  *)
(* who will reap it: a session before its final reap, or one in the flush   *)
(* of its final reap that takes this overlay.                               *)

Unfailed ==
  \A s \in Sessions : Kind[s] = "writer" /\ pc[s] # "dead" /\ ~aborted[s]

\* s is in the flush of its final reap.
Finishing(s) == then[s] = "leave" /\ pc[s] \in Settling \cup {"fence"}

\* s has no reap ahead.
Over(s) == pc[s] \in {"idle", "leave", "done"} \/ Finishing(s)

\* Who has started its final reap is completed as far as others can see.
Phases ==
  \A s \in Sessions :
    /\ pc[s] \in {"rollback", "retained"} => aborted[s]
    /\ pc[s] \in {"idle", "done"} => s \notin owners
    /\ pc[s] \in Settling \cup {"fence"} => then[s] \notin {"done", "retained"}
    /\ (Kind[s] = "writer" /\ ~aborted[s] /\ (pc[s] \in {"finalReap", "leave"} \/ Finishing(s)))
         => settlement[s] = "completed"

\* The flush of s's final reap has taken e's overlay or is going to.
Takes(s, e) ==
  /\ then[s] = "leave"
  /\ \/ pc[s] \in {"fence", "lock"} /\ e \in requested[s] /\ Settleable(s, e)
     \/ pc[s] \in {"commit", "rename"} /\ batch[s][e] # None

Reaped ==
  Unfailed => \A e \in Entries :
    (overlay[e] # None /\ overlay[e] # archive[e]) =>
      \E s \in Sessions : ~Over(s) \/ Takes(s, e)

\* A session's rows change with its own steps, or go when it is dead.
LEMMA RowsAreLocal ==
  ASSUME IInv, NEW s \in Sessions, Step(s), NEW t \in Sessions, t # s, pc[t] # "dead"
  PROVE  settlement'[t] = settlement[t] /\ (t \in owners' <=> t \in owners)
<1> USE DEF IInv, ControlTypes, database, CleanupStaleState, CleanOwners, CleanPhases, Stale
<1>1. CASE UNCHANGED <<owners, settlement>>
  BY <1>1
<1>2. CASE CleanupStaleState
  BY <1>2
<1>3. CASE Open(s) \/ Replace(s)
  BY <1>1, <1>2, <1>3 DEF Open, RegisterArchiveOwner, OpenReader, Replace,
         RegisterReplacementOwner, OthersDrained, ReplaceArchive, ExportArchive
<1>4. CASE Poll(s) \/ Callback(s) \/ Rollback(s) \/ Crash(s)
  BY <1>1, <1>2, <1>4 DEF Poll, Callback, ReadEntry, WriteEntry, FinishCallback,
         FailCallback, Rollback, RollbackChange, FinishRollback, Crash
<1>5. CASE Settle(s)
  BY <1>1, <1>2, <1>5 DEF Settle, Reap, Flush, DeferSettlement, AcquireCommitLock,
         AcquireEntryLock, CollectOverlays, WriteImage, CommitOverlays, FailCommit,
         DeleteCommittedOverlay, FinishCommit, ReleaseEntryLock, ReleaseCommitLock
<1>6. CASE Close(s)
  BY <1>1, <1>6 DEF Close, CloseReader, FailCloseReader, MarkDrained,
     CleanupSupersededSnapshots, FailTidy, MarkCompleted, UnregisterArchiveOwner
<1> QED
  BY <1>3, <1>4, <1>5, <1>6 DEF Step, Protocol

\* What a reap calls, and where its flush goes on.
LEMMA ReapCalls ==
  ASSUME NEW s \in Sessions, Reap(s)
  PROVE  \E next \in Labels :
           /\ \/ pc[s] = "openReap" /\ next = "openReader"
              \/ pc[s] = "reap" /\ next = "tidy"
              \/ pc[s] = "finalReap" /\ next = "leave"
              \/ pc[s] = "replaceReap" /\ next = "replace"
           /\ CallFlush(s, OrphanPaths(CleanOwners, CleanPhases), next)
<1>1. CASE pc[s] = "openReap"
  BY <1>1 DEF Reap, Labels
<1>2. CASE pc[s] = "reap"
  BY <1>2 DEF Reap, Labels
<1>3. CASE pc[s] = "finalReap"
  BY <1>3 DEF Reap, Labels
<1>4. CASE pc[s] = "replaceReap"
  BY <1>4 DEF Reap, Labels
<1> QED
  BY <1>1, <1>2, <1>3, <1>4 DEF Reap

\* Where a reap goes on.
LEMMA ReapGoesOn ==
  ASSUME IInv, NEW s \in Sessions, Reap(s)
  PROVE  /\ pc[s] \in {"openReap", "reap", "finalReap", "replaceReap"}
         /\ pc'[s] \in {then'[s], "fence"}
         /\ pc[s] = "openReap" => then'[s] = "openReader"
         /\ pc[s] = "reap" => then'[s] = "tidy"
         /\ pc[s] = "finalReap" => then'[s] = "leave"
         /\ pc[s] = "replaceReap" => then'[s] = "replace"
<1>1. PICK next \in Labels :
        /\ \/ pc[s] = "openReap" /\ next = "openReader"
           \/ pc[s] = "reap" /\ next = "tidy"
           \/ pc[s] = "finalReap" /\ next = "leave"
           \/ pc[s] = "replaceReap" /\ next = "replace"
        /\ CallFlush(s, OrphanPaths(CleanOwners, CleanPhases), next)
  BY ReapCalls
<1>2. pc'[s] \in {next, "fence"} /\ then'[s] = next
  BY <1>1 DEF CallFlush, Reap, IInv, ControlTypes, Goto
<1> QED
  BY <1>1, <1>2

LEMMA PhasesKept ==
  ASSUME IInv, SInv, Phases, NEW s \in Sessions, Step(s)
  PROVE  Phases'
<1> DEFINE Good(t) ==
      /\ pc[t] \in {"rollback", "retained"} => aborted[t]
      /\ pc[t] \in {"idle", "done"} => t \notin owners
      /\ pc[t] \in Settling \cup {"fence"} => then[t] \notin {"done", "retained"}
      /\ (Kind[t] = "writer" /\ ~aborted[t]
           /\ (pc[t] \in {"finalReap", "leave"} \/ Finishing(t)))
           => settlement[t] = "completed"
<1>1. ASSUME NEW t \in Sessions, t # s PROVE Good(t)'
  <2>1. pc'[t] = pc[t] /\ then'[t] = then[t] /\ aborted'[t] = aborted[t]
    BY <1>1, MemoryIsLocal DEF SInv
  <2>2. pc[t] # "dead" => settlement'[t] = settlement[t] /\ (t \in owners' <=> t \in owners)
    BY <1>1, RowsAreLocal
  <2> QED
    BY <2>1, <2>2 DEF Phases, Finishing, Settling
<1>2. Good(s)'
  <2>1. Good(s)
    BY DEF Phases
  <2> USE <2>1 DEF IInv, ControlTypes, SInv, DataTypes, Finishing, Settling, Returns, Goto,
              database, memory, work, CleanOwners, CleanPhases, CleanupStaleState, Stale
  <2>2. CASE Poll(s) \/ Crash(s)
    BY <2>2 DEF Poll, Crash
  <2>3. CASE Open(s)
    BY <2>3 DEF Open, RegisterArchiveOwner, OpenReader
  <2>4. CASE Replace(s)
    BY <2>4 DEF Replace, RegisterReplacementOwner, OthersDrained, ReplaceArchive,
       ExportArchive, ExclusiveFlushes, Exclusive
  <2>5. CASE Callback(s)
    BY <2>5, ZenonT(40) DEF Callback, ReadEntry, WriteEntry, FinishCallback, FailCallback
  <2>6. CASE Rollback(s)
    BY <2>6 DEF Rollback, RollbackChange, FinishRollback, RollbackReturns
  <2>7. CASE Settle(s)
    <3>1. CASE Reap(s)
      BY <3>1, ReapGoesOn DEF Reap
    <3>2. CASE Flush(s) \/ DeferSettlement(s) \/ AcquireCommitLock(s)
      <4>1. CASE Flush(s)
        BY <4>1 DEF Flush, CallFlush
      <4>2. CASE DeferSettlement(s)
        <5>1. /\ pc[s] = "fence" /\ pc'[s] = then[s] /\ then' = then /\ aborted' = aborted
              /\ settlement'[s] = settlement[s]
          BY <4>2 DEF DeferSettlement
        <5>2. then[s] \notin {"idle", "done", "retained", "rollback", "finalReap", "fence"}
                            \cup Settling
          BY <5>1
        <5> QED
          BY <5>1, <5>2
      <4>3. CASE AcquireCommitLock(s)
        BY <4>3 DEF AcquireCommitLock
      <4> QED
        BY <3>2, <4>1, <4>2, <4>3
    <3>3. ASSUME NEW e \in Entries,
                 AcquireEntryLock(s, e) \/ DeleteCommittedOverlay(s, e) \/ ReleaseEntryLock(s, e)
          PROVE  Good(s)'
      BY <3>3 DEF AcquireEntryLock, DeleteCommittedOverlay, ReleaseEntryLock
    <3>4. CASE CollectOverlays(s) \/ WriteImage(s) \/ CommitOverlays(s)
      BY <3>4 DEF CollectOverlays, WriteImage, CommitOverlays
    <3>5. CASE FailCommit(s) \/ FinishCommit(s)
      BY <3>5 DEF FailCommit, FinishCommit
    <3>6. CASE ReleaseCommitLock(s)
      <4>1. CASE aborted[s]
        BY <3>6, <4>1 DEF ReleaseCommitLock, Recovery
      <4>2. CASE ~aborted[s]
        <5>1. /\ pc'[s] = then[s] /\ then' = then /\ aborted' = aborted
              /\ settlement' = settlement /\ owners' = owners /\ pc[s] = "release"
          BY <3>6, <4>2 DEF ReleaseCommitLock
        <5>2. then[s] \notin {"idle", "done", "retained", "rollback", "finalReap", "fence"}
                            \cup Settling
          BY <5>1
        <5> QED
          BY <4>2, <5>1, <5>2
      <4> QED
        BY <4>1, <4>2
    <3> QED
      BY <2>7, <3>1, <3>2, <3>3, <3>4, <3>5, <3>6 DEF Settle
  <2>8. CASE Close(s)
    <3>1. CASE MarkDrained(s)
      BY <3>1 DEF MarkDrained
    <3>2. CASE UnregisterArchiveOwner(s)
      BY <3>2 DEF UnregisterArchiveOwner
    <3>3. CASE MarkCompleted(s)
      BY <3>3 DEF MarkCompleted
    <3> QED
      BY <2>8, <3>1, <3>2, <3>3 DEF Close, CloseReader, FailCloseReader,
         CleanupSupersededSnapshots, FailTidy
  <2> QED
    BY <2>2, <2>3, <2>4, <2>5, <2>6, <2>7, <2>8 DEF Step, Protocol
<1> QED
  BY <1>1, <1>2 DEF Phases

\* Death and failure are for good, and the dead take no step.
LEMMA FailureIsFinal ==
  ASSUME IInv, SInv, NEW s \in Sessions, Step(s), Unfailed'
  PROVE  Unfailed /\ Stale = {} /\ CleanOwners = owners /\ CleanPhases = settlement
<1>1. \A t \in Sessions \ {s} : pc'[t] = pc[t] /\ aborted'[t] = aborted[t]
  BY MemoryIsLocal DEF SInv
<1>2. pc[s] # "dead"
  BY DEF Step, Protocol, Poll, Crash, Open, RegisterArchiveOwner, OpenReader,
     Replace, RegisterReplacementOwner, OthersDrained, ReplaceArchive, ExportArchive,
     Callback, ReadEntry, WriteEntry, FinishCallback, FailCallback, Rollback,
     RollbackChange, FinishRollback, Settle, Reap, Flush, DeferSettlement,
     AcquireCommitLock, AcquireEntryLock, CollectOverlays, WriteImage, CommitOverlays,
     FailCommit, DeleteCommittedOverlay, FinishCommit, ReleaseEntryLock,
     ReleaseCommitLock, Close, CloseReader, FailCloseReader, MarkDrained,
     CleanupSupersededSnapshots, FailTidy, MarkCompleted, UnregisterArchiveOwner
<1>3. aborted'[s] = aborted[s] \/ aborted'[s] = TRUE
  <2> USE DEF SInv, DataTypes, memory
  <2>1. CASE Poll(s) \/ Crash(s) \/ Open(s) \/ Replace(s)
    BY <2>1 DEF Poll, Crash, Open, RegisterArchiveOwner, OpenReader, Replace,
       RegisterReplacementOwner, OthersDrained, ReplaceArchive, ExportArchive
  <2>2. CASE Callback(s) \/ Rollback(s)
    BY <2>2 DEF Callback, ReadEntry, WriteEntry, FinishCallback, FailCallback, Rollback,
       RollbackChange, FinishRollback
  <2>3. CASE Settle(s)
    BY <2>3 DEF Settle, Reap, Flush, DeferSettlement, AcquireCommitLock,
       AcquireEntryLock, CollectOverlays, WriteImage, CommitOverlays, FailCommit,
       DeleteCommittedOverlay, FinishCommit, ReleaseEntryLock, ReleaseCommitLock
  <2>4. CASE Close(s)
    BY <2>4 DEF Close, CloseReader, FailCloseReader, MarkDrained,
       CleanupSupersededSnapshots, FailTidy, MarkCompleted, UnregisterArchiveOwner
  <2> QED
    BY <2>1, <2>2, <2>3, <2>4 DEF Step, Protocol
<1>4. Unfailed
  BY <1>1, <1>2, <1>3 DEF Unfailed
<1>5. Stale = {}
  BY <1>4 DEF Unfailed, Stale, IInv, ControlTypes
<1> QED
  BY <1>4, <1>5 DEF CleanOwners, CleanPhases, IInv, ControlTypes

\* A registered session that has not completed has a reap ahead.
LEMMA LateOwner ==
  ASSUME Unfailed, Phases, NEW s \in Sessions, s \in owners, settlement[s] # "completed"
  PROVE  ~Over(s)
BY DEF Unfailed, Phases, Over

\* What a step leaves alone when its session has no reap ahead afterwards.
LEMMA OverChangesLittle ==
  ASSUME IInv, SInv, BatchLocked, Phases, NEW s \in Sessions, Step(s), Unfailed',
         Over(s)', NEW e \in Entries, overlay'[e] # None, overlay'[e] # archive'[e]
  PROVE  /\ overlay'[e] = overlay[e] /\ archive'[e] = archive[e]
         /\ owners' \subseteq owners
         /\ \A o \in Sessions : settlement'[o] = settlement[o] \/ o \notin owners'
<1> DEFINE Little == /\ overlay'[e] = overlay[e] /\ archive'[e] = archive[e]
                     /\ owners' \subseteq owners
                     /\ \A o \in Sessions : settlement'[o] = settlement[o] \/ o \notin owners'
<1>1. /\ Unfailed /\ CleanOwners = owners /\ CleanPhases = settlement
      /\ ~aborted[s] /\ Kind[s] = "writer"
  BY FailureIsFinal DEF Unfailed
<1> USE <1>1 DEF IInv, ControlTypes, SInv, DataTypes, Over, Finishing, Settling, Goto,
        database, files, memory, work, CleanupStaleState
<1>2. ~Poll(s) /\ ~Crash(s)
  BY FailureIsFinal DEF Poll, Crash, Unfailed
<1>3. ~Open(s) /\ ~Callback(s)
  BY ZenonT(40) DEF Open, RegisterArchiveOwner, OpenReader, Callback, ReadEntry, WriteEntry,
     FinishCallback, FailCallback
<1>4. ~Replace(s) /\ ~Rollback(s)
  BY DEF Replace, RegisterReplacementOwner, OthersDrained, ReplaceArchive, ExportArchive,
     ExclusiveFlushes, Exclusive, Rollback, RollbackChange, FinishRollback, Phases
<1>5. CASE Settle(s)
  <2>1. CASE CommitOverlays(s)
    <3>1. /\ image[s][e] = IF batch[s][e] # None THEN batch[s][e] ELSE archive[e]
          /\ batch[s][e] # None => batch[s][e] = overlay[e]
      BY <2>1 DEF CommitOverlays, Images, BatchLocked, Committing
    <3> QED
      BY <2>1, <3>1 DEF CommitOverlays
  <2>2. ASSUME NEW d \in Entries, DeleteCommittedOverlay(s, d) PROVE Little
    BY <2>2 DEF DeleteCommittedOverlay
  <2>3. CASE Reap(s) \/ Flush(s) \/ DeferSettlement(s)
    BY <2>3 DEF Reap, Flush, DeferSettlement
  <2>4. CASE AcquireCommitLock(s) \/ \E d \in Entries : AcquireEntryLock(s, d)
    BY <2>4 DEF AcquireCommitLock, AcquireEntryLock
  <2>5. CASE CollectOverlays(s) \/ WriteImage(s) \/ FailCommit(s) \/ FinishCommit(s)
    BY <2>5 DEF CollectOverlays, WriteImage, FailCommit, FinishCommit
  <2>6. CASE ReleaseCommitLock(s) \/ \E d \in Entries : ReleaseEntryLock(s, d)
    BY <2>6 DEF ReleaseCommitLock, ReleaseEntryLock
  <2> QED
    BY <1>5, <2>1, <2>2, <2>3, <2>4, <2>5, <2>6 DEF Settle
<1>6. CASE Close(s)
  BY <1>6 DEF Close, CloseReader, FailCloseReader, MarkDrained,
     CleanupSupersededSnapshots, FailTidy, MarkCompleted, UnregisterArchiveOwner
<1> QED
  BY <1>2, <1>3, <1>4, <1>5, <1>6 DEF Step, Protocol

\* The final reap takes what has no later owner, and leaves the rest to one.
LEMMA LastReapTakesOrLeaves ==
  ASSUME IInv, SInv, BatchLocked, Phases, NEW s \in Sessions, Step(s), Unfailed',
         Over(s)', NEW e \in Entries, overlay'[e] # None, overlay'[e] # archive'[e],
         ~Over(s) \/ Takes(s, e)
  PROVE  \E t \in Sessions : ~Over(t)' \/ Takes(t, e)'
<1> DEFINE Taken == \E t \in Sessions : ~Over(t)' \/ Takes(t, e)'
<1>1. /\ Unfailed /\ CleanOwners = owners /\ CleanPhases = settlement /\ Stale = {}
      /\ ~aborted[s] /\ ~aborted'[s] /\ Kind[s] = "writer"
  BY FailureIsFinal DEF Unfailed
<1>2. /\ overlay'[e] = overlay[e] /\ archive'[e] = archive[e]
      /\ owners' \subseteq owners /\ overlay[e] # None /\ overlay[e].owner \in Sessions
  BY OverChangesLittle DEF SInv, DataTypes, OptVersion, Version
<1>3. ASSUME NEW t \in Sessions \ {s}, ~Over(t) PROVE Taken
  <2>1. ~Over(t)'
    BY <1>3, MemoryIsLocal DEF SInv, Over, Finishing
  <2> QED
    BY <2>1
<1>4. ASSUME NEW o \in owners \ {s}, settlement[o] # "completed" PROVE Taken
  BY <1>1, <1>3, <1>4, LateOwner DEF IInv, ControlTypes
<1> USE <1>1 DEF IInv, ControlTypes, SInv, DataTypes, Over, Finishing, Settling, Goto,
        database, files, memory, work, CleanupStaleState
<1>5. CASE Reap(s)
  <2>1. PICK next \in Labels :
          /\ \/ pc[s] = "openReap" /\ next = "openReader"
             \/ pc[s] = "reap" /\ next = "tidy"
             \/ pc[s] = "finalReap" /\ next = "leave"
             \/ pc[s] = "replaceReap" /\ next = "replace"
          /\ CallFlush(s, OrphanPaths(CleanOwners, CleanPhases), next)
    BY <1>5, ReapCalls
  <2>2. pc'[s] \in {next, "fence"} /\ then'[s] = next
    BY <1>5, <2>1 DEF CallFlush, Reap
  <2>3. pc[s] = "finalReap" /\ next = "leave" /\ settlement[s] = "completed"
    BY <2>1, <2>2 DEF Phases
  <2>4. CASE overlay[e].owner \in owners /\ settlement[overlay[e].owner] # "completed"
    BY <1>4, <2>3, <2>4
  <2>5. CASE overlay[e].owner \notin owners \/ settlement[overlay[e].owner] = "completed"
    <3>1. e \in OrphanPaths(owners, settlement)
      BY <1>2, <2>5 DEF OrphanPaths
    <3>2. pc'[s] = "fence" /\ e \in requested'[s]
      BY <1>2, <2>1, <3>1 DEF CallFlush
    <3>3. Settleable(s, e)'
      BY <1>2, <1>5, <2>5 DEF Settleable, Reap
    <3> QED
      BY <2>2, <2>3, <3>2, <3>3 DEF Takes
  <2> QED
    BY <2>4, <2>5
<1>6. ASSUME ~Reap(s) PROVE Takes(s, e)
  <2>1. ~Poll(s) /\ ~Crash(s)
    BY FailureIsFinal DEF Poll, Crash, Unfailed
  <2>2. ~Open(s) /\ ~Callback(s)
    BY ZenonT(40) DEF Open, RegisterArchiveOwner, OpenReader, Callback, ReadEntry, WriteEntry,
       FinishCallback, FailCallback
  <2>3. ~Replace(s) /\ ~Rollback(s)
    BY DEF Replace, RegisterReplacementOwner, OthersDrained, ReplaceArchive, ExportArchive,
       ExclusiveFlushes, Exclusive, Rollback, RollbackChange, FinishRollback, Phases
  <2>4. ASSUME Close(s), ~Over(s) PROVE FALSE
    BY <2>4 DEF Close, CloseReader, FailCloseReader, MarkDrained,
       CleanupSupersededSnapshots, FailTidy, MarkCompleted, UnregisterArchiveOwner
  <2>5. ASSUME Settle(s), ~Over(s) PROVE FALSE
    <3>1. CASE Flush(s)
      BY <2>5, <3>1 DEF Flush, CallFlush
    <3>2. CASE DeferSettlement(s) \/ ReleaseCommitLock(s)
      <4>1. /\ pc[s] \in {"fence", "release"} /\ pc'[s] = then[s] /\ then'[s] = then[s]
        BY <3>2 DEF DeferSettlement, ReleaseCommitLock
      <4> QED
        BY <2>5, <4>1 DEF Phases, Returns
    <3>3. CASE AcquireCommitLock(s) \/ FailCommit(s) \/ FinishCommit(s)
      BY <2>5, <3>3 DEF AcquireCommitLock, FailCommit, FinishCommit
    <3>4. CASE CollectOverlays(s) \/ WriteImage(s) \/ CommitOverlays(s)
      BY <2>5, <3>4 DEF CollectOverlays, WriteImage, CommitOverlays
    <3>5. ASSUME NEW d \in Entries,
                 AcquireEntryLock(s, d) \/ DeleteCommittedOverlay(s, d) \/ ReleaseEntryLock(s, d)
          PROVE  FALSE
      BY <2>5, <3>5 DEF AcquireEntryLock, DeleteCommittedOverlay, ReleaseEntryLock
    <3> QED
      BY <1>6, <2>5, <3>1, <3>2, <3>3, <3>4, <3>5 DEF Settle
  <2> QED
    BY <2>1, <2>2, <2>3, <2>4, <2>5 DEF Step, Protocol
<1>7. CASE Takes(s, e) /\ ~Reap(s)
  <2> USE <1>7 DEF Takes
  <2>1. ~Poll(s) /\ ~Crash(s)
    BY FailureIsFinal DEF Poll, Crash, Unfailed
  <2>2. ~Open(s) /\ ~Callback(s) /\ ~Replace(s) /\ ~Rollback(s)
    BY DEF Open, RegisterArchiveOwner, OpenReader, Callback, ReadEntry, WriteEntry,
       FinishCallback, FailCallback, Replace, RegisterReplacementOwner, OthersDrained,
       ReplaceArchive, ExportArchive, Rollback, RollbackChange, FinishRollback
  <2>3. ~Close(s)
    BY DEF Close, CloseReader, FailCloseReader, MarkDrained,
       CleanupSupersededSnapshots, FailTidy, MarkCompleted, UnregisterArchiveOwner
  <2>4. CASE DeferSettlement(s)
    BY <1>4, <2>4 DEF DeferSettlement, ForeignReader
  <2>5. CASE AcquireCommitLock(s) \/ \E d \in Entries : AcquireEntryLock(s, d)
    <3>1. /\ pc[s] \in {"fence", "lock"} /\ pc'[s] = "lock" /\ then'[s] = "leave"
          /\ requested' = requested /\ owners' = owners /\ settlement' = settlement
      BY <2>5 DEF AcquireCommitLock, AcquireEntryLock
    <3>2. Takes(s, e)'
      BY <1>2, <3>1 DEF Settleable
    <3> QED
      BY <3>2
  <2>6. CASE CollectOverlays(s)
    <3>1. batch'[s][e] # None /\ pc'[s] = "commit" /\ then' = then
      BY <1>2, <2>6 DEF CollectOverlays
    <3> QED
      BY <3>1
  <2>7. CASE WriteImage(s)
    BY <2>7 DEF WriteImage
  <2>8. ~CommitOverlays(s)
    BY <1>2 DEF CommitOverlays, Images, BatchLocked, Committing
  <2>9. ~FailCommit(s) /\ ~FinishCommit(s) /\ ~ReleaseCommitLock(s) /\ ~Flush(s)
    BY DEF FailCommit, FinishCommit, ReleaseCommitLock, Flush
  <2>10. \A d \in Entries : ~DeleteCommittedOverlay(s, d) /\ ~ReleaseEntryLock(s, d)
    BY DEF DeleteCommittedOverlay, ReleaseEntryLock
  <2> QED
    BY <2>1, <2>2, <2>3, <2>4, <2>5, <2>6, <2>7, <2>8, <2>9, <2>10
       DEF Step, Protocol, Settle
<1> QED
  BY <1>5, <1>6, <1>7

LEMMA ReapedKept ==
  ASSUME IInv, SInv, BatchLocked, Phases, Reaped, NEW s \in Sessions, Step(s)
  PROVE  Reaped'
<1> SUFFICES ASSUME Unfailed', NEW e \in Entries,
                    overlay'[e] # None, overlay'[e] # archive'[e]
             PROVE  \E t \in Sessions : ~Over(t)' \/ Takes(t, e)'
  BY DEF Reaped
<1>1. CASE Over(s)'
  <2>1. /\ overlay'[e] = overlay[e] /\ archive'[e] = archive[e]
        /\ owners' \subseteq owners
        /\ \A o \in Sessions : settlement'[o] = settlement[o] \/ o \notin owners'
    BY <1>1, OverChangesLittle
  <2>2. PICK t \in Sessions : ~Over(t) \/ Takes(t, e)
    BY <2>1, FailureIsFinal DEF Reaped
  <2>3. CASE t = s
    BY <1>1, <2>2, <2>3, LastReapTakesOrLeaves
  <2>4. CASE t # s
    <3>1. /\ pc'[t] = pc[t] /\ then'[t] = then[t]
          /\ requested'[t] = requested[t] /\ batch'[t] = batch[t]
      BY <2>4, MemoryIsLocal DEF SInv
    <3>2. overlay[e].owner \in Sessions
      BY <2>1 DEF SInv, DataTypes, OptVersion, Version
    <3>3. Settleable(t, e) => Settleable(t, e)'
      BY <2>1, <3>2 DEF Settleable
    <3>4. ~Over(t)' \/ Takes(t, e)'
      BY <2>2, <3>1, <3>3 DEF Over, Finishing, Takes
    <3> QED
      BY <3>4
  <2> QED
    BY <2>3, <2>4
<1> QED
  BY <1>1

LEMMA ReapInvariance == Spec => [](Phases /\ Reaped)
<1>1. Init => Phases /\ Reaped
  BY DEF Init, Phases, Finishing, Settling, Reaped
<1>2. IInv /\ SInv /\ BatchLocked /\ (Phases /\ Reaped) /\ [Next]_vars => (Phases /\ Reaped)'
  <2> SUFFICES ASSUME IInv, SInv, BatchLocked, Phases, Reaped, [Next]_vars
               PROVE  Phases' /\ Reaped'
    OBVIOUS
  <2>1. ASSUME NEW s \in Sessions, Step(s) PROVE Phases' /\ Reaped'
    BY <2>1, PhasesKept, ReapedKept
  <2>2. CASE UNCHANGED vars
    BY <2>2 DEF Phases, Reaped, Unfailed, Over, Finishing, Takes, Settleable, vars,
           database, files, memory, work
  <2> QED
    BY <2>1, <2>2 DEF Next, Step, Terminated
<1> QED
  BY <1>1, <1>2, Invariance, SettlementInvariance, BatchInvariance, PTL DEF Spec

\* Simultaneous closers do not both leave a deferred overlay to the other: when the
\* last of any number of writers has closed, the archive has every publication.
THEOREM NothingLeftBehindTheorem == Spec => []NothingLeftBehind
<1>1. Reaped => NothingLeftBehind
  <2> SUFFICES ASSUME Reaped, NEW e \in Entries,
                      \A s \in Sessions : pc[s] = "done" /\ ~aborted[s] /\ Kind[s] = "writer"
               PROVE  View(e) = archive[e]
    BY DEF NothingLeftBehind
  <2>1. Unfailed
    BY DEF Unfailed
  <2>2. \A s \in Sessions : Over(s) /\ ~Takes(s, e)
    BY DEF Over, Takes
  <2> QED
    BY <2>1, <2>2 DEF Reaped, View
<1> QED
  BY <1>1, ReapInvariance, PTL

-----------------------------------------------------------------------------
(* The last publication wins, in an archive where sessions may die at any   *)
(* moment and a writer's or reader's cleanup may fail, but no operation     *)
(* fails: then nothing is rolled back, and a replacement finds no overlay   *)
(* left that would hide what it wrote.                                      *)

ReplacersClean == \A s \in UnlinkFailers : Kind[s] # "replacer"

FailureFree ==
  Aborters = {} /\ CommitFailers = {} /\ CloseFailers = {} /\ ReplacersClean

NothingRolledBack ==
  /\ \A s \in Sessions : ~aborted[s] /\ pc[s] # "rollback"
  /\ withdrawn = {}

\* The flush of an exclusive session leaves no overlay.
ExclusiveEmpties ==
  \A s \in Sessions : Exclusive(s) =>
    /\ pc[s] = "unlink" =>
         \A e \in Entries : overlay[e] # None => batch[s][e] # None
    /\ pc[s] = "replace" \/ (pc[s] = "release" /\ ~aborted[s]) =>
         \A e \in Entries : overlay[e] = None

\* No version is published twice.
PublishedOnce ==
  \A e \in Entries :
    /\ \A i \in 1 .. Len(history[e]) :
         LET v == history[e][i]
         IN  v.n <= writes[v.owner][e] \/ Kind[v.owner] = "replacer"
    /\ \A i, j \in 1 .. Len(history[e]) : history[e][i] = history[e][j] => i = j

\* The last publication is what a session sees.
Newest(e) == IF history[e] = <<>> THEN Base ELSE history[e][Len(history[e])]

NewestSeen == \A e \in Entries : View(e) = Newest(e)

HInv == NothingRolledBack /\ ExclusiveEmpties /\ PublishedOnce /\ NewestSeen

LEMMA HInvInit == Init => HInv
<1> SUFFICES ASSUME Init PROVE HInv
  OBVIOUS
<1>1. NothingRolledBack /\ ExclusiveEmpties
  BY DEF Init, NothingRolledBack, ExclusiveEmpties, Exclusive, Settling
<1>2. PublishedOnce /\ NewestSeen
  BY DEF Init, PublishedOnce, NewestSeen, View, Newest
<1> QED
  BY <1>1, <1>2 DEF HInv

LEMMA NothingRolledBackKept ==
  ASSUME FailureFree, SInv, BatchLocked, OverlayHasSnapshot, NothingRolledBack, IInv,
         NEW s \in Sessions, Step(s)
  PROVE  NothingRolledBack'
<1>1. \A t \in Sessions \ {s} : pc'[t] = pc[t] /\ aborted'[t] = aborted[t]
  BY MemoryIsLocal DEF SInv
<1>2. ~aborted'[s] /\ pc'[s] # "rollback" /\ withdrawn' = withdrawn
  <2> USE DEF FailureFree, NothingRolledBack, IInv, ControlTypes, SInv, DataTypes, Goto,
              Labels, Returns, memory, work, ghosts
  <2>1. CASE Poll(s) \/ Crash(s) \/ Open(s) \/ Replace(s)
    <3>1. CASE ReplaceArchive(s)
      BY <3>1 DEF ReplaceArchive
    <3> QED
      BY <2>1, <3>1 DEF Poll, Crash, Open, RegisterArchiveOwner, OpenReader, Replace,
         RegisterReplacementOwner, OthersDrained, ExportArchive
  <2>2. CASE Callback(s) \/ Rollback(s)
    BY <2>2 DEF Callback, ReadEntry, WriteEntry, FinishCallback, FailCallback, Rollback,
       RollbackChange, FinishRollback
  <2>3. CASE Settle(s)
    <3>1. CASE Reap(s)
      BY <3>1, ReapGoesOn DEF Reap
    <3>2. CASE Flush(s)
      BY <3>2 DEF Flush, CallFlush
    <3>3. ~FailCommit(s)
      <4>1. \A e \in Entries : (pc[s] = "commit" /\ batch[s][e] # None) =>
                                 <<e, batch[s][e]>> \in snapshots
        BY DEF BatchLocked, Committing, OverlayHasSnapshot
      <4> QED
        BY <4>1 DEF FailCommit
    <3>4. CASE DeferSettlement(s) \/ ReleaseCommitLock(s)
      <4>1. then[s] # "rollback"
        OBVIOUS
      <4> QED
        BY <3>4, <4>1 DEF DeferSettlement, ReleaseCommitLock
    <3>5. CASE AcquireCommitLock(s) \/ FinishCommit(s) \/ CollectOverlays(s) \/ WriteImage(s)
               \/ CommitOverlays(s)
      BY <3>5 DEF AcquireCommitLock, FinishCommit, CollectOverlays, WriteImage,
                  CommitOverlays
    <3>6. ASSUME NEW e \in Entries,
                 AcquireEntryLock(s, e) \/ DeleteCommittedOverlay(s, e) \/ ReleaseEntryLock(s, e)
          PROVE  ~aborted'[s] /\ pc'[s] # "rollback" /\ withdrawn' = withdrawn
      BY <3>6 DEF AcquireEntryLock, DeleteCommittedOverlay, ReleaseEntryLock
    <3> QED
      BY <2>3, <3>1, <3>2, <3>3, <3>4, <3>5, <3>6 DEF Settle
  <2>4. CASE Close(s)
    BY <2>4 DEF Close, CloseReader, FailCloseReader, MarkDrained,
       CleanupSupersededSnapshots, FailTidy, MarkCompleted, UnregisterArchiveOwner
  <2> QED
    BY <2>1, <2>2, <2>3, <2>4 DEF Step, Protocol
<1> QED
  BY <1>1, <1>2 DEF NothingRolledBack

LEMMA ExclusiveEmptiesKept ==
  ASSUME ReplacersClean, IInv, SInv, BatchLocked, ExclusiveEmpties,
         NEW s \in Sessions, Step(s)
  PROVE  ExclusiveEmpties'
<1> SUFFICES ASSUME NEW t \in Sessions, Exclusive(t)', NEW e \in Entries, overlay'[e] # None
             PROVE  /\ pc'[t] = "unlink" => batch'[t][e] # None
                    /\ pc'[t] # "replace" /\ (pc'[t] = "release" => aborted'[t])
  BY DEF ExclusiveEmpties
<1>1. CASE t # s
  <2>1. /\ pc'[t] = pc[t] /\ batch'[t] = batch[t] /\ aborted'[t] = aborted[t]
        /\ Exclusive(t)
    BY <1>1, MemoryIsLocal DEF SInv, Exclusive
  <2> QED
    BY <1>1, <2>1, ExclusiveIsAlone DEF ExclusiveEmpties
<1>2. CASE t = s
  <2> USE <1>2 DEF IInv, ControlTypes, SInv, DataTypes, Exclusive, Settling, Goto, database,
          files, memory, work
  <2> SUFFICES ASSUME pc'[s] \in {"unlink", "release", "replace"}
               PROVE  \/ pc'[s] = "unlink" /\ batch'[s][e] # None
                      \/ pc'[s] = "release" /\ aborted'[s]
    OBVIOUS
  <2>2. Exclusive(s) => /\ Kind[s] = "replacer" /\ owners = {s} /\ CleanOwners = {s}
                        /\ FlushesAll(s)
                        /\ overlay[e] # None => overlay[e].owner # s
    BY DEF ExclusiveFlushes, OverlaysOfWriters, CleanOwners, Stale
  <2>3. ~Poll(s) /\ ~Crash(s) /\ ~Open(s) /\ ~Replace(s)
    BY DEF Poll, Crash, Open, RegisterArchiveOwner, OpenReader, Replace,
       RegisterReplacementOwner, OthersDrained, ReplaceArchive, ExportArchive
  <2>4. ~Callback(s) /\ ~Rollback(s)
    BY DEF Callback, ReadEntry, WriteEntry, FinishCallback, FailCallback, Rollback,
       RollbackChange, FinishRollback, RollbackReturns
  <2>5. ~Close(s)
    BY DEF Close, CloseReader, FailCloseReader, MarkDrained,
       CleanupSupersededSnapshots, FailTidy, MarkCompleted, UnregisterArchiveOwner
  <2>6. CASE Settle(s)
    <3>1. ~Reap(s)
      <4>1. ASSUME Reap(s) PROVE FALSE
        <5>1. PICK next \in Labels :
                /\ \/ pc[s] = "openReap" /\ next = "openReader"
                   \/ pc[s] = "reap" /\ next = "tidy"
                   \/ pc[s] = "finalReap" /\ next = "leave"
                   \/ pc[s] = "replaceReap" /\ next = "replace"
                /\ CallFlush(s, OrphanPaths(CleanOwners, CleanPhases), next)
          BY <4>1, ReapCalls
        <5>2. pc'[s] \in {next, "fence"} /\ overlay' = overlay
          BY <4>1, <5>1 DEF CallFlush, Reap
        <5>3. pc[s] = "replaceReap"
          BY <5>1, <5>2
        <5>4. e \in OrphanPaths(CleanOwners, CleanPhases)
          BY <2>2, <5>2, <5>3 DEF OrphanPaths
        <5> QED
          BY <4>1, <5>1, <5>2, <5>3, <5>4 DEF CallFlush
      <4> QED
        BY <4>1
    <3>2. ~Flush(s)
      BY DEF Flush, CallFlush
    <3>3. ~DeferSettlement(s)
      BY <2>2 DEF DeferSettlement, ForeignReader
    <3>4. ~AcquireCommitLock(s) /\ ~WriteImage(s)
      BY DEF AcquireCommitLock, WriteImage
    <3>5. CASE CollectOverlays(s)
      <4>1. /\ pc[s] = "lock" /\ Exclusive(s) /\ overlay' = overlay
        BY <3>5 DEF CollectOverlays
      <4>2. e \in requested[s] /\ Settleable(s, e)
        BY <2>2, <4>1 DEF FlushesAll, Settleable
      <4> QED
        BY <3>5, <4>2 DEF CollectOverlays
    <3>6. CASE CommitOverlays(s)
      BY <2>2, <3>6 DEF CommitOverlays, FlushesAll
    <3>7. CASE FailCommit(s)
      BY <3>7 DEF FailCommit
    <3>8. ASSUME NEW d \in Entries, DeleteCommittedOverlay(s, d)
          PROVE  pc'[s] = "unlink" /\ batch'[s][e] # None
      BY <2>2, <3>8 DEF DeleteCommittedOverlay, BatchLocked, Committing, ReplacersClean,
                        ExclusiveEmpties
    <3>9. ~FinishCommit(s)
      BY DEF FinishCommit, ExclusiveEmpties
    <3>10. \A d \in Entries : ~AcquireEntryLock(s, d)
      BY DEF AcquireEntryLock
    <3>11. ASSUME NEW d \in Entries, ReleaseEntryLock(s, d)
           PROVE  pc'[s] = "release" /\ aborted'[s]
      BY <3>11 DEF ReleaseEntryLock, ExclusiveEmpties
    <3>12. ~ReleaseCommitLock(s)
      BY DEF ReleaseCommitLock, Recovery, ExclusiveEmpties, Returns
    <3> QED
      BY <2>6, <3>1, <3>2, <3>3, <3>4, <3>5, <3>6, <3>7, <3>8, <3>9, <3>10, <3>11, <3>12
         DEF Settle
  <2> QED
    BY <2>3, <2>4, <2>5, <2>6 DEF Step, Protocol
<1> QED
  BY <1>1, <1>2

\* A replacer replaces, and only writers write.
LEMMA ReplacerReplaces ==
  ASSUME SInv, NEW s \in Sessions, ReplaceArchive(s)
  PROVE  Kind[s] = "replacer"
BY DEF SInv, ExclusiveFlushes, Exclusive, ReplaceArchive

LEMMA PublishedOnceKept ==
  ASSUME SInv, TInv, PublishedOnce, NEW s \in Sessions, Step(s)
  PROVE  PublishedOnce'
<1> USE DEF TInv, RecordTypes, memory, ghosts
<1>1. CASE UNCHANGED <<history, writes>>
  BY <1>1 DEF PublishedOnce
<1>2. ASSUME NEW e \in Entries, WriteEntry(s, e) PROVE PublishedOnce'
  <2> DEFINE version == [owner |-> s, n |-> writes[s][e] + 1]
  <2>1. /\ history' = [history EXCEPT ![e] = Append(@, version)]
        /\ writes' = [writes EXCEPT ![s][e] = @ + 1]
        /\ version \in Version /\ Kind[version.owner] = "writer"
        /\ version.n = writes'[version.owner][e] /\ version.n = writes[version.owner][e] + 1
        /\ writes[version.owner][e] \in Nat
    BY <1>2, ConstantsAssumption DEF WriteEntry, Version
  <2>2. \A t \in Sessions, d \in Entries :
          writes'[t][d] \in Nat /\ writes[t][d] \in Nat /\ writes[t][d] <= writes'[t][d]
    BY <2>1, ConstantsAssumption
  <2> HIDE DEF version
  <2>3. history[e] \in Seq(Version) /\ Append(history[e], version) \in Seq(Version)
    BY <2>1, AppendProperties
  <2>4. /\ Len(history'[e]) = Len(history[e]) + 1
        /\ \A i \in 1 .. Len(history[e]) : history'[e][i] = history[e][i]
        /\ history'[e][Len(history[e]) + 1] = version
        /\ Len(history[e]) \in Nat
    BY <2>1, <2>3, AppendProperties, LenProperties
  <2>5. \A i \in 1 .. Len(history[e]) :
          /\ history[e][i] \in Version
          /\ \/ history[e][i].n <= writes[history[e][i].owner][e]
             \/ Kind[history[e][i].owner] = "replacer"
    BY <2>3, ElementOfSeq DEF PublishedOnce
  <2>6. \A i \in 1 .. Len(history[e]) :
          /\ \/ history[e][i].n <= writes'[history[e][i].owner][e]
             \/ Kind[history[e][i].owner] = "replacer"
          /\ history[e][i] # version
    <3> SUFFICES ASSUME NEW i \in 1 .. Len(history[e]), NEW h \in Version, h = history[e][i]
                 PROVE  /\ h.n <= writes'[h.owner][e] \/ Kind[h.owner] = "replacer"
                        /\ h # version
      BY <2>5
    <3>1. h.owner \in Sessions /\ h.n \in Nat
      BY DEF Version
    <3>2. h.n <= writes[h.owner][e] \/ Kind[h.owner] = "replacer"
      BY <2>5
    <3>3. h.n <= writes'[h.owner][e] \/ Kind[h.owner] = "replacer"
      BY <2>2, <3>1, <3>2
    <3>4. h # version
      BY <2>1, <3>1, <3>2
    <3> QED
      BY <3>3, <3>4
  <2>7. ASSUME NEW d \in Entries
        PROVE  /\ \A i \in 1 .. Len(history'[d]) :
                    \/ history'[d][i].n <= writes'[history'[d][i].owner][d]
                    \/ Kind[history'[d][i].owner] = "replacer"
               /\ \A i, j \in 1 .. Len(history'[d]) : history'[d][i] = history'[d][j] => i = j
    <3>1. CASE d = e
      <4>1. \A i \in 1 .. Len(history'[e]) :
              i \in 1 .. Len(history[e]) \/ i = Len(history[e]) + 1
        BY <2>4
      <4>2. version.n <= writes'[version.owner][e]
        BY <2>1, <2>2 DEF Version
      <4>3. \A i, j \in 1 .. Len(history[e]) : history[e][i] = history[e][j] => i = j
        BY DEF PublishedOnce
      <4>4. \A i \in 1 .. Len(history'[e]) :
              \/ history'[e][i].n <= writes'[history'[e][i].owner][e]
              \/ Kind[history'[e][i].owner] = "replacer"
        BY <2>4, <2>6, <4>1, <4>2
      <4>5. ASSUME NEW i \in 1 .. Len(history'[e]), NEW j \in 1 .. Len(history'[e]),
                   history'[e][i] = history'[e][j]
            PROVE  i = j
        <5>1. i \in 1 .. Len(history[e]) => history'[e][i] = history[e][i] /\ history'[e][i] # version
          BY <2>4, <2>6
        <5>2. j \in 1 .. Len(history[e]) => history'[e][j] = history[e][j] /\ history'[e][j] # version
          BY <2>4, <2>6
        <5>3. /\ i = Len(history[e]) + 1 => history'[e][i] = version
              /\ j = Len(history[e]) + 1 => history'[e][j] = version
          BY <2>4
        <5> QED
          BY <4>1, <4>3, <4>5, <5>1, <5>2, <5>3
      <4> QED
        BY <3>1, <4>4, <4>5
    <3>2. CASE d # e
      <4>1. history'[d] = history[d] /\ \A t \in Sessions : writes'[t][d] = writes[t][d]
        BY <2>1, <3>2
      <4>2. \A i \in 1 .. Len(history[d]) : history[d][i].owner \in Sessions
        BY ElementOfSeq, ZenonT(40) DEF Version
      <4> QED
        BY <4>1, <4>2 DEF PublishedOnce
    <3> QED
      BY <3>1, <3>2
  <2> QED
    BY <2>7 DEF PublishedOnce
<1>3. CASE ReplaceArchive(s)
  <2>1. Kind[s] = "replacer"
    BY <1>3, ReplacerReplaces
  <2> QED
    BY <1>3, <2>1 DEF ReplaceArchive, PublishedOnce
<1>4. CASE Poll(s) \/ Open(s) \/ Replace(s) \/ Crash(s)
  BY <1>1, <1>3, <1>4 DEF Poll, Open, RegisterArchiveOwner, OpenReader, Replace,
         RegisterReplacementOwner, OthersDrained, ExportArchive, Crash
<1>5. CASE Callback(s) \/ Rollback(s)
  BY <1>1, <1>2, <1>5 DEF Callback, ReadEntry, FinishCallback, FailCallback,
         Rollback, RollbackChange, FinishRollback
<1>6. CASE Settle(s)
  BY <1>1, <1>6 DEF Settle, Reap, Flush, DeferSettlement, AcquireCommitLock,
         AcquireEntryLock, CollectOverlays, WriteImage, CommitOverlays, FailCommit,
         DeleteCommittedOverlay, FinishCommit, ReleaseEntryLock, ReleaseCommitLock
<1>7. CASE Close(s)
  BY <1>1, <1>7 DEF Close, CloseReader, FailCloseReader, MarkDrained,
     CleanupSupersededSnapshots, FailTidy, MarkCompleted, UnregisterArchiveOwner
<1> QED
  BY <1>4, <1>5, <1>6, <1>7 DEF Step, Protocol

\* A settlement moves what is seen into the archive, and nothing else moves it.
LEMMA NewestSeenKept ==
  ASSUME IInv, SInv, TInv, BatchLocked, NothingRolledBack, ExclusiveEmpties, NewestSeen,
         NEW s \in Sessions, Step(s)
  PROVE  NewestSeen'
<1> USE DEF SInv, DataTypes, TInv, RecordTypes, files, memory, work, ghosts, View
<1>1. CASE (\A e \in Entries : View(e)' = View(e)) /\ history' = history
  BY <1>1 DEF NewestSeen, Newest
<1>2. CASE UNCHANGED <<overlay, archive, history>>
  BY <1>1, <1>2
<1>3. ASSUME NEW e \in Entries, WriteEntry(s, e) PROVE NewestSeen'
  <2> DEFINE version == [owner |-> s, n |-> writes[s][e] + 1]
  <2>1. /\ overlay' = [overlay EXCEPT ![e] = version]
        /\ history' = [history EXCEPT ![e] = Append(@, version)]
        /\ archive' = archive
        /\ version \in Version /\ version # None
    BY <1>3, ConstantsAssumption DEF WriteEntry, Version
  <2> HIDE DEF version
  <2>2. history'[e] = Append(history[e], version) /\ history[e] \in Seq(Version)
    BY <2>1
  <2>3. /\ Len(history'[e]) = Len(history[e]) + 1 /\ Len(history[e]) \in Nat
        /\ history'[e][Len(history[e]) + 1] = version
        /\ history'[e] # <<>>
    <3>1. history'[e] \in Seq(Version)
      BY <2>1, <2>2, AppendProperties
    <3>2. /\ Len(history'[e]) = Len(history[e]) + 1 /\ Len(history[e]) \in Nat
          /\ history'[e][Len(history[e]) + 1] = version
      BY <2>1, <2>2, AppendProperties, LenProperties
    <3> QED
      BY <3>1, <3>2, EmptySeq
  <2>4. View(e)' = Newest(e)'
    BY <2>1, <2>3 DEF Newest
  <2>5. \A d \in Entries \ {e} : View(d)' = View(d) /\ history'[d] = history[d]
    BY <2>1
  <2> QED
    BY <2>4, <2>5 DEF NewestSeen, Newest
<1>4. CASE ReplaceArchive(s)
  <2>1. \A e \in Entries : overlay'[e] = None
    BY <1>4 DEF ReplaceArchive, ExclusiveEmpties, Exclusive
  <2> QED
    BY <1>4, <2>1 DEF ReplaceArchive, NewestSeen, Newest
<1>5. CASE CommitOverlays(s)
  <2>1. \A e \in Entries :
          /\ batch[s][e] # None => overlay[e] = batch[s][e]
          /\ batch[s][e] = None => image[s][e] = archive[e]
    BY <1>5 DEF CommitOverlays, BatchLocked, Committing, Images
  <2>2. \A e \in Entries : View(e)' = View(e)
    BY <1>5, <2>1 DEF CommitOverlays
  <2> QED
    BY <1>1, <1>5, <2>2 DEF CommitOverlays
<1>6. ASSUME NEW e \in Entries, DeleteCommittedOverlay(s, e) PROVE NewestSeen'
  <2>1. overlay[e] = archive[e]
    BY <1>6 DEF DeleteCommittedOverlay, BatchLocked, Committing
  <2>2. \A d \in Entries : View(d)' = View(d)
    BY <1>6, <2>1 DEF DeleteCommittedOverlay
  <2> QED
    BY <1>1, <1>6, <2>2 DEF DeleteCommittedOverlay
<1>7. CASE Poll(s) \/ Open(s) \/ Replace(s) \/ Crash(s)
  BY <1>2, <1>4, <1>7 DEF Poll, Open, RegisterArchiveOwner, OpenReader, Replace,
         RegisterReplacementOwner, OthersDrained, ExportArchive, Crash
<1>8. CASE Callback(s) \/ Rollback(s)
  BY <1>2, <1>3, <1>8 DEF Callback, ReadEntry, FinishCallback, FailCallback,
         Rollback, RollbackChange, FinishRollback, NothingRolledBack
<1>9. CASE Settle(s)
  BY <1>2, <1>5, <1>6, <1>9 DEF Settle, Reap, Flush, DeferSettlement, AcquireCommitLock,
         AcquireEntryLock, CollectOverlays, WriteImage, FailCommit, FinishCommit,
         ReleaseEntryLock, ReleaseCommitLock
<1>10. CASE Close(s)
  BY <1>2, <1>10 DEF Close, CloseReader, FailCloseReader, MarkDrained,
     CleanupSupersededSnapshots, FailTidy, MarkCompleted, UnregisterArchiveOwner
<1> QED
  BY <1>7, <1>8, <1>9, <1>10 DEF Step, Protocol

LEMMA HistoryInvariance ==
  ASSUME FailureFree PROVE Spec => []HInv
<1>1. Init => HInv
  BY HInvInit
<1>2. IInv /\ SInv /\ TInv /\ BatchLocked /\ OverlayHasSnapshot /\ HInv /\ [Next]_vars
        => HInv'
  <2> SUFFICES ASSUME IInv, SInv, TInv, BatchLocked, OverlayHasSnapshot, HInv, [Next]_vars
               PROVE  HInv'
    OBVIOUS
  <2>1. ASSUME NEW s \in Sessions, Step(s) PROVE HInv'
    <3>1. NothingRolledBack'
      BY <2>1, NothingRolledBackKept DEF HInv
    <3> QED
      BY <2>1, <3>1, ExclusiveEmptiesKept, PublishedOnceKept, NewestSeenKept
         DEF HInv, FailureFree
  <2>2. CASE UNCHANGED vars
    BY <2>2 DEF HInv, NothingRolledBack, ExclusiveEmpties, Exclusive, PublishedOnce,
           NewestSeen, View, Newest, vars, files, memory, work, ghosts
  <2> QED
    BY <2>1, <2>2 DEF Next, Step, Terminated
<1> QED
  BY <1>1, <1>2, Invariance, SettlementInvariance, TypeInvariance, BatchInvariance,
     OverlayHasSnapshotTheorem, PTL DEF Spec

\* Without a rollback the newest publication is the last one of all.
LEMMA NewestIsLast ==
  ASSUME TInv, NothingRolledBack, NEW e \in Entries
  PROVE  LastWrite(e) = Newest(e)
<1> USE DEF TInv, RecordTypes, NothingRolledBack
<1>1. Kept(e) = 1 .. Len(history[e]) /\ Len(history[e]) \in Nat
  BY LenProperties DEF Kept
<1>2. CASE history[e] = <<>>
  BY <1>1, <1>2 DEF LastWrite, Newest
<1>3. CASE history[e] # <<>>
  <2>1. Len(history[e]) \in Kept(e)
    BY <1>1, <1>3, EmptySeq
  <2>2. (CHOOSE i \in Kept(e) : \A j \in Kept(e) : i >= j) = Len(history[e])
    BY <1>1, <2>1
  <2> DEFINE newest == CHOOSE i \in Kept(e) : \A j \in Kept(e) : i >= j
  <2>3. LastWrite(e) = history[e][newest]
    BY <2>1 DEF LastWrite
  <2>4. newest = Len(history[e])
    BY <2>2
  <2> HIDE DEF newest
  <2> QED
    BY <1>3, <2>3, <2>4 DEF Newest
<1> QED
  BY <1>2, <1>3

\* When no operation fails the last publication of an entry wins, whoever settles
\* it, however often it is deferred, whoever dies and whatever cleanup fails.
THEOREM LastWriteWinsTheorem ==
  ASSUME FailureFree PROVE Spec => []LastWriteWins
<1>1. TInv /\ HInv => LastWriteWins
  BY NewestIsLast DEF HInv, NewestSeen, LastWriteWins
<1> QED
  BY <1>1, TypeInvariance, HistoryInvariance, PTL
=============================================================================
