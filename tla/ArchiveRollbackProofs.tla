----------------------- MODULE ArchiveRollbackProofs -----------------------
(***************************************************************************)
(* Proof that a rollback undoes what the failing session published and     *)
(* nothing else (RollbackExact), for any sessions, deaths and failures, as *)
(* long as the cleanup of a committed overlay does not fail.               *)
(***************************************************************************)
EXTENDS ArchiveHistoryProofs

-----------------------------------------------------------------------------
(* Who may still have something to undo *)

\* Session s has done what it might have to undo.
Final(s) == pc[s] \in {"finalReap", "leave", "done", "dead"} \/ Finishing(s)

Pending(s, e) == changes[s][e] # NoChange

\* Where a session is while it has something to undo.
Undoable(s) ==
  \/ pc[s] \in {"active", "rollback", "close", "drained", "flush", "reap", "tidy"}
  \/ pc[s] \in Settling \cup {"fence"} /\ then[s] \in {"reap", "tidy"}

ChangesLive ==
  \A s \in Sessions, e \in Entries : Pending(s, e) =>
    /\ Kind[s] = "writer"
    /\ changes[s][e].current \in Version
    /\ changes[s][e].current.owner = s
    /\ Undoable(s)
    /\ aborted[s] => pc[s] \in {"rollback", "release"}

\* Who is completed is final, and who has not come to its callback has written
\* nothing.
CompletedIsFinal == \A s \in Sessions : settlement[s] = "completed" => Final(s)

NewcomersWroteNothing ==
  \A s \in Sessions :
    pc[s] = "idle" \/ Opening(s) => \A e \in Entries : writes[s][e] = 0

\* Final is for good.
LEMMA FinalIsFinal ==
  ASSUME IInv, SInv, NEW s \in Sessions, Step(s), NEW t \in Sessions, Final(t)
  PROVE  Final(t)'
<1>1. CASE t # s
  BY <1>1, MemoryIsLocal DEF SInv, Final, Finishing
<1>2. CASE t = s
  <2> USE <1>2 DEF IInv, ControlTypes, SInv, DataTypes, Final, Finishing, Settling, Goto,
              database, memory, work
  <2>1. CASE Poll(s) \/ Crash(s)
    BY <2>1 DEF Poll, Crash
  <2>2. ~Open(s) /\ ~Replace(s) /\ ~Callback(s) /\ ~Rollback(s)
    BY DEF Open, RegisterArchiveOwner, OpenReader, Replace, RegisterReplacementOwner,
       OthersDrained, ReplaceArchive, ExportArchive, Callback, ReadEntry, WriteEntry,
       FinishCallback, FailCallback, Rollback, RollbackChange, FinishRollback
  <2>3. CASE Settle(s)
    <3>1. CASE Reap(s)
      BY <3>1, ReapGoesOn
    <3>2. CASE DeferSettlement(s) \/ AcquireCommitLock(s)
      BY <3>2 DEF DeferSettlement, AcquireCommitLock
    <3>3. CASE CollectOverlays(s) \/ WriteImage(s) \/ CommitOverlays(s)
      BY <3>3 DEF CollectOverlays, WriteImage, CommitOverlays
    <3>4. CASE FailCommit(s) \/ FinishCommit(s) \/ Flush(s)
      BY <3>4 DEF FailCommit, FinishCommit, Flush
    <3>5. ASSUME NEW d \in Entries,
                 AcquireEntryLock(s, d) \/ DeleteCommittedOverlay(s, d) \/ ReleaseEntryLock(s, d)
          PROVE  Final(t)'
      BY <3>5 DEF AcquireEntryLock, DeleteCommittedOverlay, ReleaseEntryLock
    <3>6. CASE ReleaseCommitLock(s)
      <4>1. pc[s] = "release" /\ then[s] = "leave" /\ pc'[s] = "leave"
        BY <3>6 DEF ReleaseCommitLock, Recovery
      <4> QED
        BY <4>1
    <3> QED
      BY <2>3, <3>1, <3>2, <3>3, <3>4, <3>5, <3>6 DEF Settle
  <2>4. CASE Close(s)
    BY <2>4 DEF Close, CloseReader, FailCloseReader, MarkDrained,
       CleanupSupersededSnapshots, FailTidy, MarkCompleted, UnregisterArchiveOwner
  <2> QED
    BY <2>1, <2>2, <2>3, <2>4 DEF Step, Protocol
<1> QED
  BY <1>1, <1>2

LEMMA CompletedIsFinalKept ==
  ASSUME IInv, SInv, CompletedIsFinal, NEW s \in Sessions, Step(s)
  PROVE  CompletedIsFinal'
<1>1. ASSUME NEW t \in Sessions, settlement'[t] = "completed" PROVE Final(t)'
  <2>1. CASE settlement[t] = "completed"
    BY <2>1, FinalIsFinal DEF CompletedIsFinal
  <2>2. CASE settlement[t] # "completed"
    <3> USE DEF IInv, ControlTypes, database, CleanupStaleState, CleanPhases
    <3>1. CASE MarkCompleted(s)
      BY <1>1, <2>2, <3>1 DEF MarkCompleted, Goto, Final
    <3>2. settlement' = settlement \/ settlement' = CleanPhases \/ MarkDrained(s)
            \/ MarkCompleted(s) \/ UnregisterArchiveOwner(s)
      <4>1. CASE Poll(s) \/ Crash(s) \/ Open(s) \/ Replace(s)
        BY <4>1 DEF Poll, Crash, Open, RegisterArchiveOwner, OpenReader, Replace,
           RegisterReplacementOwner, OthersDrained, ReplaceArchive, ExportArchive
      <4>2. CASE Callback(s) \/ Rollback(s)
        BY <4>2 DEF Callback, ReadEntry, WriteEntry, FinishCallback, FailCallback, Rollback,
           RollbackChange, FinishRollback
      <4>3. CASE Settle(s)
        BY <4>3 DEF Settle, Reap, Flush, DeferSettlement, AcquireCommitLock,
           AcquireEntryLock, CollectOverlays, WriteImage, CommitOverlays, FailCommit,
           DeleteCommittedOverlay, FinishCommit, ReleaseEntryLock, ReleaseCommitLock
      <4>4. CASE Close(s)
        BY <4>4 DEF Close, CloseReader, FailCloseReader, CleanupSupersededSnapshots,
           FailTidy
      <4> QED
        BY <4>1, <4>2, <4>3, <4>4 DEF Step, Protocol
    <3>3. CASE MarkDrained(s) \/ UnregisterArchiveOwner(s)
      BY <1>1, <2>2, <3>3 DEF MarkDrained, UnregisterArchiveOwner
    <3> QED
      BY <1>1, <2>2, <3>1, <3>2, <3>3
  <2> QED
    BY <2>1, <2>2
<1> QED
  BY <1>1 DEF CompletedIsFinal

\* Who has not come to the end of its callback has not failed.
StartersUnaborted ==
  \A s \in Sessions :
    \/ pc[s] \in {"idle", "openReap", "openReader", "active"}
    \/ pc[s] \in (Settling \ {"release"}) \cup {"fence"} /\ then[s] = "openReader"
    => ~aborted[s]

LEMMA StartersUnabortedKept ==
  ASSUME IInv, SInv, StartersUnaborted, NEW s \in Sessions, Step(s)
  PROVE  StartersUnaborted'
<1> DEFINE Starting(t) ==
      \/ pc[t] \in {"idle", "openReap", "openReader", "active"}
      \/ pc[t] \in (Settling \ {"release"}) \cup {"fence"} /\ then[t] = "openReader"
<1>1. ASSUME NEW t \in Sessions, t # s, Starting(t)' PROVE ~aborted'[t]
  BY <1>1, MemoryIsLocal DEF SInv, StartersUnaborted
<1>2. ASSUME Starting(s)' PROVE ~aborted'[s]
  <2> USE <1>2 DEF IInv, ControlTypes, SInv, DataTypes, StartersUnaborted, Settling, Goto,
              Labels, Returns, database, memory, work
  <2>1. CASE Poll(s) \/ Crash(s) \/ Open(s) \/ Replace(s)
    BY <2>1 DEF Poll, Crash, Open, RegisterArchiveOwner, OpenReader, Replace,
       RegisterReplacementOwner, OthersDrained, ReplaceArchive, ExportArchive
  <2>2. CASE Callback(s) \/ Rollback(s)
    <3>1. CASE \E e \in Entries : ReadEntry(s, e) \/ WriteEntry(s, e)
      BY <3>1 DEF ReadEntry, WriteEntry
    <3>2. CASE FinishCallback(s)
      BY <3>2 DEF FinishCallback
    <3>3. CASE FailCallback(s)
      BY <3>3 DEF FailCallback
    <3>4. CASE Rollback(s)
      BY <3>4 DEF Rollback, RollbackChange, FinishRollback, RollbackReturns
    <3> QED
      BY <2>2, <3>1, <3>2, <3>3, <3>4 DEF Callback
  <2>3. CASE Settle(s)
    <3>1. CASE Reap(s)
      BY <3>1, ReapGoesOn DEF Reap
    <3>2. CASE Flush(s)
      BY <3>2 DEF Flush, CallFlush
    <3>3. CASE DeferSettlement(s) \/ AcquireCommitLock(s)
      BY <3>3 DEF DeferSettlement, AcquireCommitLock
    <3>4. CASE CollectOverlays(s) \/ WriteImage(s) \/ CommitOverlays(s)
      BY <3>4 DEF CollectOverlays, WriteImage, CommitOverlays
    <3>5. CASE FailCommit(s) \/ FinishCommit(s)
      BY <3>5 DEF FailCommit, FinishCommit
    <3>6. ASSUME NEW d \in Entries,
                 AcquireEntryLock(s, d) \/ DeleteCommittedOverlay(s, d) \/ ReleaseEntryLock(s, d)
          PROVE  ~aborted'[s]
      BY <3>6 DEF AcquireEntryLock, DeleteCommittedOverlay, ReleaseEntryLock
    <3>7. CASE ReleaseCommitLock(s)
      BY <3>7 DEF ReleaseCommitLock, Recovery
    <3> QED
      BY <2>3, <3>1, <3>2, <3>3, <3>4, <3>5, <3>6, <3>7 DEF Settle
  <2>4. CASE Close(s)
    BY <2>4 DEF Close, CloseReader, FailCloseReader, MarkDrained,
       CleanupSupersededSnapshots, FailTidy, MarkCompleted, UnregisterArchiveOwner
  <2> QED
    BY <2>1, <2>2, <2>3, <2>4 DEF Step, Protocol
<1> QED
  BY <1>1, <1>2 DEF StartersUnaborted

\* A session's changes are its own too.
LEMMA ChangesAreLocal ==
  ASSUME SInv, NEW s \in Sessions, Step(s), NEW t \in Sessions, t # s
  PROVE  changes'[t] = changes[t] /\ writes'[t] = writes[t]
<1> USE DEF SInv, DataTypes, memory
<1>1. CASE Poll(s) \/ Crash(s) \/ Open(s) \/ Replace(s)
  BY <1>1 DEF Poll, Crash, Open, RegisterArchiveOwner, OpenReader, Replace,
     RegisterReplacementOwner, OthersDrained, ReplaceArchive, ExportArchive
<1>2. CASE Callback(s)
  <2>1. ASSUME NEW e \in Entries, WriteEntry(s, e)
        PROVE  changes'[t] = changes[t] /\ writes'[t] = writes[t]
    BY <2>1 DEF WriteEntry, RecordChange
  <2> QED
    BY <1>2, <2>1 DEF Callback, ReadEntry, FinishCallback, FailCallback
<1>3. CASE Rollback(s)
  BY <1>3 DEF Rollback, RollbackChange, FinishRollback
<1>4. CASE Settle(s)
  BY <1>4 DEF Settle, Reap, Flush, DeferSettlement, AcquireCommitLock,
     AcquireEntryLock, CollectOverlays, WriteImage, CommitOverlays, FailCommit,
     DeleteCommittedOverlay, FinishCommit, ReleaseEntryLock, ReleaseCommitLock
<1>5. CASE Close(s)
  BY <1>5 DEF Close, CloseReader, FailCloseReader, MarkDrained,
     CleanupSupersededSnapshots, FailTidy, MarkCompleted, UnregisterArchiveOwner
<1> QED
  BY <1>1, <1>2, <1>3, <1>4, <1>5 DEF Step, Protocol

LEMMA NewcomersKept ==
  ASSUME IInv, SInv, NewcomersWroteNothing, NEW s \in Sessions, Step(s)
  PROVE  NewcomersWroteNothing'
<1> SUFFICES ASSUME NEW t \in Sessions, (pc[t] = "idle" \/ Opening(t))'
             PROVE  \A e \in Entries : writes'[t][e] = 0
  BY DEF NewcomersWroteNothing
<1>1. CASE t # s
  BY <1>1, MemoryIsLocal, ChangesAreLocal DEF SInv, NewcomersWroteNothing, Opening
<1>2. CASE t = s
  <2> USE <1>2 DEF IInv, ControlTypes, SInv, DataTypes, NewcomersWroteNothing, Opening,
              RollbackReturns, Settling, Returns, Goto, database, memory, work
  <2>1. CASE Poll(s) \/ Crash(s) \/ Open(s) \/ Replace(s)
    BY <2>1 DEF Poll, Crash, Open, RegisterArchiveOwner, OpenReader, Replace,
       RegisterReplacementOwner, OthersDrained, ReplaceArchive, ExportArchive
  <2>2. CASE Callback(s) \/ Rollback(s)
    BY <2>2, ZenonT(40) DEF Callback, ReadEntry, WriteEntry, FinishCallback, FailCallback, Rollback,
       RollbackChange, FinishRollback
  <2>3. CASE Settle(s)
    <3>1. CASE Reap(s)
      BY <3>1, ReapGoesOn DEF Reap
    <3>2. CASE Flush(s)
      BY <3>2 DEF Flush, CallFlush
    <3>3. CASE DeferSettlement(s) \/ AcquireCommitLock(s)
      BY <3>3, ZenonT(40) DEF DeferSettlement, AcquireCommitLock
    <3>4. CASE CollectOverlays(s) \/ WriteImage(s) \/ CommitOverlays(s)
      BY <3>4 DEF CollectOverlays, WriteImage, CommitOverlays
    <3>5. CASE FailCommit(s) \/ FinishCommit(s)
      BY <3>5 DEF FailCommit, FinishCommit
    <3>6. ASSUME NEW d \in Entries,
                 AcquireEntryLock(s, d) \/ DeleteCommittedOverlay(s, d) \/ ReleaseEntryLock(s, d)
          PROVE  \A e \in Entries : writes'[t][e] = 0
      BY <3>6 DEF AcquireEntryLock, DeleteCommittedOverlay, ReleaseEntryLock
    <3>7. CASE ReleaseCommitLock(s)
      <4>1. /\ pc[s] = "release" /\ writes' = writes
            /\ pc'[s] \in {then[s], "rollback", "leave"}
        BY <3>7 DEF ReleaseCommitLock, Recovery
      <4>2. then[s] = "openReader"
        BY <4>1
      <4> QED
        BY <4>1, <4>2
    <3> QED
      BY <2>3, <3>1, <3>2, <3>3, <3>4, <3>5, <3>6, <3>7 DEF Settle
  <2>4. CASE Close(s)
    BY <2>4 DEF Close, CloseReader, FailCloseReader, MarkDrained,
       CleanupSupersededSnapshots, FailTidy, MarkCompleted, UnregisterArchiveOwner
  <2> QED
    BY <2>1, <2>2, <2>3, <2>4 DEF Step, Protocol
<1> QED
  BY <1>1, <1>2

\* A write is recorded by an active writer that has not failed; a change ends with a
\* rollback, with the cleanup after the settlement, or with the process.
LEMMA ChangesLiveKept ==
  ASSUME IInv, SInv, StartersUnaborted, ChangesLive, NEW s \in Sessions, Step(s)
  PROVE  ChangesLive'
<1> DEFINE Live(t, e) ==
      /\ Kind[t] = "writer"
      /\ changes[t][e].current \in Version
      /\ changes[t][e].current.owner = t
      /\ Undoable(t)
      /\ aborted[t] => pc[t] \in {"rollback", "release"}
<1>1. ASSUME NEW t \in Sessions, NEW e \in Entries, t # s, Pending(t, e)' PROVE Live(t, e)'
  BY <1>1, MemoryIsLocal, ChangesAreLocal DEF SInv, ChangesLive, Pending, Undoable
<1>2. ASSUME NEW e \in Entries, Pending(s, e)' PROVE Live(s, e)'
  <2> USE <1>2 DEF IInv, ControlTypes, SInv, DataTypes, Pending, Undoable,
              Settling, Goto, database, memory, work
  <2>1. ASSUME NEW d \in Entries, WriteEntry(s, d) PROVE Live(s, e)'
    <3> DEFINE version == [owner |-> s, n |-> writes[s][d] + 1]
               change == [current |-> version,
                          previous |-> IF changes[s][d].previous # None
                                       THEN changes[s][d].previous ELSE overlay[d]]
    <3>1. /\ pc[s] = "active" /\ pc' = pc /\ aborted' = aborted /\ Kind[s] = "writer"
          /\ version \in Version
          /\ changes' = [changes EXCEPT ![s][d] = change]
      BY <2>1, ConstantsAssumption DEF WriteEntry, RecordChange, Version
    <3>2. ~aborted[s]
      BY <3>1 DEF StartersUnaborted
    <3>3. change.current = version /\ version.owner = s
      OBVIOUS
    <3> HIDE DEF change, version
    <3> QED
      BY <3>1, <3>2, <3>3 DEF ChangesLive
  <2>3. CASE \A d \in Entries : ~WriteEntry(s, d)
    <3>1. changes'[s][e] = changes[s][e] \/ changes'[s][e] = NoChange
      <4>1. CASE Poll(s) \/ Crash(s) \/ Open(s) \/ Replace(s)
        BY <4>1 DEF Poll, Crash, Open, RegisterArchiveOwner, OpenReader, Replace,
           RegisterReplacementOwner, OthersDrained, ReplaceArchive, ExportArchive
      <4>2. CASE Callback(s) \/ Rollback(s)
        BY <2>3, <4>2 DEF Callback, ReadEntry, FinishCallback, FailCallback, Rollback,
           RollbackChange, FinishRollback
      <4>3. CASE Settle(s)
        BY <4>3 DEF Settle, Reap, Flush, DeferSettlement, AcquireCommitLock,
           AcquireEntryLock, CollectOverlays, WriteImage, CommitOverlays, FailCommit,
           DeleteCommittedOverlay, FinishCommit, ReleaseEntryLock, ReleaseCommitLock
      <4>4. CASE Close(s)
        BY <4>4 DEF Close, CloseReader, FailCloseReader, MarkDrained,
           CleanupSupersededSnapshots, FailTidy, MarkCompleted, UnregisterArchiveOwner
      <4> QED
        BY <4>1, <4>2, <4>3, <4>4 DEF Step, Protocol
    <3>2. changes'[s][e] = changes[s][e] /\ Pending(s, e) /\ Live(s, e)
      BY <3>1 DEF ChangesLive
    <3>3. Undoable(s)' /\ (aborted'[s] => pc'[s] \in {"rollback", "release"})
      <4>1. CASE Poll(s) \/ Crash(s) \/ Open(s) \/ Replace(s)
        BY <3>2, <4>1 DEF Poll, Crash, Open, RegisterArchiveOwner, OpenReader, Replace,
           RegisterReplacementOwner, OthersDrained, ReplaceArchive, ExportArchive
      <4>2. CASE Callback(s)
        BY <2>3, <3>2, <4>2 DEF Callback, ReadEntry, FinishCallback, FailCallback
      <4>3. CASE Rollback(s)
        BY <3>2, <4>3 DEF Rollback, RollbackChange, FinishRollback
      <4>4. CASE Settle(s)
        <5>1. CASE Reap(s)
          BY <3>2, <5>1, ReapGoesOn DEF Reap
        <5>2. CASE Flush(s)
          BY <3>2, <5>2 DEF Flush, CallFlush
        <5>3. CASE DeferSettlement(s) \/ AcquireCommitLock(s)
          BY <3>2, <5>3 DEF DeferSettlement, AcquireCommitLock
        <5>4. CASE CollectOverlays(s) \/ WriteImage(s) \/ CommitOverlays(s)
          BY <3>2, <5>4 DEF CollectOverlays, WriteImage, CommitOverlays
        <5>5. CASE FailCommit(s) \/ FinishCommit(s)
          BY <3>2, <5>5 DEF FailCommit, FinishCommit
        <5>6. ASSUME NEW d \in Entries,
                     AcquireEntryLock(s, d) \/ DeleteCommittedOverlay(s, d)
                       \/ ReleaseEntryLock(s, d)
              PROVE  Undoable(s)' /\ (aborted'[s] => pc'[s] \in {"rollback", "release"})
          BY <3>2, <5>6 DEF AcquireEntryLock, DeleteCommittedOverlay, ReleaseEntryLock
        <5>7. CASE ReleaseCommitLock(s)
          BY <3>2, <5>7 DEF ReleaseCommitLock, Recovery
        <5> QED
          BY <4>4, <5>1, <5>2, <5>3, <5>4, <5>5, <5>6, <5>7 DEF Settle
      <4>5. CASE Close(s)
        BY <3>2, <4>5 DEF Close, CloseReader, FailCloseReader, MarkDrained,
           CleanupSupersededSnapshots, FailTidy, MarkCompleted, UnregisterArchiveOwner
      <4> QED
        BY <4>1, <4>2, <4>3, <4>4, <4>5 DEF Step, Protocol
    <3> QED
      BY <3>2, <3>3
  <2> QED
    BY <2>1, <2>3
<1> QED
  BY <1>1, <1>2 DEF ChangesLive
-----------------------------------------------------------------------------
(* What a step may do to one entry *)

\* Entry e as it was, except that a session may have nothing to undo any more.
Untouched(e) ==
  /\ overlay'[e] = overlay[e]
  /\ archive'[e] = archive[e]
  /\ history'[e] = history[e]
  /\ \A v \in Version : <<e, v>> \in withdrawn' <=> <<e, v>> \in withdrawn
  /\ e \in overlapped' <=> e \in overlapped
  /\ \A t \in Sessions :
       \/ changes'[t][e] = changes[t][e]
       \/ changes'[t][e] = NoChange /\ pc'[t] # "active"

LEMMA EntryEffects ==
  ASSUME IInv, SInv, TInv, NEW s \in Sessions, Step(s), NEW e \in Entries
  PROVE  \/ WriteEntry(s, e) \/ RollbackChange(s, e) \/ ReplaceArchive(s)
         \/ CommitOverlays(s) \/ DeleteCommittedOverlay(s, e) \/ Untouched(e)
<1> USE DEF SInv, DataTypes, TInv, RecordTypes, files, memory, work, ghosts
<1>1. CASE UNCHANGED <<overlay, archive, history, withdrawn, overlapped, changes>>
  BY <1>1 DEF Untouched
<1>2. ASSUME NEW d \in Entries, d # e, WriteEntry(s, d) PROVE Untouched(e)
  BY <1>2 DEF WriteEntry, RecordChange, Untouched
<1>3. ASSUME NEW d \in Entries, d # e, RollbackChange(s, d) PROVE Untouched(e)
  <2>1. \A v \in Version : <<e, v>> \notin Withdrawn(s, d)
    BY <1>3 DEF Withdrawn
  <2> QED
    BY <1>3, <2>1 DEF RollbackChange, Untouched
<1>4. ASSUME NEW d \in Entries, d # e, DeleteCommittedOverlay(s, d) PROVE Untouched(e)
  BY <1>4 DEF DeleteCommittedOverlay, Untouched
<1>5. CASE CleanupSupersededSnapshots(s) \/ Crash(s)
  <2>1. /\ UNCHANGED <<overlay, archive, history, withdrawn, overlapped>>
        /\ changes' = [changes EXCEPT ![s] = [d \in Entries |-> NoChange]]
        /\ pc'[s] # "active"
    BY <1>5 DEF CleanupSupersededSnapshots, Crash, Goto, IInv, ControlTypes
  <2>2. \A t \in Sessions : changes'[t][e] = IF t = s THEN NoChange ELSE changes[t][e]
    BY <2>1
  <2> QED
    BY <2>1, <2>2 DEF Untouched
<1>6. CASE Poll(s) \/ Open(s) \/ Replace(s)
  BY <1>1, <1>6 DEF Poll, Open, RegisterArchiveOwner, OpenReader, Replace,
         RegisterReplacementOwner, OthersDrained, ExportArchive
<1>7. CASE Callback(s) \/ Rollback(s)
  BY <1>1, <1>2, <1>3, <1>7 DEF Callback, ReadEntry, FinishCallback, FailCallback,
         Rollback, FinishRollback
<1>8. CASE Settle(s)
  BY <1>1, <1>4, <1>8 DEF Settle, Reap, Flush, DeferSettlement, AcquireCommitLock,
         AcquireEntryLock, CollectOverlays, WriteImage, FailCommit, FinishCommit,
         ReleaseEntryLock, ReleaseCommitLock
<1>9. CASE Close(s)
  BY <1>1, <1>5, <1>9 DEF Close, CloseReader, FailCloseReader, MarkDrained, FailTidy,
         MarkCompleted, UnregisterArchiveOwner
<1> QED
  BY <1>5, <1>6, <1>7, <1>8, <1>9 DEF Step, Protocol

\* Who publishes more has published what it had.
LEMMA WritesGrow ==
  ASSUME SInv, NEW s \in Sessions, Step(s), NEW t \in Sessions, NEW e \in Entries
  PROVE  writes[t][e] \in Nat /\ writes'[t][e] \in Nat /\ writes[t][e] <= writes'[t][e]
<1> USE DEF SInv, DataTypes, memory, work
<1>1. CASE writes' = writes
  BY <1>1
<1>2. ASSUME NEW d \in Entries, WriteEntry(s, d)
      PROVE  writes[t][e] \in Nat /\ writes'[t][e] \in Nat /\ writes[t][e] <= writes'[t][e]
  <2>1. writes' = [writes EXCEPT ![s][d] = @ + 1]
    BY <1>2 DEF WriteEntry
  <2>2. writes'[t][e] = IF t = s /\ e = d THEN writes[t][e] + 1 ELSE writes[t][e]
    BY <2>1
  <2> QED
    BY <2>2
<1>3. CASE Poll(s) \/ Open(s) \/ Replace(s) \/ Crash(s)
  BY <1>1, <1>3 DEF Poll, Open, RegisterArchiveOwner, OpenReader, Replace,
         RegisterReplacementOwner, OthersDrained, ReplaceArchive, ExportArchive, Crash
<1>4. CASE Callback(s) \/ Rollback(s)
  BY <1>1, <1>2, <1>4 DEF Callback, ReadEntry, FinishCallback, FailCallback,
         Rollback, RollbackChange, FinishRollback
<1>5. CASE Settle(s)
  BY <1>1, <1>5 DEF Settle, Reap, Flush, DeferSettlement, AcquireCommitLock,
         AcquireEntryLock, CollectOverlays, WriteImage, CommitOverlays, FailCommit,
         DeleteCommittedOverlay, FinishCommit, ReleaseEntryLock, ReleaseCommitLock
<1>6. CASE Close(s)
  BY <1>1, <1>6 DEF Close, CloseReader, FailCloseReader, MarkDrained,
     CleanupSupersededSnapshots, FailTidy, MarkCompleted, UnregisterArchiveOwner
<1> QED
  BY <1>3, <1>4, <1>5, <1>6 DEF Step, Protocol

\* What is archived or was withdrawn has been published.
Used(v, e) == v.n <= writes[v.owner][e] \/ Kind[v.owner] = "replacer"

RecordsUsed ==
  \A e \in Entries :
    /\ archive[e] # Base => Used(archive[e], e)
    /\ \A v \in Version : <<e, v>> \in withdrawn => Used(v, e)

LEMMA UsedForGood ==
  ASSUME SInv, NEW s \in Sessions, Step(s), NEW e \in Entries, NEW v \in Version, Used(v, e)
  PROVE  Used(v, e)'
<1>1. v.owner \in Sessions /\ v.n \in Nat
  BY ConstantsAssumption DEF Version
<1>2. /\ writes[v.owner][e] \in Nat /\ writes'[v.owner][e] \in Nat
      /\ writes[v.owner][e] <= writes'[v.owner][e]
  BY <1>1, WritesGrow
<1> QED
  BY <1>1, <1>2 DEF Used

LEMMA RecordsUsedKept ==
  ASSUME IInv, SInv, TInv, BatchLocked, VersionsUsed, PublishedOnce, RecordsUsed,
         NEW s \in Sessions, Step(s)
  PROVE  RecordsUsed'
<1> SUFFICES ASSUME NEW e \in Entries, NEW v \in Version,
                    v = archive'[e] \/ <<e, v>> \in withdrawn'
             PROVE  Used(v, e)'
  BY RecordTypesKept DEF RecordsUsed, RecordTypes, Used
<1> SUFFICES ASSUME ReplaceArchive(s) \/ Used(v, e) PROVE Used(v, e)'
  <2>1. CASE v = archive[e] \/ <<e, v>> \in withdrawn
    BY <2>1, ConstantsAssumption DEF RecordsUsed, Version
  <2> USE DEF SInv, DataTypes, TInv, RecordTypes, files, memory, work, ghosts
  <2>2. CASE Untouched(e) \/ WriteEntry(s, e) \/ DeleteCommittedOverlay(s, e)
    BY <2>1, <2>2 DEF Untouched, WriteEntry, DeleteCommittedOverlay
  <2>3. CASE RollbackChange(s, e)
    <3>1. archive' = archive /\ withdrawn' = withdrawn \cup Withdrawn(s, e)
      BY <2>3 DEF RollbackChange
    <3>2. ASSUME <<e, v>> \in Withdrawn(s, e) PROVE Used(v, e)
      <4>1. PICK i \in 1 .. Len(history[e]) : v = history[e][i]
        BY <3>2 DEF Withdrawn
      <4> QED
        BY <4>1 DEF PublishedOnce, Used
    <3> QED
      BY <2>1, <3>1, <3>2
  <2>4. CASE CommitOverlays(s)
    <3>1. /\ withdrawn' = withdrawn
          /\ archive'[e] = IF batch[s][e] # None THEN batch[s][e] ELSE archive[e]
          /\ batch[s][e] # None => overlay[e] = batch[s][e]
      BY <2>4 DEF CommitOverlays, Images, BatchLocked, Committing
    <3>2. batch[s][e] # None => Used(batch[s][e], e)
      BY <3>1 DEF VersionsUsed, Used
    <3> QED
      BY <2>1, <3>1, <3>2
  <2> QED
    BY <2>2, <2>3, <2>4, EntryEffects
<1>1. CASE ReplaceArchive(s)
  <2>1. Kind[s] = "replacer"
    BY <1>1, ReplacerReplaces
  <2>2. v.owner = s
    BY <1>1 DEF ReplaceArchive
  <2> QED
    BY <2>1, <2>2 DEF Used
<1>2. CASE Used(v, e)
  BY <1>2, UsedForGood
<1> QED
  BY <1>1, <1>2
-----------------------------------------------------------------------------
(* Whose overlays are there to be settled or written over *)

BatchOwners ==
  \A s \in Sessions, e \in Entries : (pc[s] \in Committing /\ batch[s][e] # None) =>
    batch[s][e].owner = s \/ Final(batch[s][e].owner)

LEMMA FinalHasNothing ==
  ASSUME ChangesLive, NEW s \in Sessions, Final(s), NEW e \in Entries
  PROVE  ~Pending(s, e)
BY DEF ChangesLive, Undoable, Final, Finishing, Settling

\* The publisher of an overlay that is not registered any more, or that is complete,
\* is final.
LEMMA GoneIsFinal ==
  ASSUME SInv, VersionsUsed, CompletedIsFinal, NewcomersWroteNothing,
         NEW e \in Entries, overlay[e] # None,
         \/ overlay[e].owner \notin owners
         \/ pc[overlay[e].owner] = "dead"
         \/ settlement[overlay[e].owner] = "completed"
  PROVE  Final(overlay[e].owner)
<1> DEFINE o == overlay[e].owner
<1>1. o \in Sessions /\ overlay[e].n \in Nat /\ overlay[e].n >= 1
  BY ConstantsAssumption DEF SInv, DataTypes, OptVersion, Version
<1>2. pc[o] # "idle"
  <2>1. overlay[e].n <= writes[o][e] /\ writes[o][e] \in Nat
    BY <1>1 DEF VersionsUsed, SInv, DataTypes
  <2>2. writes[o][e] # 0
    BY <1>1, <2>1
  <2> QED
    BY <1>1, <2>2 DEF NewcomersWroteNothing
<1>3. CASE o \notin owners
  BY <1>1, <1>2, <1>3 DEF SInv, ActiveRegistered, Final
<1>4. CASE pc[o] = "dead"
  BY <1>4 DEF Final
<1>5. CASE settlement[o] = "completed"
  BY <1>1, <1>5 DEF CompletedIsFinal
<1> QED
  BY <1>3, <1>4, <1>5

LEMMA BatchOwnersKept ==
  ASSUME IInv, SInv, VersionsUsed, CompletedIsFinal, NewcomersWroteNothing, BatchOwners,
         NEW s \in Sessions, Step(s)
  PROVE  BatchOwners'
<1> SUFFICES ASSUME NEW t \in Sessions, NEW e \in Entries,
                    pc'[t] \in Committing, batch'[t][e] # None,
                    NEW o \in Sessions, o = batch'[t][e].owner, o # t
             PROVE  Final(o)'
  <2>1. DataTypes'
    BY DataTypesKept DEF SInv
  <2>2. \A t \in Sessions, e \in Entries :
          batch'[t][e] # None => batch'[t][e].owner \in Sessions
    BY <2>1 DEF DataTypes, OptVersion, Version
  <2> QED
    BY <2>2 DEF BatchOwners, Final, Finishing
<1>1. CASE pc[t] \in Committing /\ batch'[t][e] = batch[t][e]
  BY <1>1, FinalIsFinal DEF BatchOwners
<1>2. CASE t # s
  BY <1>1, <1>2, MemoryIsLocal DEF SInv
<1>3. CASE t = s /\ CollectOverlays(s)
  <2>1. /\ batch'[s][e] = overlay[e] /\ overlay[e] # None
        /\ \/ overlay[e].owner = s
           \/ overlay[e].owner \notin owners
           \/ settlement[overlay[e].owner] = "completed"
    BY <1>3 DEF CollectOverlays, Settleable, SInv, DataTypes
  <2>2. Final(o)
    BY <1>3, <2>1, GoneIsFinal
  <2> QED
    BY <2>2, FinalIsFinal
<1>4. CASE t = s /\ (WriteImage(s) \/ CommitOverlays(s))
  BY <1>1, <1>4 DEF WriteImage, CommitOverlays, Committing
<1>5. ASSUME t = s, NEW d \in Entries, DeleteCommittedOverlay(s, d)
      PROVE  Final(o)'
  <2>1. pc[s] = "unlink" /\ batch'[s][e] = batch[s][e]
    BY <1>5 DEF DeleteCommittedOverlay, SInv, DataTypes
  <2> QED
    BY <1>1, <1>5, <2>1 DEF Committing
<1> QED
  BY <1>2, <1>3, <1>4, <1>5, CommittingSteps

\* A session is in its callback because it was, or because it has opened its reader.
LEMMA CallbackBegins ==
  ASSUME IInv, SInv, NEW s \in Sessions, Step(s), NEW t \in Sessions, pc'[t] = "active"
  PROVE  pc[t] = "active" \/ pc[t] = "openReader"
<1>1. CASE t # s
  BY <1>1, MemoryIsLocal DEF SInv
<1>2. CASE t = s
  <2> USE <1>2 DEF IInv, ControlTypes, RollbackReturns, Returns, Goto
  <2>1. CASE Poll(s) \/ Open(s) \/ Callback(s)
    BY <2>1 DEF Poll, Open, RegisterArchiveOwner, OpenReader, Callback, ReadEntry,
       WriteEntry, FinishCallback, FailCallback
  <2>2. ~Crash(s) /\ ~Replace(s) /\ ~Rollback(s) /\ ~Close(s)
    BY DEF Crash, Replace, RegisterReplacementOwner, OthersDrained, ReplaceArchive,
       ExportArchive, Rollback, RollbackChange, FinishRollback, Close, CloseReader,
       FailCloseReader, MarkDrained, CleanupSupersededSnapshots, FailTidy, MarkCompleted,
       UnregisterArchiveOwner
  <2>3. ~Settle(s)
    <3>1. ~Reap(s) /\ ~Flush(s) /\ ~DeferSettlement(s)
      BY DEF Reap, Flush, DeferSettlement, CallFlush
    <3>2. ~ReleaseCommitLock(s)
      BY DEF ReleaseCommitLock, Recovery
    <3> QED
      BY <3>1, <3>2 DEF Settle, AcquireCommitLock, AcquireEntryLock, CollectOverlays,
         WriteImage, CommitOverlays, FailCommit, DeleteCommittedOverlay, FinishCommit,
         ReleaseEntryLock
  <2> QED
    BY <2>1, <2>2, <2>3 DEF Step, Protocol
<1> QED
  BY <1>1, <1>2

\* A settler that has not cleaned up entry e is not done with its cleanup.
LEMMA CleanupGoesOn ==
  ASSUME IInv, SInv, NEW s \in Sessions, Step(s), NEW t \in Sessions, NEW e \in Entries,
         pc[t] = "unlink", batch[t][e] # None, ~Crash(s), ~DeleteCommittedOverlay(s, e)
  PROVE  pc'[t] = "unlink" /\ batch'[t][e] # None
<1>1. CASE t # s
  BY <1>1, MemoryIsLocal DEF SInv
<1>2. CASE t = s
  <2> USE <1>2 DEF SInv, DataTypes
  <2>1. ~Poll(s) /\ ~Open(s) /\ ~Replace(s) /\ ~Callback(s) /\ ~Rollback(s) /\ ~Close(s)
    BY DEF Poll, Open, RegisterArchiveOwner, OpenReader, Replace, RegisterReplacementOwner,
       OthersDrained, ReplaceArchive, ExportArchive, Callback, ReadEntry, WriteEntry,
       FinishCallback, FailCallback, Rollback, RollbackChange, FinishRollback, Close,
       CloseReader, FailCloseReader, MarkDrained, CleanupSupersededSnapshots, FailTidy,
       MarkCompleted, UnregisterArchiveOwner
  <2>2. PICK d \in Entries : DeleteCommittedOverlay(s, d)
    BY <2>1 DEF Step, Protocol, Settle, Reap, Flush, DeferSettlement, AcquireCommitLock,
       AcquireEntryLock, CollectOverlays, WriteImage, CommitOverlays, FailCommit,
       FinishCommit, ReleaseEntryLock, ReleaseCommitLock
  <2> QED
    BY <2>2 DEF DeleteCommittedOverlay
<1> QED
  BY <1>1, <1>2
-----------------------------------------------------------------------------
(* What an entry shows, unless somebody wrote over a write that could still *)
(* be rolled back: its last kept publication.  What a session would restore *)
(* is the last one that is kept if this session's are not.                  *)

\* x is what the last of the positions I of the history h holds.
IsLast(h, I, x) ==
  \/ I = {} /\ x = Base
  \/ \E i \in I : x = h[i] /\ \A j \in I : i >= j

LEMMA LastOfFewer ==
  ASSUME NEW h, NEW I, NEW J, NEW x, IsLast(h, I, x), J \subseteq I,
         \A i \in I : h[i] = x => i \in J
  PROVE  IsLast(h, J, x)
BY DEF IsLast

PreviousFinal(e) ==
  \A s \in Sessions : Previous(s, e) # None => Final(Previous(s, e).owner)

\* A session's overlay is the one it published last, and stays until the session
\* can undo nothing or somebody who knows that it is final writes over it.
OwnIsCurrent(e) ==
  \A s \in Sessions :
    /\ (overlay[e] # None /\ overlay[e].owner = s /\ (pc[s] = "active" \/ Pending(s, e)))
         => overlay[e] = changes[s][e].current
    /\ (Pending(s, e) /\ pc[s] = "active") => overlay[e] = changes[s][e].current
    /\ (Pending(s, e) /\ overlay[e] = changes[s][e].current /\ overlay[e] = archive[e])
         => pc[s] = "unlink" /\ batch[s][e] # None

\* What is kept of an entry if session s rolls back, and what it shows then.
Keeps(s, e) ==
  {i \in Kept(e) : history[e][i].owner # s \/ history[e][i] = archive[e]}

Restored(s, e) == IF Previous(s, e) # None THEN Previous(s, e) ELSE archive[e]

RestoresExactly(e) ==
  \A s \in Sessions :
    (Pending(s, e) /\ overlay[e] = changes[s][e].current /\ overlay[e] # archive[e])
      => IsLast(history[e], Keeps(s, e), Restored(s, e))

Exact(e) ==
  /\ PreviousFinal(e)
  /\ OwnIsCurrent(e)
  /\ RestoresExactly(e)
  /\ IsLast(history[e], Kept(e), View(e))

ExactInv == \A e \in Entries \ overlapped : Exact(e)

\* What the steps rest on.
Known ==
  /\ IInv /\ SInv /\ TInv /\ BatchLocked /\ RInv /\ PublishedOnce /\ ExclusiveEmpties
  /\ StartersUnaborted /\ ChangesLive /\ CompletedIsFinal /\ NewcomersWroteNothing
  /\ RecordsUsed /\ BatchOwners

\* An entry that a step leaves alone stays as it should be.
LEMMA UntouchedIsExact ==
  ASSUME Known, NEW s \in Sessions, Step(s), NEW e \in Entries, Untouched(e),
         ~DeleteCommittedOverlay(s, e), Exact(e)
  PROVE  Exact(e)'
<1> USE DEF Known, Untouched
<1>1. /\ \A i \in 1 .. Len(history[e]) : history[e][i] \in Version
      /\ \A t \in Sessions : changes'[t][e] = changes[t][e] \/ ~Pending(t, e)'
  BY ElementOfSeq DEF TInv, RecordTypes, Pending
<1>2. Kept(e)' = Kept(e)
  BY <1>1 DEF Kept
<1>3. \A t \in Sessions : Keeps(t, e)' = Keeps(t, e)
  BY <1>2 DEF Keeps
<1>4. IsLast(history[e], Kept(e), View(e))'
  BY <1>2 DEF Exact, View
<1>5. PreviousFinal(e)'
  <2> SUFFICES ASSUME NEW t \in Sessions, Previous(t, e)' # None,
                      NEW o \in Sessions, o = Previous(t, e).owner, Previous(t, e)' = Previous(t, e)
               PROVE  Final(o)'
    <3>1. ASSUME NEW t \in Sessions, Previous(t, e)' # None
          PROVE  Previous(t, e)' = Previous(t, e) /\ Previous(t, e).owner \in Sessions
      <4>1. changes'[t][e] = changes[t][e]
        BY <3>1 DEF Previous, NoChange
      <4>2. Previous(t, e) \in Version
        BY <3>1, <4>1 DEF Previous, SInv, DataTypes, OptVersion
      <4> QED
        BY <4>1, <4>2 DEF Previous, Version
    <3> QED
      BY <3>1 DEF PreviousFinal, Final, Finishing
  <2> QED
    BY FinalIsFinal DEF Exact, PreviousFinal
<1>6. OwnIsCurrent(e)'
  <2> SUFFICES ASSUME NEW t \in Sessions
               PROVE  /\ (overlay'[e] # None /\ overlay'[e].owner = t
                            /\ (pc'[t] = "active" \/ Pending(t, e)'))
                           => overlay'[e] = changes'[t][e].current
                      /\ (Pending(t, e)' /\ pc'[t] = "active")
                           => overlay'[e] = changes'[t][e].current
                      /\ (Pending(t, e)' /\ overlay'[e] = changes'[t][e].current
                            /\ overlay'[e] = archive'[e])
                           => pc'[t] = "unlink" /\ batch'[t][e] # None
    BY DEF OwnIsCurrent
  <2>1. ASSUME overlay[e] # None, overlay[e].owner = t, pc'[t] = "active"
        PROVE  pc[t] = "active"
    <3>1. overlay[e].n <= writes[t][e] /\ overlay[e].n \in Nat /\ overlay[e].n >= 1
      BY <2>1, ConstantsAssumption DEF RInv, VersionsUsed, SInv, DataTypes, OptVersion, Version
    <3>2. writes[t][e] # 0
      BY <3>1 DEF SInv, DataTypes
    <3>3. pc[t] # "openReader"
      BY <3>2 DEF NewcomersWroteNothing, Opening
    <3> QED
      BY <2>1, <3>3, CallbackBegins
  <2>2. ASSUME Pending(t, e)', pc'[t] = "active" PROVE Pending(t, e) /\ pc[t] = "active"
    <3>1. Pending(t, e)
      BY <1>1, <2>2 DEF Pending
    <3>2. pc[t] # "openReader"
      BY <3>1 DEF ChangesLive, Undoable, Settling
    <3> QED
      BY <2>2, <3>1, <3>2, CallbackBegins
  <2>3. ASSUME overlay[e] # None, overlay[e].owner = t, pc[t] = "active", ~Pending(t, e)
        PROVE  FALSE
    BY <2>3 DEF Exact, OwnIsCurrent, Pending, NoChange
  <2>4. ASSUME Pending(t, e)', pc[t] = "unlink", batch[t][e] # None
        PROVE  pc'[t] = "unlink" /\ batch'[t][e] # None
    <3>1. CASE Crash(s) /\ t = s
      BY <2>4, <3>1 DEF Crash, Pending, SInv, DataTypes
    <3>2. CASE t # s
      BY <2>4, <3>2, MemoryIsLocal DEF SInv
    <3> QED
      BY <2>4, <3>1, <3>2, CleanupGoesOn
  <2>5. Pending(t, e)' => Pending(t, e) /\ changes'[t][e] = changes[t][e]
    BY <1>1 DEF Pending
  <2>6. (overlay'[e] # None /\ overlay'[e].owner = t /\ (pc'[t] = "active" \/ Pending(t, e)'))
          => overlay'[e] = changes'[t][e].current
    <3> SUFFICES ASSUME overlay[e] # None, overlay[e].owner = t,
                        pc'[t] = "active" \/ Pending(t, e)'
                 PROVE  overlay[e] = changes'[t][e].current
      OBVIOUS
    <3>1. pc[t] = "active" \/ Pending(t, e)
      BY <2>1, <2>5
    <3>2. Pending(t, e) /\ overlay[e] = changes[t][e].current
      BY <2>3, <3>1 DEF Exact, OwnIsCurrent
    <3>3. CASE changes'[t][e] = changes[t][e]
      BY <3>2, <3>3
    <3>4. CASE changes'[t][e] = NoChange /\ pc'[t] # "active"
      BY <1>1, <3>4 DEF Pending
    <3> QED
      BY <3>3, <3>4
  <2>7. (Pending(t, e)' /\ pc'[t] = "active") => overlay'[e] = changes'[t][e].current
    BY <2>2, <2>5 DEF Exact, OwnIsCurrent
  <2>8. (Pending(t, e)' /\ overlay'[e] = changes'[t][e].current /\ overlay'[e] = archive'[e])
          => pc'[t] = "unlink" /\ batch'[t][e] # None
    BY <2>4, <2>5 DEF Exact, OwnIsCurrent
  <2> QED
    BY <2>6, <2>7, <2>8
<1>7. RestoresExactly(e)'
  <2> SUFFICES ASSUME NEW t \in Sessions, Pending(t, e)',
                      overlay'[e] = changes'[t][e].current, overlay'[e] # archive'[e]
               PROVE  IsLast(history[e], Keeps(t, e), Restored(t, e))'
    BY DEF RestoresExactly
  <2>1. Pending(t, e) /\ changes'[t][e] = changes[t][e]
    BY <1>1 DEF Pending
  <2>2. IsLast(history[e], Keeps(t, e), Restored(t, e))
    BY <2>1 DEF Exact, RestoresExactly
  <2>3. Restored(t, e)' = Restored(t, e)
    BY <2>1 DEF Restored, Previous
  <2> QED
    BY <1>3, <2>2, <2>3
<1> QED
  BY <1>4, <1>5, <1>6, <1>7 DEF Exact

\* A publication over something final is the last one, and its rollback would show
\* what was there before.
LEMMA WriteIsExact ==
  ASSUME Known, NEW s \in Sessions, Step(s), NEW e \in Entries, WriteEntry(s, e),
         e \notin overlapped', Exact(e)
  PROVE  Exact(e)'
<1> DEFINE v == [owner |-> s, n |-> writes[s][e] + 1]
           p == IF Previous(s, e) # None THEN Previous(s, e) ELSE overlay[e]
           N == Len(history[e])
<1> USE DEF Known, SInv, DataTypes, TInv, RecordTypes
<1>1. /\ pc[s] = "active" /\ pc' = pc /\ batch' = batch /\ then' = then
      /\ Kind[s] = "writer" /\ writes[s][e] < MaxWrites
      /\ archive' = archive /\ withdrawn' = withdrawn
      /\ overlay' = [overlay EXCEPT ![e] = v]
      /\ history' = [history EXCEPT ![e] = Append(@, v)]
      /\ changes' = [changes EXCEPT ![s][e] = [current |-> v, previous |-> p]]
      /\ ~Unfinished(s, e)
  BY DEF WriteEntry, RecordChange, Previous, work
<1>2. /\ v \in Version /\ v # None /\ v.owner = s /\ v # Base
      /\ \A u \in Version : Used(u, e) => u # v
  <2>1. v \in Version /\ v.owner = s /\ v.n = writes[s][e] + 1 /\ writes[s][e] \in Nat
    BY <1>1, ConstantsAssumption DEF Version
  <2>2. \A u \in Version : Used(u, e) => u # v
    BY <1>1, <2>1 DEF Used
  <2> QED
    BY <2>1, <2>2, ConstantsAssumption DEF Version
<1> HIDE DEF v
<1>3. /\ N \in Nat /\ Len(history'[e]) = N + 1
      /\ \A i \in 1 .. N : /\ history[e][i] \in Version /\ history'[e][i] = history[e][i]
                           /\ history[e][i] # v
      /\ history'[e][N + 1] = v
  <2>1. /\ history[e] \in Seq(Version) /\ history'[e] = Append(history[e], v)
    BY <1>1
  <2>2. \A i \in 1 .. N : history[e][i] \in Version
    BY <2>1, ElementOfSeq
  <2>3. \A i \in 1 .. N : history[e][i] # v
    BY <1>2, <2>2 DEF PublishedOnce, Used
  <2>4. /\ N \in Nat /\ Len(history'[e]) = N + 1
        /\ \A i \in 1 .. N : history'[e][i] = history[e][i]
        /\ history'[e][N + 1] = v
    BY <1>2, <2>1, AppendProperties, LenProperties
  <2> QED
    BY <2>2, <2>3, <2>4
<1>4. Kept(e)' = Kept(e) \cup {N + 1} /\ Kept(e) \subseteq 1 .. N
  <2>1. <<e, v>> \notin withdrawn
    BY <1>2 DEF RecordsUsed
  <2>2. 1 .. N + 1 = (1 .. N) \cup {N + 1}
    BY <1>3
  <2>3. Kept(e)' = {i \in 1 .. N + 1 : <<e, history'[e][i]>> \notin withdrawn}
    BY <1>1, <1>3 DEF Kept
  <2>4. \A i \in 1 .. N : i \in Kept(e)' <=> i \in Kept(e)
    BY <1>3, <2>2, <2>3 DEF Kept
  <2>5. N + 1 \in Kept(e)'
    BY <1>3, <2>1, <2>2, <2>3
  <2> QED
    BY <2>2, <2>3, <2>4, <2>5 DEF Kept
<1>5. /\ archive[e] # v
      /\ overlay[e] # None => overlay[e] \in Version /\ overlay[e] # v
  BY <1>2 DEF RecordsUsed, RInv, VersionsUsed, Used, OptVersion
<1>6. overlay[e] # None =>
        IF overlay[e].owner = s THEN Previous(s, e) # None ELSE Final(overlay[e].owner)
  <2> SUFFICES ASSUME overlay[e] # None, overlay[e].owner # s PROVE Final(overlay[e].owner)
    BY <1>1 DEF Unfinished, Previous
  <2>1. overlay[e].owner \in Sessions
    BY <1>5 DEF Version
  <2>2. \/ overlay[e].owner \notin CleanOwners
        \/ CleanPhases[overlay[e].owner] = "completed"
    BY <1>1 DEF Unfinished
  <2> QED
    BY <2>1, <2>2, GoneIsFinal DEF RInv, CleanOwners, CleanPhases, Stale
<1>7. /\ overlay'[e] = v
      /\ \A t \in Sessions :
           changes'[t][e] = IF t = s THEN [current |-> v, previous |-> p] ELSE changes[t][e]
  BY <1>1
<1>8. View(e)' = v
  BY <1>2, <1>7 DEF View
<1>9. IsLast(history[e], Kept(e), View(e))'
  <2>1. \A i \in Kept(e)' : N + 1 >= i
    BY <1>3, <1>4
  <2> QED
    BY <1>3, <1>4, <1>8, <2>1 DEF IsLast
<1>10. PreviousFinal(e)'
  <2>1. \A t \in Sessions : Final(t)' <=> Final(t)
    BY <1>1 DEF Final, Finishing
  <2>2. p # None => p \in Version /\ Final(p.owner)
    BY <1>5, <1>6 DEF Exact, PreviousFinal, Previous, OptVersion
  <2>3. ASSUME NEW t \in Sessions, Previous(t, e)' # None
        PROVE  /\ Previous(t, e)' \in Version
               /\ Final(Previous(t, e)'.owner)
    <3>1. CASE t = s
      <4>1. Previous(t, e)' = p
        BY <1>7, <3>1 DEF Previous
      <4> QED
        BY <2>2, <2>3, <4>1
    <3>2. CASE t # s
      <4>1. Previous(t, e)' = Previous(t, e) /\ Previous(t, e) # None
        BY <1>7, <2>3, <3>2 DEF Previous
      <4>2. Previous(t, e) \in Version
        BY <4>1 DEF Previous, OptVersion
      <4> QED
        BY <4>1, <4>2 DEF Exact, PreviousFinal
    <3> QED
      BY <3>1, <3>2
  <2> QED
    BY <1>1, <2>3 DEF PreviousFinal, Final, Finishing
<1>11. ASSUME NEW t \in Sessions, t # s, Pending(t, e), pc[t] = "active" PROVE FALSE
  <2>1. overlay[e] = changes[t][e].current
    BY <1>11 DEF Exact, OwnIsCurrent
  <2>2. overlay[e] # None /\ overlay[e].owner = t
    BY <1>11, <2>1, ConstantsAssumption DEF ChangesLive, Version
  <2> QED
    BY <1>6, <1>11, <2>2, FinalHasNothing
<1>12. OwnIsCurrent(e)'
  <2> SUFFICES ASSUME NEW t \in Sessions
               PROVE  /\ (v.owner = t /\ (pc[t] = "active" \/ Pending(t, e)'))
                           => v = changes'[t][e].current
                      /\ (Pending(t, e)' /\ pc[t] = "active") => v = changes'[t][e].current
                      /\ (Pending(t, e)' /\ v = changes'[t][e].current /\ v = archive[e])
                           => pc[t] = "unlink" /\ batch[t][e] # None
    BY <1>1, <1>7 DEF OwnIsCurrent
  <2>1. CASE t = s
    BY <1>5, <1>7, <2>1
  <2>2. CASE t # s
    BY <1>2, <1>5, <1>7, <1>11, <2>2 DEF Pending
  <2> QED
    BY <2>1, <2>2
<1>13. RestoresExactly(e)'
  <2> SUFFICES ASSUME NEW t \in Sessions, Pending(t, e)', v = changes'[t][e].current
               PROVE  IsLast(history[e], Keeps(t, e), Restored(t, e))'
    BY <1>7 DEF RestoresExactly
  <2>1. t = s
    BY <1>2, <1>7 DEF ChangesLive, Pending
  <2>2. Keeps(s, e)' = Keeps(s, e)
    <3>1. \A i \in 1 .. N : history'[e][i] = history[e][i]
      BY <1>3
    <3>2. \A i \in Kept(e) : i \in Keeps(s, e)' <=> i \in Keeps(s, e)
      BY <1>1, <1>4, <3>1 DEF Keeps
    <3>3. N + 1 \notin Keeps(s, e)'
      <4>1. history'[e][N + 1].owner = s /\ history'[e][N + 1] # archive'[e]
        BY <1>1, <1>2, <1>3, <1>5
      <4> QED
        BY <4>1 DEF Keeps
    <3>4. Keeps(s, e) \subseteq Kept(e) /\ Keeps(s, e)' \subseteq Kept(e) \cup {N + 1}
      BY <1>4 DEF Keeps
    <3>5. \A i : i \in Keeps(s, e)' <=> i \in Keeps(s, e)
      BY <3>2, <3>3, <3>4, Zenon
    <3>6. Keeps(s, e)' = {i \in Kept(e)' : i \in Keeps(s, e)'}
      BY Zenon DEF Keeps
    <3>7. Keeps(s, e) = {i \in Kept(e) : i \in Keeps(s, e)}
      BY Zenon DEF Keeps
    <3> QED
      BY <3>5, <3>6, <3>7, Zenon
  <2>3. Restored(s, e)' = IF p # None THEN p ELSE archive[e]
    BY <1>1, <1>7 DEF Restored, Previous
  <2> DEFINE x == IF p # None THEN p ELSE archive[e]
  <2>4. IsLast(history[e], Keeps(s, e), x)
    <3>1. CASE Previous(s, e) = None
      <4>1. x = View(e) /\ (overlay[e] # None => overlay[e].owner # s)
        BY <1>6, <3>1 DEF View
      <4>2. \A i \in Kept(e) : history[e][i] = x => i \in Keeps(s, e)
        BY <4>1 DEF Keeps, View
      <4>3. Keeps(s, e) \subseteq Kept(e) /\ IsLast(history[e], Kept(e), x)
        BY <4>1 DEF Keeps, Exact
      <4> QED
        BY <4>2, <4>3, LastOfFewer
    <3>2. CASE Previous(s, e) # None
      <4>1. Pending(s, e)
        BY <3>2 DEF Pending, NoChange, Previous
      <4>2. overlay[e] = changes[s][e].current /\ overlay[e] # archive[e]
        BY <1>1, <4>1 DEF Exact, OwnIsCurrent
      <4> QED
        BY <3>2, <4>1, <4>2 DEF Exact, RestoresExactly, Restored
    <3> QED
      BY <3>1, <3>2
  <2>5. \A i \in Keeps(s, e) : i \in 1 .. N
    BY <1>4 DEF Keeps
  <2>6. IsLast(history'[e], Keeps(s, e), x)
    BY <1>3, <2>4, <2>5 DEF IsLast
  <2> QED
    BY <2>1, <2>2, <2>3, <2>6
<1> QED
  BY <1>9, <1>10, <1>12, <1>13 DEF Exact

\* A rollback takes back what its session published and shows what is left.
LEMMA RollbackIsExact ==
  ASSUME Known, NEW s \in Sessions, Step(s), NEW e \in Entries, RollbackChange(s, e),
         Exact(e)
  PROVE  Exact(e)'
<1> USE DEF Known, SInv, DataTypes, TInv, RecordTypes
<1> DEFINE restores == overlay[e] = changes[s][e].current
<1>1. /\ pc[s] = "rollback" /\ pc' = pc /\ then' = then /\ batch' = batch
      /\ Pending(s, e) /\ archive' = archive /\ history' = history
      /\ overlay' = IF restores THEN [overlay EXCEPT ![e] = Previous(s, e)] ELSE overlay
      /\ changes' = [changes EXCEPT ![s][e] = NoChange]
      /\ withdrawn' = withdrawn \cup Withdrawn(s, e)
  BY DEF RollbackChange, Previous, Pending, work
<1>2. /\ overlay'[e] = IF restores THEN Previous(s, e) ELSE overlay[e]
      /\ \A t \in Sessions : changes'[t][e] = IF t = s THEN NoChange ELSE changes[t][e]
  BY <1>1
<1>3. \A t \in Sessions : Final(t)' <=> Final(t)
  BY <1>1 DEF Final, Finishing
<1>4. Kept(e)' = Keeps(s, e)
  <2>1. \A i \in 1 .. Len(history[e]) :
          <<e, history[e][i]>> \in Withdrawn(s, e)
            <=> history[e][i].owner = s /\ history[e][i] # archive[e]
    BY DEF Withdrawn
  <2> QED
    BY <1>1, <2>1 DEF Kept, Keeps
<1>5. restores => /\ overlay[e] # None /\ overlay[e].owner = s /\ overlay[e] # archive[e]
                  /\ Previous(s, e) # None => /\ Previous(s, e) \in Version
                                              /\ Final(Previous(s, e).owner)
  BY <1>1, ConstantsAssumption
     DEF ChangesLive, Version, Exact, OwnIsCurrent, PreviousFinal, Previous, OptVersion
<1>6. ~restores => (overlay[e] # None => overlay[e].owner # s)
  BY <1>1 DEF Exact, OwnIsCurrent
<1>7. IsLast(history[e], Kept(e), View(e))'
  <2>1. CASE restores
    <3>1. IsLast(history[e], Keeps(s, e), Restored(s, e))
      BY <1>1, <1>5, <2>1 DEF Exact, RestoresExactly
    <3>2. View(e)' = Restored(s, e)
      BY <1>1, <1>2, <2>1 DEF View, Restored
    <3> QED
      BY <1>1, <1>4, <3>1, <3>2
  <2>2. CASE ~restores
    <3>1. View(e)' = View(e) /\ IsLast(history[e], Kept(e), View(e))
      BY <1>1, <1>2, <2>2 DEF View, Exact
    <3>2. Keeps(s, e) \subseteq Kept(e)
          /\ \A i \in Kept(e) : history[e][i] = View(e) => i \in Keeps(s, e)
      BY <1>6, <2>2 DEF Keeps, View
    <3>3. IsLast(history[e], Keeps(s, e), View(e))
      BY <3>1, <3>2, LastOfFewer
    <3> QED
      BY <1>1, <1>4, <3>1, <3>3
  <2> QED
    BY <2>1, <2>2
<1>8. PreviousFinal(e)'
  <2>1. ASSUME NEW t \in Sessions, Previous(t, e)' # None
        PROVE  Previous(t, e)' = Previous(t, e) /\ Previous(t, e) \in Version
    <3>1. changes'[t][e] = changes[t][e]
      BY <1>2, <2>1 DEF Previous, NoChange
    <3> QED
      BY <2>1, <3>1 DEF Previous, OptVersion
  <2> QED
    BY <1>1, <2>1 DEF Exact, PreviousFinal, Final, Finishing
<1>9. ASSUME NEW t \in Sessions, t # s, restores, Previous(s, e) # None,
             Previous(s, e).owner = t
      PROVE  pc[t] # "active" /\ ~Pending(t, e)
  <2>1. Final(t)
    BY <1>5, <1>9
  <2> QED
    BY <2>1, FinalHasNothing DEF Final, Finishing, Settling
<1>10. ASSUME NEW t \in Sessions, t # s, Pending(t, e)
       PROVE  /\ Pending(t, e)' /\ changes'[t][e] = changes[t][e]
              /\ overlay'[e] = changes[t][e].current => ~restores
              /\ overlay[e] = changes[t][e].current => ~restores
  <2>1. changes[t][e].current # None /\ changes[t][e].current.owner = t
    BY <1>10, ConstantsAssumption DEF ChangesLive, Version
  <2> QED
    BY <1>2, <1>5, <1>9, <1>10, <2>1 DEF Pending
<1>11. OwnIsCurrent(e)'
  <2> SUFFICES ASSUME NEW t \in Sessions
               PROVE  /\ (overlay'[e] # None /\ overlay'[e].owner = t
                            /\ (pc[t] = "active" \/ Pending(t, e)'))
                           => overlay'[e] = changes'[t][e].current
                      /\ (Pending(t, e)' /\ pc[t] = "active")
                           => overlay'[e] = changes'[t][e].current
                      /\ (Pending(t, e)' /\ overlay'[e] = changes'[t][e].current
                            /\ overlay'[e] = archive[e])
                           => pc[t] = "unlink" /\ batch[t][e] # None
    BY <1>1 DEF OwnIsCurrent
  <2>1. CASE t = s
    BY <1>1, <1>2, <2>1 DEF Pending
  <2>2. CASE t # s
    <3>1. Pending(t, e)' <=> Pending(t, e)
      BY <1>2, <2>2 DEF Pending
    <3>2. changes'[t][e] = changes[t][e]
      BY <1>2, <2>2
    <3>3. CASE restores
      <4>1. overlay'[e] = Previous(s, e) /\ overlay[e].owner = s
        BY <1>2, <1>5, <3>3
      <4>2. ~(overlay'[e] # None /\ overlay'[e].owner = t /\ (pc[t] = "active" \/ Pending(t, e)))
        BY <1>9, <2>2, <3>3, <4>1
      <4>3. ~(Pending(t, e) /\ overlay'[e] = changes[t][e].current)
        BY <1>10, <2>2, <3>3
      <4>4. ~(Pending(t, e) /\ pc[t] = "active")
        BY <1>10, <2>2, <3>3 DEF Exact, OwnIsCurrent
      <4> QED
        BY <3>1, <3>2, <4>2, <4>3, <4>4
    <3>4. CASE ~restores
      BY <1>2, <3>1, <3>2, <3>4 DEF Exact, OwnIsCurrent
    <3> QED
      BY <3>3, <3>4
  <2> QED
    BY <2>1, <2>2
<1>12. RestoresExactly(e)'
  <2> SUFFICES ASSUME NEW t \in Sessions, Pending(t, e)',
                      overlay'[e] = changes'[t][e].current, overlay'[e] # archive[e]
               PROVE  IsLast(history[e], Keeps(t, e), Restored(t, e))'
    BY <1>1 DEF RestoresExactly
  <2>1. t # s /\ Pending(t, e) /\ changes'[t][e] = changes[t][e]
    BY <1>2 DEF Pending
  <2>2. ~restores /\ overlay'[e] = overlay[e]
    BY <1>2, <1>10, <2>1
  <2>3. IsLast(history[e], Keeps(t, e), Restored(t, e))
    BY <2>1, <2>2 DEF Exact, RestoresExactly
  <2>4. Restored(t, e)' = Restored(t, e)
    BY <1>1, <2>1 DEF Restored, Previous
  <2>5. Keeps(t, e)' = {i \in Keeps(s, e) : history[e][i].owner # t \/ history[e][i] = archive[e]}
    BY <1>1, <1>4 DEF Keeps
  <2>6. Restored(t, e) # archive[e] => Restored(t, e).owner # s
    <3> SUFFICES ASSUME Previous(t, e) # None, Previous(t, e).owner = s PROVE FALSE
      BY DEF Restored
    <3>1. Final(s)
      BY DEF Exact, PreviousFinal
    <3> QED
      BY <1>1, <3>1, FinalHasNothing
  <2>7. Keeps(t, e)' \subseteq Keeps(t, e)
        /\ \A i \in Keeps(t, e) : history[e][i] = Restored(t, e) => i \in Keeps(t, e)'
    BY <2>5, <2>6 DEF Keeps
  <2>8. IsLast(history[e], Keeps(t, e)', Restored(t, e))
    BY <2>3, <2>7, LastOfFewer
  <2> QED
    BY <1>1, <2>4, <2>8
<1> QED
  BY <1>7, <1>8, <1>11, <1>12 DEF Exact

\* A settlement moves what an entry shows into the archive, and its publisher, who
\* may have something to undo, is the settler.
LEMMA CommitIsExact ==
  ASSUME Known, NEW s \in Sessions, Step(s), NEW e \in Entries, CommitOverlays(s), Exact(e)
  PROVE  Exact(e)'
<1> USE DEF Known, SInv, DataTypes, TInv, RecordTypes
<1>1. /\ pc[s] = "rename" /\ pc' = [pc EXCEPT ![s] = "unlink"]
      /\ UNCHANGED <<overlay, history, withdrawn, overlapped, changes, batch, then>>
      /\ archive'[e] = image[s][e]
  BY DEF CommitOverlays, Goto, memory, work, ghosts
<1>2. /\ batch[s][e] # None => overlay[e] = batch[s][e] /\ archive'[e] = batch[s][e]
      /\ batch[s][e] = None => archive'[e] = archive[e]
  BY <1>1 DEF BatchLocked, Committing, Images
<1>3. CASE batch[s][e] = None
  <2>1. Untouched(e) /\ ~DeleteCommittedOverlay(s, e)
    BY <1>1, <1>2, <1>3 DEF Untouched, DeleteCommittedOverlay
  <2> QED
    BY <2>1, UntouchedIsExact
<1>4. CASE batch[s][e] # None
  <2>1. /\ View(e)' = View(e) /\ Kept(e)' = Kept(e) /\ overlay'[e] = archive'[e]
        /\ overlay[e] # None
    BY <1>1, <1>2, <1>4 DEF View, Kept
  <2>2. IsLast(history[e], Kept(e), View(e))'
    BY <1>1, <2>1 DEF Exact
  <2>3. PreviousFinal(e)'
    <3>1. ASSUME NEW t \in Sessions, Final(t) PROVE Final(t)'
      BY <3>1, FinalIsFinal
    <3>2. \A t \in Sessions : Previous(t, e) # None => Previous(t, e).owner \in Sessions
      BY DEF Previous, OptVersion, Version
    <3>3. \A t \in Sessions : Previous(t, e)' = Previous(t, e)
      BY <1>1 DEF Previous
    <3> SUFFICES ASSUME NEW t \in Sessions, Previous(t, e) # None,
                        NEW o \in Sessions, o = Previous(t, e).owner
                 PROVE  Final(o)'
      BY <3>2, <3>3 DEF PreviousFinal, Final, Finishing
    <3> QED
      BY <3>1 DEF Exact, PreviousFinal
  <2>4. OwnIsCurrent(e)'
    <3> SUFFICES ASSUME NEW t \in Sessions
                 PROVE  /\ (overlay[e].owner = t /\ (pc'[t] = "active" \/ Pending(t, e)))
                             => overlay[e] = changes[t][e].current
                        /\ (Pending(t, e) /\ pc'[t] = "active")
                             => overlay[e] = changes[t][e].current
                        /\ (Pending(t, e) /\ overlay[e] = changes[t][e].current)
                             => pc'[t] = "unlink" /\ batch[t][e] # None
      BY <1>1, <2>1 DEF OwnIsCurrent, Pending
    <3>1. pc'[t] = IF t = s THEN "unlink" ELSE pc[t]
      BY <1>1 DEF IInv, ControlTypes
    <3>2. (Pending(t, e) /\ overlay[e] = changes[t][e].current) => t = s
      <4> SUFFICES ASSUME Pending(t, e), overlay[e] = changes[t][e].current PROVE t = s
        OBVIOUS
      <4>1. batch[s][e].owner = t
        BY <1>2, <1>4 DEF ChangesLive
      <4>2. ~Final(t)
        BY FinalHasNothing
      <4> QED
        BY <1>1, <1>4, <4>1, <4>2 DEF BatchOwners, Committing
    <3> QED
      BY <1>4, <2>1, <3>1, <3>2 DEF Exact, OwnIsCurrent
  <2>5. RestoresExactly(e)'
    BY <2>1 DEF RestoresExactly
  <2> QED
    BY <2>2, <2>3, <2>4, <2>5 DEF Exact
<1> QED
  BY <1>3, <1>4

\* The cleanup of a committed overlay lets the archive show what the overlay showed.
LEMMA CleanupIsExact ==
  ASSUME UnlinkFailers = {}, Known, NEW s \in Sessions, Step(s), NEW e \in Entries,
         DeleteCommittedOverlay(s, e), Exact(e)
  PROVE  Exact(e)'
<1> USE DEF Known, SInv, DataTypes, TInv, RecordTypes
<1>1. /\ pc[s] = "unlink" /\ batch[s][e] # None
      /\ UNCHANGED <<pc, then, archive, history, withdrawn, overlapped, changes>>
      /\ overlay[e] = batch[s][e] /\ archive[e] = overlay[e]
      /\ overlay'[e] = None
  BY DEF DeleteCommittedOverlay, BatchLocked, Committing, ghosts
<1>2. /\ View(e)' = View(e) /\ Kept(e)' = Kept(e)
  BY <1>1 DEF View, Kept
<1>3. IsLast(history[e], Kept(e), View(e))'
  BY <1>1, <1>2 DEF Exact
<1>4. PreviousFinal(e)'
  BY <1>1 DEF Exact, PreviousFinal, Previous, Final, Finishing
<1>5. ASSUME NEW t \in Sessions, Pending(t, e)
      PROVE  changes[t][e].current # None /\ pc[t] # "active"
  <2>1. changes[t][e].current # None /\ changes[t][e].current.owner = t
    BY <1>5, ConstantsAssumption DEF ChangesLive, Version
  <2>2. ASSUME pc[t] = "active" PROVE FALSE
    <3>1. overlay[e] = changes[t][e].current
      BY <1>5, <2>2 DEF Exact, OwnIsCurrent
    <3>2. t = s \/ Final(t)
      BY <1>1, <2>1, <3>1 DEF BatchOwners, Committing
    <3> QED
      BY <1>1, <2>2, <3>2 DEF Final, Finishing, Settling
  <2> QED
    BY <2>1, <2>2
<1>6. OwnIsCurrent(e)' /\ RestoresExactly(e)'
  BY <1>1, <1>5 DEF OwnIsCurrent, RestoresExactly, Pending
<1> QED
  BY <1>3, <1>4, <1>6 DEF Exact

\* After a replacement there is nothing but the replacement.
LEMMA ReplaceIsExact ==
  ASSUME Known, NEW s \in Sessions, Step(s), NEW e \in Entries, ReplaceArchive(s)
  PROVE  Exact(e)'
<1> USE DEF Known, SInv, DataTypes, TInv, RecordTypes
<1> DEFINE v == [owner |-> s, n |-> 1]
<1>1. /\ pc[s] = "replace" /\ Exclusive(s)
      /\ UNCHANGED <<overlay, changes>>
      /\ archive'[e] = v /\ history'[e] = <<v>> /\ withdrawn' = {}
  BY DEF ReplaceArchive, Exclusive, memory
<1> HIDE DEF v
<1>2. overlay[e] = None /\ owners = {s} /\ Kind[s] = "replacer"
  BY <1>1 DEF ExclusiveEmpties, ExclusiveFlushes
<1>3. ASSUME NEW t \in Sessions, Pending(t, e) PROVE FALSE
  <2>1. t # s /\ pc[t] \in {"idle", "done", "dead"}
    BY <1>2, <1>3 DEF ChangesLive, ActiveRegistered
  <2> QED
    BY <1>3, <2>1 DEF ChangesLive, Undoable, Settling
<1>4. \A t \in Sessions : ~Pending(t, e)' /\ Previous(t, e)' = None
  BY <1>1, <1>3 DEF Pending, Previous, NoChange
<1>5. Kept(e)' = {1} /\ View(e)' = v
  BY <1>1, <1>2 DEF Kept, View
<1>6. IsLast(history[e], Kept(e), View(e))'
  BY <1>1, <1>5 DEF IsLast
<1>7. PreviousFinal(e)' /\ RestoresExactly(e)' /\ OwnIsCurrent(e)'
  BY <1>1, <1>2, <1>4 DEF PreviousFinal, RestoresExactly, OwnIsCurrent
<1> QED
  BY <1>6, <1>7 DEF Exact

LEMMA ExactInvKept ==
  ASSUME UnlinkFailers = {}, Known, ExactInv, NEW s \in Sessions, Step(s)
  PROVE  ExactInv'
<1> SUFFICES ASSUME NEW e \in Entries, e \notin overlapped' PROVE Exact(e)'
  BY DEF ExactInv
<1>1. CASE ReplaceArchive(s)
  BY <1>1, ReplaceIsExact
<1>2. CASE e \in overlapped /\ ~ReplaceArchive(s)
  BY <1>2, EntryEffects DEF Known, WriteEntry, RollbackChange, CommitOverlays,
     DeleteCommittedOverlay, Untouched, ghosts
<1>3. CASE e \notin overlapped
  <2>1. Exact(e)
    BY <1>3 DEF ExactInv
  <2>2. CASE WriteEntry(s, e)
    BY <2>1, <2>2, WriteIsExact
  <2>3. CASE RollbackChange(s, e)
    BY <2>1, <2>3, RollbackIsExact
  <2>4. CASE CommitOverlays(s)
    BY <2>1, <2>4, CommitIsExact
  <2>5. CASE DeleteCommittedOverlay(s, e)
    BY <2>1, <2>5, CleanupIsExact
  <2>6. CASE Untouched(e) /\ ~DeleteCommittedOverlay(s, e)
    BY <2>1, <2>6, UntouchedIsExact
  <2> QED
    BY <1>1, <2>2, <2>3, <2>4, <2>5, <2>6, EntryEffects DEF Known
<1> QED
  BY <1>1, <1>2, <1>3

-----------------------------------------------------------------------------
LEMMA UndoInvariance ==
  ASSUME UnlinkFailers = {} PROVE Spec => [](Known /\ ExactInv)
<1>1. Init => RInv /\ PublishedOnce /\ ExclusiveEmpties
  BY RInvInit, HInvInit DEF HInv
<1>2. Init => /\ StartersUnaborted /\ ChangesLive /\ CompletedIsFinal
              /\ NewcomersWroteNothing /\ RecordsUsed /\ BatchOwners
  BY DEF Init, StartersUnaborted, ChangesLive, Pending, CompletedIsFinal,
     NewcomersWroteNothing, RecordsUsed, BatchOwners, Committing
<1>3. Init => ExactInv
  <2> SUFFICES ASSUME Init, NEW e \in Entries PROVE Exact(e)
    BY DEF ExactInv
  <2>1. /\ overlay[e] = None /\ archive[e] = Base /\ history[e] = <<>>
        /\ \A t \in Sessions : ~Pending(t, e) /\ Previous(t, e) = None
    BY DEF Init, Pending, Previous, NoChange
  <2>2. Kept(e) = {} /\ View(e) = Base
    BY <2>1 DEF Kept, View
  <2> QED
    BY <2>1, <2>2 DEF Exact, PreviousFinal, OwnIsCurrent, RestoresExactly, IsLast
<1> DEFINE Base0 == IInv /\ SInv /\ TInv /\ BatchLocked
           Rest == /\ RInv /\ PublishedOnce /\ ExclusiveEmpties
                   /\ StartersUnaborted /\ ChangesLive /\ CompletedIsFinal
                   /\ NewcomersWroteNothing /\ RecordsUsed /\ BatchOwners
                   /\ ExactInv
<1>4. Base0 /\ Rest /\ [Next]_vars => Rest'
  <2> SUFFICES ASSUME Base0, Rest, [Next]_vars PROVE Rest'
    OBVIOUS
  <2>1. ASSUME NEW s \in Sessions, Step(s) PROVE Rest'
    <3>1. RInv' /\ PublishedOnce'
      BY <2>1, RInvKept, PublishedOnceKept DEF SInv
    <3>2. ExclusiveEmpties'
      BY <2>1, ExclusiveEmptiesKept DEF ReplacersClean
    <3>3. StartersUnaborted' /\ ChangesLive' /\ CompletedIsFinal' /\ NewcomersWroteNothing'
      BY <2>1, StartersUnabortedKept, ChangesLiveKept, CompletedIsFinalKept, NewcomersKept
    <3>4. RecordsUsed' /\ BatchOwners'
      BY <2>1, RecordsUsedKept, BatchOwnersKept DEF RInv
    <3>5. ExactInv'
      BY <2>1, ExactInvKept DEF Known
    <3> QED
      BY <3>1, <3>2, <3>3, <3>4, <3>5
  <2>2. CASE UNCHANGED vars
    <3>1. RInv' /\ PublishedOnce' /\ ExclusiveEmpties'
      BY <2>2 DEF RInv, VersionsUsed, KeptOnce, PreviousHasSnapshot, OverlayHasSnapshot,
             Previous, PublishedOnce, ExclusiveEmpties, Exclusive, vars, files, memory, work,
             ghosts
    <3>2. StartersUnaborted' /\ ChangesLive' /\ CompletedIsFinal' /\ NewcomersWroteNothing'
      BY <2>2 DEF StartersUnaborted, ChangesLive, Pending, Undoable, CompletedIsFinal, Final,
             Finishing, NewcomersWroteNothing, Opening, vars, database, memory, work
    <3>3. RecordsUsed' /\ BatchOwners'
      BY <2>2 DEF RecordsUsed, Used, BatchOwners, Final, Finishing, vars, files, memory,
             work, ghosts
    <3>4. ExactInv'
      <4> USE <2>2 DEF vars, files, memory, work, ghosts
      <4>1. SUFFICES ASSUME NEW e \in Entries \ overlapped, Exact(e) PROVE Exact(e)'
        BY DEF ExactInv
      <4>2. PreviousFinal(e)'
        BY <4>1 DEF Exact, PreviousFinal, Previous, Final, Finishing
      <4>3. OwnIsCurrent(e)'
        BY <4>1 DEF Exact, OwnIsCurrent, Pending
      <4>4. /\ Kept(e)' = Kept(e) /\ View(e)' = View(e)
            /\ \A s \in Sessions : /\ Keeps(s, e)' = Keeps(s, e)
                                   /\ Restored(s, e)' = Restored(s, e)
        BY DEF Keeps, Kept, Restored, Previous, View
      <4>5. RestoresExactly(e)'
        BY <4>1, <4>4 DEF Exact, RestoresExactly, Pending
      <4> QED
        BY <4>1, <4>2, <4>3, <4>4, <4>5 DEF Exact
    <3> QED
      BY <3>1, <3>2, <3>3, <3>4
  <2> QED
    BY <2>1, <2>2 DEF Next, Step, Terminated
<1>5. Base0 /\ Rest => Known /\ ExactInv
  BY DEF Known
<1> HIDE DEF Rest
<1>6. Init => Rest
  BY <1>1, <1>2, <1>3 DEF Rest
<1> QED
  BY <1>4, <1>5, <1>6, Invariance, SettlementInvariance, TypeInvariance, BatchInvariance,
     PTL DEF Spec

\* A rollback undoes exactly what its session published, for any number of sessions
\* that write, fail, settle, die and replace the archive, unless somebody wrote over
\* what could still be rolled back, or the cleanup of a committed overlay fails.
THEOREM RollbackExactTheorem ==
  ASSUME UnlinkFailers = {} PROVE Spec => []RollbackExact
<1>1. Known /\ ExactInv => RollbackExact
  <2> SUFFICES ASSUME Known, NEW e \in Entries, IsLast(history[e], Kept(e), View(e))
               PROVE  View(e) = LastWrite(e)
    BY DEF ExactInv, Exact, RollbackExact
  <2>1. CASE Kept(e) = {}
    BY <2>1 DEF IsLast, LastWrite
  <2>2. CASE Kept(e) # {}
    <3>1. PICK i \in Kept(e) : View(e) = history[e][i] /\ \A j \in Kept(e) : i >= j
      BY <2>2 DEF IsLast
    <3> DEFINE last == CHOOSE k \in Kept(e) : \A j \in Kept(e) : k >= j
    <3>2. last \in Kept(e) /\ \A j \in Kept(e) : last >= j
      BY <3>1
    <3>3. i \in Nat /\ last \in Nat /\ i >= last /\ last >= i
      <4>1. Kept(e) \subseteq Nat
        BY LenProperties DEF Known, TInv, RecordTypes, Kept
      <4> QED
        BY <3>1, <3>2, <4>1
    <3>4. last = i
      BY <3>3
    <3>5. LastWrite(e) = history[e][last]
      BY <2>2 DEF LastWrite
    <3> HIDE DEF last
    <3> QED
      BY <3>1, <3>4, <3>5
  <2> QED
    BY <2>1, <2>2
<1> QED
  BY <1>1, UndoInvariance, PTL
=============================================================================
