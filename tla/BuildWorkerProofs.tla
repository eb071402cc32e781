-------------------------- MODULE BuildWorkerProofs --------------------------
(***************************************************************************)
(* Proofs about the build queue with its workers, for any number of jobs,  *)
(* workers and slots, and any choice of who crashes, stalls or is stopped. *)
(***************************************************************************)
EXTENDS BuildWorker, TLAPS, SequenceTheorems

-----------------------------------------------------------------------------
(* The rows have their type, and at most one row per lane is active.  No    *)
(* more is needed: every operation that activates a row or moves it to      *)
(* another lane looks at the lane in the same transaction.                  *)

\* Every row has its type.
RowTypes == job \in [Jobs -> JobRow]

\* The inductive invariant of the rows.
QueueInv == RowTypes /\ OneActivePerLane

\* The queue starts empty.
LEMMA QueueInitEstablishes == Init => QueueInv
BY QueueAssumption
   DEF Init, QueueInit, QueueInv, RowTypes, OneActivePerLane, JobRow, Active,
       Terminal, Targets

\* Recovery keeps the types and activates nothing.
LEMMA RecoveryDeactivates ==
  ASSUME QueueInv
  PROVE  /\ Recovered \in [Jobs -> JobRow]
         /\ \A j \in Jobs :
              /\ Recovered[j].target = job[j].target
              /\ Recovered[j].state \in Active => job[j].state \in Active
              /\ Recovered[j].state # job[j].state =>
                   /\ job[j].state \in {"running", "canceling"}
                   /\ Recovered[j].state \in {"canceled", "failed"}
                   /\ job[j].state = "canceling" =>
                        Recovered[j].state = "canceled"
BY DEF QueueInv, RowTypes, Recovered, Abandoned, JobRow, Active, Terminal

\* What a step may do to a finished row.
TerminalStep ==
  \A j \in Jobs : job[j].state \in Terminal =>
    job'[j].state \in {job[j].state, "removed"}

\* What a step may do to a row whose cancellation was requested.
CancelingStep ==
  \A j \in Jobs : job[j].state = "canceling" =>
    job'[j].state \in {"canceling", "canceled"}

\* What every step has to establish.
StepOK == QueueInv' /\ TerminalStep /\ CancelingStep

\* A step keeps all of this when it activates no row, moves no active row to
\* another lane, and ends only active rows, a canceling one as canceled.
Settles(old, new) ==
  \A k \in Jobs :
    /\ new[k].state \in Active =>
         /\ old[k].state \in Active
         /\ Lane(new[k].target) = Lane(old[k].target)
    /\ new[k].state # old[k].state =>
         /\ old[k].state \in Active
         /\ old[k].state = "canceling" => new[k].state = "canceled"

\* A step that settles rows is fine, whether or not it has recovered first.
LEMMA SettlingPreserves ==
  ASSUME QueueInv, job' \in [Jobs -> JobRow],
         Settles(job, job') \/ Settles(Recovered, job')
  PROVE  StepOK
<1>1. CASE Settles(job, job')
  BY <1>1 DEF Settles, StepOK, QueueInv, RowTypes, OneActivePerLane,
       TerminalStep, CancelingStep, Active, Terminal
<1>2. CASE Settles(Recovered, job')
  <2>1. Settles(job, job')
    BY <1>2, RecoveryDeactivates DEF Settles, Active
  <2> QED
    BY <2>1, <1>1
<1> QED
  BY <1>1, <1>2

\* Editing a row's state and owner keeps the types.
LEMMA StateTyped ==
  ASSUME NEW rows \in [Jobs -> JobRow], NEW k,
         NEW state \in Active \cup Terminal
  PROVE  [rows EXCEPT ![k].state = state] \in [Jobs -> JobRow]
BY DEF JobRow

\* The same for a row that also loses or gets its owner.
LEMMA EditTyped ==
  ASSUME NEW rows \in [Jobs -> JobRow], NEW k,
         NEW state \in Active \cup Terminal, NEW owner \in Workers \cup {None}
  PROVE  [rows EXCEPT ![k].state = state, ![k].owner = owner]
           \in [Jobs -> JobRow]
<1> DEFINE stated == [rows EXCEPT ![k].state = state]
<1>1. stated \in [Jobs -> JobRow]
  BY StateTyped
<1>2. [stated EXCEPT ![k].owner = owner] \in [Jobs -> JobRow]
  BY <1>1 DEF JobRow
<1> QED
  BY <1>2

\* One step per action of the clients, the workers and the editor.
LEMMA StepPreservesRows == QueueInv /\ [Next]_vars => StepOK
<1> SUFFICES ASSUME QueueInv, [Next]_vars PROVE StepOK
  OBVIOUS
<1> USE QueueAssumption
    DEF StepOK, QueueInv, RowTypes, OneActivePerLane, TerminalStep,
        CancelingStep, JobRow, Active, Terminal, Targets
<1>1. CASE ClientStep
  <2>1. CASE RecoverStaleBuildJobs
    BY RecoveryDeactivates, <2>1 DEF RecoverStaleBuildJobs
  <2>2. ASSUME NEW j \in Jobs, NEW target \in Targets,
              NEW boost \in BOOLEAN, InsertJob(j, target, boost) PROVE StepOK
    BY RecoveryDeactivates, <2>2 DEF InsertJob, ActiveInLane, Lane
  <2>3. ASSUME NEW j \in Jobs, PauseBuildJob(j) PROVE StepOK
    <3>1. job' \in [Jobs -> JobRow]
      BY RecoveryDeactivates, <2>3 DEF PauseBuildJob
    <3>2. Settles(Recovered, job')
      BY RecoveryDeactivates, <2>3 DEF PauseBuildJob, Settles
    <3> QED
      BY <3>1, <3>2, SettlingPreserves
  <2>4. ASSUME NEW j \in Jobs, ResumeBuildJob(j) PROVE StepOK
    BY RecoveryDeactivates, <2>4 DEF ResumeBuildJob, Lane
  <2>5. ASSUME NEW j \in Jobs, CancelBuildJob(j) PROVE StepOK
    <3>1. CASE /\ Recovered[j].state = "running"
               /\ job' = [Recovered EXCEPT ![j].state = "canceling"]
      <4>1. job' \in [Jobs -> JobRow]
        BY <3>1, RecoveryDeactivates, StateTyped
      <4>2. Settles(Recovered, job')
        BY <3>1, RecoveryDeactivates DEF Settles
      <4> QED
        BY <4>1, <4>2, SettlingPreserves
    <3>2. CASE /\ Recovered[j].state \in {"queued", "paused"}
               /\ job' = [Recovered EXCEPT ![j].state = "canceled",
                                           ![j].owner = None]
      <4>1. job' \in [Jobs -> JobRow]
        BY <3>2, RecoveryDeactivates, EditTyped
      <4>2. Settles(Recovered, job')
        BY <3>2, RecoveryDeactivates DEF Settles
      <4> QED
        BY <4>1, <4>2, SettlingPreserves
    <3> QED
      BY <2>5, <3>1, <3>2 DEF CancelBuildJob
  <2>6. ASSUME NEW j \in Jobs, BoostBuildJob(j) PROVE StepOK
    BY RecoveryDeactivates, <2>6 DEF BoostBuildJob, Lane
  <2>7. ASSUME NEW j \in Jobs, CleanBuildJob(j) PROVE StepOK
    BY <2>7 DEF CleanBuildJob, Lane
  <2> QED
    BY <1>1, <2>1, <2>2, <2>3, <2>4, <2>5, <2>6, <2>7 DEF ClientStep
<1>2. CASE RetargetStep
  <2>1. ASSUME NEW target \in Targets, NEW boost \in BOOLEAN,
               MergeJob(target, boost)
        PROVE  StepOK
    BY RecoveryDeactivates, <2>1 DEF MergeJob, ActiveInLane, Lane
  <2>2. ASSUME NEW j \in Jobs, NEW target \in Targets,
               UpdateBuildJobTarget(j, target)
        PROVE  StepOK
    <3>1. job' = [Recovered EXCEPT ![j].target = target]
      BY <2>2 DEF UpdateBuildJobTarget
    <3>2. job' \in [Jobs -> JobRow]
      BY <3>1, RecoveryDeactivates
    <3>3. \A k \in Jobs \ {j} :
            Recovered[k].state \in Active =>
              Lane(Recovered[k].target) # Lane(target)
      BY <2>2 DEF UpdateBuildJobTarget, ActiveInLane
    <3>4. OneActivePerLane'
      BY <3>1, <3>2, <3>3, RecoveryDeactivates
    <3>5. TerminalStep /\ CancelingStep
      BY <3>1, RecoveryDeactivates
    <3> QED
      BY <3>2, <3>4, <3>5
  <2> QED
    BY <1>2, <2>1, <2>2 DEF RetargetStep
<1>3. ASSUME NEW s \in Slots, Execute(s) \/ FailBuild(s) PROVE StepOK
  <2>1. CASE ClaimQueuedBuildJob(s)
    <3>1. PICK j \in {order[i] : i \in DOMAIN order} :
            /\ Recovered[j].state = "queued"
            /\ job' = [Recovered EXCEPT ![j].state = "running",
                                        ![j].owner = WorkerOf[s]]
      BY <2>1 DEF ClaimQueuedBuildJob
    <3>2. job' \in [Jobs -> JobRow]
      BY <3>1, RecoveryDeactivates, EditTyped, WorkerAssumption
    <3>3. Settles(Recovered, job')
      BY <3>1, RecoveryDeactivates DEF Settles
    <3> QED
      BY <3>2, <3>3, SettlingPreserves
  <2>2. CASE PollBuildQueue(s)
    BY RecoveryDeactivates, <2>2 DEF PollBuildQueue, RecoverStaleBuildJobs
  <2>16. CASE LeaveQueue(s)
    BY RecoveryDeactivates, <2>16 DEF LeaveQueue
  <2>3. CASE PlanStep(s)
    BY <2>3 DEF PlanStep, queue
  <2>4. CASE StepStarted(s)
    <3>1. job' \in [Jobs -> JobRow]
      BY <2>4 DEF StepStarted, Lane
    <3>2. Settles(job, job')
      BY <2>4 DEF StepStarted, Lane, Settles
    <3> QED
      BY <3>1, <3>2, SettlingPreserves
  <2>5. CASE ReadInput(s)
    BY <2>5 DEF ReadInput, queue
  <2>6. CASE Build(s)
    BY <2>6 DEF Build, queue
  <2>7. CASE FailBuild(s)
    BY <2>7 DEF FailBuild, queue
  <2>8. CASE AssertJobStillRunning(s)
    BY RecoveryDeactivates, <2>8 DEF AssertJobStillRunning
  <2>9. CASE VerifyRevision(s)
    BY <2>9 DEF VerifyRevision, queue
  <2>10. CASE ApplyArtifact(s)
    BY <2>10 DEF ApplyArtifact, queue
  <2>11. CASE StepCompleted(s)
    BY <2>11 DEF StepCompleted, queue
  <2>12. CASE LastStopCheck(s)
    BY <2>12 DEF LastStopCheck, queue
  <2>13. CASE MarkBuildJobSucceeded(s)
    <3> DEFINE ended == [job EXCEPT ![slot[s].job].state = "succeeded",
                                    ![slot[s].job].owner = None]
    <3>1. ended \in [Jobs -> JobRow]
      BY EditTyped
    <3>2. \/ job' = job
          \/ job[slot[s].job].state = "running" /\ job' = ended
      BY <2>13 DEF MarkBuildJobSucceeded, Conclude, Running
    <3>3. Settles(job, job')
      BY <3>2 DEF Settles
    <3> QED
      BY <3>1, <3>2, <3>3, SettlingPreserves
  <2>14. CASE MarkBuildJobFailed(s)
    <3> DEFINE ended == [job EXCEPT ![slot[s].job].state = "failed",
                                    ![slot[s].job].owner = None]
    <3>1. ended \in [Jobs -> JobRow]
      BY EditTyped
    <3>2. \/ job' = job
          \/ job[slot[s].job].state = "running" /\ job' = ended
      BY <2>14 DEF MarkBuildJobFailed, Conclude, Running
    <3>3. Settles(job, job')
      BY <3>2 DEF Settles
    <3> QED
      BY <3>1, <3>2, <3>3, SettlingPreserves
  <2>15. CASE MarkBuildJobStopped(s)
    <3> DEFINE ended == [job EXCEPT ![slot[s].job].state = "canceled",
                                    ![slot[s].job].owner = None]
    <3>1. ended \in [Jobs -> JobRow]
      BY EditTyped
    <3>2. \/ job' = job
          \/ job[slot[s].job].state = "canceling" /\ job' = ended
      BY <2>15 DEF MarkBuildJobStopped, Conclude, Running
    <3>3. Settles(job, job')
      BY <3>2 DEF Settles
    <3> QED
      BY <3>1, <3>2, <3>3, SettlingPreserves
  <2> QED
    BY <1>3, <2>1, <2>2, <2>3, <2>4, <2>5, <2>6, <2>7, <2>8,
       <2>9, <2>10, <2>11, <2>12, <2>13, <2>14, <2>15, <2>16
    DEF Execute
<1>4. ASSUME NEW w \in Workers,
            \/ StartWorker(w)
            \/ Lease(w)
            \/ StopWorker(w)
            \/ ReleaseBuildWorkerLease(w)
            \/ CrashWorker(w)
     PROVE  StepOK
  <2>1. CASE StartWorker(w)
    BY <2>1 DEF StartWorker, queue
  <2>2. CASE RecoverStaleBuildWorkerLease(w)
    BY <2>2 DEF RecoverStaleBuildWorkerLease
  <2>3. CASE AcquireBuildWorkerLease(w)
    BY <2>3 DEF AcquireBuildWorkerLease
  <2>4. CASE HeartbeatBuildWorker(w)
    BY <2>4 DEF HeartbeatBuildWorker
  <2>5. CASE StopWorker(w)
    BY <2>5 DEF StopWorker, queue
  <2>6. CASE ReleaseBuildWorkerLease(w)
    BY RecoveryDeactivates, <2>6 DEF ReleaseBuildWorkerLease
  <2>7. CASE CrashWorker(w)
    BY <2>7 DEF CrashWorker, queue
  <2> QED
    BY <1>4, <2>1, <2>2, <2>3, <2>4, <2>5, <2>6, <2>7 DEF Lease
<1>5. CASE Edit
  <2>1. CASE \E kind \in Edits : AssertNoActiveBuildJobs(kind)
    BY RecoveryDeactivates, <2>1 DEF AssertNoActiveBuildJobs
  <2>2. CASE ResetChapter
    BY <2>2 DEF ResetChapter, queue
  <2>3. CASE SetChapterSource
    BY <2>3 DEF SetChapterSource, queue
  <2> QED
    BY <1>5, <2>1, <2>2, <2>3 DEF Edit
<1>6. CASE LeaseGoesStale
  BY <1>6 DEF LeaseGoesStale
<1>7. CASE UNCHANGED vars
  BY <1>7 DEF vars, queue
<1> QED
  BY <1>1, <1>2, <1>3, <1>4, <1>5, <1>6, <1>7 DEF Next, Client

\* The rows keep their type and their lanes throughout every behaviour.
LEMMA QueueInvariance == Spec => []QueueInv
<1>1. QueueInv /\ [Next]_vars => QueueInv'
  BY StepPreservesRows DEF StepOK
<1> QED
  BY <1>1, QueueInitEstablishes, PTL DEF Spec

-----------------------------------------------------------------------------
\* A chapter never has two unfinished jobs in one lane, whatever clients add,
\* merge, retarget, pause or resume while workers claim and finish jobs: the
\* partial unique index of schema.ts is never hit.
THEOREM OneActivePerLaneTheorem == Spec => []OneActivePerLane
<1>1. QueueInv => OneActivePerLane
  BY DEF QueueInv
<1> QED
  BY <1>1, QueueInvariance, PTL

\* A job that succeeded, failed or was canceled keeps that state until it is
\* cleaned, also when its execution, its worker's successor or a client is
\* late.
THEOREM TerminalIsFinalTheorem == Spec => TerminalIsFinal
<1>1. QueueInv /\ [Next]_vars =>
        [\A j \in Jobs : job[j].state \in Terminal =>
           job'[j].state \in {job[j].state, "removed"}]_queue
  BY StepPreservesRows DEF StepOK, TerminalStep
<1> QED
  BY <1>1, QueueInvariance, PTL DEF Spec, TerminalIsFinal

\* A cancellation that was accepted for a running job can only end as canceled:
\* neither a late result nor the recovery of a lost worker overtakes it.
THEOREM CancellationHoldsTheorem == Spec => CancellationHolds
<1>1. QueueInv /\ [Next]_vars =>
        [\A j \in Jobs : job[j].state = "canceling" =>
           job'[j].state \in {"canceling", "canceled"}]_queue
  BY StepPreservesRows DEF StepOK, CancelingStep
<1> QED
  BY <1>1, QueueInvariance, PTL DEF Spec, CancellationHolds

-----------------------------------------------------------------------------
(* Types *)

\* Boosting and cleaning keep the order a sequence of jobs.
LEMMA OrderTyped ==
  ASSUME order \in Seq(Jobs), NEW j \in Jobs
  PROVE  NotFirst(j) \in Seq(Jobs) /\ First(j) \in Seq(Jobs)
<1>1. NotFirst(j) \in Seq(Jobs)
  <2>1. CASE \A i \in DOMAIN order : order[i] # j
    <3>1. NotFirst(j) = order
      BY <2>1, Zenon DEF NotFirst
    <3> QED
      BY <3>1
  <2>2. CASE \E i \in DOMAIN order : order[i] = j
    <3> DEFINE at == CHOOSE i \in DOMAIN order : order[i] = j
    <3>1. at \in 1 .. Len(order)
      BY <2>2
    <3>2. /\ SubSeq(order, 1, at - 1) \in Seq(Jobs)
          /\ SubSeq(order, at + 1, Len(order)) \in Seq(Jobs)
      <4> HIDE DEF at
      <4> QED
        BY <3>1, SubSeqProperties
    <3>3. NotFirst(j) = SubSeq(order, 1, at - 1)
                          \o SubSeq(order, at + 1, Len(order))
      BY <2>2 DEF NotFirst
    <3> QED
      BY <3>2, <3>3
  <2> QED
    BY <2>1, <2>2
<1> QED
  BY <1>1 DEF First

SlotType ==
  [pc : {"idle", "left", "plan", "start", "read", "build", "admit", "verify",
         "apply", "complete", "finish", "succeed", "fail", "stop"},
   job : Jobs \cup {None},
   target : Targets \cup {None},
   step : Targets \cup {None},
   revision : 0 .. MaxRevision,
   artifact : {"kept", "reset"}]

WorkerType == {"off", "wiping", "acquiring", "active", "stopping", "gone", "dead"}

ChapterType ==
  [source : BOOLEAN, revision : 0 .. MaxRevision, built : SUBSET Targets]

EditType == [kind : Edits \cup {"none"}, passed : 0 .. 2]

LeaseType == [owner : Workers \cup {None}, fresh : BOOLEAN]

\* Who works has claimed a job, and who has started a step knows which.
Working ==
  \A s \in Slots :
    /\ slot[s].pc \notin {"idle", "left"} =>
         slot[s].job \in Jobs /\ slot[s].target \in Targets
    /\ slot[s].pc \in {"start", "read", "build", "admit", "verify", "apply",
                       "complete"}
         => slot[s].step \in Targets

\* The types of everything but the rows, which QueueInv has.
WorkerTypes ==
  /\ order \in Seq(Jobs)
  /\ lease \in LeaseType
  /\ worker \in [Workers -> WorkerType]
  /\ slot \in [Slots -> SlotType]
  /\ chapter \in ChapterType
  /\ editor \in EditType
  /\ Working

TypeInv == QueueInv /\ WorkerTypes

LEMMA TypesOfAll == TypeInv => TypeOK
BY DEF TypeInv, QueueInv, RowTypes, WorkerTypes, TypeOK, QueueTypeOK, SlotType,
       WorkerType, ChapterType, LeaseType, EditType

\* An execution that goes on to another label.
LEMMA GotoTyped ==
  ASSUME WorkerTypes, NEW s \in Slots, slot[s].pc \notin {"idle", "left"},
         NEW label \in {"read", "build", "admit", "verify", "apply", "complete",
                        "plan", "finish", "succeed", "fail", "stop"},
         label \in {"read", "build", "admit", "verify", "apply", "complete"} =>
           slot[s].step \in Targets,
         Goto(s, label)
  PROVE  slot' \in [Slots -> SlotType] /\ Working'
BY DEF WorkerTypes, Goto, Working, SlotType

\* An execution that also has an artifact now, or has chosen a step.
LEMMA ArtifactTyped ==
  ASSUME NEW old \in SlotType, NEW kept \in {"kept", "reset"},
         NEW label \in {"start", "complete", "finish", "fail"},
         NEW chosen \in Targets \cup {None}
  PROVE  /\ [old EXCEPT !.artifact = kept] \in SlotType
         /\ [old EXCEPT !.pc = label, !.artifact = kept] \in SlotType
         /\ [old EXCEPT !.pc = label, !.step = chosen, !.artifact = kept]
              \in SlotType
<1>1. [old EXCEPT !.artifact = kept] \in SlotType
  BY DEF SlotType
<1>2. [old EXCEPT !.pc = label, !.artifact = kept] \in SlotType
  <2>1. [old EXCEPT !.pc = label] \in SlotType
    BY DEF SlotType
  <2> QED
    BY <2>1 DEF SlotType
<1>3. [old EXCEPT !.pc = label, !.step = chosen, !.artifact = kept] \in SlotType
  <2>1. [old EXCEPT !.pc = label, !.step = chosen] \in SlotType
    BY DEF SlotType
  <2> QED
    BY <2>1 DEF SlotType
<1> QED
  BY <1>1, <1>2, <1>3

\* A step that replaces one execution.
LEMMA ReplacedTyped ==
  ASSUME WorkerTypes, NEW s \in Slots, NEW new \in SlotType,
         slot' = [slot EXCEPT ![s] = new],
         new.pc \notin {"idle", "left"} =>
           new.job \in Jobs /\ new.target \in Targets,
         new.pc \in {"start", "read", "build", "admit", "verify", "apply",
                    "complete"} => new.step \in Targets
  PROVE  slot' \in [Slots -> SlotType] /\ Working'
BY DEF WorkerTypes, Working

\* A slot that becomes free.
LEMMA IdleTyped ==
  ASSUME WorkerTypes
  PROVE  Idle \in SlotType
BY WorkerAssumption DEF Idle, SlotType

LEMMA ConcludeTyped ==
  ASSUME WorkerTypes, NEW s \in Slots, slot' = [slot EXCEPT ![s] = Idle]
  PROVE  slot' \in [Slots -> SlotType] /\ Working'
BY IdleTyped DEF WorkerTypes, Working, Idle

LEMMA StepPreservesTypes == TypeInv /\ [Next]_vars => WorkerTypes'
<1> SUFFICES ASSUME TypeInv, [Next]_vars PROVE WorkerTypes'
  OBVIOUS
<1>0. WorkerTypes /\ QueueInv
  BY DEF TypeInv
<1>1. CASE Client
  <2>1. UNCHANGED <<lease, worker, slot, chapter, editor>>
    BY <1>1 DEF Client, ClientStep, RetargetStep, RecoverStaleBuildJobs, InsertJob,
         MergeJob, PauseBuildJob, ResumeBuildJob, CancelBuildJob, BoostBuildJob,
         UpdateBuildJobTarget, CleanBuildJob
  <2>2. order' \in Seq(Jobs)
    <3>1. \/ order' = order
          \/ \E j \in Jobs : \/ order' = First(j)
                             \/ order' = NotFirst(j)
                             \/ order' = Append(order, j)
      <4>1. CASE ClientStep
        BY <4>1 DEF ClientStep, RecoverStaleBuildJobs, InsertJob,
             PauseBuildJob, ResumeBuildJob, CancelBuildJob, BoostBuildJob,
             CleanBuildJob
      <4>2. CASE RetargetStep
        <5>1. ASSUME NEW target \in Targets, NEW boost \in BOOLEAN,
                     MergeJob(target, boost)
              PROVE  order' = order \/ \E j \in Jobs : order' = First(j)
          BY <5>1 DEF MergeJob, ActiveInLane
        <5> QED
          BY <4>2, <5>1 DEF RetargetStep, UpdateBuildJobTarget
      <4> QED
        BY <1>1, <4>1, <4>2 DEF Client
    <3>2. order \in Seq(Jobs)
      BY <1>0 DEF WorkerTypes
    <3>3. \A j \in Jobs : Append(order, j) \in Seq(Jobs)
      BY <3>2
    <3> QED
      BY <3>1, <3>2, <3>3, OrderTyped, Zenon
  <2> QED
    BY <1>0, <2>1, <2>2 DEF WorkerTypes, Working
<1>2. ASSUME NEW w \in Workers,
             \/ StartWorker(w) \/ Lease(w) \/ StopWorker(w)
             \/ ReleaseBuildWorkerLease(w)
      PROVE  WorkerTypes'
  <2>1. UNCHANGED <<order, chapter, editor>>
    BY <1>2 DEF Lease, StartWorker, RecoverStaleBuildWorkerLease,
         AcquireBuildWorkerLease, HeartbeatBuildWorker, StopWorker,
         ReleaseBuildWorkerLease, queue
  <2>0. slot' \in [Slots -> SlotType] /\ Working'
    <3>1. CASE slot' = slot
      BY <1>0, <3>1 DEF WorkerTypes, Working
    <3>2. CASE ReleaseBuildWorkerLease(w)
      BY <1>0, <3>2, IdleTyped
         DEF ReleaseBuildWorkerLease, WorkerTypes, Working, Idle
    <3> QED
      BY <1>2, <3>1, <3>2 DEF Lease, StartWorker, RecoverStaleBuildWorkerLease,
           AcquireBuildWorkerLease, HeartbeatBuildWorker, StopWorker
  <2>2. worker' \in [Workers -> WorkerType]
    <3>1. worker' = worker \/ \E label \in WorkerType : SetWorker(w, label)
      BY <1>2 DEF Lease, StartWorker, RecoverStaleBuildWorkerLease,
           AcquireBuildWorkerLease, HeartbeatBuildWorker, StopWorker,
           ReleaseBuildWorkerLease, WorkerType
    <3> QED
      BY <1>0, <3>1 DEF SetWorker, WorkerTypes
  <2>3. lease' \in LeaseType
    <3>1. \/ lease' = lease \/ lease' = NoLease
          \/ lease' = [owner |-> w, fresh |-> TRUE]
          \/ lease' = [lease EXCEPT !.fresh = TRUE]
      <4>1. CASE StartWorker(w) \/ StopWorker(w)
        BY <4>1 DEF StartWorker, StopWorker, queue
      <4>2. CASE HeartbeatBuildWorker(w)
        BY <4>2, Zenon DEF HeartbeatBuildWorker
      <4>3. CASE \/ RecoverStaleBuildWorkerLease(w) \/ AcquireBuildWorkerLease(w)
                 \/ ReleaseBuildWorkerLease(w)
        BY <4>3 DEF RecoverStaleBuildWorkerLease, AcquireBuildWorkerLease,
             ReleaseBuildWorkerLease
      <4> QED
        BY <1>2, <4>1, <4>2, <4>3 DEF Lease
    <3>2. NoLease \in LeaseType /\ [owner |-> w, fresh |-> TRUE] \in LeaseType
      BY DEF NoLease, LeaseType
    <3>3. lease \in LeaseType
      BY <1>0 DEF WorkerTypes
    <3>4. [lease EXCEPT !.fresh = TRUE] \in LeaseType
      BY <3>3 DEF LeaseType
    <3> QED
      BY <3>1, <3>2, <3>3, <3>4, Zenon
  <2> QED
    BY <1>0, <2>0, <2>1, <2>2, <2>3 DEF WorkerTypes
<1>3. ASSUME NEW w \in Workers, CrashWorker(w) PROVE WorkerTypes'
  <2>1. slot' \in [Slots -> SlotType] /\ Working'
    BY <1>0, <1>3, IdleTyped DEF CrashWorker, WorkerTypes, Working, Idle
  <2>2. worker' \in [Workers -> WorkerType]
    BY <1>0, <1>3 DEF CrashWorker, SetWorker, WorkerTypes, WorkerType
  <2> QED
    BY <1>0, <1>3, <2>1, <2>2 DEF CrashWorker, WorkerTypes, queue
<1>4. CASE LeaseGoesStale
  BY <1>0, <1>4 DEF LeaseGoesStale, WorkerTypes, LeaseType, Working
<1>5. CASE Edit
  <2>0. chapter \in ChapterType /\ editor \in EditType /\ NoEdit \in EditType
    BY <1>0 DEF WorkerTypes, EditType, NoEdit
  <2>1. ASSUME NEW kind \in Edits, AssertNoActiveBuildJobs(kind)
        PROVE  WorkerTypes'
    <3>1. editor.passed \in 0 .. 1
      BY <2>0, <2>1, WorkerAssumption
         DEF AssertNoActiveBuildJobs, EditType, NoEdit, Checks
    <3>2. editor' \in EditType
      BY <2>0, <2>1, <3>1 DEF AssertNoActiveBuildJobs, EditType
    <3> QED
      BY <1>0, <2>1, <3>2 DEF AssertNoActiveBuildJobs, WorkerTypes, Working
  <2>2. CASE ResetChapter
    <3>1. chapter' \in ChapterType
      <4>1. ASSUME chapter.revision < MaxRevision
            PROVE  chapter.revision + 1 \in 0 .. MaxRevision
        BY <2>0, <4>1, WorkerAssumption DEF ChapterType
      <4>2. CASE /\ chapter.revision < MaxRevision
                 /\ chapter' = [source |-> FALSE, built |-> {},
                               revision |-> chapter.revision + 1]
        BY <4>1, <4>2 DEF ChapterType
      <4>3. CASE chapter' = [chapter EXCEPT !.built = {}]
        BY <2>0, <4>3 DEF ChapterType
      <4>4. CASE chapter' =
              [chapter EXCEPT !.built = @ \ {"reading-summary"}]
        BY <2>0, <4>4 DEF ChapterType
      <4> QED
        BY <2>2, <4>2, <4>3, <4>4 DEF ResetChapter
    <3>2. slot' \in [Slots -> SlotType] /\ Working'
      <4>1. ASSUME NEW s \in Slots
            PROVE  /\ slot'[s] \in SlotType
                   /\ slot'[s].pc = slot[s].pc /\ slot'[s].job = slot[s].job
                   /\ slot'[s].target = slot[s].target
                   /\ slot'[s].step = slot[s].step
        <5>1. PICK kept \in {"kept", "reset"} :
                slot'[s] = [slot[s] EXCEPT !.artifact = kept]
          BY <2>2 DEF ResetChapter
        <5>2. slot[s] \in SlotType
          BY <1>0 DEF WorkerTypes
        <5>3. slot'[s] \in SlotType
          BY <5>1, <5>2, ArtifactTyped
        <5>4. /\ slot'[s].pc = slot[s].pc /\ slot'[s].job = slot[s].job
              /\ slot'[s].target = slot[s].target
              /\ slot'[s].step = slot[s].step
          BY <5>1, <5>2 DEF SlotType
        <5> QED
          BY <5>3, <5>4
      <4>2. slot' \in [Slots -> SlotType]
        BY <2>2, <4>1 DEF ResetChapter
      <4> QED
        BY <1>0, <4>1, <4>2 DEF WorkerTypes, Working
    <3> QED
      BY <1>0, <2>0, <2>2, <3>1, <3>2 DEF ResetChapter, WorkerTypes, queue
  <2>3. CASE SetChapterSource
    BY <1>0, <2>0, <2>3
       DEF SetChapterSource, WorkerTypes, Working, queue, ChapterType
  <2> QED
    BY <1>5, <2>1, <2>2, <2>3 DEF Edit
<1>6. ASSUME NEW s \in Slots, Execute(s) \/ FailBuild(s) PROVE WorkerTypes'
  <2>1. UNCHANGED <<order, lease, worker, editor>>
    BY <1>6 DEF Execute, ClaimQueuedBuildJob, LeaveQueue, PollBuildQueue,
         RecoverStaleBuildJobs, PlanStep, StepStarted, ReadInput, Build,
         AssertJobStillRunning, VerifyRevision, ApplyArtifact, StepCompleted,
         LastStopCheck, MarkBuildJobSucceeded, MarkBuildJobFailed,
         MarkBuildJobStopped, Conclude, FailBuild, queue
  <2>2. chapter' \in ChapterType
    <3>1. chapter \in ChapterType
      BY <1>0 DEF WorkerTypes
    <3>2. CASE ApplyArtifact(s)
      <4>1. slot[s].step \in Targets
        BY <1>0, <3>2 DEF ApplyArtifact, WorkerTypes, Working
      <4> QED
        BY <3>1, <3>2, <4>1 DEF ApplyArtifact, ChapterType
    <3>3. CASE ~ApplyArtifact(s)
      BY <1>6, <3>1, <3>3 DEF Execute, ClaimQueuedBuildJob, LeaveQueue, PollBuildQueue,
           PlanStep, StepStarted, ReadInput, Build,
           AssertJobStillRunning, VerifyRevision, StepCompleted,
           LastStopCheck, MarkBuildJobSucceeded, MarkBuildJobFailed,
           MarkBuildJobStopped, Conclude, FailBuild
    <3> QED
      BY <3>2, <3>3
  <2>3. slot' \in [Slots -> SlotType] /\ Working'
    <3>1. CASE ClaimQueuedBuildJob(s)
      <4>1. PICK i \in DOMAIN order :
              LET j == order[i]
              IN  slot' = [slot EXCEPT ![s] = [Idle EXCEPT !.pc = "plan",
                             !.job = j, !.target = Recovered[j].target]]
        BY <3>1 DEF ClaimQueuedBuildJob
      <4>2. order[i] \in Jobs
        BY <1>0 DEF WorkerTypes
      <4>3. Recovered[order[i]].target \in Targets
        BY <1>0, <4>2, RecoveryDeactivates DEF JobRow
      <4> QED
        BY <1>0, <4>1, <4>2, <4>3, IdleTyped
           DEF WorkerTypes, Working, SlotType, Idle
    <3>2. CASE PollBuildQueue(s)
      BY <1>0, <3>2 DEF PollBuildQueue, WorkerTypes, Working
    <3>14. CASE LeaveQueue(s)
      <4> DEFINE new == [slot[s] EXCEPT !.pc = "left"]
      <4>1. slot' = [slot EXCEPT ![s] = new]
        BY <3>14 DEF LeaveQueue, Goto
      <4>2. slot[s] \in SlotType
        BY <1>0 DEF WorkerTypes
      <4>3. new \in SlotType /\ new.pc = "left"
        BY <4>2 DEF SlotType
      <4> HIDE DEF new
      <4> QED
        BY <1>0, <4>1, <4>3, ReplacedTyped
    <3>3. CASE PlanStep(s)
      <4>1. slot[s].target \in Targets
        BY <1>0, <3>3 DEF PlanStep, WorkerTypes, Working
      <4>2. NextStep(s) \in Targets \cup {"fail", "finish"}
        BY <4>1 DEF NextStep, Targets, Stage
      <4>0. /\ slot[s] \in SlotType /\ slot[s].job \in Jobs /\ "fail" \notin Targets
            /\ "finish" \notin Targets
        BY <1>0, <3>3 DEF PlanStep, WorkerTypes, Working, Targets
      <4>3. CASE NextStep(s) \in {"fail", "finish"}
        <5> DEFINE new == [slot[s] EXCEPT !.pc = NextStep(s), !.artifact = "kept"]
        <5>1. slot' = [slot EXCEPT ![s] = new]
          BY <3>3, <4>3 DEF PlanStep
        <5>2. new \in SlotType
          BY <4>0, <4>3, ArtifactTyped
        <5>3. new.pc = NextStep(s) /\ new.job \in Jobs /\ new.target \in Targets
          BY <4>0, <4>1 DEF SlotType
        <5> HIDE DEF new
        <5> QED
          BY <1>0, <4>3, <5>1, <5>2, <5>3, ReplacedTyped
      <4>4. CASE NextStep(s) \in Targets
        <5> DEFINE new == [slot[s] EXCEPT !.pc = "start", !.step = NextStep(s),
                                          !.artifact = "kept"]
        <5>1. slot' = [slot EXCEPT ![s] = new]
          BY <3>3, <4>0, <4>4 DEF PlanStep
        <5>2. new \in SlotType
          BY <4>0, <4>4, ArtifactTyped
        <5>3. new.step \in Targets /\ new.job \in Jobs /\ new.target \in Targets
          BY <4>0, <4>1, <4>4 DEF SlotType
        <5> HIDE DEF new
        <5> QED
          BY <1>0, <5>1, <5>2, <5>3, ReplacedTyped
      <4> QED
        BY <4>2, <4>3, <4>4
    <3>4. CASE StepStarted(s)
      BY <1>0, <3>4, GotoTyped DEF StepStarted, WorkerTypes, Working
    <3>5. CASE ReadInput(s)
      <4> DEFINE reading == [slot[s] EXCEPT !.pc = "build",
                                            !.revision = chapter.revision]
      <4>1. slot[s] \in SlotType /\ chapter.revision \in 0 .. MaxRevision
        BY <1>0 DEF WorkerTypes, ChapterType
      <4>2. /\ reading \in SlotType
            /\ reading.job = slot[s].job /\ reading.target = slot[s].target
            /\ reading.step = slot[s].step
        BY <4>1 DEF SlotType
      <4>3. slot' = [slot EXCEPT ![s] = reading] /\ slot[s].pc = "read"
        BY <3>5 DEF ReadInput
      <4> QED
        BY <1>0, <4>2, <4>3 DEF WorkerTypes, Working
    <3>6. CASE Build(s)
      BY <1>0, <3>6, GotoTyped DEF Build, WorkerTypes, Working
    <3>7. CASE AssertJobStillRunning(s)
      BY <1>0, <3>7, GotoTyped DEF AssertJobStillRunning, WorkerTypes, Working
    <3>8. CASE VerifyRevision(s)
      BY <1>0, <3>8, GotoTyped DEF VerifyRevision, WorkerTypes, Working
    <3>9. CASE ApplyArtifact(s)
      <4>0. slot[s] \in SlotType
        BY <1>0 DEF WorkerTypes
      <4>1. slot[s].step \in Targets
        BY <1>0, <3>9 DEF ApplyArtifact, WorkerTypes, Working
      <4>2. PICK l \in {"complete", "fail"} :
              slot' = [slot EXCEPT ![s] = [@ EXCEPT !.pc = l, !.artifact = "kept"]]
        BY <3>9 DEF ApplyArtifact
      <4>3. slot[s].job \in Jobs /\ slot[s].target \in Targets
        BY <1>0, <3>9 DEF ApplyArtifact, WorkerTypes, Working
      <4> DEFINE new == [slot[s] EXCEPT !.pc = l, !.artifact = "kept"]
      <4>4. new \in SlotType
        BY <1>0, ArtifactTyped DEF WorkerTypes
      <4>5. new.job \in Jobs /\ new.target \in Targets /\ new.step \in Targets
        BY <1>0, <4>1, <4>3 DEF WorkerTypes, SlotType
      <4>6. slot' = [slot EXCEPT ![s] = new]
        BY <4>2
      <4> HIDE DEF new
      <4> QED
        BY <1>0, <4>4, <4>5, <4>6, ReplacedTyped
    <3>10. CASE StepCompleted(s)
      <4>1. Goto(s, "stop") \/ Goto(s, "plan") \/ Goto(s, "finish")
        BY <3>10 DEF StepCompleted
      <4> QED
        BY <1>0, <3>10, <4>1, GotoTyped DEF StepCompleted
    <3>11. CASE LastStopCheck(s)
      BY <1>0, <3>11, GotoTyped DEF LastStopCheck
    <3>12. CASE FailBuild(s)
      BY <1>0, <3>12, GotoTyped DEF FailBuild
    <3>13. CASE \/ MarkBuildJobSucceeded(s) \/ MarkBuildJobFailed(s)
                \/ MarkBuildJobStopped(s)
      BY <1>0, <3>13, ConcludeTyped
         DEF MarkBuildJobSucceeded, MarkBuildJobFailed, MarkBuildJobStopped,
             Conclude
    <3> QED
      BY <1>6, <3>1, <3>2, <3>3, <3>4, <3>5, <3>6, <3>7, <3>8, <3>9, <3>10,
         <3>11, <3>12, <3>13, <3>14 DEF Execute
  <2> QED
    BY <1>0, <2>1, <2>2, <2>3 DEF WorkerTypes
<1>7. CASE UNCHANGED vars
  BY <1>0, <1>7 DEF vars, queue, WorkerTypes, Working
<1> QED
  BY <1>1, <1>2, <1>3, <1>4, <1>5, <1>6, <1>7 DEF Next

LEMMA TypeInvariance == Spec => []TypeInv
<1>1. Init => TypeInv
  BY QueueInitEstablishes, WorkerAssumption
     DEF Init, QueueInit, TypeInv, WorkerTypes, Working, SlotType, Idle,
         WorkerType, ChapterType, LeaseType, NoLease,
           EditType, NoEdit
<1>2. TypeInv /\ [Next]_vars => TypeInv'
  BY StepPreservesRows, StepPreservesTypes DEF TypeInv, StepOK
<1> QED
  BY <1>1, <1>2, PTL DEF Spec

\* Every variable keeps its type.
THEOREM WorkerTypesTheorem == Spec => []TypeOK
BY TypeInvariance, TypesOfAll, PTL

-----------------------------------------------------------------------------
(* Running rows are executed *)

\* An execution that has not given up.
WorksOn(s, j) == slot[s].pc \notin {"idle", "left", "stop"} /\ slot[s].job = j

\* The invariant: a running row of a live worker is worked on, also when older
\* executions of it wait to stop; a running row has an owner; and who is not yet
\* active owns nothing.
RowExecuted(j) ==
  job[j].state = "running" =>
    /\ job[j].owner # None
    /\ worker[job[j].owner] = "active" =>
         \E s \in SlotsOf(job[j].owner) : WorksOn(s, j)

NewcomersOwnNothing ==
  \A w \in Workers : worker[w] \in {"off", "wiping", "acquiring"} =>
    \A j \in Jobs : job[j].owner # w

RunInv == TypeInv /\ NewcomersOwnNothing /\ \A j \in Jobs : RowExecuted(j)

\* Recovery takes rows from owners and gives none.
LEMMA RecoveryDisowns ==
  ASSUME TypeInv, NEW j \in Jobs
  PROVE  /\ Recovered[j].owner \in {job[j].owner, None}
         /\ Recovered[j].state = "running" => Recovered[j] = job[j]
BY DEF TypeInv, QueueInv, RowTypes, Recovered, Abandoned, JobRow, Active, Terminal

\* A step that leaves workers and slots alone and lets nothing run.
Yields(rows) ==
  \A j \in Jobs : /\ rows[j].owner \in {job[j].owner, None}
                  /\ rows[j].state = "running" =>
                       job[j].state = "running" /\ rows[j].owner = job[j].owner

\* Such a step keeps rows executed as long as it takes nobody's work away.
LEMMA YieldingKeeps ==
  ASSUME RunInv, Yields(job'), UNCHANGED worker,
         \A s \in Slots : slot'[s].pc = slot[s].pc /\ slot'[s].job = slot[s].job
  PROVE  NewcomersOwnNothing' /\ \A j \in Jobs : RowExecuted(j)'
<1>1. NewcomersOwnNothing'
  BY QueueAssumption DEF RunInv, NewcomersOwnNothing, Yields
<1>2. ASSUME NEW j \in Jobs PROVE RowExecuted(j)'
  BY DEF RunInv, RowExecuted, Yields, SlotsOf, WorksOn
<1> QED
  BY <1>1, <1>2

\* The same for a step of one execution, which keeps working on its row unless
\* the row does not run for its worker.
LEMMA ExecutionKeeps ==
  ASSUME RunInv, Yields(job'), UNCHANGED worker, NEW s \in Slots,
         \A t \in Slots \ {s} : slot'[t] = slot[t],
         \/ WorksOn(s, slot[s].job)' /\ slot'[s].job = slot[s].job
         \/ ~WorksOn(s, slot[s].job)
         \/ /\ job'[slot[s].job].state = "running"
            /\ job'[slot[s].job].owner = WorkerOf[s]
            => worker[WorkerOf[s]] # "active"
  PROVE  NewcomersOwnNothing' /\ \A j \in Jobs : RowExecuted(j)'
<1>1. NewcomersOwnNothing'
  BY QueueAssumption DEF RunInv, NewcomersOwnNothing, Yields
<1>2. ASSUME NEW j \in Jobs PROVE RowExecuted(j)'
  <2> SUFFICES ASSUME job'[j].state = "running", worker[job'[j].owner] = "active"
               PROVE  job'[j].owner # None /\ \E t \in SlotsOf(job'[j].owner) : WorksOn(t, j)'
    BY DEF RunInv, RowExecuted, Yields, SlotsOf
  <2>1. /\ job[j].state = "running" /\ job'[j].owner = job[j].owner
        /\ job[j].owner # None
    BY DEF RunInv, RowExecuted, Yields
  <2>2. PICK t \in SlotsOf(job[j].owner) : WorksOn(t, j)
    BY <2>1 DEF RunInv, RowExecuted
  <2>3. t \in Slots /\ WorkerOf[t] = job[j].owner
    BY <2>2 DEF SlotsOf
  <2>4. WorksOn(t, j)'
    <3>1. CASE t # s
      BY <2>2, <2>3, <3>1 DEF WorksOn
    <3>2. CASE t = s
      BY <2>1, <2>2, <2>3, <3>2 DEF WorksOn
    <3> QED
      BY <3>1, <3>2
  <2> QED
    BY <2>1, <2>2, <2>4 DEF SlotsOf
<1> QED
  BY <1>1, <1>2

LEMMA StepKeepsExecuted ==
  RunInv /\ [Next]_vars => NewcomersOwnNothing' /\ \A j \in Jobs : RowExecuted(j)'
<1> SUFFICES ASSUME RunInv, [Next]_vars
             PROVE  NewcomersOwnNothing' /\ \A j \in Jobs : RowExecuted(j)'
  OBVIOUS
<1>0. /\ TypeInv /\ WorkerTypes /\ QueueInv /\ job \in [Jobs -> JobRow]
      /\ slot \in [Slots -> SlotType] /\ worker \in [Workers -> WorkerType]
  BY DEF RunInv, TypeInv, WorkerTypes, QueueInv, RowTypes
<1>r. /\ Yields(Recovered) /\ Yields(job)
      /\ Recovered \in [Jobs -> JobRow]
  BY <1>0, RecoveryDisowns, RecoveryDeactivates DEF Yields
<1>1. CASE Client
  <2>1. UNCHANGED <<worker, slot>>
    BY <1>1 DEF Client
  <2>2. Yields(job')
    <3>1. ASSUME NEW j \in Jobs, NEW target \in Targets, NEW boost \in BOOLEAN,
                 InsertJob(j, target, boost)
          PROVE  Yields(job')
      BY <1>0, <1>r, <3>1 DEF InsertJob, Yields
    <3>2. ASSUME NEW j \in Jobs,
                 \/ RecoverStaleBuildJobs \/ BoostBuildJob(j)
          PROVE  Yields(job')
      BY <1>r, <3>2 DEF RecoverStaleBuildJobs, BoostBuildJob
    <3>3. ASSUME NEW j \in Jobs, NEW state \in Active \cup Terminal,
                 state # "running",
                 \/ job' = [Recovered EXCEPT ![j].state = state]
                 \/ job' = [Recovered EXCEPT ![j].state = state, ![j].owner = None]
          PROVE  Yields(job')
      BY <1>r, <3>3 DEF Yields, JobRow
    <3>4. ASSUME NEW j \in Jobs, CleanBuildJob(j) PROVE Yields(job')
      BY <1>0, <3>4 DEF CleanBuildJob, Yields, JobRow
    <3>5. ASSUME NEW j \in Jobs,
                 PauseBuildJob(j) \/ ResumeBuildJob(j) \/ CancelBuildJob(j)
          PROVE  Yields(job')
      <4>1. {"paused", "queued", "canceling", "canceled"}
               \subseteq Active \cup Terminal
        BY DEF Active, Terminal
      <4> QED
        BY <3>3, <3>5, <4>1 DEF PauseBuildJob, ResumeBuildJob, CancelBuildJob
    <3>6. ASSUME NEW j \in Jobs, NEW new,
                 job' = [Recovered EXCEPT ![j].target = new]
          PROVE  Yields(job')
      BY <1>r, <3>6 DEF Yields, JobRow
    <3>7. ASSUME RetargetStep PROVE Yields(job')
      <4>1. ASSUME NEW target \in Targets, NEW boost \in BOOLEAN,
                   MergeJob(target, boost)
            PROVE  Yields(job')
        <5>1. PICK k \in Jobs :
                job' = [Recovered EXCEPT ![k].target =
                          IF @ = "reading-graph" /\ target = "reading-summary"
                            THEN target ELSE @]
          BY <4>1 DEF MergeJob, ActiveInLane
        <5> QED
          BY <5>1, <3>6
      <4>2. ASSUME NEW j \in Jobs, NEW target \in Targets,
                   UpdateBuildJobTarget(j, target)
            PROVE  Yields(job')
        BY <4>2, <3>6 DEF UpdateBuildJobTarget
      <4> QED
        BY <3>7, <4>1, <4>2 DEF RetargetStep
    <3> QED
      BY <1>1, <1>r, <3>1, <3>2, <3>4, <3>5, <3>7
         DEF Client, ClientStep, RecoverStaleBuildJobs
  <2> QED
    BY <2>1, <2>2, YieldingKeeps
<1>2. CASE Edit \/ LeaseGoesStale \/ UNCHANGED vars
  <2>1. /\ job' = job \/ job' = Recovered
        /\ worker' = worker
        /\ slot' = slot \/ ResetChapter
    BY <1>2 DEF Edit, AssertNoActiveBuildJobs, ResetChapter, SetChapterSource,
         LeaseGoesStale, vars, queue
  <2>2. \A s \in Slots : slot'[s].pc = slot[s].pc /\ slot'[s].job = slot[s].job
    BY <1>0, <2>1 DEF ResetChapter, SlotType
  <2> QED
    BY <1>r, <2>1, <2>2, YieldingKeeps
<1>3. ASSUME NEW w \in Workers,
             \/ StartWorker(w) \/ Lease(w) \/ StopWorker(w)
             \/ ReleaseBuildWorkerLease(w)
             \/ CrashWorker(w)
      PROVE  NewcomersOwnNothing' /\ \A j \in Jobs : RowExecuted(j)'
  <2>1. /\ job' = job \/ job' = Recovered
        /\ \A v \in Workers \ {w} : worker'[v] = worker[v]
        /\ \A s \in Slots : WorkerOf[s] # w => slot'[s] = slot[s]
        /\ worker'[w] = "active" =>
             \/ worker[w] = "active" /\ slot' = slot
             \/ worker[w] = "acquiring"
        /\ worker'[w] \in {"off", "wiping", "acquiring"} =>
             worker[w] \in {"off", "wiping", "acquiring"}
    <3>1. CASE StartWorker(w)
      BY <1>0, <3>1 DEF StartWorker, SetWorker, queue, WorkerType
    <3>2. CASE \/ RecoverStaleBuildWorkerLease(w) \/ AcquireBuildWorkerLease(w)
               \/ HeartbeatBuildWorker(w)
      BY <1>0, <3>2 DEF RecoverStaleBuildWorkerLease, AcquireBuildWorkerLease,
           HeartbeatBuildWorker, SetWorker
    <3>3. CASE StopWorker(w) \/ ReleaseBuildWorkerLease(w)
      BY <1>0, <3>3 DEF StopWorker, ReleaseBuildWorkerLease, SetWorker, queue
    <3>4. CASE CrashWorker(w)
      BY <1>0, <3>4 DEF CrashWorker, SetWorker, queue
    <3> QED
      BY <1>3, <3>1, <3>2, <3>3, <3>4 DEF Lease
  <2>2. Yields(job')
    BY <1>r, <2>1
  <2>3. NewcomersOwnNothing'
    <3> SUFFICES ASSUME NEW v \in Workers,
                        worker'[v] \in {"off", "wiping", "acquiring"},
                        NEW j \in Jobs
                 PROVE  job'[j].owner # v
      BY DEF NewcomersOwnNothing
    <3> QED
      BY <2>1, <2>2, QueueAssumption DEF RunInv, NewcomersOwnNothing, Yields
  <2>4. ASSUME NEW j \in Jobs PROVE RowExecuted(j)'
    <3> SUFFICES ASSUME job'[j].state = "running"
                 PROVE  /\ job'[j].owner # None
                        /\ worker'[job'[j].owner] = "active" =>
                             \E s \in SlotsOf(job'[j].owner) : WorksOn(s, j)'
      BY DEF RowExecuted, SlotsOf
    <3> DEFINE o == job[j].owner
    <3>1. job[j].state = "running" /\ job'[j].owner = o /\ o # None /\ o \in Workers
      BY <1>0, <2>2 DEF Yields, RunInv, RowExecuted, JobRow
    <3>2. ASSUME worker'[o] = "active" PROVE \E s \in SlotsOf(o) : WorksOn(s, j)'
      <4>1. worker[o] = "active" /\ (o = w => slot' = slot)
        BY <2>1, <3>1, <3>2 DEF RunInv, NewcomersOwnNothing
      <4>2. PICK s \in SlotsOf(o) : WorksOn(s, j)
        BY <3>1, <4>1 DEF RunInv, RowExecuted
      <4>3. slot'[s] = slot[s]
        BY <2>1, <4>1, <4>2 DEF SlotsOf
      <4> QED
        BY <4>2, <4>3 DEF WorksOn
    <3> QED
      BY <3>1, <3>2
  <2> QED
    BY <2>3, <2>4
<1>4. ASSUME NEW s \in Slots, Execute(s) \/ FailBuild(s)
      PROVE  NewcomersOwnNothing' /\ \A j \in Jobs : RowExecuted(j)'
  <2>0. UNCHANGED worker /\ WorkerOf[s] \in Workers
    BY <1>4, WorkerAssumption
       DEF Execute, ClaimQueuedBuildJob, LeaveQueue, PollBuildQueue, PlanStep, StepStarted,
         ReadInput, Build, AssertJobStillRunning, VerifyRevision, ApplyArtifact,
         StepCompleted, LastStopCheck, MarkBuildJobSucceeded, MarkBuildJobFailed,
         MarkBuildJobStopped, Conclude, FailBuild
  <2>1. CASE ClaimQueuedBuildJob(s)
    <3>1. PICK j \in Jobs :
            /\ job' = [Recovered EXCEPT ![j].state = "running",
                                        ![j].owner = WorkerOf[s]]
            /\ slot' = [slot EXCEPT ![s] = [Idle EXCEPT !.pc = "plan",
                             !.job = j, !.target = Recovered[j].target]]
      <4>1. \A i \in DOMAIN order : order[i] \in Jobs
        BY <1>0 DEF WorkerTypes
      <4> QED
        BY <2>1, <4>1, Zenon DEF ClaimQueuedBuildJob
    <3>3. slot[s].pc = "idle" /\ worker[WorkerOf[s]] = "active"
      BY <2>1 DEF ClaimQueuedBuildJob
    <3>4. /\ job'[j].state = "running" /\ job'[j].owner = WorkerOf[s]
          /\ \A k \in Jobs \ {j} : job'[k] = Recovered[k]
      BY <1>r, <3>1 DEF JobRow
    <3>5. /\ slot'[s].pc = "plan" /\ slot'[s].job = j
          /\ \A t \in Slots \ {s} : slot'[t] = slot[t]
      BY <1>0, <3>1 DEF Idle
    <3>6. NewcomersOwnNothing'
      BY <1>r, <2>0, <3>3, <3>4, QueueAssumption
         DEF RunInv, NewcomersOwnNothing, Yields
    <3>7. RowExecuted(j)'
      <4>1. s \in SlotsOf(job'[j].owner) /\ WorksOn(s, j)'
        BY <3>4, <3>5 DEF SlotsOf, WorksOn
      <4>2. job'[j].owner # None
        BY <2>0, <3>4, QueueAssumption
      <4> QED
        BY <4>1, <4>2 DEF RowExecuted, SlotsOf
    <3>8. ASSUME NEW k \in Jobs \ {j} PROVE RowExecuted(k)'
      <4> SUFFICES ASSUME job'[k].state = "running"
                   PROVE  /\ job'[k].owner # None
                          /\ worker[job'[k].owner] = "active" =>
                               \E t \in SlotsOf(job'[k].owner) : WorksOn(t, k)'
        BY <2>0 DEF RowExecuted, SlotsOf
      <4>1. job'[k].owner = job[k].owner /\ job[k].state = "running"
        BY <1>r, <3>4 DEF Yields
      <4>2. RowExecuted(k)
        BY DEF RunInv
      <4>3. \A t \in Slots : WorksOn(t, k) => WorksOn(t, k)'
        BY <3>3, <3>5 DEF WorksOn
      <4> QED
        BY <2>0, <4>1, <4>2, <4>3 DEF RowExecuted, SlotsOf
    <3> QED
      BY <3>6, <3>7, <3>8
  <2>2. CASE PollBuildQueue(s)
    BY <1>r, <2>0, <2>2, YieldingKeeps
       DEF PollBuildQueue, RecoverStaleBuildJobs
  <2>5. CASE LeaveQueue(s)
    <3>1. /\ job' = Recovered /\ ~WorksOn(s, slot[s].job)
          /\ \A t \in Slots \ {s} : slot'[t] = slot[t]
      BY <2>5 DEF LeaveQueue, Goto, WorksOn
    <3> QED
      BY <1>r, <2>0, <3>1, ExecutionKeeps
  <2>3. CASE \/ PlanStep(s) \/ StepStarted(s) \/ ReadInput(s) \/ Build(s)
             \/ VerifyRevision(s) \/ ApplyArtifact(s) \/ FailBuild(s)
             \/ StepCompleted(s) \/ LastStopCheck(s) \/ AssertJobStillRunning(s)
    <3>1. Yields(job')
      <4>1. CASE StepStarted(s)
        BY <1>0, <1>r, <4>1 DEF StepStarted, Yields, JobRow
      <4>2. CASE ~StepStarted(s)
        BY <1>r, <2>3, <4>2 DEF PlanStep, ReadInput, Build, VerifyRevision,
             ApplyArtifact, FailBuild, StepCompleted, LastStopCheck,
             AssertJobStillRunning, queue
      <4> QED
        BY <4>1, <4>2
    <3>2. /\ \A t \in Slots \ {s} : slot'[t] = slot[t]
          /\ slot'[s].job = slot[s].job
          /\ slot'[s].pc \notin {"idle", "left"}
          /\ slot'[s].pc = "stop" => job' [slot[s].job].owner # WorkerOf[s]
                                       \/ job'[slot[s].job].state # "running"
      <4>1. CASE PlanStep(s)
        <5>1. slot[s].target \in Targets
          BY <1>0, <4>1 DEF PlanStep, WorkerTypes, Working
        <5>2. NextStep(s) \in Targets \cup {"fail", "finish"}
          BY <5>1 DEF NextStep, Targets, Stage
        <5> QED
          BY <1>0, <4>1, <5>2 DEF PlanStep, Targets, SlotType
      <4>2. CASE ReadInput(s)
        BY <1>0, <4>2 DEF ReadInput, SlotType
      <4>3. CASE StepStarted(s)
        BY <1>0, <4>3 DEF StepStarted, Goto, SlotType, Running, Owns
      <4>4. CASE Build(s) \/ LastStopCheck(s)
        BY <1>0, <4>4 DEF Build, LastStopCheck, Goto, SlotType, Running, Owns, queue
      <4>5. CASE StepCompleted(s)
        <5>1. /\ job' = job
              /\ \/ Goto(s, "stop") /\ ~Running(s)
                 \/ Goto(s, "plan") \/ Goto(s, "finish")
          BY <4>5 DEF StepCompleted, queue
        <5> QED
          BY <1>0, <5>1 DEF Goto, SlotType, Running, Owns
      <4>6. CASE \/ VerifyRevision(s) \/ FailBuild(s)
                 \/ AssertJobStillRunning(s)
        <5>1. \E label \in {"verify", "apply", "fail"} : Goto(s, label)
          BY <4>6 DEF VerifyRevision, FailBuild, AssertJobStillRunning
        <5> QED
          BY <1>0, <5>1 DEF Goto, SlotType
      <4>7. CASE ApplyArtifact(s)
        <5>1. \E label \in {"complete", "fail"} :
                slot' = [slot EXCEPT ![s] = [@ EXCEPT !.pc = label, !.artifact = "kept"]]
          BY <4>7 DEF ApplyArtifact
        <5> QED
          BY <1>0, <5>1 DEF SlotType
      <4> QED
        BY <2>3, <4>1, <4>2, <4>3, <4>4, <4>5, <4>6, <4>7
    <3> QED
      BY <2>0, <3>1, <3>2, ExecutionKeeps DEF WorksOn
  <2>4. CASE \/ MarkBuildJobSucceeded(s) \/ MarkBuildJobFailed(s)
             \/ MarkBuildJobStopped(s)
    <3> DEFINE k == slot[s].job
    <3>1. PICK state \in {"succeeded", "failed", "canceled"} :
            \/ job' = job
            \/ job' = [job EXCEPT ![k].state = state, ![k].owner = None]
      BY <2>4 DEF MarkBuildJobSucceeded, MarkBuildJobFailed, MarkBuildJobStopped,
           Conclude
    <3>2. Yields(job')
      BY <1>0, <1>r, <3>1 DEF Yields, JobRow
    <3>3. \A t \in Slots \ {s} : slot'[t] = slot[t]
      BY <1>0, <2>4 DEF MarkBuildJobSucceeded, MarkBuildJobFailed,
           MarkBuildJobStopped, Conclude
    <3>4. WorksOn(s, k) => \/ job'[k].state # "running"
                           \/ job'[k].owner # WorkerOf[s]
                           \/ worker[WorkerOf[s]] # "active"
      <4>1. ASSUME WorksOn(s, k) PROVE k \in Jobs
        BY <1>0, <4>1 DEF WorksOn, WorkerTypes, Working
      <4>2. CASE MarkBuildJobSucceeded(s) \/ MarkBuildJobFailed(s)
        BY <1>0, <4>1, <4>2 DEF MarkBuildJobSucceeded, MarkBuildJobFailed,
             Conclude, Running, Owns, JobRow
      <4>3. CASE MarkBuildJobStopped(s)
        BY <1>0, <4>1, <4>3 DEF MarkBuildJobStopped, Conclude, Running, Owns,
             JobRow, WorksOn
      <4> QED
        BY <2>4, <4>2, <4>3
    <3> QED
      BY <2>0, <3>2, <3>3, <3>4, ExecutionKeeps
  <2> QED
    BY <1>4, <2>1, <2>2, <2>3, <2>4, <2>5 DEF Execute
<1> QED
  BY <1>1, <1>2, <1>3, <1>4 DEF Next

LEMMA RunInvariance == Spec => []RunInv
<1>1. Init => RunInv
  <2> SUFFICES ASSUME Init PROVE RunInv
    OBVIOUS
  <2>1. TypeInv
    BY QueueInitEstablishes, WorkerAssumption
       DEF Init, QueueInit, TypeInv, WorkerTypes, Working, SlotType, Idle,
           WorkerType, ChapterType, LeaseType, NoLease,
           EditType, NoEdit
  <2> QED
    BY <2>1, QueueAssumption
       DEF RunInv, Init, QueueInit, NewcomersOwnNothing, RowExecuted
<1>2. RunInv /\ [Next]_vars => RunInv'
  BY StepKeepsExecuted, StepPreservesRows, StepPreservesTypes
     DEF RunInv, TypeInv, StepOK
<1> QED
  BY <1>1, <1>2, PTL DEF Spec

\* A running row whose worker lives has an execution of that worker, whatever
\* clients pause, resume and cancel under it and however late it stops.
THEOREM RunningIsExecutedTheorem == Spec => []RunningIsExecuted
<1>1. RunInv => RunningIsExecuted
  BY DEF RunInv, RowExecuted, RunningIsExecuted, WorksOn
<1> QED
  BY <1>1, RunInvariance, PTL

-----------------------------------------------------------------------------
(* Success delivers *)

\* What an execution has found or written is in the archive unless a reset came
\* after that.
Knows(s) ==
  slot[s].artifact = "kept" =>
    /\ slot[s].pc = "complete" => slot[s].step \in chapter.built
    /\ slot[s].pc \in {"finish", "succeed"} => slot[s].target \in chapter.built

\* There is no summary without a graph: building a graph removes none that an
\* execution relies on.
SummaryNeedsGraph ==
  "reading-summary" \in chapter.built => "reading-graph" \in chapter.built

DeliverInv == TypeInv /\ SummaryNeedsGraph /\ \A s \in Slots : Knows(s)

\* Artifacts only get lost by a reset.
LEMMA StepKeepsArtifacts ==
  ASSUME TypeInv, SummaryNeedsGraph, [Next]_vars
  PROVE  /\ SummaryNeedsGraph'
         /\ chapter.built \subseteq chapter'.built \/ ResetChapter
<1>0. WorkerTypes /\ chapter \in ChapterType
  BY DEF TypeInv, WorkerTypes
<1>1. CASE UNCHANGED chapter
  BY <1>1 DEF SummaryNeedsGraph
<1>2. CASE ResetChapter
  BY <1>0, <1>2 DEF ResetChapter, ChapterType, SummaryNeedsGraph
<1>3. CASE SetChapterSource
  BY <1>0, <1>3 DEF SetChapterSource, ChapterType, SummaryNeedsGraph
<1>4. ASSUME NEW s \in Slots, ApplyArtifact(s)
      PROVE  SummaryNeedsGraph' /\ chapter.built \subseteq chapter'.built
  <2>1. slot[s].step \in Targets
    BY <1>0, <1>4 DEF ApplyArtifact, WorkerTypes, Working
  <2> QED
    BY <1>0, <1>4, <2>1
       DEF ApplyArtifact, ChapterType, Targets, Stage, SummaryNeedsGraph
<1>5. UNCHANGED chapter \/ ResetChapter \/ SetChapterSource
        \/ \E s \in Slots : ApplyArtifact(s)
  BY DEF Next, Client, Edit, AssertNoActiveBuildJobs, LeaseGoesStale, Lease,
    StartWorker, RecoverStaleBuildWorkerLease, AcquireBuildWorkerLease,
    HeartbeatBuildWorker, StopWorker, ReleaseBuildWorkerLease, CrashWorker,
    Execute, ClaimQueuedBuildJob, LeaveQueue, PollBuildQueue, PlanStep,
    StepStarted, ReadInput, Build, AssertJobStillRunning, VerifyRevision,
    StepCompleted, LastStopCheck, MarkBuildJobSucceeded, MarkBuildJobFailed,
    MarkBuildJobStopped, Conclude, FailBuild, vars
<1> QED
  BY <1>1, <1>2, <1>3, <1>4, <1>5

LEMMA StepKeepsKnowing ==
  ASSUME DeliverInv, [Next]_vars, NEW s \in Slots
  PROVE  Knows(s)'
<1>0. /\ WorkerTypes /\ Working /\ Knows(s) /\ SummaryNeedsGraph
      /\ slot \in [Slots -> SlotType] /\ slot[s] \in SlotType
      /\ chapter \in ChapterType
  BY DEF DeliverInv, TypeInv, WorkerTypes
<1>k. chapter.built \subseteq chapter'.built \/ ResetChapter
  BY StepKeepsArtifacts DEF DeliverInv
<1>1. CASE ResetChapter
  <2>1. slot'[s] = [slot[s] EXCEPT !.artifact =
                      IF slot[s].pc \in {"complete", "finish", "succeed"} THEN "reset" ELSE "kept"]
    BY <1>1 DEF ResetChapter
  <2> QED
    BY <1>0, <2>1 DEF Knows, SlotType
<1>2. ASSUME slot'[s] = slot[s], ~ResetChapter PROVE Knows(s)'
  BY <1>0, <1>k, <1>2 DEF Knows
<1>3. ASSUME slot'[s].pc \notin {"complete", "finish", "succeed"} PROVE Knows(s)'
  BY <1>3 DEF Knows
<1>4. ASSUME PlanStep(s) PROVE Knows(s)'
  <2>1. slot[s].target \in Targets /\ chapter' = chapter
    BY <1>0, <1>4 DEF PlanStep, Working
  <2>2. NextStep(s) \in Targets \cup {"fail", "finish"}
    BY <2>1 DEF NextStep, Targets, Stage
  <2>3. NextStep(s) = "finish" => slot[s].target \in chapter.built
    <3>1. CASE slot[s].target = "knowledge-graph"
      BY <3>1 DEF NextStep
    <3>2. CASE slot[s].target = "reading-graph"
      BY <3>2 DEF NextStep, Stage
    <3>3. CASE slot[s].target = "reading-summary"
      BY <3>3 DEF NextStep, Stage
    <3> QED
      BY <2>1, <3>1, <3>2, <3>3 DEF Targets
  <2>4. CASE NextStep(s) \in {"fail", "finish"}
    <3>1. slot' = [slot EXCEPT ![s] = [@ EXCEPT !.pc = NextStep(s),
                                               !.artifact = "kept"]]
      BY <1>4, <2>4 DEF PlanStep
    <3>2. slot'[s].pc = NextStep(s) /\ slot'[s].target = slot[s].target
      BY <1>0, <3>1 DEF SlotType
    <3> QED
      BY <2>1, <2>3, <2>4, <3>2 DEF Knows
  <2>5. CASE NextStep(s) \in Targets
    <3>1. slot'[s].pc = "start"
      BY <1>0, <1>4, <2>5 DEF PlanStep, Targets, SlotType
    <3> QED
      BY <1>3, <3>1
  <2> QED
    BY <2>2, <2>4, <2>5
<1>5. ASSUME ApplyArtifact(s) PROVE Knows(s)'
  <2>1. slot[s].step \in Targets
    BY <1>0, <1>5 DEF ApplyArtifact, Working
  <2>2. CASE slot' = [slot EXCEPT ![s] = [@ EXCEPT !.pc = "fail", !.artifact = "kept"]]
    <3>1. slot'[s].pc = "fail"
      BY <1>0, <2>2 DEF SlotType
    <3> QED
      BY <1>3, <3>1
  <2>3. CASE slot' = [slot EXCEPT ![s] = [@ EXCEPT !.pc = "complete", !.artifact = "kept"]]
    <3>1. slot'[s].pc = "complete" /\ slot'[s].step = slot[s].step
      BY <1>0, <2>3 DEF SlotType
    <3>2. slot[s].step \in chapter'.built
      BY <1>0, <1>5, <2>1, <3>1 DEF ApplyArtifact, ChapterType, SlotType
    <3> QED
      BY <3>1, <3>2 DEF Knows
  <2> QED
    BY <1>5, <2>2, <2>3 DEF ApplyArtifact
<1>6. ASSUME NEW label, Goto(s, label), chapter' = chapter,
             \/ label \notin {"complete", "finish", "succeed"}
             \/ /\ label \in {"finish", "succeed"}
                /\ slot[s].artifact = "kept" => slot[s].target \in chapter.built
      PROVE  Knows(s)'
  <2>1. /\ slot'[s].pc = label /\ slot'[s].target = slot[s].target
        /\ slot'[s].artifact = slot[s].artifact
    BY <1>0, <1>6 DEF Goto, SlotType
  <2> QED
    BY <1>6, <2>1 DEF Knows
<1>7. CASE Execute(s) \/ FailBuild(s)
  <2>1. CASE \/ StepStarted(s) \/ Build(s) \/ AssertJobStillRunning(s)
             \/ VerifyRevision(s) \/ FailBuild(s) \/ LeaveQueue(s)
    <3>1. chapter' = chapter /\ \E label \in {"read", "stop", "admit", "verify",
                                 "fail", "apply", "left"} : Goto(s, label)
      BY <2>1 DEF StepStarted, Build, AssertJobStillRunning, VerifyRevision,
           FailBuild, LeaveQueue
    <3> QED
      BY <1>6, <3>1
  <2>2. CASE StepCompleted(s)
    <3>1. /\ slot[s].pc = "complete" /\ chapter' = chapter
          /\ \/ Goto(s, "stop") \/ Goto(s, "plan")
             \/ Goto(s, "finish") /\ slot[s].step = slot[s].target
      BY <2>2 DEF StepCompleted
    <3>2. slot[s].artifact = "kept" => slot[s].step \in chapter.built
      BY <1>0, <3>1 DEF Knows
    <3> QED
      BY <1>6, <3>1, <3>2
  <2>3. CASE LastStopCheck(s)
    <3>1. /\ slot[s].pc = "finish" /\ chapter' = chapter
          /\ Goto(s, "succeed") \/ Goto(s, "stop")
      BY <2>3 DEF LastStopCheck
    <3>2. slot[s].artifact = "kept" => slot[s].target \in chapter.built
      BY <1>0, <3>1 DEF Knows
    <3> QED
      BY <1>6, <3>1, <3>2
  <2>4. CASE \/ MarkBuildJobSucceeded(s) \/ MarkBuildJobFailed(s)
             \/ MarkBuildJobStopped(s)
    <3>1. slot'[s].pc = "idle"
      BY <1>0, <2>4 DEF MarkBuildJobSucceeded, MarkBuildJobFailed,
           MarkBuildJobStopped, Conclude, Idle
    <3> QED
      BY <1>3, <3>1
  <2>5. CASE ClaimQueuedBuildJob(s)
    <3>1. \E j : slot' = [slot EXCEPT ![s] = [Idle EXCEPT !.pc = "plan",
                           !.job = j, !.target = Recovered[j].target]]
      BY <2>5, Zenon DEF ClaimQueuedBuildJob
    <3>2. slot'[s].pc = "plan"
      BY <1>0, <3>1 DEF Idle
    <3> QED
      BY <1>3, <3>2
  <2>6. CASE ReadInput(s)
    <3>1. slot'[s].pc = "build"
      BY <1>0, <2>6 DEF ReadInput, SlotType
    <3> QED
      BY <1>3, <3>1
  <2>7. CASE PollBuildQueue(s)
    BY <1>1, <1>2, <2>7 DEF PollBuildQueue
  <2> QED
    BY <1>4, <1>5, <1>7, <2>1, <2>2, <2>3, <2>4, <2>5, <2>6, <2>7 DEF Execute
<1>8. ASSUME NEW t \in Slots \ {s}, Execute(t) \/ FailBuild(t)
      PROVE  slot'[s] = slot[s]
  BY <1>0, <1>8 DEF Execute, ClaimQueuedBuildJob, LeaveQueue, PollBuildQueue,
       PlanStep, StepStarted, ReadInput, Build, AssertJobStillRunning,
       VerifyRevision, ApplyArtifact, StepCompleted, LastStopCheck,
       MarkBuildJobSucceeded, MarkBuildJobFailed, MarkBuildJobStopped, Conclude,
       FailBuild, Goto
<1>9. CASE Client \/ Edit \/ LeaseGoesStale \/ UNCHANGED vars
  <2>1. slot' = slot \/ ResetChapter
    BY <1>9 DEF Client, Edit, AssertNoActiveBuildJobs, ResetChapter,
         SetChapterSource, LeaseGoesStale, vars
  <2> QED
    BY <1>1, <1>2, <2>1
<1>10. ASSUME NEW w \in Workers,
              \/ StartWorker(w) \/ Lease(w) \/ StopWorker(w)
              \/ ReleaseBuildWorkerLease(w) \/ CrashWorker(w)
       PROVE  slot'[s] \in {slot[s], Idle}
  BY <1>0, <1>10 DEF Lease, StartWorker, RecoverStaleBuildWorkerLease,
       AcquireBuildWorkerLease, HeartbeatBuildWorker, StopWorker,
       ReleaseBuildWorkerLease, CrashWorker
<1>11. CASE slot'[s] = Idle
  BY <1>3, <1>11 DEF Idle
<1> QED
  BY <1>1, <1>2, <1>7, <1>8, <1>9, <1>10, <1>11 DEF Next

\* A job succeeds only with the artifact it was claimed for, unless a reset came
\* after its execution had found or written it: whatever is paused, retargeted,
\* recovered or executed a second time meanwhile.
THEOREM SuccessDeliversTheorem == Spec => []SuccessDelivers
<1>1. Init => DeliverInv
  <2> SUFFICES ASSUME Init PROVE DeliverInv
    OBVIOUS
  <2>1. TypeInv
    BY QueueInitEstablishes, WorkerAssumption
       DEF Init, QueueInit, TypeInv, WorkerTypes, Working, SlotType, Idle,
           WorkerType, ChapterType, LeaseType, NoLease, EditType, NoEdit
  <2> QED
    BY <2>1 DEF DeliverInv, Init, Idle, Knows, SummaryNeedsGraph
<1>2. DeliverInv /\ [Next]_vars => DeliverInv'
  BY StepKeepsKnowing, StepKeepsArtifacts, StepPreservesRows, StepPreservesTypes
     DEF DeliverInv, TypeInv, StepOK
<1>3. DeliverInv => SuccessDelivers
  BY DEF DeliverInv, Knows, SuccessDelivers
<1> QED
  BY <1>1, <1>2, <1>3, PTL DEF Spec
=============================================================================
