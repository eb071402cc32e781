----------------------------- MODULE BuildWorker -----------------------------
(***************************************************************************)
(* Queue workers executing jobs of BuildQueue on one chapter of an archive *)
(* (core runtime/jobs/worker.ts, state.ts, progress.ts; the executor is    *)
(* packages/sdk/src/default-worker.ts with core job-file-apply.ts), next   *)
(* to clients of the queue and to a writer that edits the chapter.         *)
(*                                                                         *)
(* A worker process holds the worker lease and runs one execution per      *)
(* slot.  One action is one queue or archive transaction, together with    *)
(* the local computation up to the next one.                               *)
(***************************************************************************)
EXTENDS BuildQueue

CONSTANTS
  Slots,        \* concurrent executions of all workers
  WorkerOf,     \* the worker a slot belongs to
  Crashers,     \* workers whose process may die
  Stallers,     \* live workers whose heartbeat may come late
  Stoppers,     \* workers that may be told to stop
  Retargeting,  \* whether clients change the target of active jobs
  Edits,        \* what edits of the chapter check for and touch
  MaxRevision   \* bound: resets of the chapter to planned

ASSUME WorkerAssumption ==
  /\ WorkerOf \in [Slots -> Workers]
  /\ Retargeting \in BOOLEAN
  /\ Edits \subseteq {"all", "graph", "summary"}
  /\ MaxRevision \in Nat

VARIABLES
  worker,   \* where each worker process is
  slot,     \* the execution in each slot
  chapter,  \* whether it has a source, its revision, and the artifacts it has
  editor    \* the edit of the chapter that is checking for active jobs, and
            \* how many of its checks it has passed

vars == <<queue, worker, slot, chapter, editor>>

Idle == [pc |-> "idle", job |-> None, target |-> None, step |-> None,
         revision |-> 0, artifact |-> "kept"]

NoEdit == [kind |-> "none", passed |-> 0]

SlotsOf(w) == {s \in Slots : WorkerOf[s] = w}
Goto(s, label) == slot' = [slot EXCEPT ![s].pc = label]

-----------------------------------------------------------------------------
(* The worker lease *)

SetWorker(w, label) == worker' = [worker EXCEPT ![w] = label]

\* tryStartQueueWorker, after the transaction of a command that adds, resumes,
\* boosts or retargets a job; nothing ever starts one again.
\* Every process has an owner id of its own; one that found a live lease has
\* left no trace, and its id stands for the next one.  acquireBuildWorkerLease
\* first reads the lease outside any transaction.
StartWorker(w) ==
  /\ worker[w] = "off"
  /\ SetWorker(w, IF lease.owner # None /\ ~lease.fresh THEN "wiping"
                                                         ELSE "acquiring")
  /\ UNCHANGED <<queue, slot, chapter, editor>>

\* recoverStaleBuildWorkerLease clears whatever lease there is by now.
RecoverStaleBuildWorkerLease(w) ==
  /\ worker[w] = "wiping"
  /\ lease' = NoLease
  /\ SetWorker(w, "acquiring")
  /\ UNCHANGED <<job, order, slot, chapter, editor>>

AcquireBuildWorkerLease(w) ==
  /\ worker[w] = "acquiring"
  /\ IF lease.fresh
       THEN SetWorker(w, "off") /\ UNCHANGED lease
       ELSE SetWorker(w, "active") /\ lease' = [owner |-> w, fresh |-> TRUE]
  /\ UNCHANGED <<job, order, slot, chapter, editor>>

\* heartbeatBuildWorker, from the timer and from every slot's loop.
HeartbeatBuildWorker(w) ==
  /\ worker[w] \in {"active", "stopping"}
  /\ lease.owner = w
  /\ ~lease.fresh
  /\ lease' = [lease EXCEPT !.fresh = TRUE]
  /\ UNCHANGED <<job, order, worker, slot, chapter, editor>>

\* Twenty seconds without a heartbeat.
LeaseGoesStale ==
  /\ lease.fresh
  /\ worker[lease.owner] # "dead" => lease.owner \in Stallers
  /\ lease' = [lease EXCEPT !.fresh = FALSE]
  /\ UNCHANGED <<job, order, worker, slot, chapter, editor>>

\* The abort signal of runBuildJobWorker: slots stop claiming.
StopWorker(w) ==
  /\ w \in Stoppers
  /\ worker[w] = "active"
  /\ SetWorker(w, "stopping")
  /\ UNCHANGED <<queue, slot, chapter, editor>>

\* The end of runBuildJobWorker, once every slot's loop has ended.
ReleaseBuildWorkerLease(w) ==
  /\ \/ /\ worker[w] = "stopping"
        /\ \A s \in SlotsOf(w) : slot[s].pc \in {"idle", "left"}
     \/ /\ worker[w] = "active"
        /\ \A s \in SlotsOf(w) : slot[s].pc = "left"
  /\ lease' = IF lease.owner = w THEN NoLease ELSE lease
  /\ SetWorker(w, IF worker[w] = "active" THEN "gone" ELSE "dead")
  /\ slot' = [s \in Slots |-> IF WorkerOf[s] = w THEN Idle ELSE slot[s]]
  /\ UNCHANGED <<job, order, chapter, editor>>

CrashWorker(w) ==
  /\ w \in Crashers
  /\ worker[w] \notin {"off", "gone", "dead"}
  /\ SetWorker(w, "dead")
  /\ slot' = [s \in Slots |-> IF WorkerOf[s] = w THEN Idle ELSE slot[s]]
  /\ UNCHANGED <<queue, chapter, editor>>

-----------------------------------------------------------------------------
(* Executions *)

\* The stop check (throwIfStopped, abortJobWhenStopped) and the guard of the
\* terminal updates: the row is running and owned by this worker.
Owns(s) == job[slot[s].job].owner = WorkerOf[s]
Running(s) == Owns(s) /\ job[slot[s].job].state = "running"

\* claimQueuedBuildJob, after the loop's recovery: the first queued job.
ClaimQueuedBuildJob(s) ==
  /\ worker[WorkerOf[s]] = "active"
  /\ slot[s].pc = "idle"
  /\ \E i \in DOMAIN order :
       LET j == order[i] IN
       /\ Recovered[j].state = "queued"
       /\ \A h \in 1 .. i - 1 : Recovered[order[h]].state # "queued"
       /\ job' = [Recovered EXCEPT ![j].state = "running",
                                   ![j].owner = WorkerOf[s]]
       /\ slot' = [slot EXCEPT ![s] = [Idle EXCEPT !.pc = "plan", !.job = j,
                                          !.target = Recovered[j].target]]
  /\ UNCHANGED <<order, lease, worker, chapter, editor>>

\* An idle slot that finds nothing to claim has still recovered stale jobs.
PollBuildQueue(s) ==
  /\ worker[WorkerOf[s]] = "active"
  /\ slot[s].pc = "idle"
  /\ RecoverStaleBuildJobs
  /\ UNCHANGED <<worker, slot, chapter, editor>>

\* A slot's loop ends when its claim (after its recovery) finds nothing while no
\* slot of the worker is busy and none has been for idleTimeoutMs.  (The mutant
\* looks at the time before it claims.)
MutantLeaveQueue(s) ==
  /\ worker[WorkerOf[s]] = "active"
  /\ slot[s].pc = "idle"
  /\ \A t \in SlotsOf(WorkerOf[s]) : slot[t].pc \in {"idle", "left"}
  /\ Goto(s, "left")
  /\ UNCHANGED <<queue, worker, chapter, editor>>

LeaveQueue(s) ==
  /\ worker[WorkerOf[s]] = "active"
  /\ slot[s].pc = "idle"
  /\ \A t \in SlotsOf(WorkerOf[s]) : slot[t].pc \in {"idle", "left"}
  /\ \A j \in Jobs : Recovered[j].state # "queued"
  /\ job' = Recovered
  /\ Goto(s, "left")
  /\ UNCHANGED <<order, lease, worker, chapter, editor>>

Stage ==
  IF ~chapter.source THEN "planned"
  ELSE IF "reading-graph" \notin chapter.built THEN "sourced"
  ELSE IF "reading-summary" \notin chapter.built THEN "graphed"
  ELSE "summarized"

\* executeBuildJob reads the stage and chooses the next step of the target it
\* claimed; nothing to do is success.
NextStep(s) ==
  CASE slot[s].target = "knowledge-graph" ->
         IF Stage = "planned" THEN "fail" ELSE "knowledge-graph"
    [] slot[s].target = "reading-graph" ->
         CASE Stage = "planned" -> "fail"
           [] Stage = "sourced" -> "reading-graph"
           [] OTHER             -> "finish"
    [] slot[s].target = "reading-summary" ->
         CASE Stage = "summarized" -> "finish"
           [] Stage = "graphed"    -> "reading-summary"
           [] Stage = "sourced" /\ slot[s].step = None -> "reading-graph"
           [] OTHER                -> "fail"

PlanStep(s) ==
  /\ slot[s].pc = "plan"
  /\ slot' = [slot EXCEPT ![s] =
        IF NextStep(s) \in {"fail", "finish"}
          THEN [@ EXCEPT !.pc = NextStep(s), !.artifact = "kept"]
          ELSE [@ EXCEPT !.pc = "start", !.step = NextStep(s),
                         !.artifact = "kept"]]
  /\ UNCHANGED <<queue, worker, chapter, editor>>

\* stepStarted: a stop check, then markBuildJobStep.
StepStarted(s) ==
  /\ slot[s].pc = "start"
  /\ Goto(s, IF Running(s) THEN "read" ELSE "stop")
  /\ job' = IF Running(s) /\ slot[s].step = "reading-summary"
              THEN [job EXCEPT ![slot[s].job].summaryStarted = TRUE]
              ELSE job
  /\ UNCHANGED <<order, lease, worker, chapter, editor>>

\* writeChapterJobInputFile: the input and the revision it was read at.
ReadInput(s) ==
  /\ slot[s].pc = "read"
  /\ slot' = [slot EXCEPT ![s].pc = "build", ![s].revision = chapter.revision]
  /\ UNCHANGED <<queue, worker, chapter, editor>>

\* The chapter executor runs and its progress reports check for a stop; it may
\* fail, and a stop aborts it.
Build(s) ==
  /\ slot[s].pc = "build"
  /\ Goto(s, IF Running(s) THEN "admit" ELSE "stop")
  /\ UNCHANGED <<queue, worker, chapter, editor>>

FailBuild(s) ==
  /\ slot[s].pc = "build"
  /\ Goto(s, "fail")
  /\ UNCHANGED <<queue, worker, chapter, editor>>

\* assertJobStillRunning(getBuildJob), inside the archive write: recovers stale
\* jobs, and looks at the state only.
AssertJobStillRunning(s) ==
  /\ slot[s].pc = "admit"
  /\ job' = Recovered
  /\ Goto(s, IF Recovered[slot[s].job].state = "running" THEN "verify"
                                                          ELSE "fail")
  /\ UNCHANGED <<order, lease, worker, chapter, editor>>

\* applyChapterJobArtifactFile: the revision is compared first ...
VerifyRevision(s) ==
  /\ slot[s].pc = "verify"
  /\ Goto(s, IF chapter.revision = slot[s].revision THEN "apply" ELSE "fail")
  /\ UNCHANGED <<queue, worker, chapter, editor>>

\* ... and the artifact is written in a transaction that requires the stage.
MutantApplyArtifact(s) ==
  /\ slot[s].pc = "apply"
  /\ Goto(s, "complete")
  /\ UNCHANGED <<queue, worker, chapter, editor>>

ApplyArtifact(s) ==
  LET step    == slot[s].step
      allowed == CASE step = "knowledge-graph" -> TRUE
                   [] step = "reading-graph"   -> Stage = "sourced"
                   [] step = "reading-summary" -> Stage = "graphed"
  IN  /\ slot[s].pc = "apply"
      /\ slot' = [slot EXCEPT ![s] =
            [@ EXCEPT !.pc = IF allowed THEN "complete" ELSE "fail",
                      !.artifact = "kept"]]
      /\ chapter' =
           CASE ~allowed -> chapter
             [] allowed /\ step = "reading-graph" ->
                  [chapter EXCEPT !.built =
                     (@ \ {"reading-summary"}) \cup {step}]
             [] OTHER -> [chapter EXCEPT !.built = @ \cup {step}]
      /\ UNCHANGED <<queue, worker, editor>>

\* stepCompleted and its stop checks; a summary job goes on after its graph.
StepCompleted(s) ==
  /\ slot[s].pc = "complete"
  /\ Goto(s, CASE ~Running(s) -> "stop"
               [] Running(s) /\ slot[s].step # slot[s].target -> "plan"
               [] Running(s) /\ slot[s].step = slot[s].target -> "finish")
  /\ UNCHANGED <<queue, worker, chapter, editor>>

\* The last stop check of executeClaimedBuildJob.
LastStopCheck(s) ==
  /\ slot[s].pc = "finish"
  /\ Goto(s, IF Running(s) THEN "succeed" ELSE "stop")
  /\ UNCHANGED <<queue, worker, chapter, editor>>

\* An execution leaves its job in `state` where the guard still holds.
Conclude(s, guard, state) ==
  /\ job' = IF guard
              THEN [job EXCEPT ![slot[s].job].state = state,
                               ![slot[s].job].owner = None]
              ELSE job
  /\ slot' = [slot EXCEPT ![s] = Idle]
  /\ UNCHANGED <<order, lease, worker, chapter, editor>>

\* The update checks the state once more.
MarkBuildJobSucceeded(s) ==
  /\ slot[s].pc = "succeed"
  /\ Conclude(s, Running(s), "succeeded")

\* markBuildJobFailed.  (The mutant loses the error.)
MutantMarkBuildJobFailed(s) ==
  /\ slot[s].pc = "fail"
  /\ worker[WorkerOf[s]] # "stopping"
  /\ Conclude(s, FALSE, "failed")

MarkBuildJobFailed(s) ==
  /\ slot[s].pc = "fail"
  /\ worker[WorkerOf[s]] # "stopping"
  /\ Conclude(s, Running(s), "failed")

\* markBuildJobStopped: after a stop check, or after any error once the worker
\* was told to stop or its stop watcher has noticed; ends a requested
\* cancellation and nothing else.  (The mutant writes an unknown state.)
MutantMarkBuildJobStopped(s) ==
  /\ slot[s].pc = "stop"
  /\ Conclude(s, Owns(s) /\ job[slot[s].job].state = "canceling", "stopped")

MarkBuildJobStopped(s) ==
  /\ \/ slot[s].pc = "stop"
     \/ slot[s].pc = "fail" /\ (~Running(s) \/ worker[WorkerOf[s]] = "stopping")
  /\ Conclude(s, Owns(s) /\ job[slot[s].job].state = "canceling", "canceled")

-----------------------------------------------------------------------------
(* A writer that edits the chapter *)

\* assertChapterResetAllowed and setChapterSource: the targets each check looks
\* for.  A reset of the graph looks for graph and summary jobs in two calls, and
\* not for the knowledge jobs whose artifact it removes too.
Checks(kind) ==
  CASE kind = "all"     -> <<Targets>>
    [] kind = "graph"   -> <<{"reading-graph"}, {"reading-summary"}>>
    [] kind = "summary" -> <<{"reading-summary"}>>

\* assertNoActiveBuildJobs, inside the archive write and before its document is
\* changed: recovers stale jobs, and throws when it finds an active one.
AssertNoActiveBuildJobs(kind) ==
  /\ \/ editor = NoEdit
     \/ editor.kind = kind /\ editor.passed < Len(Checks(kind))
  /\ job' = Recovered
  /\ editor' = IF NoActiveBuildJobs(Checks(kind)[editor.passed + 1])
                 THEN [kind |-> kind, passed |-> editor.passed + 1]
                 ELSE NoEdit
  /\ UNCHANGED <<order, lease, worker, slot, chapter>>

Allowed(kind) ==
  editor.kind = kind /\ editor.passed = Len(Checks(kind))

\* resetChapter: to planned the source goes with all artifacts and the revision
\* is bumped; to sourced the artifacts go, to graphed the summary, and the
\* revision stays.  Executions that have found or written their artifact
\* remember the reset.
ResetChapter ==
  /\ \/ /\ Allowed("all")
        /\ chapter.revision < MaxRevision
        /\ chapter' = [source |-> FALSE, built |-> {},
                       revision |-> chapter.revision + 1]
     \/ /\ Allowed("graph")
        /\ chapter' = [chapter EXCEPT !.built = {}]
     \/ /\ Allowed("summary")
        /\ chapter' = [chapter EXCEPT !.built = @ \ {"reading-summary"}]
  /\ editor' = NoEdit
  /\ slot' = [s \in Slots |->
        [slot[s] EXCEPT !.artifact =
           IF slot[s].pc \in {"complete", "finish", "succeed"} THEN "reset"
                                                               ELSE "kept"]]
  /\ UNCHANGED <<queue, worker>>

\* setChapterSource: only into a planned chapter; otherwise it throws.
SetChapterSource ==
  /\ Allowed("all")
  /\ chapter' = [chapter EXCEPT !.source = TRUE]
  /\ editor' = NoEdit
  /\ UNCHANGED <<queue, worker, slot>>

-----------------------------------------------------------------------------
Init ==
  /\ QueueInit
  /\ worker = [w \in Workers |-> "off"]
  /\ slot = [s \in Slots |-> Idle]
  /\ chapter = [source |-> TRUE, revision |-> 0, built |-> {}]
  /\ editor = NoEdit

Client ==
  /\ ClientStep \/ (Retargeting /\ RetargetStep)
  /\ UNCHANGED <<worker, slot, chapter, editor>>

Lease(w) ==
  \/ RecoverStaleBuildWorkerLease(w)
  \/ AcquireBuildWorkerLease(w)
  \/ HeartbeatBuildWorker(w)

Execute(s) ==
  \/ ClaimQueuedBuildJob(s)
  \/ PollBuildQueue(s)
  \/ LeaveQueue(s)
  \/ PlanStep(s)
  \/ StepStarted(s)
  \/ ReadInput(s)
  \/ Build(s)
  \/ AssertJobStillRunning(s)
  \/ VerifyRevision(s)
  \/ ApplyArtifact(s)
  \/ StepCompleted(s)
  \/ LastStopCheck(s)
  \/ MarkBuildJobSucceeded(s)
  \/ MarkBuildJobFailed(s)
  \/ MarkBuildJobStopped(s)

Edit ==
  \/ \E kind \in Edits : AssertNoActiveBuildJobs(kind)
  \/ ResetChapter
  \/ SetChapterSource

Next ==
  \/ Client
  \/ Edit
  \/ LeaseGoesStale
  \/ \E w \in Workers : \/ StartWorker(w)
                        \/ Lease(w)
                        \/ StopWorker(w)
                        \/ ReleaseBuildWorkerLease(w)
                        \/ CrashWorker(w)
  \/ \E s \in Slots : Execute(s) \/ FailBuild(s)

Spec == Init /\ [][Next]_vars

\* Processes run, a dead worker's lease expires, and executors end (FailBuild
\* is not needed for that).  Nobody has to start a worker: a command starts one
\* once, and the process may find another one's lease and end.  Clients, the
\* editor and the stop signal owe nothing either.
FairSpec ==
  /\ Spec
  /\ WF_vars(LeaseGoesStale /\ worker[lease.owner] = "dead")
  /\ \A w \in Workers :
       /\ WF_vars(Lease(w))
       /\ WF_vars(ReleaseBuildWorkerLease(w))
  /\ \A s \in Slots : WF_vars(Execute(s))

-----------------------------------------------------------------------------
\* Every variable keeps its type.
TypeOK ==
  /\ QueueTypeOK
  /\ worker \in [Workers -> {"off", "wiping", "acquiring", "active",
                             "stopping", "gone", "dead"}]
  /\ slot \in [Slots ->
        [pc : {"idle", "left", "plan", "start", "read", "build", "admit", "verify",
               "apply", "complete", "finish", "succeed", "fail", "stop"},
         job : Jobs \cup {None},
         target : Targets \cup {None},
         step : Targets \cup {None},
         revision : 0 .. MaxRevision,
         artifact : {"kept", "reset"}]]
  /\ chapter \in [source : BOOLEAN, revision : 0 .. MaxRevision,
                  built : SUBSET Targets]
  /\ editor \in [kind : Edits \cup {"none"}, passed : 0 .. 2]

\* A job succeeds only with the artifact it was claimed for in the archive,
\* unless a reset came after the execution had found or written it (a reset to
\* sourced does not look for knowledge jobs, and every reset checks before it
\* changes the chapter).  Recovery may hand the lane to another execution
\* meanwhile, and clients may change the target of the row.
SuccessDelivers ==
  \A s \in Slots :
    (slot[s].pc = "succeed" /\ Running(s) /\ slot[s].artifact = "kept")
      => slot[s].target \in chapter.built

\* Executions give a claimed row up only by finishing it: a running row whose
\* owner is alive has an execution of that worker working on it.
RunningIsExecuted ==
  \A j \in Jobs :
    (/\ job[j].state = "running"
     /\ worker[job[j].owner] = "active")
       => \E s \in SlotsOf(job[j].owner) :
            slot[s].pc \notin {"idle", "left"} /\ slot[s].job = j

\* A worker whose loops have not ended.
Serving(w) ==
  /\ worker[w] = "active"
  /\ \E s \in SlotsOf(w) : slot[s].pc # "left"

\* Under the lease of a worker no job stays queued or running, its own or one
\* that a dead worker left, and the worker does not end before such a job,
\* unless it dies, is told to stop, or loses the lease.  (A job that is added
\* after the last loop has ended waits for a command that starts a worker.)
JobsProgress ==
  \A j \in Jobs, w \in Workers :
    (/\ job[j].state \in {"queued", "running"}
     /\ Serving(w)
     /\ lease.owner = w)
      ~> (\/ job[j].state \notin {"queued", "running"}
          \/ worker[w] \in {"stopping", "dead"}
          \/ worker[w] = "active" /\ lease.owner # w)
=============================================================================
