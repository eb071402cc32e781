----------------------------- MODULE BuildQueue -----------------------------
(***************************************************************************)
(* The durable build queue (packages/core/src/runtime/jobs): the rows of   *)
(* `build_jobs` and `build_worker_lease`, and every operation a client     *)
(* (CLI, SDK, archive mutation) performs on them.  Workers are in          *)
(* BuildWorker.                                                            *)
(*                                                                         *)
(* All jobs here are about one chapter of one archive: jobs of different   *)
(* chapters meet only in the queue order.  Every operation first recovers  *)
(* stale jobs and then runs one transaction; the two are one action.       *)
(* Definitions named Mutant... are faults the properties must notice.      *)
(***************************************************************************)
EXTENDS Naturals, Sequences, FiniteSets

CONSTANTS
  Jobs,     \* job ids; an id is used once
  Workers,  \* worker owner ids
  None      \* no owner

ASSUME QueueAssumption == None \notin Workers

Targets  == {"reading-graph", "reading-summary", "knowledge-graph"}
Active   == {"queued", "running", "canceling", "paused"}
Terminal == {"succeeded", "failed", "canceled"}

VARIABLES
  job,    \* build_jobs: per id its state, target, owner_id and whether the
          \* summary has started (reading_summary_started_at)
  order,  \* job ids by queue_rank
  lease   \* build_worker_lease: owner, and whether its heartbeat is recent

queue == <<job, order, lease>>

JobRow == [state  : Active \cup Terminal \cup {"absent", "removed"},
           target : Targets,
           owner  : Workers \cup {None},
           summaryStarted : BOOLEAN]

NoLease == [owner |-> None, fresh |-> FALSE]

-----------------------------------------------------------------------------
(* Recovery *)

\* The owner whose running jobs are left alone.
LiveOwner == IF lease.fresh THEN lease.owner ELSE None

Abandoned(row) ==
  /\ row.state \in {"running", "canceling"}
  /\ row.owner # None
  /\ row.owner # LiveOwner

\* recoverStaleBuildJobs: an abandoned job fails, or ends its cancellation.
\* (The mutant fails a job whose cancellation was requested.)
MutantRecovered ==
  [j \in Jobs |->
     IF Abandoned(job[j])
       THEN [job[j] EXCEPT !.state = "failed", !.owner = None]
       ELSE job[j]]

Recovered ==
  [j \in Jobs |->
     IF Abandoned(job[j])
       THEN [job[j] EXCEPT !.owner = None,
               !.state = IF @ = "canceling" THEN "canceled" ELSE "failed"]
       ELSE job[j]]

RecoverStaleBuildJobs ==
  /\ Recovered # job
  /\ job' = Recovered
  /\ UNCHANGED <<order, lease>>

-----------------------------------------------------------------------------
(* Client operations *)

\* createBuildJobLaneFilter: graph and summary share a lane.
Lane(target) == IF target = "knowledge-graph" THEN "knowledge" ELSE "reading"

\* findActiveBuildJobInLane
ActiveInLane(rows, target) ==
  {j \in Jobs : rows[j].state \in Active /\ Lane(rows[j].target) = Lane(target)}

\* The order without j, and with j in front.
NotFirst(j) ==
  IF \A i \in DOMAIN order : order[i] # j
    THEN order
    ELSE LET at == CHOOSE i \in DOMAIN order : order[i] = j
         IN  SubSeq(order, 1, at - 1) \o SubSeq(order, at + 1, Len(order))
First(j) == <<j>> \o NotFirst(j)

\* addBuildJob, when the lane is free.
InsertJob(j, target, boost) ==
  /\ job[j].state = "absent"
  /\ ActiveInLane(Recovered, target) = {}
  /\ job' = [Recovered EXCEPT ![j] =
        [state |-> "queued", target |-> target, owner |-> None,
         summaryStarted |-> FALSE]]
  /\ order' = IF boost THEN First(j) ELSE Append(order, j)
  /\ UNCHANGED lease

\* addBuildJob, when the lane has an active job: mergeActiveBuildJob.
MergeJob(target, boost) ==
  \E k \in ActiveInLane(Recovered, target) :
    /\ job' = [Recovered EXCEPT ![k].target =
          IF @ = "reading-graph" /\ target = "reading-summary" THEN target
                                                              ELSE @]
    /\ order' = IF boost /\ Recovered[k].state = "queued" THEN First(k)
                                                          ELSE order
    /\ UNCHANGED lease

\* pauseBuildJob keeps the owner.
PauseBuildJob(j) ==
  /\ Recovered[j].state \in {"queued", "running"}
  /\ job' = [Recovered EXCEPT ![j].state = "paused"]
  /\ UNCHANGED <<order, lease>>

\* resumeBuildJob clears it.  (The mutant accepts finished jobs.)
MutantResumeBuildJob(j) ==
  /\ Recovered[j].state \in {"paused", "failed", "canceled"}
  /\ job' = [Recovered EXCEPT ![j].state = "queued", ![j].owner = None]
  /\ UNCHANGED <<order, lease>>

ResumeBuildJob(j) ==
  /\ Recovered[j].state = "paused"
  /\ job' = [Recovered EXCEPT ![j].state = "queued", ![j].owner = None]
  /\ UNCHANGED <<order, lease>>

\* cancelBuildJob: a worker has to confirm that a running job has stopped.
CancelBuildJob(j) ==
  /\ \/ /\ Recovered[j].state = "running"
        /\ job' = [Recovered EXCEPT ![j].state = "canceling"]
     \/ /\ Recovered[j].state \in {"queued", "paused"}
        /\ job' = [Recovered EXCEPT ![j].state = "canceled", ![j].owner = None]
  /\ UNCHANGED <<order, lease>>

\* boostBuildJob
BoostBuildJob(j) ==
  /\ Recovered[j].state = "queued"
  /\ job' = Recovered
  /\ order' = First(j)
  /\ UNCHANGED lease

\* updateBuildJobTarget: into a free lane, and no downgrade of a started
\* summary.  (The mutant does not look at the other lane.)
MutantUpdateBuildJobTarget(j, target) ==
  /\ Recovered[j].state \in Active
  /\ Recovered[j].target # target
  /\ job' = [Recovered EXCEPT ![j].target = target]
  /\ UNCHANGED <<order, lease>>

UpdateBuildJobTarget(j, target) ==
  /\ Recovered[j].state \in Active
  /\ Recovered[j].target # target
  /\ ActiveInLane(Recovered, target) \subseteq {j}
  /\ ~(/\ Recovered[j].target = "reading-summary"
       /\ target = "reading-graph"
       /\ Recovered[j].summaryStarted)
  /\ job' = [Recovered EXCEPT ![j].target = target]
  /\ UNCHANGED <<order, lease>>

\* cleanBuildJobs and runBuildQueueGc remove finished jobs.
CleanBuildJob(j) ==
  /\ job[j].state \in Terminal
  /\ job' = [job EXCEPT ![j].state = "removed"]
  /\ order' = NotFirst(j)
  /\ UNCHANGED lease

\* assertNoActiveBuildJobConflicts: what an archive mutation requires, of all
\* jobs or of those with a target it names (requiresTarget).
NoActiveBuildJobs(targets) ==
  \A j \in Jobs :
    Recovered[j].target \in targets => Recovered[j].state \notin Active

-----------------------------------------------------------------------------
QueueInit ==
  /\ job = [j \in Jobs |-> [state |-> "absent", target |-> "reading-graph",
                            owner |-> None, summaryStarted |-> FALSE]]
  /\ order = <<>>
  /\ lease = NoLease

\* What clients may do, without retargeting a job.
ClientStep ==
  \/ RecoverStaleBuildJobs
  \/ \E j \in Jobs :
       \/ \E target \in Targets, boost \in BOOLEAN : InsertJob(j, target, boost)
       \/ PauseBuildJob(j)
       \/ ResumeBuildJob(j)
       \/ CancelBuildJob(j)
       \/ BoostBuildJob(j)
       \/ CleanBuildJob(j)

\* What changes the target of an active job.
RetargetStep ==
  \/ \E target \in Targets, boost \in BOOLEAN : MergeJob(target, boost)
  \/ \E j \in Jobs, target \in Targets : UpdateBuildJobTarget(j, target)

-----------------------------------------------------------------------------
(* Properties of the rows *)

\* Every row keeps its type.
QueueTypeOK ==
  /\ job \in [Jobs -> JobRow]
  /\ order \in Seq(Jobs)
  /\ lease \in [owner : Workers \cup {None}, fresh : BOOLEAN]

\* A chapter has at most one unfinished job per lane, whatever is added,
\* resumed or retargeted meanwhile (schema.ts: a second one would violate the
\* unique index and surface as a database error).
OneActivePerLane ==
  \A j, k \in Jobs :
    /\ job[j].state \in Active
    /\ job[k].state \in Active
    /\ Lane(job[j].target) = Lane(job[k].target)
    => j = k

\* A finished job stays as it finished: no late worker, recovery or client
\* turns it into something else, so removing its files is safe (gc.ts).
TerminalIsFinal ==
  [][\A j \in Jobs : job[j].state \in Terminal =>
       job'[j].state \in {job[j].state, "removed"}]_queue

\* A requested cancellation is never overtaken by a late success or failure of
\* the execution it cancels.
CancellationHolds ==
  [][\A j \in Jobs : job[j].state = "canceling" =>
       job'[j].state \in {"canceling", "canceled"}]_queue
=============================================================================
