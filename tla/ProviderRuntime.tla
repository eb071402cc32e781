--------------------------- MODULE ProviderRuntime ---------------------------
(***************************************************************************)
(* Requests towards one provider (packages/runtime): ProviderRuntime.run   *)
(* retries an operation within a deadline and a waiting budget, under a    *)
(* pool of slots and a cooldown that all requests of the provider share.   *)
(*                                                                         *)
(* JavaScript runs one callback at a time: an action is one of them, a     *)
(* promise reaction, a timer or an event listener.  An operation belongs   *)
(* to the host and may never settle.                                       *)
(* Definitions named Mutant... are faults the properties must notice.      *)
(***************************************************************************)
EXTENDS Naturals, Sequences, FiniteSets

CONSTANTS
  RequestCount,
  Concurrency,  \* slots
  MaxQueued,    \* callers that may wait for a slot
  Retries,      \* of each request
  WaitLimit,    \* maxRetryWaitMs
  Timeout,      \* totalTimeoutMs of each request
  Delays,       \* what retryDelayMs may return
  MaxTime       \* bound: the clock stops here

ASSUME ProviderAssumption ==
  /\ RequestCount \in Nat
  /\ Concurrency \in Nat \ {0}
  /\ {MaxQueued, WaitLimit, MaxTime} \subseteq Nat
  /\ {Retries, Timeout} \subseteq [1 .. RequestCount -> Nat]
  /\ Delays \subseteq Nat

Requests == 1 .. RequestCount

VARIABLES
  now,
  cooldownUntil,
  active,    \* slots in use, as the pool counts them
  queue,     \* callers waiting for a slot
  pc,        \* where each request is
  attempt,   \* attempts it has finished
  waited,    \* time it has spent on cooldowns and retries
  wake,      \* when its delay is over
  deadline,
  aborted,   \* whether its signal is
  slot,      \* "held" by the caller, "kept" for what it has left behind
  work,      \* its last operation: "none", "running" or "settled"
  result,    \* and how that ended, with the delay before a retry
  resource,  \* what that has retained: "none", "kept" for the pool, or "lost"
  limiter,   \* auxiliary: the request that has set the cooldown
  beside     \* auxiliary: operations that have run since a request, about to
             \* start its own, last looked at the cooldown

pool == <<active, queue, slot>>
budget == <<attempt, waited, wake>>
host == <<work, result, resource>>
cooldown == <<cooldownUntil, limiter>>
provider == <<now, cooldown, pool, pc, budget, deadline, aborted, host, beside>>

Goto(r, label) == pc' = [pc EXCEPT ![r] = label]
Ended(r) == pc[r] \in {"ok", "failed"}
Sleeping == {"coolSleep", "slotSleep", "backoff"}

NoResult == [outcome |-> "none", delay |-> 0]
Larger(a, b) == IF a > b THEN a ELSE b

Unsettled == {r \in Requests : work[r] = "running"}

-----------------------------------------------------------------------------
(* ProviderRuntime.run up to the pool: `cool` is waitForCooldown before it, *)
(* `slot` the second one with a slot                                       *)

Call(r, failed) ==
  /\ pc[r] = "idle"
  /\ deadline' = [deadline EXCEPT ![r] = now + Timeout[r]]
  /\ aborted' = [aborted EXCEPT ![r] = failed]
  /\ Goto(r, "cool")
  /\ UNCHANGED <<now, cooldown, pool, budget, host, beside>>

Cooldown == IF cooldownUntil > now THEN cooldownUntil - now ELSE 0

Sleep(r, time, label) ==
  /\ waited' = [waited EXCEPT ![r] = @ + time]
  /\ wake' = [wake EXCEPT ![r] = now + time]
  /\ Goto(r, label)

WaitForCooldown(r) ==
  /\ pc[r] = "cool"
  /\ ~aborted[r]
  /\ \/ /\ Cooldown = 0
        /\ Goto(r, "acquire")
        /\ UNCHANGED <<waited, wake>>
     \/ /\ Cooldown > 0 /\ waited[r] + Cooldown > WaitLimit
        /\ Goto(r, "failed")
        /\ UNCHANGED <<waited, wake>>
     \/ /\ Cooldown > 0 /\ waited[r] + Cooldown <= WaitLimit
        /\ Sleep(r, Cooldown, "coolSleep")
  /\ UNCHANGED <<now, cooldown, pool, attempt, deadline, aborted, host, beside>>

\* abortableDelay: a timer never fires early.  The loop looks at the cooldown
\* again, others may have extended it.
Wake(r) ==
  /\ pc[r] \in Sleeping
  /\ ~aborted[r]
  /\ now >= wake[r]
  /\ pc[r] = "backoff" => slot[r] = "none"
  /\ attempt' = [attempt EXCEPT ![r] = IF pc[r] = "backoff" THEN @ + 1 ELSE @]
  /\ wake' = [wake EXCEPT ![r] = 0]
  /\ Goto(r, IF pc[r] = "slotSleep" THEN "slot" ELSE "cool")
  /\ UNCHANGED <<now, cooldown, pool, waited, deadline, aborted, host, beside>>

Acquire(r) ==
  /\ pc[r] = "acquire"
  /\ ~aborted[r]
  /\ \/ /\ active < Concurrency
        /\ active' = active + 1
        /\ slot' = [slot EXCEPT ![r] = "held"]
        /\ Goto(r, "slot")
        /\ UNCHANGED queue
     \/ /\ active >= Concurrency /\ Len(queue) >= MaxQueued
        /\ Goto(r, "failed")
        /\ UNCHANGED pool
     \/ /\ active >= Concurrency /\ Len(queue) < MaxQueued
        /\ queue' = Append(queue, r)
        /\ Goto(r, "queued")
        /\ UNCHANGED <<active, slot>>
  /\ UNCHANGED <<now, cooldown, budget, deadline, aborted, host, beside>>

\* The slot of r goes to the first in the queue, or becomes free.
ReleaseSlot(r, label) ==
  IF queue = <<>>
  THEN /\ active' = active - 1
       /\ slot' = [slot EXCEPT ![r] = "none"]
       /\ Goto(r, label)
       /\ UNCHANGED queue
  ELSE /\ slot' = [slot EXCEPT ![r] = "none", ![Head(queue)] = "held"]
       /\ queue' = Tail(queue)
       /\ pc' = [pc EXCEPT ![r] = label, ![Head(queue)] = "slot"]
       /\ UNCHANGED active

\* (The mutant trusts the cooldown seen before the queue.)
MutantEnterSlot(r) ==
  /\ pc[r] = "slot"
  /\ ~aborted[r]
  /\ Goto(r, "start")
  /\ beside' = [beside EXCEPT ![r] = Unsettled]
  /\ UNCHANGED <<now, cooldown, pool, budget, deadline, aborted, host>>

\* A request may have queued before a sibling met the rate limit.
EnterSlot(r) ==
  /\ pc[r] = "slot"
  /\ ~aborted[r]
  /\ \/ /\ Cooldown = 0
        /\ Goto(r, "start")
        /\ UNCHANGED <<pool, waited, wake>>
     \/ /\ Cooldown > 0 /\ waited[r] + Cooldown > WaitLimit
        /\ ReleaseSlot(r, "failed")
        /\ UNCHANGED <<waited, wake>>
     \/ /\ Cooldown > 0 /\ waited[r] + Cooldown <= WaitLimit
        /\ Sleep(r, Cooldown, "slotSleep")
        /\ UNCHANGED pool
  /\ beside' = [beside EXCEPT ![r] = Unsettled]
  /\ UNCHANGED <<now, cooldown, attempt, deadline, aborted, host>>

\* The operation starts even if the signal was aborted just before.
Start(r) ==
  /\ pc[r] = "start"
  /\ work' = [work EXCEPT ![r] = "running"]
  /\ beside' = [q \in Requests |->
                  IF q # r /\ pc[q] = "start" THEN beside[q] \union {r}
                  ELSE IF q = r THEN {} ELSE beside[q]]
  /\ Goto(r, "run")
  /\ UNCHANGED <<now, cooldown, pool, budget, deadline, aborted, result, resource>>

-----------------------------------------------------------------------------
(* The host's operation *)

\* lease.retainUntil: `use` has collected what was retained when its caller
\* left; what an operation retains later nobody waits for.
Retain(r) ==
  /\ work[r] = "running"
  /\ resource[r] = "none"
  /\ resource' = [resource EXCEPT ![r] = IF pc[r] = "run" THEN "kept" ELSE "lost"]
  /\ UNCHANGED <<now, cooldown, pool, pc, budget, deadline, aborted, work, result,
                 beside>>

CloseResource(r) ==
  /\ resource[r] # "none"
  /\ resource' = [resource EXCEPT ![r] = "none"]
  /\ UNCHANGED <<now, cooldown, pool, pc, budget, deadline, aborted, work, result,
                 beside>>

\* A rate limit is published before the slot can be released, if the request is
\* still wanted.  A cleanup that timed out is a terminal failure.
Settle(r) ==
  /\ work[r] = "running"
  /\ work' = [work EXCEPT ![r] = "settled"]
  /\ \/ /\ aborted[r]
        /\ UNCHANGED <<cooldown, result>>
     \/ /\ ~aborted[r]
        /\ \E outcome \in {"ok", "rate", "transient", "terminal"}, delay \in Delays :
             /\ outcome # "terminal" => resource[r] = "none"
             /\ result' = [result EXCEPT ![r] = [outcome |-> outcome, delay |-> delay]]
             /\ IF outcome = "rate"
                THEN /\ cooldownUntil' = Larger(cooldownUntil, now + delay)
                     /\ limiter' = IF cooldownUntil' = cooldownUntil
                                   THEN limiter ELSE r
                ELSE UNCHANGED cooldown
  /\ UNCHANGED <<now, pool, pc, budget, deadline, aborted, resource, beside>>

-----------------------------------------------------------------------------
(* ProviderRuntime.run after the operation, and its signal *)

\* (The mutant gives the slot back with the caller.)
MutantLeaveUse(r) ==
  /\ pc[r] = "run"
  /\ work[r] = "settled" \/ aborted[r]
  /\ ReleaseSlot(r, "after")
  /\ UNCHANGED <<now, cooldown, budget, deadline, aborted, host, beside>>

\* (The mutant waits for the operation alone.)
MutantAwaitUse(r) ==
  /\ pc[r] = "run"
  /\ work[r] = "settled"
  /\ slot' = [slot EXCEPT ![r] = "kept"]
  /\ Goto(r, "after")
  /\ UNCHANGED <<now, cooldown, active, queue, budget, deadline, aborted, host,
                 beside>>

\* withSignal settles with the operation or when the signal is aborted.
LeaveUse(r) ==
  /\ pc[r] = "run"
  /\ work[r] = "settled" \/ aborted[r]
  /\ slot' = [slot EXCEPT ![r] = "kept"]
  /\ Goto(r, "after")
  /\ UNCHANGED <<now, cooldown, active, queue, budget, deadline, aborted, host,
                 beside>>

\* The slot goes when everything the caller retained has settled.
Release(r) ==
  /\ slot[r] = "kept"
  /\ work[r] = "settled" /\ resource[r] # "kept"
  /\ ReleaseSlot(r, pc[r])
  /\ work' = [work EXCEPT ![r] = "none"]
  /\ UNCHANGED <<now, cooldown, budget, deadline, aborted, result, resource, beside>>

\* (The mutant forgets how long the request has waited.)
MutantRetryable(r) ==
  /\ result[r].outcome \in {"rate", "transient"}
  /\ attempt[r] < Retries[r]
  /\ result[r].delay <= WaitLimit

Retryable(r) ==
  /\ result[r].outcome \in {"rate", "transient"}
  /\ attempt[r] < Retries[r]
  /\ waited[r] + result[r].delay <= WaitLimit

Conclude(r) ==
  /\ pc[r] = "after"
  /\ \/ /\ ~aborted[r] /\ Retryable(r)
        /\ Sleep(r, result[r].delay, "backoff")
     \/ /\ aborted[r] \/ ~Retryable(r)
        /\ Goto(r, IF ~aborted[r] /\ result[r].outcome = "ok"
                   THEN "ok" ELSE "failed")
        /\ UNCHANGED <<waited, wake>>
  /\ result' = [result EXCEPT ![r] = NoResult]
  /\ UNCHANGED <<now, cooldown, pool, attempt, deadline, aborted, work, resource,
                 beside>>

\* Wherever it looks at its signal, or waits with it, an aborted request fails.
Stop(r) ==
  /\ aborted[r]
  /\ \/ /\ pc[r] \in {"cool", "coolSleep", "acquire", "backoff"}
        /\ Goto(r, "failed")
        /\ UNCHANGED pool
     \/ /\ pc[r] \in {"slot", "slotSleep"}
        /\ ReleaseSlot(r, "failed")
  /\ wake' = [wake EXCEPT ![r] = 0]
  /\ UNCHANGED <<now, cooldown, attempt, waited, deadline, aborted, host, beside>>

\* An abort takes callers out of the queue at once: `remaining` is what it
\* leaves there.  (The mutant leaves their entries.)
MutantAbort(requests, remaining) ==
  /\ aborted' = [r \in Requests |-> aborted[r] \/ r \in requests]
  /\ pc' = [r \in Requests |->
              IF r \in requests /\ pc[r] = "queued" THEN "failed" ELSE pc[r]]
  /\ UNCHANGED <<now, cooldown, pool, budget, deadline, host, beside>>

Abort(requests, remaining) ==
  /\ aborted' = [r \in Requests |-> aborted[r] \/ r \in requests]
  /\ queue' = remaining
  /\ pc' = [r \in Requests |->
              IF r \in requests /\ pc[r] = "queued" THEN "failed" ELSE pc[r]]
  /\ UNCHANGED <<now, cooldown, active, slot, budget, deadline, host, beside>>

\* The queue without the i-th entry.
QueueWithout(i) ==
  [j \in 1 .. Len(queue) - 1 |-> queue[IF j < i THEN j ELSE j + 1]]

Live == {r \in Requests : pc[r] # "idle" /\ ~Ended(r)}

\* The timer of requestBudget.
ReachDeadline(r) ==
  /\ r \in Live /\ ~aborted[r]
  /\ now >= deadline[r]
  /\ \/ pc[r] # "queued" /\ Abort({r}, queue)
     \/ \E i \in 1 .. Len(queue) : queue[i] = r /\ Abort({r}, QueueWithout(i))

Tick ==
  /\ now < MaxTime
  /\ now' = now + 1
  /\ UNCHANGED <<cooldown, pool, pc, budget, deadline, aborted, host, beside>>

-----------------------------------------------------------------------------
ProviderInit ==
  /\ now = 0
  /\ cooldownUntil = 0
  /\ active = 0
  /\ queue = <<>>
  /\ pc = [r \in Requests |-> "idle"]
  /\ attempt = [r \in Requests |-> 0]
  /\ waited = [r \in Requests |-> 0]
  /\ wake = [r \in Requests |-> 0]
  /\ deadline = [r \in Requests |-> 0]
  /\ aborted = [r \in Requests |-> FALSE]
  /\ slot = [r \in Requests |-> "none"]
  /\ work = [r \in Requests |-> "none"]
  /\ result = [r \in Requests |-> NoResult]
  /\ resource = [r \in Requests |-> "none"]
  /\ limiter = 0
  /\ beside = [r \in Requests |-> {}]

\* What a request does by itself: promise reactions, then timers.
Advance(r) ==
  \/ WaitForCooldown(r) \/ Acquire(r) \/ EnterSlot(r) \/ Start(r)
  \/ LeaveUse(r) \/ Release(r) \/ Conclude(r) \/ Stop(r)

Timer(r) == Wake(r) \/ ReachDeadline(r)

\* Whether a reaction of r is due.
Due(r) ==
  \/ pc[r] \in {"cool", "acquire", "slot", "start", "after"}
  \/ pc[r] = "run" /\ (work[r] = "settled" \/ aborted[r])
  \/ pc[r] \in Sleeping /\ aborted[r]
  \/ slot[r] = "kept" /\ work[r] = "settled" /\ resource[r] # "kept"

\* What its host does.
Operate(r) == Retain(r) \/ CloseResource(r) \/ Settle(r)

-----------------------------------------------------------------------------
\* Every variable keeps its type.
ProviderTypeOK ==
  /\ now \in 0 .. MaxTime
  /\ active \in Nat
  /\ queue \in Seq(Requests)
  /\ slot \in [Requests -> {"none", "held", "kept"}]
  /\ attempt \in [Requests -> Nat]
  /\ \A r \in Requests : attempt[r] <= Retries[r]
  /\ waited \in [Requests -> 0 .. WaitLimit]
  /\ work \in [Requests -> {"none", "running", "settled"}]
  /\ resource \in [Requests -> {"none", "kept", "lost"}]
  /\ aborted \in [Requests -> BOOLEAN]

\* However requests are cancelled, time out, fail or wait, no more than
\* `concurrency` operations and resources retained by them are at work: those
\* whose callers have gone count ("cancelled work keeps its slot until its
\* resources settle", packages/runtime/README.md).  What an operation retains
\* only after its caller has gone escapes the pool once that operation settles.
WorkBounded ==
  Cardinality({r \in Requests : work[r] = "running" \/ resource[r] = "kept"})
    <= Concurrency

\* No slot is lost or given twice, whoever leaves the queue and in whatever
\* order: the pool's count is the number of those who hold one, and nobody waits
\* while a slot is free.
SlotsAccounted ==
  /\ active = Cardinality({r \in Requests : slot[r] # "none"})
  /\ queue # <<>> => active = Concurrency
  /\ \A i \in 1 .. Len(queue) : pc[queue[i]] = "queued"

\* An operation starts during a cooldown only if the one that caused it has
\* run since the request last looked: waiting in the queue, a sleep or
\* a release never hides a rate limit ("Rate-limit cooldowns also apply to queued
\* callers", packages/runtime/README.md).
CooldownKept ==
  [][\A r \in Requests :
       (pc[r] = "start" /\ pc'[r] = "run" /\ cooldownUntil > now) =>
          limiter \in beside[r]]_provider
=============================================================================
