---------------------- MODULE ConcurrentRequestsProofs -----------------------
(***************************************************************************)
(* Requests to a provider, for any number of them, any pool, budgets and   *)
(* windows: no slot is lost or given twice, the operations at work are     *)
(* bounded, a rate limit is never slept or queued over, and mapConcurrent  *)
(* closes when its tasks have ended, with the outcome they had.            *)
(***************************************************************************)
EXTENDS ConcurrentRequests, TLAPS, FiniteSetTheorems

-----------------------------------------------------------------------------
(* What holds of the requests by themselves *)

Labels == {"idle", "cool", "coolSleep", "acquire", "queued", "slot", "slotSleep",
           "start", "run", "after", "backoff", "ok", "failed"}
Outcomes == {"none", "ok", "rate", "transient", "terminal"}

Types ==
  /\ now \in 0 .. MaxTime
  /\ cooldownUntil \in Nat
  /\ limiter \in Nat
  /\ active \in Nat
  /\ queue \in Seq(Requests)
  /\ slot \in [Requests -> {"none", "held", "kept"}]
  /\ pc \in [Requests -> Labels]
  /\ attempt \in [Requests -> Nat]
  /\ waited \in [Requests -> Nat]
  /\ wake \in [Requests -> Nat]
  /\ deadline \in [Requests -> Nat]
  /\ aborted \in [Requests -> BOOLEAN]
  /\ work \in [Requests -> {"none", "running", "settled"}]
  /\ result \in [Requests -> [outcome : Outcomes, delay : Nat]]
  /\ resource \in [Requests -> {"none", "kept", "lost"}]
  /\ beside \in [Requests -> SUBSET Requests]

\* The budgets are never exceeded: who backs off has a retry left.
Budgets ==
  \A r \in Requests :
    /\ attempt[r] <= Retries[r]
    /\ pc[r] = "backoff" => attempt[r] < Retries[r]
    /\ waited[r] <= WaitLimit

\* Who may hold a slot, and what may be at work without one.
WithSlot == {"slot", "slotSleep", "start", "run"}

SlotUse ==
  \A r \in Requests :
    /\ slot[r] = "held" <=> pc[r] \in WithSlot
    /\ slot[r] = "kept" => pc[r] \in {"after", "backoff", "ok", "failed"}
    /\ (slot[r] = "none" \/ pc[r] \in {"slot", "slotSleep", "start"}) =>
         work[r] = "none" /\ resource[r] # "kept"

\* The queue holds callers that wait, each once.
Queueing ==
  /\ \A i \in 1 .. Len(queue) : pc[queue[i]] = "queued"
  /\ \A i, j \in 1 .. Len(queue) : queue[i] = queue[j] => i = j

Occupied == {r \in Requests : slot[r] # "none"}

Counting ==
  /\ active = Cardinality(Occupied)
  /\ active <= Concurrency
  /\ queue # <<>> => active = Concurrency

\* What a request that is about to start knows of the cooldown.
Looked ==
  \A r \in Requests : pc[r] = "start" =>
    /\ Unsettled \subseteq beside[r]
    /\ cooldownUntil > now => limiter \in beside[r]

ProviderInv == Types /\ Budgets /\ SlotUse /\ Queueing /\ Counting /\ Looked

-----------------------------------------------------------------------------
(* What holds of mapConcurrent and its tasks *)

ExecutorTypes ==
  /\ mpc \in {"window", "pull", "drain", "yield", "closing", "returning", "done"}
  /\ next \in 1 .. RequestCount + 1
  /\ inWindow \in 0 .. Window
  /\ mpc = "pull" => inWindow < Window
  /\ done \in BOOLEAN
  /\ pending \in Seq(Requests)
  /\ reported \subseteq Requests
  /\ fatal \in NoFailure .. ConsumerClosed
  /\ given \in Nat
  /\ stopped \in BOOLEAN

\* The first failure stays, and is the only one that is ever thrown.
Failures ==
  /\ primary = fatal
  /\ thrown \in {NoFailure, fatal}
  /\ reported # {} => fatal # NoFailure
  /\ \A r \in reported : pc[r] = "failed"

\* Tasks are pending in the order of the source until the generator closes.
Order ==
  /\ given < next
  /\ \A r \in 1 .. given : pc[r] = "ok"
  /\ done => next = RequestCount + 1
  /\ mpc \notin {"closing", "returning", "done"} =>
       /\ Len(pending) = next - 1 - given
       /\ \A i \in 1 .. Len(pending) : pending[i] = given + i

\* While it closes, who is not pending has settled.
Closing ==
  /\ mpc = "closing" =>
       \A r \in 1 .. next - 1 :
         TaskSettled(r) \/ \E i \in 1 .. Len(pending) : pending[i] = r
  /\ mpc \in {"returning", "done"} => \A r \in 1 .. next - 1 : TaskSettled(r)
  /\ (mpc \in {"closing", "returning", "done"} /\ thrown = NoFailure) =>
       (given = RequestCount \/ stopped)

ExecutorInv == ExecutorTypes /\ Failures /\ Order /\ Closing

Inv == ProviderInv /\ ExecutorInv

-----------------------------------------------------------------------------
(* The pool *)

\* A step of a request, of its host or of its executor, as the provider sees it.
ProviderMove ==
  \/ \E r \in Requests :
       \/ Advance(r) \/ Timer(r) \/ Operate(r)
       \/ \E failed \in BOOLEAN : Call(r, failed)
  \/ Abort(Live, <<>>)
  \/ Tick
  \/ UNCHANGED provider

\* The count is about a finite set.
LEMMA OccupiedFinite ==
  ASSUME slot \in [Requests -> {"none", "held", "kept"}]
  PROVE  IsFiniteSet(Occupied) /\ Cardinality(Occupied) \in Nat
<1>1. IsFiniteSet(Requests)
  BY FS_Interval, ProviderAssumption DEF Requests
<1>2. Occupied \subseteq Requests
  BY DEF Occupied
<1> QED
  BY <1>1, <1>2, FS_Subset, FS_CardinalityType

\* Where a request goes when it gives its slot back.
LabelsWithoutSlot == Labels \ (WithSlot \union {"queued"})

\* The slot of r goes to the first caller in the queue or becomes free: the count
\* stays the number of holders, and nobody is left waiting beside a free slot.
LEMMA ReleaseKeepsPool ==
  ASSUME ProviderInv, NEW r \in Requests, NEW label \in LabelsWithoutSlot,
         slot[r] # "none", ReleaseSlot(r, label)
  PROVE  /\ active' \in Nat
         /\ queue' \in Seq(Requests)
         /\ slot' \in [Requests -> {"none", "held", "kept"}]
         /\ pc' \in [Requests -> Labels]
         /\ Queueing'
         /\ Counting'
<1>0. /\ active \in Nat
      /\ queue \in Seq(Requests)
      /\ slot \in [Requests -> {"none", "held", "kept"}]
      /\ pc \in [Requests -> Labels]
      /\ SlotUse /\ Queueing /\ Counting
  BY DEF ProviderInv, Types
<1> USE <1>0
<1>1. IsFiniteSet(Occupied) /\ active = Cardinality(Occupied) /\ r \in Occupied
  BY OccupiedFinite DEF Counting, Occupied
<1>2. Cardinality(Occupied \ {r}) = active - 1 /\ IsFiniteSet(Occupied \ {r})
  BY <1>1, FS_RemoveElement
<1>3. active >= 1
  BY <1>1, <1>2, FS_CardinalityType
<1>4. CASE queue = <<>>
  <2>1. /\ active' = active - 1
        /\ slot' = [slot EXCEPT ![r] = "none"]
        /\ pc' = [pc EXCEPT ![r] = label]
        /\ queue' = queue
    BY <1>4 DEF ReleaseSlot, Goto
  <2>2. Occupied' = Occupied \ {r}
    BY <2>1 DEF Occupied
  <2>3. Queueing'
    BY <1>4, <2>1 DEF Queueing
  <2>4. Counting'
    BY <1>1, <1>2, <1>3, <1>4, <2>1, <2>2, ProviderAssumption DEF Counting
  <2> QED
    BY <1>3, <2>1, <2>3, <2>4 DEF LabelsWithoutSlot
<1>5. CASE queue # <<>>
  <2> DEFINE q == Head(queue)
  <2>1. /\ slot' = [slot EXCEPT ![r] = "none", ![q] = "held"]
        /\ queue' = Tail(queue)
        /\ pc' = [pc EXCEPT ![r] = label, ![q] = "slot"]
        /\ active' = active
    BY <1>5 DEF ReleaseSlot
  <2>2. /\ q \in Requests
        /\ q = queue[1]
        /\ Len(queue) \in Nat \ {0}
        /\ queue' \in Seq(Requests)
        /\ Len(queue') = Len(queue) - 1
        /\ \A i \in 1 .. Len(queue') : queue'[i] = queue[i + 1]
    BY <1>5, <2>1
  <2> HIDE DEF q
  <2>3. pc[q] = "queued"
    <3>1. 1 \in 1 .. Len(queue)
      BY <2>2
    <3> QED
      BY <2>2, <3>1 DEF Queueing
  <2>4. slot[q] = "none" /\ q # r
    BY <2>2, <2>3 DEF SlotUse, WithSlot
  <2>5. Occupied' = (Occupied \ {r}) \union {q} /\ q \notin Occupied \ {r}
    <3>1. \A x \in Requests :
            slot'[x] = IF x = q THEN "held" ELSE IF x = r THEN "none" ELSE slot[x]
      BY <2>1, <2>2
    <3>2. \A x \in Requests :
            x \in Occupied' <=> x \in (Occupied \ {r}) \union {q}
      BY <2>2, <2>4, <3>1 DEF Occupied
    <3>3. Occupied' \subseteq Requests /\ Occupied \subseteq Requests
      BY DEF Occupied
    <3> QED
      BY <2>2, <2>4, <3>2, <3>3 DEF Occupied
  <2>6. Cardinality(Occupied') = active
    <3>1. Cardinality((Occupied \ {r}) \union {q}) = active - 1 + 1
      BY <1>2, <2>5, FS_AddElement
    <3> QED
      BY <2>5, <3>1
  <2>7. Counting'
    BY <1>5, <2>1, <2>6 DEF Counting
  <2>8. \A i \in 1 .. Len(queue') : queue'[i] # q /\ queue'[i] # r
    <3> SUFFICES ASSUME NEW i \in 1 .. Len(queue')
                 PROVE  queue'[i] # q /\ queue'[i] # r
      OBVIOUS
    <3>1. i + 1 \in 1 .. Len(queue) /\ 1 \in 1 .. Len(queue) /\ i + 1 # 1
      BY <2>2
    <3>2. queue[i + 1] # queue[1] /\ pc[queue[i + 1]] = "queued"
      BY <3>1 DEF Queueing
    <3>3. pc[r] # "queued"
      BY DEF SlotUse, WithSlot
    <3> QED
      BY <2>2, <3>2, <3>3
  <2>9. Queueing'
    <3>1. ASSUME NEW i \in 1 .. Len(queue') PROVE pc'[queue'[i]] = "queued"
      <4>1. queue'[i] \in Requests
        BY <2>2
      <4>2. pc'[queue'[i]] = pc[queue'[i]]
        BY <2>1, <2>8, <4>1
      <4>3. i + 1 \in 1 .. Len(queue) /\ queue'[i] = queue[i + 1]
        BY <2>2
      <4> QED
        BY <4>2, <4>3 DEF Queueing
    <3>2. ASSUME NEW i \in 1 .. Len(queue'), NEW j \in 1 .. Len(queue'),
                 queue'[i] = queue'[j]
          PROVE  i = j
      <4>1. i + 1 \in 1 .. Len(queue) /\ j + 1 \in 1 .. Len(queue)
        BY <2>2
      <4>2. i + 1 = j + 1
        BY <2>2, <3>2, <4>1 DEF Queueing
      <4> QED
        BY <4>2
    <3> QED
      BY <3>1, <3>2 DEF Queueing
  <2> QED
    BY <2>1, <2>2, <2>7, <2>9 DEF LabelsWithoutSlot, Labels
<1> QED
  BY <1>4, <1>5

-----------------------------------------------------------------------------
(* Each step of the provider keeps its invariant *)

\* A request that has ended stays as it is.
EndedStay == \A r \in Requests : Ended(r) => pc'[r] = pc[r]

\* While nobody takes or gives back a slot or leaves the queue, both stay right.
LEMMA SamePool ==
  ASSUME ProviderInv,
         active' = active, queue' = queue,
         \A x \in Requests : slot'[x] # "none" <=> slot[x] # "none",
         \A x \in Requests : pc[x] = "queued" => pc'[x] = "queued"
  PROVE  Queueing' /\ Counting'
<1>1. Occupied' = Occupied
  BY DEF Occupied
<1>2. Counting'
  BY <1>1 DEF ProviderInv, Counting
<1>3. \A i \in 1 .. Len(queue) : queue[i] \in Requests
  BY DEF ProviderInv, Types
<1>4. Queueing'
  BY <1>3 DEF ProviderInv, Queueing
<1> QED
  BY <1>2, <1>4

LEMMA CooldownType ==
  ASSUME Types
  PROVE  Cooldown \in Nat
BY ProviderAssumption DEF Types, Cooldown

\* Waiting for the cooldown costs budget.
LEMMA WaitForCooldownKeeps ==
  ASSUME ProviderInv, NEW r \in Requests, WaitForCooldown(r)
  PROVE  ProviderInv' /\ EndedStay
<1> USE DEF ProviderInv
<1>1. /\ pc[r] = "cool"
      /\ \E l \in {"acquire", "failed", "coolSleep"} : pc' = [pc EXCEPT ![r] = l]
      /\ UNCHANGED <<now, cooldown, pool, attempt, deadline, aborted, host, beside>>
  BY DEF WaitForCooldown, Goto, Sleep
<1>2. /\ wake' \in [Requests -> Nat]
      /\ waited' \in [Requests -> Nat]
      /\ \A q \in Requests : waited'[q] <= WaitLimit
  <2>1. Cooldown \in Nat
    BY CooldownType
  <2>2. CASE UNCHANGED <<waited, wake>>
    BY <2>2 DEF Types, Budgets
  <2>3. CASE /\ waited[r] + Cooldown <= WaitLimit
             /\ waited' = [waited EXCEPT ![r] = waited[r] + Cooldown]
             /\ wake' = [wake EXCEPT ![r] = now + Cooldown]
    BY <2>1, <2>3 DEF Types, Budgets
  <2> QED
    BY <2>2, <2>3 DEF WaitForCooldown, Sleep
<1>3. Types'
  <2>1. pc' \in [Requests -> Labels]
    BY <1>1 DEF Types, Labels
  <2> QED
    BY <1>1, <1>2, <2>1 DEF Types, pool, host, cooldown
<1>4. Budgets'
  BY <1>1, <1>2 DEF Types, Budgets
<1>5. SlotUse'
  BY <1>1 DEF Types, SlotUse, WithSlot, pool, host
<1>6. Queueing' /\ Counting'
  BY <1>1, SamePool DEF Types, pool
<1>7. Looked'
  BY <1>1 DEF Types, Looked, Unsettled, host, cooldown
<1>8. EndedStay
  BY <1>1 DEF Types, EndedStay, Ended
<1> QED
  BY <1>3, <1>4, <1>5, <1>6, <1>7, <1>8

\* A delay ends.
LEMMA WakeKeeps ==
  ASSUME ProviderInv, NEW r \in Requests, Wake(r)
  PROVE  ProviderInv' /\ EndedStay
<1> USE DEF ProviderInv
<1>1. Types'
  BY DEF Types, Wake, pool, budget, host, cooldown, Goto, Labels, Sleeping
<1>2. Budgets'
  BY ProviderAssumption DEF Requests, Types, Budgets, Wake, pool, budget, host, cooldown, Goto, Labels, Sleeping
<1>3. SlotUse'
  BY DEF Types, SlotUse, WithSlot, Wake, pool, budget, host, cooldown, Goto, Labels, Sleeping
<1>4. Queueing' /\ Counting'
  BY SamePool DEF Types, Wake, pool, budget, host, cooldown, Goto, Labels, Sleeping
<1>5. Looked'
  BY DEF Types, Looked, Unsettled, Wake, pool, budget, host, cooldown, Goto, Labels, Sleeping
<1>6. EndedStay
  BY DEF Types, EndedStay, Ended, Wake, pool, budget, host, cooldown, Goto, Labels, Sleeping
<1> QED
  BY <1>1, <1>2, <1>3, <1>4, <1>5, <1>6

\* An operation starts.
LEMMA StartKeeps ==
  ASSUME ProviderInv, NEW r \in Requests, Start(r)
  PROVE  ProviderInv' /\ EndedStay
<1> USE DEF ProviderInv
<1>1. Types'
  BY DEF Types, Start, pool, budget, host, cooldown, Goto, Labels
<1>2. Budgets'
  BY DEF Types, Budgets, Start, pool, budget, host, cooldown, Goto, Labels
<1>3. SlotUse'
  BY DEF Types, SlotUse, WithSlot, Start, pool, budget, host, cooldown, Goto, Labels
<1>4. Queueing' /\ Counting'
  BY SamePool DEF Types, Start, pool, budget, host, cooldown, Goto, Labels
<1>5. Looked'
  BY DEF Types, Looked, Unsettled, Start, pool, budget, host, cooldown, Goto, Labels
<1>6. EndedStay
  BY DEF Types, EndedStay, Ended, Start, pool, budget, host, cooldown, Goto, Labels
<1> QED
  BY <1>1, <1>2, <1>3, <1>4, <1>5, <1>6

\* A resource is retained.
LEMMA RetainKeeps ==
  ASSUME ProviderInv, NEW r \in Requests, Retain(r)
  PROVE  ProviderInv' /\ EndedStay
<1> USE DEF ProviderInv
<1>1. Types'
  BY DEF Types, Retain, pool, budget, host, cooldown, Goto, Labels
<1>2. Budgets'
  BY DEF Types, Budgets, Retain, pool, budget, host, cooldown, Goto, Labels
<1>3. SlotUse'
  BY DEF Types, SlotUse, WithSlot, Retain, pool, budget, host, cooldown, Goto, Labels
<1>4. Queueing' /\ Counting'
  BY SamePool DEF Types, Retain, pool, budget, host, cooldown, Goto, Labels
<1>5. Looked'
  BY DEF Types, Looked, Unsettled, Retain, pool, budget, host, cooldown, Goto, Labels
<1>6. EndedStay
  BY DEF Types, EndedStay, Ended, Retain, pool, budget, host, cooldown, Goto, Labels
<1> QED
  BY <1>1, <1>2, <1>3, <1>4, <1>5, <1>6

\* A resource is closed.
LEMMA CloseResourceKeeps ==
  ASSUME ProviderInv, NEW r \in Requests, CloseResource(r)
  PROVE  ProviderInv' /\ EndedStay
<1> USE DEF ProviderInv
<1>1. Types'
  BY DEF Types, CloseResource, pool, budget, host, cooldown, Goto, Labels
<1>2. Budgets'
  BY DEF Types, Budgets, CloseResource, pool, budget, host, cooldown, Goto, Labels
<1>3. SlotUse'
  BY DEF Types, SlotUse, WithSlot, CloseResource, pool, budget, host, cooldown, Goto, Labels
<1>4. Queueing' /\ Counting'
  BY SamePool DEF Types, CloseResource, pool, budget, host, cooldown, Goto, Labels
<1>5. Looked'
  BY DEF Types, Looked, Unsettled, CloseResource, pool, budget, host, cooldown, Goto, Labels
<1>6. EndedStay
  BY DEF Types, EndedStay, Ended, CloseResource, pool, budget, host, cooldown, Goto, Labels
<1> QED
  BY <1>1, <1>2, <1>3, <1>4, <1>5, <1>6

\* An operation settles.
LEMMA SettleKeeps ==
  ASSUME ProviderInv, NEW r \in Requests, Settle(r)
  PROVE  ProviderInv' /\ EndedStay
<1> USE DEF ProviderInv
<1>1. Types'
  <2>1. \A delay \in Delays : delay \in Nat /\ Larger(cooldownUntil, now + delay) \in Nat
    BY ProviderAssumption DEF Types, Larger
  <2>2. \A outcome \in {"ok", "rate", "transient", "terminal"}, delay \in Delays :
          [outcome |-> outcome, delay |-> delay] \in [outcome : Outcomes, delay : Nat]
    BY <2>1 DEF Outcomes
  <2>3. r \in Nat
    BY DEF Requests
  <2>4. work' \in [Requests -> {"none", "running", "settled"}]
    BY DEF Types, Settle
  <2>5. result' \in [Requests -> [outcome : Outcomes, delay : Nat]]
    <3>1. CASE result' = result
      BY <3>1 DEF Types
    <3>2. ASSUME NEW outcome \in {"ok", "rate", "transient", "terminal"},
                 NEW delay \in Delays,
                 result' = [result EXCEPT ![r] = [outcome |-> outcome, delay |-> delay]]
          PROVE  result' \in [Requests -> [outcome : Outcomes, delay : Nat]]
      <4> DEFINE settled == [outcome |-> outcome, delay |-> delay]
      <4>1. settled \in [outcome : Outcomes, delay : Nat]
        BY <2>2
      <4>2. result' = [result EXCEPT ![r] = settled]
        BY <3>2
      <4> HIDE DEF settled
      <4> QED
        BY <4>1, <4>2 DEF Types
    <3> QED
      BY <3>1, <3>2 DEF Settle
  <2>6. cooldownUntil' \in Nat /\ limiter' \in Nat
    BY <2>1, <2>3 DEF Types, Settle, cooldown
  <2> QED
    BY <2>4, <2>5, <2>6 DEF Types, Settle, pool, budget
<1>2. Budgets'
  BY DEF Types, Budgets, Settle, pool, budget, host, cooldown, Goto, Labels, Larger, Outcomes
<1>3. SlotUse'
  BY DEF Types, SlotUse, WithSlot, Settle, pool, budget, host, cooldown, Goto, Labels, Larger, Outcomes
<1>4. Queueing' /\ Counting'
  BY SamePool DEF Types, Settle, pool, budget, host, cooldown, Goto, Labels, Larger, Outcomes
<1>5. Looked'
  <2> SUFFICES ASSUME NEW q \in Requests, pc[q] = "start"
               PROVE  /\ Unsettled' \subseteq beside[q]
                      /\ cooldownUntil' > now => limiter' \in beside[q]
    BY DEF Looked, Settle, pool, budget
  <2>1. Unsettled \subseteq beside[q] /\ r \in Unsettled
    BY DEF Looked, Unsettled, Settle
  <2>2. Unsettled' \subseteq Unsettled
    BY DEF Types, Unsettled, Settle
  <2>3. (cooldownUntil' = cooldownUntil /\ limiter' = limiter) \/ limiter' = r
    BY DEF Settle, cooldown
  <2> QED
    BY <2>1, <2>2, <2>3 DEF Looked
<1>6. EndedStay
  BY DEF Types, EndedStay, Ended, Settle, pool, budget, host, cooldown, Goto, Labels, Larger, Outcomes
<1> QED
  BY <1>1, <1>2, <1>3, <1>4, <1>5, <1>6

\* A caller leaves its operation.
LEMMA LeaveUseKeeps ==
  ASSUME ProviderInv, NEW r \in Requests, LeaveUse(r)
  PROVE  ProviderInv' /\ EndedStay
<1> USE DEF ProviderInv
<1>1. Types'
  BY DEF Types, LeaveUse, pool, budget, host, cooldown, Goto, Labels
<1>2. Budgets'
  BY DEF Types, Budgets, LeaveUse, pool, budget, host, cooldown, Goto, Labels
<1>3. SlotUse'
  BY DEF Types, SlotUse, WithSlot, LeaveUse, pool, budget, host, cooldown, Goto, Labels
<1>4. Queueing' /\ Counting'
  BY SamePool DEF Types, SlotUse, WithSlot, LeaveUse, pool, budget, host, cooldown, Goto, Labels
<1>5. Looked'
  BY DEF Types, Looked, Unsettled, LeaveUse, pool, budget, host, cooldown, Goto, Labels
<1>6. EndedStay
  BY DEF Types, EndedStay, Ended, LeaveUse, pool, budget, host, cooldown, Goto, Labels
<1> QED
  BY <1>1, <1>2, <1>3, <1>4, <1>5, <1>6

\* A request retries or ends.
LEMMA ConcludeKeeps ==
  ASSUME ProviderInv, NEW r \in Requests, Conclude(r)
  PROVE  ProviderInv' /\ EndedStay
<1> USE DEF ProviderInv
<1>1. /\ pc[r] = "after"
      /\ \E l \in {"backoff", "ok", "failed"} :
           /\ pc' = [pc EXCEPT ![r] = l]
           /\ l = "backoff" => attempt[r] < Retries[r]
      /\ result' = [result EXCEPT ![r] = NoResult]
      /\ UNCHANGED <<now, cooldown, pool, attempt, deadline, aborted, work, resource,
                     beside>>
  BY DEF Conclude, Goto, Sleep, Retryable
<1>2. /\ wake' \in [Requests -> Nat]
      /\ waited' \in [Requests -> Nat]
      /\ \A q \in Requests : waited'[q] <= WaitLimit
  <2>1. result[r].delay \in Nat
    BY DEF Types
  <2>2. CASE UNCHANGED <<waited, wake>>
    BY <2>2 DEF Types, Budgets
  <2>3. CASE /\ waited[r] + result[r].delay <= WaitLimit
             /\ waited' = [waited EXCEPT ![r] = waited[r] + result[r].delay]
             /\ wake' = [wake EXCEPT ![r] = now + result[r].delay]
    BY <2>1, <2>3 DEF Types, Budgets
  <2> QED
    BY <2>2, <2>3 DEF Conclude, Sleep, Retryable
<1>3. Types'
  <2>1. NoResult \in [outcome : Outcomes, delay : Nat]
    BY DEF NoResult, Outcomes
  <2>2. result' \in [Requests -> [outcome : Outcomes, delay : Nat]]
    BY <1>1, <2>1 DEF Types
  <2>3. pc' \in [Requests -> Labels]
    BY <1>1 DEF Types, Labels
  <2> QED
    BY <1>1, <1>2, <2>2, <2>3 DEF Types, pool, cooldown
<1>4. Budgets'
  BY <1>1, <1>2 DEF Types, Budgets
<1>5. SlotUse'
  BY <1>1 DEF Types, SlotUse, WithSlot, pool
<1>6. Queueing' /\ Counting'
  BY <1>1, SamePool DEF Types, pool
<1>7. Looked'
  BY <1>1 DEF Types, Looked, Unsettled, cooldown
<1>8. EndedStay
  BY <1>1 DEF Types, EndedStay, Ended
<1> QED
  BY <1>3, <1>4, <1>5, <1>6, <1>7, <1>8

\* A request gets a slot, a place in the queue, or neither.
LEMMA AcquireKeeps ==
  ASSUME ProviderInv, NEW r \in Requests, Acquire(r)
  PROVE  ProviderInv' /\ EndedStay
<1> USE DEF ProviderInv
<1>0. /\ pc[r] = "acquire" /\ slot[r] = "none"
      /\ UNCHANGED <<now, cooldown, budget, deadline, aborted, host, beside>>
  BY DEF Acquire, Types, SlotUse, WithSlot
<1>1. CASE /\ active < Concurrency
           /\ active' = active + 1
           /\ slot' = [slot EXCEPT ![r] = "held"]
           /\ pc' = [pc EXCEPT ![r] = "slot"]
           /\ queue' = queue
  <2>1. queue = <<>>
    BY <1>1, ProviderAssumption DEF Types, Counting
  <2>2. Queueing'
    BY <1>1, <2>1 DEF Queueing
  <2>3. Occupied' = Occupied \union {r} /\ r \notin Occupied
    <3>1. \A x \in Requests : x \in Occupied' <=> x \in Occupied \union {r}
      BY <1>1 DEF Types, Occupied
    <3> QED
      BY <1>0, <3>1 DEF Occupied
  <2>4. Cardinality(Occupied') = active + 1
    BY <2>3, OccupiedFinite, FS_AddElement DEF Types, Counting
  <2>5. Counting'
    BY <1>1, <2>1, <2>4, ProviderAssumption DEF Types, Counting
  <2>6. Types'
    BY <1>0, <1>1 DEF Types, Labels, cooldown, budget, host
  <2> QED
    BY <1>0, <1>1, <2>2, <2>5, <2>6
       DEF Types, Budgets, SlotUse, WithSlot, Looked, Unsettled, EndedStay, Ended,
           cooldown, budget, host
<1>2. CASE /\ pc' = [pc EXCEPT ![r] = "failed"]
           /\ UNCHANGED pool
  <2>1. Queueing' /\ Counting'
    BY <1>0, <1>2, SamePool DEF Types, pool
  <2>2. Types'
    BY <1>0, <1>2 DEF Types, Labels, cooldown, budget, host, pool
  <2> QED
    BY <1>0, <1>2, <2>1, <2>2
       DEF Types, Budgets, SlotUse, WithSlot, Looked, Unsettled, EndedStay, Ended,
           cooldown, budget, host, pool
<1>3. CASE /\ active >= Concurrency
           /\ queue' = Append(queue, r)
           /\ pc' = [pc EXCEPT ![r] = "queued"]
           /\ UNCHANGED <<active, slot>>
  <2>1. Types'
    BY <1>0, <1>3 DEF Types, Labels, cooldown, budget, host
  <2>2. /\ Len(queue) \in Nat
        /\ Len(queue') = Len(queue) + 1
        /\ queue'[Len(queue) + 1] = r
        /\ \A i \in 1 .. Len(queue) : queue'[i] = queue[i]
    BY <1>3 DEF Types
  <2>3. \A i \in 1 .. Len(queue) : queue[i] \in Requests /\ queue[i] # r
    <3>1. \A i \in 1 .. Len(queue) : queue[i] \in Requests
      BY DEF Types
    <3>2. \A i \in 1 .. Len(queue) : pc[queue[i]] = "queued"
      BY DEF Queueing
    <3> QED
      BY <1>0, <3>1, <3>2
  <2>4. \A i \in 1 .. Len(queue') : pc'[queue'[i]] = "queued"
    <3> SUFFICES ASSUME NEW i \in 1 .. Len(queue')
                 PROVE  pc'[queue'[i]] = "queued"
      OBVIOUS
    <3>1. CASE i = Len(queue) + 1
      BY <1>3, <2>2, <3>1 DEF Types
    <3>2. CASE i \in 1 .. Len(queue)
      BY <1>3, <2>2, <2>3, <3>2 DEF Types, Queueing
    <3> QED
      BY <2>2, <3>1, <3>2
  <2>5. \A i, j \in 1 .. Len(queue') : queue'[i] = queue'[j] => i = j
    <3> SUFFICES ASSUME NEW i \in 1 .. Len(queue'), NEW j \in 1 .. Len(queue'),
                        queue'[i] = queue'[j]
                 PROVE  i = j
      OBVIOUS
    <3>1. CASE i \in 1 .. Len(queue) /\ j \in 1 .. Len(queue)
      BY <2>2, <3>1 DEF Queueing
    <3>2. CASE i = Len(queue) + 1 \/ j = Len(queue) + 1
      BY <2>2, <2>3, <3>2
    <3> QED
      BY <2>2, <3>1, <3>2
  <2>6. Counting'
    BY <1>3, ProviderAssumption DEF Types, Counting, Occupied
  <2>7. Queueing'
    BY <2>4, <2>5 DEF Queueing
  <2>8. SlotUse'
    BY <1>0, <1>3 DEF Types, SlotUse, WithSlot, host
  <2>9. Budgets' /\ Looked' /\ EndedStay
    BY <1>0, <1>3
       DEF Types, Budgets, Looked, Unsettled, EndedStay, Ended, cooldown, budget, host
  <2> QED
    BY <2>1, <2>6, <2>7, <2>8, <2>9
<1> QED
  BY <1>1, <1>2, <1>3 DEF Acquire, Goto

\* What handing a slot over does to each request.
LEMMA ReleaseEffect ==
  ASSUME ProviderInv, NEW r \in Requests, NEW label, slot[r] # "none",
         ReleaseSlot(r, label)
  PROVE  /\ slot'[r] = "none" /\ pc'[r] = label
         /\ \A x \in Requests \ {r} :
              \/ slot'[x] = slot[x] /\ pc'[x] = pc[x]
              \/ /\ pc[x] = "queued" /\ slot[x] = "none"
                 /\ pc'[x] = "slot" /\ slot'[x] = "held"
<1>0. /\ queue \in Seq(Requests)
      /\ slot \in [Requests -> {"none", "held", "kept"}]
      /\ pc \in [Requests -> Labels]
      /\ SlotUse /\ Queueing
  BY DEF ProviderInv, Types
<1> USE <1>0
<1>1. CASE queue = <<>>
  BY <1>1 DEF ReleaseSlot, Goto
<1>2. CASE queue # <<>>
  <2> DEFINE q == Head(queue)
  <2>1. 1 \in 1 .. Len(queue) /\ q \in Requests /\ q = queue[1]
    BY <1>2
  <2>2. /\ slot' = [slot EXCEPT ![r] = "none", ![q] = "held"]
        /\ pc' = [pc EXCEPT ![r] = label, ![q] = "slot"]
    BY <1>2 DEF ReleaseSlot
  <2> HIDE DEF q
  <2>3. pc[q] = "queued" /\ slot[q] = "none" /\ q # r
    BY <2>1 DEF Queueing, SlotUse, WithSlot
  <2> QED
    BY <2>1, <2>2, <2>3
<1> QED
  BY <1>1, <1>2

\* A slot that is given back by its last user.
LEMMA ReleaseSlotKeeps ==
  ASSUME ProviderInv, NEW r \in Requests, NEW label \in LabelsWithoutSlot,
         slot[r] # "none", ReleaseSlot(r, label),
         label = "backoff" => attempt[r] < Retries[r],
         resource[r] # "kept",
         work' = [work EXCEPT ![r] = "none"],
         Ended(r) => label = pc[r],
         UNCHANGED <<now, cooldown, attempt, resource>>,
         waited' = waited,
         beside' = beside \/ beside' = [beside EXCEPT ![r] = Unsettled],
         aborted' \in [Requests -> BOOLEAN],
         wake' \in [Requests -> Nat],
         UNCHANGED <<deadline, result>>
  PROVE  ProviderInv' /\ EndedStay
<1> USE DEF ProviderInv
<1>1. /\ active' \in Nat
      /\ queue' \in Seq(Requests)
      /\ slot' \in [Requests -> {"none", "held", "kept"}]
      /\ pc' \in [Requests -> Labels]
      /\ Queueing' /\ Counting'
  BY ReleaseKeepsPool
<1>2. /\ slot'[r] = "none" /\ pc'[r] = label
      /\ \A x \in Requests \ {r} :
           \/ slot'[x] = slot[x] /\ pc'[x] = pc[x]
           \/ /\ pc[x] = "queued" /\ slot[x] = "none"
              /\ pc'[x] = "slot" /\ slot'[x] = "held"
  BY ReleaseEffect
<1>3. Types'
  <2>1. beside' \in [Requests -> SUBSET Requests]
    <3>1. Unsettled \in SUBSET Requests
      BY DEF Unsettled
    <3> QED
      BY <3>1 DEF Types
  <2> QED
    BY <1>1, <2>1 DEF Types, cooldown
<1>4. Budgets'
  BY <1>2 DEF Types, Budgets
<1>5. SlotUse'
  BY <1>2 DEF Types, SlotUse, WithSlot, LabelsWithoutSlot, Labels
<1>6. Looked'
  <2> SUFFICES ASSUME NEW q \in Requests, pc'[q] = "start"
               PROVE  /\ Unsettled' \subseteq beside'[q]
                      /\ cooldownUntil > now => limiter \in beside'[q]
    BY DEF Looked, cooldown
  <2>1. q # r /\ pc[q] = "start"
    BY <1>2 DEF LabelsWithoutSlot, WithSlot
  <2>2. Unsettled' \subseteq Unsettled /\ beside'[q] = beside[q]
    BY <2>1 DEF Types, Unsettled
  <2> QED
    BY <2>1, <2>2 DEF Looked
<1>7. EndedStay
  BY <1>2 DEF EndedStay, Ended
<1> QED
  BY <1>1, <1>3, <1>4, <1>5, <1>6, <1>7

\* The last look at the cooldown, with a slot: go on, wait again or give it back.
LEMMA EnterSlotKeeps ==
  ASSUME ProviderInv, NEW r \in Requests, EnterSlot(r)
  PROVE  ProviderInv' /\ EndedStay
<1> USE DEF ProviderInv
<1>0. /\ pc[r] = "slot" /\ slot[r] = "held" /\ work[r] = "none"
      /\ resource[r] # "kept"
      /\ beside' = [beside EXCEPT ![r] = Unsettled]
      /\ UNCHANGED <<now, cooldown, attempt, deadline, aborted, host>>
  BY DEF EnterSlot, SlotUse, WithSlot
<1>1. beside' \in [Requests -> SUBSET Requests] /\ Cooldown \in Nat
  <2>1. Unsettled \in SUBSET Requests
    BY DEF Unsettled
  <2> QED
    BY <1>0, <2>1, CooldownType DEF Types
<1>2. CASE /\ Cooldown = 0
           /\ pc' = [pc EXCEPT ![r] = "start"]
           /\ UNCHANGED <<pool, waited, wake>>
  <2>1. Types'
    BY <1>0, <1>1, <1>2 DEF Types, Labels, cooldown, host, pool
  <2>2. Queueing' /\ Counting'
    BY <1>0, <1>2, SamePool DEF Types, pool
  <2>3. SlotUse'
    BY <1>0, <1>2 DEF Types, SlotUse, WithSlot, host, pool
  <2>4. Looked'
    <3>1. ~(cooldownUntil > now)
      BY <1>2 DEF Types, Cooldown
    <3>2. beside'[r] = Unsettled /\ \A q \in Requests \ {r} : beside'[q] = beside[q]
      BY <1>0 DEF Types
    <3> QED
      BY <1>0, <1>2, <3>1, <3>2 DEF Types, Looked, Unsettled, cooldown, host
  <2>5. Budgets' /\ EndedStay
    BY <1>0, <1>2 DEF Types, Budgets, EndedStay, Ended
  <2> QED
    BY <2>1, <2>2, <2>3, <2>4, <2>5
<1>3. CASE /\ ReleaseSlot(r, "failed")
           /\ UNCHANGED <<waited, wake>>
  <2>1. work' = [work EXCEPT ![r] = "none"]
    BY <1>0 DEF Types, host
  <2>2. "failed" \in LabelsWithoutSlot /\ ~Ended(r)
    BY <1>0 DEF LabelsWithoutSlot, Labels, WithSlot, Ended
  <2> QED
    BY <1>0, <1>3, <2>1, <2>2, ReleaseSlotKeeps DEF Types, host
<1>4. CASE /\ waited[r] + Cooldown <= WaitLimit
           /\ waited' = [waited EXCEPT ![r] = waited[r] + Cooldown]
           /\ wake' = [wake EXCEPT ![r] = now + Cooldown]
           /\ pc' = [pc EXCEPT ![r] = "slotSleep"]
           /\ UNCHANGED pool
  <2>1. /\ waited' \in [Requests -> Nat]
        /\ wake' \in [Requests -> Nat]
        /\ \A q \in Requests : waited'[q] <= WaitLimit
    BY <1>1, <1>4 DEF Types, Budgets
  <2>2. Types'
    BY <1>0, <1>1, <1>4, <2>1 DEF Types, Labels, cooldown, host, pool
  <2>3. Queueing' /\ Counting'
    BY <1>0, <1>4, SamePool DEF Types, pool
  <2>4. SlotUse'
    BY <1>0, <1>4 DEF Types, SlotUse, WithSlot, host, pool
  <2>5. Looked'
    BY <1>0, <1>4 DEF Types, Looked, Unsettled, cooldown, host
  <2>6. Budgets' /\ EndedStay
    BY <1>0, <1>4, <2>1 DEF Types, Budgets, EndedStay, Ended
  <2> QED
    BY <2>2, <2>3, <2>4, <2>5, <2>6
<1> QED
  BY <1>2, <1>3, <1>4 DEF EnterSlot, Goto, Sleep

\* A slot whose operation and resources have settled goes.
LEMMA ReleaseKeeps ==
  ASSUME ProviderInv, NEW r \in Requests, Release(r)
  PROVE  ProviderInv' /\ EndedStay
<1>1. slot[r] = "kept" /\ pc[r] \in {"after", "backoff", "ok", "failed"}
  BY DEF ProviderInv, SlotUse, Release
<1>2. pc[r] \in LabelsWithoutSlot
  BY <1>1 DEF LabelsWithoutSlot, Labels, WithSlot
<1>3. pc[r] = "backoff" => attempt[r] < Retries[r]
  BY DEF ProviderInv, Budgets
<1> QED
  BY <1>1, <1>2, <1>3, ReleaseSlotKeeps
     DEF Release, ProviderInv, Types, budget, cooldown

\* An aborted request fails, and gives back the slot it had.
LEMMA StopKeeps ==
  ASSUME ProviderInv, NEW r \in Requests, Stop(r)
  PROVE  ProviderInv' /\ EndedStay
<1> USE DEF ProviderInv
<1>0. /\ wake' \in [Requests -> Nat]
      /\ UNCHANGED <<now, cooldown, attempt, waited, deadline, aborted, host, beside>>
  BY DEF Stop, Types
<1>1. CASE /\ pc[r] \in {"cool", "coolSleep", "acquire", "backoff"}
           /\ pc' = [pc EXCEPT ![r] = "failed"]
           /\ UNCHANGED pool
  <2>1. Types'
    BY <1>0, <1>1 DEF Types, Labels, cooldown, host, pool
  <2>2. Queueing' /\ Counting'
    BY <1>1, SamePool DEF Types, pool
  <2>3. SlotUse'
    BY <1>0, <1>1 DEF Types, SlotUse, WithSlot, host, pool
  <2>4. Budgets' /\ Looked' /\ EndedStay
    BY <1>0, <1>1 DEF Types, Budgets, Looked, Unsettled, EndedStay, Ended, cooldown, host
  <2> QED
    BY <2>1, <2>2, <2>3, <2>4
<1>2. CASE pc[r] \in {"slot", "slotSleep"} /\ ReleaseSlot(r, "failed")
  <2>1. slot[r] = "held" /\ work[r] = "none" /\ resource[r] # "kept" /\ ~Ended(r)
    BY <1>2 DEF SlotUse, WithSlot, Ended
  <2>2. work' = [work EXCEPT ![r] = "none"]
    BY <1>0, <2>1 DEF Types, host
  <2>3. "failed" \in LabelsWithoutSlot
    BY DEF LabelsWithoutSlot, Labels, WithSlot
  <2> QED
    BY <1>0, <1>2, <2>1, <2>2, <2>3, ReleaseSlotKeeps DEF Types, host
<1> QED
  BY <1>1, <1>2 DEF Stop, Goto

LEMMA CallKeeps ==
  ASSUME ProviderInv, NEW r \in Requests, NEW failed \in BOOLEAN, Call(r, failed)
  PROVE  ProviderInv' /\ EndedStay
<1> USE DEF ProviderInv
<1>1. Types'
  <2>1. Timeout[r] \in Nat
    BY ProviderAssumption DEF Requests
  <2> QED
    BY <2>1 DEF Types, Labels, Call, Goto, cooldown, pool, budget, host
<1>2. Queueing' /\ Counting'
  BY SamePool DEF Types, Call, Goto, pool
<1>3. SlotUse'
  BY DEF Types, SlotUse, WithSlot, Call, Goto, pool, host
<1>4. Budgets' /\ Looked' /\ EndedStay
  BY DEF Types, Budgets, Looked, Unsettled, EndedStay, Ended, Call, Goto, cooldown,
         budget, host
<1> QED
  BY <1>1, <1>2, <1>3, <1>4

\* An abort that leaves in the queue those whose callers still wait.
LEMMA AbortKeeps ==
  ASSUME ProviderInv, NEW requests \in SUBSET Requests, NEW remaining \in Seq(Requests),
         Abort(requests, remaining),
         remaining # <<>> => queue # <<>>,
         \A i \in 1 .. Len(remaining) :
           pc[remaining[i]] = "queued" /\ remaining[i] \notin requests,
         \A i, j \in 1 .. Len(remaining) : remaining[i] = remaining[j] => i = j
  PROVE  ProviderInv' /\ EndedStay
<1> USE DEF ProviderInv
<1>1. /\ aborted' \in [Requests -> BOOLEAN]
      /\ queue' = remaining
      /\ pc' \in [Requests -> Labels]
      /\ \A r \in Requests :
           /\ pc'[r] = pc[r] \/ (pc[r] = "queued" /\ pc'[r] = "failed")
           /\ r \notin requests => pc'[r] = pc[r]
      /\ UNCHANGED <<now, cooldown, active, slot, budget, deadline, host, beside>>
  <2>1. aborted' \in [Requests -> BOOLEAN]
    <3>1. \A r \in Requests : (aborted[r] \/ r \in requests) \in BOOLEAN
      OBVIOUS
    <3> QED
      BY <3>1 DEF Abort
  <2>2. pc' = [r \in Requests |->
                IF r \in requests /\ pc[r] = "queued" THEN "failed" ELSE pc[r]]
    BY DEF Abort
  <2>3. pc' \in [Requests -> Labels]
    BY <2>2 DEF Types, Labels
  <2>4. UNCHANGED <<now, cooldown, active, slot, budget, deadline, host, beside>>
    BY DEF Abort
  <2>5. queue' = remaining
    BY DEF Abort
  <2>6. ASSUME NEW r \in Requests
        PROVE  /\ pc'[r] = pc[r] \/ (pc[r] = "queued" /\ pc'[r] = "failed")
               /\ r \notin requests => pc'[r] = pc[r]
    <3>1. CASE r \in requests /\ pc[r] = "queued"
      BY <2>2, <3>1
    <3>2. CASE r \notin requests \/ pc[r] # "queued"
      <4>1. pc'[r] = pc[r]
        BY <2>2, <3>2
      <4> QED
        BY <4>1
    <3> QED
      BY <3>1, <3>2
  <2> QED
    BY <2>1, <2>3, <2>4, <2>5, <2>6
<1>2. Types'
  BY <1>1 DEF Types, cooldown, budget, host
<1>3. Queueing'
  <2>1. \A i \in 1 .. Len(remaining) : remaining[i] \in Requests
    OBVIOUS
  <2> QED
    BY <1>1, <2>1 DEF Queueing
<1>4. Counting'
  BY <1>1 DEF Counting, Occupied
<1>5. SlotUse'
  BY <1>1 DEF SlotUse, WithSlot, host
<1>6. Budgets' /\ Looked' /\ EndedStay
  BY <1>1 DEF Budgets, Looked, Unsettled, EndedStay, Ended, cooldown, budget, host
<1> QED
  BY <1>2, <1>3, <1>4, <1>5, <1>6

\* A deadline takes one caller out of the queue, if it was there.
LEMMA ReachDeadlineKeeps ==
  ASSUME ProviderInv, NEW r \in Requests, ReachDeadline(r)
  PROVE  ProviderInv' /\ EndedStay
<1> USE DEF ProviderInv
<1>1. /\ queue \in Seq(Requests)
      /\ Len(queue) \in Nat
      /\ \A i \in 1 .. Len(queue) : queue[i] \in Requests /\ pc[queue[i]] = "queued"
      /\ \A i, j \in 1 .. Len(queue) : queue[i] = queue[j] => i = j
  BY DEF Types, Queueing
<1>2. CASE pc[r] # "queued" /\ Abort({r}, queue)
  BY <1>1, <1>2, AbortKeeps
<1>3. ASSUME NEW i \in 1 .. Len(queue), queue[i] = r, Abort({r}, QueueWithout(i))
      PROVE  ProviderInv' /\ EndedStay
  <2> DEFINE remaining == QueueWithout(i)
             from(j) == IF j < i THEN j ELSE j + 1
  <2>1. \A j \in 1 .. Len(queue) - 1 :
          from(j) \in 1 .. Len(queue) /\ from(j) # i
    BY <1>1
  <2>2. \A j, k \in 1 .. Len(queue) - 1 : from(j) = from(k) => j = k
    BY <1>1
  <2>3. remaining = [j \in 1 .. Len(queue) - 1 |-> queue[from(j)]]
    BY DEF QueueWithout
  <2> HIDE DEF from, remaining
  <2>4. remaining \in Seq(Requests) /\ Len(remaining) = Len(queue) - 1
    <3>1. Len(queue) - 1 \in Nat
      BY <1>1, <1>3
    <3>2. remaining \in [1 .. Len(queue) - 1 -> Requests]
      BY <1>1, <2>1, <2>3
    <3> QED
      BY <3>1, <3>2
  <2>5. \A j \in 1 .. Len(remaining) :
          pc[remaining[j]] = "queued" /\ remaining[j] \notin {r}
    BY <1>1, <1>3, <2>1, <2>3, <2>4
  <2>6. \A j, k \in 1 .. Len(remaining) : remaining[j] = remaining[k] => j = k
    <3> SUFFICES ASSUME NEW j \in 1 .. Len(queue) - 1, NEW k \in 1 .. Len(queue) - 1,
                        queue[from(j)] = queue[from(k)]
                 PROVE  j = k
      BY <2>3, <2>4
    <3>1. from(j) = from(k)
      BY <1>1, <2>1
    <3> QED
      BY <2>2, <3>1
  <2>7. Abort({r}, remaining) /\ queue # <<>>
    BY <1>1, <1>3 DEF remaining
  <2> QED
    BY <2>4, <2>5, <2>6, <2>7, AbortKeeps
<1> QED
  BY <1>2, <1>3 DEF ReachDeadline

\* The abort of everybody leaves nobody waiting.
LEMMA AbortAllKeeps ==
  ASSUME ProviderInv, Abort(Live, <<>>)
  PROVE  ProviderInv' /\ EndedStay
<1>1. Live \in SUBSET Requests
  BY DEF Live
<1> DEFINE nobody == <<>>
<1>2. nobody \in Seq(Requests) /\ 1 .. Len(nobody) = {} /\ Abort(Live, nobody)
  OBVIOUS
<1>3. nobody # <<>> => queue # <<>>
  OBVIOUS
<1> HIDE DEF nobody
<1> QED
  BY <1>1, <1>2, <1>3, AbortKeeps

LEMMA TickKeeps ==
  ASSUME ProviderInv, Tick
  PROVE  ProviderInv' /\ EndedStay
<1> USE DEF ProviderInv
<1>1. UNCHANGED <<cooldown, pool, pc, budget, deadline, aborted, host, beside>>
  BY DEF Tick
<1>2. Types'
  BY <1>1, ProviderAssumption DEF Types, Tick, cooldown, pool, budget, host
<1>3. Queueing' /\ Counting'
  BY <1>1, SamePool DEF pool
<1>4. Looked'
  BY <1>1 DEF Types, Looked, Unsettled, Tick, cooldown, host
<1>5. Budgets' /\ SlotUse' /\ EndedStay
  BY <1>1 DEF Budgets, SlotUse, EndedStay, Ended, budget, pool, host
<1> QED
  BY <1>2, <1>3, <1>4, <1>5

\* Every step of the provider, whoever takes it.
LEMMA ProviderStep ==
  ASSUME ProviderInv, ProviderMove
  PROVE  ProviderInv' /\ EndedStay
<1>1. ASSUME NEW r \in Requests, Advance(r)
      PROVE  ProviderInv' /\ EndedStay
  BY <1>1, WaitForCooldownKeeps, AcquireKeeps, EnterSlotKeeps, StartKeeps,
     LeaveUseKeeps, ReleaseKeeps, ConcludeKeeps, StopKeeps DEF Advance
<1>2. ASSUME NEW r \in Requests, Timer(r)
      PROVE  ProviderInv' /\ EndedStay
  BY <1>2, WakeKeeps, ReachDeadlineKeeps DEF Timer
<1>3. ASSUME NEW r \in Requests, Operate(r)
      PROVE  ProviderInv' /\ EndedStay
  BY <1>3, RetainKeeps, CloseResourceKeeps, SettleKeeps DEF Operate
<1>4. CASE UNCHANGED provider
  BY <1>4
     DEF ProviderInv, Types, Budgets, SlotUse, Queueing, Counting, Occupied, Looked,
         Unsettled, EndedStay, Ended, provider, cooldown, pool, budget, host
<1> QED
  BY <1>1, <1>2, <1>3, <1>4, CallKeeps, AbortAllKeeps, TickKeeps DEF ProviderMove

-----------------------------------------------------------------------------
(* Each step of mapConcurrent keeps its invariant *)

\* The executor touches its requests only by calling and aborting them.
LEMMA NextMovesProvider ==
  ASSUME ExecutorTypes, Next
  PROVE  ProviderMove
<1>1. ASSUME NEW r \in Requests, StartTask(r)
      PROVE  ProviderMove
  <2>1. (fatal # NoFailure) \in BOOLEAN
    OBVIOUS
  <2> QED
    BY <1>1, <2>1 DEF StartTask, ProviderMove
<1>2. ASSUME NEW r \in Requests, TimerOf(r) \/ Advance(r) \/ Operate(r)
      PROVE  ProviderMove
  BY <1>2 DEF TimerOf, ProviderMove
<1>3. ASSUME NEW failure, Fail(failure)
      PROVE  ProviderMove
  BY <1>3 DEF Fail, ProviderMove
<1>4. CASE UNCHANGED provider
  BY <1>4 DEF ProviderMove
<1>5. CASE EventLoop
  BY <1>1, <1>2, <1>3, <1>4, <1>5
     DEF EventLoop, Check, Throw, Drain, Drained, CloseSource, Time, TaskFails,
         ProviderMove
<1>6. CASE Environment
  BY <1>2, <1>3, <1>4, <1>6
     DEF Environment, Pull, SourceEnds, SourceFails, SourceReturns, ConsumerContinues,
         ConsumerStops, CallerAborts
<1> QED
  BY <1>4, <1>5, <1>6 DEF Next, Terminated, vars

\* A step of its tasks does not disturb the executor: what has ended stays.
LEMMA TasksKeep ==
  ASSUME ProviderInv, ExecutorInv, EndedStay, UNCHANGED executor
  PROVE  ExecutorInv'
<1> USE DEF ExecutorInv
<1>1. UNCHANGED <<mpc, next, inWindow, done, pending, reported, fatal, given, thrown,
                  primary, stopped>>
  BY DEF executor, window
<1>2. \A r \in Requests : TaskSettled(r) => TaskSettled(r)'
  BY <1>1 DEF EndedStay, Ended, TaskSettled
<1>3. ExecutorTypes'
  BY <1>1 DEF ExecutorTypes
<1>4. Failures'
  BY <1>1 DEF ExecutorTypes, Failures, EndedStay, Ended
<1>5. \A r \in 1 .. next - 1 : r \in Requests
  BY ProviderAssumption DEF ExecutorTypes, Requests
<1>6. Order'
  <2>1. \A r \in 1 .. given : r \in 1 .. next - 1
    BY DEF ExecutorTypes, Order
  <2> QED
    BY <1>1, <1>5, <2>1 DEF Order, EndedStay, Ended
<1>7. Closing'
  BY <1>1, <1>2, <1>5 DEF Closing
<1> QED
  BY <1>3, <1>4, <1>6, <1>7

\* A failure of the scope: the first one stays.
LEMMA FailKeeps ==
  ASSUME ProviderInv, ExecutorTypes, Failures, EndedStay,
         NEW failure \in 1 .. ConsumerClosed, Fail(failure)
  PROVE  /\ fatal' \in 1 .. ConsumerClosed
         /\ primary' = fatal'
         /\ fatal # NoFailure => fatal' = fatal
         /\ \A r \in Requests : TaskSettled(r) /\ reported' = reported => TaskSettled(r)'
BY ProviderAssumption
   DEF Fail, ExecutorTypes, Failures, EndedStay, Ended, TaskSettled, NoFailure,
       ConsumerClosed

LEMMA Reasons ==
  /\ {SourceFailed, CallerAborted, ConsumerClosed} \subseteq 1 .. ConsumerClosed
  /\ Requests \subseteq 1 .. ConsumerClosed
  /\ ConsumerClosed \in Nat
  /\ NoFailure = 0
BY ProviderAssumption
   DEF SourceFailed, CallerAborted, ConsumerClosed, NoFailure, Requests

\* What a step of the generator may rely on: what has settled or been given stays
\* so, and who is not pending has settled.
LEMMA Settled ==
  ASSUME ProviderInv, ExecutorInv, EndedStay, reported \subseteq reported'
  PROVE  /\ \A r \in 1 .. next - 1 : r \in Requests
         /\ \A r \in 1 .. given : r \in 1 .. next - 1 /\ pc'[r] = "ok"
         /\ \A r \in Requests : TaskSettled(r) => TaskSettled(r)'
         /\ mpc \notin {"closing", "returning", "done"} =>
              \A r \in 1 .. next - 1 :
                TaskSettled(r) \/ \E i \in 1 .. Len(pending) : pending[i] = r
<1> USE DEF ExecutorInv
<1>1. /\ next \in 1 .. RequestCount + 1 /\ RequestCount \in Nat
      /\ given \in Nat /\ given < next
      /\ reported \subseteq Requests
  BY ProviderAssumption DEF ExecutorTypes, Order
<1>2. \A r \in 1 .. next - 1 : r \in Requests
  BY <1>1 DEF Requests
<1>3. \A r \in 1 .. given : r \in 1 .. next - 1 /\ pc'[r] = "ok"
  BY <1>1, <1>2 DEF Order, EndedStay, Ended
<1>4. \A r \in Requests : TaskSettled(r) => TaskSettled(r)'
  BY DEF EndedStay, Ended, TaskSettled
<1>5. ASSUME mpc \notin {"closing", "returning", "done"}, NEW r \in 1 .. next - 1
      PROVE  TaskSettled(r) \/ \E i \in 1 .. Len(pending) : pending[i] = r
  <2>1. CASE r \in 1 .. given
    BY <2>1 DEF Order, TaskSettled
  <2>2. CASE r > given
    <3>1. r - given \in 1 .. Len(pending)
      BY <1>1, <1>5, <2>2 DEF Order
    <3>2. pending[r - given] = given + (r - given)
      BY <1>5, <3>1 DEF Order
    <3> QED
      BY <1>1, <3>1, <3>2
  <2> QED
    BY <1>1, <2>1, <2>2
<1> QED
  BY <1>2, <1>3, <1>4, <1>5

\* The order is kept by steps that take nothing from the source or the window.
LEMMA OrderKept ==
  ASSUME ProviderInv, ExecutorInv, EndedStay,
         UNCHANGED <<next, given, pending>>, reported \subseteq reported',
         done' = done \/ next = RequestCount + 1,
         mpc' \in {"closing", "returning", "done"} \/ mpc \notin {"closing", "returning", "done"}
  PROVE  Order'
<1>1. \A r \in 1 .. given : pc'[r] = "ok"
  BY Settled
<1> QED
  BY <1>1 DEF ExecutorInv, Order

\* The generator starts to close.
LEMMA CloseBegins ==
  ASSUME ProviderInv, ExecutorInv, EndedStay, reported \subseteq reported',
         mpc \notin {"closing", "returning", "done"}, mpc' = "closing",
         UNCHANGED <<next, pending>>,
         thrown' # NoFailure \/ given' = RequestCount \/ stopped'
  PROVE  Closing'
<1>1. \A r \in 1 .. next - 1 :
        TaskSettled(r)' \/ \E i \in 1 .. Len(pending) : pending[i] = r
  BY Settled
<1> QED
  BY <1>1 DEF Closing

LEMMA CheckKeeps ==
  ASSUME ProviderInv, ExecutorInv, EndedStay, Check
  PROVE  ExecutorInv'
<1> USE DEF ExecutorInv
<1>1. /\ mpc = "window"
      /\ UNCHANGED <<next, done, pending, reported, fatal, given, primary, stopped>>
  BY DEF Check, Throw, window
<1>2. Order'
  BY <1>1, OrderKept DEF Check, Throw
<1>3. Failures'
  BY <1>1 DEF ExecutorTypes, Failures, EndedStay, Ended, Check, Throw
<1>4. CASE Throw /\ UNCHANGED window
  <2>1. Closing'
    BY <1>1, <1>4, CloseBegins DEF Throw
  <2>2. ExecutorTypes'
    BY <1>1, <1>4 DEF ExecutorTypes, Throw, window
  <2> QED
    BY <1>2, <1>3, <2>1, <2>2
<1>5. CASE /\ fatal = NoFailure
           /\ IF inWindow = Window
              THEN mpc' = "drain" /\ inWindow' = 0
              ELSE mpc' = "pull" /\ inWindow' = inWindow
  <2>1. Closing'
    BY <1>5 DEF Closing
  <2>2. ExecutorTypes'
    BY <1>1, <1>5, WindowAssumption DEF ExecutorTypes
  <2> QED
    BY <1>2, <1>3, <2>1, <2>2
<1> QED
  BY <1>4, <1>5 DEF Check

LEMMA PullKeeps ==
  ASSUME ProviderInv, ExecutorInv, EndedStay, Pull
  PROVE  ExecutorInv'
<1> USE DEF ExecutorInv
<1>1. /\ mpc = "pull" /\ mpc' = "window"
      /\ next \in 1 .. RequestCount
      /\ pending' = Append(pending, next) /\ pending \in Seq(Requests)
      /\ next' = next + 1
      /\ inWindow' = inWindow + 1
      /\ UNCHANGED <<done, reported, fatal, given, thrown, primary, stopped>>
  BY ProviderAssumption DEF Pull, ExecutorTypes
<1>2. next \in Requests
  BY <1>1 DEF Requests
<1>3. ExecutorTypes'
  BY <1>1, <1>2, ProviderAssumption, WindowAssumption DEF ExecutorTypes
<1>4. Failures'
  BY <1>1 DEF ExecutorTypes, Failures, EndedStay, Ended
<1>5. Order'
  <2>1. \A r \in 1 .. given : pc'[r] = "ok"
    BY <1>1, Settled
  <2>2. Len(pending) = next - 1 - given /\ given \in Nat /\ given < next
    BY <1>1 DEF Order, ExecutorTypes
  <2>3. /\ Len(pending') = Len(pending) + 1
        /\ \A i \in 1 .. Len(pending) : pending'[i] = pending[i]
        /\ pending'[Len(pending) + 1] = next
    BY <1>1
  <2>4. \A i \in 1 .. Len(pending') : pending'[i] = given + i
    <3> SUFFICES ASSUME NEW i \in 1 .. Len(pending')
                 PROVE  pending'[i] = given + i
      OBVIOUS
    <3>1. CASE i \in 1 .. Len(pending)
      BY <1>1, <2>3, <3>1 DEF Order
    <3>2. CASE i = Len(pending) + 1
      BY <1>1, <2>2, <2>3, <3>2
    <3> QED
      BY <1>1, <2>2, <2>3, <3>1, <3>2
  <2>5. ~done
    BY <1>1, ProviderAssumption DEF Order
  <2> QED
    BY <1>1, <2>1, <2>2, <2>3, <2>4, <2>5 DEF Order
<1>6. Closing'
  BY <1>1 DEF Closing
<1> QED
  BY <1>3, <1>4, <1>5, <1>6

LEMMA SourceEndsKeeps ==
  ASSUME ProviderInv, ExecutorInv, EndedStay, SourceEnds
  PROVE  ExecutorInv'
<1> USE DEF ExecutorInv
<1>1. next = RequestCount + 1
  BY ProviderAssumption DEF SourceEnds, ExecutorTypes
<1>2. Order'
  BY <1>1, OrderKept DEF SourceEnds
<1>3. ExecutorTypes' /\ Failures' /\ Closing'
  BY DEF SourceEnds, ExecutorTypes, Failures, Closing, EndedStay, Ended
<1> QED
  BY <1>2, <1>3

LEMMA SourceFailsKeeps ==
  ASSUME ProviderInv, ExecutorInv, EndedStay, SourceFails
  PROVE  ExecutorInv'
<1> USE DEF ExecutorInv
<1>1. /\ mpc = "pull" /\ mpc' = "closing" /\ thrown' = fatal'
      /\ UNCHANGED <<next, inWindow, done, pending, reported, given, stopped>>
      /\ Fail(SourceFailed)
  BY DEF SourceFails, window
<1>2. fatal' \in 1 .. ConsumerClosed /\ primary' = fatal'
  BY <1>1, FailKeeps, Reasons
<1>3. Order'
  BY <1>1, OrderKept
<1>4. Closing'
  BY <1>1, <1>2, CloseBegins, Reasons
<1>5. ExecutorTypes' /\ Failures'
  BY <1>1, <1>2, Reasons DEF ExecutorTypes, Failures, EndedStay, Ended
<1> QED
  BY <1>3, <1>4, <1>5

\* The first of the window is given, if nothing has failed: then it succeeded.
LEMMA DrainKeeps ==
  ASSUME ProviderInv, ExecutorInv, EndedStay, Drain
  PROVE  ExecutorInv'
<1> USE DEF ExecutorInv
<1>1. /\ mpc = "drain" /\ pending # <<>> /\ pending \in Seq(Requests)
      /\ pending' = Tail(pending)
      /\ UNCHANGED <<next, inWindow, done, reported, fatal, primary, stopped>>
  BY DEF Drain, Throw, ExecutorTypes
<1>2. /\ Len(pending) \in Nat \ {0} /\ Head(pending) = pending[1]
      /\ Len(pending') = Len(pending) - 1
      /\ \A i \in 1 .. Len(pending') : pending'[i] = pending[i + 1]
      /\ pending' \in Seq(Requests)
  BY <1>1
<1>3. /\ \A r \in 1 .. next - 1 : r \in Requests
      /\ \A r \in 1 .. given : r \in 1 .. next - 1 /\ pc'[r] = "ok"
      /\ \A r \in Requests : TaskSettled(r) => TaskSettled(r)'
      /\ \A r \in 1 .. next - 1 :
           TaskSettled(r) \/ \E i \in 1 .. Len(pending) : pending[i] = r
  BY <1>1, Settled
<1>4. /\ given \in Nat /\ Len(pending) = next - 1 - given /\ next \in Nat
      /\ \A i \in 1 .. Len(pending) : pending[i] = given + i
      /\ pending[1] = given + 1
      /\ TaskSettled(pending[1]) /\ pending[1] \in Requests
      /\ pending[1] \in 1 .. next - 1
  <2>1. /\ given \in Nat /\ Len(pending) = next - 1 - given /\ next \in Nat
        /\ \A i \in 1 .. Len(pending) : pending[i] = given + i
    BY <1>1, ProviderAssumption DEF ExecutorTypes, Order
  <2>2. 1 \in 1 .. Len(pending)
    BY <1>2
  <2>3. pending[1] = given + 1 /\ pending[1] \in 1 .. next - 1
    BY <1>2, <2>1, <2>2
  <2>4. TaskSettled(pending[1])
    BY <1>2 DEF Drain
  <2> QED
    BY <1>3, <2>1, <2>3, <2>4
<1>5. Failures'
  BY <1>1 DEF ExecutorTypes, Failures, EndedStay, Ended, Drain, Throw
<1>6. CASE Throw
  <2>1. mpc' = "closing" /\ thrown' = fatal /\ fatal # NoFailure /\ given' = given
    BY <1>6 DEF Throw
  <2>2. ExecutorTypes'
    BY <1>1, <1>2, <2>1 DEF ExecutorTypes
  <2>3. Order'
    BY <1>1, <1>3, <2>1 DEF Order
  <2>4. Closing'
    <3> SUFFICES ASSUME NEW r \in 1 .. next - 1, ~TaskSettled(r)'
                 PROVE  \E i \in 1 .. Len(pending') : pending'[i] = r
      BY <1>1, <2>1 DEF Closing
    <3>1. PICK i \in 1 .. Len(pending) : pending[i] = r
      BY <1>3
    <3>2. i # 1
      BY <1>3, <1>4, <3>1
    <3>3. i - 1 \in 1 .. Len(pending') /\ (i - 1) + 1 = i
      BY <1>2, <3>2
    <3> QED
      BY <1>2, <3>1, <3>3
  <2> QED
    BY <1>5, <2>2, <2>3, <2>4
<1>7. CASE fatal = NoFailure /\ mpc' = "yield" /\ given' = given + 1
           /\ thrown' = thrown
  <2>1. ExecutorTypes'
    BY <1>1, <1>2, <1>4, <1>7 DEF ExecutorTypes
  <2>2. pc[given + 1] = "ok" /\ given + 1 \in Requests
    BY <1>4, <1>7 DEF Failures, TaskSettled
  <2>3. pc'[given + 1] = "ok"
    BY <2>2 DEF EndedStay, Ended
  <2>4. \A r \in 1 .. given' : pc'[r] = "ok"
    <3> SUFFICES ASSUME NEW r \in 1 .. given + 1
                 PROVE  pc'[r] = "ok"
      BY <1>7
    <3>1. r \in 1 .. given \/ r = given + 1
      BY <1>4
    <3> QED
      BY <1>3, <2>3, <3>1
  <2>5. \A i \in 1 .. Len(pending') : pending'[i] = given' + i
    <3> SUFFICES ASSUME NEW i \in 1 .. Len(pending')
                 PROVE  pending'[i] = given + 1 + i
      BY <1>7
    <3>1. i + 1 \in 1 .. Len(pending) /\ i \in Nat
      BY <1>2
    <3> QED
      BY <1>2, <1>4, <3>1
  <2>6. Len(pending') = next' - 1 - given' /\ given' < next'
    BY <1>1, <1>2, <1>4, <1>7
  <2>7. Order'
    BY <1>1, <2>4, <2>5, <2>6 DEF Order
  <2>8. Closing'
    BY <1>7 DEF Closing
  <2> QED
    BY <1>5, <2>1, <2>7, <2>8
<1> QED
  BY <1>6, <1>7 DEF Drain

\* An empty window: the next one, or the end, when all have been given.
LEMMA DrainedKeeps ==
  ASSUME ProviderInv, ExecutorInv, EndedStay, Drained
  PROVE  ExecutorInv'
<1> USE DEF ExecutorInv
<1>1. /\ mpc = "drain" /\ pending = <<>>
      /\ UNCHANGED <<next, inWindow, done, pending, reported, given, thrown, stopped>>
      /\ mpc' \in {"closing", "window"}
  BY DEF Drained, window
<1>2. Order'
  BY <1>1, OrderKept
<1>3. CASE done /\ mpc' = "closing" /\ Fail(ConsumerClosed)
  <2>1. /\ fatal' \in 1 .. ConsumerClosed /\ primary' = fatal'
        /\ fatal # NoFailure => fatal' = fatal
    BY <1>3, FailKeeps, Reasons
  <2>2. given = RequestCount
    <3>1. Len(pending) = 0 /\ next = RequestCount + 1
      BY <1>1, <1>3 DEF Order
    <3> QED
      BY <1>1, <3>1, ProviderAssumption DEF Order, ExecutorTypes
  <2>3. Closing'
    BY <1>1, <1>3, <2>2, CloseBegins
  <2>4. ExecutorTypes' /\ Failures'
    BY <1>1, <1>3, <2>1, Reasons DEF ExecutorTypes, Failures, EndedStay, Ended
  <2> QED
    BY <1>2, <2>3, <2>4
<1>4. CASE mpc' = "window" /\ UNCHANGED <<fatal, primary>>
  BY <1>1, <1>2, <1>4 DEF ExecutorTypes, Failures, Closing, EndedStay, Ended
<1> QED
  BY <1>3, <1>4 DEF Drained

LEMMA ConsumerContinuesKeeps ==
  ASSUME ProviderInv, ExecutorInv, EndedStay, ConsumerContinues
  PROVE  ExecutorInv'
<1> USE DEF ExecutorInv
<1>1. Order'
  BY OrderKept DEF ConsumerContinues, window
<1>2. ExecutorTypes' /\ Failures' /\ Closing'
  BY DEF ConsumerContinues, window, ExecutorTypes, Failures, Closing, EndedStay, Ended
<1> QED
  BY <1>1, <1>2

LEMMA ConsumerStopsKeeps ==
  ASSUME ProviderInv, ExecutorInv, EndedStay, ConsumerStops
  PROVE  ExecutorInv'
<1> USE DEF ExecutorInv
<1>1. /\ mpc = "yield" /\ mpc' = "closing" /\ stopped' = TRUE /\ Fail(ConsumerClosed)
      /\ UNCHANGED <<next, inWindow, done, pending, reported, given, thrown>>
  BY DEF ConsumerStops, window
<1>2. /\ fatal' \in 1 .. ConsumerClosed /\ primary' = fatal'
      /\ fatal # NoFailure => fatal' = fatal
  BY <1>1, FailKeeps, Reasons
<1>3. Order'
  BY <1>1, OrderKept
<1>4. Closing'
  BY <1>1, CloseBegins
<1>5. ExecutorTypes' /\ Failures'
  BY <1>1, <1>2, Reasons DEF ExecutorTypes, Failures, EndedStay, Ended
<1> QED
  BY <1>3, <1>4, <1>5

\* A failure of the caller or of a task, wherever the generator is.
LEMMA FailureKeeps ==
  ASSUME ProviderInv, ExecutorInv, EndedStay,
         NEW failure \in 1 .. ConsumerClosed, Fail(failure),
         UNCHANGED <<mpc, window, given, thrown, stopped>>,
         reported \subseteq reported', reported' \subseteq Requests,
         \A r \in reported' : pc[r] = "failed"
  PROVE  ExecutorInv'
<1> USE DEF ExecutorInv
<1>1. /\ fatal' \in 1 .. ConsumerClosed /\ primary' = fatal'
      /\ fatal # NoFailure => fatal' = fatal
  BY FailKeeps
<1>2. UNCHANGED <<next, inWindow, done, pending>>
  BY DEF window
<1>3. Order'
  <2>1. \A r \in 1 .. given : pc'[r] = "ok"
    BY Settled
  <2> QED
    BY <1>2, <2>1 DEF Order
<1>4. Closing'
  <2>1. \A r \in 1 .. next - 1 : TaskSettled(r) => TaskSettled(r)'
    BY Settled
  <2> QED
    BY <1>2, <2>1 DEF Closing
<1>5. ExecutorTypes' /\ Failures'
  BY <1>1, <1>2, Reasons DEF ExecutorTypes, Failures, EndedStay, Ended
<1> QED
  BY <1>3, <1>4, <1>5

LEMMA CallerAbortsKeeps ==
  ASSUME ProviderInv, ExecutorInv, EndedStay, CallerAborts
  PROVE  ExecutorInv'
BY FailureKeeps, Reasons DEF CallerAborts, ExecutorInv, ExecutorTypes, Failures

LEMMA TaskFailsKeeps ==
  ASSUME ProviderInv, ExecutorInv, EndedStay, NEW r \in Requests, TaskFails(r)
  PROVE  ExecutorInv'
<1>1. /\ r \in 1 .. ConsumerClosed /\ Fail(r)
      /\ UNCHANGED <<mpc, window, given, thrown, stopped>>
      /\ reported \subseteq reported' /\ reported' \subseteq Requests
      /\ \A q \in reported' : pc[q] = "failed"
  BY Reasons DEF TaskFails, ExecutorInv, ExecutorTypes, Failures
<1> QED
  BY <1>1, FailureKeeps

\* The source is returned once the tasks that were pending have settled.
LEMMA CloseSourceKeeps ==
  ASSUME ProviderInv, ExecutorInv, EndedStay, CloseSource
  PROVE  ExecutorInv'
<1> USE DEF ExecutorInv
<1>1. /\ mpc = "closing" /\ mpc' = "returning"
      /\ pending' = <<>>
      /\ UNCHANGED <<next, inWindow, done, reported, fatal, given, thrown, primary,
                     stopped>>
      /\ \A i \in 1 .. Len(pending) : TaskSettled(pending[i])
  BY DEF CloseSource
<1>2. ExecutorTypes' /\ Failures'
  BY <1>1 DEF ExecutorTypes, Failures, EndedStay, Ended
<1>3. Order'
  <2>1. \A r \in 1 .. given : pc'[r] = "ok"
    BY <1>1, Settled
  <2> QED
    BY <1>1, <2>1 DEF Order
<1>4. Closing'
  <2>1. \A r \in 1 .. next - 1 : TaskSettled(r)
    BY <1>1 DEF Closing
  <2>2. \A r \in 1 .. next - 1 : TaskSettled(r)'
    BY <1>1, <2>1, Settled
  <2> QED
    BY <1>1, <2>2 DEF Closing, Failures
<1> QED
  BY <1>2, <1>3, <1>4

\* The source's cleanup settles.
LEMMA SourceReturnsKeeps ==
  ASSUME ProviderInv, ExecutorInv, EndedStay, SourceReturns
  PROVE  ExecutorInv'
<1> USE DEF ExecutorInv
<1>1. /\ mpc = "returning" /\ mpc' = "done" /\ thrown' \in {thrown, fatal}
      /\ UNCHANGED <<next, inWindow, done, pending, reported, fatal, given, primary,
                     stopped>>
  BY DEF SourceReturns, window
<1>2. ExecutorTypes' /\ Failures'
  BY <1>1 DEF ExecutorTypes, Failures, EndedStay, Ended
<1>3. Order'
  BY <1>1, OrderKept
<1>4. Closing'
  <2>1. \A r \in 1 .. next - 1 : TaskSettled(r)'
    BY <1>1, Settled DEF Closing
  <2> QED
    BY <1>1, <2>1 DEF Closing, Failures
<1> QED
  BY <1>2, <1>3, <1>4

-----------------------------------------------------------------------------
(* The theorems *)

LEMMA InvInit ==
  Init => Inv
<1> SUFFICES ASSUME Init PROVE Inv
  OBVIOUS
<1> USE DEF Init, ProviderInit
<1>1. Types
  <2>1. NoResult \in [outcome : Outcomes, delay : Nat]
    BY DEF NoResult, Outcomes
  <2> QED
    BY <2>1, ProviderAssumption DEF Types, Labels
<1>2. Budgets /\ SlotUse /\ Queueing /\ Looked
  BY ProviderAssumption DEF Budgets, SlotUse, WithSlot, Queueing, Looked, Requests
<1>3. Counting
  <2>1. Occupied = {}
    BY DEF Occupied
  <2> QED
    BY <2>1, FS_EmptySet, ProviderAssumption DEF Counting
<1>4. ExecutorInv
  <2>1. ExecutorTypes
    <3>1. fatal \in NoFailure .. ConsumerClosed
      BY ProviderAssumption DEF NoFailure, ConsumerClosed
    <3>2. next \in 1 .. RequestCount + 1 /\ inWindow \in 0 .. Window
      BY ProviderAssumption, WindowAssumption
    <3>3. pending \in Seq(Requests) /\ reported \subseteq Requests
      OBVIOUS
    <3> QED
      BY <3>1, <3>2, <3>3 DEF ExecutorTypes
  <2>2. Failures /\ Closing
    BY DEF Failures, Closing
  <2>3. Order
    <3>1. pending = <<>> /\ Len(pending) = 0 /\ next - 1 - given = 0
      OBVIOUS
    <3> QED
      BY <3>1 DEF Order
  <2> QED
    BY <2>1, <2>2, <2>3 DEF ExecutorInv
<1> QED
  BY <1>1, <1>2, <1>3, <1>4 DEF Inv, ProviderInv

LEMMA InvStep ==
  Inv /\ [Next]_vars => Inv'
<1> SUFFICES ASSUME Inv, [Next]_vars PROVE Inv'
  OBVIOUS
<1> USE DEF Inv
<1>1. ProviderInv' /\ EndedStay
  <2>1. ProviderMove
    BY NextMovesProvider DEF ExecutorInv, ProviderMove, vars
  <2> QED
    BY <2>1, ProviderStep
<1>2. CASE UNCHANGED executor
  BY <1>1, <1>2, TasksKeep
<1>3. CASE Check \/ Drain \/ Drained \/ CloseSource
  BY <1>1, <1>3, CheckKeeps, DrainKeeps, DrainedKeeps, CloseSourceKeeps
<1>4. CASE Pull \/ SourceEnds \/ SourceFails \/ SourceReturns
  BY <1>1, <1>4, PullKeeps, SourceEndsKeeps, SourceFailsKeeps, SourceReturnsKeeps
<1>5. CASE ConsumerContinues \/ ConsumerStops \/ CallerAborts
  BY <1>1, <1>5, ConsumerContinuesKeeps, ConsumerStopsKeeps, CallerAbortsKeeps
<1>6. ASSUME NEW r \in Requests, TaskFails(r) PROVE ExecutorInv'
  BY <1>1, <1>6, TaskFailsKeeps
<1> QED
  BY <1>1, <1>2, <1>3, <1>4, <1>5, <1>6
     DEF Next, EventLoop, Environment, Time, StartTask, TimerOf, Terminated, vars

\* The inductive invariant: who holds a slot, who waits for one, what each request
\* knows of the cooldown, and what the generator has taken, given and been told.
THEOREM RequestsInvariance ==
  Spec => []Inv
<1> QED
  BY InvInit, InvStep, PTL DEF Spec

\* Types, for every number of requests and every budget.
THEOREM RequestsTypes ==
  Spec => []TypeOK
<1>1. Inv => TypeOK
  <2> SUFFICES ASSUME Inv PROVE TypeOK
    OBVIOUS
  <2>1. waited \in [Requests -> 0 .. WaitLimit]
    BY ProviderAssumption DEF Inv, ProviderInv, Types, Budgets
  <2>2. ProviderTypeOK
    BY <2>1 DEF Inv, ProviderInv, Types, Budgets, ProviderTypeOK
  <2>3. given \in 0 .. RequestCount
    BY ProviderAssumption DEF Inv, ExecutorInv, ExecutorTypes, Order
  <2>4. {fatal, thrown, primary} \subseteq NoFailure .. ConsumerClosed
    BY Reasons DEF Inv, ExecutorInv, ExecutorTypes, Failures
  <2> QED
    BY <2>2, <2>3, <2>4 DEF Inv, ExecutorInv, ExecutorTypes, TypeOK
<1> QED
  BY <1>1, RequestsInvariance, PTL

\* No slot is lost or given twice, whatever is cancelled, times out or fails.
THEOREM SlotsAccountedTheorem ==
  Spec => []SlotsAccounted
<1>1. Inv => SlotsAccounted
  BY DEF Inv, ProviderInv, Queueing, Counting, Occupied, SlotsAccounted
<1> QED
  BY <1>1, RequestsInvariance, PTL

\* No more than `concurrency` operations and resources the pool was told of in time
\* are at work, whatever operations retain later.
THEOREM WorkBoundedTheorem ==
  Spec => []WorkBounded
<1>1. Inv => WorkBounded
  <2> SUFFICES ASSUME Inv PROVE WorkBounded
    OBVIOUS
  <2> DEFINE working == {r \in Requests : work[r] = "running" \/ resource[r] = "kept"}
  <2>1. working \subseteq Occupied
    BY DEF Inv, ProviderInv, Types, SlotUse, Occupied
  <2>2. IsFiniteSet(Occupied) /\ Cardinality(Occupied) \in Nat
    BY OccupiedFinite DEF Inv, ProviderInv, Types
  <2>3. Cardinality(Occupied) <= Concurrency
    BY DEF Inv, ProviderInv, Counting
  <2>4. Cardinality(working) <= Cardinality(Occupied) /\ Cardinality(working) \in Nat
    BY <2>1, <2>2, FS_Subset, FS_CardinalityType
  <2> HIDE DEF working
  <2>5. Cardinality(working) <= Concurrency
    BY <2>2, <2>3, <2>4, ProviderAssumption
  <2> QED
    BY <2>5 DEF WorkBounded, working
<1> QED
  BY <1>1, RequestsInvariance, PTL

\* No operation starts in a cooldown its request could have known of.
THEOREM CooldownKeptTheorem ==
  Spec => CooldownKept
<1>1. Inv => \A r \in Requests :
               pc[r] = "start" /\ cooldownUntil > now => limiter \in beside[r]
  BY DEF Inv, ProviderInv, Looked
<1>2. Inv /\ [Next]_vars =>
        [\A r \in Requests :
           (pc[r] = "start" /\ pc'[r] = "run" /\ cooldownUntil > now) =>
              limiter \in beside[r]]_provider
  BY <1>1
<1> QED
  BY <1>2, RequestsInvariance, PTL DEF Spec, CooldownKept

\* Where mapConcurrent ends, none of its requests is under way.
THEOREM ClosesDrainedTheorem ==
  Spec => []ClosesDrained
<1>1. Inv => ClosesDrained
  BY DEF Inv, ExecutorInv, Failures, Closing, TaskSettled, ClosesDrained, Ended
<1> QED
  BY <1>1, RequestsInvariance, PTL

\* The consumer gets results in order and the first failure of all.
THEOREM OutcomeFaithfulTheorem ==
  Spec => []OutcomeFaithful
<1>1. Inv => OutcomeFaithful
  BY DEF Inv, ExecutorInv, Failures, Order, Closing, OutcomeFaithful
<1> QED
  BY <1>1, RequestsInvariance, PTL
=============================================================================
