------------------------- MODULE ConcurrentRequests --------------------------
(***************************************************************************)
(* mapConcurrent (packages/runtime/src/executor.ts) over requests to one   *)
(* provider: it pulls a window of items from its source, starts a task for *)
(* each, gives the results in order, and closes when the source ends, its  *)
(* consumer stops, or something fails.  The ExecutionScope of lifecycle.ts *)
(* is the signal of all its tasks; item r is request r of ProviderRuntime. *)
(***************************************************************************)
EXTENDS ProviderRuntime

CONSTANT Window  \* options.concurrency of mapConcurrent

ASSUME WindowAssumption == Window \in Nat \ {0}

\* Reasons of ExecutionScope.fail; the failure of task r is r itself.
NoFailure == 0
SourceFailed == RequestCount + 1
CallerAborted == RequestCount + 2
ConsumerClosed == RequestCount + 3

VARIABLES
  mpc,       \* where the generator is
  next,      \* the next item of the source
  inWindow,  \* items of the present window
  done,      \* whether the source has ended
  pending,   \* tasks whose results have not been taken
  reported,  \* tasks whose failure the scope has been told
  fatal,     \* #fatal
  given,     \* results the consumer has had
  thrown,    \* what it was thrown
  primary,   \* auxiliary: the first failure of all
  stopped    \* auxiliary: whether the consumer stopped by itself

window == <<next, inWindow, done, pending>>
executor == <<mpc, window, reported, fatal, given, thrown, primary, stopped>>
vars == <<provider, executor>>

-----------------------------------------------------------------------------
\* (The mutant keeps the last failure.)
MutantFail(failure) ==
  /\ fatal' = failure
  /\ primary' = IF primary = NoFailure THEN failure ELSE primary
  /\ Abort(Live, <<>>)

\* ExecutionScope.fail aborts every task at once, which leaves nobody queued.
Fail(failure) ==
  /\ fatal' = IF fatal = NoFailure THEN failure ELSE fatal
  /\ primary' = IF primary = NoFailure THEN failure ELSE primary
  /\ Abort(Live, <<>>)

\* throwIfFailed, then the catch and the finally of mapConcurrent.
Throw ==
  /\ fatal # NoFailure
  /\ thrown' = fatal
  /\ mpc' = "closing"
  /\ UNCHANGED <<provider, reported, fatal, given, primary, stopped>>

Check ==
  /\ mpc = "window"
  /\ \/ /\ Throw
        /\ UNCHANGED window
     \/ /\ fatal = NoFailure
        /\ IF inWindow = Window
           THEN mpc' = "drain" /\ inWindow' = 0
           ELSE mpc' = "pull" /\ UNCHANGED inWindow
        /\ UNCHANGED <<provider, next, done, pending, reported, fatal, given,
                       thrown, primary, stopped>>

\* The source answers.  A failure while it was awaited does not keep its item
\* from becoming a task.
Pull ==
  /\ mpc = "pull"
  /\ next <= RequestCount
  /\ now + Timeout[next] <= MaxTime  \* bound: its deadline comes
  /\ pending' = Append(pending, next)
  /\ next' = next + 1
  /\ inWindow' = inWindow + 1
  /\ mpc' = "window"
  /\ UNCHANGED <<provider, done, reported, fatal, given, thrown, primary, stopped>>

SourceEnds ==
  /\ mpc = "pull"
  /\ next > RequestCount
  /\ done' = TRUE
  /\ mpc' = "drain"
  /\ UNCHANGED <<provider, next, inWindow, pending, reported, fatal, given, thrown,
                 primary, stopped>>

SourceFails ==
  /\ mpc = "pull"
  /\ Fail(SourceFailed)
  /\ thrown' = fatal'
  /\ mpc' = "closing"
  /\ UNCHANGED <<window, reported, given, stopped>>

StartTask(r) ==
  /\ r < next
  /\ Call(r, fatal # NoFailure)
  /\ UNCHANGED executor

TaskFails(r) ==
  /\ pc[r] = "failed"
  /\ r \notin reported
  /\ reported' = reported \union {r}
  /\ Fail(r)
  /\ UNCHANGED <<mpc, window, given, thrown, stopped>>

TaskSettled(r) == pc[r] = "ok" \/ r \in reported

Drain ==
  /\ mpc = "drain"
  /\ pending # <<>>
  /\ TaskSettled(Head(pending))
  /\ pending' = Tail(pending)
  /\ UNCHANGED <<next, inWindow, done>>
  /\ \/ Throw
     \/ /\ fatal = NoFailure
        /\ mpc' = "yield"
        /\ given' = given + 1
        /\ UNCHANGED <<provider, reported, fatal, thrown, primary, stopped>>

Drained ==
  /\ mpc = "drain"
  /\ pending = <<>>
  /\ IF done
     THEN mpc' = "closing" /\ Fail(ConsumerClosed)
     ELSE mpc' = "window" /\ UNCHANGED <<provider, fatal, primary>>
  /\ UNCHANGED <<window, reported, given, thrown, stopped>>

ConsumerContinues ==
  /\ mpc = "yield"
  /\ mpc' = "drain"
  /\ UNCHANGED <<provider, window, reported, fatal, given, thrown, primary, stopped>>

ConsumerStops ==
  /\ mpc = "yield"
  /\ mpc' = "closing"
  /\ stopped' = TRUE
  /\ Fail(ConsumerClosed)
  /\ UNCHANGED <<window, reported, given, thrown>>

CallerAborts ==
  /\ mpc # "done"
  /\ fatal = NoFailure
  /\ Fail(CallerAborted)
  /\ UNCHANGED <<mpc, window, reported, given, thrown, stopped>>

\* (The mutant does not wait for its tasks.)
MutantCloseSource ==
  /\ mpc = "closing"
  /\ mpc' = "returning"
  /\ pending' = <<>>
  /\ UNCHANGED <<provider, next, inWindow, done, reported, fatal, given, thrown,
                 primary, stopped>>

\* iterator.return is called, once the tasks have settled.
CloseSource ==
  /\ mpc = "closing"
  /\ \A i \in 1 .. Len(pending) : TaskSettled(pending[i])
  /\ mpc' = "returning"
  /\ pending' = <<>>
  /\ UNCHANGED <<provider, next, inWindow, done, reported, fatal, given, thrown,
                 primary, stopped>>

\* The source's own cleanup settles, if it ever does; its failure becomes the
\* scope's.
SourceReturns ==
  /\ mpc = "returning"
  /\ mpc' = "done"
  /\ thrown' \in {thrown, fatal}
  /\ UNCHANGED <<provider, window, reported, fatal, given, primary, stopped>>

-----------------------------------------------------------------------------
\* Timers run, and the clock moves, when no promise reaction is due: the event
\* loop empties the queue of reactions first.
Quiet ==
  /\ mpc # "window"
  /\ \A r \in 1 .. next - 1 :
       /\ pc[r] # "idle"
       /\ ~Due(r)
       /\ pc[r] = "failed" => r \in reported

Time ==
  /\ Quiet
  /\ Tick
  /\ UNCHANGED executor

TimerOf(r) ==
  /\ Quiet
  /\ Timer(r)
  /\ UNCHANGED executor

Terminated ==
  /\ mpc = "done"
  /\ now = MaxTime
  /\ UNCHANGED vars

Init ==
  /\ ProviderInit
  /\ mpc = "window"
  /\ next = 1
  /\ inWindow = 0
  /\ done = FALSE
  /\ pending = <<>>
  /\ reported = {}
  /\ fatal = NoFailure
  /\ given = 0
  /\ thrown = NoFailure
  /\ primary = NoFailure
  /\ stopped = FALSE

\* What the event loop runs when it is due.
EventLoop ==
  \/ Check \/ Drain \/ Drained \/ CloseSource \/ Time
  \/ \E r \in Requests :
       \/ StartTask(r)
       \/ TaskFails(r)
       \/ TimerOf(r)
       \/ Advance(r) /\ UNCHANGED executor

\* What the source, the consumer, the caller and the operations decide.
Environment ==
  \/ Pull \/ SourceEnds \/ SourceFails \/ SourceReturns
  \/ ConsumerContinues \/ ConsumerStops \/ CallerAborts
  \/ \E r \in Requests : Operate(r) /\ UNCHANGED executor

Next == EventLoop \/ Environment \/ Terminated

\* Nothing is assumed of the environment, which may stop anywhere.
Spec == Init /\ [][Next]_vars /\ WF_vars(EventLoop)

-----------------------------------------------------------------------------
\* Every variable keeps its type.
TypeOK ==
  /\ ProviderTypeOK
  /\ mpc \in {"window", "pull", "drain", "yield", "closing", "returning", "done"}
  /\ next \in 1 .. RequestCount + 1
  /\ inWindow \in 0 .. Window
  /\ done \in BOOLEAN
  /\ pending \in Seq(Requests)
  /\ reported \subseteq Requests
  /\ {fatal, thrown, primary} \subseteq NoFailure .. ConsumerClosed
  /\ given \in 0 .. RequestCount
  /\ stopped \in BOOLEAN

\* When mapConcurrent has its source clean up, and ends, whatever ended it, none of
\* the requests it started is under way and none starts later ("Drain before
\* releasing resources", executor.ts:58).
ClosesDrained ==
  mpc \in {"returning", "done"} =>
    \A r \in 1 .. next - 1 : Ended(r)

\* The consumer has had the results of successful requests only, in the order of
\* the source; it is thrown the first failure of all, not one that the abort of
\* its siblings, the source or its cleanup caused; and without a throw it has
\* had every result, unless it stopped by itself.
OutcomeFaithful ==
  /\ \A r \in 1 .. given : pc[r] = "ok"
  /\ thrown \in {NoFailure, primary}
  /\ (mpc = "done" /\ thrown = NoFailure) => (given = RequestCount \/ stopped)

\* Every request ends, at the latest with its deadline, and once mapConcurrent is
\* closing it drains and comes to its source's cleanup: whether or not an
\* operation of theirs, or of those they wait for, ever settles.
EverythingEnds ==
  (Live # {} \/ mpc = "closing") ~> (Live = {} /\ mpc # "closing")
=============================================================================
