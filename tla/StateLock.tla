----------------------------- MODULE StateLock -----------------------------
(***************************************************************************)
(* The state lock (packages/core/src/state-lock.ts): rows of `state_locks` *)
(* for one scope and resource, kept alive by heartbeats and dropped by     *)
(* whoever finds them stale.  The library (scope "library"), the build     *)
(* queue ("archive-build-jobs") and directory archives ("wikg-directory",   *)
(* see DirectoryArchive) use it to exclude each other across processes.    *)
(*                                                                         *)
(* A client makes one acquisition at a time, under a new owner id each     *)
(* time; it is represented by its only row.  One action is one transaction *)
(* or statement on the table.                                              *)
(* Definitions named Mutant... are faults the properties must notice.      *)
(***************************************************************************)
EXTENDS Naturals, FiniteSets

CONSTANTS
  Clients,
  Mode,           \* what a client asks for: "read" or "write"
  MaxOwners,      \* bound: acquisitions per client
  Crashers,       \* clients whose process may die
  Stallers,       \* live clients whose heartbeats may stop for staleMs
  ReleaseFailers  \* clients whose release may fail

ASSUME LockAssumption ==
  /\ Mode \in [Clients -> {"read", "write"}]
  /\ MaxOwners \in Nat \ {0}

VARIABLES
  pc,     \* where each client is
  row,    \* its row: none, with a recent heartbeat, or with a stale one
  seen,   \* rows an isStateLocked call has found stale and not yet deleted
  owners  \* acquisitions so far

lock == <<pc, row, seen, owners>>

\* The client's heartbeat timer runs: from acquireStateLock's return to the
\* call of the release function.
Holding(c) == pc[c] \notin {"idle", "wait", "release", "dead"}

Goto(c, label) == pc' = [pc EXCEPT ![c] = label]

-----------------------------------------------------------------------------
\* A client, or a new process in the place of one that died, calls
\* acquireStateLock.  (Bound: only when no row of an earlier acquisition is
\* left; the code would use another owner id.)
Request(c) ==
  /\ pc[c] \in {"idle", "dead"}
  /\ row[c] = "none"
  /\ owners[c] < MaxOwners
  /\ owners' = [owners EXCEPT ![c] = @ + 1]
  /\ Goto(c, "wait")
  /\ UNCHANGED <<row, seen>>

\* cleanupStaleStateLocks, inside the transaction of tryInsertStateLock.
\* (The mutant leaves the stale rows.)
MutantCleaned == row

Cleaned == [c \in Clients |-> IF row[c] = "stale" THEN "none" ELSE row[c]]

LocksConflict(requested, existing) ==
  requested = "write" \/ existing = "write"

Blocked(c) ==
  \E d \in Clients \ {c} :
    Cleaned[d] # "none" /\ LocksConflict(Mode[c], Mode[d])

\* tryInsertStateLock inserts the row, or leaves the client polling.
TryInsert(c) ==
  /\ pc[c] = "wait"
  /\ \/ /\ ~Blocked(c)
        /\ row' = [Cleaned EXCEPT ![c] = "fresh"]
        /\ Goto(c, "held")
     \/ /\ Blocked(c)
        /\ row' = Cleaned
        /\ UNCHANGED pc
  /\ UNCHANGED <<seen, owners>>

\* The wait is aborted by the signal, or was not wanted (wait: false).
GiveUp(c) ==
  /\ pc[c] = "wait"
  /\ Goto(c, "idle")
  /\ UNCHANGED <<row, seen, owners>>

\* updateStateLockHeartbeat touches the row only if it is still there.
\* (The mutant inserts it again.)
MutantHeartbeat(c) ==
  /\ Holding(c)
  /\ row[c] # "fresh"
  /\ row' = [row EXCEPT ![c] = "fresh"]
  /\ UNCHANGED <<pc, seen, owners>>

Heartbeat(c) ==
  /\ Holding(c)
  /\ row[c] = "stale"
  /\ row' = [row EXCEPT ![c] = "fresh"]
  /\ UNCHANGED <<pc, seen, owners>>

\* A row nobody keeps alive: its process died, or its release failed.
Abandoned(c) == row[c] # "none" /\ pc[c] \in {"idle", "dead"}

\* staleMs without a heartbeat.
GoStale(c) ==
  /\ row[c] = "fresh"
  /\ Abandoned(c) \/ c \in Stallers
  /\ row' = [row EXCEPT ![c] = "stale"]
  /\ UNCHANGED <<pc, seen, owners>>

\* The operation under the lock ends, or acquisition was aborted just when it
\* succeeded.
Finish(c) ==
  /\ pc[c] = "held"
  /\ Goto(c, "release")
  /\ UNCHANGED <<row, seen, owners>>

\* The release function stops the heartbeat and deletes its own row ...
Release(c) ==
  /\ pc[c] = "release"
  /\ row' = [row EXCEPT ![c] = "none"]
  /\ Goto(c, "idle")
  /\ UNCHANGED <<seen, owners>>

\* ... or throws, and the row stays without heartbeats.
FailRelease(c) ==
  /\ pc[c] = "release"
  /\ c \in ReleaseFailers
  /\ Goto(c, "idle")
  /\ UNCHANGED <<row, seen, owners>>

\* isStateLocked cleans outside any transaction: it reads the rows first ...
FindStale ==
  /\ \E c \in Clients : row[c] = "stale" /\ c \notin seen
  /\ seen' = seen \cup {c \in Clients : row[c] = "stale"}
  /\ UNCHANGED <<pc, row, owners>>

MutantDeleteStale(c) ==
  /\ c \in seen
  /\ seen' = seen \ {c}
  /\ row' = [row EXCEPT ![c] = "none"]
  /\ UNCHANGED <<pc, owners>>

\* ... and deletes a row only if its heartbeat is still the one it has read.
DeleteStale(c) ==
  /\ c \in seen
  /\ seen' = seen \ {c}
  /\ row' = [row EXCEPT ![c] = IF @ = "stale" THEN "none" ELSE @]
  /\ UNCHANGED <<pc, owners>>

CrashClient(c) ==
  /\ c \in Crashers
  /\ pc[c] \notin {"idle", "dead"}
  /\ Goto(c, "dead")
  /\ UNCHANGED <<row, seen, owners>>

-----------------------------------------------------------------------------
LockInit ==
  /\ pc = [c \in Clients |-> "idle"]
  /\ row = [c \in Clients |-> "none"]
  /\ seen = {}
  /\ owners = [c \in Clients |-> 0]

\* What happens to the table whatever the lock protects.
LockStep ==
  \/ FindStale
  \/ \E c \in Clients :
       \/ Request(c)
       \/ TryInsert(c)
       \/ GiveUp(c)
       \/ Heartbeat(c)
       \/ GoStale(c)
       \/ Release(c)
       \/ FailRelease(c)
       \/ DeleteStale(c)

\* Every acquisition the bound allows has been made.
Spent ==
  /\ \A c \in Clients : pc[c] \in {"idle", "dead"}
  /\ UNCHANGED lock

LockNext ==
  \/ LockStep
  \/ \E c \in Clients : Finish(c) \/ CrashClient(c)
  \/ Spent

LockSpec == LockInit /\ [][LockNext]_lock

\* Waiting clients poll, time passes for a row nobody keeps alive.  Nothing is
\* assumed of the operation under the lock.
LockFairness ==
  \A c \in Clients :
    /\ WF_lock(TryInsert(c))
    /\ WF_lock(Abandoned(c) /\ GoStale(c))

LockFairSpec == LockSpec /\ LockFairness

-----------------------------------------------------------------------------
\* Every variable keeps its type.
LockTypeOK ==
  /\ DOMAIN pc = Clients
  /\ row \in [Clients -> {"none", "fresh", "stale"}]
  /\ seen \subseteq Clients
  /\ owners \in [Clients -> 0 .. MaxOwners]

\* Two clients that hold conflicting locks at once: at least one of them has
\* lost its row to a cleanup, that is, missed its heartbeats.  So as long as
\* heartbeats arrive, writers exclude everybody and readers share.
ConflictingHolders(c, d) ==
  /\ c # d
  /\ Holding(c) /\ Holding(d)
  /\ LocksConflict(Mode[c], Mode[d])

HoldersExclude ==
  \A c, d \in Clients :
    ConflictingHolders(c, d) => row[c] = "none" \/ row[d] = "none"

\* A holder loses its row only after it has missed its heartbeats: no cleanup
\* that found it stale earlier may remove it once it has sent one again, and no
\* release of another client does ("preserves fresh locks", state-lock.test.ts).
FreshRowKept ==
  [][\A c \in Clients :
       (Holding(c) /\ row[c] = "fresh") =>
          row'[c] # "none" \/ ~Holding(c)']_lock

\* A crashed holder or a failed release does not block the resource for ever:
\* somebody who waits gets rid of the row.
AbandonedRowsGo ==
  \A c, d \in Clients :
    (pc[c] = "wait" /\ Abandoned(d)) ~>
      (~Abandoned(d) \/ pc[c] # "wait")
=============================================================================
