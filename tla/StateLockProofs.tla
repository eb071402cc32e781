-------------------------- MODULE StateLockProofs --------------------------
(***************************************************************************)
(* What the state lock guarantees for any clients, modes and failures.     *)
(***************************************************************************)
EXTENDS StateLock, TLAPS

\* Every row has its type.
RowTypes == row \in [Clients -> {"none", "fresh", "stale"}]

\* The table never has conflicting rows.
RowsCompatible ==
  \A c, d \in Clients :
    c # d /\ row[c] # "none" /\ row[d] # "none"
      => ~LocksConflict(Mode[c], Mode[d])

\* The inductive invariant.
LockInv == RowTypes /\ RowsCompatible

\* Steps other than an insertion add no row.
AddsNone == \A c \in Clients : row'[c] # "none" => row[c] # "none"

\* A holder's fresh row stays, or it is no longer a holder.
KeepsFresh ==
  \A c \in Clients :
    (Holding(c) /\ row[c] = "fresh") => row'[c] # "none" \/ ~Holding(c)'

\* A step that adds no row keeps the table compatible.
LEMMA NoNewRow ==
  ASSUME LockInv, RowTypes', AddsNone PROVE LockInv'
BY DEF LockInv, RowTypes, RowsCompatible, AddsNone

\* One step per action of the lock; the insertion is the only one that has to
\* look at the other rows.
LEMMA LockStepPreserves == LockInv /\ [LockNext]_lock => LockInv' /\ KeepsFresh
<1> SUFFICES ASSUME LockInv, [LockNext]_lock PROVE LockInv' /\ KeepsFresh
  OBVIOUS
<1> USE LockAssumption DEF LockInv, RowTypes
<1>1. CASE FindStale
  BY <1>1, NoNewRow DEF FindStale, AddsNone, KeepsFresh
<1>2. ASSUME NEW c \in Clients, Request(c) PROVE LockInv' /\ KeepsFresh
  BY <1>2, NoNewRow DEF Request, Goto, AddsNone, KeepsFresh
<1>3. ASSUME NEW c \in Clients, TryInsert(c) PROVE LockInv' /\ KeepsFresh
  <2>1. RowTypes'
    BY <1>3 DEF TryInsert, Cleaned
  <2>2. CASE Blocked(c)
    BY <1>3, <2>1, <2>2, NoNewRow DEF TryInsert, Cleaned, AddsNone, KeepsFresh
  <2>3. CASE ~Blocked(c)
    <3>1. row' = [Cleaned EXCEPT ![c] = "fresh"]
      BY <1>3, <2>3 DEF TryInsert
    <3>2. \A d \in Clients \ {c} : row'[d] # "none" =>
            /\ row[d] # "none"
            /\ ~LocksConflict(Mode[c], Mode[d])
            /\ ~LocksConflict(Mode[d], Mode[c])
      BY <2>3, <3>1 DEF Blocked, Cleaned, LocksConflict
    <3>3. RowsCompatible'
      BY <3>2 DEF RowsCompatible
    <3>4. KeepsFresh
      BY <3>1 DEF Cleaned, KeepsFresh
    <3> QED
      BY <2>1, <3>3, <3>4
  <2> QED
    BY <2>2, <2>3
<1>4. ASSUME NEW c \in Clients, GiveUp(c) PROVE LockInv' /\ KeepsFresh
  BY <1>4, NoNewRow DEF GiveUp, Goto, AddsNone, KeepsFresh
<1>5. ASSUME NEW c \in Clients, Heartbeat(c) PROVE LockInv' /\ KeepsFresh
  BY <1>5, NoNewRow DEF Heartbeat, AddsNone, KeepsFresh
<1>6. ASSUME NEW c \in Clients, GoStale(c) PROVE LockInv' /\ KeepsFresh
  BY <1>6, NoNewRow DEF GoStale, AddsNone, KeepsFresh
<1>7. ASSUME NEW c \in Clients, Release(c) PROVE LockInv' /\ KeepsFresh
  BY <1>7, NoNewRow DEF Release, Goto, AddsNone, KeepsFresh, Holding
<1>8. ASSUME NEW c \in Clients, FailRelease(c) PROVE LockInv' /\ KeepsFresh
  BY <1>8, NoNewRow DEF FailRelease, Goto, AddsNone, KeepsFresh
<1>9. ASSUME NEW c \in Clients, DeleteStale(c) PROVE LockInv' /\ KeepsFresh
  BY <1>9, NoNewRow DEF DeleteStale, AddsNone, KeepsFresh
<1>10. ASSUME NEW c \in Clients, Finish(c) \/ CrashClient(c)
       PROVE  LockInv' /\ KeepsFresh
  BY <1>10, NoNewRow DEF Finish, CrashClient, Goto, AddsNone, KeepsFresh
<1>11. CASE Spent \/ UNCHANGED lock
  BY <1>11, NoNewRow DEF Spent, lock, AddsNone, KeepsFresh
<1> QED
  BY <1>1, <1>2, <1>3, <1>4, <1>5, <1>6, <1>7, <1>8, <1>9, <1>10, <1>11
     DEF LockNext, LockStep

-----------------------------------------------------------------------------
(* For what a lock protects: as long as heartbeats arrive, a holder has its *)
(* row, and the steps of the lock leave holders where they are.             *)

HoldersFresh == \A c \in Clients : Holding(c) => row[c] = "fresh"

LockKept(labels) ==
  /\ LockTypeOK'
  /\ pc' \in [Clients -> labels]
  /\ HoldersFresh'
  /\ \A c \in Clients : pc'[c] = pc[c] \/ pc'[c] \in {"idle", "wait", "held"}
  /\ \A c \in Clients : Holding(c) => pc'[c] = pc[c]

\* Who holds the lock for writing is the only holder.
LEMMA WriterAlone ==
  ASSUME LockInv, HoldersFresh, NEW c \in Clients, NEW d \in Clients,
         Holding(c), Holding(d), Mode[c] = "write"
  PROVE  c = d
BY DEF HoldersFresh, LockInv, RowsCompatible, LocksConflict

LEMMA LockStepKeeps ==
  ASSUME LockTypeOK, HoldersFresh, Stallers = {}, LockStep,
         NEW labels, {"idle", "wait", "held"} \subseteq labels,
         pc \in [Clients -> labels]
  PROVE  LockKept(labels)
<1> USE LockAssumption DEF LockTypeOK, HoldersFresh, Holding, LockKept
<1>1. CASE FindStale
  BY <1>1 DEF FindStale
<1>2. ASSUME NEW c \in Clients, Request(c) PROVE LockKept(labels)
  BY <1>2 DEF Request, Goto
<1>3. ASSUME NEW c \in Clients, TryInsert(c) PROVE LockKept(labels)
  <2>1. /\ Cleaned \in [Clients -> {"none", "fresh", "stale"}]
        /\ \A d \in Clients : Holding(d) => Cleaned[d] = "fresh"
    BY DEF Cleaned
  <2>2. CASE Blocked(c)
    BY <1>3, <2>1, <2>2 DEF TryInsert
  <2>3. CASE ~Blocked(c)
    <3>1. row' = [Cleaned EXCEPT ![c] = "fresh"] /\ pc' = [pc EXCEPT ![c] = "held"]
      BY <1>3, <2>3 DEF TryInsert, Goto
    <3>2. UNCHANGED <<seen, owners>> /\ pc[c] = "wait"
      BY <1>3 DEF TryInsert
    <3>3. row' \in [Clients -> {"none", "fresh", "stale"}]
      BY <2>1, <3>1
    <3> QED
      BY <2>1, <3>1, <3>2, <3>3
  <2> QED
    BY <2>2, <2>3
<1>4. ASSUME NEW c \in Clients, GiveUp(c) PROVE LockKept(labels)
  BY <1>4 DEF GiveUp, Goto
<1>5. ASSUME NEW c \in Clients, Heartbeat(c) PROVE LockKept(labels)
  BY <1>5 DEF Heartbeat
<1>6. ASSUME NEW c \in Clients, GoStale(c) PROVE LockKept(labels)
  BY <1>6 DEF GoStale, Abandoned
<1>7. ASSUME NEW c \in Clients, Release(c) PROVE LockKept(labels)
  BY <1>7 DEF Release, Goto
<1>8. ASSUME NEW c \in Clients, FailRelease(c) PROVE LockKept(labels)
  BY <1>8 DEF FailRelease, Goto
<1>9. ASSUME NEW c \in Clients, DeleteStale(c) PROVE LockKept(labels)
  BY <1>9 DEF DeleteStale
<1> QED
  BY <1>1, <1>2, <1>3, <1>4, <1>5, <1>6, <1>7, <1>8, <1>9 DEF LockStep

-----------------------------------------------------------------------------
\* The table of state locks never has conflicting rows.
THEOREM LockInvariance == LockSpec => []LockInv
<1>1. LockInit => LockInv
  BY DEF LockInit, LockInv, RowTypes, RowsCompatible
<1>2. LockInv /\ [LockNext]_lock => LockInv'
  BY LockStepPreserves
<1> QED
  BY <1>1, <1>2, PTL DEF LockSpec

\* Of two clients that hold conflicting locks at the same time, one has lost
\* its row: writers exclude everybody as long as heartbeats arrive.
THEOREM HoldersExcludeTheorem == LockSpec => []HoldersExclude
<1>1. LockInv => HoldersExclude
  BY DEF LockInv, RowsCompatible, HoldersExclude, ConflictingHolders
<1> QED
  BY <1>1, LockInvariance, PTL

\* No cleanup and no other client's release removes the row of a holder whose
\* heartbeats arrive.
THEOREM FreshRowKeptTheorem == LockSpec => FreshRowKept
<1>1. LockInv /\ [LockNext]_lock => [KeepsFresh]_lock
  BY LockStepPreserves
<1>2. [KeepsFresh]_lock => [\A c \in Clients :
         (Holding(c) /\ row[c] = "fresh") =>
            row'[c] # "none" \/ ~Holding(c)']_lock
  BY DEF KeepsFresh
<1> QED
  BY <1>1, <1>2, LockInvariance, PTL DEF LockSpec, FreshRowKept
=============================================================================
