----------------------- MODULE LibraryMembershipProofs -----------------------
(***************************************************************************)
(* What a library promises, for any clients, archives, paths, failures and *)
(* crashes anywhere.  One thing is assumed throughout: no holder misses    *)
(* its heartbeats (or the lock is lost).  Three invariants, each on top of *)
(* the one before: LibInv is about the files, RowInv about the rows and    *)
(* IndexInv about the index; and the refinement of AtomicLibrary.  They    *)
(* hold as long as nothing has cost an archive (Safe), and what is said of *)
(* the index as long as nothing has spoiled it (harm); every step is kept  *)
(* in the model, and the theorems say which steps end the promise.         *)
(***************************************************************************)
EXTENDS LibraryMembership, StateLockProofs, WellFoundedInduction

\* (The strings that stand for "not yet" and "removed" are no contents.)
Assumed ==
  /\ Stallers = {}
  /\ {"none", "gone"} \cap Contents = {}

-----------------------------------------------------------------------------
(* The inductive invariant *)

\* Under way with a transaction: what has been done of it, in this order.
Transacting == {"record", "fill", "backup", "copy", "drop", "extract", "mark",
                "row", "finish"}
\* Writing or replacing an archive.
Changing == {"pretouch", "change", "touch", "retouch", "refresh", "rerefresh",
             "revert"}
Recovering == {"recover", "undo", "restore", "unrestore", "untie", "ununtie"}
Labels == Transacting \cup Changing \cup Recovering \cup Outsiders
            \cup {"begin", "dirty", "prepare", "build"}

OpType ==
  [kind : {"none", "add", "remove", "move", "scan", "write", "replace", "rebuild"},
   id : Nat, to : 0 .. PathCount, content : Contents \cup {Absent, Partial}]

TxnType ==
  [exists : BOOLEAN, record : {"absent", "empty", "written"},
   kind : {"none", "add", "remove", "move", "migrate"},
   from : 0 .. PathCount, to : 0 .. PathCount, source : {"file", "directory"},
   published : BOOLEAN, backup : Contents \cup {Absent, Partial}, torn : BOOLEAN]

FolderType ==
  [Paths -> [kind : {"file", "directory"}, content : Contents \cup {Absent, Partial}]]

Types ==
  /\ LockTypeOK
  /\ pc \in [Clients -> Labels]
  /\ folder \in FolderType
  /\ txn \in TxnType
  /\ op \in [Clients -> OpType]
  /\ \A c \in Clients : op[c].kind \in {"add", "move"} => op[c].to \in Paths
  /\ version \in 0 .. MaxVersion
  /\ truth = [a \in Archives |-> truth[a]]

\* Only a client with the write lock changes anything.
WritersOnly == \A c \in Clients : pc[c] \notin Outsiders => Mode[c] = "write"

USE DEF Harmless

\* Somebody is at work there then; to interrupt it costs the archive.
Tearing == {"backup", "copy", "untie", "ununtie", "finish"}
TornIsOwned == Torn => \E c \in Clients : pc[c] \in Tearing

\* Contents at paths, with every archive exactly once as it must be.
Good(contents, must) ==
  /\ \A p \in Paths : contents[p] # Absent =>
       contents[p] \in Contents /\ must[contents[p][1]] = contents[p]
  /\ \A p, q \in Paths : contents[p] # Absent /\ contents[p] = contents[q] => p = q
  /\ \A a \in Archives : must[a] \in Contents =>
       must[a][1] = a /\ \E p \in Paths : contents[p] = must[a]

\* The transaction directory.
TxnShape ==
  /\ ~txn.exists => txn = NoTxn
  /\ txn.exists =>
       /\ txn.kind # "none"
       /\ txn.kind \in {"add", "move"} => txn.to \in Paths
       /\ txn.kind \in {"remove", "move", "migrate"} => txn.from \in Paths
       /\ txn.kind = "move" => txn.from # txn.to
       /\ txn.kind = "migrate" => txn.to = txn.from

GoodNow == Good(Recovered, truth)

At(p) == folder[p].content
SettledFolder == \A p \in Paths : Recovered[p] = At(p)
SourceGone == txn.kind \in {"move", "remove"} => At(txn.from) = Absent

\* How far a client is with its transaction.
Transaction(c) ==
  LET x == op[c].content
      target == txn.kind = "add" => truth[x[1]] = "none"
      source == txn.kind # "add" => At(txn.from) = x
      fresh == txn.kind \in {"add", "move"} => At(txn.to) = Absent
      copied == txn.backup = x
      backedUp == txn.kind \in {"remove", "migrate"}
  IN  /\ txn.exists
      /\ pc[c] # "finish" => ~txn.torn
      /\ x \in Contents
      /\ pc[c] \in {"record", "fill"} =>
           /\ txn.record = [record |-> "absent", fill |-> "empty"][pc[c]]
           /\ ~txn.published /\ txn.backup = Absent
           /\ target /\ source /\ fresh
      /\ pc[c] \notin {"record", "fill", "finish"} => txn.record = "written"
      /\ pc[c] \in {"backup", "copy"} =>
           /\ ~txn.published /\ backedUp /\ source
           /\ txn.backup = [backup |-> Absent, copy |-> Partial][pc[c]]
      /\ pc[c] = "drop" =>
           IF backedUp THEN ~txn.published /\ copied
           ELSE txn.kind = "move" /\ txn.published /\ At(txn.to) = x
      /\ pc[c] = "extract" =>
           /\ ~txn.published /\ target
           /\ txn.kind \in {"add", "move", "migrate"}
           /\ txn.kind = "move" => source
           /\ txn.kind = "migrate" => copied
      /\ pc[c] = "mark" =>
           /\ ~txn.published /\ target
           /\ txn.kind \in {"add", "move", "migrate"} => At(txn.to) = x
           /\ txn.kind = "move" => source
           /\ backedUp => copied
           /\ txn.kind = "remove" => At(txn.from) = Absent
      /\ pc[c] \in {"row", "dirty"} =>
           /\ txn.published /\ SourceGone /\ txn.kind # "migrate"
      /\ pc[c] = "finish" =>
           /\ txn.record # "empty" /\ SettledFolder /\ SourceGone
           /\ txn.published \/ txn.torn

\* The archive a client writes or replaces.
Target(c) == Row(op[c].id).path

Phase(c) ==
  /\ pc[c] \in Changing \cup {"begin"} => ~txn.exists
  /\ pc[c] \in Changing =>
       /\ Target(c) \in Paths
       /\ {At(Target(c)), op[c].content} \subseteq Contents
       /\ At(Target(c))[1] = op[c].content[1]
  /\ pc[c] \in Transacting => Transaction(c)
  /\ pc[c] = "dirty" /\ op[c].kind # "scan" => Transaction(c)
  /\ pc[c] = "undo" =>
       /\ txn.exists /\ ~txn.torn
       /\ Known \/ (txn.record = "absent" /\ txn.published /\ SourceGone)
  /\ pc[c] \in {"restore", "unrestore"} =>
       /\ Known /\ ~txn.published /\ txn.kind \in {"remove", "migrate"}
       /\ txn.backup # Absent
  /\ pc[c] \in {"untie", "ununtie"} => SettledFolder

LibInv ==
  /\ Types /\ LockInv /\ HoldersFresh /\ WritersOnly
  /\ TxnShape /\ TornIsOwned /\ GoodNow
  /\ \A c \in Clients : Phase(c)

-----------------------------------------------------------------------------
(* Who is at work is alone; what others hold is not touched. *)

\* Who is at work holds the lock for writing, and nobody else is at work.
LEMMA Busy ==
  ASSUME LibInv, NEW c \in Clients, pc[c] \notin Outsiders
  PROVE  /\ Holding(c) /\ Mode[c] = "write"
         /\ \A d \in Clients \ {c} : ~Holding(d)
<1>1. Holding(c) /\ Mode[c] = "write"
  BY DEF LibInv, WritersOnly, Holding, Outsiders
<1> QED
  BY <1>1, WriterAlone DEF LibInv

\* Only who tears the directory apart finds it torn.
LEMMA NotTorn ==
  ASSUME LibInv, NEW c \in Clients, pc[c] \notin Outsiders \cup Tearing
  PROVE  ~Torn
<1>1. \A d \in Clients : pc[d] \in Tearing => Holding(d)
  BY DEF Tearing, Holding
<1> QED
  BY <1>1, Busy DEF LibInv, TornIsOwned

\* Clients that are not at work have nothing to keep.
LEMMA PhaseOfOutsiders ==
  ASSUME NEW c \in Clients, pc[c] \in Outsiders PROVE Phase(c)
BY DEF Phase, Outsiders, Changing, Transacting

\* A step of a client with the write lock leaves the others outside.
LEMMA WriterStep ==
  ASSUME LibInv, NEW c \in Clients, Holding(c), Mode[c] = "write",
         NEW l \in Labels, pc' = [pc EXCEPT ![c] = l], LockUnchanged,
         Types', TxnShape', TornIsOwned', GoodNow', Phase(c)'
  PROVE  LibInv'
<1>1. row' = row /\ pc'[c] = l /\ \A d \in Clients \ {c} : pc'[d] = pc[d]
  BY DEF LockUnchanged, LibInv, Types
<1>2. \A d \in Clients \ {c} : ~Holding(d)
  BY WriterAlone DEF LibInv
<1>3. LockInv'
  BY <1>1 DEF LibInv, LockInv, RowTypes, RowsCompatible
<1>4. \A d \in Clients \ {c} : ~Holding(d)' /\ pc'[d] \in Outsiders
  BY <1>1, <1>2 DEF Holding, Outsiders
<1>5. HoldersFresh' /\ WritersOnly'
  BY <1>1, <1>4 DEF LibInv, HoldersFresh, WritersOnly
<1>6. \A d \in Clients \ {c} : Phase(d)'
  BY <1>4 DEF Phase, Outsiders, Changing, Transacting
<1> QED
  BY <1>3, <1>5, <1>6 DEF LibInv

\* What follows from the folder and the transaction directory alone.
LEMMA FilesUnchanged ==
  ASSUME LibInv, UNCHANGED <<folder, txn, truth>>
  PROVE  /\ TxnShape' /\ GoodNow'
         /\ Torn' = Torn /\ Known' = Known /\ Recovered' = Recovered
<1>1. Torn' = Torn
  BY DEF Torn, BackupWindow
<1>2. Known' = Known
  BY <1>1 DEF Known
<1>3. Recovered' = Recovered
  BY <1>2 DEF Recovered
<1> QED
  BY <1>1, <1>2, <1>3 DEF LibInv, TxnShape, GoodNow

\* Most steps of a writer change no file.
LEMMA QuietStep ==
  ASSUME LibInv, NEW c \in Clients, Holding(c), Mode[c] = "write",
         NEW l \in Labels, pc' = [pc EXCEPT ![c] = l], LockUnchanged,
         UNCHANGED <<folder, txn, truth>>,
         Torn => l \in Tearing,
         Types', Phase(c)'
  PROVE  LibInv'
<1>1. TornIsOwned'
  <2>1. pc'[c] = l
    BY DEF LibInv, Types
  <2> QED
    BY <2>1, FilesUnchanged DEF TornIsOwned
<1> QED
  BY <1>1, FilesUnchanged, WriterStep

\* The steps of queries, and what else begins and ends outside.
LEMMA OutsiderStep ==
  ASSUME LibInv, NEW c \in Clients, Holding(c), pc[c] \in Outsiders,
         NEW l \in Outsiders, pc' = [pc EXCEPT ![c] = l], LockUnchanged,
         l \notin {"idle", "wait", "dead"},
         UNCHANGED <<files, rows, version, op, truth>>
  PROVE  LibInv'
<1>1. /\ pc'[c] = l /\ \A d \in Clients \ {c} : pc'[d] = pc[d]
      /\ row' = row /\ UNCHANGED <<folder, txn, truth>>
  BY DEF LibInv, Types, LockUnchanged, files
<1>2. Types'
  BY <1>1 DEF LibInv, Types, LockTypeOK, LockUnchanged, Labels, files
<1>3. LockInv' /\ HoldersFresh' /\ WritersOnly'
  BY <1>1 DEF LibInv, LockInv, RowTypes, RowsCompatible, HoldersFresh, WritersOnly,
             Holding, Outsiders
<1>4. TornIsOwned'
  <2>1. \A d \in Clients : pc[d] \in Tearing => pc'[d] = pc[d]
    BY <1>1 DEF Tearing, Outsiders
  <2> QED
    BY <1>1, <2>1, FilesUnchanged DEF LibInv, TornIsOwned
<1>5. Phase(c)'
  BY <1>1 DEF Phase, Outsiders, Changing, Transacting
<1>6. ASSUME NEW d \in Clients \ {c} PROVE Phase(d)'
  <2>1. pc'[d] = pc[d] /\ op'[d] = op[d] /\ Target(d)' = Target(d)
    BY <1>1 DEF Target, Row
  <2>2. Transaction(d)' = Transaction(d)
    BY <1>1, <2>1, FilesUnchanged DEF Transaction, SettledFolder, SourceGone, At
  <2>3. SettledFolder' = SettledFolder /\ SourceGone' = SourceGone
    BY <1>1, FilesUnchanged DEF SettledFolder, SourceGone, At
  <2>4. At(Target(d))' = At(Target(d))
    BY <1>1, <2>1 DEF At
  <2>5. Phase(d)
    BY DEF LibInv
  <2> QED
    BY <1>1, <2>1, <2>2, <2>3, <2>4, <2>5, FilesUnchanged DEF Phase
<1> QED
  BY <1>1, <1>2, <1>3, <1>4, <1>5, <1>6, FilesUnchanged DEF LibInv

-----------------------------------------------------------------------------
(* Recovery *)

\* The operations that change something hold the lock for writing.
LEMMA Changers ==
  ASSUME NEW c \in Clients, NEW kind \in Does[c], kind # "query"
  PROVE  Mode[c] = "write"
BY LibraryAssumption

LEMMA NoOpType == NoOp \in OpType
BY LibraryAssumption DEF NoOp, OpType

LEMMA StartMutationKeeps ==
  ASSUME LibInv, NEW c \in Clients, StartMutation(c) PROVE LibInv'
<1>1. PICK kind \in Does[c] \cap {"add", "remove", "move", "scan"},
           id \in 1 .. MaxRows, to \in Paths :
        op' = [op EXCEPT ![c] = [NoOp EXCEPT !.kind = kind, !.id = id, !.to = to]]
  BY DEF StartMutation
<1>2. Mode[c] = "write" /\ Holding(c)
  BY <1>1, Changers DEF StartMutation, Holding
<1>3. Types'
  <2>1. /\ LockTypeOK' /\ pc' \in [Clients -> Labels]
        /\ UNCHANGED <<folder, txn, version, truth>>
    BY DEF LibInv, Types, StartMutation, Goto, Labels, Recovering, LockUnchanged,
           LockTypeOK, files, data
  <2>2. /\ to \in 0 .. PathCount /\ id \in Nat
        /\ kind \in {"none", "add", "remove", "move", "scan", "write",
                     "replace", "rebuild"}
    BY <1>1, LibraryAssumption DEF Paths
  <2> DEFINE o == [NoOp EXCEPT !.kind = kind, !.id = id, !.to = to]
  <2>3. o \in OpType /\ o.to = to
    BY <2>2, NoOpType DEF OpType
  <2> HIDE DEF o
  <2> QED
    BY <1>1, <2>1, <2>3 DEF LibInv, Types, o
<1>4. Phase(c)'
  BY DEF LibInv, Types, StartMutation, Goto, Phase, Changing, Transacting
<1>5. ~Torn
  <2>1. \A d \in Clients : pc[d] \notin Tearing
    <3>1. \A d \in Clients : pc[d] \in Tearing => Holding(d) /\ d # c
      BY DEF StartMutation, Tearing, Holding
    <3> QED
      BY <1>2, <3>1, WriterAlone DEF LibInv
  <2> QED
    BY <2>1 DEF LibInv, TornIsOwned
<1> QED
  BY <1>2, <1>3, <1>4, <1>5, QuietStep
     DEF StartMutation, Goto, files, Labels, Recovering

\* Steps that change control only.
LEMMA TypesKept ==
  ASSUME LibInv, NEW c \in Clients, NEW l \in Labels, pc' = [pc EXCEPT ![c] = l],
         LockUnchanged, UNCHANGED <<folder, txn, op, version, truth>>
  PROVE  Types'
BY DEF LibInv, Types, LockTypeOK, LockUnchanged

\* Control moves on, and what has to hold there does.
LEMMA ControlStep ==
  ASSUME LibInv, NEW c \in Clients, pc[c] \notin Outsiders,
         NEW l \in Labels, pc' = [pc EXCEPT ![c] = l], LockUnchanged,
         UNCHANGED <<files, op, version, truth>>,
         Torn => l \in Tearing, Phase(c)'
  PROVE  LibInv'
<1>1. UNCHANGED <<folder, txn>>
  BY DEF files
<1> QED
  BY <1>1, Busy, TypesKept, QuietStep

LEMMA RejectRecordKeeps ==
  ASSUME LibInv, NEW c \in Clients, RejectRecord(c) PROVE LibInv'
<1>1. pc[c] \notin Outsiders \cup Tearing /\ pc' = [pc EXCEPT ![c] = "release"]
  BY DEF RejectRecord, Goto, Outsiders, Tearing
<1>2. Phase(c)'
  BY <1>1 DEF LibInv, Types, Phase, Changing, Transacting
<1> QED
  BY <1>1, <1>2, NotTorn, ControlStep DEF RejectRecord, data, Labels, Outsiders

LEMMA DropUnrecordedKeeps ==
  ASSUME LibInv, NEW c \in Clients, DropUnrecorded(c) PROVE LibInv'
<1>1. pc[c] \notin Outsiders \cup Tearing /\ pc' = [pc EXCEPT ![c] = "untie"]
  BY DEF DropUnrecorded, Goto, Outsiders, Tearing
<1>2. SettledFolder'
  BY DEF DropUnrecorded, SettledFolder, Recovered, Known, At, files
<1>3. Phase(c)'
  BY <1>1, <1>2 DEF LibInv, Types, Phase, Changing, Transacting
<1> QED
  BY <1>1, <1>3, NotTorn, ControlStep DEF DropUnrecorded, data, Labels, Recovering

LEMMA FinishRecoveryKeeps ==
  ASSUME LibInv, NEW c \in Clients, FinishRecovery(c) PROVE LibInv'
<1>1. pc[c] \notin Outsiders \cup Tearing /\ pc' = [pc EXCEPT ![c] = "begin"]
  BY DEF FinishRecovery, Goto, Outsiders, Tearing
<1>2. Phase(c)'
  BY <1>1 DEF LibInv, Types, Phase, Changing, Transacting, FinishRecovery, files
<1> QED
  BY <1>1, <1>2, NotTorn, ControlStep DEF FinishRecovery, data, Labels

\* Whoever decides what to do with a directory knows, or it is published and
\* nothing is left to do.
LEMMA Deciding ==
  ASSUME LibInv, NEW c \in Clients, pc[c] \in Decide, Recorded(c)
  PROVE  /\ pc[c] \notin Outsiders \cup Tearing /\ ~Torn /\ TxnShape
         /\ Known \/ (txn.published /\ SourceGone /\ SettledFolder)
         /\ Untie[pc[c]] \in {"untie", "ununtie"}
         /\ Restore[pc[c]] \in {"restore", "unrestore"}
<1>1. pc[c] \notin Outsiders \cup Tearing
  BY DEF Decide, Outsiders, Tearing
<1>2. ~Torn
  BY <1>1, NotTorn
<1>3. CASE txn.record = "written"
  BY <1>1, <1>2, <1>3 DEF Known, LibInv, Untie, Restore, Decide
<1>4. CASE txn.record # "written"
  BY <1>1, <1>2, <1>4
     DEF Recorded, LibInv, Phase, Known, SettledFolder, Recovered, At, Untie, Restore,
         Decide
<1> QED
  BY <1>3, <1>4

\* The removal of an entry.
LEMMA EntryGone ==
  ASSUME Types, NEW p \in Paths
  PROVE  LET new == [folder EXCEPT ![p] = NoEntry]
         IN  /\ new \in FolderType
             /\ new[p].content = Absent
             /\ \A q \in Paths \ {p} : new[q] = folder[q]
BY DEF Types, FolderType, NoEntry, Entry

\* A step of a writer that changes entries, but not what recovery makes of them.
LEMMA FolderStep ==
  ASSUME LibInv, NEW c \in Clients, pc[c] \notin Outsiders, ~Torn,
         NEW l \in Labels, pc' = [pc EXCEPT ![c] = l], LockUnchanged,
         folder' \in FolderType,
         UNCHANGED <<txn, op, version, truth>>,
         Recovered' = Recovered, Phase(c)'
  PROVE  LibInv'
<1>1. Types'
  BY DEF LibInv, Types, LockTypeOK, LockUnchanged
<1>2. TxnShape' /\ TornIsOwned'
  BY DEF LibInv, TxnShape, TornIsOwned, Torn, BackupWindow
<1>3. GoodNow'
  BY DEF LibInv, GoodNow
<1> QED
  BY <1>1, <1>2, <1>3, Busy, WriterStep

LEMMA KnownUnchanged ==
  ASSUME UNCHANGED txn PROVE Known' = Known /\ Torn' = Torn
BY DEF Known, Torn, BackupWindow

LEMMA RollForwardKeeps ==
  ASSUME LibInv, NEW c \in Clients, RollForward(c) PROVE LibInv' /\ Recovered' = Recovered
<1>1. /\ pc[c] \notin Outsiders \cup Tearing /\ ~Torn
      /\ Known \/ (txn.published /\ SourceGone /\ SettledFolder)
      /\ Untie[pc[c]] \in {"untie", "ununtie"}
  BY Deciding DEF RollForward
<1>2. pc' = [pc EXCEPT ![c] = Untie[pc[c]]] /\ UNCHANGED <<txn, op, version, truth>>
  BY DEF RollForward, Goto, data
<1>3. txn.kind \in {"move", "remove"} => txn.from \in Paths
  BY DEF RollForward, Recorded, LibInv, TxnShape
<1>4. /\ folder' \in FolderType
      /\ txn.kind \in {"move", "remove"} =>
           /\ At(txn.from)' = Absent
           /\ \A q \in Paths \ {txn.from} : At(q)' = At(q)
      /\ txn.kind \notin {"move", "remove"} => folder' = folder
  <2>1. folder \in FolderType
    BY DEF LibInv, Types
  <2>2. CASE txn.kind \in {"move", "remove"}
    <3>1. folder' = [folder EXCEPT ![txn.from] = NoEntry]
      BY <2>2 DEF RollForward
    <3>2. Types /\ txn.from \in Paths
      BY <1>3, <2>2 DEF LibInv
    <3> QED
      BY <1>2, <2>2, <3>1, <3>2, EntryGone DEF At
  <2>3. CASE txn.kind \notin {"move", "remove"}
    BY <2>1, <2>3 DEF RollForward
  <2> QED
    BY <2>2, <2>3
<1>5. \A q \in Paths : Recovered'[q] = Recovered[q] /\ Recovered'[q] = At(q)'
  <2>1. CASE Known
    BY <1>2, <1>3, <1>4, <2>1, KnownUnchanged DEF RollForward, Recovered, At
  <2>2. CASE ~Known
    BY <1>1, <1>2, <1>3, <1>4, <2>2, KnownUnchanged
       DEF RollForward, Recovered, At, SourceGone
  <2> QED
    BY <2>1, <2>2
<1>6. Recovered' = Recovered
  BY <1>5 DEF Recovered
<1>7. Phase(c)'
  BY <1>1, <1>2, <1>5 DEF LibInv, Types, Phase, SettledFolder, Changing, Transacting
<1> QED
  BY <1>1, <1>2, <1>4, <1>6, <1>7, FolderStep DEF RollForward, Labels, Recovering

LEMMA RollBackTargetKeeps ==
  ASSUME LibInv, NEW c \in Clients, RollBackTarget(c) PROVE LibInv' /\ Recovered' = Recovered
<1>1. /\ pc[c] \notin Outsiders \cup Tearing /\ ~Torn /\ Known
      /\ Untie[pc[c]] \in {"untie", "ununtie"}
  BY Deciding DEF RollBackTarget
<1>2. /\ pc' = [pc EXCEPT ![c] = Untie[pc[c]]] /\ UNCHANGED <<txn, op, version, truth>>
      /\ ~txn.published /\ txn.kind \in {"add", "move"}
  BY DEF RollBackTarget, Goto, data
<1>3. txn.to \in Paths
  BY <1>2 DEF RollBackTarget, Recorded, LibInv, TxnShape
<1>4. /\ folder' \in FolderType
      /\ At(txn.to)' = Absent
      /\ \A q \in Paths \ {txn.to} : At(q)' = At(q)
  BY <1>2, <1>3, EntryGone DEF LibInv, RollBackTarget, At
<1>5. \A q \in Paths : Recovered'[q] = Recovered[q] /\ Recovered'[q] = At(q)'
  BY <1>1, <1>2, <1>3, <1>4, KnownUnchanged DEF Recovered, At
<1>6. Recovered' = Recovered
  BY <1>5 DEF Recovered
<1>7. Phase(c)'
  BY <1>1, <1>2, <1>5 DEF LibInv, Types, Phase, SettledFolder, Changing, Transacting
<1> QED
  BY <1>1, <1>2, <1>4, <1>6, <1>7, FolderStep DEF RollBackTarget, Labels, Recovering

\* What a rollback of a removal or migration removes comes back from the backup.
LEMMA RollBackSource ==
  ASSUME LibInv, NEW c \in Clients, pc[c] \in Decide, Recorded(c),
         ~txn.published, txn.kind \in {"remove", "migrate"}, txn.backup # Absent,
         folder' = [folder EXCEPT ![txn.from] = NoEntry],
         pc' = [pc EXCEPT ![c] = Restore[pc[c]]],
         UNCHANGED <<txn, op, version, truth>>, LockUnchanged
  PROVE  LibInv' /\ Recovered' = Recovered
<1>1. /\ pc[c] \notin Outsiders \cup Tearing /\ ~Torn /\ Known
      /\ Restore[pc[c]] \in {"restore", "unrestore"}
  BY Deciding
<1>2. txn.from \in Paths
  BY DEF Recorded, LibInv, TxnShape
<1>3. /\ folder' \in FolderType
      /\ \A q \in Paths \ {txn.from} : At(q)' = At(q)
  BY <1>2, EntryGone DEF LibInv, At
<1>4. \A q \in Paths : Recovered'[q] = Recovered[q]
  BY <1>1, <1>2, <1>3, KnownUnchanged DEF Recovered, At
<1>5. Recovered' = Recovered
  BY <1>4 DEF Recovered
<1>6. Phase(c)'
  BY <1>1, KnownUnchanged DEF LibInv, Types, Phase, Changing, Transacting
<1> QED
  BY <1>1, <1>3, <1>5, <1>6, FolderStep DEF Labels, Recovering

LEMMA RollBackRemovalKeeps ==
  ASSUME LibInv, NEW c \in Clients, RollBackRemoval(c) PROVE LibInv' /\ Recovered' = Recovered
<1>1. txn.backup # Absent
  <2>1. ~Torn /\ Known
    BY Deciding DEF RollBackRemoval
  <2> QED
    BY <2>1 DEF RollBackRemoval, Known, Torn, BackupWindow, Recorded
<1> QED
  BY <1>1, RollBackSource DEF RollBackRemoval, Goto, data

LEMMA RollBackMigrationKeeps ==
  ASSUME LibInv, NEW c \in Clients, RollBackMigration(c) PROVE LibInv' /\ Recovered' = Recovered
<1>1. CASE txn.backup # Absent
  BY <1>1, RollBackSource DEF RollBackMigration, Goto, data
<1>2. CASE txn.backup = Absent
  <2>1. pc[c] \notin Outsiders /\ ~Torn /\ pc' = [pc EXCEPT ![c] = "release"]
    BY <1>2, Deciding DEF RollBackMigration, Goto
  <2>2. Phase(c)'
    BY <2>1 DEF LibInv, Types, Phase, Changing, Transacting
  <2> QED
    BY <1>2, <2>1, <2>2, ControlStep, FilesUnchanged
       DEF RollBackMigration, data, files, Labels, Outsiders
<1> QED
  BY <1>1, <1>2

LEMMA RestoreEntryKeeps ==
  ASSUME LibInv, NEW c \in Clients, RestoreEntry(c) PROVE LibInv' /\ Recovered' = Recovered
<1>1. pc[c] \in {"restore", "unrestore"}
  BY DEF RestoreEntry, Restore, Decide
<1>2. /\ pc[c] \notin Outsiders \cup Tearing /\ ~Torn /\ Known /\ ~txn.published
      /\ txn.kind \in {"remove", "migrate"} /\ txn.backup # Absent
  BY <1>1 DEF LibInv, Phase, Known, Outsiders, Tearing
<1>3. txn.from \in Paths
  BY <1>2 DEF LibInv, TxnShape, Known, NoTxn
<1>4. UNCHANGED <<txn, op, version, truth>>
  BY DEF RestoreEntry, data
<1>5. ASSUME folder' \in FolderType,
             \A q \in Paths \ {txn.from} : At(q)' = At(q)
      PROVE  Recovered' = Recovered
  <2>1. \A q \in Paths : Recovered'[q] = Recovered[q]
    BY <1>2, <1>3, <1>4, <1>5, KnownUnchanged DEF Recovered, At
  <2> QED
    BY <2>1 DEF Recovered
<1>6. CASE Exists(txn.from)
  <2>1. /\ folder' \in FolderType
        /\ At(txn.from)' = txn.backup
        /\ \A q \in Paths \ {txn.from} : At(q)' = At(q)
    BY <1>3, <1>6 DEF RestoreEntry, LibInv, Types, FolderType, TxnType, At
  <2>2. Recovered' = Recovered
    BY <1>5, <2>1
  <2>3. \A q \in Paths : Recovered'[q] = At(q)'
    BY <1>2, <1>3, <1>4, <2>1, KnownUnchanged DEF Recovered, At
  <2>4. PICK l \in {"untie", "ununtie"} : pc' = [pc EXCEPT ![c] = l]
    BY <1>1, <1>6 DEF RestoreEntry, Goto
  <2>5. Phase(c)'
    BY <2>3, <2>4 DEF LibInv, Types, Phase, SettledFolder, Changing, Transacting
  <2> QED
    BY <1>2, <1>4, <2>1, <2>2, <2>4, <2>5, FolderStep
       DEF RestoreEntry, Labels, Recovering
<1>7. CASE ~Exists(txn.from)
  <2>1. /\ folder' \in FolderType
        /\ \A q \in Paths \ {txn.from} : At(q)' = At(q)
    BY <1>3, <1>7, SMTT(15)
       DEF RestoreEntry, LibInv, Types, FolderType, TxnType, At, Entry
  <2>2. Recovered' = Recovered
    BY <1>5, <2>1
  <2>3. pc' = [pc EXCEPT ![c] = pc[c]] /\ pc[c] \in Labels
    BY <1>7 DEF RestoreEntry, LibInv, Types
  <2>4. Phase(c)'
    BY <1>1, <1>2, <1>4, <2>3, KnownUnchanged
       DEF LibInv, Types, Phase, Changing, Transacting
  <2> QED
    BY <1>2, <1>4, <2>1, <2>2, <2>3, <2>4, FolderStep DEF RestoreEntry
<1> QED
  BY <1>6, <1>7

\* The directory comes apart or grows, and the folder stays as recovery would
\* leave it.
LEMMA TxnStep ==
  ASSUME LibInv, NEW c \in Clients, pc[c] \notin Outsiders,
         NEW l \in Labels, pc' = [pc EXCEPT ![c] = l], LockUnchanged,
         txn' \in TxnType, UNCHANGED <<folder, op, version, truth>>,
         Torn' => l \in Tearing,
         TxnShape', Recovered' = Recovered, Phase(c)'
  PROVE  LibInv'
<1>1. Types'
  BY DEF LibInv, Types, LockTypeOK, LockUnchanged
<1>2. TornIsOwned'
  BY DEF LibInv, Types, TornIsOwned
<1>3. GoodNow'
  BY DEF LibInv, GoodNow
<1> QED
  BY <1>1, <1>2, <1>3, Busy, WriterStep

\* Without a record, recovery leaves the folder as it is.
LEMMA NothingKnown ==
  ASSUME ~Known PROVE Recovered = [p \in Paths |-> At(p)]
BY DEF Recovered, At

LEMMA RecoveredSettled ==
  ASSUME SettledFolder PROVE Recovered = [p \in Paths |-> At(p)]
BY DEF SettledFolder, Recovered

LEMMA RemoveTxnPartKeeps ==
  ASSUME LibInv, NEW c \in Clients, RemoveTxnPart(c) PROVE LibInv' /\ Recovered' = Recovered
<1>1. pc[c] \in Tearing /\ pc[c] \notin Outsiders /\ SettledFolder
  BY DEF RemoveTxnPart, Tearing, Outsiders, LibInv, Phase, Transacting, Transaction
<1>2. /\ UNCHANGED <<folder, op, version, truth>> /\ txn' \in TxnType
      /\ txn'.exists /\ UNCHANGED <<txn.kind, txn.from, txn.to>>
      /\ txn'.record = "absent" \/ (txn'.record = txn.record /\ txn'.torn)
      /\ txn'.record \in {txn.record, "absent"}
      /\ txn'.published = txn.published \/ txn'.torn
      /\ txn.torn => txn'.torn
  <2>1. UNCHANGED <<folder, op, version, truth>>
    BY DEF RemoveTxnPart, data
  <2>2. txn \in TxnType /\ txn.exists
    BY DEF RemoveTxnPart, LibInv, Types
  <2>3. CASE txn' = [txn EXCEPT !.record = "absent"]
    BY <2>1, <2>2, <2>3 DEF TxnType
  <2>4. CASE txn' = [txn EXCEPT !.published = FALSE, !.torn = TRUE]
    BY <2>1, <2>2, <2>4 DEF TxnType
  <2>5. CASE txn' = [txn EXCEPT !.backup = Absent, !.torn = TRUE]
    BY <2>1, <2>2, <2>5 DEF TxnType
  <2> QED
    BY <2>3, <2>4, <2>5 DEF RemoveTxnPart
<1>3. ~Known'
  BY <1>2 DEF Known, Torn
<1>4. Recovered' = Recovered
  <2>1. Recovered' = [p \in Paths |-> At(p)']
    BY <1>3 DEF Recovered, At
  <2> QED
    BY <1>1, <1>2, <2>1, RecoveredSettled DEF At
<1>5. TxnShape'
  BY <1>2 DEF RemoveTxnPart, LibInv, TxnShape
<1>6. pc' = [pc EXCEPT ![c] = pc[c]] /\ pc[c] \in Labels
  BY DEF RemoveTxnPart, LibInv, Types
<1>7. Phase(c)'
  <2>1. pc'[c] = pc[c] /\ pc[c] \in {"untie", "ununtie", "finish"} /\ Phase(c)
    BY DEF RemoveTxnPart, LibInv
  <2>2. SettledFolder'
    BY <1>1, <1>2, <1>4 DEF SettledFolder, At
  <2>3. SourceGone' = SourceGone
    BY <1>2 DEF SourceGone, At
  <2>4. pc[c] = "finish" => Transaction(c)'
    BY <1>2, <2>1, <2>2, <2>3 DEF Phase, Transacting, Transaction
  <2> QED
    BY <2>1, <2>2, <2>4 DEF Phase, Changing, Transacting
<1> QED
  BY <1>1, <1>2, <1>4, <1>5, <1>6, <1>7, TxnStep DEF RemoveTxnPart

LEMMA NoTxnType == NoTxn \in TxnType /\ ~NoTxn.exists /\ NoTxn.record = "absent"
BY LibraryAssumption DEF NoTxn, TxnType

LEMMA RemoveTxnKeeps ==
  ASSUME LibInv, NEW c \in Clients, RemoveTxn(c) PROVE LibInv' /\ Recovered' = Recovered
<1>1. pc[c] \notin Outsiders /\ SettledFolder
  BY DEF RemoveTxn, Outsiders, LibInv, Phase, Transacting, Transaction
<1>2. txn' = NoTxn /\ UNCHANGED <<folder, op, version, truth>>
  BY DEF RemoveTxn, data
<1>3. ~Known' /\ ~Torn' /\ TxnShape'
  BY <1>2, NoTxnType DEF Known, Torn, TxnShape
<1>4. Recovered' = Recovered
  <2>1. Recovered' = [p \in Paths |-> At(p)']
    BY <1>3 DEF Recovered, At
  <2> QED
    BY <1>1, <1>2, <2>1, RecoveredSettled DEF At
<1>5. PICK l \in {"recover", "begin", "release"} : pc' = [pc EXCEPT ![c] = l]
  BY DEF RemoveTxn, Goto
<1>6. Phase(c)'
  BY <1>2, <1>5, NoTxnType DEF LibInv, Types, Phase, Changing, Transacting
<1> QED
  BY <1>1, <1>2, <1>3, <1>4, <1>5, <1>6, NoTxnType, TxnStep
     DEF RemoveTxn, Labels, Recovering, Outsiders

-----------------------------------------------------------------------------
(* Additions, removals, moves, migrations *)

LEMMA ContentPair ==
  ASSUME NEW x \in Contents
  PROVE  x[1] \in Archives /\ x # Absent /\ x # Partial
BY LibraryAssumption DEF Contents, Archives

\* Without a transaction the folder has every archive exactly once.
LEMMA GoodFolder ==
  ASSUME LibInv, ~Known
  PROVE  /\ Good([p \in Paths |-> At(p)], truth)
         /\ \A p \in Paths : At(p) # Absent =>
              At(p) \in Contents /\ truth[At(p)[1]] = At(p)
         /\ \A p, q \in Paths : At(p) # Absent /\ At(p) = At(q) => p = q
<1>1. Good([p \in Paths |-> At(p)], truth)
  BY NothingKnown DEF LibInv, GoodNow
<1> QED
  BY <1>1 DEF Good

LEMMA BeginKeeps ==
  ASSUME LibInv, NEW c \in Clients, pc[c] = "begin",
         NEW kind \in {"add", "remove", "move", "migrate"},
         NEW from \in 0 .. PathCount, NEW to \in 0 .. PathCount, NEW x \in Contents,
         Begin(c, kind, from, to, x),
         version' \in 0 .. MaxVersion,
         op[c].kind \in {"add", "move"} => to \in Paths,
         kind \in {"add", "move"} => to \in Paths /\ At(to) = Absent,
         kind # "add" => from \in Paths /\ At(from) = x,
         kind = "add" => from = 0 /\ truth[x[1]] = "none",
         kind = "migrate" => to = from
  PROVE  LibInv' /\ Recovered' = Recovered
<1>1. /\ pc[c] \notin Outsiders /\ ~txn.exists /\ txn = NoTxn
      /\ ~Known /\ pc' = [pc EXCEPT ![c] = "record"]
  BY NoTxnType DEF Outsiders, LibInv, Phase, TxnShape, Known, Begin, Goto
<1>2. UNCHANGED <<folder, truth>>
  BY DEF Begin
<1> DEFINE o == [op[c] EXCEPT !.to = to, !.content = x]
           source == IF from = 0 THEN "file" ELSE folder[from].kind
<1>3. op' = [op EXCEPT ![c] = o] /\ o \in OpType /\ o.kind = op[c].kind
      /\ o.to = to /\ o.content = x
  BY DEF Begin, LibInv, Types, OpType
<1>4. source \in {"file", "directory"}
  <2>1. from = 0 \/ from \in Paths
    BY LibraryAssumption DEF Paths
  <2> QED
    BY <2>1 DEF LibInv, Types, FolderType
<1>5. /\ txn' \in TxnType /\ txn'.exists /\ txn'.record = "absent"
      /\ txn'.kind = kind /\ txn'.from = from /\ txn'.to = to
      /\ ~txn'.published /\ txn'.backup = Absent /\ ~txn'.torn
  <2>1. txn' = [NoTxn EXCEPT !.exists = TRUE, !.kind = kind, !.from = from,
                             !.to = to, !.source = source]
    BY DEF Begin
  <2> HIDE DEF source
  <2> QED
    BY <1>4, <2>1, NoTxnType DEF TxnType, NoTxn
<1> HIDE DEF o, source
<1>6. Types'
  <2>1. /\ LockTypeOK' /\ pc' \in [Clients -> Labels]
    BY <1>1 DEF LibInv, Types, LockTypeOK, Begin, LockUnchanged, Labels, Transacting
  <2>2. /\ op' \in [Clients -> OpType]
        /\ \A d \in Clients : op'[d].kind \in {"add", "move"} => op'[d].to \in Paths
    BY <1>3 DEF LibInv, Types
  <2> QED
    BY <1>2, <1>5, <2>1, <2>2 DEF LibInv, Types
<1>7. ~Known' /\ ~Torn'
  BY <1>5 DEF Known, Torn
<1>8. GoodNow' /\ Recovered' = Recovered
  <2>1. Recovered' = [p \in Paths |-> At(p)']
    BY <1>7 DEF Recovered, At
  <2>2. Recovered = [p \in Paths |-> At(p)]
    BY <1>1, NothingKnown
  <2> QED
    BY <1>2, <2>1, <2>2 DEF LibInv, GoodNow, At
<1>9. TxnShape'
  <2>1. kind = "move" => from # to
    BY <1>1, ContentPair DEF At
  <2> QED
    BY <1>5, <2>1 DEF TxnShape
<1>10. TornIsOwned'
  BY <1>7 DEF TornIsOwned
<1>11. Phase(c)'
  <2>1. pc'[c] = "record" /\ op'[c].content = x
    BY <1>1, <1>3 DEF LibInv, Types
  <2>2. Transaction(c)'
    BY <1>2, <1>5, <2>1 DEF Transaction, At
  <2> QED
    BY <2>1, <2>2 DEF Phase, Changing
<1> QED
  BY <1>1, <1>6, <1>8, <1>9, <1>10, <1>11, Busy, WriterStep
     DEF Begin, Labels, Transacting

LEMMA BeginAddKeeps ==
  ASSUME LibInv, NEW c \in Clients, BeginAdd(c) PROVE LibInv' /\ Recovered' = Recovered
<1>1. PICK a \in Archives :
        truth[a] = "none" /\ Begin(c, "add", 0, op[c].to, <<a, version + 1>>)
  BY DEF BeginAdd, IsNewArchive
<1>2. version' \in 0 .. MaxVersion /\ version + 1 \in 0 .. MaxVersion
  BY LibraryAssumption DEF BeginAdd, LibInv, Types
<1>3. <<a, version + 1>> \in Contents /\ <<a, version + 1>>[1] = a
  BY <1>2 DEF Contents
<1>4. op[c].to \in Paths /\ op[c].to \in 0 .. PathCount /\ 0 \in 0 .. PathCount
  BY LibraryAssumption DEF BeginAdd, LibInv, Types, OpType
<1>5. At(op[c].to) = Absent
  BY DEF BeginAdd, Refused, Exists, At
<1> QED
  BY <1>1, <1>2, <1>3, <1>4, <1>5, BeginKeeps DEF BeginAdd

LEMMA BeginChangeKeeps ==
  ASSUME LibInv, NEW c \in Clients, BeginChange(c) PROVE LibInv' /\ Recovered' = Recovered
<1> DEFINE path == Row(op[c].id).path
<1>1. /\ path \in Paths /\ At(path) # Absent /\ path \in 0 .. PathCount
  BY LibraryAssumption
     DEF BeginChange, Refused, Resolves, ListedPaths, Exists, At, Paths
<1>2. ~txn.exists /\ ~Known
  BY NoTxnType DEF BeginChange, LibInv, Phase, TxnShape, Known
<1>3. At(path) \in Contents
  BY <1>1, <1>2, GoodFolder
<1>4. op[c].kind = "move" => op[c].to \in Paths /\ At(op[c].to) = Absent
  BY DEF BeginChange, Refused, Exists, At, LibInv, Types
<1>5. op[c].to \in 0 .. PathCount /\ version' \in 0 .. MaxVersion
  BY DEF BeginChange, LibInv, Types, OpType
<1>6. Begin(c, op[c].kind, path, op[c].to, At(path))
  BY DEF BeginChange, At
<1>7. pc[c] = "begin" /\ op[c].kind \in {"remove", "move"}
  BY DEF BeginChange
<1> HIDE DEF path
<1> QED
  BY <1>1, <1>3, <1>4, <1>5, <1>6, <1>7, BeginKeeps

LEMMA BeginMigrationKeeps ==
  ASSUME LibInv, NEW c \in Clients, BeginMigration(c) PROVE LibInv' /\ Recovered' = Recovered
<1>1. PICK p \in ArchiveFiles :
        /\ folder[p].content \in Contents
        /\ Begin(c, "migrate", p, p, folder[p].content)
  BY DEF BeginMigration
<1>2. p \in Paths /\ p \in 0 .. PathCount /\ At(p) \in Contents
  BY <1>1, LibraryAssumption DEF ArchiveFiles, ListedPaths, Paths, At
<1>3. version' \in 0 .. MaxVersion
  BY DEF BeginMigration, LibInv, Types
<1>4. Begin(c, "migrate", p, p, At(p))
  BY <1>1 DEF At
<1> QED
  BY <1>2, <1>3, <1>4, BeginKeeps DEF BeginMigration

\* Under way with a transaction that is recorded.
LEMMA Recorded1 ==
  ASSUME LibInv, NEW c \in Clients, pc[c] \in Transacting
  PROVE  /\ Transaction(c) /\ pc[c] \notin Outsiders /\ txn.exists
         /\ op[c].content \in Contents /\ txn.kind # "none"
         /\ txn.kind \in {"add", "move"} => txn.to \in Paths
         /\ txn.kind \in {"remove", "move", "migrate"} => txn.from \in Paths
         /\ txn.kind = "move" => txn.from # txn.to
         /\ txn.kind = "migrate" => txn.to = txn.from
BY DEF LibInv, Phase, Transacting, Outsiders, Transaction, TxnShape

LEMMA CreateRecordKeeps ==
  ASSUME LibInv, NEW c \in Clients, CreateRecord(c) PROVE LibInv' /\ Recovered' = Recovered
<1>1. pc[c] = "record" /\ pc[c] \in Transacting
  BY DEF CreateRecord, Transacting
<1>2. Transaction(c) /\ pc[c] \notin Outsiders /\ txn.exists
  BY <1>1, Recorded1
<1>3. /\ pc' = [pc EXCEPT ![c] = "fill"] /\ UNCHANGED <<folder, op, version, truth>>
      /\ txn' \in TxnType /\ txn' = [txn EXCEPT !.record = "empty"]
      /\ txn'.record = "empty" /\ txn.record = "absent"
      /\ UNCHANGED <<txn.exists, txn.kind, txn.from, txn.to, txn.published,
                     txn.backup, txn.torn>>
  <2>1. txn.record = "absent"
    BY <1>1, <1>2 DEF Transaction
  <2> QED
    BY <2>1 DEF CreateRecord, Goto, data, LibInv, Types, TxnType
<1>4. ~Known /\ ~Known' /\ ~Torn'
  BY <1>3 DEF Known, Torn
<1>5. Recovered' = Recovered
  BY <1>3, <1>4 DEF Recovered
<1>6. TxnShape'
  BY <1>2, <1>3 DEF LibInv, TxnShape
<1>7. Phase(c)'
  <2>1. pc'[c] = "fill"
    BY <1>3 DEF LibInv, Types
  <2>2. Transaction(c)'
    BY <1>1, <1>2, <1>3, <2>1 DEF Transaction, At
  <2> QED
    BY <2>1, <2>2 DEF Phase, Changing
<1> QED
  BY <1>2, <1>3, <1>4, <1>5, <1>6, <1>7, TxnStep DEF CreateRecord, Labels, Transacting

LEMMA WriteRecordKeeps ==
  ASSUME LibInv, NEW c \in Clients, WriteRecord(c) PROVE LibInv' /\ Recovered' = Recovered
<1>1. pc[c] = "fill" /\ pc[c] \in Transacting
  BY DEF WriteRecord, Transacting
<1>2. /\ Transaction(c) /\ pc[c] \notin Outsiders /\ txn.exists
      /\ txn.kind \in {"add", "move"} => txn.to \in Paths
  BY <1>1, Recorded1
<1>3. PICK l \in {"extract", "backup"} :
        pc' = [pc EXCEPT ![c] = l] /\ (l = "extract" <=> txn.kind \in {"add", "move"})
  BY DEF WriteRecord, Goto
<1>4. /\ UNCHANGED <<folder, op, version, truth>>
      /\ txn' \in TxnType /\ txn'.record = "written" /\ txn.record = "empty"
      /\ UNCHANGED <<txn.exists, txn.kind, txn.from, txn.to, txn.published,
                     txn.backup, txn.torn>>
      /\ ~txn.published /\ txn.backup = Absent /\ ~txn.torn
  <2>1. txn.record = "empty" /\ ~txn.published /\ txn.backup = Absent /\ ~txn.torn
    BY <1>1, <1>2 DEF Transaction
  <2> QED
    BY <2>1 DEF WriteRecord, data, LibInv, Types, TxnType
<1>5. ~Known /\ (Torn' => l = "backup")
  BY <1>3, <1>4 DEF Known, Torn, BackupWindow
<1>6. Recovered' = Recovered
  <2>1. txn.kind \in {"add", "move"} => At(txn.to) = Absent
    BY <1>1, <1>2 DEF Transaction
  <2>2. \A q \in Paths : Recovered'[q] = Recovered[q]
    BY <1>4, <1>5, <2>1 DEF Recovered, At
  <2> QED
    BY <2>2 DEF Recovered
<1>7. TxnShape'
  BY <1>2, <1>4 DEF LibInv, TxnShape
<1>8. Phase(c)'
  <2>1. pc'[c] = l
    BY <1>3 DEF LibInv, Types
  <2>2. txn.kind \notin {"add", "move"} => txn.kind \in {"remove", "migrate"}
    BY <1>1, Recorded1 DEF LibInv, Types, TxnType
  <2>3. Transaction(c)'
    BY <1>1, <1>2, <1>3, <1>4, <2>1, <2>2 DEF Transaction, At
  <2> QED
    BY <2>1, <2>3 DEF Phase, Changing
<1> QED
  BY <1>2, <1>3, <1>4, <1>5, <1>6, <1>7, <1>8, TxnStep
     DEF WriteRecord, Labels, Transacting, Tearing

LEMMA CreateBackupKeeps ==
  ASSUME LibInv, NEW c \in Clients, CreateBackup(c) PROVE LibInv' /\ Recovered' = Recovered
<1>1. pc[c] = "backup" /\ pc[c] \in Transacting
  BY DEF CreateBackup, Transacting
<1>2. Transaction(c) /\ pc[c] \notin Outsiders /\ txn.exists
  BY <1>1, Recorded1
<1>3. /\ pc' = [pc EXCEPT ![c] = "copy"] /\ UNCHANGED <<folder, op, version, truth>>
      /\ txn' \in TxnType /\ txn'.backup = Partial
      /\ UNCHANGED <<txn.exists, txn.kind, txn.from, txn.to, txn.published,
                     txn.record, txn.torn>>
  BY DEF CreateBackup, Goto, data, LibInv, Types, TxnType
<1>4. /\ txn.record = "written" /\ ~txn.published /\ txn.backup = Absent
      /\ txn.kind \in {"remove", "migrate"}
  BY <1>1, <1>2 DEF Transaction
<1>5. ~Known'
  BY <1>2, <1>3, <1>4 DEF Known, Torn, BackupWindow
<1>6. Recovered' = Recovered
  <2>1. \A q \in Paths : Recovered'[q] = Recovered[q]
    BY <1>3, <1>4, <1>5 DEF Recovered
  <2> QED
    BY <2>1 DEF Recovered
<1>7. TxnShape'
  BY <1>2, <1>3 DEF LibInv, TxnShape
<1>8. Phase(c)'
  <2>1. pc'[c] = "copy"
    BY <1>3 DEF LibInv, Types
  <2>2. Transaction(c)'
    BY <1>1, <1>2, <1>3, <2>1 DEF Transaction, At
  <2> QED
    BY <2>1, <2>2 DEF Phase, Changing
<1> QED
  BY <1>2, <1>3, <1>6, <1>7, <1>8, TxnStep
     DEF CreateBackup, Labels, Transacting, Tearing

LEMMA CopyBackupKeeps ==
  ASSUME LibInv, NEW c \in Clients, CopyBackup(c) PROVE LibInv' /\ Recovered' = Recovered
<1> DEFINE x == op[c].content
<1>1. pc[c] = "copy" /\ pc[c] \in Transacting
  BY DEF CopyBackup, Transacting
<1>2. /\ Transaction(c) /\ pc[c] \notin Outsiders /\ txn.exists
      /\ x \in Contents /\ x # Absent /\ x # Partial
  BY <1>1, Recorded1, ContentPair
<1>3. /\ txn.record = "written" /\ ~txn.published /\ txn.backup = Partial
      /\ txn.kind \in {"remove", "migrate"} /\ At(txn.from) = x /\ ~txn.torn
  BY <1>1, <1>2 DEF Transaction
<1>4. /\ pc' = [pc EXCEPT ![c] = "drop"] /\ UNCHANGED <<folder, op, version, truth>>
      /\ txn' \in TxnType /\ txn'.backup = x
      /\ UNCHANGED <<txn.exists, txn.kind, txn.from, txn.to, txn.published,
                     txn.record, txn.torn>>
  BY <1>2, <1>3 DEF CopyBackup, Goto, data, LibInv, Types, TxnType, At
<1>5. ~Known /\ ~Torn'
  BY <1>2, <1>3, <1>4 DEF Known, Torn, BackupWindow
<1>6. Recovered' = Recovered
  <2>1. \A q \in Paths : Recovered'[q] = Recovered[q]
    BY <1>3, <1>4, <1>5 DEF Recovered, At
  <2> QED
    BY <2>1 DEF Recovered
<1>7. TxnShape'
  BY <1>2, <1>4 DEF LibInv, TxnShape
<1>8. Phase(c)'
  <2>1. pc'[c] = "drop" /\ op'[c].content = x
    BY <1>4 DEF LibInv, Types
  <2>2. Transaction(c)'
    BY <1>1, <1>2, <1>3, <1>4, <2>1 DEF Transaction, At
  <2> QED
    BY <2>1, <2>2 DEF Phase, Changing
<1> QED
  BY <1>2, <1>4, <1>5, <1>6, <1>7, <1>8, TxnStep DEF CopyBackup, Labels, Transacting

\* A step on one entry.
LEMMA EntryPut ==
  ASSUME Types, NEW p \in Paths, NEW y \in Contents \cup {Absent, Partial},
         NEW kind \in {"file", "directory"},
         \/ folder' = [folder EXCEPT ![p].content = y]
         \/ folder' = [folder EXCEPT ![p] = Entry(kind, y)]
  PROVE  /\ folder' \in FolderType /\ At(p)' = y
         /\ \A q \in Paths \ {p} : At(q)' = At(q)
BY DEF Types, FolderType, Entry, At

LEMMA DropSourceKeeps ==
  ASSUME LibInv, NEW c \in Clients, DropSource(c) PROVE LibInv' /\ Recovered' = Recovered
<1> DEFINE x == op[c].content
<1>1. pc[c] = "drop" /\ pc[c] \in Transacting /\ pc[c] \notin Tearing
  BY DEF DropSource, Transacting, Tearing
<1>2. /\ Transaction(c) /\ pc[c] \notin Outsiders /\ txn.exists /\ ~Torn
      /\ x \in Contents /\ x # Absent /\ x # Partial
      /\ txn.kind = "move" => txn.to \in Paths /\ txn.from # txn.to
  BY <1>1, Recorded1, ContentPair, NotTorn
<1>3. /\ Known
      /\ \/ txn.kind \in {"remove", "migrate"} /\ ~txn.published /\ txn.backup = x
         \/ txn.kind = "move" /\ txn.published /\ At(txn.to) = x
  BY <1>1, <1>2 DEF Transaction, Known
<1>4. txn.from \in Paths
  BY <1>1, <1>3, Recorded1
<1>5. UNCHANGED <<txn, op, version, truth>>
  BY DEF DropSource, data
<1>6. PICK y \in {Absent, Partial} :
        /\ folder' \in FolderType /\ At(txn.from)' = y
        /\ \A q \in Paths \ {txn.from} : At(q)' = At(q)
        /\ \/ y = Partial /\ pc' = [pc EXCEPT ![c] = "drop"]
           \/ /\ y = Absent
              /\ pc' = [pc EXCEPT ![c] =
                   CASE txn.kind = "remove"  -> "mark"
                     [] txn.kind = "migrate" -> "extract"
                     [] txn.kind = "move"    -> "row"]
  <2>1. CASE folder' = [folder EXCEPT ![txn.from].content = Partial] /\ UNCHANGED pc
    <3>1. pc' = [pc EXCEPT ![c] = "drop"]
      BY <1>1, <2>1 DEF LibInv, Types
    <3>2. /\ folder' \in FolderType /\ folder'[txn.from].content = Partial
          /\ \A q \in Paths \ {txn.from} : At(q)' = At(q)
      BY <1>4, <2>1, EntryPut DEF LibInv, At
    <3> QED
      BY <1>5, <3>1, <3>2 DEF At
  <2>2. CASE /\ folder' = [folder EXCEPT ![txn.from] = NoEntry]
             /\ Goto(c, CASE txn.kind = "remove"  -> "mark"
                          [] txn.kind = "migrate" -> "extract"
                          [] txn.kind = "move"    -> "row")
    <3>1. /\ folder' \in FolderType /\ folder'[txn.from].content = Absent
          /\ \A q \in Paths \ {txn.from} : At(q)' = At(q)
      BY <1>4, <2>2, EntryGone DEF LibInv, At
    <3> QED
      BY <1>5, <2>2, <3>1 DEF At, Goto
  <2> QED
    BY <2>1, <2>2 DEF DropSource
<1>7. Recovered' = Recovered
  <2>1. \A q \in Paths : Recovered'[q] = Recovered[q]
    BY <1>2, <1>3, <1>4, <1>5, <1>6, KnownUnchanged DEF Recovered, At
  <2> QED
    BY <2>1 DEF Recovered
<1>8. PICK l \in {"drop", "mark", "extract", "row"} : pc' = [pc EXCEPT ![c] = l]
  BY <1>3, <1>6
<1>9. Phase(c)'
  <2>1. pc'[c] = l /\ op'[c].content = x
    BY <1>5, <1>8 DEF LibInv, Types
  <2>2. /\ l = "drop" \/ At(txn.from)' = Absent
        /\ l = "mark" => txn.kind = "remove"
        /\ l = "extract" => txn.kind = "migrate"
        /\ l = "row" => txn.kind = "move"
    BY <1>3, <1>6, <2>1 DEF LibInv, Types
  <2>3. txn.kind = "move" => At(txn.to)' = x
    BY <1>2, <1>3, <1>5, <1>6
  <2>4. Transaction(c)'
    BY <1>1, <1>2, <1>3, <1>5, <2>1, <2>2, <2>3 DEF Transaction, SourceGone, At
  <2> QED
    BY <2>1, <2>4 DEF Phase, Changing
<1> QED
  BY <1>2, <1>5, <1>6, <1>7, <1>8, <1>9, FolderStep DEF DropSource, Labels, Transacting

LEMMA ExtractTargetKeeps ==
  ASSUME LibInv, NEW c \in Clients, ExtractTarget(c) PROVE LibInv' /\ Recovered' = Recovered
<1> DEFINE x == op[c].content
<1>1. pc[c] = "extract" /\ pc[c] \in Transacting /\ pc[c] \notin Tearing
  BY DEF ExtractTarget, Transacting, Tearing
<1>2. /\ Transaction(c) /\ pc[c] \notin Outsiders /\ txn.exists /\ ~Torn
      /\ x \in Contents /\ x # Absent /\ x # Partial
      /\ txn.kind = "move" => txn.from \in Paths /\ txn.from # txn.to
      /\ txn.kind = "migrate" => txn.to = txn.from /\ txn.from \in Paths
      /\ txn.kind \in {"add", "move"} => txn.to \in Paths
  BY <1>1, Recorded1, ContentPair, NotTorn
<1>3. /\ Known /\ ~txn.published /\ txn.kind \in {"add", "move", "migrate"}
      /\ txn.kind = "add" => truth[x[1]] = "none"
      /\ txn.kind = "move" => At(txn.from) = x
      /\ txn.kind = "migrate" => txn.backup = x
  BY <1>1, <1>2 DEF Transaction, Known
<1>4. txn.to \in Paths
  BY <1>2, <1>3
<1>5. UNCHANGED <<txn, op, version, truth>>
  BY DEF ExtractTarget, data
<1>6. /\ folder' \in FolderType
      /\ \A q \in Paths \ {txn.to} : At(q)' = At(q)
      /\ \/ pc' = [pc EXCEPT ![c] = "extract"]
         \/ pc' = [pc EXCEPT ![c] = "mark"] /\ folder'[txn.to].content = x
  <2>1. CASE Exists(txn.to)
    <3>1. /\ folder' = [folder EXCEPT ![txn.to].content = x]
          /\ pc' = [pc EXCEPT ![c] = "mark"]
      BY <2>1 DEF ExtractTarget, Goto
    <3> QED
      BY <1>2, <1>4, <3>1, EntryPut DEF LibInv, At
  <2>2. CASE ~Exists(txn.to)
    <3>1. /\ \E kind \in {"file", "directory"} :
               folder' = [folder EXCEPT ![txn.to] = Entry(kind, Partial)]
          /\ pc' = pc
      BY <2>2 DEF ExtractTarget, LibInv, Types, TxnType
    <3>2. pc' = [pc EXCEPT ![c] = "extract"]
      BY <1>1, <3>1 DEF LibInv, Types
    <3> QED
      BY <1>4, <3>1, <3>2, EntryPut DEF LibInv
  <2> QED
    BY <2>1, <2>2
<1>7. Recovered' = Recovered
  <2>1. \A q \in Paths : Recovered'[q] = Recovered[q]
    BY <1>2, <1>3, <1>4, <1>5, <1>6, KnownUnchanged DEF Recovered, At
  <2> QED
    BY <2>1 DEF Recovered
<1>8. PICK l \in {"extract", "mark"} :
        pc' = [pc EXCEPT ![c] = l] /\ (l = "mark" => folder'[txn.to].content = x)
  BY <1>6
<1>9. Phase(c)'
  <2>1. pc'[c] = l /\ op'[c].content = x
    BY <1>5, <1>8 DEF LibInv, Types
  <2>2. txn.kind = "move" => At(txn.from)' = x
    BY <1>2, <1>3, <1>5, <1>6
  <2>3. l = "mark" => At(txn.to)' = x
    BY <1>5, <1>8 DEF At
  <2>4. Transaction(c)'
    BY <1>1, <1>2, <1>3, <1>5, <2>1, <2>2, <2>3 DEF Transaction, At
  <2> QED
    BY <2>1, <2>4 DEF Phase, Changing
<1> QED
  BY <1>2, <1>5, <1>6, <1>7, <1>8, <1>9, FolderStep
     DEF ExtractTarget, Labels, Transacting

\* One archive is added, removed, moved or changed, and every archive is there
\* exactly once again.
LEMMA GoodAdd ==
  ASSUME NEW f, NEW g, NEW must, NEW next, Good(f, must),
         NEW x \in Contents, NEW p \in Paths,
         must = [a \in Archives |-> must[a]],
         f[p] = Absent, must[x[1]] = "none", {"none", "gone"} \cap Contents = {},
         next = [must EXCEPT ![x[1]] = x],
         g[p] = x, \A q \in Paths \ {p} : g[q] = f[q]
  PROVE  Good(g, next)
<1>1. x[1] \in Archives /\ next[x[1]] = x /\ \A a \in Archives \ {x[1]} : next[a] = must[a]
  BY ContentPair
<1>2. \A q \in Paths : f[q] # Absent =>
        f[q][1] # x[1] /\ f[q] \in Contents /\ f[q][1] \in Archives /\ f[q] # x
  BY ContentPair DEF Good
<1>3. \A q \in Paths : g[q] # Absent =>
        g[q] \in Contents /\ next[g[q][1]] = g[q]
  BY <1>1, <1>2 DEF Good
<1>4. \A q, r \in Paths : g[q] # Absent /\ g[q] = g[r] => q = r
  BY <1>2, ContentPair DEF Good
<1>5. ASSUME NEW a \in Archives, next[a] \in Contents
      PROVE  next[a][1] = a /\ \E q \in Paths : g[q] = next[a]
  <2>1. CASE a = x[1]
    BY <1>1, <2>1
  <2>2. CASE a # x[1]
    <3>1. next[a] = must[a] /\ must[a] # Absent
      BY <1>1, <1>5, <2>2, ContentPair
    <3> QED
      BY <1>5, <3>1 DEF Good
  <2> QED
    BY <2>1, <2>2
<1> QED
  BY <1>3, <1>4, <1>5 DEF Good

LEMMA GoodRemove ==
  ASSUME NEW f, NEW g, NEW must, NEW next, Good(f, must),
         NEW x \in Contents, NEW p \in Paths,
         must = [a \in Archives |-> must[a]],
         f[p] = x, {"none", "gone"} \cap Contents = {},
         next = [must EXCEPT ![x[1]] = "gone"],
         g[p] = Absent, \A q \in Paths \ {p} : g[q] = f[q]
  PROVE  Good(g, next)
<1>1. x[1] \in Archives /\ next[x[1]] = "gone"
      /\ \A a \in Archives \ {x[1]} : next[a] = must[a]
  BY ContentPair
<1>2. must[x[1]] = x /\ x # Absent
  BY ContentPair DEF Good
<1>3. \A q \in Paths \ {p} : f[q] # Absent =>
        f[q] \in Contents /\ f[q][1] \in Archives /\ f[q][1] # x[1]
  BY <1>2, ContentPair DEF Good
<1>4. \A q \in Paths : g[q] # Absent => g[q] \in Contents /\ next[g[q][1]] = g[q]
  BY <1>1, <1>3 DEF Good
<1>5. \A q, r \in Paths : g[q] # Absent /\ g[q] = g[r] => q = r
  BY DEF Good
<1>6. ASSUME NEW a \in Archives, next[a] \in Contents
      PROVE  next[a][1] = a /\ \E q \in Paths : g[q] = next[a]
  <2>1. a # x[1] /\ next[a] = must[a]
    BY <1>1, <1>6
  <2>2. PICK q \in Paths : f[q] = must[a]
    BY <1>6, <2>1 DEF Good
  <2>3. must[a][1] = a
    BY <1>6, <2>1 DEF Good
  <2>4. q # p
    BY <2>1, <2>2, <2>3
  <2> QED
    BY <2>1, <2>2, <2>3, <2>4
<1> QED
  BY <1>4, <1>5, <1>6 DEF Good

LEMMA GoodMove ==
  ASSUME NEW f, NEW g, NEW must, Good(f, must), NEW x \in Contents,
         NEW p \in Paths, NEW r \in Paths, p # r,
         f[p] = x, f[r] = Absent, g[p] = Absent, g[r] = x,
         \A q \in Paths \ {p, r} : g[q] = f[q]
  PROVE  Good(g, must)
<1>1. x # Absent /\ must[x[1]] = x
  BY ContentPair DEF Good
<1>2. \A q \in Paths : g[q] # Absent => g[q] \in Contents /\ must[g[q][1]] = g[q]
  BY <1>1 DEF Good
<1>3. \A q, s \in Paths : g[q] # Absent /\ g[q] = g[s] => q = s
  <2>1. \A q \in Paths \ {p, r} : g[q] # x
    BY <1>1 DEF Good
  <2> QED
    BY <1>1, <2>1 DEF Good
<1>4. ASSUME NEW a \in Archives, must[a] \in Contents
      PROVE  must[a][1] = a /\ \E q \in Paths : g[q] = must[a]
  <2>1. PICK q \in Paths : f[q] = must[a]
    BY <1>4 DEF Good
  <2>2. q # r
    BY <1>4, <2>1, ContentPair
  <2> QED
    BY <1>4, <2>1, <2>2 DEF Good
<1> QED
  BY <1>2, <1>3, <1>4 DEF Good

LEMMA GoodChange ==
  ASSUME NEW f, NEW g, NEW must, NEW next, Good(f, must),
         NEW x \in Contents, NEW y \in Contents, y[1] = x[1], NEW p \in Paths,
         must = [a \in Archives |-> must[a]],
         f[p] = x, next = [must EXCEPT ![x[1]] = y],
         g[p] = y, \A q \in Paths \ {p} : g[q] = f[q]
  PROVE  Good(g, next)
<1>1. x[1] \in Archives /\ next[x[1]] = y
      /\ \A a \in Archives \ {x[1]} : next[a] = must[a]
  BY ContentPair
<1>2. must[x[1]] = x /\ x # Absent /\ y # Absent
  BY ContentPair DEF Good
<1>3. \A q \in Paths \ {p} : f[q] # Absent =>
        f[q] \in Contents /\ f[q][1] \in Archives /\ f[q][1] # x[1]
  BY <1>2, ContentPair DEF Good
<1>4. \A q \in Paths : g[q] # Absent => g[q] \in Contents /\ next[g[q][1]] = g[q]
  BY <1>1, <1>3 DEF Good
<1>5. \A q, r \in Paths : g[q] # Absent /\ g[q] = g[r] => q = r
  BY <1>2, <1>3 DEF Good
<1>6. ASSUME NEW a \in Archives, next[a] \in Contents
      PROVE  next[a][1] = a /\ \E q \in Paths : g[q] = next[a]
  <2>1. CASE a = x[1]
    BY <1>1, <2>1
  <2>2. CASE a # x[1]
    <3>1. next[a] = must[a]
      BY <1>1, <2>2
    <3>2. PICK q \in Paths : f[q] = must[a]
      BY <1>6, <3>1 DEF Good
    <3>3. must[a][1] = a
      BY <1>6, <3>1 DEF Good
    <3>4. q # p
      BY <2>2, <3>2, <3>3
    <3> QED
      BY <3>1, <3>2, <3>3, <3>4
  <2> QED
    BY <2>1, <2>2
<1> QED
  BY <1>4, <1>5, <1>6 DEF Good

\* What `published` makes of the folder that a recovery leaves.
Publication(c) ==
  LET x == op[c].content
      from == txn.from
      to == txn.to
  IN  /\ txn.kind = "add" =>
           /\ to \in Paths /\ Recovered[to] = Absent /\ Recovered'[to] = x
           /\ \A q \in Paths \ {to} : Recovered'[q] = Recovered[q]
      /\ txn.kind = "remove" =>
           /\ from \in Paths /\ Recovered[from] = x /\ Recovered'[from] = Absent
           /\ \A q \in Paths \ {from} : Recovered'[q] = Recovered[q]
      /\ txn.kind = "move" =>
           /\ {from, to} \subseteq Paths /\ from # to
           /\ Recovered[from] = x /\ Recovered'[from] = Absent
           /\ Recovered[to] = Absent /\ Recovered'[to] = x
           /\ \A q \in Paths \ {from, to} : Recovered'[q] = Recovered[q]
      /\ txn.kind = "migrate" => \A q \in Paths : Recovered'[q] = Recovered[q]

LEMMA PublicationLemma ==
  ASSUME LibInv, NEW c \in Clients, MarkPublished(c) PROVE Publication(c)
<1> DEFINE x == op[c].content
           from == txn.from
           to == txn.to
<1>1. pc[c] = "mark" /\ pc[c] \in Transacting /\ pc[c] \notin Tearing
  BY DEF MarkPublished, Transacting, Tearing
<1>2. /\ Transaction(c) /\ txn.exists /\ ~Torn
      /\ x \in Contents /\ x # Absent
      /\ txn.kind = "move" => from \in Paths /\ from # to
      /\ txn.kind = "migrate" => to = from
      /\ txn.kind \in {"remove", "migrate"} => from \in Paths
      /\ txn.kind \in {"add", "move"} => to \in Paths
  BY <1>1, Recorded1, ContentPair, NotTorn
<1>3. /\ Known /\ ~txn.published /\ ~txn.torn
      /\ txn.kind = "add" => At(to) = x
      /\ txn.kind = "move" => At(from) = x /\ At(to) = x
      /\ txn.kind = "migrate" => txn.backup = x /\ At(to) = x
      /\ txn.kind = "remove" => txn.backup = x /\ At(from) = Absent
  BY <1>1, <1>2 DEF Transaction, Known
<1>4. /\ txn'.published /\ folder' = folder
      /\ UNCHANGED <<txn.exists, txn.kind, txn.from, txn.to, txn.backup,
                     txn.record, txn.torn>>
  BY DEF MarkPublished, LibInv, Types, TxnType
<1>5. Known'
  BY <1>3, <1>4 DEF Known, Torn, BackupWindow
<1>6. CASE txn.kind = "add"
  BY <1>2, <1>3, <1>4, <1>5, <1>6 DEF Recovered, At, Publication
<1>7. CASE txn.kind = "remove"
  BY <1>2, <1>3, <1>4, <1>5, <1>7 DEF Recovered, At, Publication
<1>8. CASE txn.kind = "move"
  BY <1>2, <1>3, <1>4, <1>5, <1>8 DEF Recovered, At, Publication
<1>9. CASE txn.kind = "migrate"
  BY <1>2, <1>3, <1>4, <1>5, <1>9 DEF Recovered, At, Publication
<1> QED
  BY <1>6, <1>7, <1>8, <1>9 DEF Publication

LEMMA MarkPublishedKeeps ==
  ASSUME LibInv, Assumed, NEW c \in Clients, MarkPublished(c) PROVE LibInv'
<1> DEFINE x == op[c].content
           from == txn.from
           to == txn.to
<1>1. pc[c] = "mark" /\ pc[c] \in Transacting /\ pc[c] \notin Tearing
  BY DEF MarkPublished, Transacting, Tearing
<1>2. /\ Transaction(c) /\ pc[c] \notin Outsiders /\ txn.exists /\ ~Torn
      /\ x \in Contents /\ x # Absent /\ x[1] \in Archives
      /\ txn.kind = "move" => from \in Paths /\ from # to
      /\ txn.kind = "migrate" => to = from
      /\ txn.kind \in {"remove", "migrate"} => from \in Paths
      /\ txn.kind \in {"add", "move"} => to \in Paths
      /\ txn.kind \in {"add", "remove", "move", "migrate"}
  BY <1>1, Recorded1, ContentPair, NotTorn DEF LibInv, Types, TxnType
<1>3. /\ Known /\ ~txn.published /\ ~txn.torn
      /\ txn.kind = "add" => truth[x[1]] = "none" /\ At(to) = x
      /\ txn.kind = "move" => At(from) = x /\ At(to) = x
      /\ txn.kind = "migrate" => txn.backup = x /\ At(to) = x
      /\ txn.kind = "remove" => txn.backup = x /\ At(from) = Absent
  BY <1>1, <1>2 DEF Transaction, Known
<1>4. /\ txn' \in TxnType /\ txn'.published
      /\ UNCHANGED <<txn.exists, txn.kind, txn.from, txn.to, txn.backup,
                     txn.record, txn.torn>>
      /\ UNCHANGED <<folder, op, version>>
  BY DEF MarkPublished, data, LibInv, Types, TxnType
<1>5. truth' = [truth EXCEPT ![x[1]] =
                  CASE txn.kind = "add" -> x
                    [] txn.kind = "remove" -> "gone"
                    [] OTHER -> truth[x[1]]]
      /\ (txn.kind \notin {"add", "remove"} => truth' = truth)
  BY <1>2 DEF MarkPublished, LibInv, Types
<1>6. truth = [a \in Archives |-> truth[a]] /\ truth' = [a \in Archives |-> truth'[a]]
  BY <1>5 DEF LibInv, Types
<1>7. Known' /\ ~Torn'
  BY <1>3, <1>4 DEF Known, Torn, BackupWindow
<1>8. Good(Recovered, truth)
  BY DEF LibInv, GoodNow
<1>9. Good(Recovered', truth')
  <2>1. CASE txn.kind = "add"
    <3>1. /\ Recovered[to] = Absent /\ Recovered'[to] = x
          /\ \A q \in Paths \ {to} : Recovered'[q] = Recovered[q]
      BY <2>1, PublicationLemma DEF Publication
    <3>2. truth' = [truth EXCEPT ![x[1]] = x] /\ to \in Paths
      BY <1>2, <1>5, <2>1
    <3> HIDE DEF x, to
    <3> QED
      BY <1>2, <1>3, <1>6, <1>8, <2>1, <3>1, <3>2, GoodAdd DEF Assumed
  <2>2. CASE txn.kind = "remove"
    <3>1. /\ Recovered[from] = x /\ Recovered'[from] = Absent
          /\ \A q \in Paths \ {from} : Recovered'[q] = Recovered[q]
      BY <2>2, PublicationLemma DEF Publication
    <3>2. truth' = [truth EXCEPT ![x[1]] = "gone"] /\ from \in Paths
      BY <1>2, <1>5, <2>2
    <3> HIDE DEF x, from
    <3> QED
      BY <1>2, <1>6, <1>8, <3>1, <3>2, GoodRemove DEF Assumed
  <2>3. CASE txn.kind = "move"
    <3>1. /\ Recovered[from] = x /\ Recovered'[from] = Absent
          /\ Recovered[to] = Absent /\ Recovered'[to] = x
          /\ \A q \in Paths \ {from, to} : Recovered'[q] = Recovered[q]
      BY <2>3, PublicationLemma DEF Publication
    <3>2. truth' = truth /\ from \in Paths /\ to \in Paths /\ from # to
      BY <1>2, <1>5, <2>3
    <3> HIDE DEF x, from, to
    <3> QED
      BY <1>2, <1>8, <3>1, <3>2, GoodMove
  <2>4. CASE txn.kind = "migrate"
    <3>1. \A q \in Paths : Recovered'[q] = Recovered[q]
      BY <2>4, PublicationLemma DEF Publication
    <3>2. Recovered' = Recovered
      BY <3>1 DEF Recovered
    <3> QED
      BY <1>5, <1>8, <2>4, <3>2
  <2> QED
    BY <1>2, <2>1, <2>2, <2>3, <2>4
<1>10. PICK l \in {"drop", "finish", "row"} :
         /\ pc' = [pc EXCEPT ![c] = l]
         /\ l = CASE txn.kind = "move"    -> "drop"
                  [] txn.kind = "migrate" -> "finish"
                  [] OTHER                -> "row"
  BY <1>2 DEF MarkPublished, Goto
<1>11. Types'
  BY <1>4, <1>6, <1>10
     DEF LibInv, Types, LockTypeOK, MarkPublished, LockUnchanged, Labels, Transacting
<1>12. TxnShape' /\ TornIsOwned' /\ GoodNow'
  BY <1>2, <1>4, <1>7, <1>9 DEF LibInv, TxnShape, TornIsOwned, GoodNow
<1>13. Phase(c)'
  <2>1. pc'[c] = l /\ op'[c].content = x
    BY <1>4, <1>10 DEF LibInv, Types
  <2>2. l = "finish" => SettledFolder'
    BY <1>2, <1>4, <1>7, <1>10 DEF SettledFolder, Recovered, At
  <2>3. /\ l = "drop" => txn.kind = "move" /\ At(to) = x
        /\ l = "finish" => txn.kind = "migrate"
        /\ l = "row" => txn.kind \in {"add", "remove"}
        /\ l = "row" /\ txn.kind = "remove" => At(from) = Absent
    BY <1>2, <1>3, <1>10
  <2>4. txn.record = "written"
    BY <1>3 DEF Known
  <2>5. Transaction(c)'
    BY <1>2, <1>3, <1>4, <2>1, <2>2, <2>3, <2>4 DEF Transaction, SourceGone, At
  <2> QED
    BY <2>1, <2>5 DEF Phase, Changing
<1> QED
  BY <1>2, <1>10, <1>11, <1>12, <1>13, Busy, WriterStep
     DEF MarkPublished, Labels, Transacting

LEMMA UpdateRowKeeps ==
  ASSUME LibInv, NEW c \in Clients, UpdateRow(c) PROVE LibInv'
<1>1. pc[c] = "row" /\ pc[c] \in Transacting /\ pc[c] \notin Tearing
  BY DEF UpdateRow, Transacting, Tearing
<1>2. Transaction(c) /\ pc[c] \notin Outsiders /\ ~Torn
  BY <1>1, Recorded1, NotTorn
<1>3. pc' = [pc EXCEPT ![c] = "dirty"] /\ UNCHANGED <<folder, txn, op, version, truth>>
  BY DEF UpdateRow, Goto, files
<1>4. Phase(c)'
  <2>1. pc'[c] = "dirty" /\ op' = op
    BY <1>3 DEF LibInv, Types
  <2>2. Transaction(c)'
    BY <1>1, <1>2, <1>3, <2>1 DEF Transaction, SourceGone, At
  <2> QED
    BY <2>1, <2>2 DEF Phase, Changing, Transacting
<1> QED
  BY <1>2, <1>3, <1>4, ControlStep DEF UpdateRow, files, Labels

LEMMA MarkDirtyKeeps ==
  ASSUME LibInv, NEW c \in Clients, MarkDirty(c) PROVE LibInv'
<1>1. pc[c] = "dirty" /\ pc[c] \notin Tearing /\ pc[c] \notin Outsiders
  BY DEF MarkDirty, Tearing, Outsiders
<1>2. ~Torn
  BY <1>1, NotTorn
<1>3. UNCHANGED <<folder, txn, op, version, truth>>
  BY DEF MarkDirty, files
<1>4. PICK l \in {"release", "finish"} :
        pc' = [pc EXCEPT ![c] = l] /\ (l = "finish" => op[c].kind # "scan")
  BY DEF MarkDirty, Goto
<1>5. Phase(c)'
  <2>1. pc'[c] = l /\ op' = op
    BY <1>3, <1>4 DEF LibInv, Types
  <2>2. CASE l = "finish"
    <3>1. Transaction(c)
      BY <1>1, <1>4, <2>2 DEF LibInv, Phase
    <3>2. txn.published /\ SourceGone /\ txn.record = "written"
      BY <1>1, <3>1 DEF Transaction
    <3>3. SettledFolder
      BY <1>2, <3>2 DEF SettledFolder, Recovered, Known, SourceGone, At
    <3>4. SettledFolder' /\ SourceGone'
      BY <1>3, <3>2, <3>3, FilesUnchanged DEF SettledFolder, SourceGone, At
    <3>5. Transaction(c)'
      BY <1>1, <1>3, <2>1, <2>2, <3>1, <3>2, <3>4 DEF Transaction
    <3> QED
      BY <2>1, <2>2, <3>5 DEF Phase, Changing
  <2> QED
    BY <2>1, <2>2 DEF Phase, Changing, Transacting
<1> QED
  BY <1>1, <1>2, <1>3, <1>4, <1>5, ControlStep
     DEF MarkDirty, files, Labels, Transacting, Outsiders

-----------------------------------------------------------------------------
(* Scans, writes, the index *)

\* Where nothing has to hold.
Free(c, l) ==
  l \in {"release", "prepare", "build"} \/ (l = "dirty" /\ op[c].kind = "scan")

LEMMA FreeStep ==
  ASSUME LibInv, NEW c \in Clients, pc[c] \notin Outsiders,
         NEW l, Free(c, l), pc' = [pc EXCEPT ![c] = l], LockUnchanged,
         UNCHANGED <<files, op, version, truth>>, ~Torn
  PROVE  LibInv'
<1>1. l \in Labels /\ pc'[c] = l /\ op' = op
  BY DEF Free, Labels, Outsiders, LibInv, Types
<1>2. Phase(c)'
  BY <1>1 DEF Free, Phase, Changing, Transacting
<1> QED
  BY <1>1, <1>2, ControlStep

LEMMA RefuseKeeps ==
  ASSUME LibInv, NEW c \in Clients, Refuse(c) PROVE LibInv'
BY NotTorn, FreeStep DEF Refuse, Goto, Free, data, Outsiders, Tearing

LEMMA ScanRowsKeeps ==
  ASSUME LibInv, NEW c \in Clients, ScanRows(c) PROVE LibInv'
BY NotTorn, FreeStep DEF ScanRows, Goto, Free, Outsiders, Tearing

LEMMA IndexingKeeps ==
  ASSUME LibInv, NEW c \in Clients, PrepareIndex(c) \/ BuildIndex(c) PROVE LibInv'
<1>1. PICK l \in {"build", "release"} : pc' = [pc EXCEPT ![c] = l]
  BY DEF PrepareIndex, BuildIndex, Goto
<1>2. pc[c] \notin Outsiders \cup Tearing
  BY DEF PrepareIndex, BuildIndex, Outsiders, Tearing
<1> QED
  BY <1>1, <1>2, NotTorn, FreeStep DEF PrepareIndex, BuildIndex, Free

LEMMA QueryKeeps ==
  ASSUME LibInv, NEW c \in Clients,
         \/ CleanIndex(c) \/ Query(c) \/ EndQuery(c)
         \/ Finish(c) /\ UNCHANGED <<files, data, op, truth>>
  PROVE  LibInv'
<1>1. PICK l \in {"release", "query"} : pc' = [pc EXCEPT ![c] = l]
  BY DEF CleanIndex, Query, EndQuery, Finish, Goto
<1>2. Holding(c) /\ pc[c] \in Outsiders /\ l \in Outsiders
  BY DEF CleanIndex, Query, EndQuery, Finish, Holding, Outsiders
<1>3. LockUnchanged /\ UNCHANGED <<files, rows, version, op, truth>>
  BY DEF CleanIndex, Query, EndQuery, Finish, LockUnchanged, data
<1> QED
  BY <1>1, <1>2, <1>3, OutsiderStep

\* Nothing is torn where a writer begins, either.
LEMMA StartsWhole ==
  ASSUME LibInv, NEW c \in Clients, pc[c] = "held", Mode[c] = "write"
  PROVE  Holding(c) /\ ~Torn
<1>1. Holding(c)
  BY DEF Holding
<1>2. \A d \in Clients : pc[d] \in Tearing => Holding(d) /\ d # c
  BY DEF Tearing, Holding
<1>3. \A d \in Clients : pc[d] \notin Tearing
  BY <1>1, <1>2, WriterAlone DEF LibInv
<1> QED
  BY <1>1, <1>3 DEF LibInv, TornIsOwned

LEMMA StartWriteKeeps ==
  ASSUME LibInv, NEW c \in Clients, StartWrite(c), Safe' PROVE LibInv'
<1>1. PICK kind \in Does[c] \cap {"write", "replace"}, id \in 1 .. MaxRows :
        /\ Resolves(id) /\ At(Row(id).path) \in Contents
        /\ op' = [op EXCEPT ![c] = [NoOp EXCEPT !.kind = kind, !.id = id,
                                                !.content = At(Row(id).path)]]
        /\ \E l \in {"pretouch", "change"} : pc' = [pc EXCEPT ![c] = l]
  BY DEF StartWrite, Goto, At
<1>2. PICK l \in {"pretouch", "change"} : pc' = [pc EXCEPT ![c] = l]
  BY <1>1
<1>3. Holding(c) /\ Mode[c] = "write" /\ ~Torn
  BY <1>1, Changers, StartsWhole DEF StartWrite
<1>4. ~txn.exists /\ UNCHANGED <<folder, txn, rows, version, truth>>
  BY DEF StartWrite, Unrecovered, Safe, files, data
<1> DEFINE o == [NoOp EXCEPT !.kind = kind, !.id = id, !.content = At(Row(id).path)]
<1>5. o \in OpType /\ o.kind = kind /\ o.id = id /\ o.content = At(Row(id).path)
  <2>1. id \in Nat
    BY <1>1, LibraryAssumption
  <2>2. At(Row(id).path) \in Contents /\ kind \in {"write", "replace"}
    BY <1>1
  <2> QED
    BY <2>1, <2>2, NoOpType DEF OpType
<1> HIDE DEF o
<1>6. op' = [op EXCEPT ![c] = o]
  BY <1>1 DEF o
<1>7. Types'
  <2>1. LockTypeOK' /\ pc' \in [Clients -> Labels]
    BY <1>2 DEF LibInv, Types, StartWrite, Labels, Changing, LockUnchanged, LockTypeOK
  <2>2. /\ op' \in [Clients -> OpType]
        /\ \A d \in Clients : op'[d].kind \in {"add", "move"} => op'[d].to \in Paths
    BY <1>5, <1>6 DEF LibInv, Types
  <2> QED
    BY <1>4, <2>1, <2>2 DEF LibInv, Types
<1>8. Phase(c)'
  <2>1. pc'[c] = l /\ op'[c] = o
    BY <1>2, <1>6 DEF LibInv, Types
  <2>2. Target(c)' = Row(id).path
    BY <1>4, <1>5, <2>1 DEF Target, Row
  <2>3. Row(id).path \in Paths
    BY <1>1 DEF Resolves, ListedPaths
  <2>4. At(Target(c))' = At(Row(id).path)
    BY <1>4, <2>2 DEF At
  <2> QED
    BY <1>1, <1>4, <1>5, <2>1, <2>2, <2>3, <2>4
       DEF Phase, Changing, Transacting
<1> QED
  BY <1>2, <1>3, <1>4, <1>7, <1>8, QuietStep DEF StartWrite, Labels, Changing

LEMMA StartRebuildKeeps ==
  ASSUME LibInv, NEW c \in Clients, StartRebuild(c) PROVE LibInv'
<1>1. Holding(c) /\ Mode[c] = "write" /\ ~Torn
  BY Changers, StartsWhole DEF StartRebuild
<1> DEFINE o == [op[c] EXCEPT !.kind = "rebuild"]
<1>2. o \in OpType /\ o.kind = "rebuild" /\ op' = [op EXCEPT ![c] = o]
  BY DEF StartRebuild, LibInv, Types, OpType
<1> HIDE DEF o
<1>3. Types'
  <2>1. LockTypeOK' /\ pc' \in [Clients -> Labels]
    BY DEF LibInv, Types, StartRebuild, Goto, Labels, LockUnchanged, LockTypeOK
  <2>2. /\ op' \in [Clients -> OpType]
        /\ \A d \in Clients : op'[d].kind \in {"add", "move"} => op'[d].to \in Paths
    BY <1>2 DEF LibInv, Types
  <2> QED
    BY <2>1, <2>2 DEF LibInv, Types, StartRebuild, files, data
<1>4. Phase(c)'
  BY DEF LibInv, Types, StartRebuild, Goto, Phase, Changing, Transacting
<1> QED
  BY <1>1, <1>3, <1>4, QuietStep DEF StartRebuild, Goto, files, Labels

\* Writing goes on at the same archive.
LEMMA ChangingStep ==
  ASSUME LibInv, NEW c \in Clients, pc[c] \in Changing,
         NEW l \in Changing, pc' = [pc EXCEPT ![c] = l], LockUnchanged,
         UNCHANGED <<files, rows, op, version, truth>>
  PROVE  LibInv'
<1>1. pc[c] \notin Outsiders \cup Tearing /\ l \in Labels
  BY DEF Changing, Outsiders, Tearing, Labels
<1>2. Phase(c)'
  <2>1. Target(c)' = Target(c) /\ UNCHANGED <<folder, txn>>
    BY DEF Target, Row, files
  <2>2. At(Target(c))' = At(Target(c))
    BY <2>1 DEF At
  <2> QED
    BY <2>1, <2>2 DEF LibInv, Types, Phase, Changing, Transacting
<1> QED
  BY <1>1, <1>2, NotTorn, ControlStep

LEMMA TouchKeeps ==
  ASSUME LibInv, NEW c \in Clients, Touch(c) PROVE LibInv'
<1>1. PICK l \in {"change", "refresh", "rerefresh"} : pc' = [pc EXCEPT ![c] = l]
  BY DEF Touch, Goto
<1> QED
  BY <1>1, ChangingStep DEF Touch, Changing

LEMMA RefreshKeeps ==
  ASSUME LibInv, NEW c \in Clients, Refresh(c) PROVE LibInv'
BY NotTorn, FreeStep DEF Refresh, Goto, Free, Outsiders, Tearing

\* The archive a client has in hand gets another content.
LEMMA PutKeeps ==
  ASSUME LibInv, NEW c \in Clients, pc[c] \in Changing,
         NEW l \in Changing, pc' = [pc EXCEPT ![c] = l], LockUnchanged,
         NEW y \in Contents, y[1] = op[c].content[1],
         PutContent(Target(c), y), version' \in 0 .. MaxVersion,
         UNCHANGED <<txn, rows, op>>
  PROVE  LibInv'
<1> DEFINE p == Target(c)
<1>1. /\ pc[c] \notin Outsiders \cup Tearing /\ l \in Labels
      /\ ~txn.exists /\ p \in Paths /\ {At(p), op[c].content} \subseteq Contents
      /\ At(p)[1] = y[1]
  BY DEF Changing, Outsiders, Tearing, Labels, LibInv, Phase
<1>2. ~Known /\ ~Torn /\ ~Known' /\ ~Torn'
  BY <1>1, NoTxnType DEF LibInv, TxnShape, Known, Torn, BackupWindow
<1> HIDE DEF p
<1>3. folder' \in FolderType /\ folder'[p].content = y
      /\ \A q \in Paths \ {p} : At(q)' = At(q)
  BY <1>1, EntryPut DEF LibInv, PutContent, p, At
<1>4. truth' = [truth EXCEPT ![At(p)[1]] = y]
      /\ truth = [a \in Archives |-> truth[a]] /\ truth' = [a \in Archives |-> truth'[a]]
  BY <1>1 DEF PutContent, LibInv, Types
<1>5. GoodNow'
  <2> DEFINE f == [q \in Paths |-> At(q)]
             g == [q \in Paths |-> At(q)']
  <2>1. Good(f, truth) /\ Recovered' = g
    BY <1>2, GoodFolder DEF Recovered, At
  <2>2. f[p] = At(p) /\ g[p] = y /\ \A q \in Paths \ {p} : g[q] = f[q]
    BY <1>1, <1>3 DEF At
  <2> HIDE DEF f, g
  <2>3. Good(g, truth')
    BY <1>1, <1>4, <2>1, <2>2, GoodChange
  <2> QED
    BY <2>1, <2>3 DEF GoodNow
<1>6. Types'
  BY <1>1, <1>3, <1>4 DEF LibInv, Types, LockTypeOK, LockUnchanged
<1>7. TxnShape' /\ TornIsOwned'
  BY <1>2 DEF LibInv, TxnShape, TornIsOwned
<1>8. Phase(c)'
  <2>1. Target(c)' = p /\ pc'[c] = l /\ op' = op
    BY DEF Target, Row, p, LibInv, Types
  <2>2. At(Target(c))' = y
    BY <1>3, <2>1 DEF At
  <2> QED
    BY <1>1, <2>1, <2>2 DEF Phase, Changing, Transacting
<1> QED
  BY <1>1, <1>5, <1>6, <1>7, <1>8, Busy, WriterStep

LEMMA ChangeContentKeeps ==
  ASSUME LibInv, NEW c \in Clients, ChangeContent(c) PROVE LibInv'
<1> DEFINE y == <<op[c].content[1], version + 1>>
<1>1. /\ pc[c] \in Changing /\ "touch" \in Changing
      /\ pc' = [pc EXCEPT ![c] = "touch"] /\ PutContent(Target(c), y)
  BY DEF ChangeContent, Changing, Goto, Target
<1>2. version' \in 0 .. MaxVersion /\ version + 1 \in 0 .. MaxVersion
  BY LibraryAssumption DEF ChangeContent, LibInv, Types
<1>3. op[c].content \in Contents
  BY <1>1 DEF LibInv, Phase
<1>4. y \in Contents /\ y[1] = op[c].content[1]
  BY <1>2, <1>3, ContentPair DEF Contents
<1> HIDE DEF y
<1> QED
  BY <1>1, <1>2, <1>4, PutKeeps DEF ChangeContent

LEMMA RevertKeeps ==
  ASSUME LibInv, NEW c \in Clients, Revert(c) PROVE LibInv'
<1>1. /\ pc[c] \in Changing /\ "retouch" \in Changing
      /\ pc' = [pc EXCEPT ![c] = "retouch"] /\ PutContent(Target(c), op[c].content)
  BY DEF Revert, Changing, Goto, Target
<1>2. op[c].content \in Contents /\ version' \in 0 .. MaxVersion
  BY <1>1 DEF LibInv, Types, Phase, Revert, data
<1> QED
  BY <1>1, <1>2, PutKeeps DEF Revert, data

-----------------------------------------------------------------------------
(* Failures, crashes, other programs *)

\* An interruption that costs no archive finds none of the windows.
LEMMA Interruptible ==
  ASSUME LibInv, NEW c \in Clients, pc[c] \notin Outsiders, Interrupted(c), Safe'
  PROVE  ~Torn /\ ~RemovalWindow(c)
<1>1. ~BackupWindow /\ ~RemovalWindow(c)
  BY DEF Interrupted, Safe
<1>2. txn.record = "written" => txn.exists
  BY NoTxnType DEF LibInv, TxnShape
<1> QED
  BY <1>1, <1>2 DEF Torn, RemovalWindow

LEMMA FailBeginKeeps ==
  ASSUME LibInv, NEW c \in Clients, FailBegin(c) PROVE LibInv' /\ Recovered' = Recovered
<1>1. pc[c] \in Transacting /\ pc[c] \notin Outsiders \cup Tearing
  BY DEF FailBegin, Transacting, Outsiders, Tearing
<1>2. txn.record \in {"absent", "empty"} /\ ~Torn
  BY <1>1, Recorded1, NotTorn DEF FailBegin, Transaction
<1>3. CASE txn' = NoTxn
  <2>1. ~Known /\ ~Known' /\ ~Torn' /\ TxnShape'
    BY <1>2, <1>3, NoTxnType DEF Known, Torn, TxnShape
  <2>2. Recovered' = Recovered
    BY <2>1 DEF FailBegin, Recovered
  <2>3. Phase(c)'
    BY DEF LibInv, Types, FailBegin, Goto, Phase, Changing, Transacting
  <2> QED
    BY <1>1, <1>3, <2>1, <2>2, <2>3, NoTxnType, TxnStep
       DEF FailBegin, Goto, data, Labels, Outsiders
<1>4. CASE UNCHANGED txn
  BY <1>1, <1>2, <1>4, FreeStep, FilesUnchanged DEF FailBegin, Goto, Free, files, data
<1> QED
  BY <1>3, <1>4 DEF FailBegin

LEMMA FailMutationKeeps ==
  ASSUME LibInv, NEW c \in Clients, FailMutation(c), Safe' PROVE LibInv'
<1>1. ~Torn /\ ~RemovalWindow(c)
  BY Interruptible DEF FailMutation, Outsiders
<1>2. /\ pc' = [pc EXCEPT ![c] = "undo"] /\ pc'[c] = "undo"
      /\ UNCHANGED <<folder, txn, op, version, truth>>
  BY DEF FailMutation, Goto, files, data, LibInv, Types
<1>3. Transaction(c) /\ pc[c] \notin Outsiders
  BY DEF FailMutation, Transacting, Outsiders, LibInv, Phase
<1>4. /\ txn.exists /\ ~txn.torn
      /\ Known \/ (txn.record = "absent" /\ txn.published /\ SourceGone)
  <2>1. CASE pc[c] = "finish"
    <3>1. /\ txn.exists /\ txn.record # "empty" /\ SourceGone
          /\ txn.published \/ txn.torn
      BY <1>3, <2>1 DEF Transaction
    <3>2. ~txn.torn
      BY <1>1, <2>1, <3>1 DEF RemovalWindow
    <3> QED
      BY <1>1, <3>1, <3>2 DEF Known, LibInv, Types, TxnType
  <2>2. CASE pc[c] # "finish"
    BY <1>1, <1>3, <2>2 DEF FailMutation, Transaction, Known
  <2> QED
    BY <2>1, <2>2
<1>5. Phase(c)'
  <2>1. Known' = Known /\ SourceGone' = SourceGone
    BY <1>2, KnownUnchanged DEF SourceGone, At
  <2> QED
    BY <1>2, <1>4, <2>1 DEF Phase, Changing, Transacting
<1> QED
  BY <1>1, <1>2, <1>3, <1>5, ControlStep
     DEF FailMutation, files, data, Labels, Recovering

LEMMA FailOtherKeeps ==
  ASSUME LibInv, NEW c \in Clients, FailOther(c), Safe' PROVE LibInv'
<1>1. ~Torn /\ pc[c] \notin Outsiders
  BY Interruptible DEF FailOther, Outsiders
<1> QED
  BY <1>1, FreeStep DEF FailOther, Goto, Free, data

LEMMA FailFinalizeKeeps ==
  ASSUME LibInv, NEW c \in Clients, FailFinalize(c) PROVE LibInv'
<1>1. pc[c] \in Changing /\ pc[c] \notin Outsiders \cup Tearing
  BY DEF FailFinalize, Changing, Outsiders, Tearing
<1>2. CASE pc' = [pc EXCEPT ![c] = "revert"]
  BY <1>1, <1>2, ChangingStep DEF FailFinalize, Changing, data
<1>3. CASE pc' = [pc EXCEPT ![c] = "release"]
  BY <1>1, <1>3, NotTorn, FreeStep DEF FailFinalize, Free, data
<1> QED
  BY <1>2, <1>3 DEF FailFinalize, Goto

LEMMA CrashKeeps ==
  ASSUME LibInv, NEW c \in Clients, Crash(c), Safe' PROVE LibInv'
<1>1. pc[c] \in Tearing => ~Torn
  BY Interruptible DEF Crash, Tearing, Outsiders
<1>2. /\ pc' = [pc EXCEPT ![c] = "dead"] /\ UNCHANGED <<row, seen, owners>>
      /\ op' = [op EXCEPT ![c] = NoOp]
      /\ UNCHANGED <<folder, txn, rows, version, truth>>
  BY DEF Crash, CrashClient, Goto, files, data
<1>3. Types'
  <2>1. /\ op' \in [Clients -> OpType]
        /\ \A d \in Clients : op'[d].kind \in {"add", "move"} => op'[d].to \in Paths
    BY <1>2, NoOpType DEF LibInv, Types, NoOp
  <2> QED
    BY <1>2, <2>1 DEF LibInv, Types, LockTypeOK, Labels, Outsiders
<1>4. pc'[c] = "dead" /\ \A d \in Clients \ {c} : pc'[d] = pc[d] /\ op'[d] = op[d]
  BY <1>2 DEF LibInv, Types
<1>5. LockInv' /\ HoldersFresh' /\ WritersOnly'
  BY <1>2, <1>4 DEF LibInv, LockInv, RowTypes, RowsCompatible, HoldersFresh,
                    WritersOnly, Holding, Outsiders
<1>6. TornIsOwned'
  BY <1>1, <1>2, <1>4, FilesUnchanged DEF LibInv, TornIsOwned
<1>7. \A d \in Clients : Phase(d)'
  <2>1. Phase(c)'
    BY <1>4 DEF Phase, Changing, Transacting
  <2>2. ASSUME NEW d \in Clients \ {c} PROVE Phase(d)'
    <3>1. /\ Target(d)' = Target(d) /\ At(Target(d))' = At(Target(d))
          /\ SettledFolder' = SettledFolder /\ SourceGone' = SourceGone
      BY <1>2, <1>4, FilesUnchanged DEF Target, Row, At, SettledFolder, SourceGone
    <3>2. Transaction(d)' = Transaction(d)
      BY <1>2, <1>4, <3>1 DEF Transaction, At
    <3> QED
      BY <1>2, <1>4, <3>1, <3>2, FilesUnchanged DEF LibInv, Phase
  <2> QED
    BY <2>1, <2>2
<1> QED
  BY <1>2, <1>3, <1>5, <1>6, <1>7, FilesUnchanged DEF LibInv

\* While other programs change the folder, nobody is at work in it.
LEMMA OutsideStep ==
  ASSUME LibInv, Undisturbed, UNCHANGED <<lock, txn, op>>,
         folder' \in FolderType, version' \in 0 .. MaxVersion,
         truth' = [a \in Archives |-> truth'[a]],
         Good([p \in Paths |-> At(p)'], truth')
  PROVE  LibInv'
<1>1. \A c \in Clients : pc[c] \in Outsiders
  BY DEF LibInv, WritersOnly, Undisturbed, Holding, Outsiders
<1>2. ~Known' /\ ~Torn'
  BY NoTxnType DEF LibInv, TxnShape, Undisturbed, Known, Torn
<1>3. GoodNow' /\ TornIsOwned' /\ TxnShape'
  <2>1. Recovered' = [p \in Paths |-> At(p)']
    BY <1>2 DEF Recovered, At
  <2> QED
    BY <1>2, <2>1 DEF GoodNow, TornIsOwned, LibInv, TxnShape
<1>4. Types' /\ LockInv' /\ HoldersFresh' /\ WritersOnly'
  BY DEF LibInv, Types, LockTypeOK, LockInv, RowTypes, RowsCompatible, HoldersFresh,
         WritersOnly, Holding, lock
<1>5. \A c \in Clients : Phase(c)'
  BY <1>1 DEF Phase, Outsiders, Changing, Transacting, lock
<1> QED
  BY <1>3, <1>4, <1>5 DEF LibInv

LEMMA OutsideWriteKeeps ==
  ASSUME LibInv, OutsideWrite PROVE LibInv'
<1>1. PICK p \in Paths :
        /\ folder[p].content \in Contents
        /\ PutContent(p, <<folder[p].content[1], version + 1>>)
  BY DEF OutsideWrite
<1> DEFINE y == <<At(p)[1], version + 1>>
<1>2. ~Known
  BY NoTxnType DEF OutsideWrite, Undisturbed, LibInv, TxnShape, Known
<1>3. At(p) \in Contents
  BY <1>1 DEF At
<1>4. version' \in 0 .. MaxVersion /\ version + 1 \in 0 .. MaxVersion
  BY LibraryAssumption DEF OutsideWrite, LibInv, Types
<1>5. y \in Contents /\ y[1] = At(p)[1]
  BY <1>3, <1>4, ContentPair DEF Contents
<1>6. folder' = [folder EXCEPT ![p].content = y] /\ truth' = [truth EXCEPT ![y[1]] = y]
  BY <1>1 DEF PutContent, At
<1> HIDE DEF y
<1>7. folder' \in FolderType /\ folder'[p].content = y
      /\ \A q \in Paths \ {p} : At(q)' = At(q)
  BY <1>5, <1>6, EntryPut DEF LibInv, At
<1>8. truth = [a \in Archives |-> truth[a]] /\ truth' = [a \in Archives |-> truth'[a]]
  BY <1>6 DEF LibInv, Types
<1>9. Good([q \in Paths |-> At(q)'], truth')
  <2> DEFINE f == [q \in Paths |-> At(q)]
             g == [q \in Paths |-> At(q)']
  <2>1. Good(f, truth)
    BY <1>2, GoodFolder
  <2>2. f[p] = At(p) /\ g[p] = y /\ \A q \in Paths \ {p} : g[q] = f[q]
    BY <1>7 DEF At
  <2> HIDE DEF f, g
  <2>3. Good(g, truth')
    BY <1>3, <1>5, <1>6, <1>8, <2>1, <2>2, GoodChange
  <2> QED
    BY <2>3 DEF g
<1> QED
  BY <1>4, <1>7, <1>8, <1>9, OutsideStep DEF OutsideWrite

LEMMA OutsideRenameKeeps ==
  ASSUME LibInv, OutsideRename PROVE LibInv'
<1>1. PICK p \in Paths, q \in Paths :
        /\ Exists(p) /\ ~Exists(q)
        /\ folder' = [folder EXCEPT ![q] = folder[p], ![p] = NoEntry]
  BY DEF OutsideRename
<1>2. ~Known
  BY NoTxnType DEF OutsideRename, Undisturbed, LibInv, TxnShape, Known
<1>3. At(p) \in Contents /\ At(q) = Absent /\ p # q
  BY <1>1, <1>2, GoodFolder DEF Exists, At
<1>4. /\ folder' \in FolderType
      /\ At(p)' = Absent /\ At(q)' = At(p)
      /\ \A s \in Paths \ {p, q} : At(s)' = At(s)
  BY <1>1, <1>3 DEF LibInv, Types, FolderType, NoEntry, Entry, At
<1>5. Good([s \in Paths |-> At(s)'], truth)
  <2> DEFINE f == [s \in Paths |-> At(s)]
             g == [s \in Paths |-> At(s)']
  <2>1. Good(f, truth)
    BY <1>2, GoodFolder
  <2>2. /\ f[p] = At(p) /\ f[q] = Absent /\ g[p] = Absent /\ g[q] = At(p)
        /\ \A s \in Paths \ {p, q} : g[s] = f[s]
    BY <1>3, <1>4 DEF At
  <2> HIDE DEF f, g
  <2>3. Good(g, truth)
    BY <1>3, <2>1, <2>2, GoodMove
  <2> QED
    BY <2>3 DEF g
<1> QED
  BY <1>4, <1>5, OutsideStep DEF OutsideRename, LibInv, Types, data

\* The steps of the lock change no file and leave everybody at work as they are.
LEMMA LockPart ==
  ASSUME LibInv, Assumed, LibraryLockStep PROVE LibInv'
<1>1. LockInv' /\ LockStep
  BY LockStepPreserves DEF LibInv, LockNext, LibraryLockStep
<1>2. LockKept(Labels)
  BY <1>1, LockStepKeeps DEF LibInv, Types, Assumed, Labels, Outsiders
<1>3. UNCHANGED <<folder, txn, rows, version, truth>>
  BY DEF LibraryLockStep, files, data
<1>4. \A c \in Clients : op'[c] = NoOp \/ op'[c] = op[c]
  BY DEF LibraryLockStep
<1>5. Types'
  <2>1. op' \in [Clients -> OpType]
    BY NoOpType DEF LibInv, Types, LibraryLockStep
  <2>2. \A c \in Clients : op'[c].kind \in {"add", "move"} => op'[c].to \in Paths
    BY <1>4 DEF LibInv, Types, NoOp
  <2> QED
    BY <1>2, <1>3, <2>1, <2>2 DEF LibInv, Types, LockKept
<1>6. \A c \in Clients : pc[c] \notin Outsiders =>
        pc'[c] = pc[c] /\ op'[c] = op[c]
  BY <1>2 DEF LockKept, Holding, Outsiders, LibraryLockStep
<1>7. \A c \in Clients : pc[c] \in Outsiders => pc'[c] \in Outsiders
  BY <1>2 DEF LockKept, Outsiders
<1>8. WritersOnly'
  BY <1>6, <1>7 DEF LibInv, WritersOnly
<1>9. TornIsOwned'
  BY <1>3, <1>6, FilesUnchanged DEF LibInv, TornIsOwned, Tearing, Outsiders
<1>10. ASSUME NEW c \in Clients PROVE Phase(c)'
  <2>1. CASE pc[c] \in Outsiders
    BY <1>7, <2>1 DEF Phase, Outsiders, Changing, Transacting
  <2>2. CASE pc[c] \notin Outsiders
    <3>1. /\ Target(c)' = Target(c) /\ At(Target(c))' = At(Target(c))
          /\ SettledFolder' = SettledFolder /\ SourceGone' = SourceGone
      BY <1>3, <1>6, <2>2, FilesUnchanged
         DEF Target, Row, At, SettledFolder, SourceGone
    <3>2. Transaction(c)' = Transaction(c)
      BY <1>3, <1>6, <2>2, <3>1 DEF Transaction, At
    <3> QED
      BY <1>3, <1>6, <2>2, <3>1, <3>2, FilesUnchanged DEF LibInv, Phase
  <2> QED
    BY <2>1, <2>2
<1> QED
  BY <1>1, <1>2, <1>3, <1>5, <1>8, <1>9, <1>10, FilesUnchanged DEF LibInv, LockKept

LEMMA StutterKeeps ==
  ASSUME LibInv, UNCHANGED vars PROVE LibInv'
<1>1. UNCHANGED <<pc, row, seen, owners, folder, txn, rows, version, op, truth>>
  BY DEF vars, lock, files, data
<1>2. Types' /\ LockInv' /\ HoldersFresh' /\ WritersOnly'
  BY <1>1 DEF LibInv, Types, LockTypeOK, LockInv, RowTypes, RowsCompatible,
              HoldersFresh, WritersOnly, Holding
<1>3. TornIsOwned'
  BY <1>1, FilesUnchanged DEF LibInv, TornIsOwned
<1>4. ASSUME NEW c \in Clients PROVE Phase(c)'
  <2>1. /\ Target(c)' = Target(c) /\ At(Target(c))' = At(Target(c))
        /\ SettledFolder' = SettledFolder /\ SourceGone' = SourceGone
    BY <1>1, FilesUnchanged DEF Target, Row, At, SettledFolder, SourceGone
  <2>2. Transaction(c)' = Transaction(c)
    BY <1>1, <2>1 DEF Transaction, At
  <2> QED
    BY <1>1, <2>1, <2>2, FilesUnchanged DEF LibInv, Phase
<1> QED
  BY <1>1, <1>2, <1>3, <1>4, FilesUnchanged DEF LibInv

-----------------------------------------------------------------------------
(* The library keeps its archives *)

LEMMA LibInit == Assumed /\ Init => LibInv
<1> SUFFICES ASSUME Assumed, Init PROVE LibInv
  OBVIOUS
<1> USE DEF Init
<1>1. PICK kind \in {"file", "directory"} :
        folder = [p \in Paths |-> IF p = 1 THEN Entry(kind, <<1, 0>>) ELSE NoEntry]
  OBVIOUS
<1>2. <<1, 0>> \in Contents /\ 1 \in Archives /\ <<1, 0>>[1] = 1
  BY LibraryAssumption DEF Contents, Archives
<1>3. /\ folder \in FolderType
      /\ \A p \in Paths : At(p) = IF p = 1 THEN <<1, 0>> ELSE Absent
  BY <1>1, <1>2 DEF FolderType, Entry, NoEntry, At
<1>4. \A c \in Clients : pc[c] = "idle" /\ row[c] = "none" /\ op[c] = NoOp
  BY DEF LockInit
<1>5. Types
  <2>1. LockTypeOK /\ pc \in [Clients -> Labels]
    BY LockAssumption DEF LockInit, LockTypeOK, Labels, Outsiders
  <2>2. op \in [Clients -> OpType] /\ \A c \in Clients : op[c].kind = "none"
    BY NoOpType DEF NoOp
  <2>3. version \in 0 .. MaxVersion /\ truth = [a \in Archives |-> truth[a]]
    BY LibraryAssumption
  <2> QED
    BY <1>3, <2>1, <2>2, <2>3, NoTxnType DEF Types
<1>6. LockInv /\ HoldersFresh /\ WritersOnly
  BY <1>4 DEF LockInit, LockInv, RowTypes, RowsCompatible, HoldersFresh, WritersOnly,
              Holding, Outsiders
<1>7. ~Known /\ ~Torn /\ TxnShape
  BY NoTxnType DEF Known, Torn, TxnShape
<1>8. GoodNow
  <2> DEFINE f == [p \in Paths |-> At(p)]
  <2>1. \A p \in Paths : f[p] = IF p = 1 THEN <<1, 0>> ELSE Absent
    BY <1>3
  <2>2. 1 \in Paths
    BY LibraryAssumption DEF Paths
  <2> HIDE DEF f
  <2>3. Good(f, truth)
    BY <1>2, <2>1, <2>2 DEF Good, Assumed
  <2> QED
    BY <1>7, <2>3, NothingKnown DEF GoodNow, f
<1>9. \A c \in Clients : Phase(c)
  BY <1>4 DEF Phase, Changing, Transacting
<1> QED
  BY <1>5, <1>6, <1>7, <1>8, <1>9 DEF LibInv, TornIsOwned

LEMMA LibStep == Assumed /\ LibInv /\ [Next]_vars /\ Safe' => LibInv'
<1> SUFFICES ASSUME Assumed, LibInv, [Next]_vars, Safe' PROVE LibInv'
  OBVIOUS
<1>1. CASE LibraryLockStep
  BY <1>1, LockPart
<1>2. ASSUME NEW c \in Clients, Reject(c) \/ Indexing(c) PROVE LibInv'
  BY <1>2, QueryKeeps, IndexingKeeps, StartRebuildKeeps DEF Reject, Indexing
<1>3. ASSUME NEW c \in Clients, StartMutation(c) \/ Recovery(c) PROVE LibInv'
  BY <1>3, StartMutationKeeps, RejectRecordKeeps, DropUnrecordedKeeps,
     RollForwardKeeps, RollBackTargetKeeps, RollBackRemovalKeeps,
     RollBackMigrationKeeps, RestoreEntryKeeps, RemoveTxnPartKeeps, RemoveTxnKeeps,
     FinishRecoveryKeeps DEF Recovery
<1>4. ASSUME NEW c \in Clients, Membership(c) \/ ScanRows(c) PROVE LibInv'
  BY <1>4, RefuseKeeps, BeginAddKeeps, BeginChangeKeeps, BeginMigrationKeeps,
     CreateRecordKeeps, WriteRecordKeeps, CreateBackupKeeps, CopyBackupKeeps,
     DropSourceKeeps, ExtractTargetKeeps, MarkPublishedKeeps, UpdateRowKeeps,
     MarkDirtyKeeps, ScanRowsKeeps DEF Membership
<1>5. ASSUME NEW c \in Clients, Writing(c) PROVE LibInv'
  BY <1>5, StartWriteKeeps, ChangeContentKeeps, TouchKeeps, RefreshKeeps, RevertKeeps
     DEF Writing
<1>6. ASSUME NEW c \in Clients, Failure(c) \/ Crash(c) PROVE LibInv'
  BY <1>6, FailBeginKeeps, FailMutationKeeps, FailOtherKeeps, FailFinalizeKeeps,
     CrashKeeps DEF Failure
<1>7. CASE OutsideRename \/ OutsideWrite
  BY <1>7, OutsideRenameKeeps, OutsideWriteKeeps
<1>8. CASE AllSpent \/ UNCHANGED vars
  BY <1>8, StutterKeeps DEF AllSpent, Spent, vars
<1> QED
  BY <1>1, <1>2, <1>3, <1>4, <1>5, <1>6, <1>7, <1>8 DEF Next

\* What has cost an archive is not forgotten.
LEMMA SafeBefore == [Next]_vars /\ Safe' => Safe
<1> SUFFICES ASSUME [Next]_vars, "archives" \in harm PROVE "archives" \in harm'
  BY DEF Safe
<1> USE DEF Interrupted, Unrecovered, Arrives, Stale
<1>1. ASSUME NEW c \in Clients, Recovery(c) PROVE "archives" \in harm'
  BY <1>1 DEF Recovery, RejectRecord, DropUnrecorded, RollForward, RollBackTarget,
              RollBackRemoval, RollBackMigration, RestoreEntry, RemoveTxnPart,
              RemoveTxn, FinishRecovery
<1>2. ASSUME NEW c \in Clients, Membership(c) PROVE "archives" \in harm'
  BY <1>2 DEF Membership, Refuse, BeginAdd, BeginChange, BeginMigration, Begin,
              CreateRecord, WriteRecord, CreateBackup, CopyBackup, DropSource,
              ExtractTarget, MarkPublished, UpdateRow, MarkDirty
<1>3. ASSUME NEW c \in Clients, StartMutation(c) \/ ScanRows(c) \/ Writing(c)
      PROVE  "archives" \in harm'
  BY <1>3 DEF StartMutation, ScanRows, Writing, StartWrite, ChangeContent, Touch,
              Refresh, Revert
<1>4. ASSUME NEW c \in Clients, Indexing(c) \/ Reject(c) PROVE "archives" \in harm'
  BY <1>4 DEF Indexing, StartRebuild, PrepareIndex, BuildIndex, CleanIndex, Query,
              EndQuery, Reject
<1>5. ASSUME NEW c \in Clients, Failure(c) \/ Crash(c) PROVE "archives" \in harm'
  BY <1>5 DEF Failure, FailBegin, FailMutation, FailOther, FailFinalize, Crash
<1>6. CASE LibraryLockStep \/ OutsideRename \/ OutsideWrite \/ AllSpent \/ UNCHANGED vars
  BY <1>6 DEF LibraryLockStep, OutsideRename, OutsideWrite, AllSpent, vars
<1> QED
  BY <1>1, <1>2, <1>3, <1>4, <1>5, <1>6 DEF Next

\* The inductive invariant: what each client has done of its transaction, and
\* that recovery would leave every archive exactly once, wherever anybody was
\* interrupted: it holds until a step that costs an archive.
THEOREM LibraryInvariance == ASSUME Assumed PROVE Spec => [](Safe => LibInv)
<1>1. Init => LibInv
  BY LibInit
<1>2. LibInv /\ [Next]_vars /\ Safe' => LibInv'
  BY LibStep
<1> QED
  BY <1>1, <1>2, SafeBefore, PTL DEF Spec

\* No interruption or failure loses the content of an archive, but for those that
\* find a backup that is not complete or a transaction directory half removed.
THEOREM ArchivesSurviveTheorem == ASSUME Assumed PROVE Spec => []ArchivesSurvive
<1>1. LibInv => NothingLost
  <2> SUFFICES ASSUME LibInv, NEW a \in Archives, truth[a] \in Contents,
                      \A p \in Paths : folder[p].content # truth[a]
               PROVE  /\ txn.exists /\ txn.record = "written"
                      /\ txn.kind \in {"remove", "migrate"} /\ ~txn.published
                      /\ txn.backup = truth[a]
    BY DEF NothingLost
  <2>1. truth[a] # Absent
    BY ContentPair
  <2>2. PICK p \in Paths : Recovered[p] = truth[a]
    BY DEF LibInv, GoodNow, Good
  <2>3. /\ Known /\ txn.kind \in {"remove", "migrate"} /\ ~txn.published
        /\ txn.backup = truth[a]
    BY <2>1, <2>2 DEF Recovered
  <2> QED
    BY <2>3, NoTxnType DEF Known, LibInv, TxnShape
<1>2. (Safe => LibInv) => ArchivesSurvive
  BY <1>1 DEF ArchivesSurvive
<1> QED
  BY <1>2, LibraryInvariance, PTL

\* Once nothing is left to recover, the folder has every archive exactly once,
\* as it must be, and nothing else, unless a step has cost an archive.
THEOREM NoRemainsTheorem == ASSUME Assumed PROVE Spec => []NoRemains
<1>1. (Safe => LibInv) => NoRemains
  <2> SUFFICES ASSUME LibInv, txn.record = "absent" PROVE NoRemains
    BY DEF NoRemains
  <2>1. ~Known
    BY DEF Known
  <2> QED
    BY <2>1, GoodFolder DEF NoRemains, Exists, At
<1> QED
  BY <1>1, LibraryInvariance, PTL

-----------------------------------------------------------------------------
(* The rows of a library, and what a scan makes of them *)

\* A set of numbers has a smallest one.
LEMMA Smallest ==
  ASSUME NEW T, T \subseteq Nat, T # {}
  PROVE  \E m \in T : \A n \in T : m <= n
<1> DEFINE R == OpToRel(<, Nat)
<1>1. IsWellFoundedOn(R, Nat)
  BY NatLessThanWellFounded
<1>2. \A m, n \in Nat : <<m, n>> \in R <=> m < n
  BY DEF OpToRel
<1> HIDE DEF R
<1>3. PICK m \in T : \A n \in T : <<n, m>> \notin R
  BY <1>1, WFMin
<1>4. ASSUME NEW n \in T PROVE m <= n
  <2>1. m \in Nat /\ n \in Nat /\ ~(n < m)
    BY <1>2, <1>3
  <2> QED
    BY <2>1
<1> QED
  BY <1>4

\* Induction over the numbers, with the set of those it holds for.
LEMMA Inductive ==
  ASSUME NEW S, 0 \in S, \A n \in Nat : n \in S => n + 1 \in S
  PROVE  Nat \subseteq S
<1>1. SUFFICES ASSUME Nat \ S # {} PROVE FALSE
  OBVIOUS
<1>2. PICK m \in Nat \ S : \A n \in Nat \ S : m <= n
  <2> DEFINE T == Nat \ S
  <2>1. T \subseteq Nat
    OBVIOUS
  <2> QED
    BY <1>1, <2>1, Smallest
<1>3. m - 1 \in Nat /\ m - 1 \notin Nat \ S /\ m = (m - 1) + 1
  BY <1>2
<1> QED
  BY <1>2, <1>3

\* The visits of a scan, one after the other.
ScanStart == [rows |-> {}, matched |-> {}, last |-> lastId]

IsVisit(v, n) ==
  v = [p \in 0 .. n |-> IF p = 0 THEN ScanStart ELSE VisitPath(p, v[p - 1])]

LEMMA VisitsExist ==
  ASSUME NEW n \in Nat PROVE \E v : IsVisit(v, n)
<1> DEFINE S == {m \in Nat : \E v : IsVisit(v, m)}
<1>1. 0 \in S
  <2> DEFINE v == [p \in 0 .. 0 |-> ScanStart]
  <2>1. IsVisit(v, 0)
    BY DEF IsVisit
  <2> QED
    BY <2>1
<1>2. ASSUME NEW m \in Nat, m \in S PROVE m + 1 \in S
  <2>1. PICK v : IsVisit(v, m)
    BY <1>2
  <2> DEFINE w == [p \in 0 .. m + 1 |-> IF p = m + 1 THEN VisitPath(p, v[m]) ELSE v[p]]
  <2>2. \A p \in 0 .. m : w[p] = v[p]
    OBVIOUS
  <2>3. ASSUME NEW p \in 0 .. m + 1
        PROVE  w[p] = IF p = 0 THEN ScanStart ELSE VisitPath(p, w[p - 1])
    <3>1. CASE p = m + 1
      BY <2>2, <3>1
    <3>2. CASE p # m + 1
      <4>1. p \in 0 .. m /\ w[p] = v[p] /\ (p # 0 => w[p - 1] = v[p - 1])
        BY <2>2, <3>2
      <4> QED
        BY <2>1, <4>1 DEF IsVisit
    <3> QED
      BY <3>1, <3>2
  <2>4. w = [p \in 0 .. m + 1 |-> w[p]]
    OBVIOUS
  <2> HIDE DEF w
  <2>5. IsVisit(w, m + 1)
    BY <2>3, <2>4 DEF IsVisit
  <2> QED
    BY <2>5
<1> HIDE DEF S
<1>3. Nat \subseteq S
  BY <1>1, <1>2, Inductive
<1> QED
  BY <1>3 DEF S

LEMMA ScanVisits ==
  \E v : /\ v[0] = ScanStart
         /\ \A p \in Paths : v[p] = VisitPath(p, v[p - 1])
         /\ Scanned = v[PathCount]
<1> DEFINE v == CHOOSE f : IsVisit(f, PathCount)
<1>1. IsVisit(v, PathCount)
  BY VisitsExist, LibraryAssumption
<1>2. Scanned = v[PathCount]
  BY DEF Scanned, IsVisit, ScanStart
<1> HIDE DEF v
<1>3. v[0] = ScanStart /\ \A p \in Paths : v[p] = VisitPath(p, v[p - 1])
  BY <1>1, LibraryAssumption DEF IsVisit, Paths
<1> QED
  BY <1>2, <1>3

\* The rows as the table keeps them.
RowType ==
  [id : Nat, path : Paths, token : Contents, status : {"present", "conflict"}]

RowsOK ==
  /\ rows \subseteq RowType
  /\ \A r \in rows : r.id \in 1 .. lastId
  /\ \A r, s \in rows : r.id = s.id => r = s
  /\ lastId \in 1 .. MaxRows

LEMMA NewRowType ==
  ASSUME NEW id \in Nat, NEW p \in Paths, NEW token \in Contents,
         NEW status \in {"present", "conflict"}
  PROVE  LET r == NewRow(id, p, token, status)
         IN  /\ r \in RowType
             /\ r.id = id /\ r.path = p /\ r.token = token /\ r.status = status
BY DEF NewRow, RowType

\* One of the rows at a path is the best.
LEMMA BestRow ==
  ASSUME RowsOK, NEW at \in SUBSET rows, at # {}
  PROVE  Best(at) \in at
<1> DEFINE present == {r \in at : r.status = "present"}
           top == IF present = {} THEN at ELSE present
           T == {lastId - r.id : r \in top}
<1>1. top \subseteq at /\ top # {}
  OBVIOUS
<1>2. \A r \in top : r.id \in Nat /\ lastId \in Nat /\ r.id <= lastId
  BY <1>1 DEF RowsOK
<1>3. T \subseteq Nat /\ T # {}
  BY <1>1, <1>2
<1>4. PICK m \in T : \A n \in T : m <= n
  BY <1>3, Smallest
<1>5. PICK r \in top : m = lastId - r.id
  BY <1>4
<1>6. \A other \in top : r.id >= other.id
  <2> SUFFICES ASSUME NEW other \in top PROVE r.id >= other.id
    OBVIOUS
  <2>1. lastId - r.id <= lastId - other.id
    BY <1>4, <1>5
  <2> QED
    BY <1>2, <2>1
<1>7. \A other \in at : \/ Rank(r) < Rank(other)
                        \/ Rank(r) = Rank(other) /\ r.id >= other.id
  BY <1>5, <1>6 DEF Rank
<1> QED
  BY <1>1, <1>5, <1>7 DEF Best

\* The rows a scan has written once it has visited the paths up to p.
Visited(p, s) ==
  /\ s = [rows |-> s.rows, matched |-> s.matched, last |-> s.last]
  /\ s.last \in Nat /\ lastId <= s.last
  /\ s.rows \subseteq RowType
  /\ \A r \in s.rows :
       /\ r.path \in 1 .. p /\ Exists(r.path) /\ r.token = TokenAt(r.path)
       /\ r.id \in 1 .. s.last
       /\ r.id \in s.matched \/ r.id > lastId
  /\ \A r, t \in s.rows : r.id = t.id => r = t
  /\ \A q \in 1 .. p : Exists(q) => \E r \in s.rows : r.path = q
  /\ \A m \in s.matched :
       \E r \in rows : r.id = m /\ (r.path \in 1 .. p \/ r.path \notin ListedPaths)

\* Whom the entry at p can be matched with: a row at p, or one without an entry,
\* and not matched before.
LEMMA Matched ==
  ASSUME RowsOK, NEW p \in Paths, Exists(p), NEW s, Visited(p - 1, s)
  PROVE  \A r \in Match(p, s.matched) :
           /\ r \in rows /\ r.id \notin s.matched
           /\ r.path = p \/ r.path \notin ListedPaths
<1> DEFINE at == {r \in rows : r.path = p}
<1>1. CASE at = {}
  BY <1>1 DEF Match, Adoptable, SameToken
<1>2. CASE at # {}
  <2>1. Best(at) \in at
    BY <1>2, BestRow
  <2>2. Match(p, s.matched) = {Best(at)}
    BY <1>2 DEF Match
  <2>3. p \in ListedPaths /\ p \notin 1 .. p - 1
    BY DEF ListedPaths, Paths
  <2>4. Best(at).id \notin s.matched
    BY <2>1, <2>3 DEF Visited, RowsOK
  <2> QED
    BY <2>1, <2>2, <2>4
<1> QED
  BY <1>1, <1>2

LEMMA Visits ==
  ASSUME RowsOK, \A p \in Paths : Exists(p) => TokenAt(p) \in Contents,
         NEW p \in Paths, NEW s, Visited(p - 1, s)
  PROVE  Visited(p, VisitPath(p, s))
<1>0. p \in Nat /\ p - 1 \in Nat /\ p = (p - 1) + 1 /\ lastId \in Nat
  BY DEF Paths, RowsOK
<1>1. CASE ~Exists(p)
  <2>1. VisitPath(p, s) = s
    BY <1>1 DEF VisitPath
  <2>2. 1 .. p = (1 .. p - 1) \cup {p}
    BY <1>0
  <2> QED
    BY <1>1, <2>1, <2>2 DEF Visited
<1>2. CASE Exists(p)
  <2> DEFINE match == Match(p, s.matched)
             picked == CHOOSE r \in match : TRUE
             id == IF match = {} THEN s.last + 1 ELSE picked.id
             status == IF match = {} /\ SameToken(p, s.matched) # {}
                       THEN "conflict" ELSE "present"
             new == NewRow(id, p, TokenAt(p), status)
             t == VisitPath(p, s)
  <2>1. /\ t = [rows |-> s.rows \cup {new},
                matched |-> s.matched \cup {r.id : r \in match},
                last |-> IF match = {} THEN id ELSE s.last]
    BY <1>2 DEF VisitPath
  <2>2. /\ match # {} => picked \in match
        /\ \A r \in match : /\ r \in rows /\ r.id \notin s.matched /\ r.id \in 1 .. lastId
                            /\ r.path = p \/ r.path \notin ListedPaths
    <3>1. \A r \in match : /\ r \in rows /\ r.id \notin s.matched
                           /\ r.path = p \/ r.path \notin ListedPaths
      BY <1>2, Matched
    <3> QED
      BY <3>1 DEF RowsOK
  <2> DEFINE last == IF match = {} THEN id ELSE s.last
             ids == s.matched \cup {r.id : r \in match}
  <2>3. /\ last \in Nat /\ s.last <= last /\ lastId <= last /\ id \in 1 .. last
        /\ id \in ids \/ id > lastId
        /\ match = {} => id > s.last
        /\ match # {} => id \notin s.matched /\ id <= lastId
    <3>1. s.last \in Nat /\ lastId <= s.last
      BY DEF Visited
    <3> HIDE DEF match, picked
    <3>2. CASE match = {}
      BY <1>0, <3>1, <3>2
    <3>3. CASE match # {}
      BY <1>0, <2>2, <3>1, <3>3
    <3> QED
      BY <3>2, <3>3
  <2>4. /\ new \in RowType /\ new.id = id /\ new.path = p /\ new.token = TokenAt(p)
    <3>1. status \in {"present", "conflict"} /\ id \in Nat
      BY <2>3
    <3> HIDE DEF id, status
    <3> QED
      BY <1>2, <3>1, NewRowType
  <2>5. /\ t = [rows |-> t.rows, matched |-> t.matched, last |-> t.last]
        /\ t.rows = s.rows \cup {new} /\ t.matched = ids /\ t.last = last
    BY <2>1
  <2> HIDE DEF new, id, status, last, t, picked
  <2>6. \A r \in s.rows : r.id # id
    <3> SUFFICES ASSUME NEW r \in s.rows, r.id = id PROVE FALSE
      OBVIOUS
    <3>1. r.id \in 1 .. s.last /\ (r.id \in s.matched \/ r.id > lastId)
      BY DEF Visited
    <3> QED
      BY <1>0, <2>3, <3>1 DEF Visited
  <2>7. 1 .. p = (1 .. p - 1) \cup {p}
    BY <1>0
  <2>8. ASSUME NEW r \in t.rows
        PROVE  /\ r \in RowType
               /\ r.path \in 1 .. p /\ Exists(r.path) /\ r.token = TokenAt(r.path)
               /\ r.id \in 1 .. t.last
               /\ r.id \in t.matched \/ r.id > lastId
    <3>1. CASE r = new
      BY <1>2, <2>3, <2>4, <2>5, <2>7, <3>1
    <3>2. CASE r \in s.rows
      BY <1>0, <2>3, <2>5, <2>7, <3>2 DEF Visited
    <3> QED
      BY <2>5, <3>1, <3>2
  <2>9. ASSUME NEW r \in t.rows, NEW u \in t.rows, r.id = u.id PROVE r = u
    BY <2>4, <2>5, <2>6, <2>9 DEF Visited
  <2>10. \A q \in 1 .. p : Exists(q) => \E r \in t.rows : r.path = q
    BY <2>4, <2>5, <2>7 DEF Visited
  <2>11. ASSUME NEW m \in t.matched
         PROVE  \E r \in rows :
                  r.id = m /\ (r.path \in 1 .. p \/ r.path \notin ListedPaths)
    BY <2>2, <2>5, <2>7 DEF Visited
  <2>12. Visited(p, t)
    BY <2>3, <2>5, <2>8, <2>9, <2>10, <2>11 DEF Visited
  <2> QED
    BY <2>12 DEF t
<1> QED
  BY <1>1, <1>2

\* What a scan finds.
LEMMA ScannedRows ==
  ASSUME RowsOK, \A p \in Paths : Exists(p) => TokenAt(p) \in Contents
  PROVE  Visited(PathCount, Scanned)
<1>1. PICK v : /\ v[0] = ScanStart
               /\ \A p \in Paths : v[p] = VisitPath(p, v[p - 1])
               /\ Scanned = v[PathCount]
  BY ScanVisits
<1> DEFINE S == {n \in Nat : n <= PathCount => Visited(n, v[n])}
<1>2. 0 \in S
  BY <1>1 DEF Visited, ScanStart, RowsOK
<1>3. ASSUME NEW n \in Nat, n \in S PROVE n + 1 \in S
  <2> SUFFICES ASSUME n + 1 <= PathCount PROVE Visited(n + 1, v[n + 1])
    OBVIOUS
  <2>1. n + 1 \in Paths /\ (n + 1) - 1 = n /\ Visited(n, v[n])
    BY <1>3, LibraryAssumption DEF Paths
  <2>2. Visited(n + 1, VisitPath(n + 1, v[n]))
    BY <2>1, Visits
  <2> QED
    BY <1>1, <2>1, <2>2
<1> HIDE DEF S
<1>4. Nat \subseteq S
  BY <1>2, <1>3, Inductive
<1> QED
  BY <1>1, <1>4, LibraryAssumption DEF S

-----------------------------------------------------------------------------
(* The invariant of the rows *)

Mutations == {"add", "remove", "move", "scan"}

IndexType ==
  /\ index = [status |-> index.status, entries |-> index.entries]
  /\ index.status \in {"missing", "dirty", "current"}

\* The rows describe the folder.
Agreed ==
  /\ \A p \in ListedPaths : \E r \in rows : r.path = p /\ r.token = TokenAt(p)
  /\ \A r \in rows : Exists(r.path)

\* What each client knows of the rows.
RowPhase(c) ==
  /\ op[c].kind \in Mutations => op[c].id \in 1 .. lastId
  /\ pc[c] \in Transacting \cup Recovering \cup {"begin", "dirty"} =>
       op[c].kind \in Mutations
  /\ pc[c] \in Transacting \cup {"dirty"} =>
       IF op[c].kind = "scan" THEN pc[c] = "dirty" \/ txn.kind = "migrate"
       ELSE txn.kind = op[c].kind
  /\ pc[c] \in Changing => HasRow(op[c].id)
  /\ pc[c] = "dirty" /\ op[c].kind = "scan" => Agreed

RowInv == RowsOK /\ IndexType /\ \A c \in Clients : RowPhase(c)

LEMMA RowPhaseOutside ==
  ASSUME NEW c \in Clients, RowPhase(c), pc'[c] \in Outsiders,
         op'[c] = op[c] \/ op'[c].kind \notin Mutations,
         lastId \in Nat, lastId' \in Nat, lastId <= lastId'
  PROVE  RowPhase(c)'
<1>1. op'[c].kind \in Mutations => op'[c].id \in 1 .. lastId'
  BY DEF RowPhase
<1>2. pc'[c] \notin Transacting \cup Recovering \cup Changing \cup {"begin", "dirty"}
  BY DEF Outsiders, Transacting, Recovering, Changing
<1> QED
  BY <1>1, <1>2 DEF RowPhase

\* Only who is at work changes rows.
LEMMA RowStep ==
  ASSUME LibInv, RowInv, NEW c \in Clients, Holding(c), Mode[c] = "write",
         NEW l, pc' = [pc EXCEPT ![c] = l],
         \A d \in Clients \ {c} : op'[d] = op[d],
         RowsOK', IndexType', lastId <= lastId', RowPhase(c)'
  PROVE  RowInv'
<1>1. \A d \in Clients \ {c} : ~Holding(d)
  BY WriterAlone DEF LibInv
<1>2. \A d \in Clients \ {c} : pc'[d] \in Outsiders
  BY <1>1 DEF LibInv, Types, Holding, Outsiders
<1>3. lastId \in Nat /\ lastId' \in Nat
  BY DEF RowInv, RowsOK
<1>4. \A d \in Clients \ {c} : RowPhase(d)'
  BY <1>2, <1>3, RowPhaseOutside DEF RowInv
<1> QED
  BY <1>4 DEF RowInv

\* Most steps of who is at work change no row.
LEMMA RowsUnchanged ==
  ASSUME RowInv, UNCHANGED <<rows, lastId>> PROVE RowsOK' /\ lastId <= lastId'
<1>1. lastId \in Nat
  BY DEF RowInv, RowsOK
<1> QED
  BY <1>1 DEF RowInv, RowsOK

LEMMA IndexUnchanged ==
  ASSUME RowInv, index' = index PROVE IndexType'
BY DEF RowInv, IndexType

LEMMA RowQuiet ==
  ASSUME LibInv, RowInv, NEW c \in Clients, pc[c] \notin Outsiders,
         NEW l \in Labels, pc' = [pc EXCEPT ![c] = l],
         UNCHANGED <<rows, lastId, op>>, IndexType', l # "dirty",
         l \in Transacting \cup Recovering \cup {"begin"} =>
           pc[c] \in Transacting \cup Recovering \cup {"begin", "dirty"},
         l \in Transacting =>
           /\ pc[c] \in Transacting \cup {"dirty"}
           /\ pc[c] = "dirty" => op[c].kind # "scan"
           /\ txn'.kind = txn.kind,
         l \in Changing => pc[c] \in Changing
  PROVE  RowInv'
<1>1. pc'[c] = l /\ RowPhase(c) /\ op' = op
  BY DEF LibInv, Types, RowInv
<1>2. RowPhase(c)'
  BY <1>1 DEF RowPhase, HasRow, Transacting, Changing
<1> QED
  BY <1>2, Busy, RowsUnchanged, RowStep

-----------------------------------------------------------------------------
(* The steps that change no row *)

\* Where a recovery goes on.
LEMMA RecoveryLabels ==
  ASSUME LibInv, NEW c \in Clients, Recovery(c)
  PROVE  /\ UNCHANGED <<rows, lastId, version, op, index, harm>>
         /\ pc[c] \in Recovering \cup {"finish"}
         /\ \E l \in Recovering \cup {"release", "begin", "finish"} :
              /\ pc' = [pc EXCEPT ![c] = l]
              /\ l = "finish" => pc[c] = "finish" /\ txn'.kind = txn.kind
<1>1. /\ UNCHANGED <<rows, lastId, version, op, index, harm>>
      /\ pc[c] \in Recovering \cup {"finish"}
  BY DEF Recovery, RejectRecord, DropUnrecorded, RollForward, RollBackTarget,
         RollBackRemoval, RollBackMigration, RestoreEntry, RemoveTxnPart, RemoveTxn,
         FinishRecovery, data, Recovering, Decide, Restore
<1>2. \E l \in Recovering \cup {"release", "begin", "finish"} :
        /\ pc' = [pc EXCEPT ![c] = l]
        /\ l = "finish" => pc[c] = "finish" /\ txn'.kind = txn.kind
  <2>1. CASE RemoveTxnPart(c)
    <3>1. pc' = [pc EXCEPT ![c] = pc[c]] /\ pc[c] \in {"untie", "ununtie", "finish"}
      BY <2>1 DEF RemoveTxnPart, LibInv, Types
    <3>2. txn'.kind = txn.kind
      BY <2>1 DEF RemoveTxnPart, LibInv, Types, TxnType
    <3> QED
      BY <3>1, <3>2 DEF Recovering
  <2>2. CASE RestoreEntry(c)
    BY <1>1, <2>2 DEF RestoreEntry, Goto, LibInv, Types, Recovering, Restore, Decide
  <2>3. CASE RollBackRemoval(c) \/ RollBackMigration(c)
    BY <2>3 DEF RollBackRemoval, RollBackMigration, Goto, Recovering, Restore, Decide
  <2>4. CASE RollForward(c) \/ RollBackTarget(c)
    BY <2>4 DEF RollForward, RollBackTarget, Goto, Recovering, Untie, Decide
  <2>5. CASE RemoveTxn(c)
    <3>1. PICK m \in {"recover", "begin", "release"} : pc' = [pc EXCEPT ![c] = m]
      BY <2>5 DEF RemoveTxn, Goto
    <3> QED
      BY <3>1 DEF Recovering
  <2>6. CASE RejectRecord(c) \/ DropUnrecorded(c) \/ FinishRecovery(c)
    BY <2>6 DEF RejectRecord, DropUnrecorded, FinishRecovery, Goto, Recovering
  <2> QED
    BY <2>1, <2>2, <2>3, <2>4, <2>5, <2>6 DEF Recovery
<1> QED
  BY <1>1, <1>2

LEMMA RecoveryRows ==
  ASSUME LibInv, RowInv, NEW c \in Clients, Recovery(c) PROVE RowInv'
<1>1. /\ UNCHANGED <<rows, lastId, op, index>>
      /\ pc[c] \in Recovering \cup {"finish"}
  BY RecoveryLabels
<1>2. PICK l \in Recovering \cup {"release", "begin", "finish"} :
        /\ pc' = [pc EXCEPT ![c] = l]
        /\ l = "finish" => pc[c] = "finish" /\ txn'.kind = txn.kind
  BY RecoveryLabels
<1>3. /\ l \in Labels /\ pc[c] \notin Outsiders /\ l \notin Changing /\ l # "dirty"
      /\ pc[c] \in Transacting \cup Recovering \cup {"begin", "dirty"}
      /\ l \in Transacting =>
           pc[c] \in Transacting \cup {"dirty"} /\ pc[c] # "dirty" /\ txn'.kind = txn.kind
  BY <1>1, <1>2 DEF Labels, Recovering, Outsiders, Changing, Transacting
<1> QED
  BY <1>1, <1>2, <1>3, IndexUnchanged, RowQuiet

LEMMA MutationRows ==
  ASSUME LibInv, RowInv, NEW c \in Clients,
         \/ CreateRecord(c) \/ WriteRecord(c) \/ CreateBackup(c) \/ CopyBackup(c)
         \/ DropSource(c) \/ ExtractTarget(c) \/ MarkPublished(c)
  PROVE  RowInv'
<1>1. /\ UNCHANGED <<rows, lastId, op>> /\ index' = index
      /\ pc[c] \in Transacting /\ pc[c] \notin Outsiders
  BY DEF CreateRecord, WriteRecord, CreateBackup, CopyBackup, DropSource,
         ExtractTarget, MarkPublished, data, Transacting, Outsiders
<1>2. txn'.kind = txn.kind
  BY DEF CreateRecord, WriteRecord, CreateBackup, CopyBackup, DropSource,
         ExtractTarget, MarkPublished, LibInv, Types, TxnType
<1>3. PICK l \in Transacting : pc' = [pc EXCEPT ![c] = l]
  <2>1. CASE CreateRecord(c) \/ WriteRecord(c) \/ CreateBackup(c) \/ CopyBackup(c)
    BY <2>1 DEF CreateRecord, WriteRecord, CreateBackup, CopyBackup, Goto, Transacting
  <2>2. CASE DropSource(c)
    <3>1. CASE UNCHANGED pc
      BY <1>1, <3>1 DEF LibInv, Types
    <3>2. CASE pc' # pc
      <4>1. txn.kind \in {"remove", "migrate", "move"}
        <5>1. Transaction(c)
          BY <2>2 DEF DropSource, LibInv, Phase, Transacting
        <5> QED
          BY <2>2, <5>1 DEF DropSource, Transaction
      <4> QED
        BY <2>2, <3>2, <4>1 DEF DropSource, Goto, Transacting
    <3> QED
      BY <3>1, <3>2
  <2>3. CASE ExtractTarget(c)
    BY <1>1, <2>3 DEF ExtractTarget, Goto, LibInv, Types, Transacting
  <2>4. CASE MarkPublished(c)
    BY <2>4 DEF MarkPublished, Goto, Transacting
  <2> QED
    BY <2>1, <2>2, <2>3, <2>4
<1>4. /\ l \in Labels /\ l # "dirty" /\ l \notin Changing
      /\ pc[c] \in Transacting \cup Recovering \cup {"begin", "dirty"}
      /\ pc[c] \in Transacting \cup {"dirty"} /\ pc[c] # "dirty"
  BY <1>1, <1>3 DEF Labels, Transacting, Changing
<1> QED
  BY <1>1, <1>2, <1>3, <1>4, IndexUnchanged, RowQuiet

LEMMA MarkDirtyRows ==
  ASSUME LibInv, RowInv, NEW c \in Clients, MarkDirty(c) PROVE RowInv'
<1>1. UNCHANGED <<rows, lastId, op, txn>> /\ pc[c] = "dirty" /\ IndexType'
  BY DEF MarkDirty, files, Dirty, RowInv, IndexType
<1>2. PICK l \in {"release", "finish"} :
        pc' = [pc EXCEPT ![c] = l] /\ (l = "finish" => op[c].kind # "scan")
  BY DEF MarkDirty, Goto
<1>3. /\ l \in Labels /\ l # "dirty" /\ l \notin Changing /\ pc[c] \notin Outsiders
      /\ pc[c] \in Transacting \cup Recovering \cup {"begin", "dirty"}
      /\ l \in Transacting => l = "finish"
  BY <1>1, <1>2 DEF Labels, Transacting, Changing, Outsiders
<1>4. l \in Transacting =>
        /\ pc[c] \in Transacting \cup {"dirty"}
        /\ pc[c] = "dirty" => op[c].kind # "scan"
        /\ txn'.kind = txn.kind
  BY <1>1, <1>2, <1>3
<1> QED
  BY <1>1, <1>2, <1>3, <1>4, RowQuiet

\* Whoever goes outside, or on with an index, leaves the rows.
LEMMA LeavingRows ==
  ASSUME LibInv, RowInv, NEW c \in Clients, pc[c] \notin Outsiders,
         NEW l \in {"release", "build"}, pc' = [pc EXCEPT ![c] = l],
         UNCHANGED <<rows, lastId, op>>, IndexType'
  PROVE  RowInv'
<1>1. /\ l \in Labels /\ l # "dirty"
      /\ l \notin Changing \cup Transacting \cup Recovering \cup {"begin"}
  BY DEF Labels, Outsiders, Changing, Transacting, Recovering
<1> QED
  BY <1>1, RowQuiet

LEMMA IndexingRows ==
  ASSUME LibInv, RowInv, NEW c \in Clients,
         Refuse(c) \/ PrepareIndex(c) \/ BuildIndex(c)
  PROVE  RowInv'
<1>1. PICK l \in {"release", "build"} : pc' = [pc EXCEPT ![c] = l]
  BY DEF Refuse, PrepareIndex, BuildIndex, Goto
<1>2. pc[c] \notin Outsiders /\ UNCHANGED <<rows, lastId, op>>
  BY DEF Refuse, PrepareIndex, BuildIndex, Outsiders, data
<1>3. IndexType'
  BY DEF Refuse, PrepareIndex, BuildIndex, RowInv, IndexType, data
<1> QED
  BY <1>1, <1>2, <1>3, LeavingRows

LEMMA ChangingRows ==
  ASSUME LibInv, RowInv, NEW c \in Clients,
         ChangeContent(c) \/ Touch(c) \/ Revert(c)
  PROVE  RowInv'
<1>1. pc[c] \in Changing /\ UNCHANGED <<rows, lastId, op>> /\ pc[c] \notin Outsiders
  BY DEF ChangeContent, Touch, Revert, data, Changing, Outsiders
<1>2. PICK l \in Changing : pc' = [pc EXCEPT ![c] = l]
  BY DEF ChangeContent, Touch, Revert, Goto, Changing
<1>3. IndexType'
  BY DEF ChangeContent, Touch, Revert, data, Dirty, RowInv, IndexType
<1>4. l \in Labels /\ l # "dirty" /\ l \notin Transacting \cup Recovering \cup {"begin"}
  BY <1>2 DEF Labels, Changing, Transacting, Recovering
<1> QED
  BY <1>1, <1>2, <1>3, <1>4, RowQuiet

LEMMA FailureRows ==
  ASSUME LibInv, RowInv, NEW c \in Clients, Failure(c) PROVE RowInv'
<1>1. UNCHANGED <<rows, lastId, op>> /\ index' = index
  BY DEF Failure, FailBegin, FailMutation, FailOther, FailFinalize, data
<1>2. pc[c] \notin Outsiders
  BY DEF Failure, FailBegin, FailMutation, FailOther, FailFinalize, Outsiders
<1>3. PICK l \in {"release", "undo", "revert"} :
        /\ pc' = [pc EXCEPT ![c] = l]
        /\ l = "undo" => pc[c] \in Transacting \cup {"dirty"}
        /\ l = "revert" => pc[c] \in Changing
  BY DEF Failure, FailBegin, FailMutation, FailOther, FailFinalize, Goto, Transacting,
         Changing
<1>4. /\ l \in Labels /\ l # "dirty" /\ l \notin Transacting
      /\ l \in Changing => l = "revert"
      /\ l \in Transacting \cup Recovering \cup {"begin"} => l = "undo"
  BY DEF Labels, Changing, Transacting, Recovering, Outsiders
<1> QED
  BY <1>1, <1>2, <1>3, <1>4, IndexUnchanged, RowQuiet

-----------------------------------------------------------------------------
(* The steps that begin an operation *)

LEMMA BeginRows ==
  ASSUME LibInv, RowInv, NEW c \in Clients, pc[c] = "begin",
         NEW kind, NEW from, NEW to, NEW x, Begin(c, kind, from, to, x),
         IF op[c].kind = "scan" THEN kind = "migrate" ELSE kind = op[c].kind
  PROVE  RowInv'
<1>1. /\ pc' = [pc EXCEPT ![c] = "record"] /\ pc'[c] = "record"
      /\ UNCHANGED <<rows, lastId>> /\ index' = index
      /\ pc[c] \notin Outsiders
  BY DEF Begin, Goto, LibInv, Types, Outsiders
<1>2. /\ op'[c].kind = op[c].kind /\ op'[c].id = op[c].id
      /\ \A d \in Clients \ {c} : op'[d] = op[d]
  BY DEF Begin, LibInv, Types, OpType
<1>3. txn'.kind = kind
  BY DEF Begin, NoTxn
<1>4. RowPhase(c) /\ "record" \notin Changing
  BY DEF RowInv, Changing
<1>5. RowPhase(c)'
  BY <1>1, <1>2, <1>3, <1>4 DEF RowPhase
<1> QED
  BY <1>1, <1>2, <1>5, Busy, RowsUnchanged, IndexUnchanged, RowStep

LEMMA BeginningRows ==
  ASSUME LibInv, RowInv, NEW c \in Clients,
         BeginAdd(c) \/ BeginChange(c) \/ BeginMigration(c)
  PROVE  RowInv'
<1>1. CASE BeginAdd(c)
  BY <1>1, BeginRows DEF BeginAdd
<1>2. CASE BeginChange(c)
  BY <1>2, BeginRows DEF BeginChange
<1>3. CASE BeginMigration(c)
  BY <1>3, BeginRows DEF BeginMigration
<1> QED
  BY <1>1, <1>2, <1>3

\* An operation starts under the lock for writing.
LEMMA StartRows ==
  ASSUME LibInv, RowInv, NEW c \in Clients, pc[c] = "held", Mode[c] = "write",
         NEW l \in {"recover", "pretouch", "change", "prepare"},
         pc' = [pc EXCEPT ![c] = l],
         NEW o, op' = [op EXCEPT ![c] = o],
         UNCHANGED <<rows, index, lastId>>,
         o.kind \in Mutations => o.id \in 1 .. lastId,
         l = "recover" => o.kind \in Mutations,
         l \in {"pretouch", "change"} => HasRow(o.id)
  PROVE  RowInv'
<1>1. pc'[c] = l /\ op'[c] = o /\ \A d \in Clients \ {c} : op'[d] = op[d]
  BY DEF LibInv, Types
<1>2. /\ l \in Changing => l \in {"pretouch", "change"}
      /\ l \in Transacting \cup Recovering \cup {"begin", "dirty"} => l = "recover"
      /\ l \notin Transacting \cup {"dirty"}
  BY DEF Changing, Transacting, Recovering
<1>3. RowPhase(c)'
  BY <1>1, <1>2 DEF RowPhase, HasRow
<1>4. Holding(c)
  BY DEF Holding
<1> QED
  BY <1>1, <1>3, <1>4, RowsUnchanged, IndexUnchanged, RowStep

LEMMA StartMutationRows ==
  ASSUME LibInv, RowInv, NEW c \in Clients, StartMutation(c) PROVE RowInv'
<1>1. PICK kind \in Does[c] \cap {"add", "remove", "move", "scan"},
           id \in 1 .. MaxRows, to \in Paths :
        /\ id <= lastId
        /\ op' = [op EXCEPT ![c] = [NoOp EXCEPT !.kind = kind, !.id = id, !.to = to]]
  BY DEF StartMutation
<1> DEFINE o == [NoOp EXCEPT !.kind = kind, !.id = id, !.to = to]
<1>2. o.kind = kind /\ o.id = id
  BY DEF NoOp
<1>3. id \in 1 .. lastId
  BY <1>1 DEF RowInv, RowsOK
<1>4. op' = [op EXCEPT ![c] = o] /\ kind \in Mutations /\ Mode[c] = "write"
  BY <1>1, Changers DEF Mutations
<1>5. /\ pc[c] = "held" /\ pc' = [pc EXCEPT ![c] = "recover"]
      /\ UNCHANGED <<rows, index, lastId>>
  BY DEF StartMutation, Goto, data
<1> HIDE DEF o
<1> QED
  BY <1>2, <1>3, <1>4, <1>5, StartRows

LEMMA StartWriteRows ==
  ASSUME LibInv, RowInv, NEW c \in Clients, StartWrite(c) PROVE RowInv'
<1>1. PICK kind \in Does[c] \cap {"write", "replace"}, id \in 1 .. MaxRows :
        /\ Resolves(id)
        /\ op' = [op EXCEPT ![c] = [NoOp EXCEPT !.kind = kind, !.id = id,
                            !.content = folder[Row(id).path].content]]
        /\ Goto(c, IF kind = "replace" /\ folder[Row(id).path].kind = "file"
                   THEN "pretouch" ELSE "change")
  BY DEF StartWrite
<1> DEFINE x == folder[Row(id).path].content
           o == [NoOp EXCEPT !.kind = kind, !.id = id, !.content = x]
<1>2. o.kind = kind /\ o.id = id
  BY DEF NoOp
<1>3. op' = [op EXCEPT ![c] = o] /\ kind \notin Mutations /\ Mode[c] = "write"
      /\ HasRow(id)
  BY <1>1, Changers DEF Mutations, Resolves
<1>4. PICK l \in {"pretouch", "change"} : pc' = [pc EXCEPT ![c] = l]
  BY <1>1 DEF Goto
<1>5. pc[c] = "held" /\ UNCHANGED <<rows, index, lastId>>
  BY DEF StartWrite, data
<1> HIDE DEF o
<1> QED
  BY <1>2, <1>3, <1>4, <1>5, StartRows

LEMMA StartRebuildRows ==
  ASSUME LibInv, RowInv, NEW c \in Clients, StartRebuild(c) PROVE RowInv'
<1> DEFINE o == [op[c] EXCEPT !.kind = "rebuild"]
<1>1. o.kind = "rebuild" /\ o.kind \notin Mutations
  BY DEF LibInv, Types, OpType, Mutations
<1>2. /\ op' = [op EXCEPT ![c] = o] /\ Mode[c] = "write"
      /\ pc[c] = "held" /\ pc' = [pc EXCEPT ![c] = "prepare"]
      /\ UNCHANGED <<rows, index, lastId>>
  BY Changers DEF StartRebuild, Goto, data
<1> HIDE DEF o
<1> QED
  BY <1>1, <1>2, StartRows

-----------------------------------------------------------------------------
(* The steps outside *)

\* Nobody who has found rows to describe the folder is left while others act.
LEMMA OutsideRows ==
  ASSUME LibInv, RowInv, UNCHANGED <<rows, lastId>>, IndexType',
         \A c \in Clients :
           \/ /\ pc'[c] \in Outsiders
              /\ op'[c] = op[c] \/ op'[c].kind \notin Mutations
           \/ /\ UNCHANGED <<folder, txn>>
              /\ pc'[c] = pc[c] /\ op'[c] = op[c]
  PROVE  RowInv'
<1>1. lastId \in Nat /\ lastId' \in Nat
  BY DEF RowInv, RowsOK
<1>2. RowsOK' /\ lastId <= lastId'
  BY RowsUnchanged
<1>3. ASSUME NEW c \in Clients PROVE RowPhase(c)'
  <2>1. RowPhase(c)
    BY DEF RowInv
  <2>2. CASE /\ pc'[c] \in Outsiders
             /\ op'[c] = op[c] \/ op'[c].kind \notin Mutations
    BY <1>1, <1>2, <2>1, <2>2, RowPhaseOutside
  <2>3. CASE /\ UNCHANGED <<folder, txn>> /\ pc'[c] = pc[c] /\ op'[c] = op[c]
    <3>1. Agreed => Agreed'
      BY <2>3 DEF Agreed, ListedPaths, Exists, TokenAt
    <3>2. HasRow(op[c].id) => HasRow(op[c].id)'
      BY <2>3 DEF HasRow
    <3> QED
      BY <2>1, <2>3, <3>1, <3>2 DEF RowPhase
  <2> QED
    BY <2>2, <2>3
<1> QED
  BY <1>2, <1>3 DEF RowInv

LEMMA NoOpIsIdle == NoOp.kind \notin Mutations
BY DEF NoOp, Mutations

LEMMA OutsideProgramRows ==
  ASSUME LibInv, RowInv, OutsideRename \/ OutsideWrite PROVE RowInv'
<1>1. /\ Undisturbed /\ UNCHANGED <<rows, lastId, op>> /\ index' = index
      /\ UNCHANGED pc
  BY DEF OutsideRename, OutsideWrite, data, lock
<1>2. \A c \in Clients : pc[c] \in Outsiders
  BY <1>1, Busy, LockAssumption DEF Undisturbed
<1> QED
  BY <1>1, <1>2, IndexUnchanged, OutsideRows

LEMMA LockRows ==
  ASSUME LibInv, RowInv, Assumed, LibraryLockStep PROVE RowInv'
<1>1. LockStep
  BY DEF LibraryLockStep
<1>2. LockKept(Labels)
  BY <1>1, LockStepKeeps DEF LibInv, Types, Assumed, Labels, Outsiders
<1>3. /\ UNCHANGED <<rows, lastId, folder, txn>> /\ index' = index
      /\ \A c \in Clients : op'[c] = NoOp \/ op'[c] = op[c]
  BY DEF LibraryLockStep, files, data
<1>4. \A c \in Clients : pc[c] \notin Outsiders => pc'[c] = pc[c] /\ op'[c] = op[c]
  BY <1>2 DEF LockKept, Holding, Outsiders, LibraryLockStep
<1>5. \A c \in Clients : pc[c] \in Outsiders => pc'[c] \in Outsiders
  BY <1>2 DEF LockKept, Outsiders
<1> QED
  BY <1>3, <1>4, <1>5, NoOpIsIdle, IndexUnchanged, OutsideRows

LEMMA CrashRows ==
  ASSUME LibInv, RowInv, NEW c \in Clients, Crash(c) PROVE RowInv'
<1>1. /\ pc' = [pc EXCEPT ![c] = "dead"] /\ op' = [op EXCEPT ![c] = NoOp]
      /\ UNCHANGED <<rows, lastId, folder, txn>> /\ index' = index
  BY DEF Crash, CrashClient, Goto, files, data
<1>2. /\ pc'[c] = "dead" /\ op'[c] = NoOp
      /\ \A d \in Clients \ {c} : pc'[d] = pc[d] /\ op'[d] = op[d]
  BY <1>1 DEF LibInv, Types
<1> QED
  BY <1>1, <1>2, NoOpIsIdle, IndexUnchanged, OutsideRows DEF Outsiders

LEMMA StutterRows ==
  ASSUME LibInv, RowInv, UNCHANGED vars PROVE RowInv'
<1>1. /\ UNCHANGED <<rows, lastId, folder, txn, op, pc>> /\ index' = index
  BY DEF vars, lock, files, data
<1> QED
  BY <1>1, IndexUnchanged, OutsideRows

LEMMA QueryRows ==
  ASSUME LibInv, RowInv, NEW c \in Clients,
         \/ CleanIndex(c) \/ Query(c) \/ EndQuery(c)
         \/ Finish(c) /\ UNCHANGED <<files, data, op, truth>>
  PROVE  RowInv'
<1>1. PICK l \in {"release", "query"} : pc' = [pc EXCEPT ![c] = l]
  BY DEF CleanIndex, Query, EndQuery, Finish, Goto
<1>2. UNCHANGED <<rows, lastId, folder, txn, op>>
  BY DEF CleanIndex, Query, EndQuery, Finish, files, data
<1>3. IndexType'
  BY DEF CleanIndex, Query, EndQuery, Finish, data, RowInv, IndexType
<1>4. pc'[c] \in Outsiders /\ \A d \in Clients \ {c} : pc'[d] = pc[d]
  BY <1>1 DEF LibInv, Types, Outsiders
<1> QED
  BY <1>2, <1>3, <1>4, OutsideRows

-----------------------------------------------------------------------------
(* The steps that change rows *)

\* The row with an id is there, and no other.
LEMMA RowOf ==
  ASSUME RowsOK, NEW id, HasRow(id)
  PROVE  Row(id) \in rows /\ Row(id).id = id /\ \A r \in rows : r.id = id => r = Row(id)
BY DEF RowsOK, HasRow, Row

\* A row takes the place of those with its id.
LEMMA RowPut ==
  ASSUME RowsOK, NEW old \in SUBSET rows, NEW new \in RowType,
         \A r \in rows \ old : r.id # new.id,
         rows' = (rows \ old) \cup {new},
         lastId' \in 1 .. MaxRows, lastId <= lastId', new.id \in 1 .. lastId'
  PROVE  RowsOK'
<1>1. rows' \subseteq RowType
  BY DEF RowsOK
<1>2. \A r \in rows' : r.id \in 1 .. lastId'
  BY DEF RowsOK
<1>3. \A r, s \in rows' : r.id = s.id => r = s
  BY DEF RowsOK
<1> QED
  BY <1>1, <1>2, <1>3 DEF RowsOK

LEMMA RefreshRows ==
  ASSUME LibInv, RowInv, NEW c \in Clients, Refresh(c) PROVE RowInv'
<1> DEFINE r == Row(op[c].id)
           new == NewRow(r.id, r.path, TokenAt(r.path), "present")
<1>1. /\ pc[c] \in Changing /\ pc[c] \notin Outsiders
      /\ pc' = [pc EXCEPT ![c] = "release"]
      /\ rows' = (rows \ {r}) \cup {new}
      /\ UNCHANGED <<lastId, op>> /\ index' = index
  BY DEF Refresh, Goto, Changing, Outsiders
<1>2. r \in rows /\ \A s \in rows \ {r} : s.id # r.id
  BY <1>1, RowOf DEF RowInv, RowPhase
<1>3. r.id \in Nat /\ r.path \in Paths /\ TokenAt(r.path) \in Contents /\ RowsOK
      /\ r.id \in 1 .. lastId
  BY <1>1, <1>2 DEF RowInv, RowsOK, RowType, LibInv, Phase, Target, At, TokenAt
<1> HIDE DEF r
<1>4. new \in RowType /\ new.id = r.id
  BY <1>3, NewRowType
<1> HIDE DEF new
<1>5. RowsOK'
  <2>1. {r} \in SUBSET rows /\ lastId' \in 1 .. MaxRows /\ lastId <= lastId'
    BY <1>1, <1>2, <1>3 DEF RowsOK
  <2>2. new.id \in 1 .. lastId' /\ \A s \in rows \ {r} : s.id # new.id
    BY <1>1, <1>2, <1>3, <1>4
  <2> DEFINE old == {r}
  <2>3. rows' = (rows \ old) \cup {new} /\ \A s \in rows \ old : s.id # new.id
    BY <1>1, <2>2
  <2>4. old \in SUBSET rows
    BY <2>1
  <2> HIDE DEF old
  <2> QED
    BY <1>3, <1>4, <2>1, <2>2, <2>3, <2>4, RowPut
<1>6. RowPhase(c)'
  BY <1>1, RowPhaseOutside DEF LibInv, Types, Outsiders, RowInv, RowsOK
<1>7. lastId <= lastId'
  BY <1>1, <1>3 DEF RowsOK
<1> QED
  BY <1>1, <1>5, <1>6, <1>7, Busy, IndexUnchanged, RowStep

LEMMA UpdateRows ==
  ASSUME LibInv, RowInv, NEW c \in Clients, UpdateRow(c) PROVE RowInv'
<1> DEFINE x == op[c].content
           fresh == NewRow(lastId + 1, txn.to, x, "present")
           at == {r \in rows : r.path = txn.to}
           best == Best(at)
           taken == NewRow(best.id, txn.to, x, "present")
           moved == NewRow(op[c].id, txn.to, x, "present")
           old == {r \in rows : r.id = op[c].id}
<1>1. /\ pc[c] \in Transacting /\ pc[c] \notin Outsiders /\ pc[c] = "row"
      /\ pc' = [pc EXCEPT ![c] = "dirty"] /\ pc'[c] = "dirty"
      /\ UNCHANGED <<txn, op>> /\ index' = index
  BY DEF UpdateRow, Transacting, Outsiders, Goto, files, LibInv, Types
<1>2. /\ Transaction(c) /\ RowPhase(c) /\ RowsOK /\ TxnShape
  BY <1>1 DEF LibInv, Phase, RowInv
<1>3. /\ txn.kind \in {"add", "remove", "move"} /\ txn.kind = op[c].kind
      /\ txn.kind \in {"add", "move"} => txn.to \in Paths
      /\ x \in Contents
  <2>1. txn.exists /\ x \in Contents /\ txn.kind # "migrate" /\ txn.kind # "none"
    BY <1>1, <1>2 DEF Transaction, TxnShape
  <2>2. txn.kind \in {"none", "add", "remove", "move", "migrate"}
    BY DEF LibInv, Types, TxnType
  <2>3. txn.kind = op[c].kind
    BY <1>1, <1>2, <2>1 DEF RowPhase
  <2> QED
    BY <1>2, <2>1, <2>2, <2>3 DEF TxnShape
<1>4. lastId \in 1 .. MaxRows /\ lastId + 1 > lastId /\ op[c].id \in 1 .. lastId
  BY <1>1, <1>2 DEF RowsOK, RowPhase
<1>5. lastId' = (IF \E r \in rows' : r.id > lastId THEN lastId + 1 ELSE lastId)
      /\ lastId' <= MaxRows
  BY DEF UpdateRow
<1>6. lastId' \in 1 .. MaxRows /\ lastId <= lastId'
  BY <1>4, <1>5, LibraryAssumption
<1>7. RowsOK'
  <2>1. CASE txn.kind = "add" /\ at = {}
    <3>1. rows' = (rows \ {}) \cup {fresh}
      BY <2>1 DEF UpdateRow, AddedRows
    <3>2. fresh \in RowType /\ fresh.id = lastId + 1
      BY <1>3, <1>4, <2>1, NewRowType
    <3> HIDE DEF fresh
    <3>3. fresh.id \in 1 .. lastId'
      BY <1>4, <1>5, <3>1, <3>2
    <3>4. \A r \in rows : r.id # fresh.id
      BY <1>2, <1>4, <3>2 DEF RowsOK
    <3> QED
      BY <1>2, <1>6, <3>1, <3>2, <3>3, <3>4, RowPut
  <2>2. CASE txn.kind = "add" /\ at # {}
    <3>1. best \in at /\ best.id \in 1 .. lastId
          /\ \A r \in rows \ {best} : r.id # best.id
      BY <1>2, <2>2, BestRow DEF RowsOK
    <3>2. rows' = (rows \ {best}) \cup {taken}
      BY <2>2 DEF UpdateRow, AddedRows
    <3>3. taken \in RowType /\ taken.id = best.id
      BY <1>3, <2>2, <3>1, NewRowType
    <3> HIDE DEF taken, best
    <3>4. {best} \in SUBSET rows /\ taken.id \in 1 .. lastId'
      BY <1>4, <1>6, <3>1, <3>3
    <3>5. \A r \in rows \ {best} : r.id # taken.id
      BY <3>1, <3>3
    <3> QED
      BY <1>2, <1>6, <3>2, <3>3, <3>4, <3>5, RowPut
  <2>3. CASE txn.kind = "remove"
    <3>1. rows' \subseteq rows
      BY <2>3 DEF UpdateRow
    <3> QED
      BY <1>2, <1>4, <1>6, <3>1 DEF RowsOK
  <2>4. CASE txn.kind = "move"
    <3>1. rows' = (rows \ old) \cup {moved}
      BY <2>4 DEF UpdateRow, MovedRows
    <3>2. moved \in RowType /\ moved.id = op[c].id
      BY <1>3, <1>4, <2>4, NewRowType
    <3> HIDE DEF moved
    <3>3. old \in SUBSET rows /\ moved.id \in 1 .. lastId'
          /\ \A r \in rows \ old : r.id # moved.id
      BY <1>4, <1>6, <3>2
    <3> QED
      BY <1>2, <1>6, <3>1, <3>2, <3>3, RowPut
  <2> QED
    BY <1>3, <2>1, <2>2, <2>3, <2>4
<1>8. RowPhase(c)'
  <2>1. op[c].kind \in Mutations /\ op[c].kind # "scan" /\ "dirty" \notin Changing
    BY <1>3 DEF Mutations, Changing
  <2>2. op[c].id \in 1 .. lastId'
    BY <1>4, <1>6
  <2> QED
    BY <1>1, <1>3, <2>1, <2>2 DEF RowPhase
<1> QED
  BY <1>1, <1>6, <1>7, <1>8, Busy, IndexUnchanged, RowStep

\* Before anything has changed every entry is an archive.
LEMMA EntriesWhole ==
  ASSUME LibInv, ~txn.exists, NEW p \in Paths, Exists(p)
  PROVE  TokenAt(p) \in Contents
<1>1. ~Known
  BY NoTxnType DEF LibInv, TxnShape, Known
<1> QED
  BY <1>1, GoodFolder DEF Exists, TokenAt, At

LEMMA ScanningRows ==
  ASSUME LibInv, RowInv, NEW c \in Clients, ScanRows(c) PROVE RowInv'
<1>1. /\ pc[c] = "begin" /\ pc[c] \notin Outsiders /\ op[c].kind = "scan"
      /\ pc' = [pc EXCEPT ![c] = "dirty"] /\ pc'[c] = "dirty"
      /\ UNCHANGED <<folder, txn, op>> /\ index' = index
  BY DEF ScanRows, Outsiders, Goto, files, LibInv, Types
<1>2. /\ RowsOK /\ RowPhase(c) /\ ~txn.exists
  BY <1>1 DEF LibInv, Phase, RowInv
<1> DEFINE s == Scanned
<1>3. rows' = s.rows \cup Kept /\ lastId' = s.last /\ s.last <= MaxRows
  BY DEF ScanRows
<1>4. Visited(PathCount, s)
  BY <1>2, EntriesWhole, ScannedRows
<1>5. \A r \in Kept : r \in rows /\ r.path \in ListedPaths /\ r.id \notin s.matched
  BY DEF Kept
<1> HIDE DEF s
<1>6. lastId \in 1 .. MaxRows /\ lastId' \in 1 .. MaxRows /\ lastId <= lastId'
  BY <1>2, <1>3, <1>4, LibraryAssumption DEF Visited, RowsOK
<1>7. \A r \in s.rows : /\ r \in RowType /\ r.id \in 1 .. lastId'
                        /\ r.id \in s.matched \/ r.id > lastId
                        /\ Exists(r.path) /\ r.path \in Paths
                        /\ r.token = TokenAt(r.path)
  BY <1>3, <1>4 DEF Visited, Paths
<1>8. \A r \in Kept : r \in RowType /\ r.id \in 1 .. lastId /\ r.id \in 1 .. lastId'
  BY <1>2, <1>5, <1>6 DEF RowsOK
<1>9. RowsOK'
  <2>1. rows' \subseteq RowType /\ \A r \in rows' : r.id \in 1 .. lastId'
    BY <1>3, <1>7, <1>8
  <2>2. \A r \in s.rows, t \in Kept : r.id # t.id
    BY <1>5, <1>6, <1>7, <1>8
  <2>3. \A r, t \in s.rows : r.id = t.id => r = t
    BY <1>4 DEF Visited
  <2>4. \A r, t \in Kept : r.id = t.id => r = t
    BY <1>2, <1>5 DEF RowsOK
  <2>5. \A r, t \in rows' : r.id = t.id => r = t
    BY <1>3, <2>2, <2>3, <2>4
  <2> QED
    BY <1>6, <2>1, <2>5 DEF RowsOK
<1>10. Agreed'
  <2>1. \A p \in ListedPaths : \E r \in s.rows : r.path = p /\ r.token = TokenAt(p)
    BY <1>4, <1>7 DEF ListedPaths, Paths, Visited
  <2>2. \A r \in s.rows \cup Kept : Exists(r.path)
    BY <1>5, <1>7 DEF ListedPaths
  <2> QED
    BY <1>1, <1>3, <2>1, <2>2 DEF Agreed, ListedPaths, Exists, TokenAt
<1>11. RowPhase(c)'
  <2>1. op[c].kind \in Mutations /\ "dirty" \notin Changing \cup Transacting
    BY <1>1 DEF Mutations, Changing, Transacting
  <2>2. op[c].id \in 1 .. lastId'
    BY <1>2, <1>6, <2>1 DEF RowPhase
  <2> QED
    BY <1>1, <1>10, <2>1, <2>2 DEF RowPhase
<1> QED
  BY <1>1, <1>6, <1>9, <1>11, Busy, IndexUnchanged, RowStep

-----------------------------------------------------------------------------
(* The rows keep what a scan and an operation need of them *)

LEMMA RowInit == Init => RowInv
<1> SUFFICES ASSUME Init PROVE RowInv
  OBVIOUS
<1>1. <<1, 0>> \in Contents /\ 1 \in Paths
  BY LibraryAssumption DEF Contents, Archives, Paths
<1> DEFINE new == NewRow(1, 1, <<1, 0>>, "present")
<1>2. new \in RowType /\ new.id = 1
  BY <1>1, NewRowType
<1>3. rows = {new} /\ lastId = 1
  BY DEF Init
<1> HIDE DEF new
<1>4. RowsOK
  BY <1>2, <1>3, LibraryAssumption DEF RowsOK
<1>5. IndexType
  BY DEF Init, IndexType
<1>6. \A c \in Clients : pc[c] = "idle" /\ op[c] = NoOp
  BY DEF Init, LockInit
<1>7. \A c \in Clients : RowPhase(c)
  BY <1>6, NoOpIsIdle DEF RowPhase, Transacting, Recovering, Changing
<1> QED
  BY <1>4, <1>5, <1>7 DEF RowInv

LEMMA RowNext == Assumed /\ LibInv /\ RowInv /\ [Next]_vars => RowInv'
<1> SUFFICES ASSUME Assumed, LibInv, RowInv, [Next]_vars PROVE RowInv'
  OBVIOUS
<1>1. CASE LibraryLockStep
  BY <1>1, LockRows
<1>2. ASSUME NEW c \in Clients, Reject(c) \/ Indexing(c) PROVE RowInv'
  BY <1>2, QueryRows, IndexingRows, StartRebuildRows DEF Reject, Indexing
<1>3. ASSUME NEW c \in Clients, StartMutation(c) \/ Recovery(c) PROVE RowInv'
  BY <1>3, StartMutationRows, RecoveryRows
<1>4. ASSUME NEW c \in Clients, Membership(c) \/ ScanRows(c) PROVE RowInv'
  BY <1>4, IndexingRows, BeginningRows, MutationRows, UpdateRows, MarkDirtyRows,
     ScanningRows DEF Membership
<1>5. ASSUME NEW c \in Clients, Writing(c) PROVE RowInv'
  BY <1>5, StartWriteRows, ChangingRows, RefreshRows DEF Writing
<1>6. ASSUME NEW c \in Clients, Failure(c) \/ Crash(c) PROVE RowInv'
  BY <1>6, FailureRows, CrashRows
<1>7. CASE OutsideRename \/ OutsideWrite
  BY <1>7, OutsideProgramRows
<1>8. CASE AllSpent \/ UNCHANGED vars
  BY <1>8, StutterRows DEF AllSpent, Spent, vars
<1> QED
  BY <1>1, <1>2, <1>3, <1>4, <1>5, <1>6, <1>7, <1>8 DEF Next

\* The inductive invariant of the rows: one for each id, each at a path and with
\* the token of an archive, and each client knows the row it works on, until a
\* step costs an archive.
THEOREM RowInvariance == ASSUME Assumed PROVE Spec => [](Safe => LibInv /\ RowInv)
<1>1. Init => LibInv /\ RowInv
  BY LibInit, RowInit
<1>2. LibInv /\ RowInv /\ [Next]_vars /\ Safe' => LibInv' /\ RowInv'
  BY LibStep, RowNext
<1> QED
  BY <1>1, <1>2, SafeBefore, PTL DEF Spec

Harms == harm \subseteq {"archives", "index"}

LEMMA HarmsStep == Harms /\ [Next]_vars => Harms'
<1> SUFFICES ASSUME Harms, [Next]_vars PROVE Harms'
  OBVIOUS
<1> USE DEF Harms, Interrupted, Unrecovered, Arrives, Stale
<1>1. ASSUME NEW c \in Clients, Recovery(c) PROVE Harms'
  BY <1>1 DEF Recovery, RejectRecord, DropUnrecorded, RollForward, RollBackTarget,
              RollBackRemoval, RollBackMigration, RestoreEntry, RemoveTxnPart,
              RemoveTxn, FinishRecovery
<1>2. ASSUME NEW c \in Clients, Membership(c) PROVE Harms'
  BY <1>2 DEF Membership, Refuse, BeginAdd, BeginChange, BeginMigration, Begin,
              CreateRecord, WriteRecord, CreateBackup, CopyBackup, DropSource,
              ExtractTarget, MarkPublished, UpdateRow, MarkDirty
<1>3. ASSUME NEW c \in Clients, StartMutation(c) \/ ScanRows(c) \/ Writing(c)
      PROVE  Harms'
  BY <1>3 DEF StartMutation, ScanRows, Writing, StartWrite, ChangeContent, Touch,
              Refresh, Revert
<1>4. ASSUME NEW c \in Clients, Indexing(c) \/ Reject(c) PROVE Harms'
  BY <1>4 DEF Indexing, StartRebuild, PrepareIndex, BuildIndex, CleanIndex, Query,
              EndQuery, Reject
<1>5. ASSUME NEW c \in Clients, Failure(c) \/ Crash(c) PROVE Harms'
  BY <1>5 DEF Failure, FailBegin, FailMutation, FailOther, FailFinalize, Crash
<1>6. CASE LibraryLockStep \/ OutsideRename \/ OutsideWrite \/ AllSpent \/ UNCHANGED vars
  BY <1>6 DEF LibraryLockStep, OutsideRename, OutsideWrite, AllSpent, vars
<1> QED
  BY <1>1, <1>2, <1>3, <1>4, <1>5, <1>6 DEF Next

\* Every variable of a library keeps its type, and no two rows have one id, until
\* a step costs an archive.
THEOREM LibraryTypesTheorem == ASSUME Assumed PROVE Spec => [](Safe => TypeOK)
<1>1. (Safe => LibInv /\ RowInv) /\ Harms => (Safe => TypeOK)
  <2> SUFFICES ASSUME LibInv, RowInv, Harms PROVE TypeOK
    OBVIOUS
  <2>1. LockTypeOK /\ folder \in FolderType /\ version \in 0 .. MaxVersion
    BY DEF LibInv, Types
  <2>2. txn.backup \in Contents \cup {Absent, Partial}
    BY DEF LibInv, Types, TxnType
  <2>3. \A r \in rows : r.id \in 1 .. lastId /\ r.path \in Paths
    BY DEF RowInv, RowsOK, RowType
  <2> QED
    BY <2>1, <2>2, <2>3 DEF TypeOK, FolderType, RowInv, RowsOK, IndexType, Harms
<1>2. Init => Harms
  BY DEF Init, Harms
<1> QED
  BY <1>1, <1>2, HarmsStep, RowInvariance, PTL DEF Spec

\* After a scan the rows describe the folder, however many paths it has visited
\* and whatever it has found, unless a step has cost an archive.
THEOREM ScanAgreesTheorem == ASSUME Assumed PROVE Spec => []ScanAgrees
<1>1. (Safe => LibInv /\ RowInv) => ScanAgrees
  BY DEF RowInv, RowPhase, ScanAgrees, Agreed
<1> QED
  BY <1>1, RowInvariance, PTL

-----------------------------------------------------------------------------
(* What a current index says *)

\* Contents that are somewhere: none is newer than the last change.
Stored == {r.token : r \in rows} \cup {At(p) : p \in Paths} \cup {txn.backup}
           \cup {op[c].content : c \in Clients}

Aged == \A x \in Stored \cap Contents : x[2] <= version

\* A query may come to see the content the row tells: it is at the row's path,
\* or a recovery puts it there.
Found(r) ==
  \/ At(r.path) = r.token
  \/ txn.exists /\ txn.from = r.path /\ txn.backup = r.token

IndexTrue ==
  /\ index.status = "current" /\ "index" \notin harm
  /\ ~(\E c \in Clients : DirtyWindow(c))
  =>
    \A r \in rows :
      r.status = "present" /\ Found(r) =>
        {e \in index.entries : e[1] = r.id} = {<<r.id, r.token>>}

\* A new archive is in no row yet; who goes on to change the row of an archive,
\* or to put back one that was replaced, has marked the index.
IndexPhase(c) ==
  /\ pc[c] \in {"record", "fill", "extract"} /\ txn.kind = "add" =>
       \A r \in rows : r.token # op[c].content
  /\ pc[c] \in {"refresh", "rerefresh", "retouch", "revert"} =>
       index.status # "current"
  /\ /\ pc[c] \in {"change", "touch"} /\ op[c].kind = "replace"
     /\ folder[Target(c)].kind = "file"
     => index.status # "current"

IndexInv == Aged /\ IndexTrue /\ \A c \in Clients : IndexPhase(c)

\* Labels with nothing to know of the index.
Plain == Labels \ {"record", "fill", "extract", "refresh", "rerefresh", "retouch",
                   "revert", "change", "touch"}

LEMMA NoContents == Absent \notin Contents /\ Partial \notin Contents
BY ContentPair

LEMMA AgedStep ==
  ASSUME Types, Aged, NEW x, Stored' \subseteq Stored \cup {Absent, Partial, x},
         version' \in Nat, version <= version',
         x \in Contents => x[2] <= version'
  PROVE  Aged'
<1> SUFFICES ASSUME NEW y \in Stored' \cap Contents PROVE y[2] <= version'
  BY DEF Aged, Contents
<1>1. y \in Stored \/ y = x
  BY NoContents
<1>2. y[2] \in Nat /\ version \in Nat
  BY LibraryAssumption DEF Contents, Types
<1> QED
  BY <1>1, <1>2 DEF Aged

\* What has spoiled the index is not forgotten while it counts as current.
HarmKept == "index" \in harm => "index" \in harm'

\* Nothing has to be said of an index that is spoiled or does not count as current.
Excused == "index" \in harm' \/ index.status # "current"

\* An index stays true while nothing comes to be found that was not.
LEMMA IndexTrueKept ==
  ASSUME IndexTrue, index' = index, rows' \subseteq rows, HarmKept,
         \/ Excused
         \/ /\ \A r \in rows : Found(r)' => Found(r)
            /\ \A d \in Clients : DirtyWindow(d) => DirtyWindow(d)'
  PROVE  IndexTrue'
BY DEF IndexTrue, HarmKept, Excused

LEMMA IndexStep ==
  ASSUME LibInv, NEW c \in Clients, Holding(c), Mode[c] = "write",
         NEW l, pc' = [pc EXCEPT ![c] = l],
         Aged', IndexTrue', IndexPhase(c)'
  PROVE  IndexInv'
<1>1. \A d \in Clients \ {c} : ~Holding(d)
  BY WriterAlone DEF LibInv
<1>2. \A d \in Clients \ {c} : pc'[d] \in Outsiders
  BY <1>1 DEF LibInv, Types, Holding, Outsiders
<1>3. \A d \in Clients \ {c} : IndexPhase(d)'
  BY <1>2 DEF IndexPhase, Outsiders
<1> QED
  BY <1>3 DEF IndexInv

\* Nothing is found after a step that was not before it.
Unfound == \A r \in rows : Found(r)' => Found(r)

LEMMA IndexQuiet ==
  ASSUME LibInv, IndexInv, NEW c \in Clients, pc[c] \notin Outsiders,
         NEW l \in Labels, pc' = [pc EXCEPT ![c] = l],
         UNCHANGED <<rows, index, version, op>>, HarmKept,
         {At(p)' : p \in Paths} \subseteq Stored \cup {Absent, Partial},
         txn'.backup \in Stored \cup {Absent, Partial},
         Excused \/ (Unfound /\ ~DirtyWindow(c)), IndexPhase(c)'
  PROVE  IndexInv'
<1>1. Holding(c) /\ Mode[c] = "write"
  BY Busy
<1>2. Aged'
  <2>1. Stored' \subseteq Stored \cup {Absent, Partial, Absent}
    BY DEF Stored
  <2>2. version' \in Nat /\ version <= version' /\ Types /\ Aged
    BY LibraryAssumption DEF LibInv, Types, IndexInv
  <2> QED
    BY <2>1, <2>2, NoContents, AgedStep
<1>3. ASSUME ~DirtyWindow(c), NEW d \in Clients, DirtyWindow(d) PROVE DirtyWindow(d)'
  BY <1>3 DEF DirtyWindow, LibInv, Types
<1>4. IndexTrue'
  BY <1>3, IndexTrueKept DEF IndexInv, Unfound
<1> QED
  BY <1>1, <1>2, <1>4, IndexStep

\* Most steps change neither the folder nor what would be restored.
LEMMA IndexControl ==
  ASSUME LibInv, RowInv, IndexInv, NEW c \in Clients, pc[c] \notin Outsiders,
         Excused \/ ~DirtyWindow(c), HarmKept,
         NEW l \in Labels, pc' = [pc EXCEPT ![c] = l],
         UNCHANGED <<rows, index, version, op, folder>>,
         \/ txn'.backup = txn.backup /\ txn'.from = txn.from /\ txn'.exists = txn.exists
         \/ txn'.backup \in {Absent, Partial},
         IndexPhase(c)'
  PROVE  IndexInv'
<1>1. Unfound
  <2>1. \A r \in rows : r.token \notin {Absent, Partial}
    BY NoContents DEF RowInv, RowsOK, RowType
  <2> QED
    BY <2>1 DEF Unfound, Found, At
<1>2. {At(p)' : p \in Paths} \subseteq Stored \cup {Absent, Partial}
  BY DEF At, Stored
<1>3. txn'.backup \in Stored \cup {Absent, Partial}
  BY DEF Stored
<1> QED
  BY <1>1, <1>2, <1>3, IndexQuiet

\* An entry that goes, or is not complete, is found by nobody.
LEMMA IndexEntry ==
  ASSUME LibInv, RowInv, IndexInv, NEW c \in Clients, pc[c] \notin Outsiders,
         ~DirtyWindow(c), HarmKept,
         NEW l \in Labels, pc' = [pc EXCEPT ![c] = l],
         UNCHANGED <<rows, index, version, op, txn>>,
         \A p \in Paths : At(p)' \in {At(p), Absent, Partial},
         IndexPhase(c)'
  PROVE  IndexInv'
<1>1. Unfound
  <2>1. \A r \in rows : r.path \in Paths /\ r.token \notin {Absent, Partial}
    BY NoContents DEF RowInv, RowsOK, RowType
  <2> QED
    BY <2>1 DEF Unfound, Found
<1>2. {At(p)' : p \in Paths} \subseteq Stored \cup {Absent, Partial}
  BY DEF Stored
<1>3. txn'.backup \in Stored \cup {Absent, Partial}
  BY DEF Stored
<1> QED
  BY <1>1, <1>2, <1>3, IndexQuiet

-----------------------------------------------------------------------------
(* The index: recovery, additions, removals, moves, migrations *)

LEMMA RecoveryIndex ==
  ASSUME LibInv, RowInv, IndexInv, NEW c \in Clients, Recovery(c) PROVE IndexInv'
<1>1. /\ UNCHANGED <<rows, version, op, index>> /\ HarmKept
      /\ pc[c] \in Recovering \cup {"finish"}
  BY RecoveryLabels DEF HarmKept
<1>2. PICK l \in Recovering \cup {"release", "begin", "finish"} :
        pc' = [pc EXCEPT ![c] = l]
  BY RecoveryLabels
<1>3. /\ l \in Labels /\ l \in Plain /\ pc[c] \notin Outsiders /\ ~DirtyWindow(c)
  BY <1>1 DEF Labels, Plain, Recovering, Transacting, Outsiders, DirtyWindow
<1>4. IndexPhase(c)'
  <2>1. pc'[c] \in Plain
    BY <1>2, <1>3 DEF LibInv, Types
  <2> QED
    BY <2>1 DEF IndexPhase, Plain
<1>5. ASSUME UNCHANGED folder,
             \/ UNCHANGED txn
             \/ txn'.backup = txn.backup /\ txn'.from = txn.from
                  /\ txn'.exists = txn.exists
             \/ txn'.backup \in {Absent, Partial}
      PROVE  IndexInv'
  BY <1>1, <1>2, <1>3, <1>4, <1>5, IndexControl
<1>6. ASSUME UNCHANGED txn, \A p \in Paths : At(p)' \in {At(p), Absent, Partial}
      PROVE  IndexInv'
  BY <1>1, <1>2, <1>3, <1>4, <1>6, IndexEntry
<1>7. ASSUME NEW p \in Paths, UNCHANGED txn, folder' = [folder EXCEPT ![p] = NoEntry]
      PROVE  IndexInv'
  <2>1. \A q \in Paths : At(q)' \in {At(q), Absent}
    BY <1>7, EntryGone DEF LibInv, At
  <2> QED
    BY <1>6, <1>7, <2>1
<1>8. CASE RejectRecord(c) \/ DropUnrecorded(c) \/ FinishRecovery(c)
  BY <1>5, <1>8 DEF RejectRecord, DropUnrecorded, FinishRecovery, files
<1>9. CASE RollForward(c)
  <2>1. txn.kind \in {"move", "remove"} => txn.from \in Paths
    BY <1>9 DEF RollForward, Recorded, LibInv, TxnShape
  <2> QED
    BY <1>5, <1>7, <1>9, <2>1 DEF RollForward
<1>10. CASE RollBackTarget(c)
  <2>1. txn.to \in Paths
    BY <1>10 DEF RollBackTarget, Recorded, LibInv, TxnShape
  <2> QED
    BY <1>7, <1>10, <2>1 DEF RollBackTarget
<1>11. CASE RollBackRemoval(c) \/ RollBackMigration(c)
  <2>1. txn.from \in Paths
    BY <1>11 DEF RollBackRemoval, RollBackMigration, Recorded, LibInv, TxnShape
  <2> QED
    BY <1>5, <1>7, <1>11, <2>1 DEF RollBackRemoval, RollBackMigration
<1>12. CASE RestoreEntry(c)
  <2>1. /\ UNCHANGED txn
        /\ pc[c] \in {"restore", "unrestore"}
    BY <1>12 DEF RestoreEntry, Restore, Decide
  <2>2. txn.exists /\ txn.from \in Paths
    BY <2>1, NoTxnType DEF LibInv, Phase, Known, TxnShape
  <2>3. CASE Exists(txn.from)
    <3>1. /\ At(txn.from)' = txn.backup
          /\ \A q \in Paths \ {txn.from} : At(q)' = At(q)
      BY <1>12, <2>2, <2>3 DEF RestoreEntry, LibInv, Types, FolderType, TxnType, At
    <3>2. Unfound
      <4>1. \A r \in rows : r.path \in Paths
        BY DEF RowInv, RowsOK, RowType
      <4> QED
        BY <2>1, <2>2, <3>1, <4>1 DEF Unfound, Found
    <3>3. /\ {At(p)' : p \in Paths} \subseteq Stored \cup {Absent, Partial}
          /\ txn'.backup \in Stored \cup {Absent, Partial}
      BY <2>1, <3>1 DEF Stored
    <3> QED
      BY <1>1, <1>2, <1>3, <1>4, <3>2, <3>3, IndexQuiet
  <2>4. CASE ~Exists(txn.from)
    <3>1. \A q \in Paths : At(q)' \in {At(q), Partial}
      BY <1>12, <2>2, <2>4
         DEF RestoreEntry, LibInv, Types, FolderType, TxnType, At, Entry
    <3> QED
      BY <1>6, <2>1, <3>1
  <2> QED
    BY <2>3, <2>4
<1>13. CASE RemoveTxnPart(c) \/ RemoveTxn(c)
  <2>1. UNCHANGED folder
    BY <1>13 DEF RemoveTxnPart, RemoveTxn
  <2>2. \/ txn'.backup = txn.backup /\ txn'.from = txn.from /\ txn'.exists = txn.exists
        \/ txn'.backup \in {Absent, Partial}
    <3>1. CASE RemoveTxn(c)
      BY <3>1 DEF RemoveTxn, NoTxn
    <3>2. CASE RemoveTxnPart(c)
      <4>1. txn \in TxnType
        BY DEF LibInv, Types
      <4> QED
        BY <3>2, <4>1 DEF RemoveTxnPart, TxnType
    <3> QED
      BY <1>13, <3>1, <3>2
  <2> QED
    BY <1>5, <2>1, <2>2
<1> QED
  BY <1>8, <1>9, <1>10, <1>11, <1>12, <1>13 DEF Recovery

LEMMA BeginIndex ==
  ASSUME LibInv, RowInv, IndexInv, NEW c \in Clients, pc[c] = "begin",
         NEW kind, NEW from, NEW to, NEW x, Begin(c, kind, from, to, x),
         version' \in Nat, version <= version',
         x \in Stored \/ (x \in Contents => x[2] <= version'),
         kind = "add" => \A r \in rows : r.token # x
  PROVE  IndexInv'
<1>1. /\ pc' = [pc EXCEPT ![c] = "record"] /\ pc'[c] = "record"
      /\ UNCHANGED <<rows, folder, index>> /\ pc[c] \notin Outsiders /\ HarmKept
  BY DEF Begin, Goto, LibInv, Types, Outsiders, HarmKept
<1>2. /\ op'[c].kind = op[c].kind /\ op'[c].content = x
      /\ \A d \in Clients \ {c} : op'[d] = op[d]
  BY DEF Begin, LibInv, Types, OpType
<1>3. txn'.kind = kind /\ txn'.backup = Absent
  BY DEF Begin, NoTxn
<1>4. Aged'
  <2>1. Stored' \subseteq Stored \cup {Absent, Partial, x}
    BY <1>1, <1>2, <1>3 DEF Stored, At
  <2>2. Types /\ Aged /\ version \in Nat
    BY LibraryAssumption DEF LibInv, Types, IndexInv
  <2>3. CASE x \in Stored
    <3>1. Stored' \subseteq Stored \cup {Absent, Partial, Absent}
      BY <2>1, <2>3
    <3> QED
      BY <2>2, <3>1, NoContents, AgedStep
  <2>4. CASE x \in Contents => x[2] <= version'
    BY <2>1, <2>2, <2>4, AgedStep
  <2> QED
    BY <2>3, <2>4
<1>5. IndexTrue'
  <2>1. \A r \in rows : Found(r)' => Found(r)
    <3>1. \A r \in rows : r.token # Absent
      BY NoContents DEF RowInv, RowsOK, RowType
    <3> QED
      BY <1>1, <1>3, <3>1 DEF Found, At
  <2>2. \A d \in Clients : DirtyWindow(d) => DirtyWindow(d)'
    <3>1. \A d \in Clients \ {c} : pc'[d] = pc[d]
      BY <1>1 DEF LibInv, Types
    <3>2. ~DirtyWindow(c)
      BY DEF DirtyWindow
    <3> QED
      <4>1. ASSUME NEW d \in Clients \ {c}, DirtyWindow(d) PROVE DirtyWindow(d)'
        <5>1. pc'[d] = pc[d] /\ op'[d] = op[d] /\ index' = index
          BY <1>1, <1>2, <3>1
        <5> QED
          BY <4>1, <5>1 DEF DirtyWindow
      <4> QED
        BY <3>2, <4>1
  <2> QED
    BY <1>1, <2>1, <2>2, IndexTrueKept DEF IndexInv
<1>6. IndexPhase(c)'
  BY <1>1, <1>2, <1>3 DEF IndexPhase
<1> QED
  BY <1>1, <1>4, <1>5, <1>6, Busy, IndexStep

\* No row tells a content of a later version.
LEMMA NewIsUnknown ==
  ASSUME LibInv, RowInv, Aged, NEW x, x[2] = version + 1
  PROVE  \A r \in rows : r.token # x
<1> SUFFICES ASSUME NEW r \in rows, r.token = x PROVE FALSE
  OBVIOUS
<1>1. r.token \in Contents /\ r.token \in Stored
  BY DEF RowInv, RowsOK, RowType, Stored
<1>2. r.token[2] <= version
  BY <1>1 DEF Aged
<1> QED
  BY <1>2, LibraryAssumption DEF LibInv, Types

LEMMA BeginningIndex ==
  ASSUME LibInv, RowInv, IndexInv, NEW c \in Clients,
         BeginAdd(c) \/ BeginChange(c) \/ BeginMigration(c)
  PROVE  IndexInv'
<1>1. version \in Nat
  BY LibraryAssumption DEF LibInv, Types
<1>2. CASE BeginAdd(c)
  <2>1. PICK a \in Archives : Begin(c, "add", 0, op[c].to, <<a, version + 1>>)
    BY <1>2 DEF BeginAdd
  <2>2. pc[c] = "begin" /\ version' = version + 1
    BY <1>2 DEF BeginAdd
  <2> DEFINE x == <<a, version + 1>>
  <2>3. x[2] = version + 1
    OBVIOUS
  <2>4. Begin(c, "add", 0, op[c].to, x)
    BY <2>1
  <2> HIDE DEF x
  <2>5. \A r \in rows : r.token # x
    BY <2>3, NewIsUnknown DEF IndexInv
  <2>6. version' \in Nat /\ version <= version' /\ x[2] <= version'
    BY <1>1, <2>2, <2>3
  <2> QED
    BY <2>2, <2>4, <2>5, <2>6, BeginIndex
<1>3. CASE BeginChange(c)
  <2> DEFINE path == Row(op[c].id).path
             x == folder[path].content
  <2>1. /\ Begin(c, op[c].kind, path, op[c].to, x)
        /\ pc[c] = "begin" /\ version' = version
        /\ op[c].kind # "add" /\ Resolves(op[c].id)
    BY <1>3 DEF BeginChange, Refused
  <2>2. path \in Paths
    BY <2>1 DEF Resolves, ListedPaths
  <2>3. x \in Stored
    BY <2>2 DEF Stored, At
  <2> HIDE DEF x, path
  <2> QED
    BY <1>1, <2>1, <2>3, BeginIndex
<1>4. CASE BeginMigration(c)
  <2>1. PICK p \in ArchiveFiles : Begin(c, "migrate", p, p, folder[p].content)
    BY <1>4 DEF BeginMigration
  <2> DEFINE x == folder[p].content
  <2>2. x \in Stored /\ pc[c] = "begin" /\ version' = version
    BY <1>4 DEF Stored, At, ArchiveFiles, ListedPaths, BeginMigration
  <2>3. Begin(c, "migrate", p, p, x)
    BY <2>1
  <2> HIDE DEF x
  <2> QED
    BY <1>1, <2>2, <2>3, BeginIndex
<1> QED
  BY <1>2, <1>3, <1>4

LEMMA RecordIndex ==
  ASSUME LibInv, RowInv, IndexInv, NEW c \in Clients,
         CreateRecord(c) \/ WriteRecord(c) \/ CreateBackup(c) \/ MarkPublished(c)
  PROVE  IndexInv'
<1>1. /\ pc[c] \in {"record", "fill", "backup", "mark"}
      /\ UNCHANGED <<rows, folder, index, version, op>> /\ HarmKept
  BY DEF CreateRecord, WriteRecord, CreateBackup, MarkPublished, data, HarmKept
<1>2. PICK l \in {"fill", "extract", "backup", "copy", "drop", "finish", "row"} :
        /\ pc' = [pc EXCEPT ![c] = l]
        /\ l \in {"fill", "extract"} => pc[c] \in {"record", "fill"}
  BY DEF CreateRecord, WriteRecord, CreateBackup, MarkPublished, Goto
<1>3. /\ txn'.kind = txn.kind
      /\ \/ txn'.backup = txn.backup /\ txn'.from = txn.from /\ txn'.exists = txn.exists
         \/ txn'.backup \in {Absent, Partial}
  <2>1. txn \in TxnType
    BY DEF LibInv, Types
  <2> QED
    BY <2>1 DEF CreateRecord, WriteRecord, CreateBackup, MarkPublished, TxnType
<1>4. l \in Labels /\ pc[c] \notin Outsiders /\ ~DirtyWindow(c)
  BY <1>1 DEF Labels, Transacting, Outsiders, DirtyWindow
<1>5. IndexPhase(c)'
  <2>1. pc'[c] = l /\ IndexPhase(c)
    BY <1>2 DEF LibInv, Types, IndexInv
  <2> QED
    BY <1>1, <1>2, <1>3, <2>1 DEF IndexPhase
<1> QED
  BY <1>1, <1>2, <1>3, <1>4, <1>5, IndexControl

LEMMA CopyBackupIndex ==
  ASSUME LibInv, RowInv, IndexInv, NEW c \in Clients, CopyBackup(c) PROVE IndexInv'
<1>1. /\ pc[c] = "copy" /\ pc[c] \notin Outsiders /\ ~DirtyWindow(c)
      /\ UNCHANGED <<rows, folder, index, version, op>> /\ HarmKept
      /\ pc' = [pc EXCEPT ![c] = "drop"] /\ pc'[c] = "drop" /\ "drop" \in Labels
  BY DEF CopyBackup, data, Goto, LibInv, Types, Labels, Transacting, Outsiders,
         DirtyWindow, HarmKept
<1>2. txn.from \in Paths
  <2>1. Transaction(c) /\ TxnShape
    BY <1>1 DEF LibInv, Phase, Transacting
  <2> QED
    BY <1>1, <2>1 DEF Transaction, TxnShape
<1>3. /\ txn'.backup = At(txn.from) /\ txn'.from = txn.from /\ txn'.exists = txn.exists
  BY DEF CopyBackup, LibInv, Types, TxnType, At
<1>4. Unfound
  BY <1>1, <1>3 DEF Unfound, Found, At
<1>5. /\ {At(p)' : p \in Paths} \subseteq Stored \cup {Absent, Partial}
      /\ txn'.backup \in Stored \cup {Absent, Partial}
  BY <1>1, <1>2, <1>3 DEF Stored, At
<1>6. IndexPhase(c)'
  BY <1>1 DEF IndexPhase
<1> QED
  BY <1>1, <1>4, <1>5, <1>6, IndexQuiet

LEMMA DropSourceIndex ==
  ASSUME LibInv, RowInv, IndexInv, NEW c \in Clients, DropSource(c) PROVE IndexInv'
<1>1. /\ pc[c] = "drop" /\ pc[c] \notin Outsiders /\ ~DirtyWindow(c)
      /\ UNCHANGED <<rows, index, version, op, txn>> /\ HarmKept
  BY DEF DropSource, data, Outsiders, DirtyWindow, HarmKept
<1>2. Transaction(c) /\ TxnShape
  BY <1>1 DEF LibInv, Phase, Transacting
<1>3. txn.from \in Paths /\ txn.kind \in {"remove", "migrate", "move"}
  BY <1>1, <1>2 DEF Transaction, TxnShape
<1>4. \A p \in Paths : At(p)' \in {At(p), Absent, Partial}
  <2>1. CASE folder' = [folder EXCEPT ![txn.from] = NoEntry]
    BY <1>3, <2>1, EntryGone DEF LibInv, At
  <2>2. CASE folder' = [folder EXCEPT ![txn.from].content = Partial]
    BY <1>3, <2>2 DEF LibInv, Types, FolderType, At
  <2> QED
    BY <2>1, <2>2 DEF DropSource
<1>5. PICK l \in {"drop", "mark", "extract", "row"} :
        pc' = [pc EXCEPT ![c] = l] /\ (l = "extract" => txn.kind = "migrate")
  <2>1. CASE UNCHANGED pc
    BY <1>1, <2>1 DEF LibInv, Types
  <2>2. CASE pc' # pc
    BY <1>3, <2>2 DEF DropSource, Goto
  <2> QED
    BY <2>1, <2>2
<1>6. IndexPhase(c)'
  <2>1. pc'[c] = l
    BY <1>5 DEF LibInv, Types
  <2> QED
    BY <1>1, <1>5, <2>1 DEF IndexPhase
<1>7. l \in Labels
  BY <1>5 DEF Labels, Transacting
<1> QED
  BY <1>1, <1>4, <1>5, <1>6, <1>7, IndexEntry

\* A move that brings an archive back to where a row with its token has stayed
\* spoils the index; nothing else comes to be found.
LEMMA ExtractIndex ==
  ASSUME LibInv, RowInv, IndexInv, NEW c \in Clients, ExtractTarget(c)
  PROVE  IndexInv'
<1>1. /\ pc[c] = "extract" /\ pc[c] \notin Outsiders /\ ~DirtyWindow(c)
      /\ UNCHANGED <<rows, index, version, op, txn>> /\ HarmKept
  BY DEF ExtractTarget, data, Outsiders, DirtyWindow, HarmKept, Arrives
<1>2. Transaction(c) /\ TxnShape /\ IndexPhase(c)
  BY <1>1 DEF LibInv, Phase, Transacting, IndexInv
<1>3. /\ txn.to \in Paths /\ txn.exists /\ txn.kind \in {"add", "move", "migrate"}
      /\ txn.kind = "migrate" => txn.to = txn.from /\ txn.backup = op[c].content
  BY <1>1, <1>2 DEF Transaction, TxnShape
<1>4. PICK l \in {"extract", "mark"} : pc' = [pc EXCEPT ![c] = l]
  BY <1>1 DEF ExtractTarget, Goto, LibInv, Types
<1>5. l \in Labels /\ IndexPhase(c)'
  <2>1. pc'[c] = l
    BY <1>4 DEF LibInv, Types
  <2> QED
    BY <1>1, <1>2, <1>4, <2>1 DEF IndexPhase, Labels, Transacting
<1>6. CASE Exists(txn.to)
  <2>1. /\ At(txn.to)' = op[c].content
        /\ \A q \in Paths \ {txn.to} : At(q)' = At(q)
    BY <1>1, <1>3, <1>6 DEF ExtractTarget, LibInv, Types, FolderType, At
  <2>2. Excused \/ Unfound
    <3> SUFFICES ASSUME NEW r \in rows, Found(r)', ~Found(r), ~Excused PROVE FALSE
      BY DEF Unfound
    <3>1. r.path \in Paths /\ r.path = txn.to /\ r.token = op[c].content
      BY <1>1, <2>1 DEF Found, RowInv, RowsOK, RowType
    <3>2. CASE txn.kind = "add"
      BY <1>1, <1>2, <3>1, <3>2 DEF IndexPhase
    <3>3. CASE txn.kind = "move"
      BY <1>6, <3>1, <3>3 DEF ExtractTarget, Arrives, Excused
    <3>4. CASE txn.kind = "migrate"
      BY <1>3, <3>1, <3>4 DEF Found
    <3> QED
      BY <1>3, <3>2, <3>3, <3>4
  <2>3. /\ {At(p)' : p \in Paths} \subseteq Stored \cup {Absent, Partial}
        /\ txn'.backup \in Stored \cup {Absent, Partial}
    BY <1>1, <2>1 DEF Stored
  <2> QED
    BY <1>1, <1>4, <1>5, <2>2, <2>3, IndexQuiet
<1>7. CASE ~Exists(txn.to)
  <2>1. \A p \in Paths : At(p)' \in {At(p), Absent, Partial}
    BY <1>3, <1>7 DEF ExtractTarget, LibInv, Types, FolderType, Entry, At
  <2> QED
    BY <1>1, <1>4, <1>5, <2>1, IndexEntry
<1> QED
  BY <1>6, <1>7

\* A step that changes rows and leaves the files.
LEMMA RowsIndex ==
  ASSUME LibInv, IndexInv, NEW c \in Clients, pc[c] \notin Outsiders,
         NEW l \in {"dirty", "release"}, pc' = [pc EXCEPT ![c] = l],
         UNCHANGED <<folder, txn, version, op>>,
         {r.token : r \in rows'} \subseteq Stored,
         IndexTrue'
  PROVE  IndexInv'
<1>1. Aged'
  <2>1. Stored' \subseteq Stored \cup {Absent, Partial, Absent}
    BY DEF Stored, At
  <2>2. version' \in Nat /\ version <= version' /\ Types /\ Aged
    BY LibraryAssumption DEF LibInv, Types, IndexInv
  <2> QED
    BY <2>1, <2>2, NoContents, AgedStep
<1>2. IndexPhase(c)'
  <2>1. pc'[c] = l
    BY DEF LibInv, Types
  <2> QED
    BY <2>1 DEF IndexPhase
<1> QED
  BY <1>1, <1>2, Busy, IndexStep

LEMMA UpdateIndex ==
  ASSUME LibInv, RowInv, IndexInv, NEW c \in Clients, UpdateRow(c) PROVE IndexInv'
<1>1. /\ pc[c] = "row" /\ pc[c] \notin Outsiders
      /\ pc' = [pc EXCEPT ![c] = "dirty"] /\ pc'[c] = "dirty"
      /\ UNCHANGED <<folder, txn, op, version, index>> /\ HarmKept
  BY DEF UpdateRow, Outsiders, Goto, files, LibInv, Types, HarmKept
<1>2. txn.kind \in {"add", "remove", "move"} /\ txn.kind = op[c].kind
  <2>1. Transaction(c) /\ TxnShape /\ RowPhase(c)
    BY <1>1 DEF LibInv, Phase, Transacting, RowInv
  <2>2. txn.exists /\ txn.kind # "migrate" /\ txn.kind # "none"
    BY <1>1, <2>1 DEF Transaction, TxnShape
  <2>3. txn.kind = op[c].kind
    BY <1>1, <2>1, <2>2 DEF RowPhase, Transacting
  <2>4. txn.kind \in {"none", "add", "remove", "move", "migrate"}
    BY DEF LibInv, Types, TxnType
  <2> QED
    BY <2>2, <2>3, <2>4
<1>3. {r.token : r \in rows'} \subseteq Stored
  <2>1. \A r \in rows' : r \in rows \/ r.token = op[c].content
    BY <1>2 DEF UpdateRow, AddedRows, MovedRows, NewRow
  <2> QED
    BY <2>1 DEF Stored
<1>4. IndexTrue'
  <2>1. CASE txn.kind = "remove"
    <3>1. rows' \subseteq rows
      BY <2>1 DEF UpdateRow
    <3>2. \A r \in rows : Found(r)' => Found(r)
      BY <1>1 DEF Found, At
    <3>3. \A d \in Clients : DirtyWindow(d) => DirtyWindow(d)'
      BY <1>1 DEF DirtyWindow, LibInv, Types
    <3> QED
      BY <1>1, <3>1, <3>2, <3>3, IndexTrueKept DEF IndexInv
  <2>2. CASE txn.kind \in {"add", "move"}
    <3>1. index'.status = "current" => DirtyWindow(c)'
      BY <1>1, <1>2, <2>2 DEF DirtyWindow
    <3> QED
      BY <3>1 DEF IndexTrue
  <2> QED
    BY <1>2, <2>1, <2>2
<1> QED
  BY <1>1, <1>3, <1>4, RowsIndex

LEMMA ScanningIndex ==
  ASSUME LibInv, RowInv, IndexInv, NEW c \in Clients, ScanRows(c) PROVE IndexInv'
<1>1. /\ pc[c] = "begin" /\ pc[c] \notin Outsiders /\ op[c].kind = "scan"
      /\ pc' = [pc EXCEPT ![c] = "dirty"] /\ pc'[c] = "dirty"
      /\ UNCHANGED <<folder, txn, op, version, index>>
      /\ rows' = Scanned.rows \cup Kept
  BY DEF ScanRows, Outsiders, Goto, files, LibInv, Types
<1>2. Visited(PathCount, Scanned)
  <2>1. RowsOK /\ ~txn.exists
    BY <1>1 DEF LibInv, Phase, RowInv
  <2> QED
    BY <2>1, EntriesWhole, ScannedRows
<1>3. {r.token : r \in rows'} \subseteq Stored
  <2>1. \A r \in Scanned.rows : r.token = At(r.path) /\ r.path \in Paths
    BY <1>2 DEF Visited, TokenAt, At, Paths
  <2>2. \A r \in Kept : r \in rows
    BY DEF Kept
  <2> QED
    BY <1>1, <2>1, <2>2 DEF Stored
<1>4. IndexTrue'
  <2>1. index'.status = "current" => DirtyWindow(c)'
    BY <1>1 DEF DirtyWindow
  <2> QED
    BY <2>1 DEF IndexTrue
<1> QED
  BY <1>1, <1>3, <1>4, RowsIndex

LEMMA MarkDirtyIndex ==
  ASSUME LibInv, RowInv, IndexInv, NEW c \in Clients, MarkDirty(c) PROVE IndexInv'
<1>1. /\ pc[c] = "dirty" /\ pc[c] \notin Outsiders
      /\ UNCHANGED <<rows, folder, txn, version, op>>
      /\ index'.status = "dirty"
  BY DEF MarkDirty, files, Dirty, RowInv, IndexType, Outsiders
<1>2. PICK l \in {"release", "finish"} : pc' = [pc EXCEPT ![c] = l]
  BY DEF MarkDirty, Goto
<1>3. Aged'
  BY <1>1 DEF Aged, Stored, At, IndexInv
<1>4. IndexTrue'
  BY <1>1 DEF IndexTrue
<1>5. IndexPhase(c)'
  <2>1. pc'[c] = l
    BY <1>2 DEF LibInv, Types
  <2> QED
    BY <2>1 DEF IndexPhase
<1> QED
  BY <1>1, <1>2, <1>3, <1>4, <1>5, Busy, IndexStep

LEMMA MembershipIndex ==
  ASSUME LibInv, RowInv, IndexInv, NEW c \in Clients, Membership(c)
  PROVE  IndexInv'
<1>1. CASE Refuse(c)
  <2>1. /\ pc[c] = "begin" /\ pc[c] \notin Outsiders /\ ~DirtyWindow(c)
        /\ pc' = [pc EXCEPT ![c] = "release"] /\ "release" \in Labels
        /\ UNCHANGED <<rows, index, version, op, folder, txn>> /\ HarmKept
    BY <1>1 DEF Refuse, Goto, files, data, Outsiders, DirtyWindow, Labels, HarmKept
  <2>2. IndexPhase(c)'
    BY <2>1 DEF LibInv, Types, IndexPhase
  <2> QED
    BY <2>1, <2>2, IndexControl
<1> QED
  BY <1>1, BeginningIndex, RecordIndex, CopyBackupIndex, DropSourceIndex, ExtractIndex,
     UpdateIndex, MarkDirtyIndex DEF Membership

-----------------------------------------------------------------------------
(* The index: writes and builds *)

\* While the index is not current it says nothing, and a writer changes what it
\* likes.
LEMMA NotCurrent ==
  ASSUME LibInv, IndexInv, NEW c \in Clients, pc[c] \notin Outsiders,
         NEW l, pc' = [pc EXCEPT ![c] = l],
         index'.status # "current", UNCHANGED version,
         Stored' \subseteq Stored, IndexPhase(c)'
  PROVE  IndexInv'
<1>1. Aged'
  BY DEF Aged, IndexInv
<1>2. IndexTrue'
  BY DEF IndexTrue
<1> QED
  BY <1>1, <1>2, Busy, IndexStep

LEMMA TouchIndex ==
  ASSUME LibInv, RowInv, IndexInv, NEW c \in Clients, Touch(c) PROVE IndexInv'
<1>1. /\ pc[c] \notin Outsiders /\ index'.status = "dirty"
      /\ UNCHANGED <<rows, folder, txn, version, op>>
  BY DEF Touch, Dirty, files, RowInv, IndexType, Outsiders
<1>2. PICK l \in {"change", "refresh", "rerefresh"} : pc' = [pc EXCEPT ![c] = l]
  BY DEF Touch, Goto
<1>3. IndexPhase(c)'
  <2>1. pc'[c] = l
    BY <1>2 DEF LibInv, Types
  <2> QED
    BY <1>1, <2>1 DEF IndexPhase
<1>4. Stored' = Stored
  BY <1>1 DEF Stored, At
<1> QED
  BY <1>1, <1>2, <1>3, <1>4, NotCurrent

LEMMA RefreshIndex ==
  ASSUME LibInv, RowInv, IndexInv, NEW c \in Clients, Refresh(c) PROVE IndexInv'
<1> DEFINE r == Row(op[c].id)
           new == NewRow(r.id, r.path, TokenAt(r.path), "present")
<1>1. /\ pc[c] \in {"refresh", "rerefresh"} /\ pc[c] \notin Outsiders
      /\ pc' = [pc EXCEPT ![c] = "release"] /\ pc'[c] = "release"
      /\ rows' = (rows \ {r}) \cup {new}
      /\ UNCHANGED <<op, index, version, folder, txn>>
  BY DEF Refresh, Goto, Outsiders, files, LibInv, Types
<1>2. index.status # "current"
  BY <1>1 DEF IndexInv, IndexPhase
<1>3. r.path \in Paths
  BY <1>1 DEF LibInv, Phase, Changing, Target
<1>4. new.token = At(r.path)
  BY DEF NewRow, TokenAt, At
<1> HIDE DEF new, r
<1>5. Stored' \subseteq Stored
  BY <1>1, <1>3, <1>4 DEF Stored, At
<1>6. IndexPhase(c)'
  BY <1>1 DEF IndexPhase
<1> QED
  BY <1>1, <1>2, <1>5, <1>6, NotCurrent

\* The entry of an archive that is changed.
LEMMA PutEntry ==
  ASSUME Types, NEW p \in Paths, NEW x, PutContent(p, x)
  PROVE  /\ At(p)' = x /\ \A q \in Paths \ {p} : At(q)' = At(q)
         /\ \A q \in Paths : folder'[q].kind = folder[q].kind
BY DEF Types, FolderType, PutContent, At

LEMMA RevertIndex ==
  ASSUME LibInv, RowInv, IndexInv, NEW c \in Clients, Revert(c) PROVE IndexInv'
<1>1. /\ pc[c] = "revert" /\ pc[c] \notin Outsiders
      /\ pc' = [pc EXCEPT ![c] = "retouch"] /\ pc'[c] = "retouch"
      /\ UNCHANGED <<rows, op, index, version, txn>>
      /\ PutContent(Target(c), op[c].content)
  BY DEF Revert, Goto, Outsiders, data, LibInv, Types, Target
<1>2. index.status # "current"
  BY <1>1 DEF IndexInv, IndexPhase
<1>3. Target(c) \in Paths
  BY <1>1 DEF LibInv, Phase, Changing
<1>4. PICK p \in Paths, x \in Stored : PutContent(p, x)
  BY <1>1, <1>3 DEF Stored
<1>5. Stored' \subseteq Stored
  <2>1. At(p)' = x /\ \A q \in Paths \ {p} : At(q)' = At(q)
    BY <1>4, PutEntry DEF LibInv
  <2> QED
    BY <1>1, <2>1 DEF Stored
<1>6. IndexPhase(c)'
  BY <1>1, <1>2 DEF IndexPhase
<1> QED
  BY <1>1, <1>2, <1>5, <1>6, NotCurrent

\* A new content is found by nobody.
LEMMA NewEntry ==
  ASSUME LibInv, RowInv, IndexInv, NEW p \in Paths, NEW x,
         x[2] = version + 1, version' = version + 1, PutContent(p, x),
         UNCHANGED <<txn, rows, index, op>>
  PROVE  Aged' /\ Unfound
<1>1. At(p)' = x /\ \A q \in Paths \ {p} : At(q)' = At(q)
  BY PutEntry DEF LibInv
<1>2. Aged'
  <2>1. Stored' \subseteq Stored \cup {Absent, Partial, x}
    BY <1>1 DEF Stored
  <2>2. version \in Nat /\ Types /\ Aged
    BY LibraryAssumption DEF LibInv, Types, IndexInv
  <2>3. version' \in Nat /\ version <= version' /\ x[2] <= version'
    BY <2>2
  <2> QED
    BY <2>1, <2>2, <2>3, AgedStep
<1>3. Unfound
  <2> SUFFICES ASSUME NEW r \in rows, Found(r)' PROVE Found(r)
    BY DEF Unfound
  <2>1. r.token # x /\ r.path \in Paths
    BY NewIsUnknown DEF IndexInv, RowInv, RowsOK, RowType
  <2> QED
    BY <1>1, <2>1 DEF Found
<1> QED
  BY <1>2, <1>3

LEMMA ChangeIndex ==
  ASSUME LibInv, RowInv, IndexInv, NEW c \in Clients, ChangeContent(c) PROVE IndexInv'
<1>1. /\ pc[c] = "change" /\ pc[c] \notin Outsiders
      /\ pc' = [pc EXCEPT ![c] = "touch"] /\ pc'[c] = "touch"
      /\ UNCHANGED <<txn, rows, index, op>> /\ version' = version + 1
  BY DEF ChangeContent, Goto, Outsiders, LibInv, Types
<1>2. Target(c) \in Paths
  BY <1>1 DEF LibInv, Phase, Changing
<1>3. PICK p, x :
        /\ p \in Paths /\ p = Target(c)
        /\ x[2] = version + 1 /\ PutContent(p, x)
  <2> DEFINE y == <<op[c].content[1], version + 1>>
  <2>1. y[2] = version + 1 /\ PutContent(Target(c), y)
    BY DEF ChangeContent, Target
  <2> HIDE DEF y
  <2> QED
    BY <1>2, <2>1
<1>4. Aged' /\ Unfound
  BY <1>1, <1>3, NewEntry
<1>5. IndexTrue'
  <2>1. \A d \in Clients : DirtyWindow(d) => DirtyWindow(d)'
    BY <1>1 DEF DirtyWindow, LibInv, Types
  <2>2. HarmKept
    BY DEF ChangeContent, HarmKept
  <2> QED
    BY <1>1, <1>4, <2>1, <2>2, IndexTrueKept DEF IndexInv, Unfound
<1>6. IndexPhase(c)'
  <2>1. Target(c)' = p /\ folder'[p].kind = folder[p].kind
    BY <1>1, <1>3, PutEntry DEF Target, Row, LibInv
  <2>2. IndexPhase(c)
    BY DEF IndexInv
  <2> QED
    BY <1>1, <1>3, <2>1, <2>2 DEF IndexPhase
<1> QED
  BY <1>1, <1>4, <1>5, <1>6, Busy, IndexStep

\* An operation starts.
LEMMA StartIndex ==
  ASSUME LibInv, IndexInv, NEW c \in Clients, pc[c] = "held", Mode[c] = "write",
         NEW l, pc' = [pc EXCEPT ![c] = l],
         NEW o, op' = [op EXCEPT ![c] = o],
         o.content \in Stored \cup {Absent}, HarmKept,
         UNCHANGED <<folder, txn, rows, index, version>>,
         IndexPhase(c)'
  PROVE  IndexInv'
<1>1. op'[c] = o /\ \A d \in Clients \ {c} : op'[d] = op[d] /\ pc'[d] = pc[d]
  BY DEF LibInv, Types
<1>2. Aged'
  <2>1. Stored' \subseteq Stored \cup {Absent, Partial, Absent}
    BY <1>1 DEF Stored, At
  <2>2. version' \in Nat /\ version <= version' /\ Types /\ Aged
    BY LibraryAssumption DEF LibInv, Types, IndexInv
  <2> QED
    BY <2>1, <2>2, NoContents, AgedStep
<1>3. IndexTrue'
  <2>1. \A d \in Clients : DirtyWindow(d) => DirtyWindow(d)'
    BY <1>1 DEF DirtyWindow
  <2>2. \A r \in rows : Found(r)' => Found(r)
    BY DEF Found, At
  <2> QED
    BY <2>1, <2>2, IndexTrueKept DEF IndexInv
<1>4. Holding(c)
  BY DEF Holding
<1> QED
  BY <1>2, <1>3, <1>4, IndexStep

LEMMA StartMutationIndex ==
  ASSUME LibInv, IndexInv, NEW c \in Clients, StartMutation(c) PROVE IndexInv'
<1>1. PICK kind \in Does[c] \cap {"add", "remove", "move", "scan"},
           id \in 1 .. MaxRows, to \in Paths :
        op' = [op EXCEPT ![c] = [NoOp EXCEPT !.kind = kind, !.id = id, !.to = to]]
  BY DEF StartMutation
<1> DEFINE o == [NoOp EXCEPT !.kind = kind, !.id = id, !.to = to]
<1>2. op' = [op EXCEPT ![c] = o] /\ o.content = Absent /\ Mode[c] = "write"
  BY <1>1, Changers DEF NoOp
<1>3. /\ pc[c] = "held" /\ pc' = [pc EXCEPT ![c] = "recover"]
      /\ UNCHANGED <<folder, txn, rows, index, version>> /\ HarmKept
  BY DEF StartMutation, Goto, files, data, HarmKept
<1>4. IndexPhase(c)'
  BY <1>3 DEF IndexPhase, LibInv, Types
<1> HIDE DEF o
<1> QED
  BY <1>2, <1>3, <1>4, StartIndex

LEMMA StartWriteIndex ==
  ASSUME LibInv, RowInv, IndexInv, NEW c \in Clients, StartWrite(c) PROVE IndexInv'
<1>1. PICK kind \in Does[c] \cap {"write", "replace"}, id \in 1 .. MaxRows :
        /\ Resolves(id)
        /\ op' = [op EXCEPT ![c] = [NoOp EXCEPT !.kind = kind, !.id = id,
                            !.content = folder[Row(id).path].content]]
        /\ Goto(c, IF kind = "replace" /\ folder[Row(id).path].kind = "file"
                   THEN "pretouch" ELSE "change")
  BY DEF StartWrite
<1> DEFINE x == folder[Row(id).path].content
           o == [NoOp EXCEPT !.kind = kind, !.id = id, !.content = x]
<1>2. op' = [op EXCEPT ![c] = o] /\ Mode[c] = "write"
      /\ o.kind = kind /\ o.id = id /\ o.content = x
  BY <1>1, Changers DEF NoOp
<1>3. pc[c] = "held" /\ UNCHANGED <<folder, txn, rows, index, version>> /\ HarmKept
  BY DEF StartWrite, Unrecovered, files, data, HarmKept
<1>4. x \in Stored
  BY <1>1 DEF Resolves, ListedPaths, Stored, At
<1>5. PICK l \in {"pretouch", "change"} :
        /\ pc' = [pc EXCEPT ![c] = l]
        /\ l = "change" => ~(kind = "replace" /\ folder[Row(id).path].kind = "file")
  BY <1>1 DEF Goto
<1>6. IndexPhase(c)'
  <2>1. pc'[c] = l /\ op'[c] = o
    BY <1>2, <1>5 DEF LibInv, Types
  <2>2. Target(c)' = Row(id).path
    BY <1>2, <1>3, <2>1 DEF Target, Row
  <2> HIDE DEF o
  <2> QED
    BY <1>2, <1>3, <1>5, <2>1, <2>2 DEF IndexPhase
<1> HIDE DEF o
<1> QED
  BY <1>2, <1>3, <1>4, <1>5, <1>6, StartIndex

LEMMA StartRebuildIndex ==
  ASSUME LibInv, IndexInv, NEW c \in Clients, StartRebuild(c)
  PROVE  IndexInv'
<1> DEFINE o == [op[c] EXCEPT !.kind = "rebuild"]
<1>1. o.content = op[c].content
  BY DEF LibInv, Types, OpType
<1>2. /\ op' = [op EXCEPT ![c] = o] /\ Mode[c] = "write"
      /\ pc[c] = "held" /\ pc' = [pc EXCEPT ![c] = "prepare"]
      /\ UNCHANGED <<folder, txn, rows, index, version>> /\ HarmKept
  BY Changers DEF StartRebuild, Goto, files, data, HarmKept
<1>3. IndexPhase(c)'
  BY <1>2 DEF IndexPhase, LibInv, Types
<1>4. o.content \in Stored
  BY <1>1 DEF Stored
<1> HIDE DEF o
<1> QED
  BY <1>2, <1>3, <1>4, StartIndex

LEMMA PrepareIndexKeeps ==
  ASSUME LibInv, RowInv, IndexInv, NEW c \in Clients, PrepareIndex(c) PROVE IndexInv'
<1>1. /\ pc[c] = "prepare" /\ pc[c] \notin Outsiders /\ index'.status = "dirty"
      /\ pc' = [pc EXCEPT ![c] = "build"] /\ pc'[c] = "build"
      /\ UNCHANGED <<rows, folder, txn, version, op>>
  BY DEF PrepareIndex, Goto, files, Outsiders, LibInv, Types
<1>2. IndexPhase(c)'
  BY <1>1 DEF IndexPhase, IndexInv
<1>3. Stored' = Stored
  BY <1>1 DEF Stored, At
<1> QED
  BY <1>1, <1>2, <1>3, NotCurrent

\* What is built is what every archive that can be opened contains, unless a
\* transaction is still to be recovered.
LEMMA BuildIndexKeeps ==
  ASSUME LibInv, RowInv, IndexInv, NEW c \in Clients, BuildIndex(c) PROVE IndexInv'
<1>1. /\ pc[c] = "build" /\ pc[c] \notin Outsiders
      /\ pc' = [pc EXCEPT ![c] = "release"] /\ pc'[c] = "release"
      /\ UNCHANGED <<rows, folder, txn, version, op>>
  BY DEF BuildIndex, Goto, files, Outsiders, LibInv, Types
<1>2. Aged'
  BY <1>1 DEF Aged, Stored, At, IndexInv
<1>3. IndexPhase(c)'
  BY <1>1 DEF IndexPhase
<1>4. IndexTrue'
  <2>1. CASE index' = index
    <3>1. \A d \in Clients : DirtyWindow(d) => DirtyWindow(d)'
      BY <1>1, <2>1 DEF DirtyWindow, LibInv, Types
    <3>2. \A r \in rows : Found(r)' => Found(r)
      BY <1>1 DEF Found, At
    <3>3. HarmKept
      BY DEF BuildIndex, Unrecovered, HarmKept
    <3> QED
      BY <1>1, <2>1, <3>1, <3>2, <3>3, IndexTrueKept DEF IndexInv
  <2>2. CASE index' # index
    <3> SUFFICES ASSUME NEW r \in rows, r.status = "present", Found(r),
                        "index" \notin harm'
                 PROVE  {e \in index'.entries : e[1] = r.id} = {<<r.id, r.token>>}
      BY <1>1 DEF IndexTrue, Found, At
    <3>1. /\ index'.entries = {<<s.id, s.token>> : s \in {s \in rows : Readable(s)}}
          /\ \A s \in rows : Readable(s) => s.token = TokenAt(s.path)
      BY <2>2 DEF BuildIndex
    <3>2. ~txn.exists
      BY <2>2 DEF BuildIndex, Unrecovered
    <3>3. r.token # Absent
      BY NoContents DEF RowInv, RowsOK, RowType
    <3>4. Readable(r)
      BY <3>2, <3>3 DEF Found, At, Readable, Exists
    <3>5. \A s \in rows : s.id = r.id => s = r
      BY DEF RowInv, RowsOK
    <3> QED
      BY <3>1, <3>4, <3>5
  <2> QED
    BY <2>1, <2>2
<1> QED
  BY <1>1, <1>2, <1>3, <1>4, Busy, IndexStep

-----------------------------------------------------------------------------
(* The index: failures, crashes, other programs *)

\* A step that leaves rows, index and transaction, and those at work, as they are.
LEMMA IndexOutside ==
  ASSUME IndexInv, UNCHANGED <<rows, index, txn>>,
         \A c \in Clients :
           \/ pc'[c] \in Outsiders
           \/ UNCHANGED folder /\ pc'[c] = pc[c] /\ op'[c] = op[c],
         HarmKept, Aged',
         Excused \/ (Unfound /\ \A c \in Clients : DirtyWindow(c) => DirtyWindow(c)')
  PROVE  IndexInv'
<1>1. IndexTrue'
  BY IndexTrueKept DEF IndexInv, Unfound
<1>2. ASSUME NEW c \in Clients PROVE IndexPhase(c)'
  <2>1. CASE pc'[c] \in Outsiders
    BY <2>1 DEF IndexPhase, Outsiders
  <2>2. CASE UNCHANGED folder /\ pc'[c] = pc[c] /\ op'[c] = op[c]
    <3>1. IndexPhase(c) /\ Target(c)' = Target(c)
      BY <2>2 DEF IndexInv, Target, Row
    <3> QED
      BY <2>2, <3>1 DEF IndexPhase
  <2> QED
    BY <1>2, <2>1, <2>2
<1> QED
  BY <1>1, <1>2 DEF IndexInv

\* What is stored stays, or an operation is over.
LEMMA NothingNew ==
  ASSUME LibInv, IndexInv, UNCHANGED <<rows, folder, txn, version>>,
         \A c \in Clients : op'[c] = op[c] \/ op'[c] = NoOp
  PROVE  Aged' /\ Unfound
<1>1. Stored' \subseteq Stored \cup {Absent, Partial, Absent}
  BY DEF Stored, At, NoOp
<1>2. version' \in Nat /\ version <= version' /\ Types /\ Aged
  BY LibraryAssumption DEF LibInv, Types, IndexInv
<1>3. Aged'
  BY <1>1, <1>2, NoContents, AgedStep
<1>4. Unfound
  BY DEF Unfound, Found, At
<1> QED
  BY <1>3, <1>4

LEMMA FailureIndex ==
  ASSUME LibInv, RowInv, IndexInv, NEW c \in Clients, Failure(c)
  PROVE  IndexInv'
<1>1. CASE FailFinalize(c)
  <2>1. /\ pc[c] \in {"touch", "refresh"} /\ pc[c] \notin Outsiders /\ ~DirtyWindow(c)
        /\ UNCHANGED <<rows, index, version, op, folder, txn>> /\ HarmKept
    BY <1>1 DEF FailFinalize, Outsiders, DirtyWindow, files, data, HarmKept
  <2>2. PICK l \in {"revert", "release"} :
          /\ pc' = [pc EXCEPT ![c] = l]
          /\ l = "revert" => op[c].kind = "replace" /\ folder[Target(c)].kind = "file"
    BY <1>1 DEF FailFinalize, Goto, Target
  <2>3. IndexPhase(c)'
    <3>1. IndexPhase(c) /\ pc'[c] = l
      BY <2>2 DEF LibInv, Types, IndexInv
    <3> QED
      BY <2>1, <2>2, <3>1 DEF IndexPhase
  <2>4. l \in Labels
    BY <2>2 DEF Labels, Changing, Outsiders
  <2> QED
    BY <2>1, <2>2, <2>3, <2>4, IndexControl
<1>2. CASE FailBegin(c) \/ FailMutation(c) \/ FailOther(c)
  <2>1. /\ pc[c] \notin Outsiders
        /\ UNCHANGED <<rows, index, version, op, folder>>
    BY <1>2 DEF FailBegin, FailMutation, FailOther, Outsiders, files, data
  <2>2. HarmKept /\ (Excused \/ ~DirtyWindow(c))
    <3>1. CASE FailBegin(c)
      BY <3>1 DEF FailBegin, HarmKept, DirtyWindow
    <3>2. CASE FailMutation(c) \/ FailOther(c)
      BY <2>1, <3>2 DEF FailMutation, FailOther, Interrupted, HarmKept, Excused
    <3> QED
      BY <1>2, <3>1, <3>2
  <2>3. PICK l \in {"undo", "release"} : pc' = [pc EXCEPT ![c] = l]
    BY <1>2 DEF FailBegin, FailMutation, FailOther, Goto
  <2>4. \/ txn'.backup = txn.backup /\ txn'.from = txn.from /\ txn'.exists = txn.exists
        \/ txn'.backup \in {Absent, Partial}
    BY <1>2 DEF FailBegin, FailMutation, FailOther, files, NoTxn
  <2>5. l \in Labels /\ IndexPhase(c)'
    <3>1. pc'[c] = l
      BY <2>3 DEF LibInv, Types
    <3> QED
      BY <2>3, <3>1 DEF IndexPhase, Labels, Recovering, Outsiders
  <2> QED
    BY <2>1, <2>2, <2>3, <2>4, <2>5, IndexControl
<1> QED
  BY <1>1, <1>2 DEF Failure

LEMMA CrashIndex ==
  ASSUME LibInv, IndexInv, NEW c \in Clients, Crash(c) PROVE IndexInv'
<1>1. /\ pc' = [pc EXCEPT ![c] = "dead"] /\ op' = [op EXCEPT ![c] = NoOp]
      /\ UNCHANGED <<rows, index, version, folder, txn>>
      /\ HarmKept /\ (Excused \/ ~DirtyWindow(c))
  BY DEF Crash, CrashClient, Goto, files, data, Interrupted, HarmKept, Excused,
         DirtyWindow, Outsiders
<1>2. /\ pc'[c] = "dead" /\ op'[c] = NoOp
      /\ \A d \in Clients \ {c} : pc'[d] = pc[d] /\ op'[d] = op[d]
  BY <1>1 DEF LibInv, Types
<1>3. Excused \/ \A d \in Clients : DirtyWindow(d) => DirtyWindow(d)'
  BY <1>1, <1>2 DEF DirtyWindow
<1>4. Aged' /\ Unfound
  BY <1>1, <1>2, NothingNew
<1> QED
  BY <1>1, <1>2, <1>3, <1>4, IndexOutside DEF Outsiders

LEMMA LockIndex ==
  ASSUME LibInv, IndexInv, Assumed, LibraryLockStep PROVE IndexInv'
<1>1. LockKept(Labels)
  BY LockStepKeeps DEF LibraryLockStep, LibInv, Types, Assumed, Labels, Outsiders
<1>2. /\ UNCHANGED <<rows, index, version, folder, txn>> /\ HarmKept
      /\ \A c \in Clients : op'[c] = op[c] \/ op'[c] = NoOp
  BY DEF LibraryLockStep, files, data, HarmKept
<1>3. \A c \in Clients : pc[c] \notin Outsiders => pc'[c] = pc[c] /\ op'[c] = op[c]
  BY <1>1 DEF LockKept, Holding, Outsiders, LibraryLockStep
<1>4. \A c \in Clients : pc[c] \in Outsiders => pc'[c] \in Outsiders
  BY <1>1 DEF LockKept, Outsiders
<1>5. \A c \in Clients : DirtyWindow(c) => DirtyWindow(c)'
  BY <1>2, <1>3 DEF DirtyWindow, Outsiders
<1>6. Aged' /\ Unfound
  BY <1>2, NothingNew
<1> QED
  BY <1>2, <1>3, <1>4, <1>5, <1>6, IndexOutside

LEMMA StutterIndex ==
  ASSUME LibInv, IndexInv, UNCHANGED vars PROVE IndexInv'
<1>1. UNCHANGED <<rows, index, version, folder, txn, op, pc>> /\ HarmKept
  BY DEF vars, lock, files, data, HarmKept
<1>2. Aged' /\ Unfound
  BY <1>1, NothingNew
<1> QED
  BY <1>1, <1>2, IndexOutside DEF DirtyWindow

LEMMA QueryIndex ==
  ASSUME LibInv, IndexInv, NEW c \in Clients,
         \/ Query(c) \/ EndQuery(c)
         \/ Finish(c) /\ UNCHANGED <<files, data, op, truth, harm>>
  PROVE  IndexInv'
<1>1. /\ pc[c] \in Outsiders /\ HarmKept
      /\ UNCHANGED <<rows, index, version, folder, txn, op>>
  BY DEF Query, EndQuery, Finish, files, data, Outsiders, HarmKept
<1>2. PICK l \in {"query", "release"} : pc' = [pc EXCEPT ![c] = l]
  BY DEF Query, EndQuery, Finish, Goto
<1>3. pc'[c] \in Outsiders /\ \A d \in Clients \ {c} : pc'[d] = pc[d]
  BY <1>2 DEF LibInv, Types, Outsiders
<1>4. \A d \in Clients : DirtyWindow(d) => DirtyWindow(d)'
  BY <1>1, <1>3 DEF DirtyWindow, Outsiders
<1>5. Aged' /\ Unfound
  BY <1>1, NothingNew
<1> QED
  BY <1>1, <1>3, <1>4, <1>5, IndexOutside

LEMMA CleanIndexKeeps ==
  ASSUME LibInv, IndexInv, NEW c \in Clients, CleanIndex(c) PROVE IndexInv'
<1>1. /\ pc[c] = "held" /\ Holding(c) /\ Mode[c] = "write"
      /\ pc' = [pc EXCEPT ![c] = "release"] /\ pc'[c] = "release"
      /\ UNCHANGED <<rows, version, folder, txn, op>> /\ index'.status = "missing"
  BY Changers DEF CleanIndex, Goto, Holding, files, LibInv, Types
<1>2. Aged'
  BY <1>1, NothingNew
<1>3. IndexTrue' /\ IndexPhase(c)'
  BY <1>1 DEF IndexTrue, IndexPhase
<1> QED
  BY <1>1, <1>2, <1>3, IndexStep

\* Nothing that other programs do makes the content of a row be found, unless it
\* spoils the index.
LEMMA OutsideProgramIndex ==
  ASSUME LibInv, RowInv, IndexInv, OutsideRename \/ OutsideWrite PROVE IndexInv'
<1>1. /\ Undisturbed /\ UNCHANGED <<rows, index, op, txn, pc>> /\ HarmKept
  BY DEF OutsideRename, OutsideWrite, data, lock, Arrives, HarmKept
<1>2. \A c \in Clients : pc[c] \in Outsiders
  BY <1>1, Busy, LockAssumption DEF Undisturbed
<1>3. CASE OutsideRename
  <2>1. PICK p \in Paths, q \in Paths :
          /\ Exists(p) /\ ~Exists(q)
          /\ Arrives(TokenAt(p), q)
          /\ folder' = [folder EXCEPT ![q] = folder[p], ![p] = NoEntry]
    BY <1>3 DEF OutsideRename
  <2>2. /\ At(p)' = Absent /\ At(q)' = At(p)
        /\ \A s \in Paths \ {p, q} : At(s)' = At(s)
    BY <2>1 DEF LibInv, Types, FolderType, NoEntry, Entry, At, Exists
  <2>3. Excused \/ Unfound
    <3> SUFFICES ASSUME NEW r \in rows, Found(r)', ~Excused PROVE Found(r)
      BY DEF Unfound
    <3>1. r.path \in Paths /\ r.token # Absent
      BY NoContents DEF RowInv, RowsOK, RowType
    <3>2. ~(r.path = q /\ r.token = At(p))
      BY <2>1 DEF TokenAt, At, Arrives, Excused
    <3> QED
      BY <1>1, <2>2, <3>1, <3>2 DEF Found
  <2>4. Aged'
    <3>1. Stored' \subseteq Stored \cup {Absent, Partial, Absent}
      BY <1>1, <2>2 DEF Stored
    <3>2. version' \in Nat /\ version <= version' /\ Types /\ Aged
      BY <1>3, LibraryAssumption DEF LibInv, Types, IndexInv, OutsideRename, data
    <3> QED
      BY <3>1, <3>2, NoContents, AgedStep
  <2> QED
    BY <1>1, <1>2, <2>3, <2>4, IndexOutside DEF DirtyWindow
<1>4. CASE OutsideWrite
  <2>1. PICK p, x :
          /\ p \in Paths /\ x[2] = version + 1
          /\ version' = version + 1 /\ PutContent(p, x)
    <3>1. PICK p \in Paths : PutContent(p, <<folder[p].content[1], version + 1>>)
      BY <1>4 DEF OutsideWrite
    <3> DEFINE y == <<folder[p].content[1], version + 1>>
    <3>2. y[2] = version + 1 /\ version' = version + 1 /\ PutContent(p, y)
      BY <1>4, <3>1 DEF OutsideWrite
    <3> HIDE DEF y
    <3> QED
      BY <3>2
  <2>2. Aged' /\ Unfound
    BY <1>1, <2>1, NewEntry
  <2> QED
    BY <1>1, <1>2, <2>2, IndexOutside DEF DirtyWindow
<1> QED
  BY <1>3, <1>4

-----------------------------------------------------------------------------
(* Queries *)

Queried == \A c \in Clients : pc[c] = "query" => index.status = "current"

\* Who is at work does not go on to query, and nobody else queries meanwhile.
LEMMA WorkQueried ==
  ASSUME LibInv, NEW c \in Clients, pc[c] \notin Outsiders,
         NEW l, l # "query", pc' = [pc EXCEPT ![c] = l]
  PROVE  Queried'
<1>1. \A d \in Clients \ {c} : pc[d] # "query"
  BY Busy DEF Holding
<1>2. \A d \in Clients : pc'[d] # "query"
  BY <1>1 DEF LibInv, Types
<1> QED
  BY <1>2 DEF Queried

\* Nobody comes to query, and the index stays.
LEMMA StayQueried ==
  ASSUME Queried, index' = index, \A c \in Clients : pc'[c] = "query" => pc[c] = "query"
  PROVE  Queried'
BY DEF Queried

LEMMA MembershipQueried ==
  ASSUME LibInv, NEW c \in Clients, Membership(c) PROVE Queried'
<1>1. pc[c] \in Transacting \cup {"begin", "dirty"} /\ pc[c] \notin Outsiders
  BY DEF Membership, Refuse, BeginAdd, BeginChange, BeginMigration, CreateRecord,
         WriteRecord, CreateBackup, CopyBackup, DropSource, ExtractTarget,
         MarkPublished, UpdateRow, MarkDirty, Outsiders, Transacting
<1>2. PICK l : pc' = [pc EXCEPT ![c] = l] /\ l # "query"
  <2>1. CASE DropSource(c)
    <3>1. pc[c] = "drop" /\ txn.kind \in {"remove", "migrate", "move"}
      <4>1. pc[c] = "drop" /\ Transaction(c) /\ TxnShape
        BY <2>1 DEF DropSource, LibInv, Phase, Transacting
      <4> QED
        BY <4>1 DEF Transaction
    <3> QED
      BY <2>1, <3>1 DEF DropSource, Goto, LibInv, Types
  <2>2. CASE ExtractTarget(c)
    <3>1. pc' = [pc EXCEPT ![c] = "mark"] \/ pc' = [pc EXCEPT ![c] = "extract"]
      BY <2>2 DEF ExtractTarget, Goto, LibInv, Types
    <3> QED
      BY <3>1
  <2>3. CASE Refuse(c) \/ BeginAdd(c) \/ BeginChange(c) \/ BeginMigration(c)
    BY <2>3 DEF Refuse, BeginAdd, BeginChange, BeginMigration, Begin, Goto
  <2>4. CASE CreateRecord(c) \/ WriteRecord(c) \/ CreateBackup(c) \/ CopyBackup(c)
    BY <2>4 DEF CreateRecord, WriteRecord, CreateBackup, CopyBackup, Goto
  <2>5. CASE MarkPublished(c) \/ UpdateRow(c) \/ MarkDirty(c)
    BY <2>5 DEF MarkPublished, UpdateRow, MarkDirty, Goto
  <2> QED
    BY <2>1, <2>2, <2>3, <2>4, <2>5 DEF Membership
<1> QED
  BY <1>1, <1>2, WorkQueried

LEMMA RecoveryQueried ==
  ASSUME LibInv, NEW c \in Clients, Recovery(c) PROVE Queried'
<1>1. pc[c] \notin Outsiders
  BY RecoveryLabels DEF Recovering, Outsiders
<1>2. PICK l \in Recovering \cup {"release", "begin", "finish"} :
        pc' = [pc EXCEPT ![c] = l]
  BY RecoveryLabels
<1> QED
  BY <1>1, <1>2, WorkQueried DEF Recovering

LEMMA WritingQueried ==
  ASSUME LibInv, Queried, NEW c \in Clients,
         StartMutation(c) \/ ScanRows(c) \/ Writing(c)
  PROVE  Queried'
<1>1. CASE StartMutation(c)
  BY <1>1, StayQueried DEF StartMutation, Goto, LibInv, Types, data
<1>2. CASE StartWrite(c)
  <2>1. PICK l \in {"pretouch", "change"} : pc' = [pc EXCEPT ![c] = l]
    BY <1>2 DEF StartWrite, Goto
  <2> QED
    BY <1>2, <2>1, StayQueried DEF StartWrite, LibInv, Types, data
<1>3. CASE ScanRows(c) \/ ChangeContent(c) \/ Touch(c) \/ Refresh(c) \/ Revert(c)
  <2>1. pc[c] \notin Outsiders
    BY <1>3 DEF ScanRows, ChangeContent, Touch, Refresh, Revert, Outsiders
  <2>2. PICK l \in {"dirty", "touch", "change", "refresh", "rerefresh", "release",
                    "retouch"} : pc' = [pc EXCEPT ![c] = l]
    BY <1>3 DEF ScanRows, ChangeContent, Touch, Refresh, Revert, Goto
  <2> QED
    BY <2>1, <2>2, WorkQueried
<1> QED
  BY <1>1, <1>2, <1>3 DEF Writing

LEMMA IndexingQueried ==
  ASSUME LibInv, Queried, NEW c \in Clients, Indexing(c) \/ Reject(c)
  PROVE  Queried'
<1>1. CASE StartRebuild(c) \/ EndQuery(c) \/ Reject(c)
  <2>1. index' = index
    BY <1>1 DEF StartRebuild, EndQuery, Reject, data
  <2>2. PICK l \in {"prepare", "release"} : pc' = [pc EXCEPT ![c] = l]
    BY <1>1 DEF StartRebuild, EndQuery, Reject, Finish, Goto
  <2> QED
    BY <2>1, <2>2, StayQueried DEF LibInv, Types
<1>2. CASE PrepareIndex(c) \/ BuildIndex(c)
  <2>1. pc[c] \notin Outsiders
    BY <1>2 DEF PrepareIndex, BuildIndex, Outsiders
  <2>2. PICK l \in {"build", "release"} : pc' = [pc EXCEPT ![c] = l]
    BY <1>2 DEF PrepareIndex, BuildIndex, Goto
  <2> QED
    BY <2>1, <2>2, WorkQueried
<1>3. CASE CleanIndex(c)
  <2>1. Holding(c) /\ Mode[c] = "write" /\ pc' = [pc EXCEPT ![c] = "release"]
    BY <1>3, Changers DEF CleanIndex, Holding, Goto
  <2>2. \A d \in Clients \ {c} : pc[d] # "query"
    BY <2>1, WriterAlone DEF LibInv, Holding
  <2> QED
    BY <2>1, <2>2 DEF Queried, LibInv, Types
<1>4. CASE Query(c)
  <2>1. index' = index
    BY <1>4 DEF Query, data
  <2>2. CASE index.status = "current"
    BY <2>1, <2>2 DEF Queried
  <2>3. CASE index.status # "current"
    BY <1>4, <2>1, <2>3, StayQueried DEF Query, Goto, LibInv, Types
  <2> QED
    BY <2>2, <2>3
<1> QED
  BY <1>1, <1>2, <1>3, <1>4 DEF Indexing

LEMMA FailureQueried ==
  ASSUME LibInv, Queried, NEW c \in Clients, Failure(c) \/ Crash(c) PROVE Queried'
<1>1. index' = index
  BY DEF Failure, FailBegin, FailMutation, FailOther, FailFinalize, Crash, data
<1>2. PICK l \in {"undo", "revert", "release", "dead"} : pc' = [pc EXCEPT ![c] = l]
  BY DEF Failure, FailBegin, FailMutation, FailOther, FailFinalize, Crash,
         CrashClient, Goto
<1> QED
  BY <1>1, <1>2, StayQueried DEF LibInv, Types

LEMMA QueriedNext ==
  ASSUME Assumed, LibInv, Queried, [Next]_vars PROVE Queried'
<1>1. CASE LibraryLockStep
  <2>1. LockKept(Labels) /\ index' = index
    BY <1>1, LockStepKeeps
       DEF LibraryLockStep, LibInv, Types, Assumed, Labels, Outsiders, data
  <2>2. \A c \in Clients : pc'[c] = "query" => pc[c] = "query"
    BY <2>1 DEF LockKept, Holding
  <2> QED
    BY <2>1, <2>2, StayQueried
<1>2. CASE \/ OutsideRename \/ OutsideWrite \/ AllSpent \/ UNCHANGED vars
  BY <1>2, StayQueried
     DEF OutsideRename, OutsideWrite, AllSpent, Spent, vars, data, lock
<1> QED
  BY <1>1, <1>2, MembershipQueried, RecoveryQueried, WritingQueried, IndexingQueried,
     FailureQueried DEF Next

-----------------------------------------------------------------------------
(* A current index is true *)

LEMMA IndexInit == Init => IndexInv /\ Queried
<1> SUFFICES ASSUME Init PROVE IndexInv /\ Queried
  OBVIOUS
<1>1. /\ rows = {NewRow(1, 1, <<1, 0>>, "present")} /\ version = 0
      /\ index = [status |-> "current", entries |-> {<<1, <<1, 0>>>>}]
      /\ \A p \in Paths : At(p) \in {<<1, 0>>, Absent}
      /\ txn.backup = Absent
      /\ \A c \in Clients : op[c].content = Absent /\ pc[c] = "idle"
  BY LibraryAssumption DEF Init, LockInit, Paths, Entry, NoEntry, At, NoTxn, NoOp
<1>2. Aged
  <2>1. Stored \subseteq {<<1, 0>>, Absent}
    BY <1>1 DEF Stored, NewRow
  <2> QED
    BY <1>1, <2>1, NoContents DEF Aged
<1>3. IndexTrue
  <2> SUFFICES ASSUME NEW r \in rows
               PROVE  {e \in index.entries : e[1] = r.id} = {<<r.id, r.token>>}
    BY DEF IndexTrue
  <2>1. r.id = 1 /\ r.token = <<1, 0>>
    BY <1>1 DEF NewRow
  <2> QED
    BY <1>1, <2>1
<1>4. (\A c \in Clients : IndexPhase(c)) /\ Queried
  BY <1>1 DEF IndexPhase, Queried
<1> QED
  BY <1>2, <1>3, <1>4 DEF IndexInv

LEMMA IndexNext ==
  ASSUME Assumed, LibInv, RowInv, IndexInv, [Next]_vars
  PROVE  IndexInv'
<1>1. CASE LibraryLockStep
  BY <1>1, LockIndex
<1>2. ASSUME NEW c \in Clients, Reject(c) \/ Indexing(c) PROVE IndexInv'
  BY <1>2, QueryIndex, CleanIndexKeeps, StartRebuildIndex, PrepareIndexKeeps,
     BuildIndexKeeps DEF Reject, Indexing
<1>3. ASSUME NEW c \in Clients, StartMutation(c) \/ Recovery(c) PROVE IndexInv'
  BY <1>3, StartMutationIndex, RecoveryIndex
<1>4. ASSUME NEW c \in Clients, Membership(c) \/ ScanRows(c) PROVE IndexInv'
  BY <1>4, MembershipIndex, ScanningIndex
<1>5. ASSUME NEW c \in Clients, Writing(c) PROVE IndexInv'
  BY <1>5, StartWriteIndex, ChangeIndex, TouchIndex, RefreshIndex, RevertIndex
     DEF Writing
<1>6. ASSUME NEW c \in Clients, Failure(c) \/ Crash(c) PROVE IndexInv'
  BY <1>6, FailureIndex, CrashIndex
<1>7. CASE OutsideRename \/ OutsideWrite
  BY <1>7, OutsideProgramIndex
<1>8. CASE AllSpent \/ UNCHANGED vars
  BY <1>8, StutterIndex DEF AllSpent, Spent, vars
<1> QED
  BY <1>1, <1>2, <1>3, <1>4, <1>5, <1>6, <1>7, <1>8 DEF Next

\* A query that found the index current sees exactly the content of every archive
\* it can open, whatever was interrupted, written, renamed or rebuilt, as long as
\* none of it is in `harm`: an interruption between new rows and the mark on the
\* index, a build over a transaction that is not recovered, an archive that comes
\* back to where its row has stayed, a step that costs an archive.
THEOREM QueryCurrentTheorem == ASSUME Assumed PROVE Spec => []QueryCurrent
<1>1. Init => IndexInv /\ Queried
  BY IndexInit
<1>2. /\ LibInv /\ RowInv /\ IndexInv /\ Queried /\ [Next]_vars
      => IndexInv' /\ Queried'
  BY IndexNext, QueriedNext
<1>3. (Safe => LibInv /\ RowInv) /\ (Safe => IndexInv /\ Queried) => QueryCurrent
  <2> SUFFICES ASSUME LibInv, IndexInv, Queried, NEW c \in Clients, pc[c] = "query",
                      harm = {}, NEW r \in rows, Readable(r), r.token = TokenAt(r.path)
               PROVE  {e \in index.entries : e[1] = r.id} = {<<r.id, r.token>>}
    BY DEF QueryCurrent, Safe
  <2>1. index.status = "current" /\ r.status = "present" /\ Found(r)
    BY DEF Queried, Readable, Found, At, TokenAt
  <2>2. \A d \in Clients : ~DirtyWindow(d)
    <3>1. ASSUME NEW d \in Clients, pc[d] = "dirty" PROVE FALSE
      <4>1. pc[d] \notin Outsiders /\ d # c
        BY <3>1 DEF Outsiders
      <4> QED
        BY <4>1, Busy DEF Holding
    <3> QED
      BY <3>1 DEF DirtyWindow
  <2> QED
    BY <2>1, <2>2 DEF IndexInv, IndexTrue
<1> QED
  BY <1>1, <1>2, <1>3, SafeBefore, RowInvariance, PTL DEF Spec

-----------------------------------------------------------------------------
(* The refinement: an operation on a library is atomic *)

Mapped == <<Recovered, Requested>>
AtomicStep == Atomic!Next \/ UNCHANGED Mapped

\* Where a client may be with a transaction that has not taken effect.
Staging == {"record", "fill", "backup", "copy", "drop", "extract", "mark"}

\* What each client is about to do, told by where it is.
LEMMA RequestOf ==
  ASSUME NEW c \in Clients
  PROVE  /\ pc[c] \in Outsiders => Requested[c] = Atomic!Out
         /\ pc[c] \in Staging =>
              Requested[c] = IF txn.kind # "migrate" /\ ~txn.published
                             THEN Asked(txn.kind, txn.from, txn.to, op[c].content)
                             ELSE Atomic!Idle
         /\ pc[c] \in {"pretouch", "change"} =>
              Requested[c] = Asked("change", Target(c), 0, Absent)
         /\ pc[c] = "revert" =>
              Requested[c] = Asked("restore", Target(c), 0, op[c].content)
         /\ pc[c] \notin Outsiders \cup Staging \cup {"pretouch", "change", "revert"} =>
              Requested[c] = Atomic!Idle
BY DEF Requested, Asking, Asked, Outsiders, Staging, Target, Atomic!Out, Atomic!Idle,
       Atomic!Request

LEMMA RequestNext ==
  ASSUME NEW c \in Clients
  PROVE  /\ pc'[c] \in Outsiders => Requested'[c] = Atomic!Out
         /\ pc'[c] \in Staging =>
              Requested'[c] = IF txn'.kind # "migrate" /\ ~txn'.published
                              THEN Asked(txn'.kind, txn'.from, txn'.to, op'[c].content)
                              ELSE Atomic!Idle
         /\ pc'[c] \in {"pretouch", "change"} =>
              Requested'[c] = Asked("change", Target(c)', 0, Absent)
         /\ pc'[c] = "revert" =>
              Requested'[c] = Asked("restore", Target(c)', 0, op'[c].content)
         /\ pc'[c] \notin Outsiders \cup Staging \cup {"pretouch", "change", "revert"} =>
              Requested'[c] = Atomic!Idle
BY DEF Requested, Asking, Asked, Outsiders, Staging, Target, Atomic!Out, Atomic!Idle,
       Atomic!Request

\* The kinds tell the requests apart.
LEMMA KindsDiffer ==
  /\ Atomic!Out # Atomic!Idle
  /\ \A kind, from, to, x :
       kind \notin {"out", "idle"} =>
         Asked(kind, from, to, x) \notin {Atomic!Out, Atomic!Idle}
  /\ \A kind, from, to, x :
       /\ Asked(kind, from, to, x).kind = kind /\ Asked(kind, from, to, x).from = from
       /\ Asked(kind, from, to, x).to = to /\ Asked(kind, from, to, x).content = x
BY DEF Asked, Atomic!Out, Atomic!Idle, Atomic!Request

\* Who is at work is not out.
LEMMA AtWork ==
  ASSUME LibInv, NEW c \in Clients, pc[c] \notin Outsiders
  PROVE  Requested[c] # Atomic!Out
<1>1. pc[c] \in Staging => txn.kind \in {"add", "remove", "move", "migrate"}
  BY Recorded1 DEF Staging, Transacting, LibInv, Types, TxnType
<1> QED
  BY <1>1, RequestOf, KindsDiffer

\* The step of a client with the write lock is about its own request.
LEMMA OwnStep ==
  ASSUME LibInv, NEW c \in Clients, Holding(c), Mode[c] = "write",
         NEW l, pc' = [pc EXCEPT ![c] = l]
  PROVE  /\ pc'[c] = l /\ Atomic!Alone(c)
         /\ Requested' = [Requested EXCEPT ![c] = Requested'[c]]
<1>1. pc'[c] = l /\ \A d \in Clients \ {c} : pc'[d] = pc[d]
  BY DEF LibInv, Types
<1>2. \A d \in Clients \ {c} : pc[d] \in Outsiders
  <2>1. \A d \in Clients \ {c} : ~Holding(d)
    BY WriterAlone DEF LibInv
  <2> QED
    BY <2>1 DEF Holding, Outsiders
<1>3. \A d \in Clients \ {c} : Requested[d] = Atomic!Out /\ Requested'[d] = Atomic!Out
  BY <1>1, <1>2, RequestOf, RequestNext
<1>4. /\ Requested = [d \in Clients |-> Requested[d]]
      /\ Requested' = [d \in Clients |-> Requested'[d]]
  BY DEF Requested
<1>5. Requested' = [Requested EXCEPT ![c] = Requested'[c]]
  BY <1>3, <1>4
<1> QED
  BY <1>1, <1>3, <1>5 DEF Atomic!Alone

\* Nothing comes of a request, or there was none.
LEMMA AbandonStep ==
  ASSUME LibInv, NEW c \in Clients, pc[c] \notin Outsiders,
         NEW l, pc' = [pc EXCEPT ![c] = l], Recovered' = Recovered,
         Requested'[c] \in {Atomic!Out, Atomic!Idle}
  PROVE  AtomicStep
<1>1. Requested' = [Requested EXCEPT ![c] = Requested'[c]]
  BY Busy, OwnStep
<1>2. Atomic!Abandon(c)
  BY <1>1, AtWork DEF Atomic!Abandon
<1> QED
  BY <1>2 DEF AtomicStep, Atomic!Next

\* A client goes on, or away, without a request.
LEMMA LeaveStep ==
  ASSUME LibInv, NEW c \in Clients, pc[c] \notin Outsiders,
         NEW l, pc' = [pc EXCEPT ![c] = l], Recovered' = Recovered,
         l \notin Staging \cup {"pretouch", "change", "revert"}
  PROVE  AtomicStep
<1>1. pc'[c] = l
  BY DEF LibInv, Types
<1>2. Requested'[c] \in {Atomic!Out, Atomic!Idle}
  BY <1>1, RequestNext
<1> QED
  BY <1>2, AbandonStep

\* A client goes on with its request.
LEMMA SameRequest ==
  ASSUME LibInv, NEW c \in Clients, pc[c] \notin Outsiders,
         NEW l, pc' = [pc EXCEPT ![c] = l], Recovered' = Recovered,
         Requested'[c] = Requested[c]
  PROVE  AtomicStep
<1>1. Requested' = [Requested EXCEPT ![c] = Requested[c]]
  BY Busy, OwnStep
<1>2. Requested' = Requested
  BY <1>1 DEF Requested
<1> QED
  BY <1>2 DEF AtomicStep, Mapped

LEMMA StagingStep ==
  ASSUME LibInv, NEW c \in Clients, pc[c] \in Staging,
         NEW l \in Staging, pc' = [pc EXCEPT ![c] = l], Recovered' = Recovered,
         UNCHANGED <<op, txn.kind, txn.from, txn.to, txn.published>>
  PROVE  AtomicStep
<1>1. pc'[c] = l
  BY DEF LibInv, Types
<1>2. Requested'[c] = Requested[c]
  BY <1>1, RequestOf, RequestNext
<1> QED
  BY <1>2, SameRequest DEF Staging, Outsiders

\* A client has something to do from now on.
LEMMA AskStep ==
  ASSUME LibInv, NEW c \in Clients, Holding(c), Mode[c] = "write",
         NEW l, pc' = [pc EXCEPT ![c] = l], Recovered' = Recovered,
         Requested[c] \in {Atomic!Out, Atomic!Idle},
         NEW r, Requested'[c] = r, Atomic!Possible(r)
  PROVE  AtomicStep
<1>1. Atomic!Alone(c) /\ Requested' = [Requested EXCEPT ![c] = Requested'[c]]
  BY OwnStep
<1>2. Atomic!Ask(c)
  BY <1>1 DEF Atomic!Ask
<1> QED
  BY <1>2 DEF AtomicStep, Atomic!Next

\* It is done.
LEMMA CommitStep ==
  ASSUME LibInv, NEW c \in Clients, pc[c] \notin Outsiders,
         NEW l, pc' = [pc EXCEPT ![c] = l],
         Requested[c] \notin {Atomic!Out, Atomic!Idle},
         Requested'[c] = Atomic!Idle, Atomic!Done(Requested[c])
  PROVE  AtomicStep
<1>1. Requested' = [Requested EXCEPT ![c] = Atomic!Idle]
  BY Busy, OwnStep
<1>2. Atomic!Commit(c)
  BY <1>1 DEF Atomic!Commit
<1> QED
  BY <1>2 DEF AtomicStep, Atomic!Next

LEMMA StartStep ==
  ASSUME LibInv, NEW c \in Clients, pc[c] = "held", Mode[c] = "write",
         NEW l \in {"recover", "prepare"}, pc' = [pc EXCEPT ![c] = l],
         Recovered' = Recovered
  PROVE  AtomicStep
<1>1. /\ pc'[c] = l /\ Atomic!Alone(c)
      /\ Requested' = [Requested EXCEPT ![c] = Requested'[c]]
  BY OwnStep DEF Holding
<1>2. Requested[c] = Atomic!Out /\ Requested'[c] = Atomic!Idle
  BY <1>1, RequestOf, RequestNext DEF Outsiders, Staging
<1>3. Atomic!Start(c)
  BY <1>1, <1>2 DEF Atomic!Start
<1> QED
  BY <1>3 DEF AtomicStep, Atomic!Next

\* Nothing happens to the library and to whoever is at work.
LEMMA ApartStep ==
  ASSUME LibInv, UNCHANGED <<folder, txn, rows, truth>>,
         \A d \in Clients : \/ pc[d] \in Outsiders /\ pc'[d] \in Outsiders
                            \/ pc'[d] = pc[d] /\ op'[d] = op[d]
  PROVE  AtomicStep
<1>1. Recovered' = Recovered
  BY FilesUnchanged
<1>2. ASSUME NEW d \in Clients PROVE Requested'[d] = Requested[d]
  <2>1. CASE pc[d] \in Outsiders /\ pc'[d] \in Outsiders
    BY <2>1, RequestOf, RequestNext
  <2>2. CASE pc'[d] = pc[d] /\ op'[d] = op[d]
    <3>1. Target(d)' = Target(d) /\ UNCHANGED <<txn.kind, txn.published>>
      BY <2>2 DEF Target, Row
    <3> QED
      BY <2>2, <3>1, RequestOf, RequestNext
  <2> QED
    BY <1>2, <2>1, <2>2
<1>3. Requested' = Requested
  BY <1>2 DEF Requested
<1> QED
  BY <1>1, <1>3 DEF AtomicStep, Mapped

\* What a recovery finishes or undoes has taken effect or never does.
LEMMA RecoveryRefines ==
  ASSUME LibInv, NEW c \in Clients, Recovery(c) PROVE AtomicStep
<1>1. pc[c] \notin Outsiders
  BY DEF Recovery, RejectRecord, DropUnrecorded, RollForward, RollBackTarget,
         RollBackRemoval, RollBackMigration, RestoreEntry, RemoveTxnPart, RemoveTxn,
         FinishRecovery, Outsiders, Decide, Restore
<1>2. Recovered' = Recovered
  <2>1. CASE RejectRecord(c) \/ DropUnrecorded(c) \/ FinishRecovery(c)
    BY <2>1, FilesUnchanged DEF RejectRecord, DropUnrecorded, FinishRecovery, files
  <2> QED
    BY <2>1, RollForwardKeeps, RollBackTargetKeeps, RollBackRemovalKeeps,
       RollBackMigrationKeeps, RestoreEntryKeeps, RemoveTxnPartKeeps, RemoveTxnKeeps
       DEF Recovery
<1>3. \E l : /\ pc' = [pc EXCEPT ![c] = l]
             /\ l \notin Staging \cup {"pretouch", "change", "revert"}
  <2>1. CASE RejectRecord(c) \/ DropUnrecorded(c) \/ FinishRecovery(c) \/ RemoveTxn(c)
    BY <2>1 DEF RejectRecord, DropUnrecorded, FinishRecovery, RemoveTxn, Goto, Staging
  <2>2. CASE RollForward(c) \/ RollBackTarget(c) \/ RollBackRemoval(c)
             \/ RollBackMigration(c)
    BY <2>2 DEF RollForward, RollBackTarget, RollBackRemoval, RollBackMigration, Goto,
                Staging, Decide, Restore, Untie
  <2>3. CASE RestoreEntry(c) \/ RemoveTxnPart(c)
    <3>1. pc[c] \in {"restore", "unrestore", "untie", "ununtie", "finish"}
      BY <2>3 DEF RestoreEntry, RemoveTxnPart, Restore, Decide
    <3>2. \/ pc' = [pc EXCEPT ![c] = pc[c]]
          \/ \E l \in {"untie", "ununtie"} : pc' = [pc EXCEPT ![c] = l]
      BY <2>3 DEF RestoreEntry, RemoveTxnPart, Goto, LibInv, Types
    <3> QED
      BY <3>1, <3>2 DEF Staging
  <2> QED
    BY <2>1, <2>2, <2>3, <1>1 DEF Recovery
<1> QED
  BY <1>1, <1>2, <1>3, LeaveStep

\* An addition, removal or move asks for what its transaction says.
LEMMA BeginAsks ==
  ASSUME LibInv, NEW c \in Clients, pc[c] = "begin",
         NEW kind \in {"add", "remove", "move"}, NEW from, NEW to, NEW x,
         Begin(c, kind, from, to, x), Recovered' = Recovered,
         Atomic!Possible(Asked(kind, from, to, x))
  PROVE  AtomicStep
<1>1. Holding(c) /\ Mode[c] = "write" /\ Requested[c] = Atomic!Idle
  BY Busy, RequestOf DEF Outsiders, Staging
<1>2. pc' = [pc EXCEPT ![c] = "record"] /\ pc'[c] = "record"
  BY DEF Begin, Goto, LibInv, Types
<1>3. op'[c].content = x
  BY DEF Begin, LibInv, Types, OpType
<1>4. txn'.kind = kind /\ txn'.from = from /\ txn'.to = to /\ ~txn'.published
  BY DEF Begin, NoTxn
<1>5. Requested'[c] = Asked(kind, from, to, x)
  BY <1>2, <1>3, <1>4, RequestNext DEF Staging
<1> QED
  BY <1>1, <1>2, <1>5, AskStep

LEMMA BeginRefines ==
  ASSUME LibInv, Assumed, NEW c \in Clients,
         BeginAdd(c) \/ BeginChange(c) \/ BeginMigration(c)
  PROVE  AtomicStep
<1>1. pc[c] = "begin" /\ pc[c] \notin Outsiders /\ Recovered' = Recovered
  BY BeginAddKeeps, BeginChangeKeeps, BeginMigrationKeeps
     DEF BeginAdd, BeginChange, BeginMigration, Outsiders
<1>2. ~Known
  BY <1>1, NoTxnType DEF LibInv, Phase, TxnShape, Known
<1>3. \A p \in Paths : Recovered[p] = At(p)
  BY <1>2 DEF Recovered, At
<1>4. \A p \in Paths : At(p) # Absent => At(p) \in Contents /\ truth[At(p)[1]] = At(p)
  BY <1>2, GoodFolder
<1>5. CASE BeginAdd(c)
  <2>1. PICK a \in Archives :
          truth[a] = "none" /\ Begin(c, "add", 0, op[c].to, <<a, version + 1>>)
    BY <1>5 DEF BeginAdd, IsNewArchive
  <2> DEFINE x == <<a, version + 1>>
             r == Asked("add", 0, op[c].to, x)
  <2>2. version + 1 \in 0 .. MaxVersion
    BY <1>5, LibraryAssumption DEF BeginAdd, LibInv, Types
  <2>3. x \in Contents /\ x[1] = a
    BY <2>2 DEF Contents
  <2>4. op[c].to \in Paths /\ At(op[c].to) = Absent
    BY <1>5 DEF BeginAdd, Refused, Exists, At, LibInv, Types
  <2>5. \A p \in Paths : At(p) # Absent => At(p)[1] # a
    BY <1>4, <2>1 DEF Assumed
  <2>6. r.kind = "add" /\ r.to = op[c].to /\ r.content = x
    BY DEF Asked
  <2> HIDE DEF x, r
  <2>7. Atomic!Possible(r)
    BY <1>3, <2>3, <2>4, <2>5, <2>6 DEF Atomic!Possible
  <2> QED
    BY <1>1, <2>1, <2>7, BeginAsks DEF x, r
<1>6. CASE BeginChange(c)
  <2> DEFINE path == Row(op[c].id).path
             kind == op[c].kind
             r == Asked(kind, path, op[c].to, At(path))
  <2>1. Begin(c, kind, path, op[c].to, At(path)) /\ kind \in {"remove", "move"}
    BY <1>6 DEF BeginChange, At
  <2>2. path \in Paths /\ At(path) # Absent
    BY <1>6 DEF BeginChange, Refused, Resolves, ListedPaths, Exists, At
  <2>3. kind = "move" => op[c].to \in Paths /\ At(op[c].to) = Absent
    BY <1>6 DEF BeginChange, Refused, Exists, At, LibInv, Types
  <2>4. /\ r.kind = kind /\ r.from = path /\ r.to = op[c].to /\ r.content = At(path)
    BY DEF Asked
  <2> HIDE DEF path, kind, r
  <2>5. Atomic!Possible(r)
    BY <1>3, <2>1, <2>2, <2>3, <2>4 DEF Atomic!Possible
  <2> QED
    BY <1>1, <2>1, <2>5, BeginAsks DEF r
<1>7. CASE BeginMigration(c)
  <2>1. PICK p \in ArchiveFiles : Begin(c, "migrate", p, p, folder[p].content)
    BY <1>7 DEF BeginMigration
  <2>2. /\ pc' = [pc EXCEPT ![c] = "record"] /\ pc'[c] = "record"
        /\ txn'.kind = "migrate"
    BY <2>1 DEF Begin, Goto, NoTxn, LibInv, Types
  <2>3. Requested'[c] = Atomic!Idle
    BY <2>2, RequestNext DEF Staging
  <2> QED
    BY <1>1, <2>2, <2>3, AbandonStep
<1> QED
  BY <1>5, <1>6, <1>7

\* The files of a transaction are not yet what was asked for.
LEMMA StagingRefines ==
  ASSUME LibInv, NEW c \in Clients,
         \/ CreateRecord(c) \/ WriteRecord(c) \/ CreateBackup(c) \/ CopyBackup(c)
         \/ DropSource(c) \/ ExtractTarget(c)
  PROVE  AtomicStep
<1>1. pc[c] \in Staging /\ pc[c] \notin Outsiders
  BY DEF CreateRecord, WriteRecord, CreateBackup, CopyBackup, DropSource,
         ExtractTarget, Staging, Outsiders
<1>2. Recovered' = Recovered
  BY CreateRecordKeeps, WriteRecordKeeps, CreateBackupKeeps, CopyBackupKeeps,
     DropSourceKeeps, ExtractTargetKeeps
<1>3. UNCHANGED <<op, txn.kind, txn.from, txn.to, txn.published>>
  BY DEF CreateRecord, WriteRecord, CreateBackup, CopyBackup, DropSource,
         ExtractTarget, data, LibInv, Types, TxnType
<1>4. \/ \E l \in Staging : pc' = [pc EXCEPT ![c] = l]
      \/ pc' = [pc EXCEPT ![c] = "row"]
  <2>1. txn.kind \in {"add", "remove", "move", "migrate"}
    BY <1>1, Recorded1 DEF Staging, Transacting, LibInv, Types, TxnType
  <2>2. pc' = [pc EXCEPT ![c] = pc[c]] \/ pc' # pc
    BY DEF LibInv, Types
  <2>3. CASE DropSource(c)
    <3>1. \/ pc' = pc
          \/ pc' = [pc EXCEPT ![c] = CASE txn.kind = "remove"  -> "mark"
                                       [] txn.kind = "migrate" -> "extract"
                                       [] txn.kind = "move"    -> "row"]
      BY <2>3 DEF DropSource, Goto
    <3>2. txn.kind # "add"
      BY <1>1, <2>3, Recorded1 DEF DropSource, Transaction, Staging, Transacting
    <3> QED
      BY <1>1, <2>1, <2>2, <3>1, <3>2 DEF Staging
  <2>4. CASE ~DropSource(c)
    BY <1>1, <2>2, <2>4 DEF CreateRecord, WriteRecord, CreateBackup, CopyBackup,
                            ExtractTarget, Goto, Staging
  <2> QED
    BY <2>3, <2>4
<1>5. CASE \E l \in Staging : pc' = [pc EXCEPT ![c] = l]
  BY <1>1, <1>2, <1>3, <1>5, StagingStep
<1>6. CASE pc' = [pc EXCEPT ![c] = "row"]
  BY <1>1, <1>2, <1>6, LeaveStep DEF Staging
<1> QED
  BY <1>4, <1>5, <1>6

\* A contents function and one changed at some of its paths.
LEMMA RecoveredFunction ==
  /\ Recovered = [p \in Paths |-> Recovered[p]]
  /\ Recovered' = [p \in Paths |-> Recovered'[p]]
BY DEF Recovered

\* The file `published` makes a transaction take effect.
LEMMA MarkPublishedRefines ==
  ASSUME LibInv, NEW c \in Clients, MarkPublished(c) PROVE AtomicStep
<1> DEFINE x == op[c].content
           from == txn.from
           to == txn.to
<1>1. /\ pc[c] = "mark" /\ pc[c] \notin Outsiders
      /\ \E l \in {"drop", "finish", "row"} : pc' = [pc EXCEPT ![c] = l]
  <2>1. txn.kind \in {"add", "remove", "move", "migrate"}
    BY Recorded1 DEF MarkPublished, Transacting, LibInv, Types, TxnType
  <2> QED
    BY <2>1 DEF MarkPublished, Goto, Outsiders
<1>2. PICK l \in {"drop", "finish", "row"} : pc' = [pc EXCEPT ![c] = l]
  BY <1>1
<1>3. pc'[c] = l /\ txn'.published
  BY <1>2 DEF LibInv, Types, MarkPublished, TxnType
<1>4. Requested'[c] = Atomic!Idle
  BY <1>3, RequestNext DEF Staging, Outsiders
<1>5. ~txn.published /\ txn.kind \in {"add", "remove", "move", "migrate"}
  BY <1>1, Recorded1 DEF Transaction, Transacting, LibInv, Types, TxnType
<1>6. Publication(c)
  BY PublicationLemma
<1>7. CASE txn.kind = "migrate"
  <2>1. Recovered' = Recovered
    BY <1>6, <1>7, RecoveredFunction DEF Publication
  <2> QED
    BY <1>1, <1>2, <1>4, <2>1, AbandonStep
<1>8. CASE txn.kind # "migrate"
  <2>1. Requested[c] = Asked(txn.kind, from, to, x)
    BY <1>1, <1>5, <1>8, RequestOf DEF Staging
  <2>2. Requested[c] \notin {Atomic!Out, Atomic!Idle}
    BY <1>5, <2>1, KindsDiffer
  <2>3. Atomic!Done(Requested[c])
    <3> DEFINE r == Asked(txn.kind, from, to, x)
    <3>1. r.kind = txn.kind /\ r.from = from /\ r.to = to /\ r.content = x
      BY DEF Asked
    <3> HIDE DEF r, x, from, to
    <3>2. CASE txn.kind = "add"
      <4>1. Recovered' = [Recovered EXCEPT ![to] = x]
        BY <1>6, <3>2, RecoveredFunction DEF Publication, to, x
      <4> QED
        BY <2>1, <3>1, <3>2, <4>1 DEF Atomic!Done, r
    <3>3. CASE txn.kind = "remove"
      <4>1. Recovered' = [Recovered EXCEPT ![from] = Absent]
        BY <1>6, <3>3, RecoveredFunction DEF Publication, from
      <4> QED
        BY <2>1, <3>1, <3>3, <4>1 DEF Atomic!Done, r
    <3>4. CASE txn.kind = "move"
      <4>1. Recovered' = [Recovered EXCEPT ![from] = Absent, ![to] = x]
        BY <1>6, <3>4, RecoveredFunction DEF Publication, from, to, x
      <4> QED
        BY <2>1, <3>1, <3>4, <4>1 DEF Atomic!Done, r
    <3> QED
      BY <1>5, <1>8, <3>2, <3>3, <3>4
  <2> QED
    BY <1>1, <1>2, <1>4, <2>2, <2>3, CommitStep
<1> QED
  BY <1>7, <1>8

\* The rows and the index are no part of what was asked for.
LEMMA BookkeepingRefines ==
  ASSUME LibInv, NEW c \in Clients,
         \/ Refuse(c) \/ UpdateRow(c) \/ MarkDirty(c) \/ ScanRows(c) \/ Refresh(c)
         \/ PrepareIndex(c) \/ BuildIndex(c)
  PROVE  AtomicStep
<1>1. /\ pc[c] \notin Outsiders
      /\ \E l \in {"release", "dirty", "finish", "build"} : pc' = [pc EXCEPT ![c] = l]
  BY DEF Refuse, UpdateRow, MarkDirty, ScanRows, Refresh, PrepareIndex, BuildIndex,
         Goto, Outsiders
<1>2. UNCHANGED <<folder, txn, truth>>
  BY DEF Refuse, UpdateRow, MarkDirty, ScanRows, Refresh, PrepareIndex, BuildIndex,
         files
<1> QED
  BY <1>1, <1>2, FilesUnchanged, LeaveStep DEF Staging

\* An archive in its place: which one, and what recovery leaves there.
LEMMA InPlace ==
  ASSUME LibInv, NEW c \in Clients, pc[c] \in Changing
  PROVE  /\ pc[c] \notin Outsiders /\ ~Known
         /\ Target(c) \in Paths /\ Recovered[Target(c)] = At(Target(c))
         /\ At(Target(c)) \in Contents /\ At(Target(c)) # Absent
         /\ op[c].content \in Contents /\ op[c].content[1] = At(Target(c))[1]
<1>1. /\ Target(c) \in Paths /\ {At(Target(c)), op[c].content} \subseteq Contents
      /\ ~txn.exists /\ At(Target(c))[1] = op[c].content[1]
  BY DEF LibInv, Phase
<1>2. pc[c] \notin Outsiders /\ ~Known
  BY <1>1, NoTxnType DEF Changing, Outsiders, LibInv, TxnShape, Known
<1> QED
  BY <1>1, <1>2, ContentPair DEF Recovered, At

\* A new content at one path.
LEMMA PutRecovers ==
  ASSUME LibInv, ~Known, UNCHANGED txn, NEW p \in Paths,
         NEW y \in Contents \cup {Absent, Partial},
         folder' = [folder EXCEPT ![p].content = y]
  PROVE  Recovered' = [Recovered EXCEPT ![p] = y]
<1>1. At(p)' = y /\ \A q \in Paths \ {p} : At(q)' = At(q)
  BY EntryPut DEF LibInv
<1>2. ~Known'
  BY KnownUnchanged
<1>3. \A q \in Paths : Recovered[q] = At(q) /\ Recovered'[q] = At(q)'
  BY <1>2 DEF Recovered, At
<1> QED
  BY <1>1, <1>3, RecoveredFunction

LEMMA PutRefines ==
  ASSUME LibInv, NEW c \in Clients, ChangeContent(c) \/ Revert(c) PROVE AtomicStep
<1> DEFINE p == Target(c)
           y == IF pc[c] = "change" THEN <<op[c].content[1], version + 1>>
                ELSE op[c].content
<1>1. /\ pc[c] \in {"change", "revert"} /\ pc[c] \in Changing
      /\ \E l \in {"touch", "retouch"} : pc' = [pc EXCEPT ![c] = l]
  BY DEF ChangeContent, Revert, Goto, Changing
<1>2. PICK l \in {"touch", "retouch"} : pc' = [pc EXCEPT ![c] = l]
  BY <1>1
<1>3. /\ pc[c] \notin Outsiders /\ ~Known
      /\ p \in Paths /\ Recovered[p] = At(p) /\ At(p) \in Contents /\ At(p) # Absent
      /\ op[c].content \in Contents /\ op[c].content[1] = At(p)[1]
  BY <1>1, InPlace
<1>4. y \in Contents /\ y[1] = At(p)[1]
  <2>1. CASE pc[c] = "change"
    <3>1. ChangeContent(c)
      BY <2>1 DEF Revert
    <3>2. version + 1 \in 0 .. MaxVersion
      BY <3>1, LibraryAssumption DEF ChangeContent, LibInv, Types
    <3> QED
      BY <1>3, <2>1, <3>2, ContentPair DEF Contents
  <2>2. CASE pc[c] # "change"
    BY <1>3, <2>2
  <2> QED
    BY <2>1, <2>2
<1>5. folder' = [folder EXCEPT ![p].content = y] /\ txn' = txn
  BY DEF ChangeContent, Revert, PutContent, Target
<1>6. pc'[c] = l
  BY <1>2 DEF LibInv, Types
<1>7. Requested'[c] = Atomic!Idle
  BY <1>6, RequestNext DEF Staging, Outsiders
<1>8. Requested[c] = IF pc[c] = "change" THEN Asked("change", p, 0, Absent)
                     ELSE Asked("restore", p, 0, y)
  BY <1>1, RequestOf
<1>9. Requested[c] \notin {Atomic!Out, Atomic!Idle}
  BY <1>8, KindsDiffer
<1> HIDE DEF p, y
<1>10. Recovered' = [Recovered EXCEPT ![p] = y]
  BY <1>3, <1>4, <1>5, PutRecovers
<1>11. Atomic!Done(Requested[c])
  <2>1. CASE pc[c] = "change"
    <3>1. /\ Requested[c].kind = "change" /\ Requested[c].from = p
      BY <1>8, <2>1 DEF Asked
    <3> QED
      BY <1>3, <1>4, <1>10, <3>1 DEF Atomic!Done
  <2>2. CASE pc[c] # "change"
    <3>1. /\ Requested[c].kind = "restore" /\ Requested[c].from = p
          /\ Requested[c].content = y
      BY <1>8, <2>2 DEF Asked
    <3> QED
      BY <1>10, <3>1 DEF Atomic!Done
  <2> QED
    BY <2>1, <2>2
<1> QED
  BY <1>2, <1>3, <1>7, <1>9, <1>11, CommitStep

LEMMA WritingRefines ==
  ASSUME LibInv, LibInv', Assumed, NEW c \in Clients, Writing(c) PROVE AtomicStep
<1>1. CASE StartWrite(c)
  <2>1. PICK kind \in Does[c] \cap {"write", "replace"}, l \in {"pretouch", "change"} :
          pc' = [pc EXCEPT ![c] = l]
    BY <1>1 DEF StartWrite, Goto
  <2>2. Mode[c] = "write" /\ Holding(c) /\ UNCHANGED <<folder, txn, truth>>
    BY <1>1, <2>1, Changers DEF StartWrite, Holding, files
  <2>3. Requested[c] = Atomic!Out
    BY <1>1, RequestOf DEF StartWrite, Outsiders
  <2>4. pc'[c] = l
    BY <2>1 DEF LibInv, Types
  <2>5. Requested'[c] = Asked("change", Target(c)', 0, Absent)
    BY <2>4, RequestNext
  <2>6. Recovered' = Recovered /\ Known' = Known
    BY <2>2, FilesUnchanged
  <2>7. Target(c)' \in Paths /\ Recovered[Target(c)'] # Absent
    <3>1. pc'[c] \in Changing
      BY <2>4 DEF Changing
    <3>2. /\ ~txn.exists /\ Target(c)' \in Paths
          /\ folder[Target(c)'].content \in Contents
      BY <2>2, <3>1 DEF LibInv, Phase, At
    <3>3. ~Known
      BY <3>2, NoTxnType DEF LibInv, TxnShape, Known
    <3>4. Recovered[Target(c)'] = folder[Target(c)'].content
      BY <3>2, <3>3 DEF Recovered
    <3> QED
      BY <3>2, <3>4, ContentPair
  <2> DEFINE p == Target(c)'
             r == Asked("change", p, 0, Absent)
  <2>8. r.kind = "change" /\ r.from = p
    BY DEF Asked
  <2> HIDE DEF p, r
  <2>9. Atomic!Possible(r)
    BY <2>7, <2>8 DEF Atomic!Possible, p
  <2> QED
    BY <2>1, <2>2, <2>3, <2>5, <2>6, <2>9, AskStep DEF p, r
<1>2. CASE Touch(c)
  <2>1. pc[c] \notin Outsiders /\ UNCHANGED <<folder, txn, rows, op, truth>>
    BY <1>2 DEF Touch, Outsiders, files
  <2>2. Recovered' = Recovered
    BY <2>1, FilesUnchanged
  <2>3. CASE pc[c] = "pretouch"
    <3>1. pc' = [pc EXCEPT ![c] = "change"] /\ pc'[c] = "change"
      BY <1>2, <2>3 DEF Touch, Goto, LibInv, Types
    <3>2. Target(c)' = Target(c)
      BY <2>1 DEF Target, Row
    <3>3. Requested'[c] = Requested[c]
      BY <2>3, <3>1, <3>2, RequestOf, RequestNext
    <3> QED
      BY <2>1, <2>2, <3>1, <3>3, SameRequest
  <2>4. CASE pc[c] # "pretouch"
    <3>1. \E l \in {"refresh", "rerefresh"} : pc' = [pc EXCEPT ![c] = l]
      BY <1>2, <2>4 DEF Touch, Goto
    <3> QED
      BY <2>1, <2>2, <3>1, LeaveStep DEF Staging
  <2> QED
    BY <2>3, <2>4
<1> QED
  BY <1>1, <1>2, PutRefines, BookkeepingRefines DEF Writing

\* An interrupted request is given up, whatever a recovery has to do.
LEMMA FailureRefines ==
  ASSUME LibInv, NEW c \in Clients, Failure(c) PROVE AtomicStep
<1>1. pc[c] \notin Outsiders
  BY DEF Failure, FailBegin, FailMutation, FailOther, FailFinalize, Outsiders
<1>2. Recovered' = Recovered
  <2>1. CASE FailBegin(c)
    BY <2>1, FailBeginKeeps
  <2>2. CASE ~FailBegin(c)
    BY <2>2, FilesUnchanged DEF Failure, FailMutation, FailOther, FailFinalize, files
  <2> QED
    BY <2>1, <2>2
<1>3. CASE \E l \in {"release", "undo"} : pc' = [pc EXCEPT ![c] = l]
  BY <1>1, <1>2, <1>3, LeaveStep DEF Staging
<1>4. CASE FailFinalize(c) /\ pc' = [pc EXCEPT ![c] = "revert"]
  <2>1. pc[c] \in Changing /\ pc[c] \in {"touch", "refresh"}
    BY <1>4 DEF FailFinalize, Changing
  <2>2. /\ Target(c) \in Paths /\ Recovered[Target(c)] = At(Target(c))
        /\ At(Target(c)) # Absent
        /\ op[c].content \in Contents /\ op[c].content[1] = At(Target(c))[1]
    BY <2>1, InPlace
  <2>3. pc'[c] = "revert" /\ op' = op /\ Target(c)' = Target(c)
    BY <1>4 DEF FailFinalize, data, Target, Row, LibInv, Types
  <2>4. Requested[c] = Atomic!Idle
    BY <2>1, RequestOf DEF Staging, Outsiders
  <2> DEFINE r == Asked("restore", Target(c), 0, op[c].content)
  <2>5. Requested'[c] = r
    BY <2>3, RequestNext
  <2>6. r.kind = "restore" /\ r.from = Target(c) /\ r.content = op[c].content
    BY DEF Asked
  <2> HIDE DEF r
  <2>7. Atomic!Possible(r)
    BY <2>2, <2>6 DEF Atomic!Possible
  <2> QED
    BY <1>1, <1>2, <1>4, <2>4, <2>5, <2>7, Busy, AskStep
<1>5. \/ \E l \in {"release", "undo"} : pc' = [pc EXCEPT ![c] = l]
      \/ FailFinalize(c) /\ pc' = [pc EXCEPT ![c] = "revert"]
  BY DEF Failure, FailBegin, FailMutation, FailOther, FailFinalize, Goto
<1> QED
  BY <1>3, <1>4, <1>5

LEMMA CrashRefines ==
  ASSUME LibInv, NEW c \in Clients, Crash(c) PROVE AtomicStep
<1>1. /\ pc' = [pc EXCEPT ![c] = "dead"] /\ UNCHANGED <<folder, txn, rows, truth>>
      /\ \A d \in Clients \ {c} : pc'[d] = pc[d] /\ op'[d] = op[d]
      /\ pc'[c] = "dead"
  BY DEF Crash, CrashClient, Goto, files, data, LibInv, Types
<1>2. CASE pc[c] \in Outsiders
  <2>1. pc'[c] \in Outsiders
    BY <1>1 DEF Outsiders
  <2> QED
    BY <1>1, <1>2, <2>1, ApartStep
<1>3. CASE pc[c] \notin Outsiders
  <2>1. Recovered' = Recovered
    BY <1>1, FilesUnchanged
  <2> QED
    BY <1>1, <1>3, <2>1, LeaveStep DEF Staging
<1> QED
  BY <1>2, <1>3

LEMMA QueryRefines ==
  ASSUME LibInv, NEW c \in Clients, Reject(c) \/ CleanIndex(c) \/ Query(c) \/ EndQuery(c)
  PROVE  AtomicStep
<1>1. PICK l \in {"release", "query"} : pc' = [pc EXCEPT ![c] = l]
  BY DEF Reject, CleanIndex, Query, EndQuery, Finish, Goto
<1>2. /\ pc[c] \in Outsiders /\ UNCHANGED <<folder, txn, rows, truth, op>>
  BY DEF Reject, CleanIndex, Query, EndQuery, Finish, Outsiders, files, data
<1>3. \A d \in Clients : \/ pc[d] \in Outsiders /\ pc'[d] \in Outsiders
                         \/ pc'[d] = pc[d] /\ op'[d] = op[d]
  BY <1>1, <1>2 DEF LibInv, Types, Outsiders
<1> QED
  BY <1>2, <1>3, ApartStep

LEMMA StartRefines ==
  ASSUME LibInv, NEW c \in Clients, StartMutation(c) \/ StartRebuild(c)
  PROVE  AtomicStep
<1>1. pc[c] = "held" /\ Mode[c] = "write"
  BY Changers DEF StartMutation, StartRebuild
<1>2. \E l \in {"recover", "prepare"} : pc' = [pc EXCEPT ![c] = l]
  BY DEF StartMutation, StartRebuild, Goto
<1>3. Recovered' = Recovered
  BY FilesUnchanged DEF StartMutation, StartRebuild, files
<1> QED
  BY <1>1, <1>2, <1>3, StartStep

\* While nobody is at work other programs may do what they like.
LEMMA OthersRefine ==
  ASSUME LibInv, OutsideRename \/ OutsideWrite PROVE AtomicStep
<1>1. /\ Undisturbed /\ UNCHANGED <<txn, op, rows, pc>>
  BY DEF OutsideRename, OutsideWrite, lock, data
<1>2. \A c \in Clients : pc[c] \in Outsiders
  BY <1>1 DEF LibInv, WritersOnly, Undisturbed, Holding, Outsiders
<1>3. \A c \in Clients : Requested[c] = Atomic!Out /\ Requested'[c] = Atomic!Out
  BY <1>1, <1>2, RequestOf, RequestNext
<1>4. Requested' = Requested
  BY <1>3 DEF Requested
<1>5. ~Known /\ ~Known'
  BY <1>1, NoTxnType, KnownUnchanged DEF LibInv, TxnShape, Undisturbed, Known
<1>6. \A p \in Paths : Recovered[p] = At(p) /\ Recovered'[p] = At(p)'
  BY <1>5 DEF Recovered, At
<1>7. CASE OutsideRename
  <2>1. PICK p \in Paths, q \in Paths :
          /\ Exists(p) /\ ~Exists(q)
          /\ folder' = [folder EXCEPT ![q] = folder[p], ![p] = NoEntry]
    BY <1>7 DEF OutsideRename
  <2>2. At(p) # Absent /\ At(q) = Absent /\ p # q
    BY <2>1 DEF Exists, At
  <2>3. /\ At(p)' = Absent /\ At(q)' = At(p)
        /\ \A s \in Paths \ {p, q} : At(s)' = At(s)
    BY <2>1, <2>2 DEF LibInv, Types, FolderType, NoEntry, Entry, At
  <2>4. Recovered' = [Recovered EXCEPT ![q] = Recovered[p], ![p] = Absent]
    BY <1>6, <2>2, <2>3, RecoveredFunction
  <2>5. Recovered[p] # Absent /\ Recovered[q] = Absent
    BY <1>6, <2>2
  <2>6. \E s \in Paths :
          /\ Recovered[s] = Absent
          /\ Recovered' = [Recovered EXCEPT ![s] = Recovered[p], ![p] = Absent]
    BY <2>4, <2>5
  <2>7. Atomic!Others
    BY ONLY <1>3, <1>4, <2>5, <2>6, p \in Paths DEF Atomic!Others
  <2> QED
    BY <2>7 DEF AtomicStep, Atomic!Next
<1>8. CASE OutsideWrite
  <2>1. PICK p \in Paths :
          /\ folder[p].content \in Contents
          /\ PutContent(p, <<folder[p].content[1], version + 1>>)
    BY <1>8 DEF OutsideWrite
  <2> DEFINE y == <<At(p)[1], version + 1>>
  <2>2. At(p) # Absent /\ At(p) \in Contents
    BY <2>1, ContentPair DEF At
  <2>3. version + 1 \in 0 .. MaxVersion
    BY <1>8, LibraryAssumption DEF OutsideWrite, LibInv, Types
  <2>4. y \in Contents /\ y[1] = At(p)[1]
    BY <2>2, <2>3, ContentPair DEF Contents
  <2>5. folder' = [folder EXCEPT ![p].content = y]
    BY <2>1 DEF PutContent, At
  <2> HIDE DEF y
  <2>6. Recovered' = [Recovered EXCEPT ![p] = y]
    BY <1>1, <1>5, <2>4, <2>5, PutRecovers
  <2>7. Atomic!Others
    BY <1>3, <1>4, <1>6, <2>2, <2>4, <2>6 DEF Atomic!Others
  <2> QED
    BY <2>7 DEF AtomicStep, Atomic!Next
<1> QED
  BY <1>7, <1>8

LEMMA LockRefines ==
  ASSUME LibInv, Assumed, LibraryLockStep PROVE AtomicStep
<1>1. LockStep
  BY DEF LibraryLockStep
<1>2. LockKept(Labels)
  BY <1>1, LockStepKeeps DEF LibInv, Types, Assumed, Labels, Outsiders
<1>3. UNCHANGED <<folder, txn, rows, truth>>
  BY DEF LibraryLockStep, files, data
<1>4. \A d \in Clients : pc[d] \notin Outsiders => pc'[d] = pc[d] /\ op'[d] = op[d]
  BY <1>2 DEF LockKept, Holding, Outsiders, LibraryLockStep
<1>5. \A d \in Clients : pc[d] \in Outsiders => pc'[d] \in Outsiders
  BY <1>2 DEF LockKept, Outsiders
<1> QED
  BY <1>3, <1>4, <1>5, ApartStep

LEMMA RefinementStep ==
  ASSUME LibInv, LibInv', Assumed, [Next]_vars PROVE [Atomic!Next]_Mapped
<1>1. CASE LibraryLockStep
  BY <1>1, LockRefines DEF AtomicStep
<1>2. ASSUME NEW c \in Clients, Membership(c) PROVE AtomicStep
  BY <1>2, BeginRefines, StagingRefines, MarkPublishedRefines, BookkeepingRefines
     DEF Membership
<1>3. ASSUME NEW c \in Clients,
             \/ Reject(c) \/ StartMutation(c) \/ Recovery(c) \/ ScanRows(c)
             \/ Writing(c) \/ Indexing(c) \/ Failure(c) \/ Crash(c)
      PROVE  AtomicStep
  BY <1>3, QueryRefines, StartRefines, RecoveryRefines, BookkeepingRefines,
     WritingRefines, FailureRefines, CrashRefines DEF Indexing
<1>4. CASE OutsideRename \/ OutsideWrite
  BY <1>4, OthersRefine DEF AtomicStep
<1>5. CASE AllSpent \/ UNCHANGED vars
  <2>1. UNCHANGED <<folder, txn, rows, truth, pc, op>>
    BY <1>5 DEF AllSpent, Spent, vars, lock, files, data
  <2> QED
    BY <2>1, ApartStep DEF AtomicStep
<1> QED
  BY <1>1, <1>2, <1>3, <1>4, <1>5 DEF Next, AtomicStep

\* A library is atomic: for any clients, archives and paths, whatever crashes,
\* fails and is changed by other programs, its archives change only as
\* AtomicLibrary lets them, until a step costs an archive.
THEOREM LibraryIsAtomic == ASSUME Assumed PROVE Spec => ImplementsAtomicLibrary
<1>1. Init => Atomic!Init
  <2> SUFFICES ASSUME Init PROVE Atomic!Init
    OBVIOUS
  <2>1. LibInv /\ ~Known
    BY LibInit, NoTxnType DEF Init, Known
  <2>2. \A p \in Paths : Recovered[p] = At(p) /\ At(p) \in Contents \cup {Absent}
    BY <2>1, GoodFolder DEF Recovered, At
  <2>3. Recovered \in [Paths -> Contents \cup {Absent}]
    BY <2>2, RecoveredFunction
  <2>4. \A c \in Clients : Requested[c] = Atomic!Out
    BY RequestOf DEF Init, LockInit, Outsiders
  <2>5. Requested = [c \in Clients |-> Atomic!Out]
    BY <2>4 DEF Requested
  <2> QED
    BY <2>3, <2>5 DEF Atomic!Init
<1>2. /\ Safe => LibInv
      /\ (Safe => LibInv)'
      /\ [Next]_vars
      => [Safe' => UNCHANGED <<Recovered, Requested>> \/ Atomic!Next]_vars
  BY SafeBefore, RefinementStep DEF Mapped
<1> QED
  BY <1>1, <1>2, LibraryInvariance, PTL DEF Spec, ImplementsAtomicLibrary
=============================================================================
