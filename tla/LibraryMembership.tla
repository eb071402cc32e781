-------------------------- MODULE LibraryMembership --------------------------
(***************************************************************************)
(* A library: a folder of archives, a row for each in core.sqlite, and one *)
(* search index over all of them (packages/core/src/library).  Operations  *)
(* exclude each other with the state lock of scope "library".  Those that  *)
(* add, remove, move or migrate an archive keep a transaction directory in *)
(* staging, from which the next one recovers.                              *)
(*                                                                         *)
(* One action is one file operation, or one transaction of core.sqlite or  *)
(* index.db; a file is written beside its place and renamed, a directory   *)
(* is copied or removed file by file.  A client is between actions         *)
(* wherever a crash or an error can find it.                               *)
(* Definitions named Mutant... are faults the properties must notice.      *)
(***************************************************************************)
EXTENDS StateLock

CONSTANTS
  PathCount,    \* paths of archives in the folder, in the order of a listing
  MaxArchives,  \* bound: archives ever added
  MaxVersion,   \* bound: changes of archives
  MaxRows,      \* bound: rows ever inserted
  MaxQueries,   \* bound: queries per reader; they change nothing
  Does,         \* the operations each client calls
  Failers,      \* clients whose file and database operations may fail
  Outside,      \* whether the folder is changed by other programs, too
  Absent,       \* no entry, no backup
  Partial       \* an entry or backup that is not complete

\* Everything but a query takes the lock for writing.
ASSUME LibraryAssumption ==
  /\ \A c \in Clients : Does[c] \subseteq {"query"} \/ Mode[c] = "write"
  /\ PathCount \in Nat \ {0} /\ MaxArchives \in Nat \ {0}
  /\ MaxVersion \in Nat /\ MaxRows \in Nat \ {0}
  /\ MaxQueries \in Nat
  /\ Outside \in BOOLEAN
  /\ {Absent, Partial} \cap (1 .. MaxArchives) \X (0 .. MaxVersion) = {}
  /\ Absent # Partial

VARIABLES
  folder,   \* the entry at each path: its kind and content
  txn,      \* the transaction directory in staging
  rows,     \* library_archives
  index,    \* index.db: its status, and what is indexed under which row
  op,       \* per client, the operation it is in
  version,  \* changes of archives so far
  lastId,   \* rows inserted so far
  truth,    \* auxiliary: the content every archive must have
  harm      \* auxiliary: what the code has been made to fail at: keeping the
            \* archives, or telling that the index is not up to date

files == <<folder, txn>>
data == <<rows, index, version, lastId>>
vars == <<lock, files, data, op, truth, harm>>

Paths == 1 .. PathCount
Archives == 1 .. MaxArchives
\* What an archive contains, as its mutation token says: archive and version.
Contents == Archives \X (0 .. MaxVersion)

Entry(kind, content) == [kind |-> kind, content |-> content]
NoEntry == Entry("file", Absent)
Exists(p) == folder[p].content # Absent

NoOp == [kind |-> "none", id |-> 0, to |-> 0, content |-> Absent]
NoTxn == [exists |-> FALSE, record |-> "absent", kind |-> "none", from |-> 0,
          to |-> 0, source |-> "file", published |-> FALSE,
          backup |-> Absent, torn |-> FALSE]

LockUnchanged == UNCHANGED <<row, seen, owners>>
Harmless == LockUnchanged /\ UNCHANGED harm

\* Where clients without the write lock may be.
Outsiders == {"idle", "wait", "held", "query", "release", "dead"}

-----------------------------------------------------------------------------
(* What the code does not survive *)

\* Recovery would restore from a backup that is not complete, or remove what it
\* has no backup of.
BackupWindow ==
  /\ txn.exists /\ txn.record = "written" /\ ~txn.published
  /\ \/ txn.kind \in {"remove", "migrate"} /\ txn.backup = Partial
     \/ txn.kind = "remove" /\ txn.backup = Absent

\* The directory has lost `published` or the backup: its own client still knows
\* the record, others know it as long as transaction.json is there.
RemovalWindow(c) ==
  txn.exists /\ txn.torn /\ (txn.record = "written" \/ pc[c] = "finish")

\* New rows and tokens are visible and the index still counts as current.
DirtyWindow(c) ==
  /\ pc[c] = "dirty" /\ op[c].kind \in {"add", "move", "scan"}
  /\ index.status = "current"

\* An interruption in a window may cost an archive, or leaves an index that is
\* not what it counts as ...
Interrupted(c) ==
  harm' = harm \cup
    {h \in {"archives", "index"} :
       /\ pc[c] \notin Outsiders
       /\ \/ h = "archives" /\ (BackupWindow \/ RemovalWindow(c))
          \/ h = "index" /\ DirtyWindow(c)}

\* ... and so does what is done over a transaction that has not been recovered,
Unrecovered(h) == harm' = IF txn.exists THEN harm \cup {h} ELSE harm

\* or an archive that comes back to where a row with its token has stayed, which
\* the index left out.
Arrives(content, p) ==
  harm' = IF /\ index.status = "current"
             /\ \E r \in rows : r.path = p /\ r.token = content
          THEN harm \cup {"index"} ELSE harm

\* An index that does not count as current misleads nobody.
Stale == harm' = harm \ {"index"}

-----------------------------------------------------------------------------
(* recoverLibraryMembershipTransactions, at the start of an operation, and *)
(* LibraryMembershipTransaction.recover, after a failure                   *)

Decide == {"recover", "undo"}
Restore == [recover |-> "restore", undo |-> "unrestore"]
Untie == [recover |-> "untie", undo |-> "ununtie"]

StartMutation(c) ==
  /\ pc[c] = "held"
  /\ \E kind \in Does[c] \cap {"add", "remove", "move", "scan"},
        id \in 1 .. MaxRows, to \in Paths :
       /\ id <= lastId
       /\ kind \in {"add", "scan"} => id = 1
       /\ kind \in {"remove", "scan"} => to = 1
       /\ op' = [op EXCEPT ![c] = [NoOp EXCEPT !.kind = kind, !.id = id,
                                               !.to = to]]
  /\ Goto(c, "recover")
  /\ UNCHANGED <<files, data, truth>> /\ Harmless

\* Whoever recovers knows what to do: it is its own transaction, or it has
\* read transaction.json.
Recorded(c) == txn.exists /\ (pc[c] = "undo" \/ txn.record = "written")

\* Recovery gives up: the record does not parse, or there is no backup.
RejectRecord(c) ==
  /\ pc[c] = "recover"
  /\ txn.exists /\ txn.record = "empty"
  /\ Goto(c, "release")
  /\ UNCHANGED <<files, data, op, truth>> /\ Harmless

DropUnrecorded(c) ==
  /\ pc[c] = "recover"
  /\ txn.exists /\ txn.record = "absent"
  /\ Goto(c, "untie")
  /\ UNCHANGED <<files, data, op, truth>> /\ Harmless

\* A published move or removal ends with the removal of its source.
\* (The mutant takes a complete target for the publication of a move.)
MutantRollForward(c) ==
  /\ pc[c] \in Decide /\ Recorded(c)
  /\ \/ txn.published
     \/ txn.kind = "move" /\ folder[txn.to].content \in Contents
  /\ folder' = IF txn.kind \in {"move", "remove"}
               THEN [folder EXCEPT ![txn.from] = NoEntry] ELSE folder
  /\ Goto(c, Untie[pc[c]])
  /\ UNCHANGED <<txn, data, op, truth>> /\ Harmless

RollForward(c) ==
  /\ pc[c] \in Decide /\ Recorded(c)
  /\ txn.published
  /\ folder' = IF txn.kind \in {"move", "remove"}
               THEN [folder EXCEPT ![txn.from] = NoEntry] ELSE folder
  /\ Goto(c, Untie[pc[c]])
  /\ UNCHANGED <<txn, data, op, truth>> /\ Harmless

\* What an unpublished addition or move has put in the folder goes.
\* (The mutant forgets moves.)
MutantRollBackTarget(c) ==
  /\ pc[c] \in Decide /\ Recorded(c)
  /\ ~txn.published /\ txn.kind \in {"add", "move"}
  /\ folder' = IF txn.kind = "add"
               THEN [folder EXCEPT ![txn.to] = NoEntry] ELSE folder
  /\ Goto(c, Untie[pc[c]])
  /\ UNCHANGED <<txn, data, op, truth>> /\ Harmless

RollBackTarget(c) ==
  /\ pc[c] \in Decide /\ Recorded(c)
  /\ ~txn.published /\ txn.kind \in {"add", "move"}
  /\ folder' = [folder EXCEPT ![txn.to] = NoEntry]
  /\ Goto(c, Untie[pc[c]])
  /\ UNCHANGED <<txn, data, op, truth>> /\ Harmless

\* restoreRemovedEntry removes what is there before it looks for the backup.
RollBackRemoval(c) ==
  /\ pc[c] \in Decide /\ Recorded(c)
  /\ ~txn.published /\ txn.kind = "remove"
  /\ folder' = [folder EXCEPT ![txn.from] = NoEntry]
  /\ Goto(c, IF txn.backup = Absent THEN "release" ELSE Restore[pc[c]])
  /\ UNCHANGED <<txn, data, op, truth>> /\ Harmless

\* restoreMigratedFile looks for the backup first.
RollBackMigration(c) ==
  /\ pc[c] \in Decide /\ Recorded(c)
  /\ ~txn.published /\ txn.kind = "migrate"
  /\ IF txn.backup = Absent
     THEN Goto(c, "release") /\ UNCHANGED folder
     ELSE /\ folder' = [folder EXCEPT ![txn.from] = NoEntry]
          /\ Goto(c, Restore[pc[c]])
  /\ UNCHANGED <<txn, data, op, truth>> /\ Harmless

\* The backup is copied into a new entry, which is not complete at first.
RestoreEntry(c) ==
  /\ pc[c] \in {Restore[l] : l \in Decide}
  /\ IF Exists(txn.from)
     THEN /\ folder' = [folder EXCEPT ![txn.from].content = txn.backup]
          /\ Goto(c, IF pc[c] = "restore" THEN "untie" ELSE "ununtie")
     ELSE /\ folder' = [folder EXCEPT ![txn.from] = Entry(txn.source, Partial)]
          /\ UNCHANGED pc
  /\ UNCHANGED <<txn, data, op, truth>> /\ Harmless

\* The removal of the directory deletes its files in any order ...
RemoveTxnPart(c) ==
  /\ pc[c] \in {"untie", "ununtie", "finish"}
  /\ txn.exists
  /\ \/ /\ txn.record # "absent"
        /\ txn' = [txn EXCEPT !.record = "absent"]
     \/ /\ txn.published
        /\ txn' = [txn EXCEPT !.published = FALSE, !.torn = TRUE]
     \/ /\ txn.backup # Absent
        /\ txn' = [txn EXCEPT !.backup = Absent, !.torn = TRUE]
  /\ UNCHANGED <<pc, folder, data, op, truth>> /\ Harmless

\* ... and then the directory.  After its last step an operation returns; a
\* recovery or a scan goes on.
RemoveTxn(c) ==
  /\ pc[c] \in {"untie", "ununtie", "finish"}
  /\ txn' = NoTxn
  /\ Goto(c, CASE pc[c] = "untie" -> "recover"
               [] pc[c] = "finish" /\ op[c].kind = "scan" -> "begin"
               [] OTHER -> "release")
  /\ UNCHANGED <<folder, data, op, truth>> /\ Harmless

FinishRecovery(c) ==
  /\ pc[c] = "recover"
  /\ ~txn.exists
  /\ Goto(c, "begin")
  /\ UNCHANGED <<files, data, op, truth>> /\ Harmless

Recovery(c) ==
  \/ RejectRecord(c) \/ DropUnrecorded(c)
  \/ RollForward(c) \/ RollBackTarget(c)
  \/ RollBackRemoval(c) \/ RollBackMigration(c) \/ RestoreEntry(c)
  \/ RemoveTxnPart(c) \/ RemoveTxn(c)
  \/ FinishRecovery(c)

-----------------------------------------------------------------------------
(* Adding, removing, moving and migrating an archive *)

\* The row with an id, as resolveLibraryArchiveTarget finds it.
HasRow(id) == \E r \in rows : r.id = id
Row(id) == CHOOSE r \in rows : r.id = id
ListedPaths == {p \in Paths : Exists(p)}
Resolves(id) == HasRow(id) /\ Row(id).path \in ListedPaths

\* What stands in the way before anything has changed.
Refused(c) ==
  \/ op[c].kind \in {"add", "move"} /\ Exists(op[c].to)
  \/ op[c].kind \in {"remove", "move"} /\ ~Resolves(op[c].id)

\* What a scan migrates first: archives that are files.
ArchiveFiles == {p \in ListedPaths : folder[p].kind = "file"}

\* The target exists, the archive is unknown or missing; or it has active
\* jobs, which end a removal, a move and a migration.
Refuse(c) ==
  /\ pc[c] = "begin"
  /\ \/ Refused(c)
     \/ op[c].kind \in {"remove", "move"}
     \/ op[c].kind = "scan" /\ ArchiveFiles # {}
  /\ Goto(c, "release")
  /\ UNCHANGED <<files, data, op, truth>> /\ Harmless

Begin(c, kind, from, to, content) ==
  /\ op' = [op EXCEPT ![c] = [@ EXCEPT !.to = to, !.content = content]]
  /\ txn' = [NoTxn EXCEPT !.exists = TRUE, !.kind = kind, !.from = from,
                          !.to = to,
                          !.source = IF from = 0 THEN "file"
                                     ELSE folder[from].kind]
  /\ Goto(c, "record")
  /\ UNCHANGED <<folder, rows, index, lastId, truth>> /\ Harmless

\* A new archive is named by the first unused number.
IsNewArchive(a) ==
  truth[a] = "none" /\ \A b \in Archives : truth[b] = "none" => a <= b

BeginAdd(c) ==
  /\ pc[c] = "begin" /\ op[c].kind = "add" /\ ~Refused(c)
  /\ version < MaxVersion
  /\ \E a \in Archives :
       /\ IsNewArchive(a)
       /\ Begin(c, "add", 0, op[c].to, <<a, version + 1>>)
  /\ version' = version + 1

BeginChange(c) ==
  /\ pc[c] = "begin" /\ op[c].kind \in {"remove", "move"} /\ ~Refused(c)
  /\ LET path == Row(op[c].id).path
     IN  Begin(c, op[c].kind, path, op[c].to, folder[path].content)
  /\ UNCHANGED version

\* A scan migrates each archive file to a directory; it fails at one that is
\* not complete.
BeginMigration(c) ==
  /\ pc[c] = "begin" /\ op[c].kind = "scan"
  /\ \E p \in ArchiveFiles :
       /\ folder[p].content \in Contents
       /\ Begin(c, "migrate", p, p, folder[p].content)
  /\ UNCHANGED version

CreateRecord(c) ==
  /\ pc[c] = "record"
  /\ txn' = [txn EXCEPT !.record = "empty"]
  /\ Goto(c, "fill")
  /\ UNCHANGED <<folder, data, op, truth>> /\ Harmless

\* (The mutant marks a move published before its target is copied.)
MutantWriteRecord(c) ==
  /\ pc[c] = "fill"
  /\ txn' = [txn EXCEPT !.record = "written", !.published = txn.kind = "move"]
  /\ Goto(c, IF txn.kind \in {"add", "move"} THEN "extract" ELSE "backup")
  /\ UNCHANGED <<folder, data, op, truth>> /\ Harmless

WriteRecord(c) ==
  /\ pc[c] = "fill"
  /\ txn' = [txn EXCEPT !.record = "written"]
  /\ Goto(c, IF txn.kind \in {"add", "move"} THEN "extract" ELSE "backup")
  /\ UNCHANGED <<folder, data, op, truth>> /\ Harmless

CreateBackup(c) ==
  /\ pc[c] = "backup"
  /\ txn' = [txn EXCEPT !.backup = Partial]
  /\ Goto(c, "copy")
  /\ UNCHANGED <<folder, data, op, truth>> /\ Harmless

CopyBackup(c) ==
  /\ pc[c] = "copy"
  /\ txn' = [txn EXCEPT !.backup = folder[txn.from].content]
  /\ Goto(c, "drop")
  /\ UNCHANGED <<folder, data, op, truth>> /\ Harmless

\* The source of a removal or move goes, a directory file by file; a file that
\* is migrated makes place for its directory.
DropSource(c) ==
  /\ pc[c] = "drop"
  /\ \/ /\ folder[txn.from].kind = "directory"
        /\ folder[txn.from].content \notin {Absent, Partial}
        /\ folder' = [folder EXCEPT ![txn.from].content = Partial]
        /\ UNCHANGED pc
     \/ /\ folder' = [folder EXCEPT ![txn.from] = NoEntry]
        /\ Goto(c, CASE txn.kind = "remove"  -> "mark"
                     [] txn.kind = "migrate" -> "extract"
                     [] txn.kind = "move"    -> "row")
  /\ UNCHANGED <<txn, data, op, truth>> /\ Harmless

\* The new entry is unpacked or copied, then opened to check it.  Additions and
\* migrations make directories.
ExtractTarget(c) ==
  /\ pc[c] = "extract"
  /\ IF Exists(txn.to)
     THEN /\ folder' = [folder EXCEPT ![txn.to].content = op[c].content]
          /\ Goto(c, "mark")
          /\ IF txn.kind = "move" THEN Arrives(op[c].content, txn.to)
                                  ELSE UNCHANGED harm
     ELSE /\ folder' = [folder EXCEPT ![txn.to] =
               Entry(IF txn.kind = "move" THEN txn.source ELSE "directory",
                     Partial)]
          /\ UNCHANGED <<pc, harm>>
  /\ UNCHANGED <<txn, data, op, truth>> /\ LockUnchanged

\* The file `published`, even still empty, decides the transaction.
MarkPublished(c) ==
  /\ pc[c] = "mark"
  /\ txn' = [txn EXCEPT !.published = TRUE]
  /\ truth' = LET a == op[c].content[1]
              IN  CASE txn.kind = "add" -> [truth EXCEPT ![a] = op[c].content]
                    [] txn.kind = "remove" /\ op[c].content \in Contents ->
                         [truth EXCEPT ![a] = "gone"]
                    [] OTHER -> truth
  /\ Goto(c, CASE txn.kind = "move"    -> "drop"
               [] txn.kind = "migrate" -> "finish"
               [] OTHER                -> "row")
  /\ UNCHANGED <<folder, data, op>> /\ Harmless

NewRow(id, path, token, status) ==
  [id |-> id, path |-> path, token |-> token, status |-> status]

\* ensureLibraryArchiveByRelativePath takes over a row at the path, a present
\* one first.
Rank(r) == IF r.status = "present" THEN 0 ELSE 1
Best(candidates) ==
  CHOOSE r \in candidates : \A other \in candidates :
    \/ Rank(r) < Rank(other)
    \/ Rank(r) = Rank(other) /\ r.id >= other.id

AddedRows(path, token) ==
  LET at == {r \in rows : r.path = path}
  IN  IF at = {} THEN rows \cup {NewRow(lastId + 1, path, token, "present")}
      ELSE (rows \ {Best(at)}) \cup {NewRow(Best(at).id, path, token, "present")}

\* (The mutant inserts the row at the new path beside the old one.)
MutantMovedRows(id, path, token) ==
  rows \cup {NewRow(id, path, token, "present")}

MovedRows(id, path, token) ==
  {r \in rows : r.id # id} \cup {NewRow(id, path, token, "present")}

UpdateRow(c) ==
  /\ pc[c] = "row"
  /\ rows' = CASE txn.kind = "add"    -> AddedRows(txn.to, op[c].content)
               [] txn.kind = "remove" -> {r \in rows : r.id # op[c].id}
               [] txn.kind = "move"   ->
                    MovedRows(op[c].id, txn.to, op[c].content)
  /\ lastId' = IF \E r \in rows' : r.id > lastId THEN lastId + 1 ELSE lastId
  /\ lastId' <= MaxRows
  /\ Goto(c, "dirty")
  /\ UNCHANGED <<files, index, version, op, truth>> /\ Harmless

\* markWikiGraphLibraryIndexDirty; it creates an index that is missing.
Dirty == [index EXCEPT !.status = "dirty"]

MarkDirty(c) ==
  /\ pc[c] = "dirty"
  /\ index' = Dirty /\ Stale
  /\ Goto(c, IF op[c].kind = "scan" THEN "release" ELSE "finish")
  /\ UNCHANGED <<files, rows, version, lastId, op, truth>> /\ LockUnchanged

Membership(c) ==
  \/ Refuse(c) \/ BeginAdd(c) \/ BeginChange(c) \/ BeginMigration(c)
  \/ CreateRecord(c) \/ WriteRecord(c) \/ CreateBackup(c) \/ CopyBackup(c)
  \/ DropSource(c) \/ ExtractTarget(c) \/ MarkPublished(c)
  \/ UpdateRow(c) \/ MarkDirty(c)

-----------------------------------------------------------------------------
(* scanWikiGraphLibraryUnlocked: one transaction once no file is left to      *)
(* migrate                                                                  *)

TokenAt(p) == folder[p].content

\* Rows as the scan has found them; those it has matched so far are `matched`.
SameToken(p, matched) ==
  {r \in rows : r.token = TokenAt(p) /\ r.token \in Contents /\ r.id \notin matched}

\* A row at another path is adopted only if nothing is left at its path.
Adoptable(p, matched) ==
  {r \in SameToken(p, matched) : r.path = p \/ r.path \notin ListedPaths}

\* The row that becomes the row of the entry at p, if there is one.
Match(p, matched) ==
  LET at == {r \in rows : r.path = p}
  IN  IF at # {} THEN {Best(at)}
      ELSE IF Cardinality(SameToken(p, matched)) = 1
           THEN Adoptable(p, matched) ELSE {}

\* The entry at p gets its row, after those at the paths before it.
VisitPath(p, before) ==
  LET match == Match(p, before.matched)
      id == IF match = {} THEN before.last + 1 ELSE (CHOOSE r \in match : TRUE).id
      status == IF match = {} /\ SameToken(p, before.matched) # {}
                THEN "conflict" ELSE "present"
  IN  IF ~Exists(p) THEN before
      ELSE [rows |-> before.rows \cup {NewRow(id, p, TokenAt(p), status)},
            matched |-> before.matched \cup {r.id : r \in match},
            last |-> IF match = {} THEN id ELSE before.last]

\* The paths are visited in order.
Scanned ==
  LET Visit[p \in 0 .. PathCount] ==
        IF p = 0 THEN [rows |-> {}, matched |-> {}, last |-> lastId]
        ELSE VisitPath(p, Visit[p - 1])
  IN  Visit[PathCount]

\* Rows nothing was matched with are deleted, except at a path that exists.
\* (The mutant deletes none.)
MutantKept == {r \in rows : r.id \notin Scanned.matched}

Kept == {r \in rows : r.path \in ListedPaths /\ r.id \notin Scanned.matched}

ScanRows(c) ==
  /\ pc[c] = "begin" /\ op[c].kind = "scan"
  /\ ArchiveFiles = {}
  /\ Scanned.last <= MaxRows
  /\ rows' = Scanned.rows \cup Kept
  /\ lastId' = Scanned.last
  /\ Goto(c, "dirty")
  /\ UNCHANGED <<files, index, version, op, truth>> /\ Harmless

-----------------------------------------------------------------------------
(* Writing an archive's content (writeWikiGraphLibraryArchive) and replacing *)
(* it (replaceWikiGraphLibraryArchive).  They do not recover first.         *)

\* Replacing a file marks the index dirty before it changes anything.
StartWrite(c) ==
  /\ pc[c] = "held"
  /\ \E kind \in Does[c] \cap {"write", "replace"}, id \in 1 .. MaxRows :
       /\ Resolves(id)
       /\ LET entry == folder[Row(id).path]
          IN  /\ entry.content \in Contents
              /\ op' = [op EXCEPT ![c] = [NoOp EXCEPT !.kind = kind, !.id = id,
                                              !.content = entry.content]]
              /\ Goto(c, IF kind = "replace" /\ entry.kind = "file"
                         THEN "pretouch" ELSE "change")
  /\ Unrecovered("archives")
  /\ UNCHANGED <<files, data, truth>> /\ LockUnchanged

\* The archive is published as a whole: by its coordinator, by the commit of a
\* directory, or by a rename.
PutContent(p, content) ==
  /\ folder' = [folder EXCEPT ![p].content = content]
  /\ truth' = [truth EXCEPT ![content[1]] = content]

ChangeContent(c) ==
  /\ pc[c] = "change"
  /\ version < MaxVersion
  /\ version' = version + 1
  /\ PutContent(Row(op[c].id).path, <<op[c].content[1], version + 1>>)
  /\ Goto(c, "touch")
  /\ UNCHANGED <<txn, rows, index, lastId, op>> /\ Harmless

\* (The mutant leaves the index as it is after the change.)
MutantTouch(c) ==
  /\ pc[c] \in {"pretouch", "touch", "retouch"}
  /\ index' = IF pc[c] = "pretouch" THEN Dirty ELSE index
  /\ Stale
  /\ Goto(c, CASE pc[c] = "pretouch" -> "change"
               [] pc[c] = "touch"    -> "refresh"
               [] pc[c] = "retouch"  -> "rerefresh")
  /\ UNCHANGED <<files, rows, version, lastId, op, truth>> /\ LockUnchanged

\* The index is dirty before the row tells the new token.
Touch(c) ==
  /\ pc[c] \in {"pretouch", "touch", "retouch"}
  /\ index' = Dirty /\ Stale
  /\ Goto(c, CASE pc[c] = "pretouch" -> "change"
               [] pc[c] = "touch"    -> "refresh"
               [] pc[c] = "retouch"  -> "rerefresh")
  /\ UNCHANGED <<files, rows, version, lastId, op, truth>> /\ LockUnchanged

Refresh(c) ==
  /\ pc[c] \in {"refresh", "rerefresh"}
  /\ LET r == Row(op[c].id)
     IN  rows' = (rows \ {r}) \cup
                   {NewRow(r.id, r.path, TokenAt(r.path), "present")}
  /\ Goto(c, "release")
  /\ UNCHANGED <<files, index, version, lastId, op, truth>> /\ Harmless

\* commitAtomicArchiveReplacement puts the file back that it has replaced.
Revert(c) ==
  /\ pc[c] = "revert"
  /\ PutContent(Row(op[c].id).path, op[c].content)
  /\ Goto(c, "retouch")
  /\ UNCHANGED <<txn, data, op>> /\ Harmless

Writing(c) ==
  \/ StartWrite(c) \/ ChangeContent(c)
  \/ Touch(c) \/ Refresh(c) \/ Revert(c)

-----------------------------------------------------------------------------
(* The index of the library *)

Readable(r) == r.status = "present" /\ Exists(r.path)

StartRebuild(c) ==
  /\ pc[c] = "held"
  /\ "rebuild" \in Does[c]
  /\ op' = [op EXCEPT ![c] = [@ EXCEPT !.kind = "rebuild"]]
  /\ Goto(c, "prepare")
  /\ UNCHANGED <<files, data, truth>> /\ Harmless

PrepareIndex(c) ==
  /\ pc[c] = "prepare"
  /\ index' = [status |-> "dirty", entries |-> {}] /\ Stale
  /\ Goto(c, "build")
  /\ UNCHANGED <<files, rows, version, lastId, op, truth>> /\ LockUnchanged

\* An archive whose token is not the row's stops the build.
BuildIndex(c) ==
  /\ pc[c] = "build"
  /\ IF \A r \in rows : Readable(r) => r.token = TokenAt(r.path)
     THEN /\ index' = [status |-> "current",
                       entries |-> {<<r.id, r.token>> :
                                      r \in {r \in rows : Readable(r)}}]
          /\ Unrecovered("index")
     ELSE UNCHANGED <<index, harm>>
  /\ Goto(c, "release")
  /\ UNCHANGED <<files, rows, version, lastId, op, truth>> /\ LockUnchanged

CleanIndex(c) ==
  /\ pc[c] = "held"
  /\ "clean" \in Does[c]
  /\ index' = [status |-> "missing", entries |-> {}] /\ Stale
  /\ Goto(c, "release")
  /\ UNCHANGED <<files, rows, version, lastId, op, truth>> /\ LockUnchanged

\* A query needs a current index, or fails.
Query(c) ==
  /\ pc[c] = "held"
  /\ "query" \in Does[c]
  /\ Goto(c, IF index.status = "current" THEN "query" ELSE "release")
  /\ UNCHANGED <<files, data, op, truth>> /\ Harmless

EndQuery(c) ==
  /\ pc[c] = "query"
  /\ Goto(c, "release")
  /\ UNCHANGED <<files, data, op, truth>> /\ Harmless

Indexing(c) ==
  \/ StartRebuild(c) \/ PrepareIndex(c) \/ BuildIndex(c)
  \/ CleanIndex(c) \/ Query(c) \/ EndQuery(c)

-----------------------------------------------------------------------------
(* Failures, crashes, other programs *)

\* The directory of a record that could not be written goes, if that works.
FailBegin(c) ==
  /\ c \in Failers
  /\ pc[c] \in {"record", "fill"}
  /\ \/ txn' = NoTxn
     \/ UNCHANGED txn
  /\ Goto(c, "release")
  /\ UNCHANGED <<folder, data, op, truth>> /\ Harmless

\* Any other failure of a transaction is undone at once, or rolled forward.
FailMutation(c) ==
  /\ c \in Failers
  /\ \/ pc[c] \in {"backup", "copy", "drop", "extract", "mark", "row", "finish"}
     \/ pc[c] = "dirty" /\ op[c].kind # "scan"
  /\ Interrupted(c)
  /\ Goto(c, "undo")
  /\ UNCHANGED <<files, data, op, truth>> /\ LockUnchanged

\* A recovery, a write or a build that fails leaves things as they are.
FailOther(c) ==
  /\ c \in Failers
  /\ \/ pc[c] \in {"recover", "undo", "restore", "unrestore", "untie", "ununtie",
                   "pretouch", "change", "revert", "retouch", "rerefresh",
                   "prepare", "build"}
     \/ pc[c] = "dirty" /\ op[c].kind = "scan"
  /\ Interrupted(c)
  /\ Goto(c, "release")
  /\ UNCHANGED <<files, data, op, truth>> /\ LockUnchanged

\* A file that was replaced is put back if the rest fails.
FailFinalize(c) ==
  /\ c \in Failers
  /\ pc[c] \in {"touch", "refresh"}
  /\ LET file == folder[Row(op[c].id).path].kind = "file"
     IN  Goto(c, IF op[c].kind = "replace" /\ file THEN "revert" ELSE "release")
  /\ UNCHANGED <<files, data, op, truth>> /\ Harmless

Failure(c) ==
  FailBegin(c) \/ FailMutation(c) \/ FailOther(c) \/ FailFinalize(c)

Crash(c) ==
  /\ CrashClient(c)
  /\ Interrupted(c)
  /\ op' = [op EXCEPT ![c] = NoOp]
  /\ UNCHANGED <<files, data, truth>>

\* Other programs rename and change archives in the folder.  (Bound: not while
\* a transaction or an operation with the write lock is under way.)
Undisturbed ==
  /\ Outside
  /\ ~txn.exists
  /\ \A c \in Clients : Holding(c) => Mode[c] = "read"

OutsideRename ==
  /\ Undisturbed
  /\ \E p, q \in Paths :
       /\ Exists(p) /\ ~Exists(q)
       /\ Arrives(TokenAt(p), q)
       /\ folder' = [folder EXCEPT ![q] = folder[p], ![p] = NoEntry]
  /\ UNCHANGED <<txn, data, op, truth, lock>>

OutsideWrite ==
  /\ Undisturbed
  /\ version < MaxVersion
  /\ version' = version + 1
  /\ \E p \in Paths :
       /\ folder[p].content \in Contents
       /\ PutContent(p, <<folder[p].content[1], version + 1>>)
  /\ UNCHANGED <<txn, rows, index, lastId, op, lock, harm>>

-----------------------------------------------------------------------------
\* One archive, known and indexed; the other paths are free.
Init ==
  /\ LockInit
  /\ \E kind \in {"file", "directory"} :
       folder = [p \in Paths |-> IF p = 1 THEN Entry(kind, <<1, 0>>) ELSE NoEntry]
  /\ txn = NoTxn
  /\ rows = {NewRow(1, 1, <<1, 0>>, "present")}
  /\ index = [status |-> "current", entries |-> {<<1, <<1, 0>>>>}]
  /\ op = [c \in Clients |-> NoOp]
  /\ version = 0
  /\ lastId = 1
  /\ truth = [a \in Archives |-> IF a = 1 THEN <<1, 0>> ELSE "none"]
  /\ harm = {}

\* The operation is over when its client asks for the lock again.  (Whether the
\* library is locked, isStateLocked, only garbage collection asks.)
LibraryLockStep ==
  /\ LockStep
  /\ UNCHANGED seen
  /\ \A c \in Clients : "query" \in Does[c] => owners'[c] <= MaxQueries
  /\ op' = [c \in Clients |-> IF pc'[c] \in {"idle", "wait"} THEN NoOp ELSE op[c]]
  /\ UNCHANGED <<files, data, truth, harm>>

\* An operation finds nothing to do, or its arguments do not resolve.
Reject(c) == Finish(c) /\ UNCHANGED <<files, data, op, truth, harm>>

AllSpent == Spent /\ UNCHANGED <<files, data, op, truth, harm>>

Next ==
  \/ LibraryLockStep
  \/ \E c \in Clients :
       \/ Reject(c)
       \/ StartMutation(c) \/ Recovery(c) \/ Membership(c) \/ ScanRows(c)
       \/ Writing(c) \/ Indexing(c)
       \/ Failure(c) \/ Crash(c)
  \/ OutsideRename \/ OutsideWrite
  \/ AllSpent

Spec == Init /\ [][Next]_vars

-----------------------------------------------------------------------------
\* Every variable keeps its type.
TypeOK ==
  /\ LockTypeOK
  /\ folder \in [Paths -> [kind : {"file", "directory"},
                           content : Contents \cup {Absent, Partial}]]
  /\ txn.backup \in Contents \cup {Absent, Partial}
  /\ \A r \in rows : r.id \in 1 .. lastId /\ r.path \in Paths
  /\ \A r, s \in rows : r.id = s.id => r = s
  /\ index.status \in {"missing", "dirty", "current"}
  /\ version \in 0 .. MaxVersion
  /\ lastId \in 1 .. MaxRows
  /\ harm \subseteq {"archives", "index"}

\* What cost no archive: the code promises nothing after it.
Safe == "archives" \notin harm

\* The content of every archive is in the folder, or a transaction whose record
\* will be found has a complete copy of it.
NothingLost ==
  \A a \in Archives :
    truth[a] \in Contents =>
      \/ \E p \in Paths : folder[p].content = truth[a]
      \/ /\ txn.exists /\ txn.record = "written"
         /\ txn.kind \in {"remove", "migrate"} /\ ~txn.published
         /\ txn.backup = truth[a]

\* No interruption of an addition, removal, move or migration, and no failure
\* of a recovery, loses the content of an archive, except in the windows of a
\* backup that is not complete and of a transaction directory that is being
\* removed, and when an archive is written before the next recovery.
ArchivesSurvive == Safe => NothingLost

\* Whatever was interrupted, with those exceptions, once no transaction is left
\* to recover the folder has no incomplete, removed or second copy of an archive.
NoRemains ==
  Safe /\ txn.record = "absent" =>
    /\ \A p \in Paths :
         Exists(p) => /\ folder[p].content \in Contents
                      /\ truth[folder[p].content[1]] = folder[p].content
    /\ \A p, q \in Paths :
         Exists(p) /\ folder[p].content = folder[q].content => p = q

\* A query that found the index current, and still has its lock, sees exactly
\* the content of every archive it can open: what was added, written, replaced
\* or found since the last build has made the index stale, even if the client
\* that did it was interrupted ("make the aggregate index observably stale
\* before any other fallible cross-database finalization is attempted").
\* Except: interruptions between new rows and the mark on the index, or as in
\* ArchivesSurvive; a build over a transaction that is not recovered; an archive
\* that comes back to a path where its row has stayed.
QueryCurrent ==
  \A c \in Clients :
    harm = {} /\ pc[c] = "query" /\ row[c] # "none" =>
      \A r \in rows :
        Readable(r) /\ r.token = TokenAt(r.path) =>
          {e \in index.entries : e[1] = r.id} = {<<r.id, r.token>>}

\* After a scan the rows describe the folder, whatever was renamed, changed or
\* left by interrupted operations: an archive has a row at its path with its
\* token, and no row is left without an entry.
ScanAgrees ==
  \A c \in Clients :
    Safe /\ pc[c] = "dirty" /\ op[c].kind = "scan" =>
      /\ \A p \in ListedPaths :
           \E r \in rows : r.path = p /\ r.token = TokenAt(p)
      /\ \A r \in rows : Exists(r.path)

-----------------------------------------------------------------------------
(* The library as its clients are to see it: AtomicLibrary *)

\* The directory does not tell what to do: its removal has begun, or the backup
\* is not complete.
Torn == txn.record = "written" /\ (BackupWindow \/ txn.torn)

\* The record says what to do.
Known == txn.record = "written" /\ ~Torn

\* The contents of the folder after a recovery.
Recovered ==
  [p \in Paths |->
     IF ~Known THEN folder[p].content
     ELSE IF txn.published
          THEN IF txn.kind \in {"move", "remove"} /\ p = txn.from THEN Absent
               ELSE folder[p].content
          ELSE IF txn.kind \in {"add", "move"} /\ p = txn.to THEN Absent
               ELSE IF /\ txn.kind \in {"remove", "migrate"} /\ p = txn.from
                       /\ txn.backup # Absent
                    THEN txn.backup ELSE folder[p].content]

\* With a transaction that is not published yet; about to change an archive in
\* its place, or to put back one that was replaced.
Asking(c) ==
  /\ pc[c] \in {"record", "fill", "backup", "copy", "drop", "extract", "mark"}
  /\ txn.kind # "migrate" /\ ~txn.published

Asked(kind, from, to, content) ==
  [kind |-> kind, from |-> from, to |-> to, content |-> content]

Requested ==
  [c \in Clients |->
     CASE pc[c] \in Outsiders -> Asked("out", 0, 0, Absent)
       [] Asking(c) -> Asked(txn.kind, txn.from, txn.to, op[c].content)
       [] pc[c] \in {"pretouch", "change"} ->
            Asked("change", Row(op[c].id).path, 0, Absent)
       [] pc[c] = "revert" ->
            Asked("restore", Row(op[c].id).path, 0, op[c].content)
       [] OTHER -> Asked("idle", 0, 0, Absent)]

Atomic == INSTANCE AtomicLibrary WITH
  contents <- Recovered,
  request <- Requested

\* File by file, with crashes and failures anywhere, an addition, a removal, a
\* move or a change takes effect in one step, while its client is at work: what a
\* recovery finishes ("finishes a published move by removing the old directory")
\* had already taken effect, what it undoes ("removes a partially added archive
\* before publication") never has.  A migration changes no archive.  The step
\* that costs an archive, and what follows it, is the exception.
ImplementsAtomicLibrary ==
  /\ Atomic!Init
  /\ [][Safe' => UNCHANGED <<Recovered, Requested>> \/ Atomic!Next]_vars
=============================================================================
