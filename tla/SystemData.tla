----------------------------- MODULE SystemData -----------------------------
(***************************************************************************)
(* The restore of a backup and the deletion of all data                    *)
(* (backend/src/system-data): one database transaction and a directory of  *)
(* uploaded files, which knows no transaction.                             *)
(*                                                                         *)
(* A restore unpacks the files of the archive beside the directory (pc =   *)
(* "stage"), rewrites the tables in a transaction ("insert"), copies the   *)
(* directory away ("mkdir", "backup"), empties it ("clear"), puts the      *)
(* unpacked files in place ("place"), measures them ("scan") and commits   *)
(* ("commit").  A failure rolls the transaction back and refills the       *)
(* directory from the copy: applyImportedUploads does so itself when it    *)
(* fails ("undoClear", "undoCopy"), importAllData does it afterwards       *)
(* ("backClear", "backCopy").  A deletion commits first and clears the     *)
(* directory then ("purge", "purgeCommit", "empty").                       *)
(*                                                                         *)
(* Meanwhile the server goes on answering: people upload files.  Every     *)
(* step can fail and the server can stop between any two.  The rows of     *)
(* the database count as one version, except those of single uploads.      *)
(***************************************************************************)
EXTENDS Naturals, FiniteSets

CONSTANTS Names,        \* the files archives consist of
          Versions,     \* what the database has held: backups of it exist
          Holds,        \* the files of each version
          Initial,      \* the version to begin with
          Uploads,      \* files people upload one by one
          None,         \* no file, no row, no data
          Own,          \* what a person has uploaded
          Idle,         \* no replacement
          MaxRuns,      \* bound: restores and deletions
          MaxFaults     \* bound: faults in one of them

Files == Names \cup Uploads
Content(v) == [n \in Files |-> IF v # None /\ n \in Names /\ n \in Holds[v]
                               THEN v ELSE None]
Directory == [Files -> Versions \cup {None, Own}]

ASSUME DataAssumption ==
  /\ Names \cap Uploads = {}
  /\ Holds \in [Versions -> SUBSET Names]
  /\ Initial \in Versions
  /\ None \notin Versions /\ Own \notin Versions
  /\ Idle \notin Versions /\ Idle # None /\ Own # None
  /\ MaxRuns \in Nat /\ MaxFaults \in Nat

VARIABLES
  db,           \* the version whose rows are committed
  uploadRows,   \* the uploads a committed row tells of
  live,         \* the directory of uploaded files
  pc,           \* where the replacement under way is
  goal,         \* the version it leads to, None for a deletion
  staged,       \* the unpacked files (sessionRoot)
  backup,       \* the copy of the directory (backupRoot)
  applied,      \* appliedUploads is set
  list,         \* the entries of a directory that are still to be worked off
  doomed,       \* the rows of uploads the open transaction deletes
  before,       \* history: version and directory when it began
  late,         \* history: uploads that arrived while one was under way
  faults,       \* history: what has gone wrong since it began
  runs          \* bound: how many have begun

disk == <<live, staged, backup>>
base == <<db, uploadRows, doomed>>
vars == <<db, uploadRows, live, pc, goal, staged, backup, applied, list,
          doomed, before, late, faults, runs>>

Empty == [n \in Files |-> None]
Present(d) == {n \in Files : d[n] # None}

TypeOK ==
  /\ db \in Versions \cup {None}
  /\ uploadRows \subseteq Uploads /\ doomed \subseteq uploadRows
  /\ late \subseteq Uploads
  /\ live \in Directory /\ staged \in Directory /\ backup \in Directory
  /\ pc \in {"idle", "stage", "insert", "mkdir", "backup", "clear",
             "place", "scan", "commit", "tidy", "undoClear", "undoCopy",
             "backClear", "backCopy", "sweep", "purge", "purgeCommit", "empty"}
  /\ goal \in Versions \cup {None}
  /\ applied \in BOOLEAN
  /\ list \subseteq Files
  /\ before \in [db : Versions \cup {None}, live : Directory]
  /\ faults \subseteq {"stage", "rewrite", "mkdir", "torn", "unread", "clear",
                       "place", "skipped", "uncleared", "scan", "commit", "answer",
                       "undo", "leftover", "crash"}
  /\ runs \in 0..MaxRuns

Init ==
  /\ db = Initial /\ live = Content(Initial)
  /\ uploadRows = {} /\ doomed = {} /\ late = {}
  /\ pc = "idle" /\ goal = None
  /\ staged = Empty /\ backup = Empty
  /\ applied = FALSE /\ list = {}
  /\ before = [db |-> Initial, live |-> Content(Initial)]
  /\ faults = {} /\ runs = 0

----------------------------------------------------------------------------
(* Beginning, failing, ending.                                             *)

Begin(v, at) ==
  /\ pc = "idle" /\ runs < MaxRuns
  /\ pc' = at /\ goal' = v
  /\ staged' = Empty /\ backup' = Empty /\ applied' = FALSE
  /\ list' = {} /\ doomed' = {} /\ faults' = {}
  /\ before' = [db |-> db, live |-> live]
  /\ runs' = runs + 1
  /\ UNCHANGED <<db, uploadRows, live, late>>

\* Password, confirmation and archive are in order.
BeginImport(v) == Begin(v, "stage") /\ v # None
BeginPurge == Begin(None, "purge")

Strike(f) == /\ Cardinality(faults) < MaxFaults
             /\ faults' = faults \cup {f}

\* a broken variant: the files stay exchanged although the rows come back
CatchOnlyRows ==
  /\ pc' = "sweep" /\ list' = {}
  /\ doomed' = {}

(* The catch block of importAllData: the transaction is rolled back, the   *)
(* directory is refilled if the files had been applied, the unpacked files *)
(* go.                                                                     *)
Catch ==
  /\ pc' = IF applied THEN "backClear" ELSE "sweep"
  /\ list' = IF applied THEN Present(live) ELSE {}
  /\ doomed' = {}

Fail(at, f) ==
  /\ pc = at
  /\ Strike(f)
  /\ Catch
  /\ UNCHANGED <<db, uploadRows, disk, goal, applied, before, late, runs>>

\* The catch block of applyImportedUploads, once the copy has been begun.
FailApplying(at, f) ==
  /\ pc = at
  /\ Strike(f)
  /\ pc' = "undoClear" /\ list' = Present(live)
  /\ UNCHANGED <<base, disk, goal, applied, before, late, runs>>

Sweep ==
  /\ pc = "sweep"
  /\ pc' = "idle"
  /\ staged' = IF "stage" \in faults THEN staged ELSE Empty
  /\ UNCHANGED <<base, live, backup, goal, applied, list, before, late,
                 faults, runs>>

----------------------------------------------------------------------------
(* A restore.                                                              *)

Unpack(n) ==
  /\ pc = "stage" /\ Content(goal)[n] # None
  /\ staged[n] = None
  /\ staged' = [staged EXCEPT ![n] = goal]
  /\ UNCHANGED <<base, live, pc, goal, backup, applied, list, before, late,
                 faults, runs>>

UnpackFails == Fail("stage", "stage")

DeleteRows ==
  /\ pc = "stage" /\ staged = Content(goal)
  /\ pc' = "insert" /\ doomed' = uploadRows
  /\ UNCHANGED <<db, uploadRows, disk, goal, applied, list, before, late,
                 faults, runs>>

InsertRows ==
  /\ pc = "insert"
  /\ pc' = "mkdir"
  /\ UNCHANGED <<base, disk, goal, applied, list, before, late, faults, runs>>

\* The superadmin's own row is missing, a row cannot be deleted or inserted.
RewriteFails == Fail("insert", "rewrite")

MakeBackupFails == Fail("mkdir", "mkdir")

\* a broken variant: only files that archives know are copied away
ListArchivedForBackup(unread) ==
  /\ pc = "mkdir"
  /\ pc' = "backup"
  /\ IF unread THEN Strike("unread") /\ list' = {}
     ELSE list' = Present(live) \cap Names /\ UNCHANGED faults
  /\ UNCHANGED <<base, disk, goal, applied, before, late, runs>>

\* readdir of the directory; its failure is taken for an empty directory.
ListForBackup(unread) ==
  /\ pc = "mkdir"
  /\ pc' = "backup"
  /\ IF unread THEN Strike("unread") /\ list' = {}
     ELSE list' = Present(live) /\ UNCHANGED faults
  /\ UNCHANGED <<base, disk, goal, applied, before, late, runs>>

BackUp(n) ==
  /\ pc = "backup" /\ n \in list
  /\ backup' = [backup EXCEPT ![n] = live[n]]
  /\ list' = list \ {n}
  /\ UNCHANGED <<base, live, pc, goal, staged, applied, before, late, faults,
                 runs>>

BackUpFails == FailApplying("backup", "torn")

BackedUp ==
  /\ pc = "backup" /\ list = {}
  /\ pc' = "clear" /\ list' = Present(live)
  /\ UNCHANGED <<base, disk, goal, applied, before, late, faults, runs>>

\* A listed entry is a folder: what arrives in it meanwhile may go with it.
Clear(n) ==
  /\ pc \in {"clear", "undoClear", "backClear", "empty"}
  /\ list # {} /\ n \in Present(live)
  /\ live' = [live EXCEPT ![n] = None]
  /\ list' = list \ {n}
  /\ UNCHANGED <<base, pc, goal, staged, backup, applied, before, late, faults,
                 runs>>

ClearFails == FailApplying("clear", "clear")

\* A directory that cannot be read counts as empty here, too.
SkipsClearing ==
  /\ pc \in {"clear", "undoClear", "backClear"} /\ list # {}
  /\ Strike("uncleared")
  /\ list' = {}
  /\ UNCHANGED <<base, disk, pc, goal, applied, before, late, runs>>

Cleared ==
  /\ pc = "clear" /\ list = {}
  /\ pc' = "place" /\ list' = Present(staged)
  /\ UNCHANGED <<base, disk, goal, applied, before, late, faults, runs>>

PutInPlace(n) ==
  /\ pc = "place" /\ n \in list
  /\ live' = [live EXCEPT ![n] = staged[n]]
  /\ list' = list \ {n}
  /\ UNCHANGED <<base, pc, goal, staged, backup, applied, before, late, faults,
                 runs>>

PutInPlaceFails == FailApplying("place", "place")

\* A folder of the unpacked files that cannot be read counts as empty.
SkipsFolder ==
  /\ pc = "place" /\ list # {}
  /\ Strike("skipped")
  /\ list' = {}
  /\ UNCHANGED <<base, disk, pc, goal, applied, before, late, runs>>

\* a broken variant: the copy is dropped as soon as the files are in place
AllInPlaceAtLast ==
  /\ pc = "place" /\ list = {}
  /\ pc' = "scan" /\ applied' = TRUE
  /\ backup' = Empty
  /\ UNCHANGED <<base, live, staged, goal, list, before, late, faults, runs>>

AllInPlace ==
  /\ pc = "place" /\ list = {}
  /\ pc' = "scan" /\ applied' = TRUE
  /\ UNCHANGED <<base, disk, goal, list, before, late, faults, runs>>

Scan ==
  /\ pc = "scan"
  /\ pc' = "commit"
  /\ UNCHANGED <<base, disk, goal, applied, list, before, late, faults, runs>>

ScanFails == Fail("scan", "scan")

Committed == /\ db' = goal
             /\ uploadRows' = uploadRows \ doomed
             /\ doomed' = {}

Commit ==
  /\ pc = "commit"
  /\ Committed
  /\ pc' = "tidy"
  /\ UNCHANGED <<disk, goal, applied, list, before, late, faults, runs>>

CommitFails == Fail("commit", "commit")

\* The database commits and its answer is lost: the code takes it for a failure.
CommitUnanswered ==
  /\ pc = "commit"
  /\ Strike("answer")
  /\ Committed
  /\ pc' = "backClear" /\ list' = Present(live)
  /\ UNCHANGED <<disk, goal, applied, before, late, runs>>

\* The copy and the unpacked files go; what cannot be removed is left.
Tidy ==
  /\ pc = "tidy"
  /\ pc' = "idle"
  /\ staged' = Empty /\ backup' = Empty
  /\ UNCHANGED <<base, live, goal, applied, list, before, late, faults, runs>>

----------------------------------------------------------------------------
(* restorePreviousUploads, from within applyImportedUploads or after it.   *)

UndoCleared ==
  /\ pc \in {"undoClear", "backClear"} /\ list = {}
  /\ pc' = IF pc = "undoClear" THEN "undoCopy" ELSE "backCopy"
  /\ list' = Present(backup)
  /\ UNCHANGED <<base, disk, goal, applied, before, late, faults, runs>>

CopyBack(n) ==
  /\ pc \in {"undoCopy", "backCopy"} /\ n \in list
  /\ live' = [live EXCEPT ![n] = backup[n]]
  /\ list' = list \ {n}
  /\ UNCHANGED <<base, pc, goal, staged, backup, applied, before, late, faults,
                 runs>>

CopiedBack ==
  /\ pc \in {"undoCopy", "backCopy"} /\ list = {}
  /\ pc' = "sweep"
  /\ doomed' = {}
  /\ UNCHANGED <<db, uploadRows, disk, goal, applied, list, before, late, faults,
                 runs>>

(* Within applyImportedUploads a failure leads to the catch block of       *)
(* importAllData, which has nothing to refill; in that block it ends the   *)
(* request before the unpacked files are removed.                          *)
UndoFails ==
  /\ pc \in {"undoClear", "undoCopy", "backClear", "backCopy"}
  /\ Strike("undo")
  /\ pc' = IF applied THEN "idle" ELSE "sweep"
  /\ list' = {} /\ doomed' = {}
  /\ UNCHANGED <<db, uploadRows, disk, goal, applied, before, late, runs>>

----------------------------------------------------------------------------
(* A deletion of everything.                                               *)

PurgeRows ==
  /\ pc = "purge"
  /\ pc' = "purgeCommit" /\ doomed' = uploadRows
  /\ UNCHANGED <<db, uploadRows, disk, goal, applied, list, before, late, faults,
                 runs>>

PurgeFails == Fail("purgeCommit", "rewrite")

PurgeCommit ==
  /\ pc = "purgeCommit"
  /\ Committed
  /\ pc' = "empty" /\ list' = Present(live)
  /\ UNCHANGED <<disk, goal, applied, before, late, faults, runs>>

\* The rows are gone for good, the files that remain are only reported.
ClearUploadsFails ==
  /\ pc = "empty"
  /\ Strike("leftover")
  /\ pc' = "idle" /\ list' = {}
  /\ UNCHANGED <<base, disk, goal, applied, before, late, runs>>

\* clearUploads verifies; a file that came meanwhile makes it an error.
Emptied ==
  /\ pc = "empty" /\ list = {}
  /\ pc' = "idle"
  /\ UNCHANGED <<base, disk, goal, applied, list, before, late, faults, runs>>

----------------------------------------------------------------------------
(* What happens beside it.                                                 *)

(* A row, then the file; UploadQuota has the steps in between.  Names are   *)
(* drawn at random: one that is still known is not drawn again.            *)
Upload(u) ==
  /\ u \notin uploadRows \cup late /\ live[u] = None
  /\ u \notin Present(before.live)
  /\ uploadRows' = uploadRows \cup {u}
  /\ live' = [live EXCEPT ![u] = Own]
  /\ late' = IF pc = "idle" THEN late ELSE late \cup {u}
  /\ UNCHANGED <<db, doomed, pc, goal, staged, backup, applied, list, before,
                 faults, runs>>

\* The open transaction is rolled back, the directories stay as they are.
Crash ==
  /\ pc # "idle"
  /\ Strike("crash")
  /\ pc' = "idle" /\ list' = {} /\ doomed' = {}
  /\ UNCHANGED <<db, uploadRows, disk, goal, applied, before, late, runs>>

Next ==
  \/ \E v \in Versions : BeginImport(v)
  \/ BeginPurge
  \/ \E n \in Names : Unpack(n)
  \/ \E n \in Files : BackUp(n) \/ Clear(n) \/ PutInPlace(n) \/ CopyBack(n)
  \/ \E unread \in BOOLEAN : ListForBackup(unread)
  \/ UnpackFails \/ DeleteRows \/ InsertRows \/ RewriteFails
  \/ MakeBackupFails \/ BackUpFails \/ BackedUp \/ ClearFails \/ SkipsClearing
  \/ Cleared \/ PutInPlaceFails \/ SkipsFolder \/ AllInPlace \/ Scan \/ ScanFails
  \/ Commit \/ CommitFails \/ CommitUnanswered \/ Tidy
  \/ UndoCleared \/ CopiedBack \/ UndoFails \/ Sweep
  \/ PurgeRows \/ PurgeFails \/ PurgeCommit \/ ClearUploadsFails \/ Emptied
  \/ \E u \in Uploads : Upload(u)
  \/ Crash

Spec == Init /\ [][Next]_vars

----------------------------------------------------------------------------
(* Until a restore has committed, every file there was when it began is in *)
(* the directory or in the copy of it, whatever fails and even when the    *)
(* server stops - unless copying itself broke off or the directory could   *)
(* not be read, which the code does not notice.  An administrator could    *)
(* still recover everything by hand.                                       *)
(* Code: applyImportedUploads, restorePreviousUploads, removePath.         *)
NothingLost ==
  goal # None /\ pc # "tidy" /\ ~(pc = "idle" /\ db = goal)
  /\ faults \cap {"torn", "unread", "answer"} = {}
    => \A n \in Present(before.live) :
         before.live[n] \in {live[n], backup[n]}

(* A registered upload without its file arrived while a restore or a       *)
(* deletion was under way, unless a fault has spoilt the copy: what was    *)
(* there before comes back with its row or goes with it.                   *)
(* Code: the order of the transaction, the copy and clearUploads.          *)
OnlyLateUploadsLost ==
  pc = "idle" /\ faults \subseteq {"stage", "rewrite", "mkdir", "clear", "place",
                                   "scan", "commit"}
    => \A u \in uploadRows : live[u] = None /\ before.live[u] # None => u \in late

(* A deletion takes no file as long as its rows could still come back.     *)
(* Code: purgeAllData clears the directory only after the commit.          *)
FilesFollowRows ==
  goal = None /\ db # None => \A n \in Present(before.live) :
                                live[n] = before.live[n]

----------------------------------------------------------------------------
(* Rows and files are replaced together or not at all, as Replacement has  *)
(* it, with respect to what a person finds before and after it; uploads of *)
(* single people are no part of it.  The faults that void this are named.  *)

Archived(d) == [n \in Names |-> d[n]]
Harmful == {"torn", "unread", "uncleared", "skipped", "answer", "undo",
            "leftover", "crash"}

Abstract ==
  INSTANCE Replacement
  WITH Versions <- Versions \cup {None},
       FilesOf <- [v \in Versions \cup {None} |-> Archived(Content(v))],
       AllFiles <- [Names -> Versions \cup {None, Own}],
       db <- IF pc = "idle" THEN db ELSE before.db,
       files <- Archived(IF pc = "idle" THEN live ELSE before.live),
       goal <- IF pc = "idle" THEN Idle ELSE goal,
       harmed <- faults \cap Harmful # {}

(* Every behaviour of the code is one of the abstract replacement.         *)
(* Code: importAllData and purgeAllData with the upload store.             *)
ReplacedAsOne == Abstract!ASpec
=============================================================================
