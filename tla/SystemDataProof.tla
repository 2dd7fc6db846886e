-------------------------- MODULE SystemDataProof --------------------------
(***************************************************************************)
(* What holds of a restore or a deletion for any files, versions and       *)
(* numbers of faults.  The invariant says, phase by phase, where the files *)
(* that were there at the beginning are.                                   *)
(***************************************************************************)
EXTENDS SystemData, TLAPS

\* A file of archives, or an upload that was there at the beginning.
Counts(n) == n \in Names \/ before.live[n] # None

Sound == faults \cap Harmful = {}

Phases ==
  /\ pc \in {"purge", "purgeCommit", "empty"} => goal = None
  /\ pc \notin {"idle", "sweep", "purge", "purgeCommit", "empty"} => goal # None
  /\ pc \in {"scan", "commit", "tidy", "backClear", "backCopy"} => applied
  /\ pc \in {"stage", "insert", "mkdir", "backup", "clear", "place", "purge",
             "purgeCommit", "undoClear", "undoCopy"} => ~applied

Rows ==
  /\ pc # "idle" => db \in {before.db, goal}
  /\ pc \notin {"idle", "tidy", "empty"} /\ "answer" \notin faults => db = before.db
  /\ pc \in {"tidy", "empty"} => db = goal

\* Until the directory is emptied it is as it was.
Untouched ==
  (pc \in {"stage", "insert", "mkdir", "backup", "purge", "purgeCommit"}
     \/ (pc = "sweep" /\ Sound))
  => \A n \in Files : Counts(n) => live[n] = before.live[n]

\* From then on the copy holds what was there.
CopyHolds ==
  /\ pc \in {"stage", "insert", "mkdir"} => backup = Empty
  /\ pc = "backup" /\ "unread" \notin faults
       => \A n \in Files \ list : Counts(n) => backup[n] = before.live[n]
  /\ pc \in {"clear", "place", "scan", "commit", "undoClear", "undoCopy",
             "backClear", "backCopy"} /\ faults \cap {"torn", "unread"} = {}
       => \A n \in Files : Counts(n) => backup[n] = before.live[n]

\* What has been cleared, put in place and copied back so far.
Worked ==
  /\ pc \in {"clear", "undoClear", "backClear", "empty"} /\ Sound
       => \A n \in Names \ list : live[n] = None
  /\ pc \in {"insert", "mkdir", "backup", "clear", "place"} => staged = Content(goal)
  /\ pc = "place" /\ Sound
       => \A n \in Names \ list : live[n] = Content(goal)[n]
  /\ pc \in {"scan", "commit", "tidy"} /\ Sound
       => \A n \in Names : live[n] = Content(goal)[n]
  /\ pc \in {"undoCopy", "backCopy"} /\ Sound
       => \A n \in Files \ list : Counts(n) => live[n] = before.live[n]

IInv == /\ TypeOK /\ Phases /\ Rows /\ Untouched /\ CopyHolds /\ Worked
        /\ NothingLost /\ FilesFollowRows

USE DEF Files, Directory, Empty, base, disk

----------------------------------------------------------------------------
(* The invariant, action by action.                                        *)

LEMMA ContentType == \A v \in Versions \cup {None} : Content(v) \in Directory
  BY DataAssumption DEF Content

LEMMA Start == Init => IInv
<1> SUFFICES ASSUME Init PROVE IInv
  OBVIOUS
<1>1. Content(Initial) \in Directory
  BY DataAssumption, ContentType
<1>2. Empty \in Directory
  OBVIOUS
<1>3. TypeOK
  <2> HIDE DEF Directory, Files, Empty
  <2>1. [db |-> Initial, live |-> Content(Initial)]
          \in [db : Versions \cup {None}, live : Directory]
    BY DataAssumption, <1>1
  <2>2. live \in Directory /\ staged \in Directory /\ backup \in Directory
    BY <1>1, <1>2 DEF Init
  <2>3. before \in [db : Versions \cup {None}, live : Directory]
    BY <2>1 DEF Init
  <2>4. runs \in 0 .. MaxRuns /\ db \in Versions \cup {None}
    BY DataAssumption DEF Init
  <2>5. list \subseteq Files /\ goal \in Versions \cup {None}
    BY DEF Init
  <2> QED
    BY <2>2, <2>3, <2>4, <2>5 DEF Init, TypeOK
<1>4. Phases /\ Rows /\ Untouched /\ CopyHolds /\ Worked
  BY DEF Init, Phases, Rows, Untouched, CopyHolds, Worked
<1>5. NothingLost /\ FilesFollowRows
  BY DataAssumption DEF Init, NothingLost, FilesFollowRows
<1> QED
  BY <1>3, <1>4, <1>5 DEF IInv

\* Listing the directory changes the phase, the list and perhaps the faults.
LEMMA ListForBackupKeeps ==
  ASSUME IInv, NEW unread \in BOOLEAN, ListForBackup(unread)
  PROVE  IInv'
<1> HIDE DEF Directory, Files, Empty
<1>1. /\ pc = "mkdir" /\ pc' = "backup"
      /\ UNCHANGED <<db, uploadRows, doomed, live, staged, backup, goal, applied,
                     before, late, runs>>
  BY DEF ListForBackup
<1>2. /\ TypeOK /\ Phases /\ Rows /\ Untouched /\ CopyHolds /\ Worked
      /\ NothingLost /\ FilesFollowRows
  BY DEF IInv
<1>3. \/ unread /\ faults' = faults \cup {"unread"} /\ list' = {}
      \/ faults' = faults /\ list' = Present(live)
  BY DEF ListForBackup, Strike
<1>4. TypeOK'
  <2>1. list' \subseteq Files
    BY <1>3 DEF Present
  <2>2. faults' \subseteq {"stage", "rewrite", "mkdir", "torn", "unread", "clear",
                          "place", "skipped", "uncleared", "scan", "commit",
                          "answer", "undo", "leftover", "crash"}
    BY <1>2, <1>3 DEF TypeOK
  <2> QED
    BY <1>1, <1>2, <2>1, <2>2 DEF TypeOK
<1>5. Phases'
  BY <1>1, <1>2 DEF Phases
<1>6. Rows'
  BY <1>1, <1>2, <1>3 DEF Rows
<1>7. Untouched'
  BY <1>1, <1>2 DEF Untouched, Counts
<1>8. CopyHolds'
  <2>1. CASE "unread" \in faults'
    BY <1>1, <2>1 DEF CopyHolds
  <2>2. CASE "unread" \notin faults'
    <3>1. list' = Present(live)
      BY <1>3, <2>2
    <3>2. \A n \in Files : Counts(n) => live[n] = before.live[n]
      BY <1>1, <1>2 DEF Untouched
    <3>3. \A n \in Files \ list' : Counts(n) => backup[n] = before.live[n]
      BY <1>1, <1>2, <3>1, <3>2 DEF CopyHolds, Present, Empty
    <3> QED
      BY <1>1, <3>3 DEF CopyHolds, Counts
  <2> QED
    BY <2>1, <2>2
<1>9. Worked'
  BY <1>1, <1>2 DEF Worked
<1>10. NothingLost'
  BY <1>1, <1>2, <1>3 DEF NothingLost, Present
<1>11. FilesFollowRows'
  BY <1>1, <1>2 DEF FilesFollowRows, Present
<1> QED
  BY <1>4, <1>5, <1>6, <1>7, <1>8, <1>9, <1>10, <1>11 DEF IInv

LEMMA Preserved == IInv /\ [Next]_vars => IInv'
<1> SUFFICES ASSUME IInv, [Next]_vars PROVE IInv'
  OBVIOUS
<1> USE DataAssumption, ContentType
<1> USE DEF IInv, TypeOK, Phases, Rows, Untouched, CopyHolds, Worked, Sound,
            Counts, NothingLost, FilesFollowRows, Harmful, Present, Content
<1>1. ASSUME NEW v \in Versions, BeginImport(v) PROVE IInv'
  <2> USE DEF Begin
  <2> HIDE DEF Content, Empty
  <2>0. Empty \in Directory
    BY DEF Empty
  <2>1. TypeOK'
    <3> HIDE DEF Directory, Files, Phases, Rows, Untouched, CopyHolds, Worked,
                 NothingLost, FilesFollowRows
    <3>1. [db |-> db, live |-> live] \in [db : Versions \cup {None}, live : Directory]
      OBVIOUS
    <3>2. runs' \in 0 .. MaxRuns
      BY <1>1 DEF BeginImport
    <3> QED
      BY <1>1, <2>0, <3>1, <3>2 DEF BeginImport
  <2>2. (Phases /\ Rows)'
    BY <1>1 DEF BeginImport
  <2>3. (Untouched /\ CopyHolds)'
    BY <1>1 DEF BeginImport
  <2>4. Worked'
    BY <1>1 DEF BeginImport
  <2>5. (NothingLost /\ FilesFollowRows)'
    BY <1>1 DEF BeginImport
  <2> HIDE DEF TypeOK, Phases, Rows, Untouched, CopyHolds, Worked, NothingLost,
               FilesFollowRows
  <2> QED
    BY <2>1, <2>2, <2>3, <2>4, <2>5
<1>2. CASE BeginPurge
  <2> USE DEF Begin
  <2> HIDE DEF Content, Empty
  <2>0. Empty \in Directory
    BY DEF Empty
  <2>1. TypeOK'
    <3> HIDE DEF Directory, Files, Phases, Rows, Untouched, CopyHolds, Worked,
                 NothingLost, FilesFollowRows
    <3>1. [db |-> db, live |-> live] \in [db : Versions \cup {None}, live : Directory]
      OBVIOUS
    <3>2. runs' \in 0 .. MaxRuns
      BY <1>2 DEF BeginPurge
    <3> QED
      BY <1>2, <2>0, <3>1, <3>2 DEF BeginPurge
  <2>2. (Phases /\ Rows)'
    BY <1>2 DEF BeginPurge
  <2>3. (Untouched /\ CopyHolds)'
    BY <1>2 DEF BeginPurge
  <2>4. Worked'
    BY <1>2 DEF BeginPurge
  <2>5. (NothingLost /\ FilesFollowRows)'
    BY <1>2 DEF BeginPurge
  <2> HIDE DEF TypeOK, Phases, Rows, Untouched, CopyHolds, Worked, NothingLost,
               FilesFollowRows
  <2> QED
    BY <2>1, <2>2, <2>3, <2>4, <2>5
<1>3. ASSUME NEW n \in Names, Unpack(n) PROVE IInv'
  BY <1>3 DEF Unpack
<1>4. ASSUME NEW n \in Files, BackUp(n) PROVE IInv'
  BY <1>4 DEF BackUp
<1>5. ASSUME NEW n \in Files, Clear(n) PROVE IInv'
  BY <1>5 DEF Clear
<1>6. ASSUME NEW n \in Files, PutInPlace(n) PROVE IInv'
  BY <1>6 DEF PutInPlace
<1>7. ASSUME NEW n \in Files, CopyBack(n) PROVE IInv'
  BY <1>7 DEF CopyBack
<1>8. ASSUME NEW unread \in BOOLEAN, ListForBackup(unread) PROVE IInv'
  BY <1>8, ListForBackupKeeps
<1>9. CASE UnpackFails
  BY <1>9 DEF Fail, Strike, Catch, UnpackFails
<1>10. CASE DeleteRows
  BY <1>10 DEF DeleteRows
<1>11. CASE InsertRows
  BY <1>11 DEF InsertRows
<1>12. CASE RewriteFails
  BY <1>12 DEF Fail, Strike, Catch, RewriteFails
<1>13. CASE MakeBackupFails
  BY <1>13 DEF Fail, Strike, Catch, MakeBackupFails
<1>14. CASE BackUpFails
  BY <1>14 DEF FailApplying, Strike, Present, BackUpFails
<1>15. CASE BackedUp
  BY <1>15 DEF BackedUp
<1>16. CASE ClearFails
  BY <1>16 DEF FailApplying, Strike, Present, ClearFails
<1>17. CASE SkipsClearing
  BY <1>17 DEF Strike, SkipsClearing
<1>18. CASE Cleared
  BY <1>18 DEF Cleared
<1>19. CASE PutInPlaceFails
  BY <1>19 DEF FailApplying, Strike, Present, PutInPlaceFails
<1>20. CASE SkipsFolder
  BY <1>20 DEF Strike, SkipsFolder
<1>21. CASE AllInPlace
  BY <1>21 DEF AllInPlace
<1>22. CASE Scan
  BY <1>22 DEF Scan
<1>23. CASE ScanFails
  BY <1>23 DEF Fail, Strike, Catch, ScanFails
<1>24. CASE Commit
  BY <1>24 DEF Committed, Commit
<1>25. CASE CommitFails
  BY <1>25 DEF Fail, Strike, Catch, CommitFails
<1>26. CASE CommitUnanswered
  BY <1>26 DEF Strike, Committed, CommitUnanswered
<1>27. CASE Tidy
  BY <1>27 DEF Tidy
<1>28. CASE UndoCleared
  BY <1>28 DEF UndoCleared
<1>29. CASE CopiedBack
  BY <1>29 DEF CopiedBack
<1>30. CASE UndoFails
  BY <1>30 DEF Strike, UndoFails
<1>31. CASE Sweep
  BY <1>31 DEF Sweep
<1>32. CASE PurgeRows
  BY <1>32 DEF PurgeRows
<1>33. CASE PurgeFails
  BY <1>33 DEF Fail, Strike, Catch, PurgeFails
<1>34. CASE PurgeCommit
  BY <1>34 DEF Committed, PurgeCommit
<1>35. CASE ClearUploadsFails
  BY <1>35 DEF Strike, ClearUploadsFails
<1>36. CASE Emptied
  BY <1>36 DEF Emptied
<1>37. ASSUME NEW u \in Uploads, Upload(u) PROVE IInv'
  BY <1>37 DEF Upload
<1>38. CASE Crash
  BY <1>38 DEF Strike, Crash
<1>39. CASE UNCHANGED vars
  BY <1>39 DEF vars
<1> QED
  BY <1>1, <1>2, <1>3, <1>4, <1>5, <1>6, <1>7, <1>8, <1>9, <1>10, <1>11, <1>12, <1>13, <1>14, <1>15, <1>16, <1>17, <1>18, <1>19, <1>20, <1>21, <1>22, <1>23, <1>24, <1>25, <1>26, <1>27, <1>28, <1>29, <1>30, <1>31, <1>32, <1>33, <1>34, <1>35, <1>36, <1>37, <1>38, <1>39 DEF Next

(* The invariant holds for every number of files, versions, replacements   *)
(* and faults.                                                             *)
THEOREM Invariance == Spec => []IInv
  BY Start, Preserved, PTL DEF Spec

(* Every variable keeps its type: importAllData, purgeAllData and the      *)
(* upload store.                                                           *)
THEOREM TypeCorrect == Spec => []TypeOK
<1>1. IInv => TypeOK
  BY DEF IInv
<1> QED
  BY <1>1, Invariance, PTL

(* Until a restore has committed, no file there was is gone from both the  *)
(* directory and its copy: applyImportedUploads, restorePreviousUploads.   *)
THEOREM FilesAreKept == Spec => []NothingLost
<1>1. IInv => NothingLost
  BY DEF IInv
<1> QED
  BY <1>1, Invariance, PTL

(* A purge takes files only after their rows are gone: purgeAllData.       *)
THEOREM RowsGoFirst == Spec => []FilesFollowRows
<1>1. IInv => FilesFollowRows
  BY DEF IInv
<1> QED
  BY <1>1, Invariance, PTL

----------------------------------------------------------------------------
(* The uploads that arrive beside a replacement.                           *)

\* Once the rows of uploads are deleted, only those of late ones are spared.
Spared ==
  /\ pc \in {"insert", "mkdir", "backup", "clear", "place", "scan", "commit",
            "purgeCommit"} => uploadRows \ doomed \subseteq late
  /\ pc \in {"tidy", "empty"} => uploadRows \subseteq late

LEMMA SparedKept == IInv /\ Spared /\ [Next]_vars => Spared'
<1> SUFFICES ASSUME IInv, Spared, [Next]_vars PROVE Spared'
  OBVIOUS
<1>2. ASSUME NEW v \in Versions, BeginImport(v) PROVE Spared'
  BY <1>2 DEF BeginImport, Begin, Spared
<1>3. CASE BeginPurge
  BY <1>3 DEF BeginPurge, Begin, Spared
<1>4. ASSUME NEW n \in Files, Unpack(n) \/ BackUp(n) \/ Clear(n) \/ PutInPlace(n)
                              \/ CopyBack(n)
      PROVE  Spared'
  BY <1>4 DEF Unpack, BackUp, Clear, PutInPlace, CopyBack, Spared
<1>5. ASSUME NEW unread \in BOOLEAN, ListForBackup(unread) PROVE Spared'
  BY <1>5 DEF ListForBackup, Spared
<1>6. CASE UnpackFails \/ RewriteFails \/ MakeBackupFails \/ ScanFails \/ CommitFails
           \/ PurgeFails
  BY <1>6 DEF UnpackFails, RewriteFails, MakeBackupFails, ScanFails, CommitFails,
              PurgeFails, Fail, Catch, Spared
<1>7. CASE BackUpFails \/ ClearFails \/ PutInPlaceFails
  BY <1>7 DEF BackUpFails, ClearFails, PutInPlaceFails, FailApplying, Spared
<1>8. CASE DeleteRows \/ PurgeRows
  BY <1>8 DEF DeleteRows, PurgeRows, Spared
<1>9. CASE InsertRows \/ BackedUp \/ Cleared \/ AllInPlace \/ Scan \/ SkipsFolder
           \/ SkipsClearing
  BY <1>9 DEF InsertRows, BackedUp, Cleared, AllInPlace, Scan, SkipsFolder,
              SkipsClearing, Spared
<1>10. CASE Commit \/ PurgeCommit \/ CommitUnanswered
  BY <1>10 DEF Commit, PurgeCommit, CommitUnanswered, Committed, Spared
<1>11. CASE Tidy \/ Sweep \/ ClearUploadsFails \/ Emptied \/ Crash
  BY <1>11 DEF Tidy, Sweep, ClearUploadsFails, Emptied, Crash, Spared
<1>12. CASE UndoCleared \/ CopiedBack \/ UndoFails
  BY <1>12 DEF UndoCleared, CopiedBack, UndoFails, Spared
<1>13. ASSUME NEW u \in Uploads, Upload(u) PROVE Spared'
  <2>1. CASE pc = "idle"
    BY <1>13, <2>1 DEF Upload, Spared
  <2>2. CASE pc # "idle"
    BY <1>13, <2>2 DEF Upload, Spared
  <2> QED
    BY <2>1, <2>2
<1>14. CASE UNCHANGED vars
  BY <1>14 DEF vars, Spared
<1> QED
  BY <1>2, <1>3, <1>4, <1>5, <1>6, <1>7, <1>8, <1>9, <1>10, <1>11, <1>12, <1>13,
     <1>14 DEF Next

Mild == {"stage", "rewrite", "mkdir", "clear", "place", "scan", "commit"}

\* A step that ends a replacement after which only mild faults are on record.
LEMMA OnlyLateAtEnd ==
  ASSUME IInv, Spared, pc \in {"sweep", "tidy", "empty"}, faults \subseteq Mild,
         UNCHANGED <<live, uploadRows, before, late>>
  PROVE  OnlyLateUploadsLost'
<1> USE DEF OnlyLateUploadsLost
<1>1. CASE pc = "sweep"
  <2>1. Sound
    BY DEF Sound, Harmful, Mild
  <2>2. \A n \in Files : before.live[n] # None => live[n] = before.live[n]
    BY <1>1, <2>1 DEF IInv, Untouched, Counts
  <2>3. uploadRows \subseteq Files
    BY DEF IInv, TypeOK
  <2> QED
    BY <2>2, <2>3
<1>2. CASE pc # "sweep"
  BY <1>2 DEF Spared
<1> QED
  BY <1>1, <1>2

LEMMA OnlyLateKept ==
  IInv /\ Spared /\ OnlyLateUploadsLost /\ [Next]_vars => OnlyLateUploadsLost'
<1> SUFFICES ASSUME IInv, Spared, OnlyLateUploadsLost, [Next]_vars,
                    pc' = "idle", faults' \subseteq Mild
             PROVE  OnlyLateUploadsLost'
  BY DEF OnlyLateUploadsLost, Mild
<1>1. CASE pc = "idle"
  <2>1. ASSUME NEW u \in Uploads, Upload(u) PROVE OnlyLateUploadsLost'
    <3>1. pc = "idle" /\ uploadRows' = uploadRows \cup {u}
          /\ UNCHANGED <<before, late, faults, pc>> /\ live[u] = None
          /\ live' = [live EXCEPT ![u] = Own]
      BY <1>1, <2>1 DEF Upload
    <3>2. live \in [Files -> Versions \cup {None, Own}] /\ uploadRows \subseteq Uploads
          /\ u \in Files
      BY DEF IInv, TypeOK
    <3>3. live'[u] # None /\ \A w \in Uploads \ {u} : live'[w] = live[w]
      BY <3>1, <3>2, DataAssumption
    <3> QED
      BY <3>1, <3>2, <3>3 DEF OnlyLateUploadsLost, Mild
  <2>2. CASE UNCHANGED vars
    BY <2>2 DEF vars, OnlyLateUploadsLost
  <2>3. \/ UNCHANGED vars \/ \E u \in Uploads : Upload(u)
    BY <1>1
    DEF Next, BeginImport, BeginPurge, Begin, Unpack, BackUp, Clear, PutInPlace,
        CopyBack, ListForBackup, UnpackFails, DeleteRows, InsertRows, RewriteFails,
        MakeBackupFails, BackUpFails, BackedUp, ClearFails, SkipsClearing, Cleared,
        PutInPlaceFails, SkipsFolder, AllInPlace, Scan, ScanFails, Commit,
        CommitFails, CommitUnanswered, Tidy, UndoCleared, CopiedBack, UndoFails,
        Sweep, PurgeRows, PurgeFails, PurgeCommit, ClearUploadsFails, Emptied,
        Crash, Fail, FailApplying
  <2> QED
    BY <2>1, <2>2, <2>3
<1>2. CASE pc # "idle"
  <2>1. Sweep \/ Tidy \/ Emptied \/ UndoFails \/ ClearUploadsFails \/ Crash
    BY <1>2
    DEF Next, BeginImport, BeginPurge, Begin, Unpack, BackUp, Clear, PutInPlace,
        CopyBack, ListForBackup, UnpackFails, DeleteRows, InsertRows, RewriteFails,
        MakeBackupFails, BackUpFails, BackedUp, ClearFails, SkipsClearing, Cleared,
        PutInPlaceFails, SkipsFolder, AllInPlace, Scan, ScanFails, Commit,
        CommitFails, CommitUnanswered, UndoCleared, CopiedBack,
        PurgeRows, PurgeFails, PurgeCommit, Upload, Fail, FailApplying, Catch, vars
  <2>2. ~UndoFails /\ ~ClearUploadsFails /\ ~Crash
    BY DEF UndoFails, ClearUploadsFails, Crash, Strike, Mild
  <2>3. /\ pc \in {"sweep", "tidy", "empty"} /\ faults' = faults
        /\ UNCHANGED <<live, uploadRows, before, late>>
    BY <2>1, <2>2 DEF Sweep, Tidy, Emptied
  <2> QED
    BY <2>3, OnlyLateAtEnd
<1> QED
  BY <1>1, <1>2

(* A registered upload without its file arrived while a restore or a       *)
(* deletion was under way: the order of the transaction, the copy and      *)
(* clearUploads.                                                           *)
THEOREM OnlyLateOnesLost == Spec => []OnlyLateUploadsLost
<1>1. Init => Spared /\ OnlyLateUploadsLost
  BY DEF Init, Spared, OnlyLateUploadsLost
<1> QED
  BY <1>1, Invariance, SparedKept, OnlyLateKept, PTL DEF Spec

----------------------------------------------------------------------------
(* The refinement: a step of the code begins, ends or breaks the abstract  *)
(* replacement, harms it, or leaves it alone.                              *)

LEMMA AbstractStart == Init => Abstract!AInit
  BY DataAssumption DEF Init, Abstract!AInit, Archived, Harmful, Content

\* A step within a replacement: at most a fault that voids its promise.
Within == /\ pc # "idle" /\ pc' # "idle"
          /\ goal' = goal /\ before' = before /\ faults \subseteq faults'

LEMMA WithinStutters == IInv /\ Within => Abstract!Harm \/ UNCHANGED Abstract!avars
  BY DataAssumption
  DEF IInv, TypeOK, Within, Abstract!Harm, Abstract!avars, Archived, Harmful

LEMMA BeginRefined ==
  ASSUME IInv, NEW v \in Versions \cup {None}, NEW at, at # "idle", Begin(v, at)
  PROVE  Abstract!Begin(v)
  BY DataAssumption DEF IInv, Begin, Abstract!Begin, Archived

LEMMA SoundEnd ==
  ASSUME IInv, pc = "sweep", pc' = "idle", Sound,
         UNCHANGED <<db, live, faults>>
  PROVE  Abstract!GiveUp
<1>1. goal # Idle
  BY DataAssumption DEF IInv, TypeOK
<1>2. db = before.db
  BY DEF IInv, Rows, Sound, Harmful
<1>3. Archived(live) = Archived(before.live)
  BY DEF IInv, Untouched, Counts, Archived
<1> QED
  BY <1>1, <1>2, <1>3 DEF Abstract!GiveUp, Archived

LEMMA CompleteEnd ==
  ASSUME IInv, Sound, pc = "tidy" \/ (pc = "empty" /\ list = {}), pc' = "idle",
         UNCHANGED <<db, live, faults>>
  PROVE  Abstract!Replace
<1>1. goal # Idle /\ goal \in Versions \cup {None}
  BY DataAssumption DEF IInv, TypeOK
<1>2. db = goal
  BY DEF IInv, Rows
<1>3. \A n \in Names : live[n] = Content(goal)[n]
  BY DEF IInv, Worked, Phases, Content
<1>4. Archived(live) = [v \in Versions \cup {None} |-> Archived(Content(v))][goal]
  BY <1>1, <1>3 DEF Archived
<1> QED
  BY <1>1, <1>2, <1>4 DEF Abstract!Replace, Archived

LEMMA BrokenEnd ==
  ASSUME IInv, pc # "idle", pc' = "idle", faults' \cap Harmful # {},
         UNCHANGED <<db, live>>
  PROVE  Abstract!Break
<1>1. goal # Idle
  BY DataAssumption DEF IInv, TypeOK
<1>2. db \in {before.db, goal}
  BY DEF IInv, Rows
<1>3. Archived(live) \in [Names -> Versions \cup {None, Own}]
  BY DEF IInv, TypeOK, Archived
<1> QED
  BY <1>1, <1>2, <1>3 DEF Abstract!Break, Archived

LEMMA StepRefined == IInv /\ [Next]_vars => [Abstract!ANext]_Abstract!avars
<1> SUFFICES ASSUME IInv, [Next]_vars PROVE [Abstract!ANext]_Abstract!avars
  OBVIOUS
<1> USE DataAssumption
<1>a. Abstract!Harm \/ UNCHANGED Abstract!avars => [Abstract!ANext]_Abstract!avars
  BY DEF Abstract!ANext
<1>b. Within => [Abstract!ANext]_Abstract!avars
  BY <1>a, WithinStutters
<1>1. ASSUME NEW v \in Versions, BeginImport(v) PROVE [Abstract!ANext]_Abstract!avars
  <2>1. v \in Versions \cup {None} /\ Begin(v, "stage")
    BY <1>1 DEF BeginImport
  <2>2. Abstract!Begin(v)
    BY <2>1, BeginRefined
  <2> QED
    BY <2>1, <2>2 DEF Abstract!ANext
<1>2. CASE BeginPurge
  <2>1. Begin(None, "purge")
    BY <1>2 DEF BeginPurge
  <2>2. Abstract!Begin(None)
    BY <2>1, BeginRefined
  <2> QED
    BY <2>2 DEF Abstract!ANext
<1>3. ASSUME NEW n \in Names, Unpack(n) PROVE [Abstract!ANext]_Abstract!avars
  BY <1>3, <1>b DEF Within, Unpack
<1>4. ASSUME NEW n \in Files, BackUp(n) PROVE [Abstract!ANext]_Abstract!avars
  BY <1>4, <1>b DEF Within, BackUp
<1>5. ASSUME NEW n \in Files, Clear(n) PROVE [Abstract!ANext]_Abstract!avars
  BY <1>5, <1>b DEF Within, Clear
<1>6. ASSUME NEW n \in Files, PutInPlace(n) PROVE [Abstract!ANext]_Abstract!avars
  BY <1>6, <1>b DEF Within, PutInPlace
<1>7. ASSUME NEW n \in Files, CopyBack(n) PROVE [Abstract!ANext]_Abstract!avars
  BY <1>7, <1>b DEF Within, CopyBack
<1>8. ASSUME NEW unread \in BOOLEAN, ListForBackup(unread) PROVE [Abstract!ANext]_Abstract!avars
  BY <1>8, <1>b DEF Within, Strike, ListForBackup
<1>9. CASE UnpackFails
  BY <1>9, <1>b DEF Within, Fail, Strike, Catch, UnpackFails
<1>10. CASE DeleteRows
  BY <1>10, <1>b DEF Within, DeleteRows
<1>11. CASE InsertRows
  BY <1>11, <1>b DEF Within, InsertRows
<1>12. CASE RewriteFails
  BY <1>12, <1>b DEF Within, Fail, Strike, Catch, RewriteFails
<1>13. CASE MakeBackupFails
  BY <1>13, <1>b DEF Within, Fail, Strike, Catch, MakeBackupFails
<1>14. CASE BackUpFails
  BY <1>14, <1>b DEF Within, FailApplying, Strike, BackUpFails
<1>15. CASE BackedUp
  BY <1>15, <1>b DEF Within, BackedUp
<1>16. CASE ClearFails
  BY <1>16, <1>b DEF Within, FailApplying, Strike, ClearFails
<1>17. CASE SkipsClearing
  BY <1>17, <1>b DEF Within, Strike, SkipsClearing
<1>18. CASE Cleared
  BY <1>18, <1>b DEF Within, Cleared
<1>19. CASE PutInPlaceFails
  BY <1>19, <1>b DEF Within, FailApplying, Strike, PutInPlaceFails
<1>20. CASE SkipsFolder
  BY <1>20, <1>b DEF Within, Strike, SkipsFolder
<1>21. CASE AllInPlace
  BY <1>21, <1>b DEF Within, AllInPlace
<1>22. CASE Scan
  BY <1>22, <1>b DEF Within, Scan
<1>23. CASE ScanFails
  BY <1>23, <1>b DEF Within, Fail, Strike, Catch, ScanFails
<1>24. CASE Commit
  BY <1>24, <1>b DEF Within, Committed, Commit
<1>25. CASE CommitFails
  BY <1>25, <1>b DEF Within, Fail, Strike, Catch, CommitFails
<1>26. CASE CommitUnanswered
  BY <1>26, <1>b DEF Within, Strike, Committed, CommitUnanswered
<1>27. CASE Tidy
  <2>1. CASE Sound
    BY <1>27, <2>1, CompleteEnd DEF Tidy, base, Abstract!ANext
  <2>2. CASE ~Sound
    BY <1>27, <2>2, BrokenEnd DEF Tidy, Sound, base, Abstract!ANext
  <2> QED
    BY <2>1, <2>2
<1>28. CASE UndoCleared
  BY <1>28, <1>b DEF Within, UndoCleared
<1>29. CASE CopiedBack
  BY <1>29, <1>b DEF Within, CopiedBack
<1>30. CASE UndoFails
  <2>1. "undo" \in faults'
    BY <1>30 DEF UndoFails, Strike
  <2>2. CASE pc' = "idle"
    BY <1>30, <2>1, <2>2, BrokenEnd DEF UndoFails, disk, Harmful, Abstract!ANext
  <2>3. CASE pc' # "idle"
    BY <1>30, <2>3, <1>b DEF Within, UndoFails, Strike
  <2> QED
    BY <2>2, <2>3
<1>31. CASE Sweep
  <2>1. CASE Sound
    BY <1>31, <2>1, SoundEnd DEF Sweep, base, Abstract!ANext
  <2>2. CASE ~Sound
    BY <1>31, <2>2, BrokenEnd DEF Sweep, Sound, base, Abstract!ANext
  <2> QED
    BY <2>1, <2>2
<1>32. CASE PurgeRows
  BY <1>32, <1>b DEF Within, PurgeRows
<1>33. CASE PurgeFails
  BY <1>33, <1>b DEF Within, Fail, Strike, Catch, PurgeFails
<1>34. CASE PurgeCommit
  BY <1>34, <1>b DEF Within, Committed, PurgeCommit
<1>35. CASE ClearUploadsFails
  <2>1. "leftover" \in faults'
    BY <1>35 DEF ClearUploadsFails, Strike
  <2> QED
    BY <1>35, <2>1, BrokenEnd DEF ClearUploadsFails, base, disk, Harmful, Abstract!ANext
<1>36. CASE Emptied
  <2>1. CASE Sound
    BY <1>36, <2>1, CompleteEnd DEF Emptied, base, disk, Abstract!ANext
  <2>2. CASE ~Sound
    BY <1>36, <2>2, BrokenEnd DEF Emptied, Sound, base, disk, Abstract!ANext
  <2> QED
    BY <2>1, <2>2
<1>37. ASSUME NEW u \in Uploads, Upload(u) PROVE [Abstract!ANext]_Abstract!avars
  <2>1. u \notin Names /\ live \in [Files -> Versions \cup {None, Own}]
    BY DEF IInv, TypeOK
  <2>2. Archived(live') = Archived(live)
    BY <1>37, <2>1 DEF Upload, Archived
  <2> QED
    BY <1>37, <2>2 DEF Upload, Abstract!avars, Archived
<1>38. CASE Crash
  <2>1. "crash" \in faults'
    BY <1>38 DEF Crash, Strike
  <2> QED
    BY <1>38, <2>1, BrokenEnd DEF Crash, disk, Harmful, Abstract!ANext
<1>39. CASE UNCHANGED vars
  BY <1>39 DEF vars, Abstract!avars, Archived
<1> QED
  BY <1>1, <1>2, <1>3, <1>4, <1>5, <1>6, <1>7, <1>8, <1>9, <1>10, <1>11, <1>12, <1>13, <1>14, <1>15, <1>16, <1>17, <1>18, <1>19, <1>20, <1>21, <1>22, <1>23, <1>24, <1>25, <1>26, <1>27, <1>28, <1>29, <1>30, <1>31, <1>32, <1>33, <1>34, <1>35, <1>36, <1>37, <1>38, <1>39 DEF Next

(* Rows and files are replaced together or not at all, unless a fault that *)
(* is named strikes: importAllData and purgeAllData implement Replacement. *)
THEOREM Refinement == Spec => ReplacedAsOne
  BY AbstractStart, StepRefined, Invariance, PTL DEF Spec, ReplacedAsOne, Abstract!ASpec
=============================================================================
