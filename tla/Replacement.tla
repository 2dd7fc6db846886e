---------------------------- MODULE Replacement ----------------------------
(***************************************************************************)
(* What a replacement of all data promises: the rows of the database and   *)
(* the files beside them are exchanged together or not at all.             *)
(*                                                                         *)
(* A restore and a deletion of everything are both such a replacement, the *)
(* second one by nothing.  Between its start and its end the data count as *)
(* the old ones.  Some faults (a crash, a copy that breaks off) void the   *)
(* promise: once one of them has struck, the end may be anything.          *)
(***************************************************************************)

CONSTANTS Versions,     \* what the database and the files can be replaced by
          FilesOf,      \* the files that belong to each version
          AllFiles,     \* every state the directory of files can be in
          Initial,      \* the version the system starts with
          Idle          \* no replacement is under way

VARIABLES db,           \* the version the database holds
          files,        \* the files there are
          goal,         \* the version a replacement under way leads to
          harmed        \* a fault has struck that voids the promise

avars == <<db, files, goal, harmed>>

AInit == /\ db = Initial
         /\ files = FilesOf[Initial]
         /\ goal = Idle
         /\ harmed = FALSE

Begin(v) == /\ goal = Idle
            /\ goal' = v
            /\ harmed' = FALSE
            /\ UNCHANGED <<db, files>>

Harm == /\ goal # Idle
        /\ harmed' = TRUE
        /\ UNCHANGED <<db, files, goal>>

Replace == /\ goal # Idle
           /\ db' = goal
           /\ files' = FilesOf[goal]
           /\ goal' = Idle
           /\ UNCHANGED harmed

GiveUp == /\ goal # Idle
          /\ goal' = Idle
          /\ UNCHANGED <<db, files, harmed>>

\* The end after such a fault, which may itself be the end (a crash).
Break == /\ goal # Idle
         /\ harmed'
         /\ db' \in {db, goal}
         /\ files' \in AllFiles
         /\ goal' = Idle

ANext == \/ \E v \in Versions : Begin(v)
         \/ Harm
         \/ Replace
         \/ GiveUp
         \/ Break

ASpec == AInit /\ [][ANext]_avars
=============================================================================
