----------------------------- MODULE UploadFiles -----------------------------
(***************************************************************************)
(* The life of uploaded files: upload, reference, administrative deletion  *)
(* and the maintenance pass of UploadMaintenanceService.                   *)
(*                                                                         *)
(* A file lives in three places that no transaction covers: its grants     *)
(* (rows of stored_uploads, one per scope), the file on disk, and the      *)
(* references to its URL in the tables of the application.  Each action is *)
(* what happens between two awaits.  Registration is one step: UploadQuota *)
(* models its inside.  Grants and files carry their age in units of time   *)
(* that are longer than the reading part of a pass.                        *)
(***************************************************************************)
EXTENDS Uploads, Integers, Sequences

CONSTANTS
  Home,        \* the scope that owns the template images
  Tables,      \* the referencing tables in the order a pass reads them
  Grace,       \* ORPHAN_GRACE_MS in units of time
  MaxCrashes   \* bound: so many crashes of the process

ASSUME FileConstants ==
  /\ Home \in Scopes
  /\ Tables \in Seq(STRING)
  /\ Grace \in Nat
  /\ MaxCrashes \in Nat
  /\ None \notin Nat /\ None \notin [age : Nat, whole : BOOLEAN]

VARIABLES
  phase,    \* phase[f]: the upload request of f
  disk,     \* disk[f]: age of the file and whether it is whole, or None
  grants,   \* grants[f][s]: age of the grant of f to scope s, or None
  whole,    \* whole[f]: the grants record the size of the whole file
  refs,     \* refs[t]: the files that rows of table t refer to
  saving,   \* images a project is about to be saved with
  deleting, \* deleting[f]: an administrator's deletion of f
  pass,     \* the maintenance pass
  crashes,  \* crashes so far
  lapsed    \* history: <<f, t>>: f was once old and table t did not hold it

vars == <<phase, disk, grants, whole, refs, saving, deleting, pass, crashes, lapsed>>

Holders == {Tables[i] : i \in 1 .. Len(Tables)}
Ages == 0 .. Grace + 1
Old(age) == age > Grace

OnDisk == {f \in Files : disk[f] # None}
ScopesOf(f) == {s \in Scopes : grants[f][s] # None}
Referenced == UNION {refs[t] : t \in Holders}

Entry == [age : Ages, whole : BOOLEAN]

Pass == [phase : {"idle", "collecting", "scanned", "judging"}, read : Nat,
         seen : SUBSET Files, scan : [Files -> Entry \union {None}],
         todo : SUBSET Files, doomed : SUBSET Files, resize : SUBSET Files,
         expired : SUBSET (Files \X Scopes), orphan : Files \union {None}]

NoGrants == [s \in Scopes |-> None]

NoPass == [phase |-> "idle", read |-> 0, seen |-> {}, scan |-> [f \in Files |-> None],
           todo |-> {}, doomed |-> {}, resize |-> {}, expired |-> {}, orphan |-> None]

Init ==
  /\ phase    = [f \in Files |-> "new"]
  /\ disk     = [f \in Files |-> None]
  /\ grants   = [f \in Files |-> NoGrants]
  /\ whole    = [f \in Files |-> TRUE]
  /\ refs     = [t \in Holders |-> {}]
  /\ saving   = {}
  /\ deleting = [f \in Files |-> "no"]
  /\ pass     = NoPass
  /\ crashes  = 0
  /\ lapsed   = {}

-----------------------------------------------------------------------------
(* An upload request *)

Register(f, S) ==
  /\ phase[f] = "new"
  /\ S # {}
  /\ grants' = [grants EXCEPT ![f] = [s \in Scopes |-> IF s \in S THEN 0 ELSE None]]
  /\ phase' = [phase EXCEPT ![f] = "reserved"]
  /\ UNCHANGED <<disk, whole, refs, saving, deleting, pass, crashes>>

(* writeFile creates the file and goes on writing; it may fail at either end. *)
StartWrite(f) ==
  /\ phase[f] = "reserved"
  /\ disk' = [disk EXCEPT ![f] = [age |-> 0, whole |-> FALSE]]
  /\ phase' = [phase EXCEPT ![f] = "writing"]
  /\ UNCHANGED <<grants, whole, refs, saving, deleting, pass, crashes>>

FinishWrite(f) ==
  /\ phase[f] = "writing"
  /\ disk' = [disk EXCEPT ![f] = [age |-> 0, whole |-> TRUE]]
  /\ phase' = [phase EXCEPT ![f] = "kept"]
  /\ UNCHANGED <<grants, whole, refs, saving, deleting, pass, crashes>>

WriteFails(f) ==
  /\ phase[f] \in {"reserved", "writing"}
  /\ phase' = [phase EXCEPT ![f] = "failed"]
  /\ UNCHANGED <<disk, grants, whole, refs, saving, deleting, pass, crashes>>

(* unlink(outPath).catch(...): a file that cannot be unlinked stays. *)
CleanUp(f, ok) ==
  /\ phase[f] = "failed"
  /\ disk' = IF ok THEN [disk EXCEPT ![f] = None] ELSE disk
  /\ phase' = [phase EXCEPT ![f] = IF ok \/ disk[f] = None THEN "cleaned" ELSE "stuck"]
  /\ UNCHANGED <<grants, whole, refs, saving, deleting, pass, crashes>>

(* unregister(...).catch(...): the grants may stay. *)
Unregister(f, ok) ==
  /\ phase[f] \in {"cleaned", "stuck"}
  /\ grants' = IF ok THEN [grants EXCEPT ![f] = NoGrants] ELSE grants
  /\ phase' = [phase EXCEPT ![f] = IF @ = "stuck" THEN "left" ELSE "over"]
  /\ UNCHANGED <<disk, whole, refs, saving, deleting, pass, crashes>>

-----------------------------------------------------------------------------
(* References.  Saving a row does not look for the file. *)

Refer(f, t) ==
  /\ phase[f] = "kept"
  /\ t # "projects"
  /\ refs' = [refs EXCEPT ![t] = @ \union {f}]
  /\ UNCHANGED <<phase, disk, grants, whole, saving, deleting, pass, crashes>>

(* retainProjectImage: the organisation has the image, or is granted an    *)
(* image that a template shows it.                                         *)
RetainProjectImage(f, s) ==
  /\ "projects" \in Holders
  /\ f \notin saving
  /\ phase[f] = "kept"
  /\ IF s \in ScopesOf(f)
     THEN UNCHANGED grants
     ELSE /\ f \in refs["templates"]
          /\ Home \in ScopesOf(f)
          /\ grants' = [grants EXCEPT ![f][s] = 0]
  /\ saving' = saving \union {f}
  /\ UNCHANGED <<phase, disk, whole, refs, deleting, pass, crashes>>

SaveProject(f) ==
  /\ f \in saving
  /\ saving' = saving \ {f}
  /\ refs' = [refs EXCEPT !["projects"] = @ \union {f}]
  /\ UNCHANGED <<phase, disk, grants, whole, deleting, pass, crashes>>

Unrefer(f, t) ==
  /\ f \in refs[t]
  /\ refs' = [refs EXCEPT ![t] = @ \ {f}]
  /\ UNCHANGED <<phase, disk, grants, whole, saving, deleting, pass, crashes>>

-----------------------------------------------------------------------------
(* deleteUpload of the system administration, for finished uploads *)

ClearReferences(f) ==
  /\ disk[f] # None
  /\ phase[f] = "kept"
  /\ deleting[f] = "no"
  /\ refs' = [t \in Holders |-> refs[t] \ {f}]
  /\ deleting' = [deleting EXCEPT ![f] = "cleared"]
  /\ UNCHANGED <<phase, disk, grants, whole, saving, pass, crashes>>

(* The file may be gone by now: the request fails before its last step. *)
UnlinkUpload(f) ==
  /\ deleting[f] = "cleared"
  /\ disk' = [disk EXCEPT ![f] = None]
  /\ deleting' = [deleting EXCEPT ![f] = IF disk[f] = None THEN "no" ELSE "unlinked"]
  /\ UNCHANGED <<phase, grants, whole, refs, saving, pass, crashes>>

DeleteGrants(f) ==
  /\ deleting[f] = "unlinked"
  /\ grants' = [grants EXCEPT ![f] = NoGrants]
  /\ deleting' = [deleting EXCEPT ![f] = "no"]
  /\ UNCHANGED <<phase, disk, whole, refs, saving, pass, crashes>>

-----------------------------------------------------------------------------
(* The maintenance pass; run() starts no second one. *)

StartPass ==
  /\ pass.phase = "idle"
  /\ pass' = [NoPass EXCEPT !.phase = "collecting"]
  /\ UNCHANGED <<phase, disk, grants, whole, refs, saving, deleting, crashes>>

(* getReferencedUploadPaths: one query per table, no transaction. *)
ReadTable ==
  /\ pass.phase = "collecting"
  /\ pass.read < Len(Tables)
  /\ pass' = [pass EXCEPT !.read = @ + 1,
                          !.seen = @ \union refs[Tables[pass.read + 1]]]
  /\ UNCHANGED <<phase, disk, grants, whole, refs, saving, deleting, crashes>>

ScanUploads ==
  /\ pass.phase = "collecting"
  /\ pass.read = Len(Tables)
  /\ pass' = [pass EXCEPT !.phase = "scanned", !.scan = disk]
  /\ UNCHANGED <<phase, disk, grants, whole, refs, saving, deleting, crashes>>

IsOld(f) ==
  /\ Old(pass.scan[f].age)
  /\ \A s \in ScopesOf(f) : Old(grants[f][s])

NothingDoomed(f) == f \notin Files  \* broken variant: orphans stay
ReferencesIgnored(f) ==  \* broken variant
  pass.scan[f] # None /\ ScopesOf(f) # {} /\ IsOld(f)

Doomed(f) ==
  /\ pass.scan[f] # None
  /\ ScopesOf(f) # {}
  /\ f \notin pass.seen
  /\ IsOld(f)

ShrunkOnly(f) ==  \* broken variant: sizes are never corrected upwards
  pass.scan[f] # None /\ ~ Doomed(f) /\ whole[f] /\ ~ pass.scan[f].whole

Resized(f) ==
  /\ pass.scan[f] # None
  /\ ScopesOf(f) # {}
  /\ ~ Doomed(f)
  /\ whole[f] # pass.scan[f].whole

(* Broken variants: the time of registration not looked at; no last loop. *)
ExpiredAtAnyAge(f, s) == pass.scan[f] = None /\ s \in ScopesOf(f)
NeverExpired(f, s) == f \notin Files /\ s \notin Scopes

Expired(f, s) ==
  /\ pass.scan[f] = None
  /\ s \in ScopesOf(f)
  /\ Old(grants[f][s])

(* repository.find and the cutoff: what is to be done is settled here, as  *)
(* the time of a file does not change.                                     *)
LoadRecords ==
  /\ pass.phase = "scanned"
  /\ pass' = [pass EXCEPT
       !.phase   = "judging",
       !.todo    = {f \in Files : pass.scan[f] # None},
       !.doomed  = {f \in Files : Doomed(f)},
       !.resize  = {f \in Files : Resized(f)},
       !.expired = {g \in Files \X Scopes : Expired(g[1], g[2])}]
  /\ UNCHANGED <<phase, disk, grants, whole, refs, saving, deleting, crashes>>

ToJudge == IF pass.phase = "judging" /\ pass.orphan = None THEN pass.todo ELSE {}

(* stat fails on a file that has gone since: the pass gives up. *)
StatFails(f) ==
  /\ f \in ToJudge
  /\ disk[f] = None
  /\ pass' = NoPass
  /\ UNCHANGED <<phase, disk, grants, whole, refs, saving, deleting, crashes>>

KeepFile(f) ==
  /\ f \in ToJudge \ pass.doomed
  /\ disk[f] # None
  /\ whole' = IF f \in pass.resize THEN [whole EXCEPT ![f] = pass.scan[f].whole] ELSE whole
  /\ pass' = [pass EXCEPT !.todo = @ \ {f}]
  /\ UNCHANGED <<phase, disk, grants, refs, saving, deleting, crashes>>

UnlinkOrphan(f) ==
  /\ f \in ToJudge \intersect pass.doomed
  /\ disk[f] # None
  /\ disk' = [disk EXCEPT ![f] = None]
  /\ pass' = [pass EXCEPT !.todo = @ \ {f}, !.orphan = f]
  /\ UNCHANGED <<phase, grants, whole, refs, saving, deleting, crashes>>

(* All grants of the orphan go, those registered in the meantime included. *)
DropOrphanGrants ==
  /\ pass.orphan # None
  /\ grants' = [grants EXCEPT ![pass.orphan] = NoGrants]
  /\ pass' = [pass EXCEPT !.orphan = None]
  /\ UNCHANGED <<phase, disk, whole, refs, saving, deleting, crashes>>

(* The last loop deletes one record at a time. *)
DropExpired(f, s) ==
  /\ pass.phase = "judging" /\ pass.todo = {} /\ pass.orphan = None
  /\ <<f, s>> \in pass.expired
  /\ grants' = [grants EXCEPT ![f][s] = None]
  /\ pass' = [pass EXCEPT !.expired = @ \ {<<f, s>>}]
  /\ UNCHANGED <<phase, disk, whole, refs, saving, deleting, crashes>>

EndPass ==
  /\ pass.phase = "judging" /\ pass.todo = {} /\ pass.orphan = None
  /\ pass.expired = {}
  /\ pass' = NoPass
  /\ UNCHANGED <<phase, disk, grants, whole, refs, saving, deleting, crashes>>

-----------------------------------------------------------------------------
Older(age) == IF age = None \/ Old(age) THEN age ELSE age + 1

(* Time passes.  An upload request ends, and a pass is through with its    *)
(* reading, within the grace period and one unit of time.                  *)
Tick ==
  /\ pass.phase \notin {"collecting", "scanned"}
  /\ \A f \in Files : phase[f] \in {"reserved", "writing", "failed", "cleaned", "stuck"} =>
       \A s \in ScopesOf(f) : grants[f][s] < Grace
  /\ disk' = [f \in Files |-> IF disk[f] = None THEN None
                              ELSE [disk[f] EXCEPT !.age = Older(@)]]
  /\ grants' = [f \in Files |-> [s \in Scopes |-> Older(grants[f][s])]]
  /\ UNCHANGED <<phase, whole, refs, saving, deleting, pass, crashes>>

(* The process dies: requests and the pass are lost, wherever they were. *)
Crash ==
  /\ crashes < MaxCrashes
  /\ crashes' = crashes + 1
  /\ phase' = [f \in Files |->
       CASE phase[f] \in {"reserved", "writing", "failed", "cleaned"} -> "over"
         [] phase[f] = "stuck" -> "left"
         [] OTHER -> phase[f]]
  /\ saving' = {}
  /\ deleting' = [f \in Files |-> "no"]
  /\ pass' = NoPass
  /\ UNCHANGED <<disk, grants, whole, refs>>

-----------------------------------------------------------------------------
UploadProgress(f) ==
  \/ StartWrite(f)
  \/ FinishWrite(f)
  \/ \E ok \in BOOLEAN : CleanUp(f, ok) \/ Unregister(f, ok)

PassProgress ==
  \/ StartPass
  \/ ReadTable
  \/ ScanUploads
  \/ LoadRecords
  \/ \E f \in Files : StatFails(f) \/ KeepFile(f) \/ UnlinkOrphan(f)
  \/ DropOrphanGrants
  \/ \E f \in Files, s \in Scopes : DropExpired(f, s)
  \/ EndPass

FileStep(f) ==
  \/ \E S \in SUBSET Scopes : Register(f, S)
  \/ UploadProgress(f)
  \/ WriteFails(f)
  \/ \E t \in Holders : Refer(f, t) \/ Unrefer(f, t)
  \/ \E s \in Scopes : RetainProjectImage(f, s)
  \/ SaveProject(f)
  \/ ClearReferences(f)
  \/ UnlinkUpload(f)
  \/ DeleteGrants(f)

Step == PassProgress \/ Tick \/ Crash \/ \E f \in Files : FileStep(f)

(* Table t does not refer to f, and the file and all its grants are old.   *)
Abandoned(f, t) ==
  /\ disk[f] # None /\ Old(disk[f].age)
  /\ f \notin refs[t]
  /\ \A s \in ScopesOf(f) : Old(grants[f][s])

Noted ==
  lapsed' = lapsed \union {g \in Files \X Holders : Abandoned(g[1], g[2])'}

Next == Step /\ Noted

Spec == Init /\ [][Next]_vars

(* Requests that were begun go on, setInterval starts the next pass, and   *)
(* time passes between passes as well, which are an hour apart.  Writes    *)
(* need not fail; users and administrators need not act.                   *)
FairSpec ==
  /\ Spec
  /\ \A f \in Files : WF_vars(UploadProgress(f) /\ Noted)
  /\ WF_vars(PassProgress /\ Noted)
  /\ SF_vars(Tick /\ Noted)

-----------------------------------------------------------------------------
(* Types of the three places a file lives in, and of the requests at work. *)
TypeOK ==
  /\ phase \in [Files -> {"new", "reserved", "writing", "kept", "failed", "cleaned",
                         "stuck", "left", "over"}]
  /\ disk \in [Files -> Entry \union {None}]
  /\ grants \in [Files -> [Scopes -> Ages \union {None}]]
  /\ whole \in [Files -> BOOLEAN]
  /\ refs \in [Holders -> SUBSET Files]
  /\ saving \subseteq Files /\ lapsed \subseteq Files \X Holders
  /\ deleting \in [Files -> {"no", "cleared", "unlinked"}]
  /\ pass \in Pass
  /\ crashes \in 0 .. MaxCrashes

(* "Fresh in-flight reservations are preserved": whatever a pass read and  *)
(* whenever it deletes, the grants of an upload under way stay.            *)
InFlightReserved ==
  \A f \in Files : phase[f] \in {"reserved", "writing"} => ScopesOf(f) # {}

(* No file escapes the accounting: a pass only ever removes files that     *)
(* have grants, so one without would take space for ever.  The exception   *)
(* is the broken file of a failed write that could not be unlinked.        *)
NoUnaccountedFile ==
  \A f \in OnDisk : ScopesOf(f) # {} \/ phase[f] = "left"

(* A pass removes no file that one and the same table has referred to, or  *)
(* that was fresh, at every moment so far: each table is read at once      *)
(* ("files with no reference are automatically removed after seven days"). *)
HeldByOneTableKept ==
  [][\A f \in Files : UnlinkOrphan(f) => \A t \in Holders : <<f, t>> \in lapsed]_vars

(* A reservation whose file never came, or went, does not use up quota for *)
(* ever, in spite of crashes and of clean-ups that fail half way.          *)
ReservationsReleased ==
  \A f \in Files : ScopesOf(f) # {} /\ f \notin OnDisk ~> ScopesOf(f) = {} \/ f \in OnDisk

(* An upload nobody refers to any more is eventually removed. *)
OrphansRemoved ==
  \A f \in Files :
    <>[](f \notin Referenced) => <>[](f \notin OnDisk \/ ScopesOf(f) = {})

(* Recorded sizes end up as those of the files, although a pass may record *)
(* the size of a file that is still being written.                         *)
SizesReconciled ==
  \A f \in Files : <>[](f \in OnDisk /\ ScopesOf(f) # {} => whole[f] = disk[f].whole)
=============================================================================
