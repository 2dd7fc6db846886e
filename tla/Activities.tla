----------------------------- MODULE Activities -----------------------------
(***************************************************************************)
(* Editing activities: the activity service and its editors.               *)
(*                                                                         *)
(* An editor (a browser tab, or a client of the API) opens an activity and *)
(* keeps what it saw, with the version it will send as expectedVersion or  *)
(* none.  Its PATCH request is handled in two steps with awaits between:   *)
(* the service reads the row, compares versions, merges the patch into its *)
(* copy and validates it (Check); then one transaction bumps the version   *)
(* if it is still the one read, and saves the whole copy (Commit, or       *)
(* Conflict).  The audit entry is written after the commit, so the answer  *)
(* may be an error although the edit is stored.                            *)
(***************************************************************************)
EXTENDS ActivityRecord

CONSTANTS
  Ids,          \* activity ids; a generated id is never used again
  Clients,      \* editors
  Patches,      \* the PATCH bodies editors may send
  Drafts,       \* the POST bodies
  LastDay,      \* bound: the calendar stops here
  LastVersion   \* bound: no write beyond this version

ASSUME ActivityConstants ==
  /\ Patches \subseteq Patch
  /\ Drafts \subseteq Draft
  /\ LastDay \in Nat
  /\ LastVersion \in Nat

VARIABLES
  rows,      \* rows[id]: the stored activity, or None
  born,      \* the ids handed out so far
  forms,     \* forms[c]: what editor c opened, or None
  requests,  \* requests[c]: the draft of editor c and the progress of its request
  applied,   \* history: how often the draft of editor c was stored
  today      \* the calendar day in Berlin

vars == <<rows, born, forms, requests, applied, today>>

Form == [id : Ids, base : Nat \union {None}, seen : Row]

Request == [phase : {"idle", "dirty", "sent", "checked"},
            patch : Patches \union {None},
            copy  : Row \union {None}]

Idle == [phase |-> "idle", patch |-> None, copy |-> None]

Init ==
  /\ rows     = [id \in Ids |-> None]
  /\ born     = {}
  /\ forms    = [c \in Clients |-> None]
  /\ requests = [c \in Clients |-> Idle]
  /\ applied  = [c \in Clients |-> 0]
  /\ today    = 0

-----------------------------------------------------------------------------
(* Operations of one step *)

Create(id) ==
  /\ id \notin born
  /\ \E d \in Drafts :
       /\ PlanningAccepts(NewRow(d, today), None, today)
       /\ rows' = [rows EXCEPT ![id] = NewRow(d, today)]
  /\ born' = born \union {id}
  /\ UNCHANGED <<forms, requests, applied, today>>

(* UPDATE ... SET ackDone, version = version + 1 WHERE id, whatever the version. *)
Acknowledge(id, done) ==
  /\ rows[id] # None
  /\ rows[id].version < LastVersion
  /\ rows' = [rows EXCEPT ![id] = [NextVersion(rows[id]) EXCEPT !.ack = done]]
  /\ UNCHANGED <<born, forms, requests, applied, today>>

Remove(id) ==
  /\ rows[id] # None
  /\ rows' = [rows EXCEPT ![id] = None]
  /\ UNCHANGED <<born, forms, requests, applied, today>>

Tick ==
  /\ today < LastDay
  /\ today' = today + 1
  /\ UNCHANGED <<rows, born, forms, requests, applied>>

-----------------------------------------------------------------------------
(* An editor *)

(* Opening or reloading replaces the form and the draft; the form's version *)
(* is the baseline, which an API client may decide not to send.             *)
Open(c, id, tracked) ==
  /\ requests[c].phase \in {"idle", "dirty"}
  /\ rows[id] # None
  /\ forms' = [forms EXCEPT ![c] =
                 [id   |-> id,
                  base |-> IF tracked THEN rows[id].version ELSE None,
                  seen |-> rows[id]]]
  /\ requests' = [requests EXCEPT ![c] = Idle]
  /\ applied' = [applied EXCEPT ![c] = 0]
  /\ UNCHANGED <<rows, born, today>>

(* A dirty form keeps its baseline however often the record is refetched. *)
Change(c, p) ==
  /\ forms[c] # None
  /\ requests[c].phase \in {"idle", "dirty"}
  /\ requests' = [requests EXCEPT ![c] = [phase |-> "dirty", patch |-> p, copy |-> None]]
  /\ UNCHANGED <<rows, born, forms, applied, today>>

Send(c) ==
  /\ requests[c].phase = "dirty"
  /\ requests' = [requests EXCEPT ![c].phase = "sent"]
  /\ UNCHANGED <<rows, born, forms, applied, today>>

-----------------------------------------------------------------------------
(* The PATCH request of editor c *)

Target(c) == rows[forms[c].id]

BaselineIgnored(c) == FALSE  \* broken variant

(* expectedVersion !== undefined && expectedVersion !== version *)
StaleBaseline(c) == forms[c].base # None /\ forms[c].base # Target(c).version

(* The row is gone: the service answers null and stores nothing. *)
CheckGone(c) ==
  /\ requests[c].phase = "sent"
  /\ Target(c) = None
  /\ forms' = [forms EXCEPT ![c] = None]
  /\ requests' = [requests EXCEPT ![c] = Idle]
  /\ applied' = [applied EXCEPT ![c] = 0]
  /\ UNCHANGED <<rows, born, today>>

(* 409 for a stale baseline, 400 for a broken planning rule; the editor    *)
(* keeps its draft.                                                        *)
CheckRefused(c) ==
  /\ requests[c].phase = "sent"
  /\ Target(c) # None
  /\ \/ StaleBaseline(c)
     \/ ~ PlanningAccepts(Merge(Target(c), requests[c].patch), Target(c).exec, today)
  /\ requests' = [requests EXCEPT ![c].phase = "dirty"]
  /\ UNCHANGED <<rows, born, forms, applied, today>>

Check(c) ==
  /\ requests[c].phase = "sent"
  /\ Target(c) # None
  /\ ~ StaleBaseline(c)
  /\ PlanningAccepts(Merge(Target(c), requests[c].patch), Target(c).exec, today)
  /\ requests' = [requests EXCEPT ![c].phase = "checked", ![c].copy = Target(c)]
  /\ UNCHANGED <<rows, born, forms, applied, today>>

(* Broken variant: an update by id alone. *)
PresentOnly(c) == Target(c) # None

(* update({ id, version }, { version: version + 1 }) affects one row. *)
StillCurrent(c) ==
  /\ Target(c) # None
  /\ Target(c).version = requests[c].copy.version

(* The copy is saved as a whole.  The editor learns of it, or gets an      *)
(* error from what follows the commit and keeps the draft.                 *)
Commit(c, answered) ==
  /\ requests[c].phase = "checked"
  /\ StillCurrent(c)
  /\ requests[c].copy.version < LastVersion
  /\ rows' = [rows EXCEPT ![forms[c].id] =
                NextVersion(Merge(requests[c].copy, requests[c].patch))]
  /\ IF answered
     THEN /\ forms' = [forms EXCEPT ![c] = None]
          /\ requests' = [requests EXCEPT ![c] = Idle]
          /\ applied' = [applied EXCEPT ![c] = 0]
     ELSE /\ requests' = [requests EXCEPT ![c].phase = "dirty", ![c].copy = None]
          /\ applied' = [applied EXCEPT ![c] = @ + 1]
          /\ UNCHANGED forms
  /\ UNCHANGED <<born, today>>

Conflict(c) ==
  /\ requests[c].phase = "checked"
  /\ ~ StillCurrent(c)
  /\ requests' = [requests EXCEPT ![c].phase = "dirty", ![c].copy = None]
  /\ UNCHANGED <<rows, born, forms, applied, today>>

-----------------------------------------------------------------------------
RowNext(id) ==
  \/ Create(id)
  \/ \E done \in BOOLEAN : Acknowledge(id, done)
  \/ Remove(id)

ClientNext(c) ==
  \/ \E id \in Ids, tracked \in BOOLEAN : Open(c, id, tracked)
  \/ \E p \in Patches : Change(c, p)
  \/ Send(c)
  \/ CheckGone(c)
  \/ CheckRefused(c)
  \/ Check(c)
  \/ \E answered \in BOOLEAN : Commit(c, answered)
  \/ Conflict(c)

Next ==
  \/ \E id \in Ids : RowNext(id)
  \/ \E c \in Clients : ClientNext(c)
  \/ Tick

Spec == Init /\ [][Next]_vars

-----------------------------------------------------------------------------
(* Types of the variables: rows, forms and requests have the shape of the  *)
(* entity, of the form state and of a request of update().                 *)
TypeOK ==
  /\ rows \in [Ids -> Row \union {None}]
  /\ born \in SUBSET Ids
  /\ forms \in [Clients -> Form \union {None}]
  /\ requests \in [Clients -> Request]
  /\ applied \in [Clients -> Nat]
  /\ today \in Nat

(* No sequence of partial updates, however interleaved, and no passing of  *)
(* days leaves a record that validateActivityPlanning exists to prevent:   *)
(* visitors on a plan or on a future day, or a completed activity in the   *)
(* future.  Each request validates its own merge only.                     *)
PlanningConsistent ==
  \A id \in Ids : rows[id] # None =>
    /\ rows[id].date > today => rows[id].exec # "completed"
    /\ rows[id].date > today \/ rows[id].exec = "planned" => rows[id].visitors = 0

(* A draft sent with a baseline is stored at most once, even when the      *)
(* answer is lost after the commit and the editor sends it again.          *)
AtMostOnce ==
  \A c \in Clients :
    forms[c] # None /\ forms[c].base # None => applied[c] <= 1

(* An editor whose baseline is still the stored version is looking at the  *)
(* stored row: every write of any operation has moved the version on.      *)
BaselineIsCurrent ==
  \A c \in Clients : forms[c] # None =>
    LET row == rows[forms[c].id] IN
      row # None /\ row.version = forms[c].seen.version => row = forms[c].seen

(* A removed activity is not stored again by an edit that was under way.   *)
RemovedForGood ==
  [][\A id \in Ids : id \in born /\ rows[id] = None => rows'[id] = None]_vars

(* Every accepted edit acts atomically on the current row, and on the row  *)
(* its editor saw if it sent a baseline: no edit or acknowledgement is     *)
(* overwritten unseen (docs/upload-and-edit-concurrency.md, Activity API). *)
Store == INSTANCE ActivityStore WITH
  rows <- rows, born <- born, forms <- forms, today <- today

EditsAreAtomic == Store!Spec
=============================================================================
