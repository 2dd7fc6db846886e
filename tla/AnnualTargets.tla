---------------------------- MODULE AnnualTargets ----------------------------
(***************************************************************************)
(* The life of annual targets: AnnualTargetsService.                       *)
(*                                                                         *)
(* A target is drafted, activated, closed with a snapshot of its result,   *)
(* and possibly reopened.  A request reads the row (Find), works on that   *)
(* copy across several awaits, to validate a definition or to measure the  *)
(* result, and then saves the whole copy, with one more revision, if the   *)
(* row has that version still (Persist); otherwise it is refused.          *)
(***************************************************************************)
EXTENDS Integers, Sequences, Rows

CONSTANTS
  Ids,          \* target ids
  Requests,     \* requests that may be handled at the same time
  Definitions,  \* what a target asks for: year, end of its period, measure
  Commands,     \* the bodies of update and command requests
  Measures,     \* metric and scope together: what is measured
  LastDay,      \* bound: the calendar stops here
  LastData,     \* bound: so many changes of the activities
  LastVersion   \* bound: no write beyond this version

Definition == [year : Nat, end : Nat, measure : Measures]

Command == [kind : {"update", "activate", "close", "reopen"},
            def : Definitions, reasoned : BOOLEAN]

ASSUME TargetConstants ==
  /\ Definitions \subseteq Definition
  /\ Commands \subseteq Command
  /\ LastDay \in Nat /\ LastData \in Nat /\ LastVersion \in Nat

VARIABLES
  rows,   \* rows[id]: the stored target, or None
  work,   \* work[r]: the request r in progress
  data,   \* the state of the activities, as a number
  today   \* the day in Berlin

vars == <<rows, work, data, today>>

Status == {"draft", "active", "closed"}
Snapshot == [measure : Measures, data : Nat]
Action == {"create", "copy", "update", "activate", "close", "reopen"}

Revision == [action : Action, reasoned : BOOLEAN, status : Status,
             def : Definitions, snapshot : Snapshot \union {None}]

Row == [status : Status, def : Definitions, snapshot : Snapshot \union {None},
        history : Seq(Revision), version : Nat]

Work == [phase : {"found", "ready"}, id : Ids, cmd : Commands,
         copy : Row, snapshot : Snapshot \union {None}]

ASSUME NoneIsNoValue == None \notin Snapshot /\ None \notin Row /\ None \notin Work

Init ==
  /\ rows  = [id \in Ids |-> None]
  /\ work  = [r \in Requests |-> None]
  /\ data  = 0
  /\ today = 0

-----------------------------------------------------------------------------

RevisionOf(action, reasoned, status, def, snapshot) ==
  [action |-> action, reasoned |-> reasoned, status |-> status,
   def |-> def, snapshot |-> snapshot]

NewRow(d, action) ==
  [status |-> "draft", def |-> d, snapshot |-> None, version |-> 1,
   history |-> <<RevisionOf(action, TRUE, "draft", d, None)>>]

(* create(), and copy(), which creates a target from the definition of     *)
(* another one and leaves that alone.  Both give a reason of their own.    *)
Create(id, d, action) ==
  /\ rows[id] = None
  /\ action \in {"create", "copy"}
  /\ rows' = [rows EXCEPT ![id] = NewRow(d, action)]
  /\ UNCHANGED <<work, data, today>>

-----------------------------------------------------------------------------
(* What update() and command() require of the row they found. *)

AnyReason(row, cmd) ==  \* broken variant: no reason asked for
  row.status # "closed" /\ (row.status = "active" => cmd.def.year = row.def.year)

UpdateAllowed(row, cmd) ==
  /\ row.status # "closed"
  /\ row.status = "active" => cmd.reasoned /\ cmd.def.year = row.def.year

CloseAllowed(row, cmd) ==
  /\ row.status = "active"
  /\ today > row.def.end
  /\ cmd.reasoned

Allowed(row, cmd) ==
  CASE cmd.kind = "update"   -> UpdateAllowed(row, cmd)
    [] cmd.kind = "activate" -> row.status = "draft"
    [] cmd.kind = "close"    -> CloseAllowed(row, cmd)
    [] cmd.kind = "reopen"   -> row.status = "closed" /\ cmd.reasoned

(* A request that is not allowed, or that names another version than the   *)
(* one found, changes nothing and is left out.                             *)
Find(r, id, cmd) ==
  /\ work[r] = None
  /\ rows[id] # None
  /\ Allowed(rows[id], cmd)
  /\ work' = [work EXCEPT ![r] =
       [phase |-> IF cmd.kind = "close" THEN "found" ELSE "ready",
        id |-> id, cmd |-> cmd, copy |-> rows[id], snapshot |-> None]]
  /\ UNCHANGED <<rows, data, today>>

(* close() computes the snapshot from the activities as they are now. *)
Measure(r) ==
  /\ work[r] # None
  /\ work[r].phase = "found"
  /\ work' = [work EXCEPT ![r].phase = "ready",
                          ![r].snapshot = [measure |-> work[r].copy.def.measure, data |-> data]]
  /\ UNCHANGED <<rows, data, today>>

KeepsSnapshot(row, cmd, snapshot) ==  \* broken variant: reopening keeps the result
  CASE cmd.kind = "update"   -> [row EXCEPT !.def = cmd.def]
    [] cmd.kind = "activate" -> [row EXCEPT !.status = "active"]
    [] cmd.kind = "close"    -> [row EXCEPT !.status = "closed", !.snapshot = snapshot]
    [] cmd.kind = "reopen"   -> [row EXCEPT !.status = "active"]

Changed(row, cmd, snapshot) ==
  CASE cmd.kind = "update"   -> [row EXCEPT !.def = cmd.def]
    [] cmd.kind = "activate" -> [row EXCEPT !.status = "active"]
    [] cmd.kind = "close"    -> [row EXCEPT !.status = "closed", !.snapshot = snapshot]
    [] cmd.kind = "reopen"   -> [row EXCEPT !.status = "active", !.snapshot = None]

Revised(row, cmd) ==
  [row EXCEPT !.version = @ + 1,
     !.history = Append(@, RevisionOf(cmd.kind, cmd.reasoned, row.status, row.def, row.snapshot))]

AnyVersion(r) == rows[work[r].id] # None  \* broken variant: UPDATE by id alone

(* update({ id, version }, ...) affects one row. *)
Current(r) == rows[work[r].id].version = work[r].copy.version

Persist(r) ==
  /\ work[r] # None
  /\ work[r].phase = "ready"
  /\ Current(r)
  /\ work[r].copy.version < LastVersion
  /\ rows' = [rows EXCEPT ![work[r].id] =
                Revised(Changed(work[r].copy, work[r].cmd, work[r].snapshot), work[r].cmd)]
  /\ work' = [work EXCEPT ![r] = None]
  /\ UNCHANGED <<data, today>>

Conflict(r) ==
  /\ work[r] # None
  /\ work[r].phase = "ready"
  /\ ~ Current(r)
  /\ work' = [work EXCEPT ![r] = None]
  /\ UNCHANGED <<rows, data, today>>

(* The request is lost before it writes. *)
Drop(r) ==
  /\ work[r] # None
  /\ work' = [work EXCEPT ![r] = None]
  /\ UNCHANGED <<rows, data, today>>

ActivitiesChange ==
  /\ data < LastData
  /\ data' = data + 1
  /\ UNCHANGED <<rows, work, today>>

Tick ==
  /\ today < LastDay
  /\ today' = today + 1
  /\ UNCHANGED <<rows, work, data>>

-----------------------------------------------------------------------------
RequestNext(r) ==
  \/ \E id \in Ids, cmd \in Commands : Find(r, id, cmd)
  \/ Measure(r)
  \/ Persist(r)
  \/ Conflict(r)
  \/ Drop(r)

Next ==
  \/ \E id \in Ids, d \in Definitions :
       \E action \in Action : Create(id, d, action)
  \/ \E r \in Requests : RequestNext(r)
  \/ ActivitiesChange
  \/ Tick

Spec == Init /\ [][Next]_vars

-----------------------------------------------------------------------------
(* Types of the rows and of the requests in progress. *)
TypeOK ==
  /\ rows \in [Ids -> Row \union {None}]
  /\ work \in [Requests -> Work \union {None}]
  /\ data \in Nat
  /\ today \in Nat

(* A target has a locked result exactly while it is closed, that result    *)
(* was measured by the definition stored with it, and its period is over:  *)
(* a request that changes the definition while another one measures and    *)
(* closes must not be combined with it.                                    *)
Fits(row) ==
  IF row.status = "closed"
  THEN row.snapshot # None /\ row.snapshot.measure = row.def.measure /\ row.def.end < today
  ELSE row.snapshot = None

ResultFits == \A id \in Ids : rows[id] # None => Fits(rows[id])

(* The history tells the whole life of a target: one revision per version, *)
(* each consecutive pair a step of the lifecycle, with a reason and        *)
(* without a change of the year wherever the target was agreed on.         *)
Successor(old, new) ==
  \/ /\ new.action = "update"
     /\ new.status = old.status /\ new.snapshot = old.snapshot /\ old.status # "closed"
     /\ old.status = "active" => new.reasoned /\ new.def.year = old.def.year
  \/ /\ new.action = "activate"
     /\ old.status = "draft" /\ new.status = "active" /\ new.def = old.def
  \/ /\ new.action = "close"
     /\ old.status = "active" /\ new.status = "closed" /\ new.def = old.def /\ new.reasoned
  \/ /\ new.action = "reopen"
     /\ old.status = "closed" /\ new.status = "active" /\ new.def = old.def /\ new.reasoned

Tells(row) ==
  LET last == row.history[row.version] IN
    /\ Len(row.history) = row.version /\ row.version >= 1
    /\ last.status = row.status /\ last.def = row.def /\ last.snapshot = row.snapshot
    /\ \A i \in 2 .. row.version : Successor(row.history[i - 1], row.history[i])

HistoryTells == \A id \in Ids : rows[id] # None => Tells(rows[id])

(* No revision is ever changed or lost, whatever requests overlap. *)
HistoryGrows ==
  [][\A id \in Ids : rows[id] # None =>
       /\ rows'[id] # None
       /\ rows'[id].version >= rows[id].version
       /\ \A i \in 1 .. rows[id].version : rows'[id].history[i] = rows[id].history[i]]_vars

(* A closed target is locked: the next thing that happens to it is that it *)
(* is reopened, by a request that saw it closed.                           *)
ClosedIsLocked ==
  [][\A id \in Ids : rows[id] # None /\ rows[id].status = "closed" /\ rows'[id] # rows[id] =>
       rows'[id].status = "active" /\ rows'[id].def = rows[id].def]_vars
=============================================================================
