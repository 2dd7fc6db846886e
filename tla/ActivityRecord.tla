--------------------------- MODULE ActivityRecord ---------------------------
(***************************************************************************)
(* The data of one activity and the rules a write has to satisfy.          *)
(*                                                                         *)
(* A row keeps what the properties tell apart: the version counter, the    *)
(* execution status, the calendar day, the visitor numbers (one number for *)
(* the gender counts and the cohort entries, which are checked together),  *)
(* the rest of the editable content, and the daily-log acknowledgement.    *)
(***************************************************************************)
EXTENDS Naturals

CONSTANTS
  Texts,     \* everything else an editor can change, as opaque values
  None       \* null or undefined: no row, no baseline, a field left out

Status == {"planned", "completed", "cancelled"}

Row == [version  : Nat,
        exec     : Status,
        date     : Nat,
        visitors : Nat,
        text     : Texts,
        ack      : BOOLEAN]

(* A PATCH body: every field may be left out. *)
Patch == [exec     : Status \union {None},
          date     : Nat    \union {None},
          visitors : Nat    \union {None},
          text     : Texts  \union {None}]

(* A POST body: the status may be left out. *)
Draft == [exec : Status \union {None}, date : Nat, visitors : Nat, text : Texts]

ASSUME NoneIsNoValue ==
  /\ None \notin Row
  /\ None \notin Nat
  /\ None \notin Status
  /\ None \notin Texts

(* The ?? operator of the service. *)
OrElse(value, default) == IF value = None THEN default ELSE value

(* The entity after Object.assign(existing, patch). *)
Merge(row, p) ==
  [row EXCEPT !.exec     = OrElse(p.exec, @),
              !.date     = OrElse(p.date, @),
              !.visitors = OrElse(p.visitors, @),
              !.text     = OrElse(p.text, @)]

NextVersion(row) == [row EXCEPT !.version = @ + 1]

(* A missing status is a plan on a future day and completed otherwise. *)
ImpliedStatus(exec, future) ==
  OrElse(exec, IF future THEN "planned" ELSE "completed")

OverduePlansUnchecked(r, previous, today) ==  \* broken variant
  LET future == r.date > today IN
    /\ future => r.exec # "completed" /\ r.visitors = 0
    /\ r.exec = "planned" => future \/ previous = "planned"

(* validateActivityPlanning, given the status stored before the write. *)
PlanningAccepts(r, previous, today) ==
  LET future == r.date > today IN
    /\ future => r.exec # "completed"
    /\ r.exec = "planned" => future \/ previous = "planned"
    /\ future \/ r.exec = "planned" => r.visitors = 0

NewRow(d, today) ==
  [version  |-> 0,
   exec     |-> ImpliedStatus(d.exec, d.date > today),
   date     |-> d.date,
   visitors |-> d.visitors,
   text     |-> d.text,
   ack      |-> FALSE]
=============================================================================
