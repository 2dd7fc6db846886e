--------------------------- MODULE ActivitiesProof --------------------------
(***************************************************************************)
(* Proofs about Activities for any number of activities and editors, any   *)
(* patches, any number of days and writes.                                 *)
(*                                                                         *)
(* The invariants of the runs are not inductive.  What is missing is what  *)
(* a request knows between its reading and its writing: the row has moved  *)
(* past the copy or still is the copy.                                     *)
(***************************************************************************)
EXTENDS Activities, TLAPS

(* The stored row has a later version than the known one, or is that one. *)
Supersedes(row, known) == row.version > known.version \/ row = known

(* Planning rules that survive the passing of days. *)
PlanningHolds(r, day) ==
  /\ r.date > day => r.exec # "completed"
  /\ r.date > day \/ r.exec = "planned" => r.visitors = 0

FormOK(c) ==
  forms[c] # None =>
    /\ forms[c].id \in born
    /\ forms[c].base \in {None, forms[c].seen.version}
    /\ rows[forms[c].id] # None => Supersedes(rows[forms[c].id], forms[c].seen)

RequestOK(c) ==
  /\ requests[c].phase # "idle" => forms[c] # None /\ requests[c].patch \in Patches
  /\ requests[c].phase = "checked" =>
       /\ requests[c].copy \in Row
       /\ rows[forms[c].id] # None => Supersedes(rows[forms[c].id], requests[c].copy)
       /\ forms[c].base # None => forms[c].base = requests[c].copy.version
       /\ PlanningHolds(Merge(requests[c].copy, requests[c].patch), today)

(* Once a draft with a baseline is stored, the row is past the baseline. *)
AppliedOK(c) ==
  forms[c] # None /\ forms[c].base # None /\ applied[c] > 0 =>
    /\ applied[c] = 1
    /\ rows[forms[c].id] # None => rows[forms[c].id].version > forms[c].base

IInv ==
  /\ TypeOK
  /\ \A id \in Ids : rows[id] # None => id \in born /\ PlanningHolds(rows[id], today)
  /\ \A c \in Clients : FormOK(c) /\ RequestOK(c) /\ AppliedOK(c)

-----------------------------------------------------------------------------
(* What the operators on rows return. *)

LEMMA MergeIsRow ==
  ASSUME NEW row \in Row, NEW p \in Patch
  PROVE  /\ Merge(row, p) \in Row
         /\ Merge(row, p).version = row.version
BY NoneIsNoValue DEF Merge, OrElse, Row, Patch

LEMMA NextVersionIsRow ==
  ASSUME NEW row \in Row
  PROVE  /\ NextVersion(row) \in Row
         /\ NextVersion(row).version = row.version + 1
         /\ NextVersion(row).date = row.date
         /\ NextVersion(row).exec = row.exec
         /\ NextVersion(row).visitors = row.visitors
BY DEF NextVersion, Row

LEMMA NewRowIsRow ==
  ASSUME NEW d \in Draft, NEW day \in Nat
  PROVE  NewRow(d, day) \in Row
BY NoneIsNoValue DEF NewRow, ImpliedStatus, OrElse, Draft, Row, Status

LEMMA AcceptedPlanningHolds ==
  ASSUME NEW row \in Row, NEW previous, NEW day \in Nat,
         PlanningAccepts(row, previous, day)
  PROVE  PlanningHolds(row, day)
BY DEF PlanningAccepts, PlanningHolds

LEMMA PlanningHoldsLater ==
  ASSUME NEW row \in Row, NEW day \in Nat, PlanningHolds(row, day)
  PROVE  PlanningHolds(row, day + 1)
BY DEF PlanningHolds, Row

-----------------------------------------------------------------------------
(* How one step changes one row: not at all, to nothing, from an id that   *)
(* was never handed out, or by exactly one version.                        *)
Advances(id) ==
  \/ rows'[id] = rows[id]
  \/ rows'[id] = None
  \/ id \notin born
  \/ rows[id] # None /\ rows'[id].version = rows[id].version + 1

LEMMA KnownStaysSuperseded ==
  ASSUME NEW id \in Ids, id \in born, Advances(id),
         NEW known \in Row,
         rows[id] \in Row \union {None},
         rows[id] # None => Supersedes(rows[id], known)
  PROVE  rows'[id] # None => Supersedes(rows'[id], known)
BY DEF Advances, Supersedes, Row

LEMMA RowsAdvance ==
  ASSUME IInv, Next, NEW id \in Ids
  PROVE  Advances(id)
<1> USE DEF IInv, TypeOK, Advances
<1>1. ASSUME NEW i \in Ids, RowNext(i) PROVE Advances(id)
  <2>1. CASE Create(i)
    BY <2>1 DEF Create
  <2>2. ASSUME NEW done \in BOOLEAN, Acknowledge(i, done) PROVE Advances(id)
    <3>1. NextVersion(rows[i]).version = rows[i].version + 1 /\ NextVersion(rows[i]) \in Row
      BY <2>2, NextVersionIsRow DEF Acknowledge
    <3>2. [NextVersion(rows[i]) EXCEPT !.ack = done].version = rows[i].version + 1
      BY <3>1 DEF Row
    <3> QED
      BY <2>2, <3>2 DEF Acknowledge
  <2>3. CASE Remove(i)
    BY <2>3 DEF Remove
  <2> QED
    BY <1>1, <2>1, <2>2, <2>3 DEF RowNext
<1>2. ASSUME NEW c \in Clients, NEW answered \in BOOLEAN, Commit(c, answered)
      PROVE  Advances(id)
  <2>1. requests[c].copy \in Row /\ requests[c].patch \in Patch
    BY <1>2, ActivityConstants DEF Commit, RequestOK
  <2>2. NextVersion(Merge(requests[c].copy, requests[c].patch)).version
          = requests[c].copy.version + 1
    BY <2>1, MergeIsRow, NextVersionIsRow
  <2>3. forms[c].id \in Ids
    BY <1>2 DEF Commit, RequestOK, Form
  <2> QED
    BY <1>2, <2>2, <2>3 DEF Commit, StillCurrent, Target
<1>3. ASSUME NEW c \in Clients, ClientNext(c), ~ \E answered \in BOOLEAN : Commit(c, answered)
      PROVE  rows' = rows
  BY <1>3 DEF ClientNext, Open, Change, Send, CheckGone, CheckRefused, Check, Conflict
<1>4. CASE Tick
  BY <1>4 DEF Tick
<1> QED
  BY <1>1, <1>2, <1>3, <1>4 DEF Next

-----------------------------------------------------------------------------
LEMMA InitIInv == Init => IInv
BY NoneIsNoValue
DEF Init, IInv, TypeOK, FormOK, RequestOK, AppliedOK, Request, Idle

(* What a step leaves alone stays true of an editor it does not concern. *)
LEMMA BystanderOK ==
  ASSUME IInv, NEW c \in Clients,
         \A id \in Ids : Advances(id),
         rows' \in [Ids -> Row \union {None}],
         born \subseteq born',
         today' \in {today, today + 1},
         forms'[c] = forms[c], requests'[c] = requests[c], applied'[c] = applied[c]
  PROVE  FormOK(c)' /\ RequestOK(c)' /\ AppliedOK(c)'
<1> USE DEF IInv
<1>1. CASE forms[c] = None
  BY <1>1 DEF FormOK, RequestOK, AppliedOK, TypeOK, Request
<1>2. CASE forms[c] # None
  <2> DEFINE id == forms[c].id
  <2>1. /\ id \in Ids /\ id \in born
        /\ forms[c].seen \in Row
        /\ rows[id] \in Row \union {None}
        /\ rows'[id] \in Row \union {None}
    BY <1>2 DEF TypeOK, Form, FormOK
  <2>2. FormOK(c)'
    <3>1. rows'[id] # None => Supersedes(rows'[id], forms[c].seen)
      BY <1>2, <2>1, KnownStaysSuperseded DEF FormOK
    <3> QED
      BY <1>2, <2>1, <3>1 DEF FormOK, Supersedes
  <2>3. RequestOK(c)'
    <3>1. CASE requests[c].phase # "checked"
      BY <1>2, <3>1 DEF RequestOK
    <3>2. CASE requests[c].phase = "checked"
      <4> DEFINE copy == requests[c].copy
                 merged == Merge(copy, requests[c].patch)
      <4>1. copy \in Row /\ merged \in Row
        BY <3>2, MergeIsRow, ActivityConstants DEF RequestOK
      <4>2. rows'[id] # None => Supersedes(rows'[id], copy)
        BY <1>2, <2>1, <3>2, <4>1, KnownStaysSuperseded DEF RequestOK
      <4>3. PlanningHolds(merged, today')
        BY <3>2, <4>1, PlanningHoldsLater DEF RequestOK, TypeOK
      <4>4. PlanningHolds(Merge(requests[c].copy, requests[c].patch), today)'
        BY <4>3 DEF PlanningHolds, Merge, OrElse
      <4> QED
        BY <1>2, <3>2, <4>1, <4>2, <4>4 DEF RequestOK, Supersedes
    <3> QED
      BY <3>1, <3>2
  <2>4. AppliedOK(c)'
    <3>1. CASE forms[c].base = None \/ applied[c] = 0
      BY <1>2, <3>1 DEF AppliedOK, TypeOK
    <3>2. CASE forms[c].base # None /\ applied[c] > 0
      <4>1. rows'[id] # None => rows'[id].version > forms[c].base
        BY <1>2, <2>1, <3>2 DEF AppliedOK, Advances, TypeOK, Form, Row
      <4> QED
        BY <1>2, <3>2, <4>1 DEF AppliedOK
    <3> QED
      BY <3>1, <3>2 DEF TypeOK
  <2> QED
    BY <2>2, <2>3, <2>4
<1> QED
  BY <1>1, <1>2

-----------------------------------------------------------------------------
(* Steps that touch rows or the calendar only: every editor is a bystander. *)

RowsOK == \A id \in Ids : rows[id] # None => id \in born /\ PlanningHolds(rows[id], today)

LEMMA RowNextIInv ==
  ASSUME IInv, NEW i \in Ids, RowNext(i)
  PROVE  IInv'
<1> USE DEF IInv
<1>1. \A id \in Ids : Advances(id)
  BY RowsAdvance DEF Next
<1>2. TypeOK' /\ RowsOK' /\ born \subseteq born' /\ UNCHANGED <<forms, requests, applied, today>>
  <2>1. CASE Create(i)
    <3>1. PICK d \in Drafts : /\ PlanningAccepts(NewRow(d, today), None, today)
                              /\ rows' = [rows EXCEPT ![i] = NewRow(d, today)]
      BY <2>1 DEF Create
    <3>2. NewRow(d, today) \in Row
      BY NewRowIsRow, ActivityConstants DEF TypeOK
    <3>3. PlanningHolds(NewRow(d, today), today)
      BY <3>1, <3>2, AcceptedPlanningHolds DEF TypeOK
    <3>4. TypeOK'
      BY <2>1, <3>1, <3>2 DEF Create, TypeOK
    <3>5. RowsOK'
      BY <2>1, <3>1, <3>3 DEF Create, RowsOK, TypeOK, PlanningHolds
    <3> QED
      BY <2>1, <3>4, <3>5 DEF Create
  <2>2. ASSUME NEW done \in BOOLEAN, Acknowledge(i, done)
        PROVE  TypeOK' /\ RowsOK'
    <3> DEFINE new == [NextVersion(rows[i]) EXCEPT !.ack = done]
    <3>1. rows[i] \in Row
      BY <2>2 DEF Acknowledge, TypeOK
    <3>2. new \in Row /\ (PlanningHolds(rows[i], today) => PlanningHolds(new, today))
      BY <3>1, NextVersionIsRow DEF Row, PlanningHolds
    <3>3. rows' = [rows EXCEPT ![i] = new]
      BY <2>2 DEF Acknowledge
    <3>4. TypeOK'
      BY <2>2, <3>2, <3>3 DEF Acknowledge, TypeOK
    <3>5. RowsOK'
      BY <2>2, <3>2, <3>3 DEF Acknowledge, RowsOK, TypeOK, PlanningHolds
    <3> QED
      BY <3>4, <3>5
  <2>3. CASE Remove(i)
    <3>1. TypeOK'
      BY <2>3 DEF Remove, TypeOK
    <3>2. RowsOK'
      BY <2>3 DEF Remove, RowsOK, TypeOK, PlanningHolds
    <3> QED
      BY <2>3, <3>1, <3>2 DEF Remove
  <2> QED
    BY <2>1, <2>2, <2>3 DEF RowNext, Acknowledge
<1>3. \A c \in Clients : FormOK(c)' /\ RequestOK(c)' /\ AppliedOK(c)'
  BY <1>1, <1>2, BystanderOK DEF TypeOK
<1> QED
  BY <1>2, <1>3 DEF RowsOK

LEMMA TickIInv ==
  ASSUME IInv, Tick
  PROVE  IInv'
<1> USE DEF IInv
<1>1. TypeOK' /\ born' = born /\ today' = today + 1
      /\ UNCHANGED <<rows, forms, requests, applied>>
  BY DEF Tick, TypeOK
<1>2. RowsOK'
  BY <1>1, PlanningHoldsLater DEF RowsOK, TypeOK
<1>3. \A c \in Clients : FormOK(c)' /\ RequestOK(c)' /\ AppliedOK(c)'
  BY <1>1, BystanderOK DEF TypeOK, Advances
<1> QED
  BY <1>1, <1>2, <1>3 DEF RowsOK

-----------------------------------------------------------------------------
(* Steps of one editor: the others are bystanders. *)

LEMMA CommitIInv ==
  ASSUME IInv, NEW c \in Clients, NEW answered \in BOOLEAN, Commit(c, answered)
  PROVE  IInv'
<1> USE DEF IInv
<1> DEFINE id   == forms[c].id
           copy == requests[c].copy
           new  == NextVersion(Merge(copy, requests[c].patch))
<1>1. /\ forms[c] # None /\ forms[c] \in Form /\ id \in Ids /\ id \in born
      /\ copy \in Row /\ requests[c].patch \in Patch
      /\ rows[id] \in Row /\ rows[id].version = copy.version
      /\ rows' = [rows EXCEPT ![id] = new]
  BY ActivityConstants DEF Commit, StillCurrent, Target, TypeOK, Form, FormOK, RequestOK
<1>2. new \in Row /\ new.version = rows[id].version + 1
  BY <1>1, MergeIsRow, NextVersionIsRow
<1>3. PlanningHolds(new, today)
  <2>1. PlanningHolds(Merge(copy, requests[c].patch), today)
    BY DEF Commit, RequestOK
  <2> QED
    BY <1>1, <2>1, MergeIsRow, NextVersionIsRow DEF PlanningHolds
<1>4. /\ born' = born /\ today' = today
      /\ \A d \in Clients \ {c} : /\ forms'[d] = forms[d] /\ requests'[d] = requests[d]
                                 /\ applied'[d] = applied[d]
  BY DEF Commit, TypeOK
<1>5. TypeOK'
  <2>1. rows' \in [Ids -> Row \union {None}]
    BY <1>1, <1>2 DEF TypeOK
  <2>2. requests' \in [Clients -> Request]
    <3>1. CASE answered
      BY <3>1 DEF Commit, TypeOK, Request, Idle
    <3>2. CASE ~ answered
      <4> DEFINE kept == [requests[c] EXCEPT !.phase = "dirty", !.copy = None]
      <4>1. kept \in Request
        BY DEF TypeOK, Request
      <4>2. requests' = [requests EXCEPT ![c] = kept]
        BY <3>2 DEF Commit
      <4> QED
        BY <4>1, <4>2 DEF TypeOK
    <3> QED
      BY <3>1, <3>2
  <2>3. forms' \in [Clients -> Form \union {None}] /\ applied' \in [Clients -> Nat]
    BY DEF Commit, TypeOK
  <2> QED
    BY <1>4, <2>1, <2>2, <2>3 DEF TypeOK
<1>6. RowsOK'
  BY <1>1, <1>3, <1>4 DEF RowsOK, TypeOK, PlanningHolds
<1>7. \A i \in Ids : Advances(i)
  BY RowsAdvance DEF Next, ClientNext
<1>8. ASSUME NEW d \in Clients \ {c} PROVE FormOK(d)' /\ RequestOK(d)' /\ AppliedOK(d)'
  BY <1>4, <1>5, <1>7, BystanderOK DEF TypeOK
<1>9. FormOK(c)' /\ RequestOK(c)' /\ AppliedOK(c)'
  <2>1. CASE answered
    <3>1. forms'[c] = None /\ requests'[c] = Idle
      BY <2>1 DEF Commit, TypeOK
    <3> QED
      BY <3>1 DEF FormOK, RequestOK, AppliedOK, Idle
  <2>2. CASE ~ answered
    <3>1. /\ forms' = forms
          /\ requests'[c].phase = "dirty" /\ requests'[c].patch = requests[c].patch
          /\ applied'[c] = applied[c] + 1
      BY <2>2 DEF Commit, TypeOK, Request
    <3>2. FormOK(c)'
      <4>1. rows'[id] # None => Supersedes(rows'[id], forms[c].seen)
        BY <1>1, <1>7, KnownStaysSuperseded DEF FormOK, Form
      <4> QED
        BY <1>4, <3>1, <4>1 DEF FormOK, Supersedes
    <3>3. RequestOK(c)'
      BY <1>1, <3>1 DEF RequestOK, Commit
    <3>4. AppliedOK(c)'
      <4>1. CASE forms[c].base = None
        BY <3>1, <4>1 DEF AppliedOK
      <4>2. CASE forms[c].base # None
        <5>1. forms[c].base = rows[id].version
          BY <1>1, <4>2 DEF RequestOK, Commit
        <5>2. applied[c] = 0
          <6>1. applied[c] \in Nat /\ rows[id].version \in Nat
            BY <1>1 DEF TypeOK, Row
          <6>2. applied[c] > 0 => rows[id].version > forms[c].base
            BY <1>1, <4>2, NoneIsNoValue DEF AppliedOK
          <6> QED
            BY <5>1, <6>1, <6>2
        <5>3. rows'[id].version > forms[c].base
          BY <1>1, <1>2, <5>1 DEF TypeOK, Row
        <5> QED
          BY <3>1, <5>2, <5>3 DEF AppliedOK
      <4> QED
        BY <4>1, <4>2
    <3> QED
      BY <3>2, <3>3, <3>4
  <2> QED
    BY <2>1, <2>2
<1> QED
  BY <1>5, <1>6, <1>8, <1>9 DEF RowsOK

LEMMA OpenIInv ==
  ASSUME IInv, NEW c \in Clients, NEW i \in Ids, NEW tracked \in BOOLEAN, Open(c, i, tracked)
  PROVE  IInv'
<1> USE DEF IInv
<1> DEFINE form == [id   |-> i,
                    base |-> IF tracked THEN rows[i].version ELSE None,
                    seen |-> rows[i]]
<1>1. rows[i] \in Row /\ i \in born
  BY DEF Open, TypeOK
<1>2. form \in Form
  BY <1>1 DEF Form, Row
<1>3. TypeOK'
  BY <1>2 DEF Open, TypeOK, Request, Idle
<1>4. RowsOK'
  BY DEF Open, RowsOK, PlanningHolds
<1>5. ASSUME NEW d \in Clients \ {c} PROVE FormOK(d)' /\ RequestOK(d)' /\ AppliedOK(d)'
  BY <1>3, BystanderOK DEF TypeOK, Advances, Open
<1>6. FormOK(c)' /\ RequestOK(c)' /\ AppliedOK(c)'
  <2>1. forms'[c] = form /\ requests'[c] = Idle /\ applied'[c] = 0 /\ UNCHANGED <<rows, born>>
    BY DEF Open, TypeOK
  <2> QED
    BY <1>1, <2>1 DEF FormOK, RequestOK, AppliedOK, Idle, Supersedes
<1> QED
  BY <1>3, <1>4, <1>5, <1>6 DEF RowsOK

LEMMA CheckIInv ==
  ASSUME IInv, NEW c \in Clients, Check(c)
  PROVE  IInv'
<1> USE DEF IInv
<1> DEFINE row    == rows[forms[c].id]
           loaded == [requests[c] EXCEPT !.phase = "checked", !.copy = row]
<1>1. /\ forms[c] # None /\ forms[c] \in Form
      /\ row \in Row /\ requests[c].patch \in Patches
      /\ requests[c] \in Request
  BY DEF Check, Target, TypeOK, Form, RequestOK
<1>2. loaded \in Request /\ requests' = [requests EXCEPT ![c] = loaded]
      /\ UNCHANGED <<rows, born, forms, applied, today>>
  BY <1>1 DEF Check, Target, Request
<1>3. TypeOK'
  BY <1>2 DEF TypeOK
<1>4. RowsOK'
  BY <1>2 DEF RowsOK, PlanningHolds
<1>5. ASSUME NEW d \in Clients \ {c} PROVE FormOK(d)' /\ RequestOK(d)' /\ AppliedOK(d)'
  BY <1>2, <1>3, BystanderOK DEF TypeOK, Advances
<1>6. PlanningHolds(Merge(row, requests[c].patch), today)
  BY <1>1, MergeIsRow, AcceptedPlanningHolds, ActivityConstants DEF Check, Target, TypeOK
<1>7. RequestOK(c)'
  <2>1. /\ requests'[c].phase = "checked" /\ requests'[c].copy = row
        /\ requests'[c].patch = requests[c].patch
    BY <1>1, <1>2 DEF TypeOK, Request
  <2>2. forms[c].base # None => forms[c].base = row.version
    BY DEF Check, StaleBaseline, Target
  <2>3. PlanningHolds(Merge(requests[c].copy, requests[c].patch), today)'
    BY <1>2, <1>6, <2>1 DEF PlanningHolds, Merge, OrElse
  <2> QED
    BY <1>1, <1>2, <2>1, <2>2, <2>3 DEF RequestOK, Supersedes
<1>8. FormOK(c)' /\ AppliedOK(c)'
  BY <1>2 DEF FormOK, AppliedOK, Supersedes
<1> QED
  BY <1>3, <1>4, <1>5, <1>7, <1>8 DEF RowsOK

(* Steps after which the draft is not checked: the form stays or is closed. *)
LEMMA DraftIInv ==
  ASSUME IInv, NEW c \in Clients,
         \/ \E p \in Patches : Change(c, p)
         \/ Send(c) \/ CheckGone(c) \/ CheckRefused(c) \/ Conflict(c)
  PROVE  IInv'
<1> USE DEF IInv
<1>1. /\ requests[c] \in Request
      /\ requests[c].phase # "idle" => requests[c].patch \in Patches /\ forms[c] # None
  BY DEF TypeOK, RequestOK
<1>2. /\ UNCHANGED <<rows, born, today>>
      /\ \/ forms' = forms /\ applied' = applied
         \/ /\ forms' = [forms EXCEPT ![c] = None]
            /\ applied' = [applied EXCEPT ![c] = 0]
  BY DEF Change, Send, CheckGone, CheckRefused, Conflict
<1>3. PICK r \in Request :
        /\ requests' = [requests EXCEPT ![c] = r]
        /\ r.phase # "checked"
        /\ r.phase # "idle" => r.patch \in Patches /\ forms'[c] # None
  <2>2. CASE \E p \in Patches : Change(c, p)
    <3>1. PICK p \in Patches : Change(c, p)
      BY <2>2
    <3> DEFINE draft == [phase |-> "dirty", patch |-> p, copy |-> None]
    <3>2. /\ draft \in Request /\ draft.phase # "checked"
          /\ draft.patch \in Patches /\ forms'[c] # None
          /\ requests' = [requests EXCEPT ![c] = draft]
      BY <3>1 DEF Change, Request
    <3> HIDE DEF draft
    <3> QED
      BY <3>2
  <2>3. CASE Send(c)
    <3> DEFINE sent == [requests[c] EXCEPT !.phase = "sent"]
    <3>1. sent \in Request /\ sent.phase = "sent" /\ sent.patch = requests[c].patch
      BY <1>1 DEF Request
    <3>2. /\ requests' = [requests EXCEPT ![c] = sent]
          /\ requests[c].patch \in Patches /\ forms'[c] # None
      BY <1>1, <2>3 DEF Send
    <3> HIDE DEF sent
    <3> QED
      BY <3>1, <3>2
  <2>4. CASE CheckGone(c)
    <3>1. Idle \in Request /\ Idle.phase = "idle"
      BY DEF Idle, Request
    <3>2. requests' = [requests EXCEPT ![c] = Idle]
      BY <2>4 DEF CheckGone
    <3> QED
      BY <3>1, <3>2
  <2>5. CASE CheckRefused(c)
    <3> DEFINE kept == [requests[c] EXCEPT !.phase = "dirty"]
    <3>1. kept \in Request /\ kept.phase = "dirty" /\ kept.patch = requests[c].patch
      BY <1>1 DEF Request
    <3>2. /\ requests' = [requests EXCEPT ![c] = kept]
          /\ requests[c].patch \in Patches /\ forms'[c] # None
      BY <1>1, <2>5 DEF CheckRefused
    <3> HIDE DEF kept
    <3> QED
      BY <3>1, <3>2
  <2>6. CASE Conflict(c)
    <3> DEFINE kept == [requests[c] EXCEPT !.phase = "dirty", !.copy = None]
    <3>1. kept \in Request /\ kept.phase = "dirty" /\ kept.patch = requests[c].patch
      BY <1>1 DEF Request
    <3>2. /\ requests' = [requests EXCEPT ![c] = kept]
          /\ requests[c].patch \in Patches /\ forms'[c] # None
      BY <1>1, <2>6 DEF Conflict
    <3> HIDE DEF kept
    <3> QED
      BY <3>1, <3>2
  <2> QED
    BY <2>2, <2>3, <2>4, <2>5, <2>6
<1>4. TypeOK'
  BY <1>2, <1>3 DEF TypeOK
<1>5. RowsOK'
  BY <1>2 DEF RowsOK, PlanningHolds
<1>6. ASSUME NEW d \in Clients \ {c} PROVE FormOK(d)' /\ RequestOK(d)' /\ AppliedOK(d)'
  BY <1>2, <1>3, <1>4, BystanderOK DEF TypeOK, Advances
<1>7. FormOK(c)' /\ RequestOK(c)' /\ AppliedOK(c)'
  BY <1>2, <1>3 DEF FormOK, RequestOK, AppliedOK, Supersedes, TypeOK
<1> QED
  BY <1>4, <1>5, <1>6, <1>7 DEF RowsOK

LEMMA NextIInv == IInv /\ [Next]_vars => IInv'
<1>1. ASSUME IInv, Next PROVE IInv'
  <2>1. CASE \E id \in Ids : RowNext(id)
    BY <1>1, <2>1, RowNextIInv
  <2>2. ASSUME NEW c \in Clients, ClientNext(c) PROVE IInv'
    BY <1>1, <2>2, OpenIInv, CheckIInv, CommitIInv, DraftIInv DEF ClientNext
  <2>3. CASE Tick
    BY <1>1, <2>3, TickIInv
  <2> QED
    BY <1>1, <2>1, <2>2, <2>3 DEF Next
<1>2. IInv /\ UNCHANGED vars => IInv'
  BY DEF vars, IInv, TypeOK, FormOK, RequestOK, AppliedOK, Supersedes, PlanningHolds,
         Merge, OrElse
<1> QED
  BY <1>1, <1>2

LEMMA InvariantIInv == Spec => []IInv
BY InitIInv, NextIInv, PTL DEF Spec

-----------------------------------------------------------------------------
(* The variables keep their types.                                         *)
THEOREM TypeCorrect == Spec => []TypeOK
<1>1. IInv => TypeOK
  BY DEF IInv
<1> QED
  BY <1>1, InvariantIInv, PTL

(* No interleaving of partial updates stores visitors on a plan or on a    *)
(* future day, or a completed activity in the future: update() validates   *)
(* its own merge, saves exactly that, and no rule breaks as days pass.     *)
THEOREM PlanningSafe == Spec => []PlanningConsistent
<1>1. IInv => PlanningConsistent
  BY DEF IInv, PlanningConsistent, PlanningHolds
<1> QED
  BY <1>1, InvariantIInv, PTL

(* A draft sent with expectedVersion is stored at most once, whatever      *)
(* becomes of the answer.                                                  *)
THEOREM StoredAtMostOnce == Spec => []AtMostOnce
<1>1. IInv => AtMostOnce
  BY DEF IInv, TypeOK, AtMostOnce, AppliedOK
<1> QED
  BY <1>1, InvariantIInv, PTL

(* An unchanged version means an unchanged row: every operation that       *)
(* writes a row moves its version on.                                      *)
THEOREM VersionIdentifiesRow == Spec => []BaselineIsCurrent
<1>1. IInv => BaselineIsCurrent
  BY DEF IInv, TypeOK, BaselineIsCurrent, FormOK, Supersedes, Form, Row
<1> QED
  BY <1>1, InvariantIInv, PTL

(* An edit that was under way when its activity was removed does not bring *)
(* the activity back.                                                      *)
THEOREM RemovedStaysRemoved == Spec => RemovedForGood
<1>1. IInv /\ Next => \A id \in Ids : id \in born /\ rows[id] = None => rows'[id] = None
  BY RowsAdvance DEF Advances
<1>2. IInv /\ [Next]_vars =>
        [\A id \in Ids : id \in born /\ rows[id] = None => rows'[id] = None]_vars
  BY <1>1
<1> QED
  BY <1>2, InvariantIInv, PTL DEF Spec, RemovedForGood

-----------------------------------------------------------------------------
(* The refinement: with the reading and the writing of a request seen as   *)
(* one step, taken at the commit.                                          *)

LEMMA CommitIsEdit ==
  ASSUME IInv, NEW c \in Clients, NEW answered \in BOOLEAN, Commit(c, answered)
  PROVE  \E p \in Patches : Store!Edit(c, p, answered)
<1> USE DEF IInv
<1> DEFINE id == forms[c].id
           p  == requests[c].patch
<1>1. /\ forms[c] # None /\ forms[c] \in Form /\ p \in Patches
      /\ requests[c].copy \in Row /\ rows[id] # None /\ rows[id] \in Row
      /\ rows[id].version = requests[c].copy.version
  BY DEF Commit, StillCurrent, Target, TypeOK, Form, RequestOK
<1>2. rows[id] = requests[c].copy
  BY <1>1 DEF Commit, RequestOK, Supersedes, Row
<1>3. forms[c].base # None => forms[c].seen = rows[id]
  <2> SUFFICES ASSUME forms[c].base # None PROVE forms[c].seen = rows[id]
    OBVIOUS
  <2>1. forms[c].seen.version = rows[id].version
    BY <1>1 DEF Commit, RequestOK, FormOK
  <2>2. Supersedes(rows[id], forms[c].seen)
    BY <1>1 DEF FormOK
  <2> QED
    BY <1>1, <2>1, <2>2 DEF Supersedes, Row
<1>4. rows' = [rows EXCEPT ![id] = NextVersion(Merge(rows[id], p))]
  BY <1>2 DEF Commit
<1>5. forms' = IF answered THEN [forms EXCEPT ![c] = None] ELSE forms
  BY DEF Commit
<1>6. UNCHANGED <<born, today>>
  BY DEF Commit
<1> QED
  BY <1>1, <1>3, <1>4, <1>5, <1>6 DEF Store!Edit, NextVersion, Merge, OrElse, Store!NextVersion,
     Store!Merge, Store!OrElse

LEMMA StepIsStoreStep == IInv /\ [Next]_vars => [Store!Next]_(Store!vars)
<1> SUFFICES ASSUME IInv, [Next]_vars PROVE [Store!Next]_(Store!vars)
  OBVIOUS
<1>1. ASSUME NEW id \in Ids, RowNext(id) PROVE Store!Next
  <2>1. CASE Create(id)
    BY <2>1 DEF Create, Store!Next, Store!Create, Store!PlanningAccepts, PlanningAccepts,
       NewRow, Store!NewRow, ImpliedStatus, Store!ImpliedStatus, OrElse, Store!OrElse
  <2>2. ASSUME NEW done \in BOOLEAN, Acknowledge(id, done) PROVE Store!Next
    BY <2>2 DEF Acknowledge, Store!Next, Store!Acknowledge, NextVersion, Store!NextVersion
  <2>3. CASE Remove(id)
    BY <2>3 DEF Remove, Store!Next, Store!Remove
  <2> QED
    BY <1>1, <2>1, <2>2, <2>3 DEF RowNext
<1>2. ASSUME NEW c \in Clients, ClientNext(c) PROVE [Store!Next]_(Store!vars)
  <2>1. ASSUME NEW id \in Ids, NEW tracked \in BOOLEAN, Open(c, id, tracked) PROVE Store!Next
    BY <2>1 DEF Open, Store!Open, Store!Next
  <2>2. ASSUME NEW answered \in BOOLEAN, Commit(c, answered) PROVE Store!Next
    BY <2>2, CommitIsEdit DEF Store!Next
  <2>3. CASE CheckGone(c)
    BY <2>3 DEF CheckGone, Store!Close, Store!Next
  <2>4. CASE \/ \E p \in Patches : Change(c, p)
             \/ Send(c) \/ CheckRefused(c) \/ Check(c) \/ Conflict(c)
    BY <2>4 DEF Change, Send, CheckRefused, Check, Conflict, Store!vars
  <2> QED
    BY <1>2, <2>1, <2>2, <2>3, <2>4 DEF ClientNext
<1>3. CASE Tick
  BY <1>3 DEF Tick, Store!Tick, Store!Next
<1>4. CASE UNCHANGED vars
  BY <1>4 DEF vars, Store!vars
<1> QED
  BY <1>1, <1>2, <1>3, <1>4 DEF Next

(* The service implements the atomic store: no accepted edit overwrites a  *)
(* change its editor had not seen, and none is lost.                       *)
THEOREM ImplementsStore == Spec => EditsAreAtomic
<1>1. Init => Store!Init
  BY DEF Init, Store!Init
<1> QED
  BY <1>1, StepIsStoreStep, InvariantIInv, PTL DEF Spec, EditsAreAtomic, Store!Spec
=============================================================================
