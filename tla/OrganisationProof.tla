------------------------- MODULE OrganisationProof -------------------------
(***************************************************************************)
(* What holds of three things an organisation keeps.                       *)
(*                                                                         *)
(* Annual targets: for any number of overlapping requests.  Every write    *)
(* raises the version, so a request whose copy has the stored version      *)
(* holds the stored row itself; what it checked and measured on the copy   *)
(* then holds of the row it replaces.                                      *)
(*                                                                         *)
(* Accounts, memberships and invitations: for any number of them, of       *)
(* addresses and of people with an invitation in their hands.  Types for   *)
(* any requests of administrators; the rest when these do not overlap.     *)
(*                                                                         *)
(* The tree of organisations: for any number of them and of readers, and   *)
(* one request at a time that changes it.  The proofs see the tree by the  *)
(* lines from the top down to each organisation, a function F the parents  *)
(* determine, and follow it through every change.                          *)
(***************************************************************************)
EXTENDS AnnualTargets, Accounts, OrgTree, FiniteSetTheorems, SequenceTheorems, WellFoundedInduction,
        TLAPS

-----------------------------------------------------------------------------
(* Annual targets.                                                         *)

(* What a request in progress knows. *)
WorkOK(r) ==
  /\ rows[work[r].id] # None
  /\ work[r].copy.version <= rows[work[r].id].version
  /\ work[r].copy.version = rows[work[r].id].version => work[r].copy = rows[work[r].id]
  /\ Allowed(work[r].copy, work[r].cmd)
  /\ work[r].cmd.kind = "close" /\ work[r].phase = "ready" =>
       work[r].snapshot # None /\ work[r].snapshot.measure = work[r].copy.def.measure

WorkSound == \A r \in Requests : work[r] # None => WorkOK(r)

IInv == TypeOK /\ ResultFits /\ HistoryTells /\ WorkSound

(* The row a request saves: a row again, sound, and the old history with   *)
(* one revision more.                                                      *)
LEMMA SavedRow ==
  ASSUME NEW STATE row, row \in Row, Tells(row), Fits(row),
         NEW STATE cmd, cmd \in Commands, Allowed(row, cmd),
         NEW STATE s, s \in Snapshot \union {None},
         cmd.kind = "close" => s # None /\ s.measure = row.def.measure
  PROVE  LET new == Revised(Changed(row, cmd, s), cmd) IN
           /\ new \in Row /\ Fits(new) /\ Tells(new)
           /\ new.version = row.version + 1
           /\ \A i \in 1 .. row.version : new.history[i] = row.history[i]
           /\ row.status = "closed" => new.status = "active" /\ new.def = row.def
<1> DEFINE mid == Changed(row, cmd, s)
           new == Revised(mid, cmd)
           rev == RevisionOf(cmd.kind, cmd.reasoned, mid.status, mid.def, mid.snapshot)
<1>1. cmd \in Command
  BY TargetConstants
<1>2. /\ mid \in Row /\ mid.version = row.version /\ mid.history = row.history
      /\ Fits(mid)
      /\ row.status = "closed" => mid.status = "active" /\ mid.def = row.def
  <2>1. CASE cmd.kind = "update"
    BY <1>1, <2>1 DEF Changed, Allowed, UpdateAllowed, Row, Command, Status, Fits
  <2>2. CASE cmd.kind = "activate"
    BY <1>1, <2>2 DEF Changed, Allowed, Row, Command, Status, Fits
  <2>3. CASE cmd.kind = "close"
    BY <1>1, <2>3 DEF Changed, Allowed, CloseAllowed, Row, Command, Status, Fits, Definition
  <2>4. CASE cmd.kind = "reopen"
    BY <1>1, <2>4 DEF Changed, Allowed, Row, Command, Status, Fits
  <2>. QED
    BY <1>1, <2>1, <2>2, <2>3, <2>4 DEF Command
<1>3. rev \in Revision
  BY <1>1, <1>2 DEF RevisionOf, Revision, Action, Row, Command
<1>4. Successor(row.history[row.version], rev)
  <2>1. CASE cmd.kind = "update"
    BY <1>1, <2>1 DEF Changed, Allowed, UpdateAllowed, Row, Command, Status, Tells, RevisionOf, Successor
  <2>2. CASE cmd.kind = "activate"
    BY <1>1, <2>2 DEF Changed, Allowed, Row, Command, Status, Tells, RevisionOf, Successor
  <2>3. CASE cmd.kind = "close"
    BY <1>1, <2>3 DEF Changed, Allowed, CloseAllowed, Row, Command, Status, Tells, RevisionOf, Successor
  <2>4. CASE cmd.kind = "reopen"
    BY <1>1, <2>4 DEF Changed, Allowed, Row, Command, Status, Tells, RevisionOf, Successor
  <2>. QED
    BY <1>1, <2>1, <2>2, <2>3, <2>4 DEF Command
<1>5. /\ new \in Row
      /\ new.version = row.version + 1 /\ new.history = Append(row.history, rev)
      /\ new.status = mid.status /\ new.def = mid.def /\ new.snapshot = mid.snapshot
  <2> HIDE DEF mid
  <2>1. mid.history \in Seq(Revision) /\ mid.version \in Nat
    BY <1>2 DEF Row
  <2>2. Append(mid.history, rev) \in Seq(Revision)
    <3> HIDE DEF rev
    <3>. QED
      BY <1>3, <2>1
  <2>3. new = [mid EXCEPT !.version = mid.version + 1, !.history = Append(mid.history, rev)]
    BY DEF Revised
  <2> DEFINE h == Append(mid.history, rev)
             v == mid.version + 1
  <2> HIDE DEF new, rev
  <2>4. h \in Seq(Revision) /\ v \in Nat /\ h = Append(row.history, rev) /\ v = row.version + 1
    BY <1>2, <2>1, <2>2
  <2>5. new = [mid EXCEPT !.version = v, !.history = h]
    BY <2>3
  <2> HIDE DEF h, v
  <2>6. new \in Row /\ new.version = v /\ new.history = h
    BY <1>2, <2>4, <2>5 DEF Row
  <2>7. new.status = mid.status /\ new.def = mid.def /\ new.snapshot = mid.snapshot
    BY <1>2, <2>5 DEF Row
  <2>. QED
    BY <2>4, <2>6, <2>7
<1>6. row.version \in Nat /\ row.history \in Seq(Revision) /\ Len(row.history) = row.version
  BY DEF Tells, Row
<1>7. /\ Len(new.history) = new.version
      /\ new.history[new.version] = rev
      /\ \A i \in 1 .. row.version : new.history[i] = row.history[i]
  <2> HIDE DEF new, rev
  <2>. QED
    BY <1>3, <1>5, <1>6
<1>8. Tells(new)
  <2>1. /\ rev.status = mid.status /\ rev.def = mid.def /\ rev.snapshot = mid.snapshot
    BY DEF RevisionOf
  <2>2. \A i \in 2 .. new.version : Successor(new.history[i - 1], new.history[i])
    <3> SUFFICES ASSUME NEW i \in 2 .. new.version
                 PROVE  Successor(new.history[i - 1], new.history[i])
      OBVIOUS
    <3>1. i - 1 \in 1 .. row.version /\ (i \in 2 .. row.version \/ i = new.version)
      BY <1>5, <1>6
    <3>2. CASE i = new.version
      <4>1. i - 1 = row.version
        BY <1>5, <1>6, <3>2
      <4>2. new.history[i - 1] = row.history[row.version] /\ new.history[i] = rev
        BY <1>7, <3>1, <3>2, <4>1
      <4>. QED
        BY <1>4, <4>2
    <3>3. CASE i \in 2 .. row.version
      BY <1>6, <1>7, <3>1, <3>3 DEF Tells
    <3>. QED
      BY <3>1, <3>2, <3>3
  <2> HIDE DEF new, rev, mid
  <2>. QED
    BY <1>5, <1>6, <1>7, <2>1, <2>2 DEF Tells
<1>9. Fits(new)
  <2> HIDE DEF new, mid
  <2>. QED
    BY <1>2, <1>5 DEF Fits
<1>. QED
  BY <1>2, <1>5, <1>7, <1>8, <1>9

(* A request in progress stays sound when its row stays or moves forward. *)
LEMMA WorkKept ==
  ASSUME IInv, NEW r \in Requests, work[r] # None, work'[r] = work[r],
         today' \in Nat, today' >= today,
         LET old == rows[work[r].id]
             new == rows'[work[r].id]
         IN new = old \/ (new \in Row /\ new # None /\ new.version > old.version)
  PROVE  WorkOK(r)'
<1> DEFINE w == work[r]
<1>1. /\ w \in Work /\ WorkOK(r) /\ rows[w.id] \in Row
      /\ w.copy \in Row /\ w.cmd \in Command /\ w.copy.def \in Definition
  BY TargetConstants DEF IInv, TypeOK, WorkSound, WorkOK, Work, Row
<1>2. Allowed(work[r].copy, work[r].cmd)'
  <2>1. Allowed(w.copy, w.cmd) /\ w.cmd.kind \in {"update", "activate", "close", "reopen"}
    BY <1>1 DEF WorkOK, Command
  <2>2. w.copy.def.end \in Nat /\ today \in Nat
    BY <1>1 DEF Definition, IInv, TypeOK
  <2>3. CloseAllowed(w.copy, w.cmd) => CloseAllowed(w.copy, w.cmd)'
    BY <2>2 DEF CloseAllowed
  <2>4. Allowed(w.copy, w.cmd)'
    BY <2>1, <2>3 DEF Allowed, UpdateAllowed
  <2>. QED
    BY <2>4
<1>3. w.copy.version \in Nat /\ rows[w.id].version \in Nat
  BY <1>1 DEF Row
<1>4. /\ rows'[w.id] # None
      /\ w.copy.version <= rows'[w.id].version
      /\ w.copy.version = rows'[w.id].version => w.copy = rows'[w.id]
  BY <1>1, <1>3 DEF WorkOK, Row
<1> HIDE DEF w
<1>. QED
  BY <1>1, <1>2, <1>4 DEF WorkOK, w

LEMMA InitIInv == Init => IInv
  BY TargetConstants
  DEF Init, IInv, TypeOK, ResultFits, HistoryTells, WorkSound

LEMMA CreateKeeps ==
  ASSUME IInv, NEW id \in Ids, NEW d \in Definitions, NEW action \in Action, Create(id, d, action)
  PROVE  IInv'
<1> DEFINE new == NewRow(d, action)
<1>1. new \in Row /\ new # None /\ Fits(new) /\ Tells(new)
  <2> DEFINE rev == RevisionOf(action, TRUE, "draft", d, None)
  <2>1. /\ rev \in Revision
        /\ rev.status = "draft" /\ rev.def = d /\ rev.snapshot = None
    BY DEF RevisionOf, Revision, Status
  <2>2. new = [status |-> "draft", def |-> d, snapshot |-> None, version |-> 1, history |-> <<rev>>]
    BY DEF NewRow
  <2> HIDE DEF rev, new
  <2>3. <<rev>> \in Seq(Revision) /\ Len(<<rev>>) = 1 /\ <<rev>>[1] = rev
    BY <2>1
  <2>4. new \in Row
    BY <2>2, <2>3 DEF Row, Status
  <2>5. new # None
    BY <2>4, NoneIsNoValue
  <2>6. Fits(new)
    BY <2>2 DEF Fits
  <2>7. /\ new.history = <<rev>> /\ new.version = 1
        /\ new.status = "draft" /\ new.def = d /\ new.snapshot = None
    BY <2>2
  <2>8. Tells(new)
    BY <2>1, <2>3, <2>7 DEF Tells
  <2>. QED
    BY <2>4, <2>5, <2>6, <2>8
<1>2. rows[id] = None /\ rows' = [rows EXCEPT ![id] = new] /\ UNCHANGED <<work, data, today>>
  BY DEF Create
<1> HIDE DEF new
<1>3. TypeOK' /\ ResultFits' /\ HistoryTells'
  BY <1>1, <1>2 DEF IInv, TypeOK, ResultFits, HistoryTells, Fits, Tells
<1>4. WorkSound'
  <2> SUFFICES ASSUME NEW r \in Requests, work[r] # None
               PROVE  WorkOK(r)'
    BY <1>2 DEF WorkSound
  <2>1. work[r].id # id /\ work[r].id \in Ids
    BY <1>2 DEF IInv, TypeOK, WorkSound, WorkOK, Work
  <2>. QED
    BY <1>2, <2>1, WorkKept DEF IInv, TypeOK
<1>. QED
  BY <1>3, <1>4 DEF IInv

LEMMA FindKeeps ==
  ASSUME IInv, NEW r \in Requests, NEW id \in Ids, NEW cmd \in Commands, Find(r, id, cmd)
  PROVE  IInv'
<1> DEFINE new == [phase |-> IF cmd.kind = "close" THEN "found" ELSE "ready",
                   id |-> id, cmd |-> cmd, copy |-> rows[id], snapshot |-> None]
<1>1. new \in Work
  BY DEF Find, Work, IInv, TypeOK
<1>2. /\ work' = [work EXCEPT ![r] = new] /\ UNCHANGED <<rows, data, today>>
      /\ new.id = id /\ new.cmd = cmd /\ new.copy = rows[id]
      /\ cmd.kind = "close" => new.phase = "found"
  BY DEF Find
<1>a. rows[id] # None /\ rows[id].version \in Nat /\ Allowed(rows[id], cmd)
  BY DEF Find, IInv, TypeOK, Row
<1> HIDE DEF new
<1>b. work'[r] = new
  BY <1>2 DEF IInv, TypeOK
<1>3. TypeOK' /\ ResultFits' /\ HistoryTells'
  BY <1>1, <1>2 DEF IInv, TypeOK, ResultFits, HistoryTells, Fits, Tells
<1>4. WorkSound'
  <2> SUFFICES ASSUME NEW q \in Requests, work'[q] # None
               PROVE  WorkOK(q)'
    BY DEF WorkSound
  <2>1. CASE q = r
    <3>1. Allowed(work[r].copy, work[r].cmd)'
      BY <1>2, <1>a, <1>b DEF Allowed, UpdateAllowed, CloseAllowed
    <3>. QED
      BY <1>2, <1>a, <1>b, <2>1, <3>1 DEF WorkOK
  <2>2. CASE q # r
    BY <1>2, <2>2, WorkKept DEF IInv, TypeOK
  <2>. QED
    BY <2>1, <2>2
<1>. QED
  BY <1>3, <1>4 DEF IInv

LEMMA MeasureKeeps ==
  ASSUME IInv, NEW r \in Requests, Measure(r)
  PROVE  IInv'
<1> DEFINE snap == [measure |-> work[r].copy.def.measure, data |-> data]
           new  == [work[r] EXCEPT !.phase = "ready", !.snapshot = snap]
<1>1. /\ work[r] \in Work /\ WorkOK(r)
      /\ work[r].copy.def \in Definition /\ data \in Nat
  BY TargetConstants DEF Measure, IInv, TypeOK, WorkSound, Work, Row
<1>2. snap \in Snapshot /\ snap # None
  BY <1>1, NoneIsNoValue DEF Snapshot, Definition
<1>3. /\ new \in Work
      /\ new.id = work[r].id /\ new.copy = work[r].copy /\ new.cmd = work[r].cmd
      /\ new.snapshot = snap /\ snap.measure = work[r].copy.def.measure
  <2>1. snap.measure = work[r].copy.def.measure
    OBVIOUS
  <2> HIDE DEF snap
  <2>. QED
    BY <1>1, <1>2, <2>1 DEF Work
<1>4. work' = [work EXCEPT ![r] = new] /\ UNCHANGED <<rows, data, today>>
  BY DEF Measure, IInv, TypeOK
<1> HIDE DEF new, snap
<1>a. work'[r] = new
  BY <1>4 DEF IInv, TypeOK
<1>b. Allowed(work[r].copy, work[r].cmd)'
  BY <1>1, <1>3, <1>4, <1>a DEF WorkOK, Allowed, UpdateAllowed, CloseAllowed
<1>5. WorkOK(r)'
  BY <1>1, <1>2, <1>3, <1>4, <1>a, <1>b DEF WorkOK
<1>6. TypeOK' /\ ResultFits' /\ HistoryTells'
  BY <1>3, <1>4 DEF IInv, TypeOK, ResultFits, HistoryTells, Fits, Tells
<1>7. WorkSound'
  <2> SUFFICES ASSUME NEW q \in Requests, work'[q] # None
               PROVE  WorkOK(q)'
    BY DEF WorkSound
  <2>1. CASE q = r
    BY <1>5, <2>1
  <2>2. CASE q # r
    BY <1>4, <2>2, WorkKept DEF IInv, TypeOK
  <2>. QED
    BY <2>1, <2>2
<1>. QED
  BY <1>6, <1>7 DEF IInv

(* What Persist does to the stored row. *)
LEMMA PersistWrites ==
  ASSUME IInv, NEW r \in Requests, Persist(r)
  PROVE  LET id  == work[r].id
             row == rows[id]
             new == rows'[id]
         IN /\ id \in Ids /\ row # None /\ row \in Row
            /\ rows' = [rows EXCEPT ![id] = new]
            /\ new \in Row /\ new # None /\ Fits(new) /\ Tells(new)
            /\ new.version = row.version + 1
            /\ \A i \in 1 .. row.version : new.history[i] = row.history[i]
            /\ row.status = "closed" => new.status = "active" /\ new.def = row.def
<1> DEFINE w   == work[r]
           new == Revised(Changed(w.copy, w.cmd, w.snapshot), w.cmd)
<1>1. w \in Work /\ WorkOK(r) /\ w.phase = "ready" /\ w.id \in Ids
  BY DEF Persist, IInv, TypeOK, WorkSound, Work
<1>2. w.copy = rows[w.id] /\ rows[w.id] # None /\ rows[w.id] \in Row
  BY <1>1 DEF Persist, Current, IInv, TypeOK, WorkOK
<1>3. Fits(w.copy) /\ Tells(w.copy)
  BY <1>1, <1>2 DEF IInv, ResultFits, HistoryTells
<1>4. /\ w.cmd \in Commands /\ w.snapshot \in Snapshot \union {None}
      /\ w.cmd.kind = "close" => w.snapshot # None /\ w.snapshot.measure = w.copy.def.measure
      /\ Allowed(w.copy, w.cmd)
  BY <1>1 DEF Work, WorkOK
<1>5. /\ new \in Row /\ Fits(new) /\ Tells(new)
      /\ new.version = w.copy.version + 1
      /\ \A i \in 1 .. w.copy.version : new.history[i] = w.copy.history[i]
      /\ w.copy.status = "closed" => new.status = "active" /\ new.def = w.copy.def
  <2>1. w.copy \in Row
    BY <1>2
  <2> HIDE DEF w
  <2>. QED
    BY <1>3, <1>4, <2>1, SavedRow
<1>6. rows' = [rows EXCEPT ![w.id] = new]
  BY DEF Persist
<1>7. new # None
  BY <1>5, NoneIsNoValue
<1> HIDE DEF new, w
<1>8. rows'[w.id] = new
  BY <1>1, <1>6 DEF IInv, TypeOK
<1>. QED
  BY <1>1, <1>2, <1>5, <1>6, <1>7, <1>8 DEF w

LEMMA PersistKeeps ==
  ASSUME IInv, NEW r \in Requests, Persist(r)
  PROVE  IInv'
<1> DEFINE id  == work[r].id
           new == rows'[id]
<1>1. /\ id \in Ids /\ rows[id] # None /\ rows[id] \in Row
      /\ rows' = [rows EXCEPT ![id] = new]
      /\ new \in Row /\ new # None /\ Fits(new) /\ Tells(new)
      /\ new.version = rows[id].version + 1
  BY PersistWrites
<1>2. work' = [work EXCEPT ![r] = None] /\ UNCHANGED <<data, today>>
  BY DEF Persist
<1> HIDE DEF new, id
<1>3. TypeOK' /\ ResultFits' /\ HistoryTells'
  BY <1>1, <1>2 DEF IInv, TypeOK, ResultFits, HistoryTells, Fits, Tells
<1>4. WorkSound'
  <2> SUFFICES ASSUME NEW q \in Requests, work'[q] # None
               PROVE  WorkOK(q)'
    BY DEF WorkSound
  <2>1. work'[q] = work[q] /\ work[q] # None /\ work[q].id \in Ids
    BY <1>2 DEF IInv, TypeOK, Work
  <2>2. rows[id].version \in Nat /\ new.version > rows[id].version
    BY <1>1 DEF Row
  <2>3. LET old == rows[work[q].id]
            now == rows'[work[q].id]
        IN now = old \/ (now \in Row /\ now # None /\ now.version > old.version)
    BY <1>1, <2>1, <2>2 DEF IInv, TypeOK
  <2>4. today' \in Nat /\ today' >= today
    BY <1>2 DEF IInv, TypeOK
  <2>. QED
    BY <2>1, <2>3, <2>4, WorkKept
<1>. QED
  BY <1>3, <1>4 DEF IInv

(* The steps that leave the rows alone and add no request. *)
LEMMA QuietStepKeeps ==
  ASSUME IInv, UNCHANGED rows, data' \in Nat, today' \in Nat, today' >= today,
         work' \in [Requests -> Work \union {None}],
         \A r \in Requests : work'[r] \in {work[r], None}
  PROVE  IInv'
<1>1. TypeOK' /\ HistoryTells'
  BY DEF IInv, TypeOK, HistoryTells, Tells
<1>2. ResultFits'
  <2> SUFFICES ASSUME NEW id \in Ids, rows[id] # None
               PROVE  Fits(rows[id])'
    BY DEF ResultFits
  <2>1. rows[id] \in Row /\ rows[id].def \in Definition /\ Fits(rows[id])
    BY TargetConstants DEF IInv, TypeOK, Row, ResultFits
  <2>. QED
    BY <2>1 DEF Fits, Definition, IInv, TypeOK
<1>3. WorkSound'
  BY WorkKept DEF WorkSound
<1>. QED
  BY <1>1, <1>2, <1>3 DEF IInv

LEMMA StepKeeps == IInv /\ [Next]_vars => IInv'
<1> SUFFICES ASSUME IInv, [Next]_vars PROVE IInv'
  OBVIOUS
<1>0. data \in Nat /\ today \in Nat /\ work \in [Requests -> Work \union {None}]
  BY DEF IInv, TypeOK
<1>1. CASE UNCHANGED vars
  BY <1>0, <1>1, QuietStepKeeps DEF vars
<1>2. ASSUME NEW id \in Ids, NEW d \in Definitions, NEW action \in Action, Create(id, d, action)
      PROVE  IInv'
  BY <1>2, CreateKeeps
<1>3. ASSUME NEW r \in Requests, RequestNext(r)
      PROVE  IInv'
  <2>1. ASSUME NEW id \in Ids, NEW cmd \in Commands, Find(r, id, cmd)
        PROVE  IInv'
    BY <2>1, FindKeeps
  <2>2. CASE Measure(r)
    BY <2>2, MeasureKeeps
  <2>3. CASE Persist(r)
    BY <2>3, PersistKeeps
  <2>4. CASE Conflict(r) \/ Drop(r)
    <3>1. UNCHANGED <<rows, data, today>> /\ work' = [work EXCEPT ![r] = None]
      BY <2>4 DEF Conflict, Drop
    <3>. QED
      BY <1>0, <3>1, QuietStepKeeps
  <2>. QED
    BY <1>3, <2>1, <2>2, <2>3, <2>4 DEF RequestNext
<1>4. CASE ActivitiesChange
  BY <1>0, <1>4, QuietStepKeeps DEF ActivitiesChange
<1>5. CASE Tick
  BY <1>0, <1>5, QuietStepKeeps DEF Tick
<1>. QED
  BY <1>1, <1>2, <1>3, <1>4, <1>5 DEF Next

LEMMA Inductive == Spec => []IInv
  BY InitIInv, StepKeeps, PTL DEF Spec

(* The variables keep their types. *)
THEOREM TypeCorrect == Spec => []TypeOK
<1>1. IInv => TypeOK
  BY DEF IInv
<1>. QED
  BY Inductive, <1>1, PTL

(* A target has a result exactly while closed, measured by its own         *)
(* definition after the end of its period.                                 *)
THEOREM ResultSound == Spec => []ResultFits
<1>1. IInv => ResultFits
  BY DEF IInv
<1>. QED
  BY Inductive, <1>1, PTL

(* The history is complete and every step in it is one the rules allow. *)
THEOREM HistorySound == Spec => []HistoryTells
<1>1. IInv => HistoryTells
  BY DEF IInv
<1>. QED
  BY Inductive, <1>1, PTL

(* How rows change in one step: not at all, by creation, or by one Persist. *)
LEMMA RowsChange ==
  ASSUME IInv, [Next]_vars, NEW id \in Ids, rows[id] # None
  PROVE  /\ rows'[id] # None
         /\ rows'[id].version >= rows[id].version
         /\ \A i \in 1 .. rows[id].version : rows'[id].history[i] = rows[id].history[i]
         /\ rows[id].status = "closed" /\ rows'[id] # rows[id] =>
              rows'[id].status = "active" /\ rows'[id].def = rows[id].def
<1>0. rows[id] \in Row /\ rows[id].version \in Nat
  BY DEF IInv, TypeOK, Row
<1>1. CASE rows'[id] = rows[id]
  BY <1>0, <1>1
<1>2. CASE rows'[id] # rows[id]
  <2>1. ASSUME NEW other \in Ids, NEW d \in Definitions, NEW action \in Action,
               Create(other, d, action)
        PROVE  FALSE
    BY <1>2, <2>1 DEF Create, IInv, TypeOK
  <2>2. PICK r \in Requests : Persist(r)
    BY <1>2, <2>1 DEF Next, RequestNext, Find, Measure, Conflict, Drop, ActivitiesChange, Tick, vars
  <2>3. work[r].id = id
    BY <1>2, <2>2, PersistWrites DEF IInv, TypeOK
  <2>. QED
    BY <1>0, <2>2, <2>3, PersistWrites
<1>. QED
  BY <1>1, <1>2

(* No revision is lost or changed. *)
THEOREM HistoryKept == Spec => HistoryGrows
<1>1. IInv /\ [Next]_vars =>
        [\A id \in Ids : rows[id] # None =>
           /\ rows'[id] # None
           /\ rows'[id].version >= rows[id].version
           /\ \A i \in 1 .. rows[id].version : rows'[id].history[i] = rows[id].history[i]]_vars
  BY RowsChange
<1>. QED
  BY Inductive, <1>1, PTL DEF Spec, HistoryGrows

(* A closed target changes by being reopened only. *)
THEOREM ClosedLocked == Spec => ClosedIsLocked
<1>1. IInv /\ [Next]_vars =>
        [\A id \in Ids :
           rows[id] # None /\ rows[id].status = "closed" /\ rows'[id] # rows[id] =>
             rows'[id].status = "active" /\ rows'[id].def = rows[id].def]_vars
  BY RowsChange
<1>. QED
  BY Inductive, <1>1, PTL DEF Spec, ClosedIsLocked

-----------------------------------------------------------------------------
(* Accounts.                                                               *)

(* Types. *)

Places == {"save", "member", "insert", "mail", "activate", "undo", "find", "bump",
           "new", "password", "grant", "store", "count", "disable", "delete"}

(* Which request comes to which place, and what it brings along. *)
Formed(q) ==
  /\ q.at \in {"save", "member", "activate"} => q.op = "invite"
  /\ q.at \in {"find", "bump"} => q.op = "resend"
  /\ q.at \in {"mail", "undo"} => q.op \in {"invite", "resend"}
  /\ q.at = "insert" => q.op \in {"invite", "local"}
  /\ q.at = "new" => q.op \in {"create", "local"} /\ q.new
  /\ q.at = "password" => q.op = "local"
  /\ q.at \in {"grant", "store"} => q.op \in {"invite", "change", "create", "local"}
  /\ q.at = "count" => q.op \in {"change", "remove", "delete"}
  /\ q.at = "disable" => q.op = "remove"
  /\ q.at = "delete" => q.op = "delete"
  /\ q.at \in {"save", "member", "insert", "mail", "activate", "undo", "bump", "new", "password"}
       => q.entity # None
  /\ q.op \in {"invite", "change", "create", "local"} => q.role # None
  /\ q.op = "resend" => ~ q.new
  /\ q.at = "activate" => q.seen # None

AllFormed == \A s \in Slots : requests[s] # None => Formed(requests[s])

ATyped == AccountsTypeOK /\ AllFormed

NewRequest(op, i, role, at, copy, new) ==
  [op |-> op, id |-> i, role |-> role, at |-> at, seen |-> None, entity |-> copy, new |-> new]

LEMMA NewRequestIs ==
  ASSUME NEW op \in Operations, NEW i \in Users, NEW role \in Role \union {None}, NEW at \in Places,
         NEW copy \in Account \union {None}, NEW new \in BOOLEAN,
         NEW q, q = NewRequest(op, i, role, at, copy, new)
  PROVE  /\ q \in Request /\ q.op = op /\ q.id = i /\ q.role = role /\ q.at = at
         /\ q.seen = None /\ q.entity = copy /\ q.new = new
  BY DEF NewRequest, Request, Places

LEMMA BeginIs ==
  ASSUME NEW s \in Slots, NEW op, NEW i, NEW role, NEW at, NEW copy, NEW new,
         Begin(s, op, i, role, at, copy, new)
  PROVE  /\ requests[s] = None /\ op \in Operations
         /\ requests' = [requests EXCEPT ![s] = NewRequest(op, i, role, at, copy, new)]
  BY DEF Begin, NewRequest

(* What the request of a step is made of. *)
LEMMA SlotParts ==
  ASSUME ATyped, NEW s \in Slots, NEW q, q = requests[s], q # None
  PROVE  /\ q \in Request /\ Formed(q)
         /\ q.op \in Operations /\ q.id \in Users /\ q.role \in Role \union {None}
         /\ q.at \in Places /\ q.seen \in Membership \union {None}
         /\ q.entity \in Account \union {None} /\ q.new \in BOOLEAN
<1>1. q \in Request /\ Formed(q)
  BY DEF ATyped, AccountsTypeOK, AllFormed
<1>. QED
  BY <1>1 DEF Request, Places

LEMMA MovedOn ==
  ASSUME NEW q \in Request, NEW at \in Places, NEW p, p = [q EXCEPT !.at = at]
  PROVE  /\ p \in Request /\ p.at = at /\ p.op = q.op /\ p.id = q.id /\ p.role = q.role
         /\ p.seen = q.seen /\ p.entity = q.entity /\ p.new = q.new
  BY DEF Request, Places

LEMMA RowParts ==
  ASSUME ATyped, NEW i \in Users
  PROVE  /\ Stored(i) => account[i] \in Account
         /\ member[i] # None => member[i] \in Membership
         /\ Account = [email : Emails, role : Role, password : BOOLEAN, version : Nat]
         /\ Membership = [role : Role, active : BOOLEAN]
  BY DEF ATyped, AccountsTypeOK, Stored, Account, Membership

(* A request takes a step or ends, and whatever it wrote has its type. *)
LEMMA StepTyped ==
  ASSUME ATyped, NEW s \in Slots, NEW q \in Request \union {None}, q # None => Formed(q),
         requests' = [requests EXCEPT ![s] = q],
         account' \in [Users -> Account \union {Fresh, Gone}],
         member' \in [Users -> Membership \union {None}],
         links' \in [Users -> SUBSET Nat], revoked' \in [Users -> SUBSET Nat],
         newest' \in [Users -> Nat \union {None}],
         visits' = visits
  PROVE  ATyped'
<1>1. AccountsTypeOK'
  BY DEF ATyped, AccountsTypeOK
<1>2. \A t \in Slots : requests'[t] = IF t = s THEN q ELSE requests[t]
  BY DEF ATyped, AccountsTypeOK
<1>3. AllFormed'
  BY <1>2 DEF ATyped, AllFormed
<1>. QED
  BY <1>1, <1>3 DEF ATyped

LEMMA QuietTyped ==
  ASSUME ATyped, NEW s \in Slots, NEW q \in Request \union {None}, q # None => Formed(q),
         requests' = [requests EXCEPT ![s] = q], waiting
  PROVE  ATyped'
  BY StepTyped DEF waiting, unsent, ATyped, AccountsTypeOK

LEMMA BeginTyped ==
  ASSUME ATyped, NEW s \in Slots, NEW op, NEW i \in Users, NEW role \in Role \union {None},
         NEW at \in Places, NEW copy \in Account \union {None}, NEW new \in BOOLEAN,
         Begin(s, op, i, role, at, copy, new), waiting,
         NewRequest(op, i, role, at, copy, new) \in Request => Formed(NewRequest(op, i, role, at, copy, new))
  PROVE  ATyped'
<1> PICK q : q = NewRequest(op, i, role, at, copy, new)
  OBVIOUS
<1>1. op \in Operations /\ requests' = [requests EXCEPT ![s] = q]
  BY BeginIs
<1>2. q \in Request
  BY <1>1 DEF NewRequest, Request, Places
<1>3. Formed(q)
  BY <1>2
<1>. QED
  BY <1>1, <1>2, <1>3, QuietTyped

LEMMA RowTyped ==
  ASSUME ATyped, NEW i \in Users, NEW x \in Account \union {Fresh, Gone}
  PROVE  [account EXCEPT ![i] = x] \in [Users -> Account \union {Fresh, Gone}]
  BY DEF ATyped, AccountsTypeOK

LEMMA MemberTyped ==
  ASSUME ATyped, NEW i \in Users, NEW m \in Membership \union {None}
  PROVE  [member EXCEPT ![i] = m] \in [Users -> Membership \union {None}]
  BY DEF ATyped, AccountsTypeOK

LEMMA AccountWith ==
  ASSUME NEW x \in Account
  PROVE  /\ \A n \in Nat : [x EXCEPT !.version = n] \in Account
         /\ \A b \in BOOLEAN : [x EXCEPT !.password = b] \in Account
         /\ x.version \in Nat /\ x.version + 1 \in Nat /\ x.email \in Emails
         /\ x.password \in BOOLEAN /\ x.role \in Role
  BY DEF Account

LEMMA NewAccountTyped ==
  ASSUME NEW e \in Emails, NEW role \in Role
  PROVE  NewAccount(e, role) \in Account
  BY DEF NewAccount, Account

LEMMA InitTyped == AccountsInit => ATyped
<1> SUFFICES ASSUME AccountsInit PROVE ATyped
  OBVIOUS
<1> DEFINE There == {FirstAdmin} \union Invited
<1>1. PICK e \in Injection(There, Emails) :
         account = [i \in Users |->
           IF i \notin There THEN Fresh
           ELSE [email |-> e[i], role |-> IF i = FirstAdmin THEN "org_admin" ELSE "user",
                 password |-> i = FirstAdmin, version |-> 0]]
  BY DEF AccountsInit
<1>2. e \in [There -> Emails]
  BY <1>1 DEF Injection
<1>3. account \in [Users -> Account \union {Fresh, Gone}]
  <2>1. \A i \in There : [email |-> e[i], role |-> IF i = FirstAdmin THEN "org_admin" ELSE "user",
                          password |-> i = FirstAdmin, version |-> 0] \in Account
    <3> TAKE i \in There
    <3>1. e[i] \in Emails
      BY <1>2
    <3>2. (IF i = FirstAdmin THEN "org_admin" ELSE "user") \in Role
      BY DEF Role
    <3>3. (i = FirstAdmin) \in BOOLEAN
      OBVIOUS
    <3>. QED
      BY <3>1, <3>2, <3>3 DEF Account
  <2>. QED
    BY <1>1, <2>1
<1>4. member \in [Users -> Membership \union {None}]
  BY DEF AccountsInit, Membership, Role
<1>5. /\ requests \in [Slots -> Request \union {None}] /\ visits \in [Visitors -> Visit \union {None}]
      /\ \A s \in Slots : requests[s] = None
  BY DEF AccountsInit
<1>6. /\ links \in [Users -> SUBSET Nat] /\ revoked \in [Users -> SUBSET Nat]
      /\ newest \in [Users -> Nat \union {None}]
  BY DEF AccountsInit
<1>. QED
  BY <1>3, <1>4, <1>5, <1>6 DEF ATyped, AccountsTypeOK, AllFormed

-----------------------------------------------------------------------------
(* Every step keeps the types. *)

LEMMA InviteBeginTyped ==
  ASSUME ATyped, NEW s \in Slots, NEW e \in Emails, NEW role \in Role, BeginInvite(s, e, role)
  PROVE  ATyped'
<1>1. waiting
  BY DEF BeginInvite
<1>2. ASSUME NEW i \in Users, Begin(s, "invite", i, role, "grant", None, FALSE)
      PROVE  ATyped'
  <2>1. NewRequest("invite", i, role, "grant", None, FALSE) \in Request
          => Formed(NewRequest("invite", i, role, "grant", None, FALSE))
    BY AccountMarks DEF NewRequest, Formed
  <2>2. "grant" \in Places
    BY DEF Places
  <2>. QED
    BY <1>1, <1>2, <2>1, <2>2, BeginTyped
<1>3. ASSUME NEW i \in Users, NEW x \in Account, NEW new \in BOOLEAN,
             Begin(s, "invite", i, role, "save", x, new)
      PROVE  ATyped'
  <2>1. NewRequest("invite", i, role, "save", x, new) \in Request
          => Formed(NewRequest("invite", i, role, "save", x, new))
    BY AccountMarks DEF NewRequest, Formed
  <2>2. "save" \in Places
    BY DEF Places
  <2>. QED
    BY <1>1, <1>3, <2>1, <2>2, BeginTyped
<1>4. NewAccount(e, role) \in Account
  BY NewAccountTyped
<1>5. \A i \in Users : Pending(i) => account[i] \in Account
  BY RowParts DEF Pending
<1>6. CASE \E i \in Holders(e) :
             account[i].password /\ Begin(s, "invite", i, role, "grant", None, FALSE)
  BY <1>2, <1>6 DEF Holders
<1>7. CASE \E i \in Holders(e) :
             /\ Pending(i) /\ account[i].role = role /\ Room(i)
             /\ Begin(s, "invite", i, role, "save", account[i], FALSE)
  BY <1>3, <1>5, <1>7 DEF Holders
<1>8. CASE \E i \in Users :
             Unused(i) /\ Begin(s, "invite", i, role, "save", NewAccount(e, role), TRUE)
  BY <1>3, <1>4, <1>8
<1>. QED
  BY <1>6, <1>7, <1>8 DEF BeginInvite

LEMMA CreateBeginTyped ==
  ASSUME ATyped, NEW s \in Slots, NEW e \in Emails, NEW role \in Role,
         BeginCreate(s, e, role) \/ BeginLocal(s, e, role)
  PROVE  ATyped'
<1>1. waiting
  BY DEF BeginCreate, BeginLocal
<1>2. ASSUME NEW i \in Users, NEW op \in {"create", "local"},
             Begin(s, op, i, role, "grant", None, FALSE)
      PROVE  ATyped'
  <2>1. NewRequest(op, i, role, "grant", None, FALSE) \in Request
          => Formed(NewRequest(op, i, role, "grant", None, FALSE))
    BY AccountMarks DEF NewRequest, Formed
  <2>2. "grant" \in Places
    BY DEF Places
  <2>. QED
    BY <1>1, <1>2, <2>1, <2>2, BeginTyped
<1>3. ASSUME NEW i \in Users, NEW op \in {"create", "local"},
             Begin(s, op, i, role, "new", NewAccount(e, role), TRUE)
      PROVE  ATyped'
  <2>1. NewAccount(e, role) \in Account
    BY NewAccountTyped
  <2>2. NewRequest(op, i, role, "new", NewAccount(e, role), TRUE) \in Request
          => Formed(NewRequest(op, i, role, "new", NewAccount(e, role), TRUE))
    BY AccountMarks, <2>1 DEF NewRequest, Formed
  <2>3. "new" \in Places
    BY DEF Places
  <2>. QED
    BY <1>1, <1>3, <2>1, <2>2, <2>3, BeginTyped
<1>. QED
  BY <1>2, <1>3 DEF BeginCreate, BeginLocal, Holders

LEMMA PlainBeginTyped ==
  ASSUME ATyped, NEW s \in Slots, NEW i \in Users,
         \/ \E scoped \in BOOLEAN : BeginResend(s, i, scoped)
         \/ BeginRemove(s, i) \/ BeginDelete(s, i)
  PROVE  ATyped'
<1>1. waiting
  BY DEF BeginResend, BeginRemove, BeginDelete
<1>2. PICK op \in {"resend", "remove", "delete"}, at \in {"find", "count", "disable", "delete"} :
        /\ Begin(s, op, i, None, at, None, FALSE)
        /\ at = "find" => op = "resend"
        /\ at = "disable" => op = "remove"
        /\ at = "delete" => op = "delete"
        /\ at = "count" => op # "resend"
  BY DEF BeginResend, BeginRemove, BeginDelete
<1>3. NewRequest(op, i, None, at, None, FALSE) \in Request
        => Formed(NewRequest(op, i, None, at, None, FALSE))
  BY AccountMarks, <1>2 DEF NewRequest, Formed
<1>4. at \in Places
  BY DEF Places
<1>. QED
  BY <1>1, <1>2, <1>3, <1>4, BeginTyped

LEMMA ChangeBeginTyped ==
  ASSUME ATyped, NEW s \in Slots, NEW i \in Users, NEW role \in Role \union {None},
         BeginChange(s, i, role)
  PROVE  ATyped'
<1>1. waiting
  BY DEF BeginChange
<1> DEFINE Given == IF role # None THEN role
                    ELSE IF member[i] # None THEN member[i].role ELSE account[i].role
           Place == IF ActiveAdmin(member[i]) /\ role \notin {None, "org_admin"}
                    THEN "count" ELSE "grant"
<1>2. Begin(s, "change", i, Given, Place, None, FALSE)
  BY DEF BeginChange
<1>3. Given \in Role
  <2>1. member[i] # None => member[i].role \in Role
    BY RowParts DEF Membership
  <2>2. Stored(i) => account[i].role \in Role
    BY RowParts DEF Account
  <2>3. Stored(i)
    BY DEF BeginChange
  <2>. QED
    BY <2>1, <2>2, <2>3
<1>4. Place \in {"count", "grant"}
  OBVIOUS
<1> HIDE DEF Given, Place
<1>5. NewRequest("change", i, Given, Place, None, FALSE) \in Request
        => Formed(NewRequest("change", i, Given, Place, None, FALSE))
  BY AccountMarks, <1>3, <1>4 DEF NewRequest, Formed
<1>6. Place \in Places
  BY <1>4 DEF Places
<1>. QED
  BY <1>1, <1>2, <1>3, <1>5, <1>6, BeginTyped

(* A request that moves on to another place, and one that ends. *)
LEMMA GoIs ==
  ASSUME ATyped, NEW s \in Slots, NEW q, q = requests[s], NEW at, Go(s, at)
  PROVE  requests' = [requests EXCEPT ![s] = [q EXCEPT !.at = at]]
  BY DEF Go, ATyped, AccountsTypeOK

LEMMA GoTyped ==
  ASSUME ATyped, NEW s \in Slots, NEW q, q = requests[s], q # None, NEW at \in Places, Go(s, at),
         Formed([q EXCEPT !.at = at]),
         account' \in [Users -> Account \union {Fresh, Gone}],
         member' \in [Users -> Membership \union {None}],
         links' \in [Users -> SUBSET Nat], newest' \in [Users -> Nat \union {None}],
         UNCHANGED <<revoked, visits>>
  PROVE  ATyped'
<1> PICK p : p = [q EXCEPT !.at = at]
  OBVIOUS
<1>1. requests' = [requests EXCEPT ![s] = p]
  BY GoIs
<1>2. q \in Request
  BY SlotParts
<1>3. p \in Request /\ Formed(p)
  BY <1>2, MovedOn
<1>4. revoked' \in [Users -> SUBSET Nat] /\ visits' = visits
  BY DEF ATyped, AccountsTypeOK
<1>. QED
  BY <1>1, <1>3, <1>4, StepTyped

LEMMA EndTyped ==
  ASSUME ATyped, NEW s \in Slots, End(s),
         account' \in [Users -> Account \union {Fresh, Gone}],
         member' \in [Users -> Membership \union {None}],
         UNCHANGED <<links, visits>>,
         newest' \in [Users -> Nat \union {None}], revoked' \in [Users -> SUBSET Nat]
  PROVE  ATyped'
<1>1. requests' = [requests EXCEPT ![s] = None]
  BY DEF End
<1>2. links' \in [Users -> SUBSET Nat] /\ visits' = visits
  BY DEF ATyped, AccountsTypeOK
<1>. QED
  BY <1>1, <1>2, StepTyped

LEMMA StayTyped ==
  ASSUME ATyped
  PROVE  /\ UNCHANGED account => account' \in [Users -> Account \union {Fresh, Gone}]
         /\ UNCHANGED member => member' \in [Users -> Membership \union {None}]
         /\ unsent => /\ links' \in [Users -> SUBSET Nat] /\ newest' \in [Users -> Nat \union {None}]
                      /\ revoked' \in [Users -> SUBSET Nat] /\ UNCHANGED <<links, revoked, visits>>
  BY DEF ATyped, AccountsTypeOK, unsent

(* Which places follow which. *)
LEMMA Onward ==
  ASSUME NEW q \in Request, Formed(q), NEW at \in Places,
         \/ q.at = "save" /\ at = "member"
         \/ q.at = "insert" /\ at = (IF q.op = "invite" THEN "mail" ELSE "password")
         \/ q.at = "mail" /\ at = "activate" /\ q.op = "invite" /\ q.seen # None
         \/ q.at \in {"mail", "activate"} /\ at = "undo"
         \/ q.at = "bump" /\ at = "mail"
         \/ q.at = "new" /\ at = (IF q.op = "create" THEN "grant" ELSE "insert")
         \/ q.at = "count" /\ at = (CASE q.op = "change" -> "grant" [] q.op = "remove" -> "disable"
                                      [] OTHER -> "delete")
  PROVE  Formed([q EXCEPT !.at = at])
<1> PICK p : p = [q EXCEPT !.at = at]
  OBVIOUS
<1>1. /\ p.at = at /\ p.op = q.op /\ p.role = q.role
      /\ p.seen = q.seen /\ p.entity = q.entity /\ p.new = q.new
  BY MovedOn
<1>2. Formed(p)
  BY <1>1 DEF Formed
<1>. QED
  BY <1>2

LEMMA SaveTyped ==
  ASSUME ATyped, NEW s \in Slots, SaveInvited(s) \/ InsertAccount(s) \/ SetPassword(s)
  PROVE  ATyped'
<1> PICK q : q = requests[s]
  OBVIOUS
<1>1. q # None /\ q.at \in {"save", "new", "password"}
  BY DEF SaveInvited, InsertAccount, SetPassword, At
<1>2. /\ q \in Request /\ Formed(q) /\ q.id \in Users /\ q.entity \in Account
  BY <1>1, SlotParts DEF Formed
<1>3. /\ [q.entity EXCEPT !.version = @ + 1] \in Account
      /\ [q.entity EXCEPT !.password = TRUE] \in Account
  BY <1>2, AccountWith
<1>4. \A x \in Account : [account EXCEPT ![q.id] = x] \in [Users -> Account \union {Fresh, Gone}]
  BY <1>2, RowTyped
<1>5. unsent /\ UNCHANGED member
  BY DEF SaveInvited, InsertAccount, SetPassword
<1>6. account' \in [Users -> Account \union {Fresh, Gone}]
  <2>1. [account EXCEPT ![q.id] = account[q.id]] \in [Users -> Account \union {Fresh, Gone}]
    BY DEF ATyped, AccountsTypeOK
  <2>2. \/ account' = account \/ account' = [account EXCEPT ![q.id] = q.entity]
        \/ account' = [account EXCEPT ![q.id] = [q.entity EXCEPT !.version = @ + 1]]
        \/ account' = [account EXCEPT ![q.id] = [q.entity EXCEPT !.password = TRUE]]
        \/ account' = [account EXCEPT ![q.id] = account[q.id]]
    BY DEF SaveInvited, InsertAccount, SetPassword
  <2>. QED
    BY <1>2, <1>3, <1>4, <2>1, <2>2, StayTyped
<1>7. CASE End(s)
  BY <1>5, <1>6, <1>7, EndTyped, StayTyped
<1>8. CASE ~ End(s)
  <2>1. PICK at \in {"member", "grant", "insert"} :
          /\ Go(s, at)
          /\ \/ q.at = "save" /\ at = "member"
             \/ q.at = "new" /\ at = (IF q.op = "create" THEN "grant" ELSE "insert")
    BY <1>8 DEF SaveInvited, InsertAccount, SetPassword, At
  <2>2. at \in Places
    BY DEF Places
  <2>3. Formed([q EXCEPT !.at = at])
    BY <1>2, <2>1, <2>2, Onward
  <2>. QED
    BY <1>1, <1>5, <1>6, <2>1, <2>2, <2>3, GoTyped, StayTyped
<1>. QED
  BY <1>7, <1>8

LEMMA FindMemberTyped ==
  ASSUME ATyped, NEW s \in Slots, FindMember(s)
  PROVE  ATyped'
<1> PICK q : q = requests[s]
  OBVIOUS
<1> DEFINE m == member[q.id]
<1> PICK p : p = [q EXCEPT !.at = IF m = None THEN "insert" ELSE "mail",
                           !.seen = IF Active(m) THEN None ELSE m]
  OBVIOUS
<1>1. q # None /\ q.at = "member" /\ waiting /\ requests' = [requests EXCEPT ![s] = p]
  BY DEF FindMember, At
<1>2. q \in Request /\ Formed(q) /\ q.id \in Users /\ q.op = "invite"
  BY <1>1, SlotParts DEF Formed
<1>3. m \in Membership \union {None}
  BY <1>2 DEF ATyped, AccountsTypeOK
<1>4. p \in Request
  <2>1. PICK to, row : /\ to = IF m = None THEN "insert" ELSE "mail"
                       /\ row = IF Active(m) THEN None ELSE m
    OBVIOUS
  <2>2. to \in {"insert", "mail"} /\ row \in Membership \union {None}
    BY <1>3, <2>1
  <2>3. p = [q EXCEPT !.at = to, !.seen = row]
    BY <2>1
  <2> HIDE DEF m
  <2>. QED
    BY <1>2, <2>2, <2>3 DEF Request
<1>5. p.at \in {"insert", "mail"} /\ p.op = q.op /\ p.role = q.role /\ p.entity = q.entity
      /\ p.new = q.new
  BY <1>2 DEF Request
<1>6. Formed(p)
  BY <1>1, <1>2, <1>5 DEF Formed
<1>. QED
  BY <1>1, <1>4, <1>6, QuietTyped

LEMMA MemberStepTyped ==
  ASSUME ATyped, NEW s \in Slots,
         InsertMember(s) \/ Reactivate(s) \/ StoreMember(s)
  PROVE  ATyped'
<1> PICK q : q = requests[s]
  OBVIOUS
<1>1. q # None /\ q.at \in {"insert", "activate", "store"}
  BY DEF InsertMember, Reactivate, StoreMember, At
<1>2. /\ q \in Request /\ Formed(q) /\ q.id \in Users
      /\ q.at \in {"insert", "store"} => q.role \in Role
      /\ q.at = "activate" => q.seen \in Membership
  BY <1>1, SlotParts DEF Formed
<1>3. unsent /\ UNCHANGED account
  BY DEF InsertMember, Reactivate, StoreMember
<1>4. member' \in [Users -> Membership \union {None}]
  <2>1. q.at \in {"insert", "store"} => [role |-> q.role, active |-> TRUE] \in Membership
    BY <1>2 DEF Membership
  <2>2. q.at = "activate" => [q.seen EXCEPT !.active = TRUE] \in Membership
    BY <1>2 DEF Membership
  <2>3. \/ UNCHANGED member
        \/ /\ q.at \in {"insert", "store"}
           /\ member' = [member EXCEPT ![q.id] = [role |-> q.role, active |-> TRUE]]
        \/ q.at = "activate" /\ member' = [member EXCEPT ![q.id] = [q.seen EXCEPT !.active = TRUE]]
    BY DEF InsertMember, Reactivate, StoreMember, At
  <2>. QED
    BY <1>2, <2>1, <2>2, <2>3, MemberTyped, StayTyped
<1>5. CASE End(s)
  BY <1>3, <1>4, <1>5, EndTyped, StayTyped
<1>6. CASE ~ End(s)
  <2>1. PICK at \in {"mail", "password", "undo"} :
          /\ Go(s, at)
          /\ \/ q.at = "insert" /\ at = (IF q.op = "invite" THEN "mail" ELSE "password")
             \/ q.at = "activate" /\ at = "undo"
    BY <1>6 DEF InsertMember, Reactivate, StoreMember, At
  <2>2. at \in Places
    BY DEF Places
  <2>3. Formed([q EXCEPT !.at = at])
    BY <1>2, <2>1, <2>2, Onward
  <2>. QED
    BY <1>1, <1>3, <1>4, <2>1, <2>2, <2>3, GoTyped, StayTyped
<1>. QED
  BY <1>5, <1>6

LEMMA SendTyped ==
  ASSUME ATyped, NEW s \in Slots, SendInvite(s)
  PROVE  ATyped'
<1> PICK q : q = requests[s]
  OBVIOUS
<1>1. q # None /\ q.at = "mail" /\ UNCHANGED <<account, member, revoked, visits>>
  BY DEF SendInvite, At
<1>2. q \in Request /\ Formed(q) /\ q.id \in Users /\ q.entity \in Account
  BY <1>1, SlotParts DEF Formed
<1>3. links' \in [Users -> SUBSET Nat] /\ newest' \in [Users -> Nat \union {None}]
  <2>1. q.entity.version + 1 \in Nat
    BY <1>2, AccountWith
  <2>2. \/ UNCHANGED <<links, newest>>
        \/ /\ links' = [links EXCEPT ![q.id] = @ \union {q.entity.version + 1}]
           /\ newest' = [newest EXCEPT ![q.id] = q.entity.version + 1]
    BY DEF SendInvite
  <2>. QED
    BY <1>2, <2>1, <2>2 DEF ATyped, AccountsTypeOK
<1>4. account' \in [Users -> Account \union {Fresh, Gone}]
      /\ member' \in [Users -> Membership \union {None}] /\ revoked' \in [Users -> SUBSET Nat]
  BY <1>1 DEF ATyped, AccountsTypeOK
<1>5. CASE End(s)
  <2>1. requests' = [requests EXCEPT ![s] = None]
    BY <1>5 DEF End
  <2>2. visits' = visits
    BY <1>1
  <2>. QED
    BY <1>3, <1>4, <2>1, <2>2, StepTyped
<1>6. CASE ~ End(s)
  <2>1. PICK at \in {"activate", "undo"} :
          /\ Go(s, at)
          /\ at = "activate" => q.op = "invite" /\ q.seen # None
    BY <1>6 DEF SendInvite
  <2>2. at \in Places
    BY DEF Places
  <2>3. Formed([q EXCEPT !.at = at])
    BY <1>1, <1>2, <2>1, <2>2, Onward
  <2>. QED
    BY <1>1, <1>3, <1>4, <2>1, <2>2, <2>3, GoTyped
<1>. QED
  BY <1>5, <1>6

LEMMA UndoTyped ==
  ASSUME ATyped, NEW s \in Slots, UndoInvite(s) \/ UndoResend(s) \/ DeleteAccount(s)
  PROVE  ATyped'
<1> PICK q : q = requests[s]
  OBVIOUS
<1>1. q # None /\ q.at \in {"undo", "delete"} /\ End(s) /\ unsent
  BY DEF UndoInvite, UndoResend, DeleteAccount, At
<1>2. /\ q \in Request /\ Formed(q) /\ q.id \in Users
      /\ q.at = "undo" => q.entity \in Account
  BY <1>1, SlotParts DEF Formed
<1>3. member' \in [Users -> Membership \union {None}]
  <2>1. member' = member \/ member' = [member EXCEPT ![q.id] = None]
    BY DEF UndoInvite, UndoResend, DeleteAccount
  <2>. QED
    BY <1>2, <2>1, MemberTyped, StayTyped
<1>4. account' \in [Users -> Account \union {Fresh, Gone}]
  <2>1. account[q.id] \in Account \union {Fresh, Gone}
    BY <1>2 DEF ATyped, AccountsTypeOK
  <2>2. Stored(q.id) /\ q.at = "undo" =>
          [account[q.id] EXCEPT !.version = q.entity.version] \in Account
    <3>1. Stored(q.id) => account[q.id] \in Account
      BY <1>2, RowParts
    <3>2. q.at = "undo" => q.entity.version \in Nat
      BY <1>2, AccountWith
    <3>. QED
      BY <3>1, <3>2, AccountWith
  <2>3. \/ UNCHANGED account \/ account' = [account EXCEPT ![q.id] = Gone]
        \/ account' = [account EXCEPT ![q.id] = account[q.id]]
        \/ q.at = "undo" /\ account' = [account EXCEPT ![q.id] = q.entity]
        \/ /\ q.at = "undo" /\ Stored(q.id)
           /\ account' = [account EXCEPT ![q.id] = [account[q.id] EXCEPT !.version = q.entity.version]]
    <3>1. CASE UndoInvite(s)
      BY <3>1 DEF UndoInvite, At
    <3>2. CASE UndoResend(s)
      BY <3>2 DEF UndoResend, At
    <3>3. CASE DeleteAccount(s)
      BY <3>3 DEF DeleteAccount
    <3>. QED
      BY <3>1, <3>2, <3>3
  <2>. QED
    BY <1>2, <2>1, <2>2, <2>3, RowTyped, StayTyped
<1>. QED
  BY <1>1, <1>3, <1>4, EndTyped, StayTyped

LEMMA ReadTyped ==
  ASSUME ATyped, NEW s \in Slots, FindPending(s) \/ ReadMember(s) \/ CountAdmins(s)
  PROVE  ATyped'
<1> PICK q : q = requests[s]
  OBVIOUS
<1>1. q # None /\ q.at \in {"find", "grant", "count"} /\ waiting
  BY DEF FindPending, ReadMember, CountAdmins, At
<1>2. q \in Request /\ Formed(q) /\ q.id \in Users
  BY <1>1, SlotParts
<1>3. CASE End(s)
  BY <1>1, <1>3, QuietTyped DEF End
<1>4. CASE FindPending(s) /\ ~ End(s)
  <2> PICK p : p = [q EXCEPT !.at = "bump", !.entity = account[q.id]]
    OBVIOUS
  <2>1. requests' = [requests EXCEPT ![s] = p] /\ Pending(q.id) /\ q.at = "find"
    BY <1>4 DEF FindPending, At
  <2>2. account[q.id] \in Account
    BY <1>2, <2>1, RowParts DEF Pending
  <2>3. p \in Request /\ p.at = "bump" /\ p.op = q.op /\ p.entity # None /\ p.new = q.new
        /\ p.role = q.role
    BY <1>2, <2>2, AccountMarks DEF Request
  <2>4. Formed(p)
    BY <1>2, <2>1, <2>3 DEF Formed
  <2>. QED
    BY <1>1, <2>1, <2>3, <2>4, QuietTyped
<1>5. CASE ReadMember(s) /\ ~ End(s)
  <2> PICK p : p = [q EXCEPT !.at = "store", !.seen = member[q.id]]
    OBVIOUS
  <2>1. requests' = [requests EXCEPT ![s] = p] /\ q.at = "grant"
    BY <1>5 DEF ReadMember, At
  <2>2. member[q.id] \in Membership \union {None}
    BY <1>2 DEF ATyped, AccountsTypeOK
  <2>3. p \in Request /\ p.at = "store" /\ p.op = q.op /\ p.new = q.new /\ p.role = q.role
    BY <1>2, <2>2 DEF Request
  <2>4. Formed(p)
    BY <1>2, <2>1, <2>3 DEF Formed
  <2>. QED
    BY <1>1, <2>1, <2>3, <2>4, QuietTyped
<1>6. CASE CountAdmins(s) /\ ~ End(s)
  <2>1. PICK at \in {"grant", "disable", "delete"} :
          Go(s, at) /\ at = (CASE q.op = "change" -> "grant" [] q.op = "remove" -> "disable"
                               [] OTHER -> "delete")
    BY <1>6 DEF CountAdmins
  <2>2. at \in Places /\ q.at = "count"
    BY <1>6 DEF Places, CountAdmins, At
  <2>3. Formed([q EXCEPT !.at = at])
    BY <1>2, <2>1, <2>2, Onward
  <2>4. UNCHANGED account /\ UNCHANGED member /\ unsent
    BY <1>1 DEF waiting
  <2>. QED
    BY <1>1, <2>1, <2>2, <2>3, <2>4, GoTyped, StayTyped
<1>. QED
  BY <1>3, <1>4, <1>5, <1>6

LEMMA BumpTyped ==
  ASSUME ATyped, NEW s \in Slots, BumpVersion(s)
  PROVE  ATyped'
<1> PICK q : q = requests[s]
  OBVIOUS
<1>1. q # None /\ q.at = "bump" /\ Go(s, "mail") /\ unsent /\ UNCHANGED member
  BY DEF BumpVersion, At
<1>2. q \in Request /\ Formed(q) /\ q.id \in Users /\ q.entity \in Account
  BY <1>1, SlotParts DEF Formed
<1>3. account' \in [Users -> Account \union {Fresh, Gone}]
  <2>1. Stored(q.id) => [account[q.id] EXCEPT !.version = q.entity.version + 1] \in Account
    BY <1>2, RowParts, AccountWith
  <2>2. \/ UNCHANGED account
        \/ /\ Stored(q.id)
           /\ account' = [account EXCEPT ![q.id] = [account[q.id] EXCEPT !.version = q.entity.version + 1]]
    BY DEF BumpVersion
  <2>. QED
    BY <1>2, <2>1, <2>2, RowTyped, StayTyped
<1>4. "mail" \in Places
  BY DEF Places
<1>5. Formed([q EXCEPT !.at = "mail"])
  BY <1>1, <1>2, <1>4, Onward
<1>. QED
  BY <1>1, <1>3, <1>4, <1>5, GoTyped, StayTyped

LEMMA DisableTyped ==
  ASSUME ATyped, NEW s \in Slots, DisableMembership(s)
  PROVE  ATyped'
<1> PICK q : q = requests[s]
  OBVIOUS
<1>1. q # None /\ End(s) /\ UNCHANGED <<links, visits>>
  BY DEF DisableMembership, At
<1>2. q.id \in Users
  BY <1>1, SlotParts
<1>3. \/ UNCHANGED <<account, member, newest, revoked>>
      \/ /\ member[q.id] # None
         /\ member' = [member EXCEPT ![q.id] = [member[q.id] EXCEPT !.active = FALSE]]
         /\ \/ UNCHANGED account
            \/ /\ Pending(q.id)
               /\ account' = [account EXCEPT ![q.id] =
                                [account[q.id] EXCEPT !.version = account[q.id].version + 1]]
         /\ newest' = [newest EXCEPT ![q.id] = None]
         /\ revoked' = [revoked EXCEPT ![q.id] = revoked[q.id] \union links[q.id]]
  BY DEF DisableMembership
<1>4. member' \in [Users -> Membership \union {None}]
  <2>1. member[q.id] # None => [member[q.id] EXCEPT !.active = FALSE] \in Membership
    <3>1. member[q.id] # None => member[q.id] \in Membership
      BY <1>2, RowParts
    <3>. QED
      BY <3>1 DEF Membership
  <2>. QED
    BY <1>2, <1>3, <2>1, MemberTyped, StayTyped
<1>5. account' \in [Users -> Account \union {Fresh, Gone}]
  <2>1. Pending(q.id) => account[q.id] \in Account
    BY <1>2, RowParts DEF Pending
  <2>2. Pending(q.id) => [account[q.id] EXCEPT !.version = account[q.id].version + 1] \in Account
    BY <2>1, AccountWith
  <2>. QED
    BY <1>2, <1>3, <2>2, RowTyped, StayTyped
<1>6. newest' \in [Users -> Nat \union {None}] /\ revoked' \in [Users -> SUBSET Nat]
  BY <1>2, <1>3 DEF ATyped, AccountsTypeOK
<1>. QED
  BY <1>1, <1>4, <1>5, <1>6, EndTyped

LEMMA VisitTyped ==
  ASSUME ATyped, NEW v \in Visitors,
         \/ \E i \in Users, n \in 0..MaxVersion : OpenLink(v, i, n)
         \/ HasAccess(v) \/ Accept(v)
  PROVE  ATyped'
<1>1. UNCHANGED <<member, requests, links, newest, revoked>>
  BY DEF OpenLink, HasAccess, Accept
<1>2. PICK x \in Visit \union {None} : visits' = [visits EXCEPT ![v] = x]
  <2>1. visits[v] \in Visit \union {None}
    BY DEF ATyped, AccountsTypeOK
  <2>2. visits[v] # None => [visits[v] EXCEPT !.at = "write"] \in Visit
    BY <2>1 DEF Visit
  <2>3. \A i \in Users, n \in 0..MaxVersion : [at |-> "count", id |-> i, version |-> n] \in Visit
    BY AccountConstants DEF Visit
  <2>4. CASE \E i \in Users, n \in 0..MaxVersion : OpenLink(v, i, n)
    BY <2>3, <2>4 DEF OpenLink
  <2>5. CASE HasAccess(v) \/ Accept(v)
    BY <2>2, <2>5 DEF HasAccess, Accept
  <2>. QED
    BY <2>4, <2>5
<1>3. visits' \in [Visitors -> Visit \union {None}]
  BY <1>2 DEF ATyped, AccountsTypeOK
<1>4. account' \in [Users -> Account \union {Fresh, Gone}]
  <2> PICK i : i = visits[v].id
    OBVIOUS
  <2>1. \/ UNCHANGED account
        \/ /\ visits[v] # None /\ Pending(i)
           /\ account' = [account EXCEPT ![i] = [account[i] EXCEPT !.password = TRUE]]
    BY DEF OpenLink, HasAccess, Accept
  <2>2. visits[v] # None => i \in Users
    BY DEF ATyped, AccountsTypeOK, Visit
  <2>3. visits[v] # None /\ Pending(i) => [account[i] EXCEPT !.password = TRUE] \in Account
    BY <2>2, RowParts, AccountWith DEF Pending
  <2>. QED
    BY <2>1, <2>2, <2>3, RowTyped, StayTyped
<1>. QED
  BY <1>1, <1>3, <1>4 DEF ATyped, AccountsTypeOK, AllFormed

LEMMA StutterTyped ==
  ASSUME ATyped, UNCHANGED accountVars
  PROVE  ATyped'
  BY DEF ATyped, AccountsTypeOK, AllFormed, accountVars

LEMMA NextTyped == ATyped /\ [AccountsNext]_accountVars => ATyped'
<1> SUFFICES ASSUME ATyped, AccountsNext PROVE ATyped'
  BY StutterTyped
<1>1. CASE \E v \in Visitors : \/ \E i \in Users, n \in 0..MaxVersion : OpenLink(v, i, n)
                               \/ HasAccess(v) \/ Accept(v)
  BY <1>1, VisitTyped
<1>2. CASE \E s \in Slots : Administer(s)
  <2>1. PICK s \in Slots : Administer(s)
    BY <1>2
  <2>2. CASE \E e \in Emails, role \in Role :
               BeginInvite(s, e, role) \/ BeginCreate(s, e, role) \/ BeginLocal(s, e, role)
    BY <2>2, InviteBeginTyped, CreateBeginTyped
  <2>3. CASE \E i \in Users : \/ \E scoped \in BOOLEAN : BeginResend(s, i, scoped)
                              \/ \E role \in Role \union {None} : BeginChange(s, i, role)
                              \/ BeginRemove(s, i) \/ BeginDelete(s, i)
    BY <2>3, PlainBeginTyped, ChangeBeginTyped
  <2>4. CASE SaveInvited(s) \/ InsertAccount(s) \/ SetPassword(s)
    BY <2>4, SaveTyped
  <2>5. CASE FindMember(s)
    BY <2>5, FindMemberTyped
  <2>6. CASE InsertMember(s) \/ Reactivate(s) \/ StoreMember(s)
    BY <2>6, MemberStepTyped
  <2>7. CASE SendInvite(s)
    BY <2>7, SendTyped
  <2>8. CASE UndoInvite(s) \/ UndoResend(s) \/ DeleteAccount(s)
    BY <2>8, UndoTyped
  <2>9. CASE FindPending(s) \/ ReadMember(s) \/ CountAdmins(s)
    BY <2>9, ReadTyped
  <2>10. CASE BumpVersion(s)
    BY <2>10, BumpTyped
  <2>11. CASE DisableMembership(s)
    BY <2>11, DisableTyped
  <2>. QED
    BY <2>1, <2>2, <2>3, <2>4, <2>5, <2>6, <2>7, <2>8, <2>9, <2>10, <2>11 DEF Administer
<1>. QED
  BY <1>1, <1>2 DEF AccountsNext

(* Rows and requests keep their types, and a request is only at the places *)
(* its operation passes, with the copies it needs there: UsersController,  *)
(* UsersService and AuthService.                                           *)
THEOREM AccountsTypeCorrect == AccountsSpec => []AccountsTypeOK
<1>1. ATyped => AccountsTypeOK
  BY DEF ATyped
<1>. QED
  BY InitTyped, NextTyped, <1>1, PTL DEF AccountsSpec

-----------------------------------------------------------------------------
(* One request at a time.  The rows a request has read are then still as   *)
(* they were when it writes, but for what the people with an invitation do *)
(* meanwhile.                                                              *)

OneRequest == \E s : Slots = {s}

(* No two accounts have the same address.                                  *)
Addresses ==
  \A i, j \in Users : Stored(i) /\ Stored(j) /\ account[i].email = account[j].email => i = j

Marks ==
  \A i \in Users : /\ member[i] # None => Stored(i)
                   /\ account[i] = Fresh => links[i] = {} /\ revoked[i] = {} /\ newest[i] = None

(* With version v the account's links are as they should be: none is newer *)
(* than v, those revoked are older, and the newest that counts is v.       *)
Kept(i, v) == /\ \A n \in links[i] : n <= v
              /\ \A n \in revoked[i] : n < v
              /\ newest[i] \in {None, v}

(* The request may still write the version of its copy back, ...           *)
Holding(q) == q.at \in {"save", "member", "mail", "undo", "bump"} \/ (q.at = "insert" /\ q.op = "invite")

(* ... and it has raised the version, whose link has not arrived yet.      *)
Raised(q)  == q.at \in {"member", "mail", "undo"} \/ (q.at = "insert" /\ q.op = "invite")

Copies(q) ==
  /\ q.entity # None => ~ q.entity.password
  /\ Holding(q) => Kept(q.id, q.entity.version)
  /\ Raised(q) => /\ Stored(q.id)
                  /\ account[q.id].version = q.entity.version + 1
                  /\ account[q.id].email = q.entity.email
  /\ q.at \in {"save", "bump"} /\ ~ q.new => /\ Stored(q.id)
                                             /\ account[q.id].version = q.entity.version
                                             /\ account[q.id].email = q.entity.email
  /\ q.at \in {"save", "new"} /\ q.new => account[q.id] = Fresh /\ Holders(q.entity.email) = {}
  /\ q.op = "local" /\ q.at \in {"insert", "password"} => account[q.id] = q.entity /\ links[q.id] = {}
  /\ q.at = "activate" => Stored(q.id)

Members(q) ==
  /\ q.at \in {"new", "insert"} => q.seen = None
  /\ q.at = "insert" => member[q.id] = None
  /\ q.at = "mail" /\ q.op = "invite" /\ q.seen # None => member[q.id] = q.seen
  /\ q.at = "activate" => member[q.id] = q.seen
  /\ q.at = "store" => member[q.id] = q.seen /\ (q.op = "invite" => ~ Active(q.seen))
  /\ q.at = "password" => Active(member[q.id])

(* Who loses the administration is not the last to have it. *)
Spare(q) ==
  \/ q.at \in {"grant", "store"} /\ q.op = "change" /\ q.role # "org_admin"
  \/ q.at \in {"disable", "delete"}
  => (ActiveAdmin(member[q.id]) => Admins \ {q.id} # {})

Lawful(q) == Copies(q) /\ Members(q) /\ Spare(q)

LinksWith(q) ==
  \A i \in Users : Pending(i) =>
    Kept(i, account[i].version) \/ (q # None /\ Raised(q) /\ q.id = i)

(* A version the account has, or may get back from the request. *)
MayBe(q, i, n) ==
  \/ Pending(i) /\ account[i].version = n
  \/ q # None /\ Holding(q) /\ q.id = i /\ q.entity.version = n

OpenedWith(q) ==
  \A v \in Visitors : visits[v] # None =>
    /\ visits[v].version \in links[visits[v].id]
    /\ visits[v].at = "write" /\ MayBe(q, visits[v].id, visits[v].version)
         => Active(member[visits[v].id])

Sound(q) == /\ Addresses /\ Marks /\ LinksWith(q) /\ OpenedWith(q)
            /\ q # None => Lawful(q)

AInv == ATyped /\ \A s \in Slots : Sound(requests[s])

(* What a step may never do, for the accounts it is about. *)
StepRules ==
  /\ \A i \in Users : account[i] = Gone => account'[i] = Gone /\ member'[i] = None
  /\ \A i \in Users : Pending(i) /\ Stored(i)' /\ account'[i].password => Active(member[i])

(* How the last administrator may be lost. *)
AdminRule(q, p) ==
  Admins # {} /\ Admins' = {} => p = None /\ q # None /\ (q.new \/ q.op \in {"create", "local"})

-----------------------------------------------------------------------------

LEMMA SoundStay ==
  ASSUME NEW p, Sound(p), waiting
  PROVE  Sound(p)' /\ StepRules /\ (\A q : AdminRule(q, p))
<1>1. Addresses' /\ Marks' /\ LinksWith(p)' /\ OpenedWith(p)'
  BY DEF Sound, waiting, unsent, Addresses, Marks, LinksWith, OpenedWith, Kept, Pending, Stored,
         MayBe, Active
<1>2. p # None => Lawful(p)'
  BY DEF Sound, waiting, unsent, Lawful, Copies, Members, Spare, Holders, Kept, Pending, Stored,
         Active, ActiveAdmin, Admins
<1>3. StepRules
  BY DEF Sound, Marks, waiting, unsent, StepRules, Pending, Stored
<1>. QED
  BY <1>1, <1>2, <1>3 DEF Sound, AdminRule, waiting, unsent, Admins, ActiveAdmin, Active

(* The request of a step is about one account; the others stay. *)
Others(i) ==
  \A j \in Users \ {i} : /\ account'[j] = account[j] /\ member'[j] = member[j]
                         /\ links'[j] = links[j] /\ revoked'[j] = revoked[j]
                         /\ newest'[j] = newest[j]

LEMMA SoundWrite ==
  ASSUME ATyped, NEW i \in Users, NEW q, NEW p, Sound(q), q # None, q.id = i,
         p # None => p.id = i,
         Others(i), visits' = visits,
         \A j \in Users \ {i} : Stored(i)' /\ Stored(j) => account'[i].email # account[j].email,
         member'[i] # None => Stored(i)',
         account'[i] # Fresh \/ (account[i] = Fresh /\ UNCHANGED <<links, revoked, newest>>),
         Pending(i)' => Kept(i, account[i].version)' \/ (p # None /\ Raised(p)),
         links[i] \subseteq links'[i],
         \A n \in links[i] : MayBe(p, i, n)' => MayBe(q, i, n) /\ (Active(member[i]) => Active(member[i])'),
         p # None => Lawful(p)'
  PROVE  Sound(p)'
<1>1. Addresses'
  <2> SUFFICES ASSUME NEW j \in Users, NEW k \in Users, Stored(j)', Stored(k)',
                      account'[j].email = account'[k].email
               PROVE  j = k
    BY DEF Addresses
  <2>1. CASE j = i \/ k = i
    BY <2>1 DEF Others, Stored
  <2>2. CASE j # i /\ k # i
    BY <2>2 DEF Others, Stored, Sound, Addresses
  <2>. QED
    BY <2>1, <2>2
<1>2. Marks'
  BY DEF Sound, Marks, Others, Stored
<1>3. LinksWith(p)'
  <2> SUFFICES ASSUME NEW j \in Users, Pending(j)'
               PROVE  Kept(j, account[j].version)' \/ (p # None /\ Raised(p) /\ p.id = j)
    BY DEF LinksWith
  <2>1. CASE j = i
    BY <2>1
  <2>2. CASE j # i
    BY <2>2 DEF Others, Sound, LinksWith, Pending, Stored, Kept
  <2>. QED
    BY <2>1, <2>2
<1>4. OpenedWith(p)'
  <2> SUFFICES ASSUME NEW v \in Visitors, visits[v] # None
               PROVE  /\ visits[v].version \in links'[visits[v].id]
                      /\ visits[v].at = "write" /\ MayBe(p, visits[v].id, visits[v].version)'
                           => Active(member[visits[v].id])'
    BY DEF OpenedWith, MayBe, Pending, Stored, Active
  <2>1. visits[v].id \in Users
    BY DEF ATyped, AccountsTypeOK, Visit
  <2>2. /\ visits[v].version \in links[visits[v].id]
        /\ visits[v].at = "write" /\ MayBe(q, visits[v].id, visits[v].version)
             => Active(member[visits[v].id])
    BY DEF Sound, OpenedWith
  <2>3. CASE visits[v].id = i
    BY <2>2, <2>3
  <2>4. CASE visits[v].id # i
    BY <2>1, <2>2, <2>4 DEF Others, MayBe, Pending, Stored, Active
  <2>. QED
    BY <2>3, <2>4
<1>. QED
  BY <1>1, <1>2, <1>3, <1>4 DEF Sound

LEMMA RulesWrite ==
  ASSUME ATyped, NEW i \in Users, NEW q, NEW p, Sound(q), q # None, Others(i),
         account[i] = Gone => account'[i] = Gone /\ member'[i] = None,
         Pending(i) /\ Stored(i)' /\ account'[i].password => Active(member[i]),
         ActiveAdmin(member[i]) => \/ ActiveAdmin(member[i])' \/ Admins \ {i} # {}
                                   \/ p = None /\ (q.new \/ q.op \in {"create", "local"})
  PROVE  StepRules /\ AdminRule(q, p)
<1>1. StepRules
  BY DEF StepRules, Others, Sound, Marks, Pending, Stored
<1>2. AdminRule(q, p)
  <2>1. \A j \in Users \ {i} : ActiveAdmin(member[j]) => ActiveAdmin(member[j])'
    BY DEF Others, ActiveAdmin, Active
  <2>. QED
    BY <2>1 DEF AdminRule, Admins
<1>. QED
  BY <1>1, <1>2

-----------------------------------------------------------------------------
(* The requests begin. *)

LEMMA SoundBegin ==
  ASSUME Sound(None), NEW p, Lawful(p),
         Holding(p) => \/ Pending(p.id) /\ account[p.id].version = p.entity.version
                       \/ links[p.id] = {}
  PROVE  Sound(p)
<1>1. LinksWith(p)
  BY DEF Sound, LinksWith
<1>2. OpenedWith(p)
  <2> SUFFICES ASSUME NEW v \in Visitors, visits[v] # None
               PROVE  /\ visits[v].version \in links[visits[v].id]
                      /\ visits[v].at = "write" /\ MayBe(p, visits[v].id, visits[v].version)
                           => Active(member[visits[v].id])
    BY DEF OpenedWith
  <2>1. /\ visits[v].version \in links[visits[v].id]
        /\ visits[v].at = "write" /\ MayBe(None, visits[v].id, visits[v].version)
             => Active(member[visits[v].id])
    BY DEF Sound, OpenedWith
  <2>2. MayBe(p, visits[v].id, visits[v].version) => MayBe(None, visits[v].id, visits[v].version)
    BY <2>1 DEF MayBe
  <2>. QED
    BY <2>1, <2>2
<1>. QED
  BY <1>1, <1>2 DEF Sound

(* What a step leaves the only request with, and what it never does. *)
Goes(s, p) == requests' = [requests EXCEPT ![s] = p] /\ Sound(p)' /\ StepRules /\ AdminRule(requests[s], p)

LEMMA GrantBeginSound ==
  ASSUME ATyped, NEW s \in Slots, Sound(requests[s]), NEW op, NEW i \in Users, NEW role,
         Begin(s, op, i, role, "grant", None, FALSE), waiting,
         op = "change" /\ role # "org_admin" => (ActiveAdmin(member[i]) => Admins \ {i} # {})
  PROVE  \E p : Goes(s, p)
<1> PICK p : p = NewRequest(op, i, role, "grant", None, FALSE)
  OBVIOUS
<1>1. requests[s] = None /\ requests' = [requests EXCEPT ![s] = p]
  BY DEF Begin, NewRequest
<1>2. p.op = op /\ p.id = i /\ p.role = role /\ p.at = "grant" /\ p.seen = None /\ p.entity = None
  BY DEF NewRequest
<1>3. Lawful(p)
  BY <1>2 DEF Lawful, Copies, Members, Spare, Holding, Raised
<1>4. ~ Holding(p)
  BY <1>2 DEF Holding
<1>5. Sound(p)
  BY <1>1, <1>3, <1>4, SoundBegin
<1>. QED
  BY <1>1, <1>5, SoundStay DEF Goes

LEMMA NewBeginSound ==
  ASSUME ATyped, NEW s \in Slots, Sound(requests[s]), NEW op, NEW i \in Users, NEW role \in Role,
         NEW e \in Emails, NEW at \in {"save", "new"}, Unused(i), Holders(e) = {},
         op = "local" \/ op = "create" \/ op = "invite",
         Begin(s, op, i, role, at, NewAccount(e, role), TRUE), waiting
  PROVE  \E p : Goes(s, p)
<1> PICK x : x = NewAccount(e, role)
  OBVIOUS
<1>1. x \in Account /\ x.email = e /\ x.version = 0 /\ x.password = FALSE
  BY NewAccountTyped DEF NewAccount
<1> PICK p : p = NewRequest(op, i, role, at, x, TRUE)
  OBVIOUS
<1>2. requests[s] = None /\ requests' = [requests EXCEPT ![s] = p]
  BY DEF Begin, NewRequest
<1>3. p.op = op /\ p.id = i /\ p.role = role /\ p.at = at /\ p.seen = None /\ p.entity = x /\ p.new = TRUE
  BY DEF NewRequest
<1>4. account[i] = Fresh /\ links[i] = {} /\ revoked[i] = {} /\ newest[i] = None
  BY <1>2 DEF Unused, Sound, Marks
<1>5. Copies(p)
  BY <1>1, <1>3, <1>4 DEF Copies, Holding, Raised, Kept
<1>6. Members(p) /\ Spare(p)
  BY <1>3 DEF Members, Spare
<1>7. Sound(p)
  BY <1>2, <1>3, <1>4, <1>5, <1>6, SoundBegin DEF Lawful
<1>. QED
  BY <1>2, <1>7, SoundStay DEF Goes

LEMMA InviteBeginSound ==
  ASSUME ATyped, NEW s \in Slots, Sound(requests[s]), NEW e \in Emails, NEW role \in Role,
         BeginInvite(s, e, role)
  PROVE  \E p : Goes(s, p)
<1>1. waiting
  BY DEF BeginInvite
<1>2. CASE \E i \in Holders(e) :
             account[i].password /\ Begin(s, "invite", i, role, "grant", None, FALSE)
  BY <1>1, <1>2, GrantBeginSound DEF Holders
<1>3. CASE \E i \in Holders(e) :
             /\ Pending(i) /\ account[i].role = role /\ Room(i)
             /\ Begin(s, "invite", i, role, "save", account[i], FALSE)
  <2>1. PICK i \in Users : /\ Pending(i)
                           /\ Begin(s, "invite", i, role, "save", account[i], FALSE)
    BY <1>3 DEF Holders
  <2> PICK x : x = account[i]
    OBVIOUS
  <2> PICK p : p = NewRequest("invite", i, role, "save", x, FALSE)
    OBVIOUS
  <2>2. requests[s] = None /\ requests' = [requests EXCEPT ![s] = p]
    BY <2>1 DEF Begin, NewRequest
  <2>3. /\ p.op = "invite" /\ p.id = i /\ p.role = role /\ p.at = "save" /\ p.seen = None
        /\ p.entity = x /\ p.new = FALSE
    BY DEF NewRequest
  <2>4. x \in Account /\ Stored(i) /\ ~ x.password
    BY <2>1, RowParts DEF Pending
  <2>5. Kept(i, x.version)
    BY <2>1, <2>2 DEF Sound, LinksWith
  <2>6. Lawful(p)
    BY <2>3, <2>4, <2>5 DEF Lawful, Copies, Members, Spare, Holding, Raised
  <2>7. Sound(p)
    BY <2>1, <2>2, <2>3, <2>6, SoundBegin
  <2>. QED
    BY <1>1, <2>2, <2>7, SoundStay DEF Goes
<1>4. CASE /\ Holders(e) = {}
           /\ \E i \in Users : /\ Unused(i)
                               /\ Begin(s, "invite", i, role, "save", NewAccount(e, role), TRUE)
  BY <1>1, <1>4, NewBeginSound
<1>. QED
  BY <1>2, <1>3, <1>4 DEF BeginInvite

LEMMA CreateBeginSound ==
  ASSUME ATyped, NEW s \in Slots, Sound(requests[s]), NEW e \in Emails, NEW role \in Role,
         BeginCreate(s, e, role) \/ BeginLocal(s, e, role)
  PROVE  \E p : Goes(s, p)
<1>1. waiting
  BY DEF BeginCreate, BeginLocal
<1>2. CASE \E i \in Users, op \in {"create", "local"} : Begin(s, op, i, role, "grant", None, FALSE)
  BY <1>1, <1>2, GrantBeginSound
<1>3. CASE /\ Holders(e) = {}
           /\ \E i \in Users, op \in {"create", "local"} :
                Unused(i) /\ Begin(s, op, i, role, "new", NewAccount(e, role), TRUE)
  BY <1>1, <1>3, NewBeginSound
<1>. QED
  BY <1>2, <1>3 DEF BeginCreate, BeginLocal, Holders

LEMMA PlainBeginSound ==
  ASSUME ATyped, NEW s \in Slots, Sound(requests[s]), NEW i \in Users,
         NEW op \in {"resend", "remove", "delete", "change"}, NEW role,
         NEW at \in {"find", "count", "disable", "delete"},
         Begin(s, op, i, role, at, None, FALSE), waiting,
         at \in {"disable", "delete"} => ~ ActiveAdmin(member[i])
  PROVE  \E p : Goes(s, p)
<1> PICK p : p = NewRequest(op, i, role, at, None, FALSE)
  OBVIOUS
<1>1. requests[s] = None /\ requests' = [requests EXCEPT ![s] = p]
  BY DEF Begin, NewRequest
<1>2. p.op = op /\ p.id = i /\ p.role = role /\ p.at = at /\ p.seen = None /\ p.entity = None
  BY DEF NewRequest
<1>3. Lawful(p) /\ ~ Holding(p)
  BY <1>2 DEF Lawful, Copies, Members, Spare, Holding, Raised
<1>4. Sound(p)
  BY <1>1, <1>3, SoundBegin
<1>. QED
  BY <1>1, <1>4, SoundStay DEF Goes

LEMMA OtherBeginSound ==
  ASSUME ATyped, NEW s \in Slots, Sound(requests[s]), NEW i \in Users,
         \/ \E scoped \in BOOLEAN : BeginResend(s, i, scoped)
         \/ \E role \in Role \union {None} : BeginChange(s, i, role)
         \/ BeginRemove(s, i) \/ BeginDelete(s, i)
  PROVE  \E p : Goes(s, p)
<1>1. waiting
  BY DEF BeginResend, BeginChange, BeginRemove, BeginDelete
<1>2. CASE \E scoped \in BOOLEAN : BeginResend(s, i, scoped)
  BY <1>1, <1>2, PlainBeginSound DEF BeginResend
<1>3. CASE BeginRemove(s, i)
  <2>1. ASSUME member[i].role # "org_admin" PROVE ~ ActiveAdmin(member[i])
    BY <2>1 DEF ActiveAdmin
  <2>. QED
    BY <1>1, <1>3, <2>1, PlainBeginSound DEF BeginRemove
<1>4. CASE BeginDelete(s, i)
  BY <1>1, <1>4, PlainBeginSound DEF BeginDelete
<1>5. CASE \E role \in Role \union {None} : BeginChange(s, i, role)
  <2>1. PICK role \in Role \union {None} : BeginChange(s, i, role)
    BY <1>5
  <2> DEFINE Given == IF role # None THEN role
                      ELSE IF member[i] # None THEN member[i].role ELSE account[i].role
  <2>2. CASE ActiveAdmin(member[i]) /\ role \notin {None, "org_admin"}
    BY <1>1, <2>1, <2>2, PlainBeginSound DEF BeginChange
  <2>3. CASE ~ (ActiveAdmin(member[i]) /\ role \notin {None, "org_admin"})
    <3>1. Begin(s, "change", i, Given, "grant", None, FALSE)
      BY <2>1, <2>3 DEF BeginChange
    <3>2. ActiveAdmin(member[i]) => Given = "org_admin"
      BY <2>3 DEF ActiveAdmin, Active
    <3> HIDE DEF Given
    <3>. QED
      BY <1>1, <3>1, <3>2, GrantBeginSound
  <2>. QED
    BY <2>2, <2>3
<1>. QED
  BY <1>2, <1>3, <1>4, <1>5

-----------------------------------------------------------------------------
(* The requests read. *)

LEMMA SoundRead ==
  ASSUME NEW q, NEW p, Sound(q), q # None,
         Raised(q) => p # None /\ Raised(p) /\ p.id = q.id,
         p # None /\ Holding(p) =>
           \/ Pending(p.id) /\ account[p.id].version = p.entity.version
           \/ Holding(q) /\ p.id = q.id /\ p.entity = q.entity,
         p # None => Lawful(p)
  PROVE  Sound(p)
<1>1. LinksWith(p)
  BY DEF Sound, LinksWith
<1>2. \A i, n : MayBe(p, i, n) => MayBe(q, i, n)
  BY DEF MayBe
<1>3. OpenedWith(p)
  BY <1>2 DEF Sound, OpenedWith
<1>. QED
  BY <1>1, <1>3 DEF Sound

LEMMA SoundEnd ==
  ASSUME ATyped, NEW s \in Slots, Sound(requests[s]), requests[s] # None, ~ Raised(requests[s]),
         End(s), waiting
  PROVE  \E p : Goes(s, p)
<1>1. requests' = [requests EXCEPT ![s] = None]
  BY DEF End
<1>2. Sound(None)
  BY SoundRead
<1>. QED
  BY <1>1, <1>2, SoundStay DEF Goes

LEMMA FindMemberSound ==
  ASSUME ATyped, NEW s \in Slots, Sound(requests[s]), FindMember(s)
  PROVE  \E p : Goes(s, p)
<1> PICK q : q = requests[s]
  OBVIOUS
<1> DEFINE m == member[q.id]
<1> PICK p : p = [q EXCEPT !.at = IF m = None THEN "insert" ELSE "mail",
                           !.seen = IF Active(m) THEN None ELSE m]
  OBVIOUS
<1>1. q # None /\ q.at = "member" /\ waiting /\ requests' = [requests EXCEPT ![s] = p]
  BY DEF FindMember, At
<1>2. q \in Request /\ Formed(q) /\ q.op = "invite"
  BY <1>1, SlotParts DEF Formed
<1>3. /\ p.at = IF m = None THEN "insert" ELSE "mail"
      /\ p.seen = IF Active(m) THEN None ELSE m
      /\ p.op = q.op /\ p.id = q.id /\ p.entity = q.entity /\ p.new = q.new
  BY <1>2 DEF Request
<1>4. Lawful(q)
  BY <1>1 DEF Sound
<1>5. Copies(p)
  BY <1>1, <1>2, <1>3, <1>4 DEF Lawful, Copies, Holding, Raised
<1>6. Members(p) /\ Spare(p)
  BY <1>2, <1>3 DEF Members, Spare, Active
<1>7. Raised(p) /\ Holding(q)
  BY <1>1, <1>2, <1>3 DEF Raised, Holding
<1>8. Lawful(p) /\ p.id = q.id /\ p.entity = q.entity /\ p # None /\ Sound(q)
  <2>1. m \in Membership \union {None}
    BY <1>1, SlotParts DEF ATyped, AccountsTypeOK
  <2>2. p \in Request
    <3>1. PICK to, row : /\ to = IF m = None THEN "insert" ELSE "mail"
                         /\ row = IF Active(m) THEN None ELSE m
      OBVIOUS
    <3>2. to \in {"insert", "mail"} /\ row \in Membership \union {None}
      BY <2>1, <3>1
    <3>3. p = [q EXCEPT !.at = to, !.seen = row]
      BY <3>1
    <3> HIDE DEF m
    <3>. QED
      BY <1>2, <3>2, <3>3 DEF Request
  <2>. QED
    BY <1>3, <1>5, <1>6, <2>2, AccountMarks DEF Lawful
<1> HIDE DEF m
<1>9. Sound(p)
  BY <1>1, <1>7, <1>8, SoundRead
<1>. QED
  BY <1>1, <1>9, SoundStay DEF Goes

LEMMA FindPendingSound ==
  ASSUME ATyped, NEW s \in Slots, Sound(requests[s]), FindPending(s)
  PROVE  \E p : Goes(s, p)
<1> PICK q : q = requests[s]
  OBVIOUS
<1>1. q # None /\ q.at = "find" /\ waiting
  BY DEF FindPending, At
<1>2. q \in Request /\ Formed(q) /\ q.op = "resend" /\ ~ q.new /\ ~ Raised(q)
  BY <1>1, SlotParts DEF Formed, Raised
<1>3. CASE ~ Pending(q.id)
  BY <1>1, <1>2, <1>3, SoundEnd DEF FindPending
<1>4. CASE Pending(q.id)
  <2> PICK p : p = [q EXCEPT !.at = "bump", !.entity = account[q.id]]
    OBVIOUS
  <2>1. requests' = [requests EXCEPT ![s] = p]
    BY <1>4 DEF FindPending
  <2>2. /\ p.at = "bump" /\ p.op = q.op /\ p.id = q.id /\ p.entity = account[q.id] /\ p.new = q.new
    BY <1>2 DEF Request
  <2>3. Kept(q.id, account[q.id].version)
    BY <1>1, <1>2, <1>4, SlotParts DEF Sound, LinksWith
  <2>4. Copies(p)
    BY <1>2, <1>4, <2>2, <2>3 DEF Copies, Holding, Raised, Pending
  <2>5. Members(p) /\ Spare(p)
    BY <1>2, <2>2 DEF Members, Spare
  <2>6. Sound(p)
    BY <1>1, <1>2, <1>4, <2>2, <2>4, <2>5, SoundRead DEF Lawful
  <2>. QED
    BY <1>1, <2>1, <2>6, SoundStay DEF Goes
<1>. QED
  BY <1>3, <1>4

LEMMA ReadMemberSound ==
  ASSUME ATyped, NEW s \in Slots, Sound(requests[s]), ReadMember(s)
  PROVE  \E p : Goes(s, p)
<1> PICK q : q = requests[s]
  OBVIOUS
<1>1. q # None /\ q.at = "grant" /\ waiting
  BY DEF ReadMember, At
<1>2. q \in Request /\ Formed(q) /\ ~ Raised(q)
  BY <1>1, SlotParts DEF Raised
<1>3. CASE q.op = "invite" /\ Active(member[q.id])
  BY <1>1, <1>2, <1>3, SoundEnd DEF ReadMember
<1>4. CASE ~ (q.op = "invite" /\ Active(member[q.id]))
  <2> PICK p : p = [q EXCEPT !.at = "store", !.seen = member[q.id]]
    OBVIOUS
  <2>1. requests' = [requests EXCEPT ![s] = p]
    BY <1>4 DEF ReadMember
  <2>2. /\ p.at = "store" /\ p.op = q.op /\ p.id = q.id /\ p.entity = q.entity /\ p.new = q.new
        /\ p.seen = member[q.id] /\ p.role = q.role
    BY <1>2 DEF Request
  <2>3. Lawful(q)
    BY <1>1 DEF Sound
  <2>4. Lawful(p) /\ ~ Holding(p)
    BY <1>1, <1>2, <1>4, <2>2, <2>3 DEF Lawful, Copies, Members, Spare, Holding, Raised
  <2>5. Sound(p)
    BY <1>1, <1>2, <2>4, SoundRead
  <2>. QED
    BY <1>1, <2>1, <2>5, SoundStay DEF Goes
<1>. QED
  BY <1>3, <1>4

LEMMA MoreThanOne ==
  ASSUME NEW S, NEW x, ~ (Cardinality(S) <= 1)
  PROVE  S \ {x} # {}
<1> SUFFICES ASSUME S \ {x} = {} PROVE Cardinality(S) <= 1
  OBVIOUS
<1>1. S = {} \/ S = {x}
  OBVIOUS
<1>2. Cardinality({}) = 0 /\ Cardinality({x}) = 1
  BY FS_EmptySet, FS_Singleton
<1>. QED
  BY <1>1, <1>2

LEMMA CountAdminsSound ==
  ASSUME ATyped, NEW s \in Slots, Sound(requests[s]), CountAdmins(s)
  PROVE  \E p : Goes(s, p)
<1> PICK q : q = requests[s]
  OBVIOUS
<1>1. q # None /\ q.at = "count" /\ waiting
  BY DEF CountAdmins, At
<1>2. q \in Request /\ Formed(q) /\ ~ Raised(q)
  BY <1>1, SlotParts DEF Raised
<1>3. CASE Cardinality(Admins) <= 1
  BY <1>1, <1>2, <1>3, SoundEnd DEF CountAdmins
<1>4. CASE ~ (Cardinality(Admins) <= 1)
  <2>1. PICK at \in {"grant", "disable", "delete"} : Go(s, at)
    BY <1>4 DEF CountAdmins
  <2> PICK p : p = [q EXCEPT !.at = at]
    OBVIOUS
  <2>2. requests' = [requests EXCEPT ![s] = p]
    BY <2>1, GoIs
  <2>3. p.at = at /\ p.op = q.op /\ p.id = q.id /\ p.entity = q.entity /\ p.new = q.new
    BY <1>2, MovedOn DEF Places
  <2>4. Admins \ {q.id} # {}
    BY <1>4, MoreThanOne
  <2>5. Lawful(q)
    BY <1>1 DEF Sound
  <2>6. Lawful(p) /\ ~ Holding(p)
    BY <1>1, <2>3, <2>4, <2>5 DEF Lawful, Copies, Members, Spare, Holding, Raised
  <2>7. Sound(p)
    BY <1>1, <1>2, <2>6, SoundRead
  <2>. QED
    BY <1>1, <2>2, <2>7, SoundStay DEF Goes
<1>. QED
  BY <1>3, <1>4

-----------------------------------------------------------------------------
(* The requests write. *)

LEMMA StoredNow ==
  ASSUME NEW i, account'[i] \in Account
  PROVE  /\ Stored(i)' /\ account'[i] # Fresh /\ account'[i] # Gone
         /\ account'[i].password => ~ Pending(i)'
         /\ ~ account'[i].password => Pending(i)'
  BY AccountMarks DEF Stored, Pending

LEMMA MemberWritten ==
  ASSUME ATyped, NEW i \in Users, NEW m, member' = [member EXCEPT ![i] = m]
  PROVE  member'[i] = m /\ \A j \in Users \ {i} : member'[j] = member[j]
  BY DEF ATyped, AccountsTypeOK

LEMMA Numbers ==
  ASSUME ATyped, NEW i \in Users
  PROVE  links[i] \subseteq Nat /\ revoked[i] \subseteq Nat /\ newest[i] \in Nat \union {None}
  BY DEF ATyped, AccountsTypeOK

(* Nobody else has the address of an account's row. *)
LEMMA OwnAddress ==
  ASSUME Addresses, NEW i \in Users, NEW e, NEW row, row.email = e,
         Holders(e) = {} \/ (Stored(i) /\ account[i].email = e)
  PROVE  Saveable(i, row) /\ \A j \in Users \ {i} : Stored(j) => e # account[j].email
  BY DEF Saveable, Holders, Addresses

LEMMA SaveInvitedSound ==
  ASSUME ATyped, NEW s \in Slots, Sound(requests[s]), SaveInvited(s)
  PROVE  \E p : Goes(s, p)
<1> PICK q : q = requests[s]
  OBVIOUS
<1> PICK i : i = q.id
  OBVIOUS
<1>r. PICK row : row = [q.entity EXCEPT !.version = q.entity.version + 1]
  OBVIOUS
<1>p. PICK p : p = [q EXCEPT !.at = "member"]
  OBVIOUS
<1>1. q # None /\ q.at = "save" /\ unsent /\ UNCHANGED member
  BY DEF SaveInvited, At
<1>2. /\ q \in Request /\ Formed(q) /\ q.op = "invite" /\ i \in Users /\ q.entity \in Account
      /\ q.new \in BOOLEAN
  BY <1>1, SlotParts DEF Formed
<1>3. /\ row \in Account /\ row.email = q.entity.email /\ row.password = q.entity.password
      /\ row.version = q.entity.version + 1 /\ q.entity.version \in Nat
  BY <1>r, <1>2 DEF Account
<1>4. p \in Request /\ p.at = "member" /\ p.op = q.op /\ p.id = i /\ p.entity = q.entity
      /\ p.seen = q.seen /\ p.new = q.new
  BY <1>p, <1>2 DEF Request
<1>5. Lawful(q) /\ Addresses
  BY <1>1 DEF Sound
<1>6. /\ ~ q.entity.password /\ Kept(i, q.entity.version)
      /\ \/ account[i] = Fresh /\ Holders(row.email) = {}
         \/ Stored(i) /\ account[i].email = row.email
  BY <1>1, <1>2, <1>3, <1>5, AccountMarks DEF Lawful, Copies, Holding
<1>7. Saveable(i, row) /\ \A j \in Users \ {i} : Stored(j) => row.email # account[j].email
  BY <1>2, <1>5, <1>6, OwnAddress
<1>8. account' = [account EXCEPT ![i] = row] /\ requests' = [requests EXCEPT ![s] = p]
  BY <1>r, <1>p, <1>7, GoIs DEF SaveInvited
<1>9. /\ account'[i] = row /\ \A j \in Users \ {i} : account'[j] = account[j]
      /\ Stored(i)' /\ Pending(i)'
  <2>1. account'[i] = row /\ \A j \in Users \ {i} : account'[j] = account[j]
    BY <1>2, <1>8 DEF ATyped, AccountsTypeOK
  <2>2. account'[i] \in Account /\ ~ account'[i].password
    BY <1>3, <1>6, <2>1
  <2>. QED
    BY <2>1, <2>2, StoredNow
<1>10. Others(i)
  BY <1>1, <1>9 DEF Others, unsent
<1>11. Lawful(p)'
  <2>1. Kept(i, q.entity.version)'
    BY <1>1, <1>6 DEF Kept, unsent
  <2>2. Copies(p)'
    BY <1>2, <1>3, <1>4, <1>6, <1>9, <2>1 DEF Copies, Holding, Raised
  <2>. QED
    BY <1>2, <1>4, <2>2 DEF Lawful, Members, Spare
<1>12. \A n \in links[i] : MayBe(p, i, n)' => MayBe(q, i, n)
  <2> TAKE n \in links[i]
  <2>1. n <= q.entity.version /\ n \in Nat
    BY <1>2, <1>6, Numbers DEF Kept
  <2>2. n # row.version
    BY <1>3, <2>1
  <2>. QED
    BY <1>1, <1>4, <1>9, <2>2 DEF MayBe, Holding
<1>13. Raised(p) /\ p # None /\ account'[i] # Fresh
  BY <1>3, <1>4, <1>9, AccountMarks DEF Raised
<1>14. Sound(p)'
  BY <1>1, <1>2, <1>4, <1>7, <1>9, <1>10, <1>11, <1>12, <1>13, SoundWrite DEF unsent, Active
<1>15. account[i] # Gone /\ ~ account'[i].password
  BY <1>3, <1>6, <1>9, MarksDiffer DEF Stored
<1>16. StepRules /\ AdminRule(q, p)
  BY <1>1, <1>2, <1>10, <1>15, RulesWrite DEF ActiveAdmin, Active
<1>. QED
  BY <1>8, <1>14, <1>16 DEF Goes

LEMMA InsertAccountSound ==
  ASSUME ATyped, NEW s \in Slots, Sound(requests[s]), InsertAccount(s)
  PROVE  \E p : Goes(s, p)
<1> PICK q : q = requests[s]
  OBVIOUS
<1> PICK i : i = q.id
  OBVIOUS
<1> DEFINE at == IF q.op = "create" THEN "grant" ELSE "insert"
<1>p. PICK p : p = [q EXCEPT !.at = at]
  OBVIOUS
<1>1. q # None /\ q.at = "new" /\ unsent /\ UNCHANGED member
  BY DEF InsertAccount, At
<1>2. /\ q \in Request /\ Formed(q) /\ q.op \in {"create", "local"} /\ q.new /\ i \in Users
      /\ q.entity \in Account
  BY <1>1, SlotParts DEF Formed
<1>3. at \in {"grant", "insert"} /\ at \in Places /\ (at = "insert" => q.op = "local")
  BY <1>2 DEF Places
<1>4. \/ Go(s, at) /\ account' = [account EXCEPT ![i] = q.entity]
      \/ ~ Saveable(i, q.entity)
  BY DEF InsertAccount
<1> HIDE DEF at
<1>5. p \in Request /\ p.at = at /\ p.op = q.op /\ p.id = i /\ p.entity = q.entity
      /\ p.seen = q.seen /\ p.new = q.new
  BY <1>p, <1>2, <1>3 DEF Request, Places
<1>6. Lawful(q) /\ Addresses /\ Marks
  BY <1>1 DEF Sound
<1>7. /\ ~ q.entity.password /\ q.seen = None
      /\ account[i] = Fresh /\ Holders(q.entity.email) = {}
  BY <1>1, <1>2, <1>6, AccountMarks DEF Lawful, Copies, Members
<1>8. Saveable(i, q.entity) /\ \A j \in Users \ {i} : Stored(j) => q.entity.email # account[j].email
  BY <1>2, <1>6, <1>7, OwnAddress
<1>9. account' = [account EXCEPT ![i] = q.entity] /\ requests' = [requests EXCEPT ![s] = p]
  BY <1>8, <1>4, <1>p, GoIs
<1>10. account'[i] = q.entity /\ \A j \in Users \ {i} : account'[j] = account[j]
  BY <1>2, <1>9 DEF ATyped, AccountsTypeOK
<1>11. Stored(i)' /\ account'[i] # Fresh
  BY <1>2, <1>10, StoredNow
<1>12. Others(i)
  BY <1>1, <1>10 DEF Others, unsent
<1>13. links[i] = {} /\ revoked[i] = {} /\ newest[i] = None /\ member[i] = None
  BY <1>2, <1>6, <1>7 DEF Marks, Stored
<1>14. Lawful(p)'
  <2>1. Copies(p)'
    BY <1>1, <1>2, <1>3, <1>5, <1>7, <1>10, <1>13 DEF Copies, Holding, Raised, unsent
  <2>. QED
    BY <1>1, <1>2, <1>3, <1>5, <1>7, <1>13, <2>1 DEF Lawful, Members, Spare
<1>15. Kept(i, account[i].version)' /\ links'[i] = {}
  BY <1>1, <1>13 DEF Kept, unsent
<1>16. Sound(p)'
  BY <1>1, <1>2, <1>5, <1>8, <1>10, <1>11, <1>12, <1>13, <1>14, <1>15, SoundWrite DEF unsent
<1>17. account[i] # Gone /\ ~ Pending(i)
  BY <1>7, MarksDiffer DEF Stored, Pending
<1>18. StepRules /\ AdminRule(q, p)
  BY <1>1, <1>2, <1>12, <1>17, RulesWrite DEF ActiveAdmin, Active
<1>. QED
  BY <1>9, <1>16, <1>18 DEF Goes

LEMMA SetPasswordSound ==
  ASSUME ATyped, NEW s \in Slots, Sound(requests[s]), SetPassword(s)
  PROVE  \E p : Goes(s, p)
<1> PICK q : q = requests[s]
  OBVIOUS
<1> PICK i : i = q.id
  OBVIOUS
<1>1. q # None /\ q.at = "password" /\ unsent /\ UNCHANGED member
  BY DEF SetPassword, At
<1>2. q \in Request /\ Formed(q) /\ q.op = "local" /\ i \in Users /\ q.entity \in Account
  BY <1>1, SlotParts DEF Formed
<1>3. Lawful(q) /\ Addresses
  BY <1>1 DEF Sound
<1>4. account[i] = q.entity /\ links[i] = {} /\ Active(member[i])
  BY <1>1, <1>2, <1>3 DEF Lawful, Copies, Members
<1>5. Stored(i)
  BY <1>2, <1>4, AccountMarks DEF Stored
<1>6. Saveable(i, q.entity) /\ \A j \in Users \ {i} : Stored(j) => q.entity.email # account[j].email
  BY <1>2, <1>3, <1>4, <1>5, OwnAddress
<1>7. /\ account' = [account EXCEPT ![i] = [q.entity EXCEPT !.password = TRUE]]
      /\ requests' = [requests EXCEPT ![s] = None]
  BY <1>6 DEF SetPassword, End
<1>8. /\ account'[i] = [q.entity EXCEPT !.password = TRUE]
      /\ \A j \in Users \ {i} : account'[j] = account[j]
  BY <1>2, <1>7 DEF ATyped, AccountsTypeOK
<1>9. account'[i] \in Account /\ account'[i].password /\ account'[i].email = q.entity.email
  BY <1>2, <1>8 DEF Account
<1>10. Stored(i)' /\ account'[i] # Fresh /\ ~ Pending(i)'
  BY <1>9, StoredNow
<1>11. Others(i)
  BY <1>1, <1>8 DEF Others, unsent
<1>12. Sound(None)'
  BY <1>1, <1>2, <1>4, <1>6, <1>9, <1>10, <1>11, SoundWrite DEF unsent
<1>13. account[i] # Gone
  BY <1>5 DEF Stored
<1>14. StepRules /\ AdminRule(q, None)
  BY <1>1, <1>2, <1>4, <1>11, <1>13, RulesWrite DEF ActiveAdmin, Active
<1>. QED
  BY <1>7, <1>12, <1>14 DEF Goes

(* An access is given or given again. *)
LEMMA MemberWrite ==
  ASSUME ATyped, NEW i \in Users, NEW q, NEW p, NEW m \in Membership, Sound(q), q # None, q.id = i,
         member' = [member EXCEPT ![i] = m], m.active, UNCHANGED account, unsent, Stored(i),
         p # None => p.id = i,
         Raised(q) => p # None /\ Raised(p),
         p # None /\ Holding(p) => Holding(q) /\ p.entity = q.entity,
         p # None => Lawful(p)',
         ActiveAdmin(member[i]) => \/ m.role = "org_admin" \/ Admins \ {i} # {}
                                   \/ p = None /\ (q.new \/ q.op \in {"create", "local"})
  PROVE  Sound(p)' /\ StepRules /\ AdminRule(q, p)
<1>1. member'[i] = m /\ \A j \in Users \ {i} : member'[j] = member[j]
  BY DEF ATyped, AccountsTypeOK
<1>2. Others(i)
  BY <1>1 DEF Others, unsent
<1>3. Active(member[i])'
  BY <1>1, AccountMarks DEF Active
<1>4. Stored(i)' /\ (Pending(i)' <=> Pending(i)) /\ account'[i] # Fresh /\ account[i] # Gone
  BY DEF Stored, Pending
<1>5. \A j \in Users \ {i} : Stored(j) => account'[i].email # account[j].email
  BY DEF Sound, Addresses
<1>6. Pending(i)' => Kept(i, account[i].version)' \/ (p # None /\ Raised(p))
  BY <1>4 DEF Sound, LinksWith, Kept, unsent
<1>7. \A n : MayBe(p, i, n)' => MayBe(q, i, n)
  BY <1>4 DEF MayBe
<1>8. Sound(p)'
  BY <1>2, <1>3, <1>4, <1>5, <1>6, <1>7, SoundWrite DEF unsent
<1>9. ActiveAdmin(member[i]) => \/ ActiveAdmin(member[i])' \/ Admins \ {i} # {}
                                \/ p = None /\ (q.new \/ q.op \in {"create", "local"})
  BY <1>1, <1>3 DEF ActiveAdmin
<1>10. Pending(i) /\ Stored(i)' => ~ account'[i].password
  BY DEF Pending
<1>11. StepRules /\ AdminRule(q, p)
  BY <1>2, <1>4, <1>9, <1>10, RulesWrite
<1>. QED
  BY <1>8, <1>11

LEMMA InsertMemberSound ==
  ASSUME ATyped, NEW s \in Slots, Sound(requests[s]), InsertMember(s)
  PROVE  \E p : Goes(s, p)
<1> PICK q : q = requests[s]
  OBVIOUS
<1> PICK i : i = q.id
  OBVIOUS
<1> DEFINE at == IF q.op = "invite" THEN "mail" ELSE "password"
           m  == [role |-> q.role, active |-> TRUE]
<1>p. PICK p : p = [q EXCEPT !.at = at]
  OBVIOUS
<1>1. q # None /\ q.at = "insert" /\ unsent /\ UNCHANGED account
  BY DEF InsertMember, At
<1>2. /\ q \in Request /\ Formed(q) /\ q.op \in {"invite", "local"} /\ i \in Users
      /\ q.entity \in Account /\ q.role \in Role
  BY <1>1, SlotParts DEF Formed
<1>3. /\ m \in Membership /\ m.active
      /\ at \in Places /\ (at = "mail" <=> q.op = "invite") /\ at \in {"mail", "password"}
  BY <1>2 DEF Membership, Places
<1>4. Lawful(q)
  BY <1>1 DEF Sound
<1>5. Stored(i) /\ q.seen = None /\ member[i] = None
  BY <1>1, <1>2, <1>4, AccountMarks DEF Lawful, Copies, Members, Raised, Stored
<1>6. member' = [member EXCEPT ![i] = m] /\ Go(s, at)
  BY <1>5 DEF InsertMember, Storable
<1> HIDE DEF at, m
<1>7. requests' = [requests EXCEPT ![s] = p]
  BY <1>p, <1>6, GoIs
<1>8. p \in Request /\ p.at = at /\ p.op = q.op /\ p.id = i /\ p.entity = q.entity
      /\ p.seen = q.seen /\ p.new = q.new
  BY <1>p, <1>2, <1>3 DEF Request, Places
<1>9. member'[i] = m
  BY <1>2, <1>6 DEF ATyped, AccountsTypeOK
<1>10. Active(member[i])'
  BY <1>3, <1>9, AccountMarks DEF Active
<1>11. Copies(p)'
  BY <1>1, <1>2, <1>3, <1>4, <1>8 DEF Lawful, Copies, Holding, Raised, Kept, Stored, unsent
<1>12. Members(p)' /\ Spare(p)'
  BY <1>3, <1>5, <1>8, <1>10 DEF Members, Spare
<1>13. (Raised(p) <=> Raised(q)) /\ (Holding(p) <=> Holding(q)) /\ p # None
  BY <1>1, <1>3, <1>8, AccountMarks DEF Raised, Holding
<1>14. ~ ActiveAdmin(member[i])
  BY <1>5 DEF ActiveAdmin, Active
<1>15. Sound(p)' /\ StepRules /\ AdminRule(q, p)
  BY <1>1, <1>2, <1>3, <1>5, <1>6, <1>8, <1>11, <1>12, <1>13, <1>14, MemberWrite DEF Lawful
<1>. QED
  BY <1>7, <1>15 DEF Goes

LEMMA ReactivateSound ==
  ASSUME ATyped, NEW s \in Slots, Sound(requests[s]), Reactivate(s)
  PROVE  \E p : Goes(s, p)
<1> PICK q : q = requests[s]
  OBVIOUS
<1> PICK i : i = q.id
  OBVIOUS
<1>m. PICK m : m = [q.seen EXCEPT !.active = TRUE]
  OBVIOUS
<1>1. q # None /\ q.at = "activate" /\ unsent /\ UNCHANGED account
  BY DEF Reactivate, At
<1>2. /\ q \in Request /\ Formed(q) /\ i \in Users /\ q.seen \in Membership /\ q.seen # None
  BY <1>1, SlotParts DEF Formed
<1>3. Lawful(q)
  BY <1>1 DEF Sound
<1>4. Stored(i) /\ member[i] = q.seen
  BY <1>1, <1>3 DEF Lawful, Copies, Members
<1>5. m \in Membership /\ m.active /\ m.role = q.seen.role
  BY <1>m, <1>2 DEF Membership
<1>6. member' = [member EXCEPT ![i] = m] /\ requests' = [requests EXCEPT ![s] = None]
  BY <1>m, <1>2, <1>4 DEF Reactivate, Storable, End
<1>7. ~ Raised(q)
  BY <1>1 DEF Raised
<1>8. ActiveAdmin(member[i]) => m.role = "org_admin"
  BY <1>4, <1>5 DEF ActiveAdmin
<1>9. Sound(None)' /\ StepRules /\ AdminRule(q, None)
  BY <1>1, <1>2, <1>4, <1>5, <1>6, <1>7, <1>8, MemberWrite
<1>. QED
  BY <1>6, <1>9 DEF Goes

LEMMA StoreMemberSound ==
  ASSUME ATyped, NEW s \in Slots, Sound(requests[s]), StoreMember(s)
  PROVE  \E p : Goes(s, p)
<1> PICK q : q = requests[s]
  OBVIOUS
<1> PICK i : i = q.id
  OBVIOUS
<1> DEFINE m == [role |-> q.role, active |-> TRUE]
<1>1. q # None /\ q.at = "store" /\ unsent /\ UNCHANGED account /\ End(s)
  BY DEF StoreMember, At
<1>2. /\ q \in Request /\ Formed(q) /\ i \in Users /\ q.role \in Role /\ ~ Raised(q)
      /\ q.op \in {"invite", "change", "create", "local"}
  BY <1>1, SlotParts DEF Formed, Raised
<1>3. Lawful(q)
  BY <1>1 DEF Sound
<1>4. member[i] = q.seen /\ (q.op = "invite" => ~ Active(q.seen))
  BY <1>1, <1>3 DEF Lawful, Members
<1>5. CASE ~ Storable(q)
  <2>1. waiting
    BY <1>1, <1>5 DEF StoreMember, waiting
  <2>. QED
    BY <1>1, <1>2, <2>1, SoundEnd
<1>6. CASE Storable(q)
  <2>1. Stored(i) /\ member' = [member EXCEPT ![i] = m]
    BY <1>6 DEF StoreMember, Storable
  <2>2. m \in Membership /\ m.active /\ m.role = q.role
    BY <1>2 DEF Membership
  <2>3. ActiveAdmin(member[i]) => \/ m.role = "org_admin" \/ Admins \ {i} # {}
                                  \/ q.op \in {"create", "local"}
    BY <1>1, <1>2, <1>3, <1>4 DEF Lawful, Spare, ActiveAdmin
  <2> HIDE DEF m
  <2>4. Sound(None)' /\ StepRules /\ AdminRule(q, None)
    BY <1>1, <1>2, <2>1, <2>2, <2>3, MemberWrite
  <2>. QED
    BY <1>1, <2>4 DEF Goes, End
<1>. QED
  BY <1>5, <1>6

LEMMA SendInviteSound ==
  ASSUME ATyped, NEW s \in Slots, Sound(requests[s]), SendInvite(s)
  PROVE  \E p : Goes(s, p)
<1> PICK q : q = requests[s]
  OBVIOUS
<1> PICK i : i = q.id
  OBVIOUS
<1> DEFINE v == q.entity.version + 1
<1>1. q # None /\ q.at = "mail" /\ UNCHANGED <<account, member, revoked, visits>>
  BY DEF SendInvite, At
<1>2. /\ q \in Request /\ Formed(q) /\ i \in Users /\ q.entity \in Account
      /\ q.entity.version \in Nat /\ v \in Nat
  BY <1>1, SlotParts, AccountWith DEF Formed
<1>3. Lawful(q)
  BY <1>1 DEF Sound
<1>4. /\ ~ q.entity.password /\ Kept(i, q.entity.version)
      /\ Stored(i) /\ account[i].version = v
  BY <1>1, <1>2, <1>3, AccountMarks DEF Lawful, Copies, Holding, Raised
<1>5. CASE Go(s, "undo") /\ UNCHANGED <<links, newest>>
  <2>p. PICK p : p = [q EXCEPT !.at = "undo"]
    OBVIOUS
  <2>1. requests' = [requests EXCEPT ![s] = p] /\ waiting
    BY <1>1, <1>5, <2>p, GoIs DEF waiting, unsent
  <2>2. p \in Request /\ p.at = "undo" /\ p.op = q.op /\ p.id = i /\ p.entity = q.entity
        /\ p.seen = q.seen /\ p.new = q.new
    BY <2>p, <1>2 DEF Request
  <2>3. Raised(p) /\ Raised(q) /\ Holding(p) /\ Holding(q) /\ p # None
    BY <1>1, <2>2, AccountMarks DEF Raised, Holding
  <2>4. Copies(p)
    BY <1>1, <1>3, <2>2, <2>3 DEF Lawful, Copies
  <2>5. Members(p) /\ Spare(p)
    BY <2>2 DEF Members, Spare
  <2>6. Sound(p)
    BY <1>1, <2>2, <2>3, <2>4, <2>5, SoundRead DEF Lawful
  <2>. QED
    BY <2>1, <2>6, SoundStay DEF Goes
<1>6. CASE /\ links' = [links EXCEPT ![i] = links[i] \union {v}]
           /\ newest' = [newest EXCEPT ![i] = v]
           /\ IF q.op = "invite" /\ q.seen # None THEN Go(s, "activate") ELSE End(s)
  <2>1. \E p : /\ requests' = [requests EXCEPT ![s] = p]
               /\ p # None => /\ p.at = "activate" /\ p.op = q.op /\ p.id = i /\ p.entity = q.entity
                              /\ p.seen = q.seen /\ q.op = "invite" /\ q.seen # None
    <3>p. PICK p : p = [q EXCEPT !.at = "activate"]
      OBVIOUS
    <3>1. p.at = "activate" /\ p.op = q.op /\ p.id = i /\ p.entity = q.entity /\ p.seen = q.seen
      BY <3>p, <1>2 DEF Request
    <3>2. CASE q.op = "invite" /\ q.seen # None
      <4>1. requests' = [requests EXCEPT ![s] = p]
        BY <1>6, <3>p, <3>2, GoIs
      <4>. QED
        BY <3>1, <3>2, <4>1
    <3>3. CASE ~ (q.op = "invite" /\ q.seen # None)
      <4>1. requests' = [requests EXCEPT ![s] = None]
        BY <1>6, <3>3 DEF End
      <4>. QED
        BY <4>1
    <3>. QED
      BY <3>2, <3>3
  <2>2. PICK p : /\ requests' = [requests EXCEPT ![s] = p]
                 /\ p # None => /\ p.at = "activate" /\ p.op = q.op /\ p.id = i /\ p.entity = q.entity
                                /\ p.seen = q.seen /\ q.op = "invite" /\ q.seen # None
    BY <2>1
  <2>3. /\ links'[i] = links[i] \union {v} /\ newest'[i] = v
        /\ \A j \in Users \ {i} : links'[j] = links[j] /\ newest'[j] = newest[j]
    BY <1>2, <1>6 DEF ATyped, AccountsTypeOK
  <2>4. Others(i)
    BY <1>1, <2>3 DEF Others
  <2>5. Stored(i)' /\ (Pending(i)' <=> Pending(i)) /\ account'[i] # Fresh /\ account[i] # Gone
    BY <1>1, <1>4 DEF Stored, Pending
  <2>6. Kept(i, account[i].version)'
    <3>1. \A n \in links[i] : n \in Nat /\ n <= q.entity.version
      BY <1>2, <1>4, Numbers DEF Kept
    <3>2. \A n \in revoked[i] : n \in Nat /\ n < q.entity.version
      BY <1>2, <1>4, Numbers DEF Kept
    <3>3. account'[i].version = v /\ revoked'[i] = revoked[i]
      BY <1>1, <1>4
    <3>. QED
      BY <1>2, <2>3, <3>1, <3>2, <3>3 DEF Kept
  <2>7. p # None => Lawful(p)' /\ ~ Holding(p)
    BY <1>1, <1>3, <1>4, <2>2, <2>5 DEF Lawful, Copies, Members, Spare, Holding, Raised
  <2>8. \A n : MayBe(p, i, n)' => MayBe(q, i, n)
    BY <1>1, <2>5, <2>7 DEF MayBe
  <2>9. \A j \in Users \ {i} : Stored(j) => account'[i].email # account[j].email
    BY <1>1, <1>2, <1>4 DEF Sound, Addresses
  <2>10. Sound(p)'
    BY <1>1, <1>2, <2>2, <2>3, <2>4, <2>5, <2>6, <2>7, <2>8, <2>9, SoundWrite DEF Active
  <2>11. Pending(i) /\ Stored(i)' => ~ account'[i].password
    BY <1>1 DEF Pending
  <2>12. StepRules /\ AdminRule(q, p)
    BY <1>1, <1>2, <2>4, <2>5, <2>11, RulesWrite DEF ActiveAdmin, Active
  <2>. QED
    BY <2>2, <2>10, <2>12 DEF Goes
<1>. QED
  BY <1>5, <1>6 DEF SendInvite

LEMMA BumpVersionSound ==
  ASSUME ATyped, NEW s \in Slots, Sound(requests[s]), BumpVersion(s)
  PROVE  \E p : Goes(s, p)
<1> PICK q : q = requests[s]
  OBVIOUS
<1> PICK i : i = q.id
  OBVIOUS
<1>r. PICK row : row = [account[i] EXCEPT !.version = q.entity.version + 1]
  OBVIOUS
<1>p. PICK p : p = [q EXCEPT !.at = "mail"]
  OBVIOUS
<1>1. q # None /\ q.at = "bump" /\ unsent /\ UNCHANGED member /\ Go(s, "mail")
  BY DEF BumpVersion, At
<1>2. /\ q \in Request /\ Formed(q) /\ q.op = "resend" /\ i \in Users /\ q.entity \in Account
      /\ ~ q.new /\ q.entity.version \in Nat
  BY <1>1, SlotParts, AccountWith DEF Formed
<1>3. Lawful(q)
  BY <1>1 DEF Sound
<1>4. /\ ~ q.entity.password /\ Kept(i, q.entity.version)
      /\ Stored(i) /\ account[i].email = q.entity.email
  BY <1>1, <1>2, <1>3, AccountMarks DEF Lawful, Copies, Holding
<1>5. account' = [account EXCEPT ![i] = row]
  BY <1>r, <1>4 DEF BumpVersion
<1>6. requests' = [requests EXCEPT ![s] = p]
  BY <1>1, <1>p, GoIs
<1>7. /\ row \in Account /\ row.version = q.entity.version + 1
      /\ row.email = account[i].email /\ row.password = account[i].password
  BY <1>r, <1>2, <1>4, RowParts DEF Account
<1>8. account'[i] = row /\ \A j \in Users \ {i} : account'[j] = account[j]
  BY <1>2, <1>5 DEF ATyped, AccountsTypeOK
<1>9. Stored(i)' /\ account'[i] # Fresh /\ account[i] # Gone /\ (Pending(i)' <=> Pending(i))
  BY <1>4, <1>7, <1>8, StoredNow DEF Stored, Pending
<1>10. Others(i)
  BY <1>1, <1>8 DEF Others, unsent
<1>11. p \in Request /\ p.at = "mail" /\ p.op = q.op /\ p.id = i /\ p.entity = q.entity /\ p.new = q.new
  BY <1>p, <1>2 DEF Request
<1>12. Lawful(p)'
  <2>1. Kept(i, q.entity.version)'
    BY <1>1, <1>4 DEF Kept, unsent
  <2>2. Copies(p)'
    BY <1>2, <1>4, <1>7, <1>8, <1>9, <1>11, <2>1 DEF Copies, Holding, Raised
  <2>. QED
    BY <1>2, <1>11, <2>2 DEF Lawful, Members, Spare
<1>13. \A n \in links[i] : MayBe(p, i, n)' => MayBe(q, i, n)
  <2> TAKE n \in links[i]
  <2>1. n <= q.entity.version /\ n \in Nat
    BY <1>2, <1>4, Numbers DEF Kept
  <2>2. n # row.version
    BY <1>2, <1>7, <2>1
  <2>. QED
    BY <1>1, <1>8, <1>11, <2>2 DEF MayBe, Holding
<1>14. Raised(p) /\ p # None
  BY <1>11, AccountMarks DEF Raised
<1>15. \A j \in Users \ {i} : Stored(j) => account'[i].email # account[j].email
  BY <1>2, <1>4, <1>7, <1>8 DEF Sound, Addresses
<1>16. Sound(p)'
  BY <1>1, <1>2, <1>9, <1>10, <1>11, <1>12, <1>13, <1>14, <1>15, SoundWrite DEF unsent, Active
<1>17. Pending(i) /\ Stored(i)' => ~ account'[i].password
  BY <1>7, <1>8 DEF Pending
<1>18. StepRules /\ AdminRule(q, p)
  BY <1>1, <1>2, <1>9, <1>10, <1>17, RulesWrite DEF ActiveAdmin, Active
<1>. QED
  BY <1>6, <1>16, <1>18 DEF Goes

LEMMA UndoInviteSound ==
  ASSUME ATyped, NEW s \in Slots, Sound(requests[s]), UndoInvite(s)
  PROVE  \E p : Goes(s, p)
<1> PICK q : q = requests[s]
  OBVIOUS
<1> PICK i : i = q.id
  OBVIOUS
<1>1. q # None /\ q.at = "undo" /\ q.op = "invite" /\ unsent
      /\ requests' = [requests EXCEPT ![s] = None]
  BY DEF UndoInvite, At, End
<1>2. /\ q \in Request /\ Formed(q) /\ i \in Users /\ q.entity \in Account
  BY <1>1, SlotParts DEF Formed
<1>3. Lawful(q) /\ Addresses
  BY <1>1 DEF Sound
<1>4. /\ ~ q.entity.password /\ Kept(i, q.entity.version)
      /\ Stored(i) /\ account[i].email = q.entity.email
  BY <1>1, <1>2, <1>3, AccountMarks DEF Lawful, Copies, Holding, Raised
<1>5. account[i] # Gone /\ account[i] # Fresh
  BY <1>4 DEF Stored
<1>6. CASE /\ q.new
           /\ account' = [account EXCEPT ![i] = IF Stored(i) THEN Gone ELSE @]
           /\ member' = [member EXCEPT ![i] = None]
  <2>1. /\ account'[i] = Gone /\ \A j \in Users \ {i} : account'[j] = account[j]
        /\ member'[i] = None /\ \A j \in Users \ {i} : member'[j] = member[j]
    BY <1>2, <1>4, <1>6 DEF ATyped, AccountsTypeOK
  <2>2. Others(i)
    BY <1>1, <2>1 DEF Others, unsent
  <2>3. ~ Stored(i)' /\ ~ Pending(i)' /\ account'[i] # Fresh
    BY <2>1, MarksDiffer DEF Stored, Pending
  <2>4. \A n : ~ MayBe(None, i, n)'
    BY <2>3 DEF MayBe
  <2>5. Sound(None)'
    BY <1>1, <1>2, <2>1, <2>2, <2>3, <2>4, SoundWrite DEF unsent
  <2>6. StepRules /\ AdminRule(q, None)
    BY <1>1, <1>2, <1>5, <1>6, <2>2, <2>3, RulesWrite
  <2>. QED
    BY <1>1, <2>5, <2>6 DEF Goes
<1>7. CASE /\ account' = [account EXCEPT ![i] = IF Saveable(i, q.entity) THEN q.entity ELSE @]
           /\ UNCHANGED member
  <2>1. Saveable(i, q.entity) /\ \A j \in Users \ {i} : Stored(j) => q.entity.email # account[j].email
    BY <1>2, <1>3, <1>4, OwnAddress
  <2>2. account'[i] = q.entity /\ \A j \in Users \ {i} : account'[j] = account[j]
    BY <1>2, <1>7, <2>1 DEF ATyped, AccountsTypeOK
  <2>3. Others(i)
    BY <1>1, <1>7, <2>2 DEF Others, unsent
  <2>4. Stored(i)' /\ account'[i] # Fresh /\ Pending(i)'
    BY <1>2, <1>4, <2>2, StoredNow
  <2>5. Kept(i, account[i].version)'
    BY <1>1, <1>4, <2>2 DEF Kept, unsent
  <2>6. \A n : MayBe(None, i, n)' => MayBe(q, i, n)
    BY <1>1, <2>2 DEF MayBe, Holding
  <2>7. Sound(None)'
    BY <1>1, <1>2, <1>7, <2>1, <2>2, <2>3, <2>4, <2>5, <2>6, SoundWrite DEF unsent, Active
  <2>8. ~ account'[i].password
    BY <1>4, <2>2
  <2>9. StepRules /\ AdminRule(q, None)
    BY <1>1, <1>2, <1>5, <1>7, <2>3, <2>8, RulesWrite DEF ActiveAdmin, Active
  <2>. QED
    BY <1>1, <2>7, <2>9 DEF Goes
<1>. QED
  BY <1>6, <1>7 DEF UndoInvite

LEMMA UndoResendSound ==
  ASSUME ATyped, NEW s \in Slots, Sound(requests[s]), UndoResend(s)
  PROVE  \E p : Goes(s, p)
<1> PICK q : q = requests[s]
  OBVIOUS
<1> PICK i : i = q.id
  OBVIOUS
<1>r. PICK row : row = [account[i] EXCEPT !.version = q.entity.version]
  OBVIOUS
<1>1. q # None /\ q.at = "undo" /\ unsent /\ UNCHANGED member
      /\ requests' = [requests EXCEPT ![s] = None]
  BY DEF UndoResend, At, End
<1>2. /\ q \in Request /\ Formed(q) /\ i \in Users /\ q.entity \in Account
      /\ q.entity.version \in Nat
  BY <1>1, SlotParts, AccountWith DEF Formed
<1>3. Lawful(q) /\ Addresses
  BY <1>1 DEF Sound
<1>4. /\ Kept(i, q.entity.version) /\ Stored(i)
      /\ account[i].version = q.entity.version + 1
  BY <1>1, <1>3 DEF Lawful, Copies, Holding, Raised
<1>5. account' = [account EXCEPT ![i] = row]
  BY <1>r, <1>4 DEF UndoResend
<1>6. /\ row \in Account /\ row.version = q.entity.version
      /\ row.email = account[i].email /\ row.password = account[i].password
  BY <1>r, <1>2, <1>4, RowParts DEF Account
<1>7. account'[i] = row /\ \A j \in Users \ {i} : account'[j] = account[j]
  BY <1>2, <1>5 DEF ATyped, AccountsTypeOK
<1>8. Stored(i)' /\ account'[i] # Fresh /\ account[i] # Gone /\ (Pending(i)' <=> Pending(i))
  BY <1>4, <1>6, <1>7, StoredNow DEF Stored, Pending
<1>9. Others(i)
  BY <1>1, <1>7 DEF Others, unsent
<1>10. Kept(i, account[i].version)'
  BY <1>1, <1>4, <1>6, <1>7 DEF Kept, unsent
<1>11. \A n : MayBe(None, i, n)' => MayBe(q, i, n)
  BY <1>1, <1>6, <1>7 DEF MayBe, Holding
<1>12. \A j \in Users \ {i} : Stored(j) => account'[i].email # account[j].email
  BY <1>2, <1>3, <1>4, <1>6, <1>7 DEF Addresses
<1>13. Sound(None)'
  BY <1>1, <1>2, <1>8, <1>9, <1>10, <1>11, <1>12, SoundWrite DEF unsent, Active
<1>14. Pending(i) /\ Stored(i)' => ~ account'[i].password
  BY <1>6, <1>7 DEF Pending
<1>15. StepRules /\ AdminRule(q, None)
  BY <1>1, <1>2, <1>8, <1>9, <1>14, RulesWrite DEF ActiveAdmin, Active
<1>. QED
  BY <1>1, <1>13, <1>15 DEF Goes

LEMMA DisableSound ==
  ASSUME ATyped, NEW s \in Slots, Sound(requests[s]), DisableMembership(s)
  PROVE  \E p : Goes(s, p)
<1> PICK q : q = requests[s]
  OBVIOUS
<1> PICK i : i = q.id
  OBVIOUS
<1>1. q # None /\ q.at = "disable" /\ UNCHANGED <<links, visits>> /\ End(s)
  BY DEF DisableMembership, At
<1>2. i \in Users /\ ~ Raised(q)
  BY <1>1, SlotParts DEF Raised
<1>3. Lawful(q) /\ Addresses /\ Marks
  BY <1>1 DEF Sound
<1>4. CASE member[i] = None
  <2>1. waiting
    BY <1>1, <1>4 DEF DisableMembership, waiting, unsent
  <2>. QED
    BY <1>1, <1>2, <2>1, SoundEnd
<1>5. CASE member[i] # None
  <2> DEFINE row == [account[i] EXCEPT !.version = account[i].version + 1]
  <2>1. /\ member' = [member EXCEPT ![i] = [member[i] EXCEPT !.active = FALSE]]
        /\ account' = IF Pending(i) THEN [account EXCEPT ![i] = row] ELSE account
        /\ newest' = [newest EXCEPT ![i] = None]
        /\ revoked' = [revoked EXCEPT ![i] = revoked[i] \union links[i]]
    BY <1>5 DEF DisableMembership
  <2>2. Stored(i) /\ account[i] \in Account
    BY <1>2, <1>3, <1>5, RowParts DEF Marks
  <2>3. /\ row \in Account /\ row.version = account[i].version + 1 /\ account[i].version \in Nat
        /\ row.email = account[i].email /\ row.password = account[i].password
    BY <2>2 DEF Account
  <2> HIDE DEF row
  <2>4. /\ newest'[i] = None /\ revoked'[i] = revoked[i] \union links[i] /\ links'[i] = links[i]
        /\ \A j \in Users \ {i} : newest'[j] = newest[j] /\ revoked'[j] = revoked[j]
    BY <1>1, <1>2, <2>1 DEF ATyped, AccountsTypeOK
  <2>5. /\ account'[i] = IF Pending(i) THEN row ELSE account[i]
        /\ \A j \in Users \ {i} : account'[j] = account[j]
        /\ \A j \in Users \ {i} : member'[j] = member[j]
    BY <1>2, <2>1 DEF ATyped, AccountsTypeOK
  <2>6. Others(i)
    BY <1>1, <2>4, <2>5 DEF Others
  <2>7. Stored(i)' /\ account'[i] # Fresh /\ account[i] # Gone /\ (Pending(i)' <=> Pending(i))
    <3>1. account'[i] \in Account /\ account'[i].password = account[i].password
      BY <2>2, <2>3, <2>5
    <3>. QED
      BY <2>2, <3>1, StoredNow DEF Stored, Pending
  <2>8. ASSUME Pending(i)
        PROVE  /\ \A n \in links[i] : n \in Nat /\ n < account'[i].version
               /\ Kept(i, account[i].version)'
    <3>1. Kept(i, account[i].version)
      BY <1>1, <1>2, <2>8 DEF Sound, LinksWith
    <3>2. \A n \in links[i] : n \in Nat /\ n <= account[i].version
      BY <1>2, <3>1, Numbers DEF Kept
    <3>3. \A n \in revoked[i] : n \in Nat /\ n < account[i].version
      BY <1>2, <3>1, Numbers DEF Kept
    <3>4. account'[i].version = account[i].version + 1 /\ account[i].version \in Nat
      BY <2>3, <2>5, <2>8
    <3>5. \A n \in links[i] : n \in Nat /\ n < account'[i].version
      BY <3>2, <3>4
    <3>6. \A n \in revoked[i] : n < account'[i].version
      BY <3>3, <3>4
    <3>7. \A n \in links[i] : n <= account'[i].version
      BY <3>2, <3>4
    <3>. QED
      BY <2>4, <3>5, <3>6, <3>7 DEF Kept
  <2>9. \A n \in links[i] : ~ MayBe(None, i, n)'
    BY <2>7, <2>8 DEF MayBe
  <2>10. account'[i].email = account[i].email
    BY <2>3, <2>5
  <2>11. \A j \in Users \ {i} : Stored(j) => account'[i].email # account[j].email
    BY <1>2, <1>3, <2>2, <2>10 DEF Addresses
  <2>12. Sound(None)'
    BY <1>1, <1>2, <2>4, <2>6, <2>7, <2>8, <2>9, <2>11, SoundWrite
  <2>13. Pending(i) /\ Stored(i)' => ~ account'[i].password
    BY <2>7 DEF Pending
  <2>14. ActiveAdmin(member[i]) => Admins \ {i} # {}
    BY <1>1, <1>3 DEF Lawful, Spare
  <2>15. StepRules /\ AdminRule(q, None)
    BY <1>1, <1>2, <2>6, <2>7, <2>13, <2>14, RulesWrite
  <2>. QED
    BY <1>1, <2>12, <2>15 DEF Goes, End
<1>. QED
  BY <1>4, <1>5

LEMMA DeleteSound ==
  ASSUME ATyped, NEW s \in Slots, Sound(requests[s]), DeleteAccount(s)
  PROVE  \E p : Goes(s, p)
<1> PICK q : q = requests[s]
  OBVIOUS
<1> PICK i : i = q.id
  OBVIOUS
<1>1. /\ q # None /\ q.at = "delete" /\ unsent /\ requests' = [requests EXCEPT ![s] = None]
      /\ account' = IF Stored(i) THEN [account EXCEPT ![i] = Gone] ELSE account
      /\ member' = [member EXCEPT ![i] = None]
  BY DEF DeleteAccount, At, End
<1>2. i \in Users
  BY <1>1, SlotParts
<1>3. Lawful(q)
  BY <1>1 DEF Sound
<1>4. /\ account'[i] = IF Stored(i) THEN Gone ELSE account[i]
      /\ member'[i] = None
      /\ \A j \in Users \ {i} : account'[j] = account[j] /\ member'[j] = member[j]
  BY <1>1, <1>2 DEF ATyped, AccountsTypeOK
<1>5. Others(i)
  BY <1>1, <1>4 DEF Others, unsent
<1>6. ~ Stored(i)' /\ ~ Pending(i)' /\ (account'[i] # Fresh \/ account[i] = Fresh)
  BY <1>4, MarksDiffer DEF Stored, Pending
<1>7. \A n : ~ MayBe(None, i, n)'
  BY <1>6 DEF MayBe
<1>8. Sound(None)'
  BY <1>1, <1>2, <1>4, <1>5, <1>6, <1>7, SoundWrite DEF unsent
<1>9. ActiveAdmin(member[i]) => Admins \ {i} # {}
  BY <1>1, <1>3 DEF Lawful, Spare
<1>10. account[i] = Gone => account'[i] = Gone /\ member'[i] = None
  BY <1>4
<1>11. StepRules /\ AdminRule(q, None)
  BY <1>1, <1>2, <1>5, <1>6, <1>9, <1>10, RulesWrite
<1>. QED
  BY <1>1, <1>8, <1>11 DEF Goes

-----------------------------------------------------------------------------
(* The people with an invitation. *)

LEMMA OpenedSound ==
  ASSUME ATyped, NEW q, Sound(q), NEW v \in Visitors,
         (\E i \in Users, n \in 0..MaxVersion : OpenLink(v, i, n)) \/ HasAccess(v)
  PROVE  Sound(q)' /\ StepRules /\ UNCHANGED member
<1>1. UNCHANGED <<account, member, requests, links, newest, revoked>>
  BY DEF OpenLink, HasAccess
<1>2. Addresses' /\ Marks' /\ LinksWith(q)'
  BY <1>1 DEF Sound, Addresses, Marks, LinksWith, Kept, Pending, Stored
<1>3. q # None => Lawful(q)'
  BY <1>1 DEF Sound, Lawful, Copies, Members, Spare, Holders, Kept, Pending, Stored,
              Active, ActiveAdmin, Admins
<1>4. OpenedWith(q)'
  <2> SUFFICES ASSUME NEW w \in Visitors, visits'[w] # None
               PROVE  /\ visits'[w].version \in links[visits'[w].id]
                      /\ visits'[w].at = "write" /\ MayBe(q, visits'[w].id, visits'[w].version)
                           => Active(member[visits'[w].id])
    BY <1>1 DEF OpenedWith, MayBe, Pending, Stored, Active
  <2>1. visits[w] # None =>
          /\ visits[w].version \in links[visits[w].id]
          /\ visits[w].at = "write" /\ MayBe(q, visits[w].id, visits[w].version)
               => Active(member[visits[w].id])
    BY DEF Sound, OpenedWith
  <2>2. \A u \in Visitors \ {v} : visits'[u] = visits[u]
    BY DEF OpenLink, HasAccess, ATyped, AccountsTypeOK
  <2>3. CASE w # v
    BY <2>1, <2>2, <2>3
  <2>4. CASE w = v /\ \E i \in Users, n \in 0..MaxVersion : OpenLink(v, i, n)
    <3>1. PICK i \in Users, n \in 0..MaxVersion : OpenLink(v, i, n)
      BY <2>4
    <3>2. visits'[w] = [at |-> "count", id |-> i, version |-> n]
      BY <2>4, <3>1 DEF OpenLink, ATyped, AccountsTypeOK
    <3>3. n \in links[i]
      BY <3>1 DEF OpenLink
    <3>. QED
      BY <3>2, <3>3
  <2>5. CASE w = v /\ HasAccess(v)
    <3>1. /\ visits[v] # None
          /\ visits'[w] = IF Active(member[visits[v].id])
                          THEN [visits[v] EXCEPT !.at = "write"] ELSE None
      BY <2>5 DEF HasAccess, ATyped, AccountsTypeOK
    <3>2. visits[v] \in Visit
      BY <3>1 DEF ATyped, AccountsTypeOK
    <3>3. visits'[w].id = visits[v].id /\ visits'[w].version = visits[v].version
          /\ Active(member[visits[v].id])
      BY <3>1, <3>2 DEF Visit
    <3>. QED
      BY <2>1, <2>5, <3>1, <3>3
  <2>. QED
    BY <2>3, <2>4, <2>5
<1>5. StepRules
  BY <1>1 DEF Sound, Marks, StepRules, Pending, Stored
<1>. QED
  BY <1>1, <1>2, <1>3, <1>4, <1>5 DEF Sound

(* What acceptInvite leaves of account j when it activates account i. *)
Spared(j, i, n) ==
  /\ account'[j] \in {Fresh, Gone} <=> account[j] \in {Fresh, Gone}
  /\ account[j] \in {Fresh, Gone} => account'[j] = account[j]
  /\ Stored(j) => account'[j].email = account[j].email /\ account'[j].version = account[j].version
  /\ Pending(j)' => Pending(j) /\ account'[j] = account[j]
  /\ links[j] = {} => account'[j] = account[j]
  /\ Pending(j) /\ Stored(j)' /\ account'[j].password => j = i /\ account[i].version = n

LEMMA AcceptSound ==
  ASSUME ATyped, NEW q, Sound(q), NEW v \in Visitors, Accept(v),
         q # None => q.id \in Users /\ q.entity \in Account \union {None} /\ Formed(q)
  PROVE  Sound(q)' /\ StepRules /\ UNCHANGED member
<1> PICK i : i = visits[v].id
  OBVIOUS
<1>1. /\ visits[v] # None /\ visits[v].at = "write"
      /\ visits' = [visits EXCEPT ![v] = None]
      /\ UNCHANGED <<member, requests, links, newest, revoked>>
  BY DEF Accept
<1>2. i \in Users
  BY <1>1 DEF ATyped, AccountsTypeOK, Visit
<1>3. visits[v].version \in links[i]
  BY <1>1 DEF Sound, OpenedWith
<1>4. \A j \in Users : Spared(j, i, visits[v].version)
  <2> SUFFICES ASSUME NEW j \in Users PROVE Spared(j, i, visits[v].version)
    OBVIOUS
  <2>1. CASE Pending(i) /\ account[i].version = visits[v].version
    <3> DEFINE row == [account[i] EXCEPT !.password = TRUE]
    <3>1. account[i] \in Account
      BY <1>2, <2>1, RowParts DEF Pending
    <3>2. /\ row \in Account /\ row.password /\ row.email = account[i].email
          /\ row.version = account[i].version
      BY <3>1 DEF Account
    <3>3. account' = [account EXCEPT ![i] = row]
      BY <2>1 DEF Accept
    <3> HIDE DEF row
    <3>4. account'[i] = row /\ \A k \in Users \ {i} : account'[k] = account[k]
      BY <1>2, <3>3 DEF ATyped, AccountsTypeOK
    <3>5. ~ Pending(i)' /\ account'[i] \notin {Fresh, Gone} /\ account[i] \notin {Fresh, Gone}
      BY <3>1, <3>2, <3>4, AccountMarks DEF Pending
    <3>6. CASE j = i
      BY <1>3, <2>1, <3>2, <3>4, <3>5, <3>6 DEF Spared
    <3>7. CASE j # i
      BY <3>4, <3>7 DEF Spared, Pending, Stored
    <3>. QED
      BY <3>6, <3>7
  <2>2. CASE ~ (Pending(i) /\ account[i].version = visits[v].version)
    <3>1. account' = account
      BY <2>2 DEF Accept
    <3>. QED
      BY <3>1 DEF Spared, Pending, Stored
  <2>. QED
    BY <2>1, <2>2
<1>5. \A j \in Users : /\ Stored(j)' <=> Stored(j)
                       /\ account'[j] = Fresh <=> account[j] = Fresh
  BY <1>4, MarksDiffer DEF Spared, Stored
<1>6. Addresses' /\ Marks'
  BY <1>1, <1>4, <1>5 DEF Spared, Sound, Addresses, Marks
<1>7. LinksWith(q)'
  BY <1>1, <1>4 DEF Spared, Sound, LinksWith, Kept
<1>8. q # None => Lawful(q)'
  <2> SUFFICES ASSUME q # None PROVE Lawful(q)'
    OBVIOUS
  <2>1. Lawful(q) /\ q.id \in Users
    BY DEF Sound
  <2>2. Holders(q.entity.email)' = Holders(q.entity.email)
    BY <1>4, <1>5 DEF Spared, Holders
  <2>3. Members(q)' /\ Spare(q)'
    BY <1>1, <2>1 DEF Lawful, Members, Spare, Active, ActiveAdmin, Admins
  <2>4. Kept(q.id, q.entity.version) => Kept(q.id, q.entity.version)'
    BY <1>1 DEF Kept
  <2>5. Copies(q)'
    BY <1>1, <1>4, <1>5, <2>1, <2>2, <2>4 DEF Spared, Lawful, Copies
  <2>. QED
    BY <2>3, <2>5 DEF Lawful
<1>9. \A j \in Users : \A n : MayBe(q, j, n)' => MayBe(q, j, n)
  BY <1>4 DEF Spared, MayBe
<1>10. OpenedWith(q)'
  <2> SUFFICES ASSUME NEW w \in Visitors, NEW x, x = visits'[w], x # None
               PROVE  /\ x.version \in links'[x.id]
                      /\ x.at = "write" /\ MayBe(q, x.id, x.version)' => Active(member[x.id])'
    BY DEF OpenedWith, MayBe, Pending, Stored, Active
  <2>1. x = visits[w]
    BY <1>1 DEF ATyped, AccountsTypeOK
  <2>2. x.id \in Users
    BY <2>1 DEF ATyped, AccountsTypeOK, Visit
  <2>3. /\ x.version \in links[x.id]
        /\ x.at = "write" /\ MayBe(q, x.id, x.version) => Active(member[x.id])
    BY <2>1 DEF Sound, OpenedWith
  <2>4. Active(member[x.id])' <=> Active(member[x.id])
    BY <1>1 DEF Active
  <2>. QED
    BY <1>1, <1>9, <2>2, <2>3, <2>4
<1>11. StepRules
  <2>1. \A j \in Users : account[j] = Gone => account'[j] = Gone /\ member'[j] = None
    BY <1>1, <1>4 DEF Spared, Sound, Marks, Stored
  <2>2. \A j \in Users : Pending(j) /\ Stored(j)' /\ account'[j].password => Active(member[j])
    BY <1>1, <1>4 DEF Spared, Sound, OpenedWith, MayBe
  <2>. QED
    BY <2>1, <2>2 DEF StepRules
<1>. QED
  BY <1>1, <1>6, <1>7, <1>8, <1>10, <1>11 DEF Sound

-----------------------------------------------------------------------------
(* All steps together. *)

LEMMA InitSound ==
  ASSUME AccountsInit
  PROVE  AInv
<1>1. /\ \A s \in Slots : requests[s] = None
      /\ \A i \in Users : links[i] = {} /\ revoked[i] = {} /\ newest[i] = None
      /\ \A v \in Visitors : visits[v] = None
  BY DEF AccountsInit
<1> DEFINE There == {FirstAdmin} \union Invited
<1>2. PICK e \in Injection(There, Emails) :
         account = [i \in Users |->
           IF i \notin There THEN Fresh
           ELSE [email |-> e[i], role |-> IF i = FirstAdmin THEN "org_admin" ELSE "user",
                 password |-> i = FirstAdmin, version |-> 0]]
  BY DEF AccountsInit
<1>3. \A i, j \in There : e[i] = e[j] => i = j
  BY <1>2 DEF Injection, IsInjective
<1>4. \A i \in Users : /\ i \notin There => ~ Stored(i)
                       /\ i \in There => account[i].email = e[i]
  BY <1>2 DEF Stored
<1>5. Addresses
  BY <1>3, <1>4 DEF Addresses
<1>6. ATyped
  BY InitTyped
<1>7. \A i \in There : account[i] \notin {Fresh, Gone}
  <2> TAKE i \in There
  <2>1. i \in Users
    BY AccountConstants
  <2>2. account[i] \in Account
    <3>1. account[i] = [email |-> e[i], role |-> IF i = FirstAdmin THEN "org_admin" ELSE "user",
                        password |-> i = FirstAdmin, version |-> 0]
      BY <1>2, <2>1
    <3>2. e[i] \in Emails
      BY <1>2 DEF Injection
    <3>3. (IF i = FirstAdmin THEN "org_admin" ELSE "user") \in Role /\ (i = FirstAdmin) \in BOOLEAN
      BY DEF Role
    <3>. QED
      BY <3>1, <3>2, <3>3 DEF Account
  <2>. QED
    BY <2>2, AccountMarks
<1>8. Marks
  <2>1. \A i \in Users : member[i] # None => i \in There
    BY DEF AccountsInit
  <2>. QED
    BY <1>1, <1>7, <2>1 DEF Marks, Stored
<1>9. \A q : LinksWith(q) /\ OpenedWith(q)
  BY <1>1 DEF LinksWith, OpenedWith, Kept
<1>. QED
  BY <1>1, <1>5, <1>6, <1>8, <1>9 DEF AInv, Sound

LEMMA AdministerSound ==
  ASSUME ATyped, NEW s \in Slots, Sound(requests[s]), Administer(s)
  PROVE  \E p : Goes(s, p)
<1>1. CASE \E e \in Emails, role \in Role :
             BeginInvite(s, e, role) \/ BeginCreate(s, e, role) \/ BeginLocal(s, e, role)
  BY <1>1, InviteBeginSound, CreateBeginSound
<1>2. CASE \E i \in Users : \/ \E scoped \in BOOLEAN : BeginResend(s, i, scoped)
                            \/ \E role \in Role \union {None} : BeginChange(s, i, role)
                            \/ BeginRemove(s, i) \/ BeginDelete(s, i)
  BY <1>2, OtherBeginSound
<1>3. CASE SaveInvited(s) \/ InsertAccount(s) \/ SetPassword(s)
  BY <1>3, SaveInvitedSound, InsertAccountSound, SetPasswordSound
<1>4. CASE FindMember(s) \/ FindPending(s) \/ ReadMember(s) \/ CountAdmins(s)
  BY <1>4, FindMemberSound, FindPendingSound, ReadMemberSound, CountAdminsSound
<1>5. CASE InsertMember(s) \/ Reactivate(s) \/ StoreMember(s)
  BY <1>5, InsertMemberSound, ReactivateSound, StoreMemberSound
<1>6. CASE SendInvite(s) \/ BumpVersion(s)
  BY <1>6, SendInviteSound, BumpVersionSound
<1>7. CASE UndoInvite(s) \/ UndoResend(s)
  BY <1>7, UndoInviteSound, UndoResendSound
<1>8. CASE DisableMembership(s) \/ DeleteAccount(s)
  BY <1>8, DisableSound, DeleteSound
<1>. QED
  BY <1>1, <1>2, <1>3, <1>4, <1>5, <1>6, <1>7, <1>8 DEF Administer

LastAdminRule ==
  Admins # {} /\ Admins' = {} =>
    \E s \in Busy : /\ requests'[s] = None
                    /\ requests[s].new \/ requests[s].op \in {"create", "local"}

LEMMA NextSound ==
  ASSUME OneRequest, AInv, AccountsNext
  PROVE  AInv' /\ StepRules /\ LastAdminRule
<1>1. PICK s : Slots = {s}
  BY DEF OneRequest
<1> PICK q : q = requests[s]
  OBVIOUS
<1>2. ATyped /\ ATyped' /\ Sound(q)
  BY <1>1, NextTyped DEF AInv
<1>3. CASE \E t \in Slots : Administer(t)
  <2>1. s \in Slots /\ Administer(s)
    BY <1>1, <1>3
  <2>2. PICK p : Goes(s, p)
    BY <1>2, <2>1, AdministerSound
  <2>3. requests'[s] = p
    BY <2>1, <2>2 DEF Goes, ATyped, AccountsTypeOK, AInv
  <2>4. AInv'
    BY <1>1, <1>2, <2>2, <2>3 DEF Goes, AInv
  <2>5. LastAdminRule
    BY <2>1, <2>2, <2>3 DEF Goes, AdminRule, LastAdminRule, Busy
  <2>. QED
    BY <2>2, <2>4, <2>5 DEF Goes
<1>4. CASE \E v \in Visitors : \/ \E i \in Users, n \in 0..MaxVersion : OpenLink(v, i, n)
                               \/ HasAccess(v) \/ Accept(v)
  <2>1. PICK v \in Visitors : \/ \E i \in Users, n \in 0..MaxVersion : OpenLink(v, i, n)
                              \/ HasAccess(v) \/ Accept(v)
    BY <1>4
  <2>2. q # None => q.id \in Users /\ q.entity \in Account \union {None} /\ Formed(q)
    BY <1>1, <1>2, SlotParts
  <2>3. Sound(q)' /\ StepRules /\ UNCHANGED member
    BY <1>2, <2>1, <2>2, OpenedSound, AcceptSound
  <2>4. requests' = requests
    BY <2>1 DEF OpenLink, HasAccess, Accept
  <2>5. AInv'
    BY <1>1, <1>2, <2>3, <2>4 DEF AInv
  <2>6. LastAdminRule
    BY <2>3 DEF LastAdminRule, Admins, ActiveAdmin, Active
  <2>. QED
    BY <2>3, <2>5, <2>6
<1>. QED
  BY <1>3, <1>4 DEF AccountsNext

LEMMA StutterSound ==
  ASSUME OneRequest, AInv, UNCHANGED accountVars
  PROVE  AInv' /\ StepRules /\ LastAdminRule
<1>1. ATyped'
  BY StutterTyped DEF AInv
<1>2. waiting /\ UNCHANGED requests
  BY DEF accountVars, waiting, unsent
<1>3. \A s \in Slots : Sound(requests[s])'
  <2> TAKE s \in Slots
  <2> PICK q : q = requests[s]
    OBVIOUS
  <2>1. Sound(q)'
    BY <1>2, SoundStay DEF AInv
  <2>. QED
    BY <1>2, <2>1
<1>4. StepRules
  <2>1. Marks
    BY DEF OneRequest, AInv, Sound
  <2>. QED
    BY <1>2, <2>1 DEF waiting, unsent, StepRules, Marks, Pending, Stored
<1>. QED
  BY <1>1, <1>2, <1>3, <1>4 DEF AInv, LastAdminRule, Admins, ActiveAdmin, Active, waiting

LEMMA AInvariant ==
  ASSUME OneRequest
  PROVE  AccountsSpec => []AInv
<1>1. AInv /\ [AccountsNext]_accountVars => AInv'
  BY NextSound, StutterSound
<1>. QED
  BY InitSound, <1>1, PTL DEF AccountsSpec

(* The last invitation that reached a person opens the account until the   *)
(* access is removed, for any number of accounts, addresses and visitors:  *)
(* the compensations of inviteUser and resendInvite, when administrators'  *)
(* requests do not overlap.                                                *)
THEOREM NewestLinkOpens ==
  ASSUME OneRequest
  PROVE  AccountsSpec => []NewestLinkWorks
<1>1. AInv => NewestLinkWorks
  <2> SUFFICES ASSUME AInv, NEW i \in Users, Pending(i), newest[i] # None, ~ Inviting(i)
               PROVE  account[i].version = newest[i]
    BY DEF NewestLinkWorks
  <2>1. PICK s : Slots = {s}
    BY DEF OneRequest
  <2> PICK q : q = requests[s]
    OBVIOUS
  <2>2. Sound(q) /\ (q # None => Formed(q))
    BY <2>1, SlotParts DEF AInv
  <2>3. ~ (q # None /\ Raised(q) /\ q.id = i)
    BY <2>1, <2>2 DEF Inviting, Busy, Raised, Formed
  <2>. QED
    BY <2>2, <2>3 DEF Sound, LinksWith, Kept
<1>. QED
  BY AInvariant, <1>1, PTL

(* An invitation sent before an access was removed never becomes valid     *)
(* again: disableMembership raises the version past every link there is,   *)
(* and no compensation goes back behind it.                                *)
THEOREM RevokedStayDead ==
  ASSUME OneRequest
  PROVE  AccountsSpec => []RevokedLinksDead
<1>1. AInv => RevokedLinksDead
  <2> SUFFICES ASSUME AInv, NEW i \in Users, Pending(i)
               PROVE  account[i].version \notin revoked[i]
    BY DEF RevokedLinksDead
  <2>1. PICK s : Slots = {s}
    BY DEF OneRequest
  <2> PICK q : q = requests[s]
    OBVIOUS
  <2>2. ATyped /\ Sound(q)
    BY <2>1 DEF AInv
  <2>3. revoked[i] \subseteq Nat /\ account[i].version \in Nat
    BY <2>2, Numbers, RowParts, AccountWith DEF Pending
  <2>4. CASE Kept(i, account[i].version)
    BY <2>3, <2>4 DEF Kept
  <2>5. CASE q # None /\ Raised(q) /\ q.id = i
    <3>1. Copies(q) /\ Holding(q) /\ q.entity # None
      BY <2>1, <2>2, <2>5, SlotParts DEF Sound, Lawful, Raised, Holding, Formed
    <3>2. q.entity \in Account
      BY <2>1, <2>2, <2>5, <3>1, SlotParts
    <3>3. q.entity.version \in Nat
      BY <3>2, AccountWith
    <3>4. account[i].version = q.entity.version + 1 /\ Kept(i, q.entity.version)
      BY <2>5, <3>1 DEF Copies
    <3>. QED
      BY <2>3, <3>3, <3>4 DEF Kept
  <2>. QED
    BY <2>2, <2>4, <2>5 DEF Sound, LinksWith
<1>. QED
  BY AInvariant, <1>1, PTL

(* Only a person with an active access at that moment activates an account,*)
(* however old the check acceptInvite made: what takes the access away     *)
(* takes the version of every link with it.                                *)
THEOREM ActivationChecked ==
  ASSUME OneRequest
  PROVE  AccountsSpec => ActivationNeedsAccess
<1>1. AInv /\ [AccountsNext]_accountVars =>
        [\A i \in Users : Pending(i) /\ Stored(i)' /\ account'[i].password => Active(member[i])]_accountVars
  BY NextSound DEF StepRules
<1>. QED
  BY AInvariant, <1>1, PTL DEF AccountsSpec, ActivationNeedsAccess

(* A deleted account does not come back, and no access is stored for it.   *)
THEOREM DeletedStaysDeleted ==
  ASSUME OneRequest
  PROVE  AccountsSpec => GoneStaysGone
<1>1. AInv /\ [AccountsNext]_accountVars =>
        [\A i \in Users : account[i] = Gone => account'[i] = Gone /\ member'[i] = None]_accountVars
  BY NextSound DEF StepRules
<1>. QED
  BY AInvariant, <1>1, PTL DEF AccountsSpec, GoneStaysGone

(* An operation on an account that exists removes the last administrator   *)
(* only if it does not count them.                                         *)
THEOREM CountedKeepAdmin ==
  ASSUME OneRequest
  PROVE  AccountsSpec => CheckedKeepAdmin
<1>1. AInv /\ [AccountsNext]_accountVars =>
        [Admins # {} /\ Admins' = {} =>
           \E s \in Busy : /\ requests'[s] = None
                           /\ requests[s].new \/ requests[s].op \in {"create", "local"}]_accountVars
  BY NextSound DEF LastAdminRule
<1>. QED
  BY AInvariant, <1>1, PTL DEF AccountsSpec, CheckedKeepAdmin

-----------------------------------------------------------------------------
(* The tree of organisations: first, sequences and numbers.                *)

LEMMA LeastNumber ==
  ASSUME NEW B \in SUBSET Nat, B # {}
  PROVE  \E n \in B : \A m \in B : n <= m
<1> DEFINE R == {p \in Nat \X Nat : p[1] < p[2]}
<1>1. R = OpToRel(<, Nat)
  BY DEF OpToRel
<1>2. IsWellFoundedOn(R, Nat)
  BY <1>1, NatLessThanWellFounded
<1>3. PICK n \in B : \A m \in B : ~(<<m, n>> \in R)
  <2> HIDE DEF R
  <2>. QED
    BY <1>2, WFMin
<1>4. ASSUME NEW m \in B PROVE n <= m
  <2>1. m \in Nat /\ n \in Nat /\ <<m, n>> \in Nat \X Nat
    OBVIOUS
  <2>2. ~(<<m, n>>[1] < <<m, n>>[2])
    BY <1>3, <2>1
  <2>. QED
    BY <2>1, <2>2
<1>. QED
  BY <1>4

LEMMA PrefixIs ==
  ASSUME NEW S, NEW s \in Seq(S), NEW t \in Seq(S)
  PROVE  /\ IsPrefix(s, t) <=> Len(s) <= Len(t) /\ \A i \in 1 .. Len(s) : s[i] = t[i]
         /\ IsStrictPrefix(s, t) <=> Len(s) < Len(t) /\ \A i \in 1 .. Len(s) : s[i] = t[i]
<1> DEFINE n == Len(s)
<1>1. n \in Nat /\ Len(t) \in Nat
  OBVIOUS
<1>2. \A i \in 1 .. n : s[i] \in S
  OBVIOUS
<1>3. SubSeq(s, 1, n) = s
  BY SubSeqFull
<1>4. ASSUME n <= Len(t)
      PROVE  SubSeq(s, 1, n) = SubSeq(t, 1, n) <=> \A i \in 1 .. n : s[i] = t[i]
  <2>1. \A i \in 1 .. n : t[i] \in S
    BY <1>1, <1>4
  <2> DEFINE u == SubSeq(t, 1, n)
  <2>2. u \in Seq(S) /\ Len(u) = n /\ \A i \in 1 .. n : u[i] = t[i]
    BY <1>1, <2>1, SubSeqProperties
  <2> HIDE DEF u
  <2>3. s = u <=> \A i \in 1 .. n : s[i] = u[i]
    BY <2>2, SeqEqual
  <2>. QED
    BY <1>3, <2>2, <2>3 DEF u
<1>5. IsPrefix(s, t) <=> n <= Len(t) /\ \A i \in 1 .. n : s[i] = t[i]
  BY <1>4 DEF IsPrefix
<1>6. s = t <=> n = Len(t) /\ \A i \in 1 .. n : s[i] = t[i]
  BY SeqEqual
<1>. QED
  BY <1>1, <1>5, <1>6 DEF IsStrictPrefix

-----------------------------------------------------------------------------
(* The tree by its lines: F[o] is the line from the top down to o.         *)

Grown(tree, F) ==
  \A o \in Existing(tree) :
    /\ F[o] \in Seq(Orgs) /\ Len(F[o]) # 0 /\ F[o][Len(F[o])] = o
    /\ tree[o].parent = IF Len(F[o]) = 1 THEN None ELSE F[o][Len(F[o]) - 1]
    /\ \A k \in 1 .. Len(F[o]) :
         /\ F[o][k] \in Existing(tree)
         /\ Len(F[F[o][k]]) = k
         /\ \A j \in 1 .. k : F[F[o][k]][j] = F[o][j]

LEMMA LineIsShort ==
  ASSUME NEW tree, NEW F, Grown(tree, F), NEW o \in Existing(tree)
  PROVE  Len(F[o]) \in Nat /\ Len(F[o]) <= Cardinality(Orgs)
<1> DEFINE s == F[o]
<1>1. s \in Seq(Orgs) /\ Len(s) \in Nat /\ \A k \in 1 .. Len(s) : Len(F[s[k]]) = k
  BY DEF Grown
<1>2. s \in [1 .. Len(s) -> Orgs]
  BY <1>1, LenProperties
<1>3. \A j, k \in 1 .. Len(s) : s[j] = s[k] => j = k
  BY <1>1
<1>4. s \in Injection(1 .. Len(s), Orgs)
  BY <1>2, <1>3 DEF Injection, IsInjective
<1>5. Cardinality(1 .. Len(s)) <= Cardinality(Orgs)
  BY <1>4, OrgTreeConstants, FS_Injection
<1>6. Cardinality(1 .. Len(s)) = Len(s)
  BY <1>1, FS_Interval
<1>. QED
  BY <1>1, <1>5, <1>6

IsClimb(up, tree, o, n) ==
  up = [i \in 0 .. n |->
          IF i = 0 THEN <<o>>
          ELSE LET below == up[i - 1]  p == tree[Head(below)].parent IN
               IF p = None THEN below ELSE <<p>> \o below]

LEMMA ClimbExists ==
  ASSUME NEW tree, NEW F, Grown(tree, F), NEW o \in Existing(tree), NEW n \in Nat
  PROVE  LET W == [i \in 0 .. n |-> SubSeq(F[o], IF i < Len(F[o]) THEN Len(F[o]) - i ELSE 1, Len(F[o]))]
         IN  IsClimb(W, tree, o, n)
<1> DEFINE s == F[o]
           L == Len(s)
           start(i) == IF i < L THEN L - i ELSE 1
           W == [i \in 0 .. n |-> SubSeq(s, start(i), L)]
<1>1. s \in Seq(Orgs) /\ L \in Nat \ {0} /\ s[L] = o
  BY DEF Grown
<1>2. W[0] = <<o>>
  <2>1. SubSeq(s, L, L) = <<s[L]>> \o SubSeq(s, L + 1, L)
    BY <1>1, SubSeqRecursiveFirst
  <2>2. SubSeq(s, L + 1, L) = <<>>
    BY <1>1, SubSeqEmpty
  <2>3. <<s[L]>> \o <<>> = <<s[L]>>
    <3>1. s[L] \in Orgs
      BY <1>1
    <3>2. ASSUME NEW e \in Orgs PROVE <<e>> \o <<>> = <<e>>
      <4>1. <<e>> \in Seq(Orgs)
        OBVIOUS
      <4>. QED
        BY <4>1, ConcatEmptySeq
    <3> HIDE DEF s
    <3>. QED
      BY <3>1, <3>2
  <2>4. start(0) = L
    BY <1>1
  <2>5. W[0] = SubSeq(s, start(0), L)
    OBVIOUS
  <2> HIDE DEF W, start
  <2>. QED
    BY <1>1, <2>1, <2>2, <2>3, <2>4, <2>5
<1>3. ASSUME NEW i \in 1 .. n
      PROVE  LET p == tree[Head(W[i - 1])].parent IN
             W[i] = IF p = None THEN W[i - 1] ELSE <<p>> \o W[i - 1]
  <2> DEFINE a == start(i - 1)
             h == s[a]
             p == tree[h].parent
  <2>1. i - 1 \in 0 .. n /\ a \in 1 .. L /\ i \in 0 .. n
    BY <1>1
  <2>2. W[i - 1] = SubSeq(s, a, L) /\ W[i] = SubSeq(s, start(i), L)
    BY <2>1
  <2>3. Head(W[i - 1]) = h
    BY <1>1, <2>1, <2>2, HeadTailOfSubSeq
  <2> HIDE DEF W
  <2>4. h \in Existing(tree) /\ Len(F[h]) = a /\ (a # 1 => F[h][a - 1] = s[a - 1] /\ s[a - 1] \in Orgs)
    <3>0. \A k \in 1 .. L : s[k] \in Existing(tree) /\ Len(F[s[k]]) = k
                            /\ \A j \in 1 .. k : F[s[k]][j] = s[j]
      BY DEF Grown
    <3>1. h \in Existing(tree) /\ Len(F[h]) = a /\ \A j \in 1 .. a : F[h][j] = s[j]
      BY <2>1, <3>0
    <3>2. a # 1 => a - 1 \in 1 .. a /\ a - 1 \in 1 .. L
      BY <1>1, <2>1
    <3>3. a # 1 => s[a - 1] \in Orgs
      BY <1>1, <3>2
    <3>. QED
      BY <3>1, <3>2, <3>3
  <2>5. p = IF a = 1 THEN None ELSE s[a - 1]
    <3>1. p = IF Len(F[h]) = 1 THEN None ELSE F[h][Len(F[h]) - 1]
      BY <2>4 DEF Grown
    <3> HIDE DEF a, h, p
    <3>. QED
      BY <2>4, <3>1
  <2>6. CASE a = 1
    <3>1. start(i) = 1
      BY <1>1, <2>6
    <3>. QED
      BY <2>2, <2>3, <2>5, <2>6, <3>1
  <2>7. CASE a # 1
    <3>1. start(i) = a - 1 /\ a - 1 \in 1 .. L /\ L \in a - 1 .. L
      BY <1>1, <2>1, <2>7
    <3>2. SubSeq(s, a - 1, L) = <<s[a - 1]>> \o SubSeq(s, a, L)
      <4>1. SubSeq(s, a - 1, L) = <<s[a - 1]>> \o SubSeq(s, (a - 1) + 1, L)
        BY <1>1, <3>1, SubSeqRecursiveFirst
      <4>2. (a - 1) + 1 = a
        BY <2>1
      <4>. QED
        BY <4>1, <4>2
    <3>3. p = s[a - 1] /\ p # None
      BY <2>4, <2>5, <2>7, TreeMarks
    <3>. QED
      BY <2>2, <2>3, <3>1, <3>2, <3>3
  <2>. QED
    BY <2>6, <2>7
<1>4. \A i \in 0 .. n : W[i] = IF i = 0 THEN <<o>>
          ELSE LET below == W[i - 1]  p == tree[Head(below)].parent IN
               IF p = None THEN below ELSE <<p>> \o below
  <2> TAKE i \in 0 .. n
  <2>1. i = 0 \/ i \in 1 .. n
    OBVIOUS
  <2> HIDE DEF W
  <2>. QED
    BY <1>2, <1>3, <2>1
<1>5. W = [i \in 0 .. n |-> W[i]]
  OBVIOUS
<1> HIDE DEF W
<1>6. IsClimb(W, tree, o, n)
  BY <1>4, <1>5 DEF IsClimb
<1>. QED
  BY <1>6 DEF W

LEMMA ClimbUnique ==
  ASSUME NEW tree, NEW o, NEW n \in Nat, NEW V, NEW W,
         IsClimb(V, tree, o, n), IsClimb(W, tree, o, n)
  PROVE  V[n] = W[n]
<1> DEFINE B == {i \in 0 .. n : V[i] # W[i]}
<1> SUFFICES ASSUME B # {} PROVE FALSE
  OBVIOUS
<1>1. PICK i \in B : \A m \in B : i <= m
  <2>1. B \in SUBSET Nat
    OBVIOUS
  <2> HIDE DEF B
  <2>. QED
    BY <2>1, LeastNumber
<1>2. i \in 0 .. n /\ V[i] # W[i]
  OBVIOUS
<1>3. i # 0
  BY <1>2 DEF IsClimb
<1>4. i - 1 \in 0 .. n /\ V[i - 1] = W[i - 1]
  BY <1>1, <1>2, <1>3
<1>5. /\ V[i] = LET below == V[i - 1]  p == tree[Head(below)].parent IN
                 IF p = None THEN below ELSE <<p>> \o below
      /\ W[i] = LET below == W[i - 1]  p == tree[Head(below)].parent IN
                 IF p = None THEN below ELSE <<p>> \o below
  BY <1>2, <1>3 DEF IsClimb
<1>. QED
  BY <1>2, <1>4, <1>5

LEMMA LineageIs ==
  ASSUME NEW tree, NEW F, Grown(tree, F), NEW o \in Existing(tree)
  PROVE  Lineage(tree, o) = F[o]
<1> DEFINE n == Cardinality(Orgs)
           up == CHOOSE up : IsClimb(up, tree, o, n)
<1>1. n \in Nat
  BY OrgTreeConstants, FS_CardinalityType
<1>2. PICK W : /\ IsClimb(W, tree, o, n)
               /\ W[n] = SubSeq(F[o], IF n < Len(F[o]) THEN Len(F[o]) - n ELSE 1, Len(F[o]))
  <2> DEFINE w == [i \in 0 .. n |-> SubSeq(F[o], IF i < Len(F[o]) THEN Len(F[o]) - i ELSE 1, Len(F[o]))]
  <2>1. IsClimb(w, tree, o, n)
    BY <1>1, ClimbExists
  <2>. QED
    BY <1>1, <2>1
<1>3. W[n] = F[o]
  <2>1. F[o] \in Seq(Orgs) /\ ~(n < Len(F[o]))
    BY <1>1, LineIsShort DEF Grown
  <2>. QED
    BY <1>2, <2>1, SubSeqFull
<1>4. IsClimb(up, tree, o, n)
  BY <1>2
<1>5. Lineage(tree, o) = up[n]
  BY DEF Lineage, IsClimb
<1>. QED
  BY <1>1, <1>2, <1>3, <1>4, <1>5, ClimbUnique

-----------------------------------------------------------------------------
(* What an organisation sees, item by item: x comes from the j-th of its   *)
(* line, and every rule below lets it pass.                                *)

(* The rules of the tree, as far as a line goes. *)
Ruled(tree, line) ==
  /\ line \in Seq(Orgs)
  /\ \A k \in 1 .. Len(line) : /\ tree[line[k]].rules \in Setting \union {None}
                               /\ tree[line[k]].defaults \in Setting \union {None}

LEMMA LastOf ==
  ASSUME NEW n \in Nat, NEW I \in SUBSET (1 .. n), I # {}
  PROVE  Max(I) \in I
<1> DEFINE B == {n - j : j \in I}
<1>1. B \in SUBSET Nat /\ B # {}
  <2>1. \A j \in I : j \in 1 .. n /\ n - j \in Nat
    OBVIOUS
  <2>. QED
    BY <2>1
<1>2. PICK b \in B : \A m \in B : b <= m
  <2> HIDE DEF B
  <2>. QED
    BY <1>1, LeastNumber
<1>3. PICK j \in I : b = n - j
  OBVIOUS
<1>4. \A k \in I : j >= k
  <2> TAKE k \in I
  <2>1. b <= n - k
    BY <1>2
  <2>. QED
    BY <1>3, <2>1
<1>. QED
  BY <1>4 DEF Max

LEMMA RuleTyped ==
  ASSUME NEW tree, NEW line, Ruled(tree, line), NEW i \in 1 .. Len(line)
  PROVE  RuleFor(tree, line, i) \in Setting
<1> DEFINE I == {k \in 1 .. i - 1 : tree[line[k]].defaults # None}
           above == IF I # {} THEN Max(I) ELSE 0
<1>1. Len(line) \in Nat /\ i - 1 \in Nat /\ \A k \in 1 .. i - 1 : k \in 1 .. Len(line)
  BY DEF Ruled
<1>2. RuleFor(tree, line, i) =
        IF tree[line[i]].rules # None THEN tree[line[i]].rules
        ELSE IF above # 0 THEN tree[line[above]].defaults
        ELSE [all |-> FALSE, ids |-> Legacy]
  BY DEF RuleFor, SelectLastInSubSeq
<1>3. above # 0 => above \in I
  <2>1. I # {} => Max(I) \in I
    BY <1>1, LastOf
  <2>. QED
    BY <2>1
<1>4. above # 0 => tree[line[above]].defaults \in Setting
  BY <1>1, <1>3 DEF Ruled
<1>5. [all |-> FALSE, ids |-> Legacy] \in Setting
  BY OrgTreeConstants DEF Setting
<1>6. tree[line[i]].rules # None => tree[line[i]].rules \in Setting
  BY DEF Ruled
<1> HIDE DEF above
<1>. QED
  BY <1>2, <1>4, <1>5, <1>6

LEMMA RuleSame ==
  ASSUME NEW tree, NEW other, NEW line \in Seq(Orgs), NEW i \in 1 .. Len(line),
         \A k \in 1 .. Len(line) : /\ other[line[k]].rules = tree[line[k]].rules
                                   /\ other[line[k]].defaults = tree[line[k]].defaults
  PROVE  RuleFor(other, line, i) = RuleFor(tree, line, i)
<1> DEFINE I(t) == {k \in 1 .. i - 1 : t[line[k]].defaults # None}
           above(t) == IF I(t) # {} THEN Max(I(t)) ELSE 0
<1>1. Len(line) \in Nat /\ \A k \in 1 .. i - 1 : k \in 1 .. Len(line)
  OBVIOUS
<1>2. I(other) = I(tree)
  BY <1>1
<1>3. above(other) = above(tree)
  BY <1>2
<1>4. \A t : RuleFor(t, line, i) =
        IF t[line[i]].rules # None THEN t[line[i]].rules
        ELSE IF above(t) # 0 THEN t[line[above(t)]].defaults
        ELSE [all |-> FALSE, ids |-> Legacy]
  BY DEF RuleFor, SelectLastInSubSeq
<1>5. above(tree) # 0 => above(tree) \in 1 .. Len(line)
  <2>1. i - 1 \in Nat
    BY <1>1
  <2>2. I(tree) # {} => Max(I(tree)) \in I(tree)
    BY <2>1, LastOf
  <2>. QED
    BY <1>1, <2>2
<1> HIDE DEF above
<1>. QED
  BY <1>3, <1>4, <1>5

Lets(rule, x) == rule.all \/ x \in rule.ids

Shown(tree, line) ==
  [i \in 1 .. Len(line) |->
     {x \in Items : \E j \in 1 .. i : /\ x \in Own[line[j]]
                                      /\ \A k \in j + 1 .. i : Lets(RuleFor(tree, line, k), x)}]

IsSight(seen, tree, line) ==
  seen = [i \in 1 .. Len(line) |->
            LET rule == RuleFor(tree, line, i) IN
            Own[line[i]] \union IF i = 1 THEN {}
                                ELSE IF rule.all THEN seen[i - 1]
                                ELSE seen[i - 1] \intersect rule.ids]

LEMMA SightExists ==
  ASSUME NEW tree, NEW line, Ruled(tree, line)
  PROVE  IsSight(Shown(tree, line), tree, line)
<1> DEFINE n == Len(line)
           rule(i) == RuleFor(tree, line, i)
           seen == Shown(tree, line)
<1>1. n \in Nat /\ \A i \in 1 .. n : Own[line[i]] \subseteq Items /\ rule(i) \in Setting
  <2>1. \A i \in 1 .. n : line[i] \in Orgs
    BY DEF Ruled
  <2>. QED
    BY <2>1, RuleTyped, OrgTreeConstants DEF Ruled
<1>2. \A i \in 1 .. n : seen[i] =
     {x \in Items : \E j \in 1 .. i : /\ x \in Own[line[j]]
                                      /\ \A k \in j + 1 .. i : Lets(rule(k), x)}
  BY DEF Shown
<1> DEFINE body(i) == Own[line[i]] \union IF i = 1 THEN {}
                                          ELSE IF rule(i).all THEN seen[i - 1]
                                          ELSE seen[i - 1] \intersect rule(i).ids
<1>3. ASSUME NEW i \in 1 .. n PROVE seen[i] = body(i)
  <2>1. CASE i = 1
    <3>1. \A x \in Items : x \in seen[i] <=> x \in Own[line[1]]
      BY <1>2, <2>1
    <3>2. seen[i] \subseteq Items
      BY <1>2
    <3>3. body(i) = Own[line[1]]
      BY <2>1
    <3> HIDE DEF seen, body
    <3>. QED
      BY <1>1, <2>1, <3>1, <3>2, <3>3
  <2>2. CASE i # 1
    <3>1. i - 1 \in 1 .. n /\ i \in Nat
      BY <1>1, <2>2
    <3>2. \A x \in Items : x \in seen[i] <=>
            x \in Own[line[i]] \/ (x \in seen[i - 1] /\ Lets(rule(i), x))
      <4> SUFFICES ASSUME NEW x \in Items
                   PROVE  x \in seen[i] <=>
                            x \in Own[line[i]] \/ (x \in seen[i - 1] /\ Lets(rule(i), x))
        OBVIOUS
      <4> DEFINE P(k) == Lets(rule(k), x)
                 O(j) == x \in Own[line[j]]
      <4>1. x \in seen[i] <=> \E j \in 1 .. i : O(j) /\ \A k \in j + 1 .. i : P(k)
        BY <1>2
      <4>2. x \in seen[i - 1] <=> \E j \in 1 .. i - 1 : O(j) /\ \A k \in j + 1 .. i - 1 : P(k)
        BY <1>2, <3>1
      <4> HIDE DEF P, O, seen
      <4>3. ASSUME NEW j \in 1 .. i - 1
            PROVE  (\A k \in j + 1 .. i : P(k)) <=> (\A k \in j + 1 .. i - 1 : P(k)) /\ P(i)
        <5>1. \A k : k \in j + 1 .. i <=> k \in j + 1 .. i - 1 \/ k = i
          BY <3>1
        <5>. QED
          BY <5>1
      <4>4. \A j : j \in 1 .. i <=> j \in 1 .. i - 1 \/ j = i
        BY <3>1
      <4>5. \A k \in i + 1 .. i : P(k)
        BY <3>1
      <4>6. (\E j \in 1 .. i : O(j) /\ \A k \in j + 1 .. i : P(k)) <=>
              O(i) \/ (P(i) /\ \E j \in 1 .. i - 1 : O(j) /\ \A k \in j + 1 .. i - 1 : P(k))
        BY <4>3, <4>4, <4>5
      <4>7. x \in seen[i] <=> O(i) \/ (P(i) /\ x \in seen[i - 1])
        BY <4>1, <4>2, <4>6
      <4>. QED
        BY <4>7 DEF P, O
    <3>3. seen[i] \subseteq Items /\ seen[i - 1] \subseteq Items
      BY <1>2, <3>1
    <3>4. rule(i).all \in BOOLEAN /\ Own[line[i]] \subseteq Items
      BY <1>1 DEF Setting
    <3>5. body(i) = Own[line[i]] \union IF rule(i).all THEN seen[i - 1]
                                        ELSE seen[i - 1] \intersect rule(i).ids
      BY <2>2, <3>4
    <3> HIDE DEF seen, rule, body
    <3>6. CASE rule(i).all
      BY <3>2, <3>3, <3>4, <3>5, <3>6 DEF Lets
    <3>7. CASE ~ rule(i).all
      BY <3>2, <3>3, <3>4, <3>5, <3>7 DEF Lets
    <3>. QED
      BY <3>6, <3>7
  <2>. QED
    BY <2>1, <2>2
<1>4. seen = [i \in 1 .. n |-> seen[i]]
  BY DEF Shown
<1>5. seen = [i \in 1 .. n |-> body(i)]
  <2> HIDE DEF seen, body
  <2>. QED
    BY <1>3, <1>4
<1> HIDE DEF seen
<1>6. IsSight(seen, tree, line)
  BY <1>5 DEF IsSight
<1>. QED
  BY <1>6 DEF seen

LEMMA SightUnique ==
  ASSUME NEW tree, NEW line \in Seq(Orgs), NEW V, NEW W,
         IsSight(V, tree, line), IsSight(W, tree, line), NEW n \in 1 .. Len(line)
  PROVE  V[n] = W[n]
<1> DEFINE B == {i \in 1 .. Len(line) : V[i] # W[i]}
<1> SUFFICES ASSUME B # {} PROVE FALSE
  OBVIOUS
<1>1. PICK i \in B : \A m \in B : i <= m
  <2>1. B \in SUBSET Nat
    OBVIOUS
  <2> HIDE DEF B
  <2>. QED
    BY <2>1, LeastNumber
<1>2. i \in 1 .. Len(line) /\ V[i] # W[i] /\ Len(line) \in Nat
  OBVIOUS
<1>3. i = 1 \/ (i - 1 \in 1 .. Len(line) /\ V[i - 1] = W[i - 1])
  <2>1. i = 1 \/ (i - 1 \in 1 .. Len(line) /\ ~(i <= i - 1))
    BY <1>2
  <2>. QED
    BY <1>1, <2>1
<1> DEFINE rule == RuleFor(tree, line, i)
           body(s) == Own[line[i]] \union IF i = 1 THEN {}
                                          ELSE IF rule.all THEN s[i - 1]
                                          ELSE s[i - 1] \intersect rule.ids
<1>4. V[i] = body(V) /\ W[i] = body(W)
  BY <1>2 DEF IsSight
<1>5. body(V) = body(W)
  <2> HIDE DEF rule
  <2>. QED
    BY <1>3
<1>. QED
  BY <1>2, <1>4, <1>5

LEMMA VisibleIs ==
  ASSUME NEW tree, NEW F, Grown(tree, F), NEW o \in Existing(tree), Ruled(tree, F[o])
  PROVE  /\ Visible(tree, o) = Shown(tree, F[o])[Len(F[o])]
         /\ Visible(tree, o) \subseteq Items
<1> DEFINE line == F[o]
           seen == CHOOSE seen : IsSight(seen, tree, line)
<1>1. Lineage(tree, o) = line
  BY LineageIs
<1>2. line \in Seq(Orgs) /\ Len(line) \in 1 .. Len(line)
  BY DEF Grown
<1>3. IsSight(Shown(tree, line), tree, line)
  BY SightExists
<1>4. IsSight(seen, tree, line)
  BY <1>3
<1>5. Visible(tree, o) = seen[Len(line)]
  BY <1>1 DEF Visible, IsSight
<1> HIDE DEF seen
<1>6. seen[Len(line)] = Shown(tree, line)[Len(line)]
  <2> HIDE DEF line
  <2>. QED
    BY <1>2, <1>3, <1>4, SightUnique
<1>7. Shown(tree, line)[Len(line)] \subseteq Items
  BY <1>2 DEF Shown
<1>. QED
  BY <1>5, <1>6, <1>7

(* What an organisation sees depends on its line and on the rules of those *)
(* in it.                                                                  *)
LEMMA VisibleSame ==
  ASSUME NEW tree, NEW F, Grown(tree, F), NEW o, o \in Existing(tree), Ruled(tree, F[o]),
         NEW other, NEW G, Grown(other, G), o \in Existing(other), G[o] = F[o],
         \A k \in 1 .. Len(F[o]) : /\ other[F[o][k]].rules = tree[F[o][k]].rules
                                   /\ other[F[o][k]].defaults = tree[F[o][k]].defaults
  PROVE  Visible(other, o) = Visible(tree, o)
<1> DEFINE line == F[o]
<1>1. line \in Seq(Orgs) /\ Len(line) \in 1 .. Len(line)
  BY DEF Grown
<1>0. Ruled(other, line)
  BY DEF Ruled
<1>2. \A i \in 1 .. Len(line) : RuleFor(other, line, i) = RuleFor(tree, line, i)
  BY <1>1, RuleSame
<1>3. ASSUME NEW n \in 1 .. Len(line) PROVE Shown(other, line)[n] = Shown(tree, line)[n]
  <2>1. \A j \in 1 .. n : \A k \in j + 1 .. n : k \in 1 .. Len(line)
    BY <1>1
  <2> HIDE DEF line
  <2>. QED
    BY <1>2, <2>1 DEF Shown
<1>4. Visible(other, o) = Shown(other, G[o])[Len(G[o])]
  BY <1>0, VisibleIs
<1>5. Visible(tree, o) = Shown(tree, line)[Len(line)]
  BY VisibleIs
<1>. QED
  BY <1>1, <1>3, <1>4, <1>5

-----------------------------------------------------------------------------
(* How the lines follow a change of the parents.                           *)

Lines == [Orgs -> Seq(Orgs)]

LEMMA GrownSame ==
  ASSUME NEW tree, NEW F, Grown(tree, F), NEW other, Existing(other) = Existing(tree),
         \A o \in Existing(tree) : other[o].parent = tree[o].parent
  PROVE  Grown(other, F)
  BY DEF Grown

LEMMA GrownMore ==
  ASSUME NEW tree, NEW F \in Lines, Grown(tree, F),
         NEW o \in Orgs, o \notin Existing(tree), NEW p \in Existing(tree) \union {None},
         NEW line, line = IF p = None THEN <<o>> ELSE Append(F[p], o),
         NEW other, Existing(other) = Existing(tree) \union {o}, other[o].parent = p,
         \A x \in Existing(tree) : other[x].parent = tree[x].parent
  PROVE  [F EXCEPT ![o] = line] \in Lines /\ Grown(other, [F EXCEPT ![o] = line])
<1> DEFINE G == [F EXCEPT ![o] = line]
<1>0. Existing(tree) \subseteq Orgs
  BY DEF Existing
<1>1. line \in Seq(Orgs)
  <2>1. p # None => F[p] \in Seq(Orgs)
    BY DEF Grown
  <2>. QED
    BY <2>1, AppendProperties
<1>2. G \in Lines /\ G[o] = line /\ \A x \in Existing(tree) : G[x] = F[x]
  BY <1>0, <1>1 DEF Lines
<1> HIDE DEF G
<1>3. ASSUME NEW x \in Existing(tree)
      PROVE  /\ G[x] \in Seq(Orgs) /\ Len(G[x]) # 0 /\ G[x][Len(G[x])] = x
             /\ other[x].parent = IF Len(G[x]) = 1 THEN None ELSE G[x][Len(G[x]) - 1]
             /\ \A k \in 1 .. Len(G[x]) :
                  /\ G[x][k] \in Existing(other)
                  /\ Len(G[G[x][k]]) = k
                  /\ \A j \in 1 .. k : G[G[x][k]][j] = G[x][j]
  <2>1. /\ F[x] \in Seq(Orgs) /\ Len(F[x]) # 0 /\ F[x][Len(F[x])] = x
        /\ tree[x].parent = IF Len(F[x]) = 1 THEN None ELSE F[x][Len(F[x]) - 1]
        /\ \A k \in 1 .. Len(F[x]) :
             /\ F[x][k] \in Existing(tree)
             /\ Len(F[F[x][k]]) = k
             /\ \A j \in 1 .. k : F[F[x][k]][j] = F[x][j]
    BY DEF Grown
  <2>2. G[x] = F[x] /\ \A k \in 1 .. Len(F[x]) : G[F[x][k]] = F[F[x][k]] /\ F[x][k] \in Existing(other)
    BY <1>2, <2>1
  <2>. QED
    BY <2>1, <2>2
<1>4. /\ Len(line) # 0 /\ line[Len(line)] = o
      /\ p = IF Len(line) = 1 THEN None ELSE line[Len(line) - 1]
      /\ \A k \in 1 .. Len(line) :
           /\ line[k] \in Existing(other)
           /\ Len(G[line[k]]) = k
           /\ \A j \in 1 .. k : G[line[k]][j] = line[j]
  <2>1. CASE p = None
    <3>1. line = <<o>> /\ Len(line) = 1 /\ line[1] = o /\ \A k \in 1 .. Len(line) : k = 1
      BY <2>1
    <3>2. line[1] \in Existing(other) /\ Len(G[line[1]]) = 1
          /\ \A j \in 1 .. 1 : G[line[1]][j] = line[j]
      BY <1>2, <3>1
    <3>3. ASSUME NEW k \in 1 .. Len(line)
          PROVE  /\ line[k] \in Existing(other)
                 /\ Len(G[line[k]]) = k
                 /\ \A j \in 1 .. k : G[line[k]][j] = line[j]
      <4>1. k = 1
        BY <3>1
      <4>. QED
        BY <3>2, <4>1
    <3>. QED
      BY <2>1, <3>1, <3>3
  <2>2. CASE p # None
    <3> DEFINE s == F[p]
    <3>1. /\ s \in Seq(Orgs) /\ Len(s) \in Nat \ {0} /\ s[Len(s)] = p
          /\ \A k \in 1 .. Len(s) : /\ s[k] \in Existing(tree)
                                    /\ Len(F[s[k]]) = k
                                    /\ \A j \in 1 .. k : F[s[k]][j] = s[j]
      BY <2>2 DEF Grown
    <3>2. line = Append(s, o)
      BY <2>2
    <3> HIDE DEF s
    <3>3. Len(line) = Len(s) + 1 /\ line[Len(s) + 1] = o /\ \A k \in 1 .. Len(s) : line[k] = s[k]
      <4>1. s \in Seq(Orgs)
        BY <3>1
      <4>2. /\ Len(Append(s, o)) = Len(s) + 1 /\ Append(s, o)[Len(s) + 1] = o
            /\ \A k \in 1 .. Len(s) : Append(s, o)[k] = s[k]
        BY <4>1, AppendProperties
      <4>. QED
        BY <3>2, <4>2
    <3>4. \A k \in 1 .. Len(line) : k \in 1 .. Len(s) \/ k = Len(line)
      BY <3>1, <3>3
    <3>5. ASSUME NEW k \in 1 .. Len(s)
          PROVE  /\ line[k] \in Existing(other)
                 /\ Len(G[line[k]]) = k
                 /\ \A j \in 1 .. k : G[line[k]][j] = line[j]
      <4>1. line[k] = s[k] /\ s[k] \in Existing(tree) /\ G[s[k]] = F[s[k]]
        BY <1>2, <3>1, <3>3
      <4>2. \A j \in 1 .. k : line[j] = s[j]
        BY <3>1, <3>3
      <4>. QED
        BY <3>1, <4>1, <4>2
    <3>6. Len(line) # 0 /\ line[Len(line)] = o /\ Len(line) # 1 /\ line[Len(line) - 1] = p
      BY <3>1, <3>3
    <3>. QED
      BY <1>2, <2>2, <3>4, <3>5, <3>6
  <2>. QED
    BY <2>1, <2>2
<1>5. \A x \in Existing(other) :
        /\ G[x] \in Seq(Orgs) /\ Len(G[x]) # 0 /\ G[x][Len(G[x])] = x
        /\ other[x].parent = IF Len(G[x]) = 1 THEN None ELSE G[x][Len(G[x]) - 1]
        /\ \A k \in 1 .. Len(G[x]) :
             /\ G[x][k] \in Existing(other)
             /\ Len(G[G[x][k]]) = k
             /\ \A j \in 1 .. k : G[G[x][k]][j] = G[x][j]
  <2> TAKE x \in Existing(other)
  <2>1. CASE x \in Existing(tree)
    BY <1>3, <2>1
  <2>2. CASE x = o
    <3>1. G[x] = line /\ other[x].parent = p
      BY <1>2, <2>2
    <3> HIDE DEF Grown
    <3>2. x = o
      BY <2>2
    <3>. QED
      BY ONLY <1>1, <1>4, <3>1, <3>2
  <2>. QED
    BY <2>1, <2>2
<1>6. Grown(other, G)
  BY <1>5 DEF Grown
<1>. QED
  BY <1>2, <1>6 DEF G

LEMMA GrownLess ==
  ASSUME NEW tree, NEW F, Grown(tree, F), NEW o,
         \A x \in Existing(tree) \ {o} : \A k \in 1 .. Len(F[x]) : F[x][k] # o,
         NEW other, Existing(other) = Existing(tree) \ {o},
         \A x \in Existing(tree) \ {o} : other[x].parent = tree[x].parent
  PROVE  Grown(other, F)
  BY DEF Grown

(* The lines after o has moved below p with all below it. *)
Redirected(F, o, p) ==
  [x \in Orgs |-> IF IsPrefix(F[o], F[x])
                  THEN Append(F[p], o) \o SubSeq(F[x], Len(F[o]) + 1, Len(F[x]))
                  ELSE F[x]]

(* The line new is old with below in the place of the part it begins with, *)
(* but for that part's last element.                                       *)
Follows(new, old, part, below) ==
  LET a == Len(part)  b == Len(below) IN
  /\ new \in Seq(Orgs) /\ Len(new) = Len(old) - a + b + 1
  /\ \A k \in 1 .. b : new[k] = below[k]
  /\ \A k \in b + 1 .. Len(new) : new[k] = old[k - b - 1 + a]

LEMMA RedirectedIs ==
  ASSUME NEW F \in Lines, NEW o \in Orgs, NEW p \in Orgs, NEW x \in Orgs,
         IsPrefix(F[o], F[x]), Len(F[o]) # 0, F[o][Len(F[o])] = o
  PROVE  Follows(Redirected(F, o, p)[x], F[x], F[o], F[p])
<1> DEFINE s == F[x]
           t == F[p]
           a == Len(F[o])
           b == Len(t)
           l == Len(s)
           head == Append(t, o)
           tail == SubSeq(s, a + 1, l)
           new == head \o tail
<1>1. /\ s \in Seq(Orgs) /\ t \in Seq(Orgs) /\ F[o] \in Seq(Orgs)
      /\ l \in Nat /\ b \in Nat /\ a \in Nat \ {0} /\ a <= l /\ s[a] = o
  <2>1. s \in Seq(Orgs) /\ t \in Seq(Orgs) /\ F[o] \in Seq(Orgs)
    BY DEF Lines
  <2>2. a <= l /\ \A i \in 1 .. a : F[o][i] = s[i]
    BY <2>1, PrefixIs
  <2>. QED
    BY <2>1, <2>2
<1>2. Redirected(F, o, p)[x] = new
  BY DEF Redirected
<1> HIDE DEF s, t, a
<1>3. /\ head \in Seq(Orgs) /\ Len(head) = b + 1 /\ head[b + 1] = o
      /\ \A k \in 1 .. b : head[k] = t[k]
  BY <1>1, AppendProperties
<1>4. tail \in Seq(Orgs) /\ Len(tail) = l - a /\ \A k \in 1 .. l - a : tail[k] = s[a + k]
  <2>1. \A k \in a + 1 .. l : s[k] \in Orgs
    BY <1>1
  <2>2. /\ tail \in Seq(Orgs)
        /\ Len(tail) = IF a + 1 <= l THEN l - (a + 1) + 1 ELSE 0
        /\ \A i \in 1 .. l - (a + 1) + 1 : tail[i] = s[(a + 1) + i - 1]
    BY <1>1, <2>1, SubSeqProperties
  <2>. QED
    BY <1>1, <2>2
<1> HIDE DEF head, tail
<1>5. /\ new \in Seq(Orgs) /\ Len(new) = b + 1 + (l - a)
      /\ \A k \in 1 .. b + 1 + (l - a) : new[k] = IF k <= b + 1 THEN head[k] ELSE tail[k - (b + 1)]
  <2>1. head \in Seq(Orgs) /\ tail \in Seq(Orgs)
    BY <1>3, <1>4
  <2>2. /\ new \in Seq(Orgs) /\ Len(new) = Len(head) + Len(tail)
        /\ \A k \in 1 .. Len(head) + Len(tail) :
             new[k] = IF k <= Len(head) THEN head[k] ELSE tail[k - Len(head)]
    BY <2>1, ConcatProperties
  <2>3. Len(head) = b + 1 /\ Len(tail) = l - a
    BY <1>3, <1>4
  <2> HIDE DEF new
  <2>. QED
    BY <2>2, <2>3
<1> HIDE DEF new
<1> HIDE DEF b, l
<1>6. ASSUME NEW k \in 1 .. b PROVE new[k] = t[k]
  <2>1. k \in 1 .. b + 1 + (l - a) /\ k <= b + 1
    BY <1>1
  <2>. QED
    BY <1>3, <1>5, <2>1
<1>7. ASSUME NEW k \in b + 1 .. b + 1 + (l - a) PROVE new[k] = s[k - b - 1 + a]
  <2>1. CASE k = b + 1
    <3>1. k \in 1 .. b + 1 + (l - a) /\ k <= b + 1 /\ k - b - 1 + a = a
      BY <1>1, <2>1
    <3>. QED
      BY <1>1, <1>3, <1>5, <2>1, <3>1
  <2>2. CASE k # b + 1
    <3>1. k \in 1 .. b + 1 + (l - a) /\ ~(k <= b + 1) /\ k - (b + 1) \in 1 .. l - a
      BY <1>1, <2>2
    <3>2. new[k] = tail[k - (b + 1)] /\ tail[k - (b + 1)] = s[a + (k - (b + 1))]
      BY <1>4, <1>5, <3>1
    <3>3. a + (k - (b + 1)) = k - b - 1 + a
      BY <1>1, <3>1
    <3>. QED
      BY <3>2, <3>3
  <2>. QED
    BY <2>1, <2>2
<1>8. Len(new) = l - a + b + 1
  BY <1>1, <1>5
<1>. QED
  BY <1>1, <1>2, <1>5, <1>6, <1>7, <1>8 DEF Follows, s, t, a, b, l

LEMMA GrownMoved ==
  ASSUME NEW tree, NEW F \in Lines, Grown(tree, F),
         NEW o \in Existing(tree), NEW p \in Existing(tree), ~ IsPrefix(F[o], F[p]),
         NEW other, Existing(other) = Existing(tree), other[o].parent = p,
         \A x \in Existing(tree) \ {o} : other[x].parent = tree[x].parent
  PROVE  Redirected(F, o, p) \in Lines /\ Grown(other, Redirected(F, o, p))
<1> DEFINE G == Redirected(F, o, p)
           a == Len(F[o])
           b == Len(F[p])
           Under(x) == IsPrefix(F[o], F[x])
<1>0. Existing(tree) \subseteq Orgs
  BY DEF Existing
<1>1. \A x \in Existing(tree) :
        /\ F[x] \in Seq(Orgs) /\ Len(F[x]) \in Nat \ {0} /\ F[x][Len(F[x])] = x
        /\ tree[x].parent = IF Len(F[x]) = 1 THEN None ELSE F[x][Len(F[x]) - 1]
        /\ \A k \in 1 .. Len(F[x]) :
             /\ F[x][k] \in Existing(tree)
             /\ Len(F[F[x][k]]) = k
             /\ \A j \in 1 .. k : F[F[x][k]][j] = F[x][j]
  BY DEF Grown
<1>2. a \in Nat \ {0} /\ b \in Nat \ {0} /\ F[o][a] = o /\ F[p][b] = p
  BY <1>1
<1>3. \A x \in Existing(tree) :
        Under(x) <=> a <= Len(F[x]) /\ \A i \in 1 .. a : F[o][i] = F[x][i]
  BY <1>1, PrefixIs
<1>4. Under(o)
  BY <1>2, <1>3
<1>5. \A x \in Orgs : ~Under(x) => G[x] = F[x]
  BY DEF Redirected
<1>6. \A x \in Orgs : Under(x) =>
        /\ G[x] \in Seq(Orgs) /\ Len(G[x]) = Len(F[x]) - a + b + 1
        /\ \A k \in 1 .. b : G[x][k] = F[p][k]
        /\ \A k \in b + 1 .. Len(G[x]) : G[x][k] = F[x][k - b - 1 + a]
  <2> TAKE x \in Orgs
  <2> HAVE Under(x)
  <2>1. o \in Orgs /\ p \in Orgs /\ Len(F[o]) # 0 /\ F[o][Len(F[o])] = o
    BY <1>0, <1>2
  <2>2. Follows(G[x], F[x], F[o], F[p])
    BY <2>1, RedirectedIs
  <2> HIDE DEF G
  <2>. QED
    BY <2>2 DEF Follows
<1>7. G \in Lines
  <2>1. \A x \in Orgs : G[x] \in Seq(Orgs)
    BY <1>5, <1>6 DEF Lines
  <2>2. G = [x \in Orgs |-> G[x]]
    BY DEF Redirected
  <2> HIDE DEF G
  <2>. QED
    BY <2>1, <2>2 DEF Lines
<1> HIDE DEF G, a, b, Under
<1>8. \A x \in Existing(tree) : \A k \in 1 .. Len(F[x]) : Under(F[x][k]) <=> Under(x) /\ a <= k
  <2> TAKE x \in Existing(tree)
  <2> TAKE k \in 1 .. Len(F[x])
  <2> DEFINE y == F[x][k]
  <2>1. y \in Existing(tree) /\ Len(F[y]) = k /\ \A j \in 1 .. k : F[y][j] = F[x][j]
    BY <1>1
  <2>2. k \in Nat /\ Len(F[x]) \in Nat /\ k <= Len(F[x])
    BY <1>1
  <2> HIDE DEF y
  <2>3. CASE a <= k
    <3>1. \A i \in 1 .. a : F[y][i] = F[x][i]
      BY <1>2, <2>1, <2>2, <2>3
    <3>2. a <= Len(F[y]) /\ a <= Len(F[x])
      BY <1>2, <2>1, <2>2, <2>3
    <3>. QED
      BY <1>3, <2>1, <2>3, <3>1, <3>2 DEF y
  <2>4. CASE ~(a <= k)
    BY <1>3, <2>1, <2>4 DEF y
  <2>. QED
    BY <2>3, <2>4
<1>9. ~Under(p) /\ \A k \in 1 .. b : ~Under(F[p][k])
  <2>1. ~Under(p)
    BY DEF Under
  <2>. QED
    BY <1>8, <2>1 DEF b
<1>10. ASSUME NEW x \in Existing(other), ~Under(x)
       PROVE  /\ G[x] \in Seq(Orgs) /\ Len(G[x]) # 0 /\ G[x][Len(G[x])] = x
              /\ other[x].parent = IF Len(G[x]) = 1 THEN None ELSE G[x][Len(G[x]) - 1]
              /\ \A k \in 1 .. Len(G[x]) :
                   /\ G[x][k] \in Existing(other)
                   /\ Len(G[G[x][k]]) = k
                   /\ \A j \in 1 .. k : G[G[x][k]][j] = G[x][j]
  <2>1. x \in Existing(tree) /\ G[x] = F[x] /\ x # o
    BY <1>0, <1>4, <1>5, <1>10
  <2>2. \A k \in 1 .. Len(F[x]) : F[x][k] \in Existing(tree) /\ G[F[x][k]] = F[F[x][k]]
    BY <1>0, <1>1, <1>5, <1>8, <1>10, <2>1
  <2>. QED
    BY <1>1, <2>1, <2>2
<1>11. ASSUME NEW x \in Existing(other), Under(x)
       PROVE  /\ G[x] \in Seq(Orgs) /\ Len(G[x]) # 0 /\ G[x][Len(G[x])] = x
              /\ other[x].parent = IF Len(G[x]) = 1 THEN None ELSE G[x][Len(G[x]) - 1]
              /\ \A k \in 1 .. Len(G[x]) :
                   /\ G[x][k] \in Existing(other)
                   /\ Len(G[G[x][k]]) = k
                   /\ \A j \in 1 .. k : G[G[x][k]][j] = G[x][j]
  <2> DEFINE l == Len(F[x])
             m == Len(G[x])
  <2>1. x \in Existing(tree) /\ x \in Orgs
    BY <1>0
  <2>2. /\ G[x] \in Seq(Orgs) /\ m = l - a + b + 1
        /\ \A k \in 1 .. b : G[x][k] = F[p][k]
        /\ \A k \in b + 1 .. m : G[x][k] = F[x][k - b - 1 + a]
    BY <1>6, <1>11, <2>1
  <2>3. l \in Nat /\ a <= l /\ m \in Nat /\ b + 1 <= m /\ F[x][a] = o
    <3>1. l \in Nat /\ a <= l /\ F[x][a] = F[o][a]
      BY <1>1, <1>2, <1>3, <1>11, <2>1
    <3> HIDE DEF l, m
    <3>. QED
      BY <1>2, <2>2, <3>1
  <2> HIDE DEF m, l
  <2>4. m # 0 /\ G[x][m] = x
    <3>1. m \in b + 1 .. m /\ m - b - 1 + a = l
      BY <1>2, <2>2, <2>3
    <3>2. F[x][l] = x
      BY <1>1, <2>1 DEF l
    <3>. QED
      BY <1>2, <2>2, <2>3, <3>1, <3>2
  <2>5. other[x].parent = IF m = 1 THEN None ELSE G[x][m - 1]
    <3>1. CASE x = o
      <4>1. l = a
        BY <3>1 DEF l, a
      <4>2. m = b + 1 /\ m # 1 /\ m - 1 \in 1 .. b /\ m - 1 = b
        BY <1>2, <2>2, <2>3, <4>1
      <4>3. G[x][m - 1] = p
        BY <1>2, <2>2, <4>2
      <4>. QED
        BY <3>1, <4>2, <4>3
    <3>2. CASE x # o
      <4>1. l # a
        BY <1>1, <2>1, <2>3, <3>2 DEF l
      <4>2. l # 1 /\ m # 1 /\ m - 1 \in b + 1 .. m /\ (m - 1) - b - 1 + a = l - 1
        BY <1>2, <2>2, <2>3, <4>1
      <4>3. G[x][m - 1] = F[x][l - 1]
        BY <2>2, <4>2
      <4>4. tree[x].parent = F[x][l - 1]
        BY <1>1, <2>1, <4>2 DEF l
      <4>. QED
        BY <2>1, <3>2, <4>2, <4>3, <4>4
    <3>. QED
      BY <3>1, <3>2
  <2>6. ASSUME NEW k \in 1 .. m
        PROVE  /\ G[x][k] \in Existing(other)
               /\ Len(G[G[x][k]]) = k
               /\ \A j \in 1 .. k : G[G[x][k]][j] = G[x][j]
    <3>1. CASE k <= b
      <4>1. k \in 1 .. b /\ \A j \in 1 .. k : j \in 1 .. b
        BY <1>2, <3>1
      <4>2. G[x][k] = F[p][k] /\ \A j \in 1 .. k : G[x][j] = F[p][j]
        BY <2>2, <4>1
      <4>3. /\ F[p][k] \in Existing(tree) /\ Len(F[F[p][k]]) = k
            /\ \A j \in 1 .. k : F[F[p][k]][j] = F[p][j]
        BY <1>1, <4>1 DEF b
      <4>4. G[F[p][k]] = F[F[p][k]]
        BY <1>0, <1>5, <1>9, <4>1, <4>3
      <4>. QED
        BY <4>2, <4>3, <4>4
    <3>2. CASE ~(k <= b)
      <4> DEFINE i == k - b - 1 + a
                 y == F[x][i]
      <4>1. k \in b + 1 .. m /\ i \in a .. l /\ i \in 1 .. l /\ a <= i /\ i - a + b + 1 = k
        BY <1>2, <2>2, <2>3, <3>2
      <4>2. G[x][k] = y
        BY <2>2, <4>1
      <4> HIDE DEF i
      <4>3. y \in Existing(tree) /\ Len(F[y]) = i /\ \A j \in 1 .. i : F[y][j] = F[x][j]
        BY <1>1, <2>1, <4>1 DEF l
      <4>4. Under(y)
        BY <1>8, <1>11, <2>1, <4>1 DEF l
      <4> HIDE DEF y
      <4>5. /\ Len(G[y]) = k
            /\ \A j \in 1 .. b : G[y][j] = F[p][j]
            /\ \A j \in b + 1 .. k : G[y][j] = F[y][j - b - 1 + a]
        BY <1>0, <1>6, <4>1, <4>3, <4>4
      <4>6. ASSUME NEW j \in 1 .. k PROVE G[y][j] = G[x][j]
        <5>1. CASE j <= b
          <6>1. j \in 1 .. b
            BY <1>2, <5>1
          <6>. QED
            BY <2>2, <4>5, <6>1
        <5>2. CASE ~(j <= b)
          <6>1. j \in b + 1 .. k /\ j \in b + 1 .. m /\ j - b - 1 + a \in 1 .. i
            BY <1>2, <2>3, <4>1, <5>2
          <6>. QED
            BY <2>2, <4>3, <4>5, <6>1
        <5>. QED
          BY <5>1, <5>2
      <4>. QED
        BY <4>2, <4>3, <4>5, <4>6
    <3>. QED
      BY <3>1, <3>2
  <2>. QED
    BY <2>2, <2>4, <2>5, <2>6 DEF m
<1>12. Grown(other, G)
  <2>1. \A x \in Existing(other) :
          /\ G[x] \in Seq(Orgs) /\ Len(G[x]) # 0 /\ G[x][Len(G[x])] = x
          /\ other[x].parent = IF Len(G[x]) = 1 THEN None ELSE G[x][Len(G[x]) - 1]
          /\ \A k \in 1 .. Len(G[x]) :
               /\ G[x][k] \in Existing(other)
               /\ Len(G[G[x][k]]) = k
               /\ \A j \in 1 .. k : G[G[x][k]][j] = G[x][j]
    BY <1>10, <1>11
  <2>. QED
    BY <2>1 DEF Grown
<1>. QED
  BY <1>7, <1>12 DEF G

-----------------------------------------------------------------------------
(* One change at a time.  F holds the lines of the tree as it is by the    *)
(* parents; the paths are those, but for the ones a request is about to    *)
(* write.                                                                  *)

OneWriter == \E w : Writers = {w}

Under(F, o) == {x \in Existing(org) : IsPrefix(F[o], F[x])}

(* The path a move that is past its first write gives a row. *)
Target(c, row) ==
  IF IsStrictPrefix(c.from, row.path)
  THEN PathBelow(c.above, c.id) \o SubSeq(row.path, Len(c.from) + 1, Len(row.path))
  ELSE row.path

Quiet(F) == \A x \in Existing(org) : org[x].path = F[x]

Paths(F, c) ==
  /\ c = None \/ c.at \notin {"path", "find", "rewrite"} => Quiet(F)
  /\ c # None /\ c.at \in {"path", "find"} =>
       /\ c.id \in Existing(org) /\ F[c.id] = PathBelow(c.above, c.id)
       /\ c.at = "find" => org[c.id].path = F[c.id]
       /\ \A x \in Existing(org) \ {c.id} :
            /\ org[x].path # <<>>
            /\ F[x] = IF c.op = "create" THEN org[x].path ELSE Target(c, org[x])
  /\ c # None /\ c.at = "rewrite" =>
       /\ \A t \in c.todo : t[1] \in Existing(org) /\ t[2] = F[t[1]]
       /\ \A x \in Existing(org) : org[x].path = F[x] \/ \E t \in c.todo : t[1] = x

(* What a request was told before its first write is still so. *)
Plan(F, c) ==
  /\ c.at = "insert" =>
       /\ org[c.id] = Fresh
       /\ c.above # None => c.parent \in Existing(org) /\ c.above = org[c.parent]
  /\ c.at \in {"read", "save"} =>
       /\ c.op = "move" /\ {c.id, c.parent} \subseteq Existing(org)
       /\ ~ IsPrefix(F[c.id], F[c.parent])
  /\ c.at = "save" => c.copy = org[c.id] /\ c.above = org[c.parent] /\ c.from = F[c.id]
  /\ c.at \in {"find", "rewrite"} => c.op = "move"
  /\ c.at = "path" /\ c.op = "move" => org[c.id].rules = None
  /\ c.at = "delete" => c.id \in Existing(org) /\ Under(F, c.id) = {c.id}
  /\ c.at = "write" =>
       /\ c.id \in Existing(org)
       /\ c.copy # None /\ c.copy.parent = org[c.id].parent /\ c.copy.path = org[c.id].path

(* What everybody saw before a move nobody had to confirm. *)
Foreseen(c) ==
  c.op = "move" /\ ~ c.force =>
    /\ c.before # None
    /\ \A x \in Existing(org) : Visible(org, x) = c.before[x]
    /\ c.at \in {"read", "save"} =>
         \A x \in Existing(org) : Visible(Simulated(c.id, c.parent), x) = c.before[x]

(* The lists in the cache, and those being read. *)
Lists(F, c) ==
  c = None \/ c.at \in {"insert", "read", "save", "delete", "write"} =>
    \A o \in Existing(org) : cache[o] # None /\ cache[o].alone => cache[o].ids = Under(F, o)

Reads(F) ==
  \A r \in Readers : readers[r] # None /\ readers[r].alone =>
    /\ \A w \in Writers : writers[w] = None
    /\ readers[r].at # "find" => readers[r].root \in Existing(org)
    /\ readers[r].at = "query" => readers[r].path = F[readers[r].root]
    /\ readers[r].at = "keep" => readers[r].ids = Under(F, readers[r].root)

Follow(F, c) ==
  /\ F \in Lines /\ Grown(org, F) /\ Paths(F, c) /\ Lists(F, c) /\ Reads(F)
  /\ c # None => Plan(F, c) /\ Foreseen(c)

TreeInv == TreeTypeOK /\ \A w \in Writers : \E F : Follow(F, writers[w])

(* One organisation is below another if it is in its line. *)
LEMMA InLine ==
  ASSUME NEW tree, NEW F, Grown(tree, F), NEW o \in Existing(tree), NEW x \in Existing(tree)
  PROVE  /\ IsPrefix(F[o], F[x]) <=> \E k \in 1 .. Len(F[x]) : F[x][k] = o
         /\ IsStrictPrefix(F[o], F[x]) <=> IsPrefix(F[o], F[x]) /\ x # o
<1> DEFINE s == F[o]
           t == F[x]
<1>1. /\ s \in Seq(Orgs) /\ t \in Seq(Orgs) /\ Len(s) \in Nat \ {0} /\ Len(t) \in Nat \ {0}
      /\ s[Len(s)] = o /\ t[Len(t)] = x
      /\ \A k \in 1 .. Len(t) : Len(F[t[k]]) = k /\ \A j \in 1 .. k : F[t[k]][j] = t[j]
  BY DEF Grown
<1>2. /\ IsPrefix(s, t) <=> Len(s) <= Len(t) /\ \A i \in 1 .. Len(s) : s[i] = t[i]
      /\ IsStrictPrefix(s, t) <=> Len(s) < Len(t) /\ \A i \in 1 .. Len(s) : s[i] = t[i]
  BY <1>1, PrefixIs
<1>3. IsPrefix(s, t) => t[Len(s)] = o /\ Len(s) \in 1 .. Len(t)
  <2> HIDE DEF s, t
  <2>. QED
    BY <1>1, <1>2
<1>4. ASSUME NEW k \in 1 .. Len(t), t[k] = o PROVE IsPrefix(s, t)
  <2>1. Len(s) = k /\ \A j \in 1 .. k : s[j] = t[j]
    BY <1>1, <1>4
  <2> HIDE DEF s, t
  <2>. QED
    BY <1>1, <1>2, <2>1
<1>5. x = o => s = t
  OBVIOUS
<1> HIDE DEF s, t
<1>6. IsStrictPrefix(s, t) <=> IsPrefix(s, t) /\ x # o
  BY <1>1, <1>2, <1>3, <1>5
<1>. QED
  BY <1>3, <1>4, <1>6 DEF s, t

LEMMA RowsOf ==
  ASSUME TreeTypeOK, NEW F, Grown(org, F)
  PROVE  /\ Existing(org) \subseteq Orgs
         /\ \A o \in Existing(org) : /\ org[o] \in OrgRow /\ org[o] # None
                                     /\ F[o] # <<>> /\ F[o] \in Seq(Orgs)
                                     /\ Ruled(org, F[o])
                                     /\ org[o].parent # None => org[o].parent \in Existing(org)
<1>1. \A o \in Existing(org) : o \in Orgs /\ org[o] \in OrgRow /\ org[o] # None
  BY TreeMarks DEF Existing, TreeTypeOK
<1>2. ASSUME NEW o \in Existing(org)
      PROVE  /\ F[o] # <<>> /\ F[o] \in Seq(Orgs) /\ Ruled(org, F[o])
             /\ org[o].parent # None => org[o].parent \in Existing(org)
  <2>1. /\ F[o] \in Seq(Orgs) /\ Len(F[o]) # 0
        /\ \A k \in 1 .. Len(F[o]) : F[o][k] \in Existing(org)
        /\ org[o].parent = IF Len(F[o]) = 1 THEN None ELSE F[o][Len(F[o]) - 1]
    BY DEF Grown
  <2>2. \A k \in 1 .. Len(F[o]) : /\ org[F[o][k]].rules \in Setting \union {None}
                                  /\ org[F[o][k]].defaults \in Setting \union {None}
    BY <1>1, <2>1 DEF OrgRow
  <2>3. Len(F[o]) # 1 => Len(F[o]) - 1 \in 1 .. Len(F[o])
    <3>1. \A n \in Nat : n # 0 /\ n # 1 => n - 1 \in 1 .. n
      OBVIOUS
    <3>2. Len(F[o]) \in Nat /\ Len(F[o]) # 0
      BY <2>1
    <3>. QED
      BY <3>1, <3>2
  <2>. QED
    BY <2>1, <2>2, <2>3 DEF Ruled
<1>. QED
  BY <1>1, <1>2

LEMMA TreeStart == TreeInit => TreeInv
<1> SUFFICES ASSUME TreeInit PROVE TreeInv
  OBVIOUS
<1> DEFINE F == [o \in Orgs |-> <<o>>]
<1>1. Top(Root) \in OrgRow
  BY OrgTreeConstants DEF Top, OrgRow
<1>2. TreeTypeOK
  BY <1>1 DEF TreeInit, TreeTypeOK
<1>3. Existing(org) = {Root} /\ org[Root] = Top(Root)
  BY <1>1, OrgTreeConstants, TreeMarks DEF TreeInit, Existing
<1>4. F \in Lines
  BY DEF Lines
<1>5. Grown(org, F)
  <2>1. F[Root] = <<Root>> /\ org[Root].parent = None /\ Root \in Orgs
    BY <1>3, OrgTreeConstants DEF Top
  <2>2. /\ F[Root] \in Seq(Orgs) /\ Len(F[Root]) = 1 /\ F[Root][1] = Root
        /\ \A k \in 1 .. 1 : k = 1
    BY <2>1
  <2> HIDE DEF F
  <2>3. \A k \in 1 .. Len(F[Root]) :
          /\ F[Root][k] \in Existing(org)
          /\ Len(F[F[Root][k]]) = k
          /\ \A j \in 1 .. k : F[F[Root][k]][j] = F[Root][j]
    <3>1. F[Root][1] \in Existing(org) /\ F[F[Root][1]] = F[Root] /\ Len(F[F[Root][1]]) = 1
      BY <1>3, <2>2
    <3>. QED
      BY <2>2, <3>1
  <2>. QED
    BY <1>3, <2>1, <2>2, <2>3 DEF Grown
<1>6. Quiet(F)
  BY <1>3, OrgTreeConstants DEF Quiet, Top
<1>7. ASSUME NEW w \in Writers PROVE Follow(F, writers[w])
  <2>1. writers[w] = None /\ Lists(F, None) /\ Reads(F)
    BY OrgTreeConstants DEF TreeInit, Lists, Reads, Existing
  <2>. QED
    BY <1>4, <1>5, <1>6, <2>1 DEF Follow, Paths
<1>. QED
  BY <1>2, <1>7 DEF TreeInv

(* The one writer goes on with q. *)
LEMMA GoesOn ==
  ASSUME OneWriter, TreeTypeOK', NEW w \in Writers, NEW q, writers'[w] = q,
         NEW F, Follow(F, q)'
  PROVE  TreeInv'
<1>1. \A v \in Writers : v = w
  BY DEF OneWriter
<1>. QED
  BY <1>1 DEF TreeInv

(* A change begins. *)
LEMMA BeginKeeps ==
  ASSUME TreeTypeOK, OneWriter, NEW w \in Writers, NEW q \in Change,
         writers[w] = None, writers' = [writers EXCEPT ![w] = q],
         readers' = [r \in Readers |->
           IF readers[r] = None THEN None ELSE [readers[r] EXCEPT !.alone = FALSE]],
         UNCHANGED <<org, cache>>,
         q.at \in {"insert", "read", "delete", "write"},
         NEW F, Follow(F, None), Plan(F, q), Foreseen(q)
  PROVE  TreeInv'
<1>1. writers'[w] = q /\ writers' \in [Writers -> Change \union {None}]
  BY DEF TreeTypeOK
<1>2. /\ readers' \in [Readers -> Reading \union {None}]
      /\ \A r \in Readers : readers'[r] # None => ~ readers'[r].alone
  <2>1. ASSUME NEW r \in Readers
        PROVE  readers'[r] \in Reading \union {None} /\ (readers'[r] # None => ~ readers'[r].alone)
    <3>1. CASE readers[r] = None
      BY <3>1
    <3>2. CASE readers[r] # None
      <4>1. readers[r] \in Reading /\ readers'[r] = [readers[r] EXCEPT !.alone = FALSE]
        BY <3>2 DEF TreeTypeOK
      <4>. QED
        BY <4>1 DEF Reading
    <3>. QED
      BY <3>1, <3>2
  <2>. QED
    BY <2>1
<1>3. TreeTypeOK'
  BY <1>1, <1>2 DEF TreeTypeOK
<1>4. q # None
  BY TreeMarks
<1>5. F \in Lines /\ Grown(org', F) /\ Paths(F, q)'
  BY DEF Follow, Paths, Quiet
<1>6. Lists(F, q)'
  BY DEF Follow, Lists, Under
<1>7. Reads(F)'
  BY <1>2 DEF Reads
<1>8. Plan(F, q)' /\ Foreseen(q)'
  BY DEF Plan, Foreseen, Under, Simulated
<1>9. Follow(F, q)'
  BY <1>5, <1>6, <1>7, <1>8 DEF Follow
<1>. QED
  BY <1>1, <1>3, <1>9, GoesOn

(* Before a change begins: the lines of the tree, all paths in place. *)
LEMMA Idle ==
  ASSUME TreeInv, NEW w \in Writers, writers[w] = None
  PROVE  \E F \in Lines : Follow(F, None) /\ Grown(org, F) /\ Quiet(F)
<1>1. PICK F : Follow(F, writers[w])
  BY DEF TreeInv
<1>. QED
  BY <1>1 DEF Follow, Paths

LEMMA CreateBegins ==
  ASSUME TreeInv, OneWriter, NEW w \in Writers, NEW o \in Orgs, NEW p \in Orgs \union {None},
         BeginCreateOrg(w, o, p)
  PROVE  TreeInv'
<1> DEFINE q == [op |-> "create", id |-> o, at |-> "insert", parent |-> p, above |-> Found(p),
                 copy |-> None, from |-> <<>>, todo |-> {}, force |-> FALSE, before |-> None]
<1>1. TreeTypeOK /\ StartChange(w, "create", o, "insert", p, Found(p), None, FALSE, None)
  BY DEF TreeInv, BeginCreateOrg
<1>2. PICK F \in Lines : Follow(F, None) /\ Grown(org, F)
  BY <1>1, Idle DEF StartChange
<1>3. Found(p) \in OrgRow \union {None}
  BY <1>1, <1>2, RowsOf DEF Found
<1>4. q \in Change
  BY <1>1, <1>3 DEF Change, StartChange
<1>5. Plan(F, q)
  BY DEF Plan, BeginCreateOrg, Unborn, Found
<1>6. Foreseen(q)
  BY DEF Foreseen
<1>. QED
  BY <1>1, <1>2, <1>4, <1>5, <1>6, BeginKeeps DEF StartChange

LEMMA RemoveBegins ==
  ASSUME TreeInv, OneWriter, NEW w \in Writers, NEW o \in Orgs, BeginRemoveOrg(w, o)
  PROVE  TreeInv'
<1> DEFINE q == [op |-> "remove", id |-> o, at |-> "delete", parent |-> None, above |-> None,
                 copy |-> None, from |-> <<>>, todo |-> {}, force |-> FALSE, before |-> None]
<1>1. /\ TreeTypeOK /\ o \in Existing(org)
      /\ SubtreeByPath(org, EffectivePath(o, org[o])) = {}
      /\ StartChange(w, "remove", o, "delete", None, None, None, FALSE, None)
  BY DEF TreeInv, BeginRemoveOrg
<1>2. PICK F \in Lines : Follow(F, None) /\ Grown(org, F) /\ Quiet(F)
  BY <1>1, Idle DEF StartChange
<1>3. q \in Change
  BY <1>1 DEF Change, StartChange
<1>4. Under(F, o) = {o}
  <2>1. \A x \in Existing(org) : EffectivePath(x, org[x]) = F[x]
    BY <1>1, <1>2, RowsOf DEF Quiet, EffectivePath
  <2>2. \A x \in Existing(org) : ~ IsStrictPrefix(F[o], F[x])
    BY <1>1, <2>1 DEF SubtreeByPath
  <2>3. IsPrefix(F[o], F[o])
    <3>1. F[o] \in Seq(Orgs)
      BY <1>2 DEF Lines
    <3>. QED
      BY <3>1, PrefixIs
  <2>. QED
    BY <1>1, <1>2, <2>2, <2>3, InLine DEF Under
<1>5. Plan(F, q)
  BY <1>1, <1>4 DEF Plan
<1>6. Foreseen(q)
  BY DEF Foreseen
<1>. QED
  BY <1>1, <1>2, <1>3, <1>5, <1>6, BeginKeeps DEF StartChange

LEMMA EditBegins ==
  ASSUME TreeInv, OneWriter, NEW w \in Writers, NEW o \in Existing(org),
         NEW copy \in OrgRow, copy.parent = org[o].parent, copy.path = org[o].path,
         StartChange(w, "edit", o, "write", None, None, copy, FALSE, None)
  PROVE  TreeInv'
<1> DEFINE q == [op |-> "edit", id |-> o, at |-> "write", parent |-> None, above |-> None,
                 copy |-> copy, from |-> <<>>, todo |-> {}, force |-> FALSE, before |-> None]
<1>1. TreeTypeOK /\ o \in Orgs
  BY DEF TreeInv, Existing
<1>2. PICK F \in Lines : Follow(F, None) /\ Grown(org, F)
  BY <1>1, Idle DEF StartChange
<1>3. q \in Change
  BY <1>1 DEF Change, StartChange
<1>4. Plan(F, q)
  BY TreeMarks DEF Plan
<1>5. Foreseen(q)
  BY DEF Foreseen
<1>. QED
  BY <1>1, <1>2, <1>3, <1>4, <1>5, BeginKeeps DEF StartChange

LEMMA EditsBegin ==
  ASSUME TreeInv, OneWriter, NEW w \in Writers, NEW o \in Editable, NEW rule,
         \/ rule \in Rules \union {None} /\ BeginEditRules(w, o, rule)
         \/ rule \in Defaults \union {None} /\ BeginEditDefaults(w, o, rule)
  PROVE  TreeInv'
<1>1. TreeTypeOK /\ o \in Existing(org) /\ rule \in Setting \union {None}
  BY OrgTreeConstants DEF TreeInv, BeginEditRules, BeginEditDefaults
<1>2. org[o] \in OrgRow
  BY <1>1, TreeMarks DEF TreeTypeOK, Existing
<1>3. CASE BeginEditRules(w, o, rule)
  <2> DEFINE other == IF rule # None /\ org[o].parent = None THEN [all |-> FALSE, ids |-> {}] ELSE rule
  <2>1. other \in Setting \union {None}
    BY <1>1 DEF Setting
  <2> HIDE DEF other
  <2>2. PICK copy : copy = [org[o] EXCEPT !.rules = other]
    OBVIOUS
  <2>3. copy \in OrgRow /\ copy.parent = org[o].parent /\ copy.path = org[o].path
    BY <1>2, <2>1, <2>2 DEF OrgRow
  <2>4. StartChange(w, "edit", o, "write", None, None, copy, FALSE, None)
    BY <1>3, <2>2 DEF BeginEditRules, other
  <2>. QED
    BY <1>1, <2>3, <2>4, EditBegins
<1>4. CASE BeginEditDefaults(w, o, rule)
  <2>1. PICK copy : copy = [org[o] EXCEPT !.defaults = rule]
    OBVIOUS
  <2>2. copy \in OrgRow /\ copy.parent = org[o].parent /\ copy.path = org[o].path
    BY <1>1, <1>2, <2>1 DEF OrgRow
  <2>3. StartChange(w, "edit", o, "write", None, None, copy, FALSE, None)
    BY <1>4, <2>1 DEF BeginEditDefaults
  <2>. QED
    BY <1>1, <2>2, <2>3, EditBegins
<1>. QED
  BY <1>3, <1>4

(* The tree as it would be after a move. *)
LEMMA SimulatedIs ==
  ASSUME TreeTypeOK, NEW o \in Existing(org), NEW p \in Orgs, NEW tree, tree = Simulated(o, p)
  PROVE  /\ Existing(tree) = Existing(org)
         /\ tree \in [Orgs -> OrgRow \union {Fresh, Gone}]
         /\ tree[o].parent = p /\ tree[o].rules = None
         /\ tree[o].path = org[o].path /\ tree[o].defaults = org[o].defaults
         /\ \A x \in Orgs \ {o} : tree[x] = org[x]
<1>1. o \in Orgs /\ org[o] \in OrgRow
  BY TreeMarks DEF TreeTypeOK, Existing
<1>2. PICK row : row = [org[o] EXCEPT !.parent = p, !.rules = None]
  OBVIOUS
<1>3. /\ row \in OrgRow /\ row.parent = p /\ row.rules = None
      /\ row.path = org[o].path /\ row.defaults = org[o].defaults
  BY <1>1, <1>2 DEF OrgRow
<1>4. tree = [org EXCEPT ![o] = row]
  BY <1>1, <1>2 DEF Simulated, TreeTypeOK
<1>5. /\ tree[o] = row /\ \A x \in Orgs \ {o} : tree[x] = org[x]
      /\ tree \in [Orgs -> OrgRow \union {Fresh, Gone}]
  BY <1>1, <1>3, <1>4 DEF TreeTypeOK
<1>6. Existing(tree) = Existing(org)
  BY <1>1, <1>3, <1>5, TreeMarks DEF Existing
<1>. QED
  BY <1>2, <1>3, <1>5, <1>6

(* Who is not below the organisation that moves sees what it saw. *)
LEMMA SeenAside ==
  ASSUME TreeTypeOK, NEW F \in Lines, Grown(org, F), NEW o \in Existing(org),
         NEW p \in Existing(org), ~ IsPrefix(F[o], F[p]),
         NEW x \in Existing(org), ~ IsPrefix(F[o], F[x])
  PROVE  Visible(Simulated(o, p), x) = Visible(org, x)
<1>0. PICK tree : tree = Simulated(o, p)
  OBVIOUS
<1>1. o \in Orgs /\ p \in Orgs /\ x \in Orgs
  BY DEF Existing
<1>2. /\ Existing(tree) = Existing(org) /\ tree[o].parent = p
      /\ \A y \in Orgs \ {o} : tree[y] = org[y]
  BY ONLY <1>0, <1>1, SimulatedIs, TreeTypeOK
<1>3. PICK G : G = Redirected(F, o, p)
  OBVIOUS
<1>4. \A y \in Existing(org) \ {o} : tree[y].parent = org[y].parent
  BY <1>2 DEF Existing
<1>5. Grown(tree, G)
  BY <1>2, <1>3, <1>4, GrownMoved
<1>6. G[x] = F[x]
  BY <1>1, <1>3 DEF Redirected
<1>7. \A k \in 1 .. Len(F[x]) : F[x][k] \in Orgs \ {o}
  <2>1. \A k \in 1 .. Len(F[x]) : F[x][k] # o
    BY InLine
  <2>. QED
    BY <2>1 DEF Grown, Existing
<1>8. Ruled(org, F[x])
  BY RowsOf
<1>. QED
  BY <1>0, <1>2, <1>5, <1>6, <1>7, <1>8, VisibleSame

LEMMA MoveBegins ==
  ASSUME TreeInv, OneWriter, NEW w \in Writers, NEW o \in Orgs, NEW p \in Orgs,
         NEW force \in BOOLEAN, BeginMove(w, o, p, force)
  PROVE  TreeInv'
<1>0. PICK before : before = IF force THEN None
                             ELSE [x \in Orgs |-> IF x \in Existing(org) THEN Visible(org, x) ELSE {}]
  OBVIOUS
<1> DEFINE q == [op |-> "move", id |-> o, at |-> "read", parent |-> p, above |-> None,
                 copy |-> None, from |-> <<>>, todo |-> {}, force |-> force, before |-> before]
<1>1. /\ TreeTypeOK /\ o \in Existing(org) /\ p \in Existing(org) /\ p \notin Subtree(org, o)
      /\ force \/ ~ RequiresConfirmation(o, p)
      /\ StartChange(w, "move", o, "read", p, None, None, force, before)
  BY <1>0 DEF TreeInv, BeginMove, MayMove
<1>2. PICK F \in Lines : Follow(F, None) /\ Grown(org, F) /\ Quiet(F)
  BY <1>1, Idle DEF StartChange
<1>3. \A x \in Existing(org) : Visible(org, x) \subseteq Items
  BY <1>1, <1>2, RowsOf, VisibleIs
<1>4. before \in [Orgs -> SUBSET Items] \union {None} /\ (~ force => before # None)
  BY <1>0, <1>3, TreeMarks
<1>5. q \in Change
  BY <1>1, <1>4 DEF Change, StartChange
<1>6. \A x \in Existing(org) : x \notin Subtree(org, o) => ~ IsPrefix(F[o], F[x])
  <2>1. \A x \in Existing(org) : EffectivePath(x, org[x]) = F[x]
    BY <1>1, <1>2, RowsOf DEF Quiet, EffectivePath
  <2>2. \A x \in Existing(org) : x \notin Subtree(org, o) => x # o /\ ~ IsStrictPrefix(F[o], F[x])
    BY <1>1, <2>1 DEF Subtree, SubtreeByPath
  <2>. QED
    BY <1>1, <1>2, <2>2, InLine
<1>7. Plan(F, q)
  BY <1>1, <1>6 DEF Plan
<1>8. Foreseen(q)
  <2>1. ASSUME ~ force, NEW x \in Existing(org)
        PROVE  Visible(org, x) = before[x] /\ Visible(Simulated(o, p), x) = Visible(org, x)
    <3>1. Visible(org, x) = before[x]
      BY <1>0, <2>1 DEF Existing
    <3>2. CASE x \in Subtree(org, o)
      BY <1>1, <2>1, <3>1, <3>2 DEF RequiresConfirmation
    <3>3. CASE x \notin Subtree(org, o)
      BY <1>1, <1>2, <1>6, <3>1, <3>3, SeenAside
    <3>. QED
      BY <3>1, <3>2, <3>3
  <2>. QED
    BY <1>4, <2>1 DEF Foreseen
<1>. QED
  BY <1>1, <1>2, <1>5, <1>7, <1>8, BeginKeeps DEF StartChange

-----------------------------------------------------------------------------
(* The steps of a change under way.                                        *)

(* While a change is under way nobody reads alone. *)
LEMMA WhileBusy ==
  ASSUME TreeInv, NEW w \in Writers, writers[w] # None
  PROVE  /\ TreeTypeOK /\ writers[w] \in Change
         /\ \A r \in Readers : readers[r] # None => ~ readers[r].alone
         /\ \E F \in Lines : /\ Grown(org, F) /\ Paths(F, writers[w]) /\ Lists(F, writers[w])
                             /\ Plan(F, writers[w]) /\ Foreseen(writers[w])
<1>1. PICK F : TreeTypeOK /\ Follow(F, writers[w])
  BY DEF TreeInv
<1>2. writers[w] \in Change
  BY <1>1 DEF TreeTypeOK
<1>3. \A r \in Readers : readers[r] # None => ~ readers[r].alone
  BY <1>1 DEF Follow, Reads
<1>. QED
  BY <1>1, <1>2, <1>3 DEF Follow

LEMMA ChangeKeeps ==
  ASSUME TreeInv, OneWriter, NEW w \in Writers, writers[w] # None,
         NEW q \in Change \union {None}, writers' = [writers EXCEPT ![w] = q], UNCHANGED readers,
         org' \in [Orgs -> OrgRow \union {Fresh, Gone}],
         cache' \in [Orgs -> [ids : SUBSET Orgs, alone : BOOLEAN] \union {None}],
         NEW G \in Lines, Grown(org', G), Paths(G, q)', Lists(G, q)',
         q # None => Plan(G, q)' /\ Foreseen(q)'
  PROVE  TreeInv'
<1>1. TreeTypeOK /\ \A r \in Readers : readers[r] # None => ~ readers[r].alone
  BY WhileBusy
<1>2. writers'[w] = q /\ TreeTypeOK'
  BY <1>1 DEF TreeTypeOK
<1>3. Reads(G)'
  BY <1>1 DEF Reads
<1>4. Follow(G, q)'
  BY <1>3 DEF Follow
<1>. QED
  BY <1>2, <1>4, GoesOn

(* One row is written. *)
LEMMA RowChanges ==
  ASSUME NEW tree \in [Orgs -> OrgRow \union {Fresh, Gone}],
         NEW o \in Orgs, NEW row \in OrgRow, NEW other, other = [tree EXCEPT ![o] = row]
  PROVE  /\ other \in [Orgs -> OrgRow \union {Fresh, Gone}]
         /\ Existing(other) = Existing(tree) \union {o}
         /\ other[o] = row /\ \A x \in Orgs \ {o} : other[x] = tree[x]
<1>1. /\ other \in [Orgs -> OrgRow \union {Fresh, Gone}]
      /\ other[o] = row /\ \A x \in Orgs \ {o} : other[x] = tree[x]
  OBVIOUS
<1>. QED
  BY <1>1, TreeMarks DEF Existing

(* Parents and rules are what they were. *)
LEMMA SightKept ==
  ASSUME TreeTypeOK, NEW F, Grown(org, F), NEW other, Existing(other) = Existing(org),
         \A x \in Existing(org) : /\ other[x].parent = org[x].parent
                                  /\ other[x].rules = org[x].rules
                                  /\ other[x].defaults = org[x].defaults
  PROVE  Grown(other, F) /\ \A x \in Existing(org) : Visible(other, x) = Visible(org, x)
<1>1. Grown(other, F)
  BY GrownSame
<1>2. ASSUME NEW x \in Existing(org) PROVE Visible(other, x) = Visible(org, x)
  <2>1. \A k \in 1 .. Len(F[x]) : F[x][k] \in Existing(org)
    BY DEF Grown
  <2>2. Ruled(org, F[x])
    BY RowsOf
  <2>. QED
    BY <1>1, <2>1, <2>2, VisibleSame
<1>. QED
  BY <1>1, <1>2

(* The same of the tree itself. *)
LEMMA RowWritten ==
  ASSUME TreeTypeOK, NEW o \in Orgs, NEW row \in OrgRow, org' = [org EXCEPT ![o] = row]
  PROVE  /\ org' \in [Orgs -> OrgRow \union {Fresh, Gone}]
         /\ Existing(org') = Existing(org) \union {o}
         /\ org'[o] = row /\ \A x \in Orgs \ {o} : org'[x] = org[x]
<1>1. PICK new : new = org'
  OBVIOUS
<1>2. org \in [Orgs -> OrgRow \union {Fresh, Gone}] /\ new = [org EXCEPT ![o] = row]
  BY <1>1 DEF TreeTypeOK
<1>3. /\ new \in [Orgs -> OrgRow \union {Fresh, Gone}]
      /\ Existing(new) = Existing(org) \union {o}
      /\ new[o] = row /\ \A x \in Orgs \ {o} : new[x] = org[x]
  BY <1>2, RowChanges
<1>. QED
  BY <1>1, <1>3

LEMMA InsertKeeps ==
  ASSUME TreeInv, OneWriter, NEW w \in Writers, InsertOrg(w)
  PROVE  TreeInv'
<1>0. PICK c, o : c = writers[w] /\ o = c.id
  OBVIOUS
<1>1. c # None /\ c = writers[w] /\ c.op = "create" /\ c.at = "insert"
  BY <1>0 DEF InsertOrg, Doing
<1>2. TreeTypeOK /\ c \in Change
  BY <1>1, WhileBusy
<1>3. PICK F \in Lines : Grown(org, F) /\ Paths(F, c) /\ Plan(F, c)
  BY <1>1, WhileBusy
<1>4. PICK p : p = IF c.above = None THEN None ELSE c.parent
  OBVIOUS
<1>5. o = c.id /\ o \in Orgs /\ org[o] = Fresh /\ p \in Existing(org) \union {None}
      /\ (c.above # None => p = c.parent /\ p \in Existing(org) /\ c.above = org[p])
  BY <1>0, <1>1, <1>2, <1>3, <1>4 DEF Plan, Change
<1>6. PICK row : row = [Top(o) EXCEPT !.parent = p, !.path = <<>>]
  OBVIOUS
<1>7. row \in OrgRow /\ row.parent = p
  <2>1. row = [parent |-> p, path |-> <<>>, rules |-> None, defaults |-> None]
    BY <1>6 DEF Top
  <2>2. p \in Orgs \union {None}
    BY <1>5 DEF Existing
  <2>. QED
    BY <2>1, <2>2 DEF OrgRow
<1>8. org' = [org EXCEPT ![o] = row] /\ Proceed(w, "path") /\ UNCHANGED <<readers, cache>>
  <2>1. HasParent(row)
    BY <1>5, <1>7 DEF HasParent
  <2>. QED
    BY <1>0, <1>1, <1>4, <1>6, <2>1 DEF InsertOrg
<1>9. /\ org' \in [Orgs -> OrgRow \union {Fresh, Gone}]
      /\ Existing(org') = Existing(org) \union {o}
      /\ org'[o] = row /\ \A x \in Orgs \ {o} : org'[x] = org[x]
  BY <1>2, <1>5, <1>7, <1>8, RowWritten
<1>10. PICK q : q = [c EXCEPT !.at = "path"]
  OBVIOUS
<1>11. /\ q \in Change /\ q # None /\ q.at = "path" /\ q.op = "create" /\ q.id = o /\ q.above = c.above
       /\ writers' = [writers EXCEPT ![w] = q]
  BY <1>0, <1>1, <1>2, <1>8, <1>10, TreeMarks DEF Change, Proceed
<1>12. PICK line : line = IF p = None THEN <<o>> ELSE Append(F[p], o)
  OBVIOUS
<1>13. PICK G : G = [F EXCEPT ![o] = line]
  OBVIOUS
<1>14. o \notin Existing(org)
  BY <1>5 DEF Existing
<1>15. \A x \in Existing(org) : x \in Orgs \ {o}
  BY <1>14 DEF Existing
<1>16. G \in Lines /\ Grown(org', G)
  <2>1. \A x \in Existing(org) : org'[x].parent = org[x].parent
    BY <1>9, <1>15
  <2>2. PICK new : new = org'
    OBVIOUS
  <2>3. /\ Existing(new) = Existing(org) \union {o} /\ new[o].parent = p
        /\ \A x \in Existing(org) : new[x].parent = org[x].parent
    BY <1>7, <1>9, <2>1, <2>2
  <2>4. G \in Lines /\ Grown(new, G)
    <3>1. o \in Orgs /\ p \in Existing(org) \union {None} /\ Grown(org, F) /\ F \in Lines
      BY <1>3, <1>5
    <3>2. [F EXCEPT ![o] = line] \in Lines /\ Grown(new, [F EXCEPT ![o] = line])
      BY ONLY <1>12, <1>14, <2>3, <3>1, GrownMore
    <3>. QED
      BY <1>13, <3>2
  <2>. QED
    BY <2>2, <2>4
<1>17. G[o] = line /\ \A x \in Orgs \ {o} : G[x] = F[x]
  BY <1>5, <1>13 DEF Lines
<1>18. Quiet(F)
  BY <1>1, <1>3 DEF Paths
<1>19. line = PathBelow(c.above, o)
  <2>1. \A x \in Existing(org) : org[x].path = F[x] /\ F[x] # <<>> /\ org[x] # None
    BY <1>2, <1>3, <1>18, RowsOf DEF Quiet
  <2>2. CASE c.above = None
    BY <1>4, <1>12, <2>2 DEF PathBelow
  <2>3. CASE c.above # None
    <3>1. c.above = org[p] /\ p \in Orgs /\ org[p].path = F[p] /\ F[p] # <<>>
      BY <1>5, <2>1, <2>3 DEF Existing
    <3>2. p # None
      BY <3>1, TreeMarks
    <3>. QED
      BY <1>12, <2>3, <3>1, <3>2 DEF PathBelow
  <2>. QED
    BY <2>2, <2>3
<1>20. Paths(G, q)'
  <2>1. \A x \in Existing(org) : org'[x].path # <<>> /\ G[x] = org'[x].path
    BY <1>2, <1>3, <1>9, <1>15, <1>17, <1>18, RowsOf DEF Quiet
  <2>2. G[q.id] = PathBelow(q.above, q.id)
    BY <1>11, <1>17, <1>19
  <2>. QED
    BY <1>9, <1>11, <2>1, <2>2 DEF Paths
<1>21. Lists(G, q)' /\ Plan(G, q)' /\ Foreseen(q)'
  BY <1>11 DEF Lists, Plan, Foreseen
<1>. QED
  BY <1>0, <1>1, <1>2, <1>8, <1>9, <1>11, <1>16, <1>20, <1>21, ChangeKeeps DEF TreeTypeOK

(* A path is written: the tree and what it shows stay. *)
LEMMA PathWritten ==
  ASSUME TreeTypeOK, NEW F \in Lines, Grown(org, F), NEW o \in Existing(org),
         NEW row \in OrgRow, row.parent = org[o].parent, row.rules = org[o].rules,
         row.defaults = org[o].defaults, org' = [org EXCEPT ![o] = row]
  PROVE  /\ org' \in [Orgs -> OrgRow \union {Fresh, Gone}] /\ Existing(org') = Existing(org)
         /\ org'[o] = row /\ \A x \in Existing(org) \ {o} : org'[x] = org[x]
         /\ Grown(org', F)
         /\ \A x \in Existing(org) : Visible(org', x) = Visible(org, x)
<1>1. o \in Orgs /\ Existing(org) \subseteq Orgs
  BY DEF Existing
<1>2. PICK new : new = org'
  OBVIOUS
<1>3. /\ new \in [Orgs -> OrgRow \union {Fresh, Gone}] /\ Existing(new) = Existing(org)
      /\ new[o] = row /\ \A x \in Existing(org) \ {o} : new[x] = org[x]
  <2>1. /\ org' \in [Orgs -> OrgRow \union {Fresh, Gone}]
        /\ Existing(org') = Existing(org) \union {o}
        /\ org'[o] = row /\ \A x \in Orgs \ {o} : org'[x] = org[x]
    BY <1>1, RowWritten
  <2>2. Existing(org) \union {o} = Existing(org) /\ \A x \in Existing(org) \ {o} : x \in Orgs \ {o}
    BY <1>1
  <2>. QED
    BY <1>2, <2>1, <2>2
<1>4. \A x \in Existing(org) : /\ new[x].parent = org[x].parent
                               /\ new[x].rules = org[x].rules
                               /\ new[x].defaults = org[x].defaults
  BY <1>3
<1>5. Grown(new, F) /\ \A x \in Existing(org) : Visible(new, x) = Visible(org, x)
  BY <1>3, <1>4, SightKept
<1>. QED
  BY <1>2, <1>3, <1>5

LEMMA NewPathKeeps ==
  ASSUME TreeInv, OneWriter, NEW w \in Writers, WriteNewPath(w)
  PROVE  TreeInv'
<1>0. PICK c, o : c = writers[w] /\ o = c.id
  OBVIOUS
<1>1. c # None /\ c = writers[w] /\ c.op = "create" /\ c.at = "path"
  BY <1>0 DEF WriteNewPath, Doing
<1>2. TreeTypeOK /\ c \in Change
  BY <1>1, WhileBusy
<1>3. PICK F \in Lines : Grown(org, F) /\ Paths(F, c)
  BY <1>1, WhileBusy
<1>4. /\ o \in Existing(org) /\ o \in Orgs /\ F[o] = PathBelow(c.above, o)
      /\ \A x \in Existing(org) \ {o} : F[x] = org[x].path
  BY <1>0, <1>1, <1>3 DEF Paths, Existing
<1>5. PICK row : row = [org[o] EXCEPT !.path = F[o]]
  OBVIOUS
<1>6. /\ row \in OrgRow /\ row.parent = org[o].parent /\ row.rules = org[o].rules
      /\ row.defaults = org[o].defaults /\ row.path = F[o]
  <2>1. org[o] \in OrgRow /\ F[o] \in Seq(Orgs)
    BY <1>2, <1>3, <1>4, RowsOf
  <2>. QED
    BY <1>5, <2>1 DEF OrgRow
<1>7. org' = [org EXCEPT ![o] = row] /\ Proceed(w, "clear") /\ UNCHANGED <<readers, cache>>
  BY <1>0, <1>1, <1>4, <1>5 DEF WriteNewPath
<1>8. /\ org' \in [Orgs -> OrgRow \union {Fresh, Gone}] /\ Existing(org') = Existing(org)
      /\ org'[o] = row /\ \A x \in Existing(org) \ {o} : org'[x] = org[x]
      /\ Grown(org', F)
  BY <1>2, <1>3, <1>4, <1>6, <1>7, PathWritten
<1>9. PICK q : q = [c EXCEPT !.at = "clear"]
  OBVIOUS
<1>10. /\ q \in Change /\ q # None /\ q.at = "clear" /\ q.op = "create"
       /\ writers' = [writers EXCEPT ![w] = q]
  BY <1>1, <1>2, <1>7, <1>9, TreeMarks DEF Change, Proceed
<1>11. Quiet(F)'
  BY <1>4, <1>6, <1>8 DEF Quiet
<1>12. Paths(F, q)' /\ Lists(F, q)' /\ Plan(F, q)' /\ Foreseen(q)'
  BY <1>10, <1>11 DEF Paths, Lists, Plan, Foreseen
<1>. QED
  BY <1>1, <1>2, <1>3, <1>7, <1>8, <1>10, <1>12, ChangeKeeps DEF TreeTypeOK

LEMMA ReadKeeps ==
  ASSUME TreeInv, OneWriter, NEW w \in Writers, ReadMoved(w)
  PROVE  TreeInv'
<1>0. PICK c : c = writers[w]
  OBVIOUS
<1>1. c # None /\ c = writers[w] /\ c.op = "move" /\ c.at = "read"
  BY <1>0 DEF ReadMoved, Doing
<1>2. TreeTypeOK /\ c \in Change
  BY <1>1, WhileBusy
<1>3. PICK F \in Lines : /\ Grown(org, F) /\ Paths(F, c) /\ Lists(F, c)
                         /\ Plan(F, c) /\ Foreseen(c)
  BY <1>1, WhileBusy
<1>4. /\ c.id \in Existing(org) /\ c.parent \in Existing(org) /\ ~ IsPrefix(F[c.id], F[c.parent])
  BY <1>1, <1>3 DEF Plan
<1>5. Quiet(F)
  BY <1>1, <1>3 DEF Paths
<1>6. /\ EffectivePath(c.id, org[c.id]) = F[c.id] /\ F[c.id] \in Seq(Orgs)
      /\ org[c.id] \in OrgRow /\ org[c.parent] \in OrgRow
  BY <1>2, <1>3, <1>4, <1>5, RowsOf DEF Quiet, EffectivePath
<1>7. Found(c.parent) = org[c.parent]
  <2>1. c.parent # None
    BY <1>4, TreeMarks DEF Existing
  <2>. QED
    BY <1>4, <2>1 DEF Found
<1>8. PICK q : q = [c EXCEPT !.at = "save", !.copy = org[c.id], !.above = org[c.parent],
                             !.from = F[c.id]]
  OBVIOUS
<1>9. /\ q \in Change /\ q # None /\ q.at = "save" /\ q.op = "move" /\ q.id = c.id
      /\ q.parent = c.parent /\ q.force = c.force /\ q.before = c.before
      /\ q.copy = org[q.id] /\ q.above = org[q.parent] /\ q.from = F[q.id]
  <2> DEFINE copy  == org[c.id]
             above == org[c.parent]
             from  == F[c.id]
  <2>0. q = [c EXCEPT !.at = "save", !.copy = copy, !.above = above, !.from = from]
    BY <1>8
  <2> HIDE DEF copy, above, from
  <2>1. /\ q.at = "save" /\ q.op = "move" /\ q.id = c.id
        /\ q.parent = c.parent /\ q.force = c.force /\ q.before = c.before
        /\ q.copy = copy /\ q.above = above /\ q.from = from
    BY <1>1, <1>2, <2>0 DEF Change
  <2>2. q \in Change
    <3>1. copy \in OrgRow \union {None} /\ above \in OrgRow \union {None} /\ from \in Seq(Orgs)
      BY <1>6 DEF copy, above, from
    <3>. QED
      BY <1>2, <2>0, <3>1 DEF Change
  <2>. QED
    BY <2>1, <2>2, TreeMarks DEF copy, above, from
<1>10. writers' = [writers EXCEPT ![w] = q] /\ UNCHANGED <<org, readers, cache>>
  BY <1>0, <1>1, <1>2, <1>4, <1>6, <1>7, <1>8 DEF ReadMoved, TreeTypeOK
<1>11. Paths(F, q)' /\ Lists(F, q)'
  BY <1>1, <1>3, <1>5, <1>9, <1>10 DEF Paths, Quiet, Lists, Under
<1>12. Plan(F, q)'
  BY <1>4, <1>9, <1>10 DEF Plan
<1>13. Foreseen(q)'
  BY <1>1, <1>3, <1>9, <1>10 DEF Foreseen, Simulated
<1>. QED
  BY <1>1, <1>2, <1>3, <1>9, <1>10, <1>11, <1>12, <1>13, ChangeKeeps DEF TreeTypeOK

LEMMA SaveKeeps ==
  ASSUME TreeInv, OneWriter, NEW w \in Writers, SaveMoved(w)
  PROVE  TreeInv'
<1>0. PICK c, o, p : c = writers[w] /\ o = c.id /\ p = c.parent
  OBVIOUS
<1>1. c # None /\ c = writers[w] /\ c.op = "move" /\ c.at = "save"
  BY <1>0 DEF SaveMoved, Doing
<1>2. TreeTypeOK /\ c \in Change
  BY <1>1, WhileBusy
<1>3. PICK F \in Lines : Grown(org, F) /\ Paths(F, c) /\ Plan(F, c) /\ Foreseen(c)
  BY <1>1, WhileBusy
<1>4. /\ o \in Existing(org) /\ p \in Existing(org) /\ ~ IsPrefix(F[o], F[p])
      /\ c.copy = org[o] /\ c.above = org[p] /\ c.from = F[o]
  BY <1>0, <1>1, <1>3 DEF Plan
<1>5. Quiet(F)
  BY <1>1, <1>3 DEF Paths
<1>6. /\ o \in Orgs /\ p \in Orgs /\ org[o] \in OrgRow /\ org[p] # None
      /\ F[o] \in Seq(Orgs) /\ F[p] \in Seq(Orgs)
      /\ \A x \in Existing(org) : org[x].path = F[x] /\ F[x] # <<>> /\ x \in Orgs
  BY <1>2, <1>3, <1>4, <1>5, RowsOf DEF Quiet
<1>7. PICK row : row = [org[o] EXCEPT !.parent = p, !.rules = None]
  OBVIOUS
<1>8. row \in OrgRow /\ row.parent = p /\ row.path = org[o].path
  BY <1>6, <1>7 DEF OrgRow
<1>9. org' = [org EXCEPT ![o] = row] /\ Proceed(w, "path") /\ UNCHANGED <<readers, cache>>
  <2>1. HasParent(row)
    BY <1>4, <1>8 DEF HasParent
  <2>. QED
    BY <1>0, <1>1, <1>4, <1>6, <1>7, <2>1 DEF SaveMoved
<1>10. PICK new : new = org'
  OBVIOUS
<1>11. /\ new \in [Orgs -> OrgRow \union {Fresh, Gone}] /\ Existing(new) = Existing(org)
       /\ new[o] = row /\ \A x \in Orgs \ {o} : new[x] = org[x]
  <2>1. /\ org' \in [Orgs -> OrgRow \union {Fresh, Gone}]
        /\ Existing(org') = Existing(org) \union {o}
        /\ org'[o] = row /\ \A x \in Orgs \ {o} : org'[x] = org[x]
    BY <1>2, <1>6, <1>8, <1>9, RowWritten
  <2>. QED
    BY <1>4, <1>10, <2>1
<1>12. new = Simulated(o, p)
  BY <1>2, <1>6, <1>7, <1>9, <1>10 DEF Simulated, TreeTypeOK
<1>13. PICK q : q = [c EXCEPT !.at = "path"]
  OBVIOUS
<1>14. /\ q.at = "path" /\ q.op = "move" /\ q.id = o /\ q.parent = p /\ q.above = org[p]
       /\ q.from = F[o] /\ q.force = c.force /\ q.before = c.before
  BY <1>0, <1>1, <1>2, <1>4, <1>13 DEF Change
<1>15. q \in Change /\ q # None /\ writers' = [writers EXCEPT ![w] = q]
  BY <1>1, <1>2, <1>9, <1>13, TreeMarks DEF Change, Proceed
<1>16. PICK G : G = Redirected(F, o, p)
  OBVIOUS
<1>17. G \in Lines /\ Grown(new, G)
  <2>1. new[o].parent = p /\ \A x \in Existing(org) \ {o} : new[x].parent = org[x].parent
    BY <1>6, <1>8, <1>11
  <2>. QED
    BY <1>3, <1>4, <1>11, <1>16, <2>1, GrownMoved
<1>18. /\ \A x \in Orgs : G[x] = IF IsPrefix(F[o], F[x])
                                 THEN Append(F[p], o) \o SubSeq(F[x], Len(F[o]) + 1, Len(F[x]))
                                 ELSE F[x]
       /\ PathBelow(q.above, o) = Append(F[p], o)
  BY <1>4, <1>6, <1>14, <1>16 DEF Redirected, PathBelow
<1>19. G[o] = PathBelow(q.above, o)
  <2>1. IsPrefix(F[o], F[o])
    BY <1>6, PrefixIs
  <2>2. SubSeq(F[o], Len(F[o]) + 1, Len(F[o])) = <<>>
    BY <1>6
  <2>3. Append(F[p], o) \o <<>> = Append(F[p], o)
    BY <1>6
  <2>. QED
    BY <1>6, <1>18, <2>1, <2>2, <2>3
<1>20. ASSUME NEW x \in Existing(org) \ {o}
       PROVE  new[x].path # <<>> /\ G[x] = Target(q, new[x])
  <2>1. new[x].path = F[x] /\ F[x] # <<>> /\ x \in Orgs
    BY <1>6, <1>11
  <2>2. IsStrictPrefix(F[o], F[x]) <=> IsPrefix(F[o], F[x])
    BY <1>3, <1>4, <1>20, InLine
  <2>. QED
    BY <1>14, <1>18, <2>1, <2>2 DEF Target
<1>21. Paths(G, q)'
  <2>1. ASSUME NEW x \in Existing(new) \ {o}
        PROVE  new[x].path # <<>> /\ G[x] = Target(q, new[x])
    <3>1. x \in Existing(org) \ {o}
      BY <1>11
    <3>. QED
      BY <1>20, <3>1
  <2>2. o \in Existing(new) /\ Existing(org') = Existing(new)
    BY <1>4, <1>10, <1>11
  <2>3. /\ q.id \in Existing(org') /\ G[q.id] = PathBelow(q.above, q.id)
        /\ \A x \in Existing(org') \ {q.id} : org'[x].path # <<>> /\ G[x] = Target(q, org'[x])
    <3>1. G[q.id] = PathBelow(q.above, q.id)
      BY <1>14, <1>19
    <3>. QED
      BY <1>10, <1>14, <2>1, <2>2, <3>1
  <2>4. q # None /\ q.op # "create" /\ q.at \notin {"find", "rewrite"}
    BY <1>14, <1>15
  <2>. QED
    BY <1>14, <2>3, <2>4 DEF Paths, Target
<1>22. Lists(G, q)' /\ Plan(G, q)'
  BY <1>6, <1>7, <1>10, <1>11, <1>14, <1>15 DEF Lists, Plan, OrgRow
<1>23. Foreseen(q)'
  <2>1. ~ c.force => c.before # None /\ \A x \in Existing(org) : Visible(new, x) = c.before[x]
    BY <1>0, <1>1, <1>3, <1>12 DEF Foreseen
  <2>. QED
    BY <1>10, <1>11, <1>14, <2>1 DEF Foreseen
<1>. QED
  BY <1>1, <1>2, <1>9, <1>10, <1>11, <1>15, <1>17, <1>21, <1>22, <1>23, ChangeKeeps DEF TreeTypeOK

LEMMA MovedPathKeeps ==
  ASSUME TreeInv, OneWriter, NEW w \in Writers, WriteMovedPath(w)
  PROVE  TreeInv'
<1>0. PICK c, o : c = writers[w] /\ o = c.id
  OBVIOUS
<1>1. c # None /\ c = writers[w] /\ c.op = "move" /\ c.at = "path"
  BY <1>0 DEF WriteMovedPath, Doing
<1>2. TreeTypeOK /\ c \in Change
  BY <1>1, WhileBusy
<1>3. PICK F \in Lines : Grown(org, F) /\ Paths(F, c) /\ Plan(F, c) /\ Foreseen(c)
  BY <1>1, WhileBusy
<1>4. /\ o \in Existing(org) /\ o \in Orgs /\ F[o] = PathBelow(c.above, o) /\ org[o].rules = None
      /\ \A x \in Existing(org) \ {o} : org[x].path # <<>> /\ F[x] = Target(c, org[x])
  BY <1>0, <1>1, <1>3 DEF Paths, Plan, Existing
<1>5. PICK row : row = [org[o] EXCEPT !.path = F[o], !.rules = None]
  OBVIOUS
<1>6. /\ row \in OrgRow /\ row.parent = org[o].parent /\ row.rules = org[o].rules
      /\ row.defaults = org[o].defaults /\ row.path = F[o]
  <2>1. org[o] \in OrgRow /\ F[o] \in Seq(Orgs)
    BY <1>2, <1>3, <1>4, RowsOf
  <2>. QED
    BY <1>4, <1>5, <2>1 DEF OrgRow
<1>7. org' = [org EXCEPT ![o] = row] /\ Proceed(w, "find") /\ UNCHANGED <<readers, cache>>
  BY <1>0, <1>1, <1>2, <1>4, <1>5 DEF WriteMovedPath, TreeTypeOK
<1>8. /\ org' \in [Orgs -> OrgRow \union {Fresh, Gone}] /\ Existing(org') = Existing(org)
      /\ org'[o] = row /\ \A x \in Existing(org) \ {o} : org'[x] = org[x]
      /\ Grown(org', F)
      /\ \A x \in Existing(org) : Visible(org', x) = Visible(org, x)
  BY <1>2, <1>3, <1>4, <1>6, <1>7, PathWritten
<1>9. PICK q : q = [c EXCEPT !.at = "find"]
  OBVIOUS
<1>10. /\ q.at = "find" /\ q.op = "move" /\ q.id = o /\ q.above = c.above
       /\ q.from = c.from /\ q.force = c.force /\ q.before = c.before
  BY <1>0, <1>1, <1>2, <1>9 DEF Change
<1>11. q \in Change /\ q # None /\ writers' = [writers EXCEPT ![w] = q]
  BY <1>1, <1>2, <1>7, <1>9, TreeMarks DEF Change, Proceed
<1>12. \A any : Target(q, any) = Target(c, any)
  BY <1>0, <1>10 DEF Target
<1>13. Paths(F, q)'
  <2>1. ASSUME NEW x \in Existing(org) \ {o}
        PROVE  org'[x].path # <<>> /\ F[x] = Target(q, org'[x])
    <3>1. org'[x] = org[x] /\ org[x].path # <<>> /\ F[x] = Target(c, org[x])
      BY <1>4, <1>8
    <3>2. Target(q, org[x]) = Target(c, org[x])
      BY <1>12
    <3>. QED
      BY <3>1, <3>2
  <2>. QED
    BY <1>4, <1>6, <1>8, <1>10, <1>11, <2>1 DEF Paths, Target
<1>14. Lists(F, q)' /\ Plan(F, q)'
  BY <1>10, <1>11 DEF Lists, Plan
<1>15. Foreseen(q)'
  <2>1. ~ c.force => c.before # None /\ \A x \in Existing(org) : Visible(org', x) = c.before[x]
    BY <1>1, <1>3, <1>8 DEF Foreseen
  <2>. QED
    BY <1>8, <1>10, <2>1 DEF Foreseen
<1>. QED
  BY <1>1, <1>2, <1>3, <1>7, <1>8, <1>11, <1>13, <1>14, <1>15, ChangeKeeps DEF TreeTypeOK

LEMMA SearchKeeps ==
  ASSUME TreeInv, OneWriter, NEW w \in Writers, FindDescendants(w)
  PROVE  TreeInv'
<1>0. PICK c, o : c = writers[w] /\ o = c.id
  OBVIOUS
<1>1. c # None /\ c = writers[w] /\ c.op = "move" /\ c.at = "find"
  BY <1>0 DEF FindDescendants, Doing
<1>2. TreeTypeOK /\ c \in Change
  BY <1>1, WhileBusy
<1>3. PICK F \in Lines : Grown(org, F) /\ Paths(F, c) /\ Plan(F, c) /\ Foreseen(c)
  BY <1>1, WhileBusy
<1>4. /\ o \in Existing(org) /\ F[o] = PathBelow(c.above, o) /\ org[o].path = F[o]
      /\ \A x \in Existing(org) \ {o} : org[x].path # <<>> /\ F[x] = Target(c, org[x])
  BY <1>0, <1>1, <1>3 DEF Paths
<1>5. PICK below : below = Descendants(c)
  OBVIOUS
<1>6. \A x \in Existing(org) \ {o} : EffectivePath(x, org[x]) = org[x].path
  BY <1>4 DEF EffectivePath
<1>7. \A t : t \in below <=>
             \E x \in Existing(org) \ {o} : IsStrictPrefix(c.from, org[x].path) /\ t = <<x, F[x]>>
  <2>1. \A x : x \in SubtreeByPath(org, c.from) \ {c.id} <=>
               x \in Existing(org) \ {o} /\ IsStrictPrefix(c.from, org[x].path)
    BY <1>0, <1>6 DEF SubtreeByPath
  <2>2. \A x \in SubtreeByPath(org, c.from) \ {c.id} :
           F[x] = PathBelow(c.above, c.id) \o
                  SubSeq(EffectivePath(x, org[x]), Len(c.from) + 1, Len(EffectivePath(x, org[x])))
    BY <1>4, <1>6, <2>1 DEF Target
  <2>3. \A t : t \in below <=>
               \E x \in SubtreeByPath(org, c.from) \ {c.id} :
                 t = <<x, PathBelow(c.above, c.id) \o
                          SubSeq(EffectivePath(x, org[x]), Len(c.from) + 1,
                                 Len(EffectivePath(x, org[x])))>>
    BY <1>5 DEF Descendants
  <2>4. \A t : t \in below <=> \E x \in SubtreeByPath(org, c.from) \ {c.id} : t = <<x, F[x]>>
    BY <2>2, <2>3
  <2>. QED
    BY <2>1, <2>4
<1>8. below \in SUBSET (Orgs \X Seq(Orgs))
  <2>1. \A x \in Existing(org) : x \in Orgs /\ F[x] \in Seq(Orgs)
    BY <1>2, <1>3, RowsOf
  <2>. QED
    BY <1>7, <2>1
<1>9. PICK next : next = IF below = {} THEN "clear" ELSE "rewrite"
  OBVIOUS
<1>10. PICK q : q = [c EXCEPT !.at = next, !.todo = below]
  OBVIOUS
<1>11. /\ q.at = next /\ q.op = "move" /\ q.todo = below /\ q.force = c.force /\ q.before = c.before
  BY <1>0, <1>1, <1>2, <1>10 DEF Change
<1>12. q \in Change /\ q # None
  <2>1. next \in {"clear", "rewrite"}
    BY <1>9
  <2>2. q \in Change
    BY <1>2, <1>8, <1>10, <2>1 DEF Change
  <2>. QED
    BY <2>2, TreeMarks
<1>13. writers' = [writers EXCEPT ![w] = q] /\ UNCHANGED <<org, readers, cache>>
  BY <1>1, <1>2, <1>5, <1>9, <1>10 DEF FindDescendants, TreeTypeOK
<1>14. Paths(F, q)'
  <2>1. \A x \in Existing(org) : org[x].path = F[x] \/ \E t \in below : t[1] = x
    <3>1. ASSUME NEW x \in Existing(org), x # o, IsStrictPrefix(c.from, org[x].path)
          PROVE  \E t \in below : t[1] = x
      <4>1. <<x, F[x]>> \in below /\ <<x, F[x]>>[1] = x
        BY <1>7, <3>1
      <4>. QED
        BY <4>1
    <3>2. ASSUME NEW x \in Existing(org), x # o, ~ IsStrictPrefix(c.from, org[x].path)
          PROVE  org[x].path = F[x]
      BY <1>4, <3>2 DEF Target
    <3>. QED
      BY <1>4, <3>1, <3>2
  <2>2. \A t \in below : t[1] \in Existing(org) /\ t[2] = F[t[1]]
    BY <1>7
  <2>3. below = {} => Quiet(F)
    BY <2>1 DEF Quiet
  <2>4. Quiet(F) => Quiet(F)'
    BY <1>13 DEF Quiet
  <2>. QED
    BY <1>9, <1>11, <1>12, <1>13, <2>1, <2>2, <2>3, <2>4 DEF Paths
<1>15. Lists(F, q)' /\ Plan(F, q)'
  BY <1>9, <1>11, <1>12 DEF Lists, Plan
<1>16. Foreseen(q)'
  BY <1>1, <1>3, <1>9, <1>11, <1>13 DEF Foreseen
<1>. QED
  BY <1>1, <1>2, <1>3, <1>12, <1>13, <1>14, <1>15, <1>16, ChangeKeeps DEF TreeTypeOK

LEMMA RewriteKeeps ==
  ASSUME TreeInv, OneWriter, NEW w \in Writers, RewritePath(w)
  PROVE  TreeInv'
<1>0. PICK c, t : /\ c = writers[w] /\ t \in c.todo
                  /\ org' = IF t[1] \in Existing(org) THEN [org EXCEPT ![t[1]].path = t[2]] ELSE org
                  /\ writers' = [writers EXCEPT ![w].at = IF c.todo \ {t} = {} THEN "clear" ELSE "rewrite",
                                                ![w].todo = c.todo \ {t}]
  BY DEF RewritePath
<1>1. c # None /\ c = writers[w] /\ c.op = "move" /\ c.at = "rewrite" /\ UNCHANGED <<readers, cache>>
  BY <1>0 DEF RewritePath, Doing
<1>2. TreeTypeOK /\ c \in Change
  BY <1>1, WhileBusy
<1>3. PICK F \in Lines : Grown(org, F) /\ Paths(F, c) /\ Foreseen(c)
  BY <1>1, WhileBusy
<1>4. /\ \A s \in c.todo : s[1] \in Existing(org) /\ s[2] = F[s[1]]
      /\ \A x \in Existing(org) : org[x].path = F[x] \/ \E s \in c.todo : s[1] = x
  BY <1>1, <1>3 DEF Paths
<1>5. PICK o, rest, next : /\ o = t[1] /\ rest = c.todo \ {t}
                           /\ next = IF rest = {} THEN "clear" ELSE "rewrite"
  OBVIOUS
<1>6. o \in Existing(org) /\ t[2] = F[o]
  BY <1>0, <1>4, <1>5
<1>7. PICK row : row = [org[o] EXCEPT !.path = F[o]]
  OBVIOUS
<1>8. /\ row \in OrgRow /\ row.parent = org[o].parent /\ row.rules = org[o].rules
      /\ row.defaults = org[o].defaults /\ row.path = F[o]
  <2>1. org[o] \in OrgRow /\ F[o] \in Seq(Orgs)
    BY <1>2, <1>3, <1>6, RowsOf
  <2>. QED
    BY <1>7, <2>1 DEF OrgRow
<1>9. org' = [org EXCEPT ![o] = row]
  BY <1>0, <1>5, <1>6, <1>7
<1>10. /\ org' \in [Orgs -> OrgRow \union {Fresh, Gone}] /\ Existing(org') = Existing(org)
       /\ org'[o] = row /\ \A x \in Existing(org) \ {o} : org'[x] = org[x]
       /\ Grown(org', F)
       /\ \A x \in Existing(org) : Visible(org', x) = Visible(org, x)
  BY <1>2, <1>3, <1>6, <1>8, <1>9, PathWritten
<1>11. PICK q : q = [c EXCEPT !.at = next, !.todo = rest]
  OBVIOUS
<1>12. /\ q.at = next /\ q.op = "move" /\ q.todo = rest /\ q.force = c.force /\ q.before = c.before
  BY <1>1, <1>2, <1>11 DEF Change
<1>13. q \in Change /\ q # None /\ writers' = [writers EXCEPT ![w] = q]
  <2>1. rest \in SUBSET (Orgs \X Seq(Orgs))
    BY <1>2, <1>5 DEF Change
  <2>2. q \in Change
    BY <1>2, <1>5, <1>11, <2>1 DEF Change
  <2>. QED
    BY <1>0, <1>1, <1>2, <1>5, <1>11, <2>2, TreeMarks DEF TreeTypeOK
<1>14. Paths(F, q)'
  <2>1. \A x \in Existing(org) : org'[x].path = F[x] \/ \E s \in rest : s[1] = x
    <3>1. ASSUME NEW x \in Existing(org), x # o
          PROVE  org'[x].path = F[x] \/ \E s \in rest : s[1] = x
      BY <1>4, <1>5, <1>10, <3>1
    <3>. QED
      BY <1>8, <1>10, <3>1
  <2>2. \A s \in rest : s[1] \in Existing(org) /\ s[2] = F[s[1]]
    BY <1>4, <1>5
  <2>3. rest = {} => Quiet(F)'
    BY <1>10, <2>1 DEF Quiet
  <2>. QED
    BY <1>5, <1>10, <1>12, <1>13, <2>1, <2>2, <2>3 DEF Paths
<1>15. Lists(F, q)' /\ Plan(F, q)'
  BY <1>5, <1>12, <1>13 DEF Lists, Plan
<1>16. Foreseen(q)'
  <2>1. ~ c.force => c.before # None /\ \A x \in Existing(org) : Visible(org', x) = c.before[x]
    BY <1>1, <1>3, <1>10 DEF Foreseen
  <2>. QED
    BY <1>5, <1>10, <1>12, <2>1 DEF Foreseen
<1>. QED
  BY <1>1, <1>2, <1>3, <1>10, <1>13, <1>14, <1>15, <1>16, ChangeKeeps DEF TreeTypeOK

LEMMA DeleteKeeps ==
  ASSUME TreeInv, OneWriter, NEW w \in Writers, DeleteOrg(w)
  PROVE  TreeInv'
<1>0. PICK c, o : c = writers[w] /\ o = c.id
  OBVIOUS
<1>1. /\ c # None /\ c = writers[w] /\ c.op = "remove" /\ c.at = "delete"
      /\ Proceed(w, "clear") /\ UNCHANGED <<readers, cache>>
  BY <1>0 DEF DeleteOrg, Doing
<1>2. TreeTypeOK /\ c \in Change
  BY <1>1, WhileBusy
<1>3. PICK F \in Lines : Grown(org, F) /\ Paths(F, c) /\ Plan(F, c)
  BY <1>1, WhileBusy
<1>4. o \in Existing(org) /\ Under(F, o) = {o}
  BY <1>0, <1>1, <1>3 DEF Plan
<1>5. Quiet(F)
  BY <1>1, <1>3 DEF Paths
<1>6. PICK new : new = org'
  OBVIOUS
<1>7. \A x \in Existing(org) \ {o} : \A k \in 1 .. Len(F[x]) : F[x][k] # o
  <2>1. ASSUME NEW x \in Existing(org) \ {o} PROVE ~ IsPrefix(F[o], F[x])
    BY <1>4 DEF Under
  <2>. QED
    BY <1>3, <1>4, <2>1, InLine
<1>8. \A x \in Existing(org) \ {o} : org[x].parent # o
  <2>1. ASSUME NEW x \in Existing(org) \ {o} PROVE org[x].parent # o
    <3>1. Len(F[x]) \in Nat /\ Len(F[x]) # 0
      BY <1>3 DEF Grown
    <3>2. Len(F[x]) # 1 => Len(F[x]) - 1 \in 1 .. Len(F[x])
      <4>1. \A n \in Nat : n # 0 /\ n # 1 => n - 1 \in 1 .. n
        OBVIOUS
      <4>. QED
        BY <3>1, <4>1
    <3>3. o # None
      BY <1>4, TreeMarks DEF Existing
    <3>. QED
      BY <1>3, <1>7, <3>2, <3>3 DEF Grown
  <2>. QED
    BY <2>1
<1>9. new = [x \in Orgs |-> IF x = o THEN Gone ELSE org[x]]
  <2>1. \A x \in Orgs : x \in Existing(org) /\ x # o => org[x].parent # o
    BY <1>8
  <2>2. new = [x \in Orgs |-> IF x = o THEN Gone
                              ELSE IF x \in Existing(org) /\ org[x].parent = o
                              THEN [org[x] EXCEPT !.parent = None] ELSE org[x]]
    BY <1>0, <1>6 DEF DeleteOrg
  <2>. QED
    BY <2>1, <2>2
<1>10. /\ new \in [Orgs -> OrgRow \union {Fresh, Gone}]
       /\ \A x \in Orgs \ {o} : new[x] = org[x]
       /\ Existing(new) = Existing(org) \ {o}
  BY <1>2, <1>9 DEF TreeTypeOK, Existing
<1>11. Grown(new, F)
  <2>1. \A x \in Existing(org) \ {o} : new[x].parent = org[x].parent
    BY <1>10 DEF Existing
  <2>. QED
    BY <1>3, <1>7, <1>10, <2>1, GrownLess
<1>12. PICK q : q = [c EXCEPT !.at = "clear"]
  OBVIOUS
<1>13. /\ q \in Change /\ q # None /\ q.at = "clear" /\ q.op = "remove"
       /\ writers' = [writers EXCEPT ![w] = q]
  BY <1>1, <1>2, <1>12, TreeMarks DEF Change, Proceed
<1>14. Quiet(F)'
  <2>1. \A x \in Existing(new) : new[x].path = F[x]
    BY <1>5, <1>10 DEF Quiet, Existing
  <2>. QED
    BY <1>6, <2>1 DEF Quiet
<1>15. Paths(F, q)' /\ Lists(F, q)' /\ Plan(F, q)' /\ Foreseen(q)'
  BY <1>13, <1>14 DEF Paths, Lists, Plan, Foreseen
<1>. QED
  BY <1>1, <1>2, <1>3, <1>6, <1>10, <1>11, <1>13, <1>15, ChangeKeeps DEF TreeTypeOK

LEMMA EditKeeps ==
  ASSUME TreeInv, OneWriter, NEW w \in Writers, SaveEdited(w)
  PROVE  TreeInv'
<1>0. PICK c, o, row : c = writers[w] /\ o = c.id /\ row = c.copy
  OBVIOUS
<1>1. /\ c # None /\ c = writers[w] /\ c.op = "edit" /\ c.at = "write"
      /\ Finish(w) /\ UNCHANGED <<readers, cache>>
  BY <1>0 DEF SaveEdited, Doing
<1>2. TreeTypeOK /\ c \in Change
  BY <1>1, WhileBusy
<1>3. PICK F \in Lines : Grown(org, F) /\ Paths(F, c) /\ Lists(F, c) /\ Plan(F, c)
  BY <1>1, WhileBusy
<1>4. /\ o \in Existing(org) /\ o \in Orgs
      /\ row \in OrgRow /\ row.parent = org[o].parent /\ row.path = org[o].path
  BY <1>0, <1>1, <1>2, <1>3 DEF Plan, Existing, Change
<1>5. Quiet(F)
  BY <1>1, <1>3 DEF Paths
<1>6. org' = [org EXCEPT ![o] = row]
  <2>1. HasParent(row)
    BY <1>2, <1>3, <1>4, RowsOf DEF HasParent
  <2>. QED
    BY <1>0, <2>1 DEF SaveEdited
<1>7. PICK new : new = org'
  OBVIOUS
<1>8. /\ new \in [Orgs -> OrgRow \union {Fresh, Gone}] /\ Existing(new) = Existing(org)
      /\ new[o] = row /\ \A x \in Orgs \ {o} : new[x] = org[x]
  <2>1. /\ org' \in [Orgs -> OrgRow \union {Fresh, Gone}]
        /\ Existing(org') = Existing(org) \union {o}
        /\ org'[o] = row /\ \A x \in Orgs \ {o} : org'[x] = org[x]
    BY <1>2, <1>4, <1>6, RowWritten
  <2>. QED
    BY <1>4, <1>7, <2>1
<1>9. \A x \in Existing(org) : new[x].parent = org[x].parent /\ new[x].path = org[x].path
  BY <1>4, <1>8 DEF Existing
<1>10. Grown(new, F)
  BY <1>3, <1>8, <1>9, GrownSame
<1>11. writers' = [writers EXCEPT ![w] = None]
  BY <1>1 DEF Finish
<1>12. Paths(F, None)'
  <2>1. \A x \in Existing(new) : new[x].path = F[x]
    BY <1>5, <1>8, <1>9 DEF Quiet
  <2>. QED
    BY <1>7, <2>1 DEF Paths, Quiet
<1>13. Lists(F, None)'
  BY <1>1, <1>3, <1>7, <1>8 DEF Lists, Under
<1>. QED
  BY <1>1, <1>2, <1>3, <1>7, <1>8, <1>10, <1>11, <1>12, <1>13, ChangeKeeps DEF TreeTypeOK

LEMMA ClearKeeps ==
  ASSUME TreeInv, OneWriter, NEW w \in Writers, ClearSubtreeCache(w)
  PROVE  TreeInv'
<1>0. PICK c : c = writers[w]
  OBVIOUS
<1>1. /\ c # None /\ c = writers[w] /\ c.at = "clear" /\ UNCHANGED <<org, readers>>
      /\ writers' = [writers EXCEPT ![w] = None] /\ cache' = [o \in Orgs |-> None]
  BY <1>0 DEF ClearSubtreeCache, Finish
<1>2. TreeTypeOK
  BY <1>1, WhileBusy
<1>3. PICK F \in Lines : Grown(org, F) /\ Paths(F, c)
  BY <1>1, WhileBusy
<1>4. Paths(F, None)'
  BY <1>1, <1>3 DEF Paths, Quiet
<1>5. Lists(F, None)'
  BY <1>1 DEF Lists, Existing
<1>. QED
  BY <1>1, <1>2, <1>3, <1>4, <1>5, ChangeKeeps DEF TreeTypeOK

-----------------------------------------------------------------------------
(* The steps of those who read, and of time.                               *)

LEMMA Watched ==
  ASSUME TreeInv, UNCHANGED <<org, writers>>, TreeTypeOK',
         \A w \in Writers : \A F :
           F \in Lines /\ Follow(F, writers[w]) => Lists(F, writers[w])' /\ Reads(F)'
  PROVE  TreeInv'
<1>1. ASSUME NEW w \in Writers PROVE (\E F : Follow(F, writers[w]))'
  <2>1. PICK c : c = writers[w] /\ c = writers'[w]
    OBVIOUS
  <2>2. PICK F : Follow(F, c)
    BY <2>1 DEF TreeInv
  <2>3. F \in Lines /\ Grown(org, F)' /\ Paths(F, c)'
    <3>1. F \in Lines /\ Grown(org, F) /\ Paths(F, c)
      BY <2>2 DEF Follow
    <3>2. Paths(F, c) => Paths(F, c)'
      BY DEF Paths, Quiet
    <3>. QED
      BY <3>1, <3>2
  <2>4. Lists(F, c)' /\ Reads(F)'
    BY <2>1, <2>2, <2>3
  <2>5. c # None => Plan(F, c)' /\ Foreseen(c)'
    <3>1. c # None => Plan(F, c) /\ Foreseen(c)
      BY <2>2 DEF Follow
    <3>2. Plan(F, c) => Plan(F, c)'
      BY DEF Plan, Under
    <3>3. Foreseen(c) => Foreseen(c)'
      BY DEF Foreseen, Simulated
    <3>. QED
      BY <3>1, <3>2, <3>3
  <2>6. Follow(F, c)'
    BY <2>3, <2>4, <2>5 DEF Follow
  <2>. QED
    BY <2>1, <2>6
<1>. QED
  BY <1>1 DEF TreeInv

(* Who reads alone does so while nobody changes the tree. *)
LEMMA AloneIsQuiet ==
  ASSUME TreeInv, NEW w \in Writers, NEW F, Follow(F, writers[w]),
         NEW r \in Readers, readers[r] # None, readers[r].alone
  PROVE  /\ writers[w] = None /\ Quiet(F) /\ Grown(org, F)
         /\ \A x \in Existing(org) : /\ org[x].path = F[x] /\ EffectivePath(x, org[x]) = F[x]
                                     /\ F[x] \in Seq(Orgs)
         /\ readers[r].at # "find" => readers[r].root \in Existing(org)
         /\ readers[r].at = "query" => readers[r].path = F[readers[r].root]
         /\ readers[r].at = "keep" => readers[r].ids = Under(F, readers[r].root)
<1>1. /\ writers[w] = None /\ Grown(org, F) /\ TreeTypeOK
      /\ readers[r].at # "find" => readers[r].root \in Existing(org)
      /\ readers[r].at = "query" => readers[r].path = F[readers[r].root]
      /\ readers[r].at = "keep" => readers[r].ids = Under(F, readers[r].root)
  BY DEF TreeInv, Follow, Reads
<1>2. Quiet(F)
  BY <1>1 DEF Follow, Paths
<1>3. \A x \in Existing(org) : /\ org[x].path = F[x] /\ EffectivePath(x, org[x]) = F[x]
                               /\ F[x] \in Seq(Orgs)
  BY <1>1, <1>2, RowsOf DEF Quiet, EffectivePath
<1>. QED
  BY <1>1, <1>2, <1>3

LEMMA ReadBegins ==
  ASSUME TreeInv, NEW r \in Readers, NEW o \in Orgs, BeginRead(r, o)
  PROVE  TreeInv'
<1>1. PICK q : q = [root |-> o, at |-> "find", path |-> <<>>, ids |-> {},
                    alone |-> \A w \in Writers : writers[w] = None]
  OBVIOUS
<1>2. /\ q \in Reading /\ q.at = "find" /\ (q.alone => \A w \in Writers : writers[w] = None)
      /\ readers' = [readers EXCEPT ![r] = q] /\ UNCHANGED <<org, writers, cache>> /\ TreeTypeOK
  BY <1>1 DEF BeginRead, Reading, TreeInv
<1>3. TreeTypeOK' /\ readers'[r] = q /\ \A s \in Readers \ {r} : readers'[s] = readers[s]
  BY <1>2 DEF TreeTypeOK
<1>4. ASSUME NEW w \in Writers, NEW F, Follow(F, writers[w])
      PROVE  Lists(F, writers[w])' /\ Reads(F)'
  <2>1. Lists(F, writers[w]) /\ Reads(F)
    BY <1>4 DEF Follow
  <2>2. Lists(F, writers[w])'
    BY <1>2, <2>1 DEF Lists, Under
  <2>3. Reads(F)'
    BY <1>2, <1>3, <2>1 DEF Reads, Under
  <2>. QED
    BY <2>2, <2>3
<1>. QED
  BY <1>2, <1>3, <1>4, Watched

LEMMA RootFound ==
  ASSUME TreeInv, NEW r \in Readers, FindRoot(r)
  PROVE  TreeInv'
<1>0. PICK c, o : c = readers[r] /\ o = c.root
  OBVIOUS
<1>1. /\ c # None /\ c = readers[r] /\ c.at = "find" /\ UNCHANGED <<org, writers, cache>> /\ TreeTypeOK
      /\ c \in Reading
  BY <1>0 DEF FindRoot, TreeInv, TreeTypeOK
<1>2. CASE o \notin Existing(org)
  <2>1. readers' = [readers EXCEPT ![r] = None]
    BY <1>0, <1>2 DEF FindRoot
  <2>2. TreeTypeOK' /\ readers'[r] = None /\ \A s \in Readers \ {r} : readers'[s] = readers[s]
    BY <1>1, <2>1 DEF TreeTypeOK
  <2>3. ASSUME NEW w \in Writers, NEW F, Follow(F, writers[w])
        PROVE  Lists(F, writers[w])' /\ Reads(F)'
    <3>1. Lists(F, writers[w]) /\ Reads(F)
      BY <2>3 DEF Follow
    <3>2. Lists(F, writers[w])'
      BY <1>1, <3>1 DEF Lists, Under
    <3>3. Reads(F)'
      BY <1>1, <2>2, <3>1 DEF Reads, Under
    <3>. QED
      BY <3>2, <3>3
  <2>. QED
    BY <1>1, <2>2, <2>3, Watched
<1>3. CASE o \in Existing(org)
  <2>1. PICK q : q = [c EXCEPT !.at = "query", !.path = EffectivePath(o, org[o])]
    OBVIOUS
  <2>2. readers' = [readers EXCEPT ![r] = q]
    BY <1>0, <1>3, <2>1 DEF FindRoot
  <2>3. /\ q \in Reading /\ q.at = "query" /\ q.root = o /\ q.alone = c.alone
        /\ q.path = EffectivePath(o, org[o])
    <3>1. o \in Orgs /\ org[o] \in OrgRow
      BY <1>1, <1>3, TreeMarks DEF TreeTypeOK, Existing
    <3>2. EffectivePath(o, org[o]) \in Seq(Orgs)
      BY <3>1 DEF EffectivePath, OrgRow
    <3>. QED
      BY <1>0, <1>1, <2>1, <3>2 DEF Reading
  <2>4. TreeTypeOK' /\ readers'[r] = q /\ \A s \in Readers \ {r} : readers'[s] = readers[s]
    BY <1>1, <2>2, <2>3 DEF TreeTypeOK
  <2>5. ASSUME NEW w \in Writers, NEW F, Follow(F, writers[w])
        PROVE  Lists(F, writers[w])' /\ Reads(F)'
    <3>1. Lists(F, writers[w]) /\ Reads(F)
      BY <2>5 DEF Follow
    <3>2. Lists(F, writers[w])'
      BY <1>1, <3>1 DEF Lists, Under
    <3>3. c.alone => q.path = F[o] /\ \A v \in Writers : writers[v] = None
      BY <1>1, <1>3, <2>3, <2>5, <3>1, AloneIsQuiet DEF Reads
    <3>4. Reads(F)'
      BY <1>1, <1>3, <2>3, <2>4, <3>1, <3>3 DEF Reads, Under
    <3>. QED
      BY <3>2, <3>4
  <2>. QED
    BY <1>1, <2>4, <2>5, Watched
<1>. QED
  BY <1>2, <1>3

LEMMA SubtreeFound ==
  ASSUME TreeInv, NEW r \in Readers, QuerySubtree(r)
  PROVE  TreeInv'
<1>0. PICK c, o : c = readers[r] /\ o = c.root
  OBVIOUS
<1>1. /\ c # None /\ c = readers[r] /\ c.at = "query" /\ UNCHANGED <<org, writers, cache>> /\ TreeTypeOK
      /\ c \in Reading
  BY <1>0 DEF QuerySubtree, TreeInv, TreeTypeOK
<1>2. PICK found : found = {x \in Existing(org) : x = o \/ IsStrictPrefix(c.path, org[x].path)}
  OBVIOUS
<1>3. PICK q : q = [c EXCEPT !.at = "keep", !.ids = found]
  OBVIOUS
<1>4. /\ q \in Reading /\ q.at = "keep" /\ q.root = o /\ q.alone = c.alone /\ q.ids = found
  <2>1. found \in SUBSET Orgs
    BY <1>2 DEF Existing
  <2>. QED
    BY <1>0, <1>1, <1>3, <2>1 DEF Reading
<1>5. readers' = [readers EXCEPT ![r] = q]
  BY <1>0, <1>1, <1>2, <1>3 DEF QuerySubtree, TreeTypeOK
<1>6. TreeTypeOK' /\ readers'[r] = q /\ \A s \in Readers \ {r} : readers'[s] = readers[s]
  BY <1>1, <1>4, <1>5 DEF TreeTypeOK
<1>7. ASSUME NEW w \in Writers, NEW F, Follow(F, writers[w])
      PROVE  Lists(F, writers[w])' /\ Reads(F)'
  <2>1. Lists(F, writers[w]) /\ Reads(F)
    BY <1>7 DEF Follow
  <2>2. Lists(F, writers[w])'
    BY <1>1, <2>1 DEF Lists, Under
  <2>3. c.alone => /\ o \in Existing(org) /\ found = Under(F, o)
                   /\ \A v \in Writers : writers[v] = None
    <3>1. SUFFICES ASSUME c.alone
                   PROVE  /\ o \in Existing(org) /\ found = Under(F, o)
                          /\ \A v \in Writers : writers[v] = None
      OBVIOUS
    <3>2. /\ o \in Existing(org) /\ c.path = F[o] /\ Grown(org, F)
          /\ \A x \in Existing(org) : org[x].path = F[x] /\ F[x] \in Seq(Orgs)
      BY <1>0, <1>1, <1>7, <3>1, AloneIsQuiet
    <3>3. \A x \in Existing(org) :
            x = o \/ IsStrictPrefix(F[o], F[x]) <=> IsPrefix(F[o], F[x])
      <4>1. IsPrefix(F[o], F[o])
        BY <3>2, PrefixIs
      <4>. QED
        BY <3>2, <4>1, InLine
    <3>4. found = Under(F, o)
      BY <1>2, <3>2, <3>3 DEF Under
    <3>. QED
      BY <1>1, <2>1, <3>1, <3>2, <3>4 DEF Reads
  <2>4. Reads(F)'
    BY <1>1, <1>4, <1>6, <2>1, <2>3 DEF Reads, Under
  <2>. QED
    BY <2>2, <2>4
<1>. QED
  BY <1>1, <1>6, <1>7, Watched

LEMMA SubtreeKept ==
  ASSUME TreeInv, NEW r \in Readers, KeepSubtree(r)
  PROVE  TreeInv'
<1>0. PICK c, o : c = readers[r] /\ o = c.root
  OBVIOUS
<1>1. /\ c # None /\ c = readers[r] /\ c.at = "keep" /\ UNCHANGED <<org, writers>> /\ TreeTypeOK
      /\ c \in Reading
  BY <1>0 DEF KeepSubtree, TreeInv, TreeTypeOK
<1>2. PICK list : list = [ids |-> c.ids, alone |-> c.alone]
  OBVIOUS
<1>3. /\ o \in Orgs /\ list \in [ids : SUBSET Orgs, alone : BOOLEAN]
      /\ list.ids = c.ids /\ list.alone = c.alone
  BY <1>0, <1>1, <1>2 DEF Reading
<1>4. cache' = [cache EXCEPT ![o] = list] /\ readers' = [readers EXCEPT ![r] = None]
  BY <1>0, <1>2 DEF KeepSubtree
<1>5. /\ TreeTypeOK' /\ readers'[r] = None /\ \A s \in Readers \ {r} : readers'[s] = readers[s]
      /\ cache'[o] = list /\ \A x \in Orgs \ {o} : cache'[x] = cache[x]
  BY <1>1, <1>3, <1>4 DEF TreeTypeOK
<1>6. ASSUME NEW w \in Writers, NEW F, Follow(F, writers[w])
      PROVE  Lists(F, writers[w])' /\ Reads(F)'
  <2>1. Lists(F, writers[w]) /\ Reads(F)
    BY <1>6 DEF Follow
  <2>2. c.alone => c.ids = Under(F, o)
    BY <1>0, <1>1, <2>1 DEF Reads, Under
  <2>3. Lists(F, writers[w])'
    BY <1>1, <1>3, <1>5, <2>1, <2>2 DEF Lists, Under, Existing
  <2>4. Reads(F)'
    BY <1>1, <1>5, <2>1 DEF Reads, Under
  <2>. QED
    BY <2>3, <2>4
<1>. QED
  BY <1>1, <1>5, <1>6, Watched

LEMMA ListExpires ==
  ASSUME TreeInv, NEW o \in Orgs, Expire(o)
  PROVE  TreeInv'
<1>1. /\ UNCHANGED <<org, writers, readers>> /\ TreeTypeOK
      /\ cache' = [cache EXCEPT ![o] = None]
  BY DEF Expire, TreeInv
<1>2. TreeTypeOK' /\ \A x \in Orgs : cache'[x] = None \/ cache'[x] = cache[x]
  BY <1>1 DEF TreeTypeOK
<1>3. ASSUME NEW w \in Writers, NEW F, Follow(F, writers[w])
      PROVE  Lists(F, writers[w])' /\ Reads(F)'
  <2>1. Lists(F, writers[w]) /\ Reads(F)
    BY <1>3 DEF Follow
  <2>2. Lists(F, writers[w])'
    BY <1>1, <1>2, <2>1 DEF Lists, Under, Existing
  <2>3. Reads(F)'
    BY <1>1, <2>1 DEF Reads, Under
  <2>. QED
    BY <2>2, <2>3
<1>. QED
  BY <1>1, <1>2, <1>3, Watched

(* Every step keeps the invariant, as long as one request at a time        *)
(* changes the tree.                                                       *)
LEMMA TreeStep == ASSUME OneWriter PROVE TreeInv /\ [TreeNext]_treeVars => TreeInv'
<1> SUFFICES ASSUME OneWriter, TreeInv, [TreeNext]_treeVars PROVE TreeInv'
  OBVIOUS
<1>1. ASSUME NEW w \in Writers, Write(w) PROVE TreeInv'
  <2>1. ASSUME NEW o \in Orgs, NEW p \in Orgs \union {None}, BeginCreateOrg(w, o, p) PROVE TreeInv'
    BY <2>1, CreateBegins
  <2>2. ASSUME NEW o \in Orgs, NEW p \in Orgs, NEW force \in BOOLEAN, BeginMove(w, o, p, force)
        PROVE  TreeInv'
    BY <2>2, MoveBegins
  <2>3. ASSUME NEW o \in Orgs, BeginRemoveOrg(w, o) PROVE TreeInv'
    BY <2>3, RemoveBegins
  <2>4. ASSUME NEW o \in Editable, NEW rule \in Rules \union {None}, BeginEditRules(w, o, rule)
        PROVE  TreeInv'
    BY <2>4, EditsBegin
  <2>5. ASSUME NEW o \in Editable, NEW rule \in Defaults \union {None}, BeginEditDefaults(w, o, rule)
        PROVE  TreeInv'
    BY <2>5, EditsBegin
  <2>6. InsertOrg(w) \/ WriteNewPath(w) => TreeInv'
    BY InsertKeeps, NewPathKeeps
  <2>7. ReadMoved(w) \/ SaveMoved(w) \/ WriteMovedPath(w) => TreeInv'
    BY ReadKeeps, SaveKeeps, MovedPathKeeps
  <2>8. FindDescendants(w) \/ RewritePath(w) => TreeInv'
    BY SearchKeeps, RewriteKeeps
  <2>9. DeleteOrg(w) \/ SaveEdited(w) \/ ClearSubtreeCache(w) => TreeInv'
    BY DeleteKeeps, EditKeeps, ClearKeeps
  <2>. QED
    BY <1>1, <2>1, <2>2, <2>3, <2>4, <2>5, <2>6, <2>7, <2>8, <2>9 DEF Write
<1>2. ASSUME NEW r \in Readers, Read(r) PROVE TreeInv'
  <2>1. ASSUME NEW o \in Listed, BeginRead(r, o) PROVE TreeInv'
    BY <2>1, ReadBegins, OrgTreeConstants
  <2>. QED
    BY <1>2, <2>1, RootFound, SubtreeFound, SubtreeKept DEF Read
<1>3. ASSUME NEW o \in Orgs, Expire(o) PROVE TreeInv'
  BY <1>3, ListExpires
<1>4. CASE UNCHANGED treeVars
  <2>1. UNCHANGED <<org, writers, readers, cache>>
    BY <1>4 DEF treeVars
  <2>2. TreeTypeOK'
    BY <2>1 DEF TreeInv, TreeTypeOK
  <2>3. ASSUME NEW w \in Writers, NEW F, Follow(F, writers[w])
        PROVE  Lists(F, writers[w])' /\ Reads(F)'
    BY <2>1, <2>3 DEF Follow, Lists, Reads, Under
  <2>. QED
    BY <2>1, <2>2, <2>3, Watched
<1>. QED
  BY <1>1, <1>2, <1>3, <1>4 DEF TreeNext

LEMMA TreeAlways == ASSUME OneWriter PROVE TreeSpec => []TreeInv
<1>1. TreeInv /\ [TreeNext]_treeVars => TreeInv'
  BY TreeStep
<1>. QED
  BY <1>1, TreeStart, PTL DEF TreeSpec

(* The rows, the requests and the cache keep their types. *)
THEOREM TreeTypeCorrect == ASSUME OneWriter PROVE TreeSpec => []TreeTypeOK
<1>1. TreeInv => TreeTypeOK
  BY DEF TreeInv
<1>. QED
  BY <1>1, TreeAlways, PTL

(* Nobody is above himself: the check of a move by the paths is enough, as *)
(* the paths are those of the tree when it is made.                        *)
THEOREM MovesKeepTree == ASSUME OneWriter PROVE TreeSpec => []NoCycle
<1>1. TreeInv => NoCycle
  <2>1. ASSUME TreeInv, NEW o \in Existing(org) PROVE Len(Lineage(org, o)) <= Cardinality(Orgs)
    <3>1. PICK w : w \in Writers
      BY DEF OneWriter
    <3>2. PICK F : Grown(org, F)
      BY <2>1, <3>1 DEF TreeInv, Follow
    <3>. QED
      BY <3>2, LineageIs, LineIsShort
  <2>. QED
    BY <2>1 DEF NoCycle
<1>. QED
  BY <1>1, TreeAlways, PTL

(* Between the changes the paths are those of the tree. *)
THEOREM PathsKept == ASSUME OneWriter PROVE TreeSpec => []PathsMatchTree
<1>1. TreeInv => PathsMatchTree
  <2>1. ASSUME TreeInv, \A w \in Writers : writers[w] = None, NEW o \in Existing(org)
        PROVE  org[o].path = Lineage(org, o)
    <3>1. PICK w : w \in Writers
      BY DEF OneWriter
    <3>2. PICK F \in Lines : Grown(org, F) /\ Quiet(F)
      BY <2>1, <3>1, Idle
    <3>3. Lineage(org, o) = F[o]
      BY <3>2, LineageIs
    <3>. QED
      BY <3>2, <3>3 DEF Quiet
  <2>. QED
    BY <2>1 DEF PathsMatchTree
<1>. QED
  BY <1>1, TreeAlways, PTL

(* A move nobody had to confirm changes what nobody sees. *)
THEOREM MovesAreForeseen == ASSUME OneWriter PROVE TreeSpec => []UnforcedMoveHidesNothing
<1>1. TreeInv => UnforcedMoveHidesNothing
  <2>1. ASSUME TreeInv, NEW w \in Writers, Doing(w, "move", "clear"), ~ writers[w].force,
               NEW o \in Existing(org)
        PROVE  Visible(org, o) = writers[w].before[o]
    BY <2>1, WhileBusy DEF Doing, Foreseen
  <2>. QED
    BY <2>1 DEF UnforcedMoveHidesNothing
<1>. QED
  BY <1>1, TreeAlways, PTL

(* A list read while nobody changed the tree is right until the next       *)
(* change, which takes it out of the cache.                                *)
THEOREM ListsStayRight == ASSUME OneWriter PROVE TreeSpec => []StaleOnlyWhenOverlapped
<1>1. TreeInv => StaleOnlyWhenOverlapped
  <2>1. ASSUME TreeInv, \A w \in Writers : writers[w] = None,
               NEW o \in Existing(org), cache[o] # None, cache[o].alone
        PROVE  cache[o].ids = Below(org, o)
    <3>1. PICK w : w \in Writers
      BY DEF OneWriter
    <3>2. PICK F \in Lines : Follow(F, None) /\ Grown(org, F)
      BY <2>1, <3>1, Idle
    <3>3. cache[o].ids = Under(F, o)
      BY <2>1, <3>2 DEF Follow, Lists
    <3>4. ASSUME NEW x \in Existing(org)
          PROVE  o \in ToSet(Lineage(org, x)) <=> IsPrefix(F[o], F[x])
      <4>1. Lineage(org, x) = F[x]
        BY <3>2, LineageIs
      <4>2. F[x] \in Seq(Orgs) /\ DOMAIN F[x] = 1 .. Len(F[x])
        BY <3>2 DEF Grown
      <4>3. o \in ToSet(F[x]) <=> \E k \in 1 .. Len(F[x]) : F[x][k] = o
        BY <4>2 DEF ToSet
      <4>. QED
        BY <3>2, <4>1, <4>3, InLine
    <3>. QED
      BY <3>3, <3>4 DEF Under, Below
  <2>. QED
    BY <2>1 DEF StaleOnlyWhenOverlapped
<1>. QED
  BY <1>1, TreeAlways, PTL
=============================================================================
