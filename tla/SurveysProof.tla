---------------------------- MODULE SurveysProof ----------------------------
(***************************************************************************)
(* What holds of the rounds of a survey and their answers for any number   *)
(* of rounds, questions, participants, devices and crashes.                *)
(***************************************************************************)
EXTENDS Surveys, FiniteSetTheorems, TLAPS

-----------------------------------------------------------------------------
(* Types. *)

(* The answers can be counted, and a round that moves up is not the first. *)
Countable ==
  /\ IsFiniteSet(answers)
  /\ \A r \in Requests : requests[r] # None /\ requests[r].kind = "delete" =>
       \A item \in requests[r].todo : item.copy.number > 1

TInv == TypeOK /\ Countable

LEMMA UpdatedTyped ==
  ASSUME NEW row \in Row, NEW u \in Updates
  PROVE  Updated(row, u) \in Row
  BY SurveyConstants DEF Updated, Row, Given, Status

LEMMA MergedTyped ==
  ASSUME NEW row \in Row, NEW copy \in Row, NEW base \in Row
  PROVE  Merged(row, copy, base) \in Row
  BY DEF Merged, Row

LEMMA StartedTyped ==
  ASSUME NEW row \in Row
  PROVE  [row EXCEPT !.status = "active", !.archived = FALSE] \in Row
  BY DEF Row, Status

LEMMA ClosedTyped ==
  ASSUME NEW row \in Row, today \in Nat
  PROVE  Closed(row) \in Row
<1>1. ASSUME NEW day \in Nat
      PROVE  [row EXCEPT !.status = "closed", !.due = day] \in Row
  BY DEF Row, Status
<1>2. today + 1 \in Nat
  OBVIOUS
<1>. QED
  BY <1>1, <1>2 DEF Closed

LEMMA DoingTyped ==
  ASSUME NEW kind \in {"edit", "delete", "purge"}, NEW id \in Ids, NEW copy \in Row,
         NEW phase \in {"compare", "compete", "count", "save", "write", "next"}
  PROVE  Doing(kind, phase, id, copy) \in Request /\ Doing(kind, phase, id, copy).todo = {}
         /\ Doing(kind, phase, id, copy).kind = kind
  BY DEF Doing, Request

LEMMA DraftTyped ==
  ASSUME NEW n \in Nat \ {0}, NEW q \in Questions, NEW many \in BOOLEAN
  PROVE  Draft(n, q, many) \in Row
  BY DEF Draft, Row, Status

LEMMA TypeStart == Init => TInv
<1> SUFFICES ASSUME Init PROVE TInv
  OBVIOUS
<1>1. rows \in [Ids -> Row \union {None}]
  <2>1. PICK q \in Questions, many \in BOOLEAN :
          rows = [id \in Ids |-> IF id = Root THEN Draft(1, q, many) ELSE None]
    BY DEF Init
  <2>2. Draft(1, q, many) \in Row
    BY DraftTyped
  <2>. QED
    BY <2>1, <2>2
<1>2. IsFiniteSet(answers)
  BY FS_EmptySet DEF Init
<1>. QED
  BY <1>1, <1>2 DEF Init, TInv, TypeOK, Countable

(* One request is replaced by nothing or by another request; the rest may  *)
(* have changed within its type.                                           *)
LEMMA RequestTyped ==
  ASSUME TInv, NEW r \in Requests, NEW q \in Request \union {None},
         requests' = [requests EXCEPT ![r] = q],
         q # None /\ q.kind = "delete" => \A item \in q.todo : item.copy.number > 1,
         UNCHANGED <<rows, answers, visits, today, crashes>>
  PROVE  TInv'
<1>1. TypeOK'
  BY DEF TInv, TypeOK
<1>2. Countable'
  BY DEF TInv, TypeOK, Countable
<1>. QED
  BY <1>1, <1>2 DEF TInv

LEMMA BeginTyped ==
  ASSUME TInv, NEW r \in Requests, NEW q \in Request, Begin(r, q),
         q.kind = "delete" => q.todo = {}
  PROVE  TInv'
  BY RequestTyped DEF Begin

LEMMA StaffTyped ==
  ASSUME TInv, NEW r \in Requests, Staff(r)
  PROVE  TInv'
<1> USE DoingTyped
<1>0. \A id \in Ids : rows[id] # None => rows[id] \in Row
  BY DEF TInv, TypeOK
<1>1. ASSUME NEW id \in Ids, NEW u \in Updates, BeginUpdate(r, id, u) PROVE TInv'
  <2>1. Updated(rows[id], u) \in Row
    BY <1>0, <1>1, UpdatedTyped DEF BeginUpdate
  <2> DEFINE phase == IF rows[id].number > 1 /\ u.questions # None THEN "compare" ELSE "save"
             q == Doing("edit", phase, id, Updated(rows[id], u))
  <2>2. phase \in {"compare", "save"}
    OBVIOUS
  <2>3. Begin(r, q)
    BY <1>1 DEF BeginUpdate
  <2> HIDE DEF phase
  <2>4. q \in Request /\ q.kind = "edit"
    BY <2>1, <2>2
  <2> HIDE DEF q
  <2>. QED
    BY <2>3, <2>4, BeginTyped
<1>2. ASSUME NEW id \in Ids, BeginStart(r, id) PROVE TInv'
  <2> DEFINE copy == [rows[id] EXCEPT !.status = "active", !.archived = FALSE]
             q == Doing("edit", "compete", id, copy)
  <2>1. copy \in Row
    <3>1. rows[id] \in Row
      BY <1>0, <1>2 DEF BeginStart
    <3>. QED
      BY <3>1, StartedTyped
  <2>2. Begin(r, q)
    BY <1>2 DEF BeginStart
  <2> HIDE DEF copy
  <2>3. q \in Request /\ q.kind = "edit"
    BY <2>1
  <2> HIDE DEF q
  <2>. QED
    BY <2>2, <2>3, BeginTyped
<1>3. ASSUME NEW id \in Ids, BeginClose(r, id) PROVE TInv'
  <2> DEFINE q == Doing("edit", "save", id, Closed(rows[id]))
  <2>1. Closed(rows[id]) \in Row
    BY <1>0, <1>3, ClosedTyped DEF BeginClose, TInv, TypeOK
  <2>2. Begin(r, q)
    BY <1>3 DEF BeginClose
  <2>3. q \in Request /\ q.kind = "edit"
    BY <2>1
  <2> HIDE DEF q
  <2>. QED
    BY <2>2, <2>3, BeginTyped
<1>4. ASSUME NEW id \in Ids, BeginRound(r, id) PROVE TInv'
  <2>1. PICK source \in Rounds :
          /\ rows[source].number = LastNumber
          /\ Begin(r, Doing("edit", "write", id, Draft(LastNumber + 1, rows[source].questions,
                                                       rows[source].many)))
    BY <1>4 DEF BeginRound
  <2> DEFINE copy == Draft(LastNumber + 1, rows[source].questions, rows[source].many)
             q == Doing("edit", "write", id, copy)
  <2>2. rows[source] \in Row
    BY <1>0 DEF Rounds
  <2>3. LastNumber + 1 \in Nat \ {0} /\ rows[source].questions \in Questions
        /\ rows[source].many \in BOOLEAN
    BY <2>1, <2>2 DEF Row
  <2>4. copy \in Row
    BY <2>3, DraftTyped
  <2>5. Begin(r, q)
    BY <2>1
  <2> HIDE DEF copy
  <2>6. q \in Request /\ q.kind = "edit"
    BY <2>4
  <2> HIDE DEF q
  <2>. QED
    BY <2>5, <2>6, BeginTyped
<1>5. ASSUME NEW id \in Ids, BeginDelete(r, id) PROVE TInv'
  <2> DEFINE q == Doing("delete", "count", id, rows[id])
  <2>1. Begin(r, q)
    BY <1>5 DEF BeginDelete
  <2>2. q \in Request /\ q.todo = {}
    BY <1>0, <1>5 DEF BeginDelete
  <2> HIDE DEF q
  <2>. QED
    BY <2>1, <2>2, BeginTyped
<1>6. CASE BeginPurge(r)
  <2> DEFINE expired == {id \in Rounds : Expired(rows[id])}
             todo == {[id |-> s, copy |-> rows[s]] : s \in expired}
  <2>1. PICK id \in expired :
          Begin(r, [Doing("purge", "next", id, rows[id]) EXCEPT !.todo = todo])
    BY <1>6 DEF BeginPurge
  <2>2. id \in Ids /\ rows[id] \in Row
    BY <1>0 DEF Rounds
  <2>3. todo \in SUBSET [id : Ids, copy : Row]
    BY <1>0 DEF Rounds
  <2> DEFINE d == Doing("purge", "next", id, rows[id])
             q == [d EXCEPT !.todo = todo]
  <2>4. d \in Request /\ d.kind = "purge"
    BY <2>2
  <2>5. Begin(r, q)
    BY <2>1
  <2> HIDE DEF d, todo
  <2>6. q \in Request /\ q.kind = "purge"
    BY <2>3, <2>4 DEF Request
  <2> HIDE DEF q
  <2>. QED
    BY <2>5, <2>6, BeginTyped
<1>. QED
  BY <1>1, <1>2, <1>3, <1>4, <1>5, <1>6 DEF Staff

(* What the request of a step is made of. *)
LEMMA RequestParts ==
  ASSUME TInv, NEW r \in Requests, requests[r] # None
  PROVE  /\ requests[r] \in Request /\ requests[r].id \in Ids /\ requests[r].copy \in Row
         /\ requests[r].todo \in SUBSET [id : Ids, copy : Row]
         /\ \A item \in requests[r].todo : item.id \in Ids /\ item.copy \in Row
<1>1. requests[r] \in Request
  BY DEF TInv, TypeOK
<1>. QED
  BY <1>1 DEF Request

(* The rows may have changed as well. *)
LEMMA RowTyped ==
  ASSUME TInv, NEW r \in Requests, NEW q \in Request \union {None},
         requests' = [requests EXCEPT ![r] = q],
         q # None /\ q.kind = "delete" => \A item \in q.todo : item.copy.number > 1,
         NEW id \in Ids, NEW row \in Row \union {None},
         rows' = [rows EXCEPT ![id] = row],
         UNCHANGED <<answers, visits, today, crashes>>
  PROVE  TInv'
<1>1. TypeOK'
  BY DEF TInv, TypeOK
<1>2. Countable'
  BY DEF TInv, TypeOK, Countable
<1>. QED
  BY <1>1, <1>2 DEF TInv

LEMMA SavedTyped ==
  ASSUME TInv, NEW r \in Requests, requests[r] # None
  PROVE  Saved(requests[r]) \in Row \union {None}
<1>1. requests[r] \in Request
  BY DEF TInv, TypeOK
<1>2. requests[r].id \in Ids /\ requests[r].copy \in Row /\ requests[r].base \in Row \union {None}
  BY <1>1 DEF Request
<1>3. rows[requests[r].id] \in Row \union {None}
  BY <1>2 DEF TInv, TypeOK
<1>. QED
  BY <1>2, <1>3, MergedTyped DEF Saved

LEMMA AnswersCounted ==
  ASSUME TInv, NEW id \in Ids
  PROVE  Cardinality(AnswersOf(id)) \in Nat /\ IsFiniteSet(AnswersOf(id))
<1>1. AnswersOf(id) \subseteq answers
  BY DEF AnswersOf
<1>2. IsFiniteSet(AnswersOf(id))
  BY <1>1, FS_Subset DEF TInv, Countable
<1>. QED
  BY <1>2, FS_CardinalityType

LEMMA PurgedTyped ==
  ASSUME TInv, NEW item, item.id \in Ids, item.copy \in Row
  PROVE  Purged(item) \in Row
<1>1. Cardinality(AnswersOf(item.id)) \in Nat
  BY AnswersCounted
<1>2. Snapshot(Cardinality(AnswersOf(item.id))) \in [count : Nat, shown : BOOLEAN]
  BY <1>1 DEF Snapshot
<1>. QED
  BY <1>2 DEF Purged, Row

LEMMA MovedUpTyped ==
  ASSUME NEW item, item.copy \in Row, item.copy.number > 1
  PROVE  MovedUp(item) \in Row
  BY DEF MovedUp, Row

LEMMA StepTyped ==
  ASSUME TInv, NEW r \in Requests, Step(r)
  PROVE  TInv'
<1> DEFINE q == requests[r]
<1>0. q # None
  BY DEF Step, Recheck, Load, Write, Remove, Following, NextItem, Erase, At
<1>q. /\ q \in Request /\ q.id \in Ids /\ q.copy \in Row
      /\ q.todo \in SUBSET [id : Ids, copy : Row]
      /\ \A item \in q.todo : item.id \in Ids /\ item.copy \in Row
      /\ q.kind = "delete" => \A item \in q.todo : item.copy.number > 1
  <2>1. q.kind = "delete" => \A item \in q.todo : item.copy.number > 1
    BY <1>0 DEF TInv, Countable
  <2> HIDE DEF q
  <2>. QED
    BY <2>1, <1>0, RequestParts DEF q
<1>1. CASE Recheck(r)
  <2> DEFINE p == IF Passes(q)
                  THEN [q EXCEPT !.phase = IF @ = "count" THEN "remove" ELSE "save"]
                  ELSE None
  <2>1. requests' = [requests EXCEPT ![r] = p] /\ UNCHANGED <<rows, answers, visits, today, crashes>>
    BY <1>1 DEF Recheck, Continue
  <2> HIDE DEF q
  <2>2. p \in Request \union {None} /\ (p # None => p.kind = q.kind /\ p.todo = q.todo)
    BY <1>q DEF Request
  <2> HIDE DEF p
  <2>. QED
    BY <1>q, <2>1, <2>2, RequestTyped
<1>2. CASE Load(r)
  <2> DEFINE p == [q EXCEPT !.phase = "write", !.base = rows[q.id]]
  <2>1. requests' = [requests EXCEPT ![r] = p] /\ UNCHANGED <<rows, answers, visits, today, crashes>>
    BY <1>2 DEF Load, Continue
  <2> HIDE DEF q
  <2>2. rows[q.id] \in Row \union {None}
    BY <1>q DEF TInv, TypeOK
  <2>3. p \in Request /\ p.kind = q.kind /\ p.todo = q.todo
    BY <1>q, <2>2 DEF Request
  <2> HIDE DEF p
  <2>. QED
    BY <1>q, <2>1, <2>3, RequestTyped
<1>3. CASE Write(r)
  <2>1. Saved(q) \in Row \union {None}
    BY <1>0, SavedTyped
  <2>2. AfterWrite(q) \in Request \union {None}
        /\ (AfterWrite(q) # None => AfterWrite(q).kind = q.kind /\ AfterWrite(q).todo = q.todo)
    <3> HIDE DEF q
    <3>. QED
      BY <1>q DEF AfterWrite, Request
  <2>3. CASE Permitted(q, Saved(q))
    <3>1. rows' = [rows EXCEPT ![q.id] = Saved(q)] /\ requests' = [requests EXCEPT ![r] = AfterWrite(q)]
          /\ UNCHANGED <<answers, visits, today, crashes>>
      BY <1>3, <2>3 DEF Write, Continue
    <3> HIDE DEF q
    <3>. QED
      BY <1>q, <2>1, <2>2, <3>1, RowTyped
  <2>4. CASE ~ Permitted(q, Saved(q))
    BY <1>3, <2>4, RequestTyped DEF Write, Continue
  <2>. QED
    BY <2>3, <2>4
<1>4. CASE Remove(r)
  <2> DEFINE p == [q EXCEPT !.phase = "following"]
  <2>1. requests' = [requests EXCEPT ![r] = p] /\ rows' = [rows EXCEPT ![q.id] = None]
        /\ UNCHANGED <<answers, visits, today, crashes>>
    BY <1>4 DEF Remove, Continue
  <2> HIDE DEF q
  <2>2. p \in Request /\ p.kind = q.kind /\ p.todo = q.todo
    BY <1>q DEF Request
  <2> HIDE DEF p
  <2>. QED
    BY <1>q, <2>1, <2>2, RowTyped
<1>5. CASE Following(r)
  <2> DEFINE later == {[id |-> s, copy |-> rows[s]] : s \in Later(q.copy.number)}
             p == [q EXCEPT !.phase = "next", !.todo = later]
  <2>1. requests' = [requests EXCEPT ![r] = p] /\ UNCHANGED <<rows, answers, visits, today, crashes>>
    BY <1>5 DEF Following, Continue
  <2> HIDE DEF q
  <2>2. \A s \in Later(q.copy.number) : s \in Ids /\ rows[s] \in Row /\ rows[s].number > 1
    BY <1>q DEF TInv, TypeOK, Later, Rounds, Row
  <2>3. later \in SUBSET [id : Ids, copy : Row] /\ \A item \in later : item.copy.number > 1
    BY <2>2
  <2> HIDE DEF later
  <2>4. p \in Request /\ p.kind = q.kind /\ p.todo = later
    BY <1>q, <2>3 DEF Request
  <2> HIDE DEF p
  <2>. QED
    BY <1>q, <2>1, <2>3, <2>4, RequestTyped
<1>6. CASE NextItem(r)
  <2>0. UNCHANGED <<rows, answers, visits, today, crashes>>
    BY <1>6 DEF NextItem
  <2>1. CASE Continue(r, None)
    BY <2>0, <2>1, RequestTyped DEF Continue
  <2>2. ASSUME NEW item \in q.todo, NEW copy \in Row,
               Continue(r, [q EXCEPT !.phase = "save", !.todo = @ \ {item},
                                     !.id = item.id, !.copy = copy])
        PROVE  TInv'
    <3> DEFINE p == [q EXCEPT !.phase = "save", !.todo = @ \ {item}, !.id = item.id, !.copy = copy]
    <3>1. requests' = [requests EXCEPT ![r] = p]
      BY <2>2 DEF Continue
    <3> HIDE DEF q
    <3>2. p \in Request /\ p.kind = q.kind /\ p.todo \subseteq q.todo
      BY <1>q DEF Request
    <3> HIDE DEF p
    <3>. QED
      BY <1>q, <2>0, <3>1, <3>2, RequestTyped
  <2>3. ASSUME q.kind = "delete", NEW item \in Lowest(q.todo),
               Continue(r, [q EXCEPT !.phase = "save", !.todo = @ \ {item},
                                     !.id = item.id, !.copy = MovedUp(item)])
        PROVE  TInv'
    <3>1. item \in q.todo
      BY DEF Lowest
    <3>2. MovedUp(item) \in Row
      BY <1>q, <2>3, <3>1, MovedUpTyped
    <3>. QED
      BY <2>2, <2>3, <3>1, <3>2
  <2>4. ASSUME NEW item \in q.todo,
               Continue(r, [q EXCEPT !.phase = "save", !.todo = @ \ {item},
                                     !.id = item.id, !.copy = Purged(item)])
        PROVE  TInv'
    <3>1. Purged(item) \in Row
      BY <1>q, PurgedTyped
    <3>. QED
      BY <2>2, <2>4, <3>1
  <2>. QED
    BY <1>6, <2>1, <2>3, <2>4 DEF NextItem
<1>7. CASE Erase(r)
  <2> DEFINE p == [q EXCEPT !.phase = "next"]
  <2>1. requests' = [requests EXCEPT ![r] = p] /\ answers' = Without(q.id)
        /\ UNCHANGED <<rows, visits, today, crashes>>
    BY <1>7 DEF Erase, Continue
  <2> HIDE DEF q
  <2>2. p \in Request /\ p.kind = q.kind /\ p.todo = q.todo
    BY <1>q DEF Request
  <2>3. answers' \subseteq answers
    BY <2>1 DEF Without
  <2>4. IsFiniteSet(answers')
    BY <2>3, FS_Subset DEF TInv, Countable
  <2> HIDE DEF p
  <2>5. TypeOK'
    BY <2>1, <2>2, <2>3 DEF TInv, TypeOK
  <2>6. Countable'
    BY <1>q, <2>1, <2>2, <2>4 DEF TInv, TypeOK, Countable
  <2>. QED
    BY <2>5, <2>6 DEF TInv
<1>. QED
  BY <1>1, <1>2, <1>3, <1>4, <1>5, <1>6, <1>7 DEF Step

LEMMA VisitTyped ==
  ASSUME TInv, NEW v \in Visits, NEW w \in Visit \union {None},
         visits' = [visits EXCEPT ![v] = w],
         answers' \subseteq Answer, IsFiniteSet(answers'),
         UNCHANGED <<rows, requests, today, crashes>>
  PROVE  TInv'
<1>1. TypeOK'
  BY DEF TInv, TypeOK
<1>2. Countable'
  BY DEF TInv, TypeOK, Countable
<1>. QED
  BY <1>1, <1>2 DEF TInv

LEMMA ParticipantTyped ==
  ASSUME TInv, NEW v \in Visits, Participant(v)
  PROVE  TInv'
<1>0. answers \subseteq Answer /\ IsFiniteSet(answers)
  BY DEF TInv, TypeOK, Countable
<1>1. ASSUME NEW id \in Ids, Open(v, id) PROVE TInv'
  <2> DEFINE w == [phase |-> IF rows[id].many THEN "insert" ELSE "look",
                   id |-> id, device |-> HashOf(v, rows[id])]
  <2>1. visits' = [visits EXCEPT ![v] = w] /\ UNCHANGED <<rows, answers, requests, today, crashes>>
    BY <1>1 DEF Open
  <2>2. HashOf(v, rows[id]) \in Devices \union {None}
    BY DEF HashOf, Devices
  <2>3. w \in Visit
    BY <2>2 DEF Visit
  <2> HIDE DEF w
  <2>. QED
    BY <1>0, <2>1, <2>3, VisitTyped
<1>2. CASE Look(v)
  <2> DEFINE w == IF Answered(visits[v].id, visits[v].device) THEN None
                  ELSE [visits[v] EXCEPT !.phase = "insert"]
  <2>1. visits' = [visits EXCEPT ![v] = w] /\ UNCHANGED <<rows, answers, requests, today, crashes>>
    BY <1>2 DEF Look, TInv, TypeOK
  <2>2. visits[v] \in Visit
    BY <1>2 DEF Look, TInv, TypeOK
  <2>3. w \in Visit \union {None}
    BY <2>2 DEF Visit
  <2> HIDE DEF w
  <2>. QED
    BY <1>0, <2>1, <2>3, VisitTyped
<1>3. CASE Insert(v)
  <2> DEFINE a == [survey |-> visits[v].id, visit |-> v, device |-> visits[v].device]
  <2>1. visits[v] \in Visit
    BY <1>3 DEF Insert, TInv, TypeOK
  <2>2. a \in Answer
    BY <2>1 DEF Visit, Answer
  <2>3. answers' = answers \/ answers' = answers \union {a}
    BY <1>3 DEF Insert
  <2>4. IsFiniteSet(answers \union {a})
    BY <1>0, FS_AddElement
  <2> HIDE DEF a
  <2>5. answers' \subseteq Answer /\ IsFiniteSet(answers')
    BY <1>0, <2>2, <2>3, <2>4
  <2>6. visits' = [visits EXCEPT ![v] = None] /\ UNCHANGED <<rows, requests, today, crashes>>
    BY <1>3 DEF Insert
  <2>. QED
    BY <2>5, <2>6, VisitTyped
<1>. QED
  BY <1>1, <1>2, <1>3 DEF Participant

LEMMA DeleteAnswerTyped ==
  ASSUME TInv, NEW a, DeleteAnswer(a)
  PROVE  TInv'
<1>1. answers' \subseteq answers /\ UNCHANGED <<rows, requests, visits, today, crashes>>
  BY DEF DeleteAnswer
<1>2. IsFiniteSet(answers')
  BY <1>1, FS_Subset DEF TInv, Countable
<1>3. TypeOK'
  BY <1>1 DEF TInv, TypeOK
<1>4. Countable'
  BY <1>1, <1>2 DEF TInv, TypeOK, Countable
<1>. QED
  BY <1>3, <1>4 DEF TInv

LEMMA RestTyped ==
  ASSUME TInv, Crash \/ Tick \/ UNCHANGED vars
  PROVE  TInv'
<1>1. CASE Crash
  <2>1. TypeOK'
    BY <1>1 DEF Crash, TInv, TypeOK
  <2>2. Countable'
    BY <1>1 DEF Crash, TInv, Countable
  <2>. QED
    BY <2>1, <2>2 DEF TInv
<1>2. CASE Tick
  BY <1>2 DEF Tick, TInv, TypeOK, Countable
<1>3. CASE UNCHANGED vars
  BY <1>3 DEF vars, TInv, TypeOK, Countable
<1>. QED
  BY <1>1, <1>2, <1>3

LEMMA TypeStep == TInv /\ [Next]_vars => TInv'
<1> SUFFICES ASSUME TInv, [Next]_vars PROVE TInv'
  OBVIOUS
<1>. QED
  BY StaffTyped, StepTyped, ParticipantTyped, DeleteAnswerTyped, RestTyped DEF Next

LEMMA Typed == Spec => []TInv
  BY TypeStart, TypeStep, PTL DEF Spec

(* Rows, answers, requests and visits keep their types, and so every round *)
(* number stays above zero while a deletion renumbers the later rounds.    *)
THEOREM TypeCorrect == Spec => []TypeOK
<1>1. TInv => TypeOK
  BY DEF TInv
<1>. QED
  BY <1>1, Typed, PTL

-----------------------------------------------------------------------------
(* One answer of a device. *)

LEMMA AnswersGrow ==
  ASSUME TInv, [Next]_vars
  PROVE  \/ answers' \subseteq answers
         \/ \E v \in Visits :
              /\ visits[v] # None /\ visits[v].phase = "insert" /\ visits'[v] = None
              /\ UNCHANGED <<rows, requests, today, crashes>>
              /\ ~ Refused(visits[v].id, visits[v].device)
              /\ answers' = answers \union {[survey |-> visits[v].id, visit |-> v,
                                             device |-> visits[v].device]}
<1>1. ASSUME NEW r \in Requests, Staff(r) PROVE answers' = answers
  BY <1>1 DEF Staff, BeginUpdate, BeginStart, BeginClose, BeginRound, BeginDelete, BeginPurge, Begin
<1>2. ASSUME NEW r \in Requests, Step(r) PROVE answers' \subseteq answers
  BY <1>2 DEF Step, Recheck, Load, Write, Remove, Following, NextItem, Erase, Without
<1>3. ASSUME NEW v \in Visits, Look(v) PROVE answers' = answers
  BY <1>3 DEF Look
<1>4. ASSUME NEW v \in Visits, NEW id \in Ids, Open(v, id) PROVE answers' = answers
  BY <1>4 DEF Open
<1>5. ASSUME NEW a \in answers, DeleteAnswer(a) PROVE answers' \subseteq answers
  BY <1>5 DEF DeleteAnswer
<1>6. ASSUME Crash \/ Tick \/ UNCHANGED vars PROVE answers' = answers
  BY <1>6 DEF Crash, Tick, vars
<1>7. ASSUME NEW v \in Visits, Insert(v)
      PROVE  \/ answers' \subseteq answers
             \/ /\ visits[v] # None /\ visits[v].phase = "insert" /\ visits'[v] = None
                /\ UNCHANGED <<rows, requests, today, crashes>>
                /\ ~ Refused(visits[v].id, visits[v].device)
                /\ answers' = answers \union {[survey |-> visits[v].id, visit |-> v,
                                               device |-> visits[v].device]}
  <2>1. visits'[v] = None
    BY <1>7 DEF Insert, TInv, TypeOK
  <2>. QED
    BY <1>7, <2>1 DEF Insert
<1>. QED
  BY <1>1, <1>2, <1>3, <1>4, <1>5, <1>6, <1>7 DEF Next, Participant

(* Of two submissions of one device that both looked before either wrote,  *)
(* the unique index refuses the second: a device answers a round once.     *)
THEOREM OneAnswerEach == Spec => []OncePerDevice
<1>1. Init => OncePerDevice
  BY DEF Init, OncePerDevice
<1>2. TInv /\ OncePerDevice /\ [Next]_vars => OncePerDevice'
  <2> SUFFICES ASSUME TInv, OncePerDevice, [Next]_vars PROVE OncePerDevice'
    OBVIOUS
  <2>1. CASE answers' \subseteq answers
    BY <2>1 DEF OncePerDevice
  <2>2. ASSUME NEW v \in Visits, ~ Refused(visits[v].id, visits[v].device),
               answers' = answers \union {[survey |-> visits[v].id, visit |-> v,
                                          device |-> visits[v].device]}
        PROVE  OncePerDevice'
    BY <2>2 DEF OncePerDevice, Refused, Answered, AnswersOf
  <2>. QED
    BY <2>1, <2>2, AnswersGrow
<1>. QED
  BY <1>1, <1>2, Typed, PTL DEF Spec

-----------------------------------------------------------------------------
(* One request of staff at a time.  A request saves a copy of a row it     *)
(* read in an earlier step.  What follows says of every step what the copy *)
(* still has to do with the row.                                           *)

(* A survey has a due date once it was closed, and an aggregate only then. *)
Lawful(row) ==
  /\ row.status \in {"draft", "active"} => row.due = None
  /\ row.status = "closed" => row.due # None
  /\ row.snapshot # None => row.due # None

Begun(row) == row.status = "active" \/ row.due # None
Takes(row) == row.status = "active" \/ (row.due # None /\ row.due > today)

RowsLawful == \A s \in Rounds : Lawful(rows[s])

AnswersOfBegun == \A a \in answers : rows[a.survey] # None /\ Begun(rows[a.survey])

(* While a submission is handled, its round is not due: a retention period *)
(* is longer than any request.                                             *)
VisitsTaken ==
  \A v \in Visits : visits[v] # None => rows[visits[v].id] # None /\ Takes(rows[visits[v].id])

(* A copy an edit may put in the place of the row. *)
Replaces(copy, row) ==
  /\ Lawful(copy) /\ copy.snapshot = row.snapshot /\ copy.number = row.number
  /\ Begun(row) => Begun(copy)
  /\ row.status = "active" => Takes(copy)
  /\ row.due # None => copy.due = row.due

LoadedIs(q) == q.phase = "write" => q.base = rows[q.id]

Editing(q) ==
  /\ q.phase \in {"compare", "compete", "save", "write"}
  /\ rows[q.id] # None => Replaces(q.copy, rows[q.id])
  /\ rows[q.id] = None => q.phase = "write" /\ Lawful(q.copy)
  /\ LoadedIs(q)

Current(todo) == \A item \in todo : rows[item.id] = item.copy
Others(q)     == \A item \in q.todo : item.id # q.id

Deleting(q) ==
  /\ q.phase \in {"count", "remove", "following", "save", "write", "next"}
  /\ q.phase \in {"count", "remove"} =>
       rows[q.id] = q.copy /\ q.copy.status = "draft" /\ q.copy.number > 1
  /\ q.phase \in {"count", "remove", "following"} => q.todo = {}
  /\ q.phase = "following" => rows[q.id] = None
  /\ q.phase \in {"save", "write"} =>
       /\ rows[q.id] # None
       /\ rows[q.id].number > 1
       /\ q.copy = [rows[q.id] EXCEPT !.number = @ - 1]
       /\ LoadedIs(q) /\ Others(q)
  /\ Current(q.todo)

Counts(row, id) == row.snapshot # None /\ row.snapshot.count >= Cardinality(AnswersOf(id))

Purging(q) ==
  /\ q.phase \in {"save", "write", "erase", "next"}
  /\ q.phase \in {"save", "write"} =>
       /\ rows[q.id] # None
       /\ Expired(rows[q.id])
       /\ Counts(q.copy, q.id)
       /\ q.copy = [rows[q.id] EXCEPT !.snapshot = q.copy.snapshot]
       /\ LoadedIs(q) /\ Others(q)
  /\ q.phase = "erase" =>
       /\ rows[q.id] # None
       /\ rows[q.id].due # None /\ rows[q.id].due <= today
       /\ Counts(rows[q.id], q.id)
  /\ Current(q.todo)
  /\ \A item \in q.todo : Expired(item.copy)

Handled(q) ==
  /\ q.kind = "edit" => Editing(q)
  /\ q.kind = "delete" => Deleting(q)
  /\ q.kind = "purge" => Purging(q)

AllHandled == \A r \in Requests : requests[r] # None => Handled(requests[r])

SInv == TInv /\ RowsLawful /\ AnswersOfBegun /\ VisitsTaken /\ AllHandled

Sole == \A r, q \in Requests : r = q

LEMMA StartHandled == Init => SInv
<1> SUFFICES ASSUME Init PROVE SInv
  OBVIOUS
<1>1. TInv
  BY TypeStart
<1>2. RowsLawful
  <2>1. PICK q \in Questions, many \in BOOLEAN :
          rows = [id \in Ids |-> IF id = Root THEN Draft(1, q, many) ELSE None]
    BY DEF Init
  <2>. QED
    BY <2>1 DEF RowsLawful, Lawful, Rounds, Draft
<1>3. AnswersOfBegun /\ VisitsTaken /\ AllHandled
  BY DEF Init, AnswersOfBegun, VisitsTaken, AllHandled
<1>. QED
  BY <1>1, <1>2, <1>3 DEF SInv

(* Only the request changes. *)
LEMMA RequestHandled ==
  ASSUME SInv, TInv', Sole, NEW r \in Requests, NEW q, q # None => Handled(q),
         requests' = [requests EXCEPT ![r] = q],
         UNCHANGED <<rows, answers, visits, today, crashes>>
  PROVE  SInv'
<1>1. \A t \in Requests : requests'[t] = q
  BY DEF Sole, SInv, TInv, TypeOK
<1>2. q # None => Handled(q)'
  BY DEF Handled, Editing, Deleting, Purging, LoadedIs, Replaces, Takes, Current, Counts, Expired,
         AnswersOf
<1>3. AllHandled'
  BY <1>1, <1>2 DEF AllHandled
<1>4. RowsLawful' /\ AnswersOfBegun' /\ VisitsTaken'
  BY DEF SInv, RowsLawful, AnswersOfBegun, VisitsTaken, Rounds, Takes
<1>. QED
  BY <1>3, <1>4 DEF SInv

(* A row is replaced or added. *)
LEMMA RowHandled ==
  ASSUME SInv, TInv', Sole, NEW r \in Requests, NEW q, q # None => Handled(q)',
         requests' = [requests EXCEPT ![r] = q],
         NEW id \in Ids, NEW copy \in Row, Lawful(copy),
         rows[id] # None => (Begun(rows[id]) => Begun(copy)) /\ (Takes(rows[id]) => Takes(copy)),
         rows' = [rows EXCEPT ![id] = copy],
         UNCHANGED <<answers, visits, today, crashes>>
  PROVE  SInv'
<1>1. \A t \in Requests : requests'[t] = q
  BY DEF Sole, SInv, TInv, TypeOK
<1>2. AllHandled'
  BY <1>1 DEF AllHandled
<1>3. rows'[id] = copy /\ copy # None /\ \A s \in Ids \ {id} : rows'[s] = rows[s]
  BY NoneIsNothing DEF SInv, TInv, TypeOK
<1>4. RowsLawful'
  BY <1>3 DEF SInv, RowsLawful, Rounds
<1>5. AnswersOfBegun'
  BY <1>3 DEF SInv, AnswersOfBegun, TInv, TypeOK, Answer
<1>6. VisitsTaken'
  <2>1. \A v \in Visits : visits[v] # None => visits[v].id \in Ids
    BY DEF SInv, TInv, TypeOK, Visit
  <2>. QED
    BY <1>3, <2>1 DEF SInv, VisitsTaken, Takes
<1>. QED
  BY <1>2, <1>4, <1>5, <1>6 DEF SInv

-----------------------------------------------------------------------------
(* What a request begins with. *)

LEMMA UpdateReplaces ==
  ASSUME NEW row \in Row, NEW u \in Updates, Editable(row, u), Lawful(row)
  PROVE  Replaces(Updated(row, u), row)
<1> DEFINE copy == Updated(row, u)
<1> SUFFICES Replaces(copy, row)
  OBVIOUS
<1>1. copy.due = row.due /\ copy.snapshot = row.snapshot /\ copy.number = row.number
  BY DEF Updated, Row
<1>0. /\ u.archived \in BOOLEAN \union {None} /\ row.status \in Status
      /\ copy.status = CASE u.archived = TRUE -> "archived"
                         [] u.archived = FALSE /\ row.status = "archived" ->
                              IF row.due = None THEN "draft" ELSE "closed"
                         [] OTHER -> row.status
  BY SurveyConstants DEF Updated, Row
<1> HIDE DEF copy
<1>2. row.status = "active" => copy.status = "active"
  BY <1>0 DEF Editable
<1>3. copy.status \in {"draft", "active"} => row.due = None
  BY <1>0 DEF Lawful
<1>4. copy.status = "closed" => row.due # None
  BY <1>0 DEF Lawful
<1>5. Lawful(copy)
  BY <1>1, <1>3, <1>4 DEF Lawful
<1>6. (Begun(row) => Begun(copy)) /\ (row.status = "active" => Takes(copy))
  BY <1>1, <1>2 DEF Begun, Takes
<1>. QED
  BY <1>1, <1>5, <1>6 DEF Replaces

LEMMA DoingIs ==
  ASSUME NEW kind, NEW phase, NEW id, NEW copy
  PROVE  LET q == Doing(kind, phase, id, copy) IN
           /\ q.kind = kind /\ q.phase = phase /\ q.id = id /\ q.copy = copy
           /\ q.base = None /\ q.todo = {}
  BY DEF Doing

LEMMA BeginHandled ==
  ASSUME SInv, TInv', Sole, NEW r \in Requests, NEW q, Handled(q), Begin(r, q)
  PROVE  SInv'
  BY RequestHandled DEF Begin

LEMMA EditHandled ==
  ASSUME NEW id \in Ids, rows[id] # None, NEW copy, Replaces(copy, rows[id]),
         NEW phase \in {"compare", "compete", "save"}
  PROVE  Handled(Doing("edit", phase, id, copy))
  BY DoingIs DEF Handled, Editing, LoadedIs

LEMMA StaffHandled ==
  ASSUME SInv, TInv', Sole, NEW r \in Requests, Staff(r)
  PROVE  SInv'
<1>0. \A id \in Ids : rows[id] # None => rows[id] \in Row /\ Lawful(rows[id])
  BY DEF SInv, TInv, TypeOK, RowsLawful, Rounds
<1>1. ASSUME NEW id \in Ids, NEW u \in Updates, BeginUpdate(r, id, u) PROVE SInv'
  <2>1. Replaces(Updated(rows[id], u), rows[id])
    BY <1>0, <1>1, UpdateReplaces DEF BeginUpdate
  <2> DEFINE phase == IF rows[id].number > 1 /\ u.questions # None THEN "compare" ELSE "save"
             q == Doing("edit", phase, id, Updated(rows[id], u))
  <2>2. phase \in {"compare", "compete", "save"}
    OBVIOUS
  <2>3. Begin(r, q) /\ rows[id] # None
    BY <1>1 DEF BeginUpdate
  <2> HIDE DEF phase
  <2>4. Handled(q)
    BY <2>1, <2>2, <2>3, EditHandled
  <2> HIDE DEF q
  <2>. QED
    BY <2>3, <2>4, BeginHandled
<1>2. ASSUME NEW id \in Ids, BeginStart(r, id) PROVE SInv'
  <2> DEFINE copy == [rows[id] EXCEPT !.status = "active", !.archived = FALSE]
             q == Doing("edit", "compete", id, copy)
  <2>1. Begin(r, q) /\ rows[id] # None /\ rows[id].status \in {"draft", "active"}
    BY <1>2 DEF BeginStart, Startable
  <2>2. copy.status = "active" /\ copy.due = rows[id].due /\ copy.snapshot = rows[id].snapshot
        /\ copy.number = rows[id].number
    BY <1>0, <2>1 DEF Row
  <2> HIDE DEF copy
  <2>3. Replaces(copy, rows[id])
    BY <1>0, <2>1, <2>2 DEF Replaces, Lawful, Begun, Takes
  <2>4. Handled(q)
    BY <2>1, <2>3, EditHandled
  <2> HIDE DEF q
  <2>. QED
    BY <2>1, <2>4, BeginHandled
<1>3. ASSUME NEW id \in Ids, BeginClose(r, id) PROVE SInv'
  <2> DEFINE copy == Closed(rows[id])
             q == Doing("edit", "save", id, copy)
  <2>1. Begin(r, q) /\ rows[id] # None /\ rows[id].status = "active"
    BY <1>3 DEF BeginClose
  <2>2. copy.status = "closed" /\ copy.due = today + 1 /\ copy.snapshot = rows[id].snapshot
        /\ copy.number = rows[id].number
    BY <1>0, <2>1 DEF Row, Closed
  <2>3. today + 1 # None /\ today + 1 > today
    BY NoneIsNothing DEF SInv, TInv, TypeOK
  <2> HIDE DEF copy
  <2>4. Replaces(copy, rows[id])
    BY <1>0, <2>1, <2>2, <2>3 DEF Replaces, Lawful, Begun, Takes
  <2>5. Handled(q)
    BY <2>1, <2>4, EditHandled
  <2> HIDE DEF q
  <2>. QED
    BY <2>1, <2>5, BeginHandled
<1>4. ASSUME NEW id \in Ids, BeginRound(r, id) PROVE SInv'
  <2>1. PICK source \in Rounds :
          Begin(r, Doing("edit", "write", id, Draft(LastNumber + 1, rows[source].questions,
                                                    rows[source].many)))
    BY <1>4 DEF BeginRound
  <2> DEFINE copy == Draft(LastNumber + 1, rows[source].questions, rows[source].many)
             q == Doing("edit", "write", id, copy)
  <2>2. Lawful(copy)
    BY DEF Lawful, Draft
  <2>3. Begin(r, q) /\ rows[id] = None
    BY <1>4, <2>1 DEF BeginRound, Rounds
  <2> HIDE DEF copy
  <2>4. Handled(q)
    BY <2>2, <2>3, DoingIs DEF Handled, Editing, LoadedIs
  <2> HIDE DEF q
  <2>. QED
    BY <2>3, <2>4, BeginHandled
<1>5. ASSUME NEW id \in Ids, BeginDelete(r, id) PROVE SInv'
  <2> DEFINE q == Doing("delete", "count", id, rows[id])
  <2>1. Begin(r, q) /\ rows[id].number > 1 /\ rows[id].status = "draft"
    BY <1>5 DEF BeginDelete
  <2>2. Handled(q)
    BY <2>1, DoingIs DEF Handled, Deleting, Current
  <2> HIDE DEF q
  <2>. QED
    BY <2>1, <2>2, BeginHandled
<1>6. CASE BeginPurge(r)
  <2> DEFINE expired == {id \in Rounds : Expired(rows[id])}
             todo == {[id |-> s, copy |-> rows[s]] : s \in expired}
  <2>1. PICK id \in expired :
          Begin(r, [Doing("purge", "next", id, rows[id]) EXCEPT !.todo = todo])
    BY <1>6 DEF BeginPurge
  <2>2. Current(todo) /\ \A item \in todo : Expired(item.copy)
    BY DEF Current
  <2> DEFINE d == Doing("purge", "next", id, rows[id])
             q == [d EXCEPT !.todo = todo]
  <2>3. Begin(r, q)
    BY <2>1
  <2> HIDE DEF todo
  <2>4. q.kind = "purge" /\ q.phase = "next" /\ q.todo = todo
    BY DEF Doing
  <2> HIDE DEF d, q
  <2>5. Handled(q)
    BY <2>2, <2>4 DEF Handled, Purging
  <2>. QED
    BY <2>3, <2>5, BeginHandled
<1>. QED
  BY <1>1, <1>2, <1>3, <1>4, <1>5, <1>6 DEF Staff

-----------------------------------------------------------------------------
(* What the steps of a request make of the rows. *)

(* Nobody else wrote: what is saved is the copy as it is. *)
LEMMA MergedSame ==
  ASSUME NEW copy \in Row, NEW base \in Row
  PROVE  Merged(base, copy, base) = copy
  BY DEF Merged, Row

LEMMA SavesCopy ==
  ASSUME SInv, NEW r \in Requests, At(r, "write")
  PROVE  /\ Saved(requests[r]) = requests[r].copy
         /\ requests[r].base = rows[requests[r].id]
<1> DEFINE q == requests[r]
<1>1. q # None /\ q.phase = "write" /\ Handled(q)
  BY DEF At, SInv, AllHandled
<1>2. q \in Request
  BY <1>1 DEF SInv, TInv, TypeOK
<1> HIDE DEF q
<1>3. q.kind \in {"edit", "delete", "purge"} /\ q.id \in Ids /\ q.copy \in Row
      /\ q.base \in Row \union {None}
  BY <1>2 DEF Request
<1>4. q.base = rows[q.id]
  BY <1>1, <1>3 DEF Handled, Editing, Deleting, Purging, LoadedIs
<1>5. Saved(q) = q.copy
  BY <1>3, <1>4, MergedSame DEF Saved
<1>. QED
  BY <1>4, <1>5 DEF q

(* What a row is replaced by. *)
LEMMA CopyReplaces ==
  ASSUME SInv, NEW r \in Requests, At(r, "write")
  PROVE  LET q == requests[r] IN
         /\ Lawful(q.copy)
         /\ rows[q.id] # None =>
              /\ Begun(rows[q.id]) => Begun(q.copy)
              /\ Takes(rows[q.id]) => Takes(q.copy)
              /\ rows[q.id].snapshot # None => q.copy.snapshot = rows[q.id].snapshot
              /\ q.copy.number = IF q.kind = "delete" THEN rows[q.id].number - 1
                                 ELSE rows[q.id].number
         /\ rows[q.id] = None => q.kind = "edit"
<1> DEFINE q == requests[r]
           row == rows[q.id]
<1> SUFFICES /\ Lawful(q.copy)
             /\ row # None =>
                  /\ Begun(row) => Begun(q.copy)
                  /\ Takes(row) => Takes(q.copy)
                  /\ row.snapshot # None => q.copy.snapshot = row.snapshot
                  /\ q.copy.number = IF q.kind = "delete" THEN row.number - 1 ELSE row.number
             /\ row = None => q.kind = "edit"
  OBVIOUS
<1>1. q # None /\ q.phase = "write" /\ Handled(q)
  BY DEF At, SInv, AllHandled
<1>2. q \in Request
  BY <1>1 DEF SInv, TInv, TypeOK
<1> HIDE DEF q
<1>3. q.kind \in {"edit", "delete", "purge"} /\ q.id \in Ids /\ q.copy \in Row
  BY <1>2 DEF Request
<1>4. row # None => row \in Row /\ Lawful(row)
  BY <1>3 DEF SInv, TInv, TypeOK, RowsLawful, Rounds
<1>5. CASE q.kind = "edit"
  <2>1. Editing(q)
    BY <1>1, <1>5 DEF Handled
  <2>2. CASE row = None
    BY <1>5, <2>1, <2>2 DEF Editing
  <2>3. CASE row # None
    <3>1. Replaces(q.copy, row)
      BY <2>1, <2>3 DEF Editing
    <3> HIDE DEF row
    <3>2. Takes(row) => Takes(q.copy)
      BY <3>1 DEF Replaces, Takes
    <3>. QED
      BY <1>5, <2>3, <3>1, <3>2 DEF Replaces
  <2>. QED
    BY <2>2, <2>3
<1>6. CASE q.kind = "delete"
  <2>1. row # None /\ q.copy = [row EXCEPT !.number = @ - 1]
    BY <1>1, <1>6 DEF Handled, Deleting
  <2> HIDE DEF row
  <2>2. q.copy.status = row.status /\ q.copy.due = row.due /\ q.copy.snapshot = row.snapshot
        /\ q.copy.number = row.number - 1
    BY <1>4, <2>1 DEF Row
  <2>. QED
    BY <1>4, <1>6, <2>1, <2>2 DEF Lawful, Begun, Takes
<1>7. CASE q.kind = "purge"
  <2>1. row # None /\ q.copy = [row EXCEPT !.snapshot = q.copy.snapshot] /\ Expired(row)
    BY <1>1, <1>7 DEF Handled, Purging
  <2> HIDE DEF row
  <2>2. q.copy.status = row.status /\ q.copy.due = row.due /\ q.copy.number = row.number
    BY <1>4, <2>1 DEF Row
  <2>. QED
    BY <1>4, <1>7, <2>1, <2>2 DEF Lawful, Begun, Takes, Expired
<1>. QED
  BY <1>3, <1>5, <1>6, <1>7

(* What goes on after a row is written. *)
LEMMA WrittenHandled ==
  ASSUME SInv, NEW r \in Requests, NEW q, q = requests[r], At(r, "write"), AfterWrite(q) # None,
         rows' = [rows EXCEPT ![q.id] = q.copy], UNCHANGED <<answers, today>>,
         NEW p, p = AfterWrite(q)
  PROVE  Handled(p)'
<1>1. q # None /\ q.phase = "write" /\ Handled(q)
  BY DEF At, SInv, AllHandled
<1>2. q \in Request
  BY <1>1 DEF SInv, TInv, TypeOK
<1>3. q.kind \in {"edit", "delete", "purge"} /\ q.id \in Ids /\ q.copy \in Row
  BY <1>2 DEF Request
<1>4. rows'[q.id] = q.copy /\ \A s \in Ids \ {q.id} : rows'[s] = rows[s]
  BY <1>3 DEF SInv, TInv, TypeOK
<1>5. \A item \in q.todo : item.id \in Ids
  BY <1>2 DEF Request
<1>6. CASE q.kind = "edit"
  BY <1>6 DEF AfterWrite
<1>7. CASE q.kind = "delete"
  <2>1. p = [q EXCEPT !.phase = "next"]
    BY <1>7 DEF AfterWrite
  <2>2. p.kind = "delete" /\ p.phase = "next" /\ p.todo = q.todo
    BY <1>2, <1>7, <2>1 DEF Request
  <2>3. Current(q.todo)'
    BY <1>1, <1>4, <1>5, <1>7 DEF Handled, Deleting, Current, Others
  <2>. QED
    BY <2>2, <2>3 DEF Handled, Deleting, Current
<1>8. CASE q.kind = "purge"
  <2>1. p = [q EXCEPT !.phase = "erase"]
    BY <1>8 DEF AfterWrite
  <2>2. p.kind = "purge" /\ p.phase = "erase" /\ p.todo = q.todo /\ p.id = q.id
    BY <1>2, <1>8, <2>1 DEF Request
  <2>3. Purging(q)
    BY <1>1, <1>8 DEF Handled
  <2>4. Current(q.todo)'
    BY <1>1, <1>4, <1>5, <2>3 DEF Purging, Current, Others
  <2>5. \A item \in q.todo : Expired(item.copy)'
    BY <2>3 DEF Purging, Expired
  <2>6. rows[q.id] \in Row /\ rows[q.id].due # None /\ rows[q.id].due <= today
        /\ q.copy = [rows[q.id] EXCEPT !.snapshot = q.copy.snapshot] /\ Counts(q.copy, q.id)
    BY <1>1, <1>3, <2>3 DEF Purging, Expired, SInv, TInv, TypeOK
  <2>7. q.copy.due = rows[q.id].due
    BY <2>6 DEF Row
  <2>8. Counts(q.copy, q.id)'
    BY <2>6 DEF Counts, AnswersOf
  <2>9. q.copy # None
    BY <1>3, NoneIsNothing
  <2>10. Purging(p)'
    BY <1>4, <2>2, <2>4, <2>5, <2>6, <2>7, <2>8, <2>9 DEF Purging, Current
  <2>. QED
    BY <2>2, <2>10 DEF Handled
<1>. QED
  BY <1>3, <1>6, <1>7, <1>8

LEMMA WriteHandled ==
  ASSUME SInv, TInv', Sole, NEW r \in Requests, Write(r)
  PROVE  SInv'
<1> PICK q : q = requests[r]
  OBVIOUS
<1>1. At(r, "write") /\ q # None /\ UNCHANGED <<answers, visits, today, crashes>>
  BY DEF Write, At
<1>2. q.id \in Ids /\ q.copy \in Row
  BY <1>1, RequestParts DEF SInv
<1>3. CASE ~ Permitted(q, Saved(q))
  <2>1. requests' = [requests EXCEPT ![r] = None] /\ rows' = rows
    BY <1>3 DEF Write, Continue
  <2>. QED
    BY <1>1, <2>1, RequestHandled
<1>4. CASE Permitted(q, Saved(q))
  <2>1. rows' = [rows EXCEPT ![q.id] = q.copy]
    BY <1>1, <1>4, SavesCopy DEF Write
  <2> PICK p : p = AfterWrite(q)
    OBVIOUS
  <2>2. requests' = [requests EXCEPT ![r] = p]
    BY <1>4 DEF Write, Continue
  <2>3. p # None => Handled(p)'
    BY <1>1, <2>1, WrittenHandled
  <2>4. /\ Lawful(q.copy)
        /\ rows[q.id] # None => (Begun(rows[q.id]) => Begun(q.copy))
                               /\ (Takes(rows[q.id]) => Takes(q.copy))
    BY <1>1, CopyReplaces
  <2>. QED
    BY <1>1, <1>2, <2>1, <2>2, <2>3, <2>4, RowHandled
<1>. QED
  BY <1>3, <1>4

LEMMA RemoveHandled ==
  ASSUME SInv, TInv', Sole, NEW r \in Requests, Remove(r)
  PROVE  SInv'
<1> PICK q : q = requests[r]
  OBVIOUS
<1> DEFINE p == [q EXCEPT !.phase = "following"]
<1>1. /\ q # None /\ q.phase = "remove" /\ Handled(q)
      /\ requests' = [requests EXCEPT ![r] = p]
      /\ rows' = [rows EXCEPT ![q.id] = None]
      /\ UNCHANGED <<answers, visits, today, crashes>>
  BY DEF Remove, At, Continue, SInv, AllHandled
<1>2. q \in Request
  BY <1>1 DEF SInv, TInv, TypeOK
<1>3. q.kind \in {"edit", "delete", "purge"} /\ q.id \in Ids /\ q.copy \in Row
  BY <1>2 DEF Request
<1>4. q.kind = "delete" /\ Deleting(q)
  BY <1>1, <1>3 DEF Handled, Editing, Purging
<1>5. rows[q.id] # None /\ rows[q.id].status = "draft" /\ rows[q.id].due = None /\ q.todo = {}
  <2>1. rows[q.id] = q.copy /\ q.copy.status = "draft" /\ q.todo = {}
    BY <1>1, <1>4 DEF Deleting
  <2>. QED
    BY <1>3, <2>1, NoneIsNothing DEF SInv, RowsLawful, Lawful, Rounds
<1>6. rows'[q.id] = None /\ \A s \in Ids \ {q.id} : rows'[s] = rows[s]
  BY <1>1, <1>3 DEF SInv, TInv, TypeOK
<1>7. p.kind = "delete" /\ p.phase = "following" /\ p.id = q.id /\ p.todo = {}
  BY <1>2, <1>4, <1>5 DEF Request
<1> HIDE DEF p
<1>8. Handled(p)'
  BY <1>6, <1>7 DEF Handled, Deleting, Current
<1>9. AllHandled'
  <2>1. \A t \in Requests : requests'[t] = p
    BY <1>1 DEF Sole, SInv, TInv, TypeOK
  <2>. QED
    BY <1>8, <2>1 DEF AllHandled
<1>10. RowsLawful'
  BY <1>6 DEF SInv, RowsLawful, Rounds
<1>11. AnswersOfBegun'
  BY <1>1, <1>5, <1>6 DEF SInv, AnswersOfBegun, Begun, TInv, TypeOK, Answer
<1>12. VisitsTaken'
  <2>1. \A v \in Visits : visits[v] # None => visits[v].id \in Ids
    BY DEF SInv, TInv, TypeOK, Visit
  <2>. QED
    BY <1>1, <1>5, <1>6, <2>1 DEF SInv, VisitsTaken, Takes
<1>. QED
  BY <1>9, <1>10, <1>11, <1>12 DEF SInv

LEMMA NextItemHandled ==
  ASSUME SInv, TInv', Sole, NEW r \in Requests, NextItem(r)
  PROVE  SInv'
<1> PICK q : q = requests[r]
  OBVIOUS
<1>1. q # None /\ q.phase = "next" /\ Handled(q) /\ UNCHANGED <<rows, answers, visits, today, crashes>>
  BY DEF NextItem, At, SInv, AllHandled
<1>2. q \in Request
  BY <1>1 DEF SInv, TInv, TypeOK
<1>3. \A item \in q.todo : item.id \in Ids /\ item.copy \in Row /\ item \in [id : Ids, copy : Row]
  BY <1>2 DEF Request
<1>4. CASE requests' = [requests EXCEPT ![r] = None]
  BY <1>1, <1>4, RequestHandled
<1>5. ASSUME NEW item \in q.todo, NEW copy,
             Continue(r, [q EXCEPT !.phase = "save", !.todo = @ \ {item},
                                   !.id = item.id, !.copy = copy]),
             Current(q.todo),
             \/ q.kind = "delete" /\ item.copy.number > 1 /\ copy = [item.copy EXCEPT !.number = @ - 1]
             \/ /\ q.kind = "purge" /\ Expired(item.copy) /\ Counts(copy, item.id)
                /\ copy = [item.copy EXCEPT !.snapshot = copy.snapshot]
                /\ \A other \in q.todo : Expired(other.copy)
      PROVE  SInv'
  <2> DEFINE p == [q EXCEPT !.phase = "save", !.todo = @ \ {item}, !.id = item.id, !.copy = copy]
  <2>1. p.kind = q.kind /\ p.phase = "save" /\ p.id = item.id /\ p.copy = copy
        /\ p.todo = q.todo \ {item}
    BY <1>2 DEF Request
  <2>2. requests' = [requests EXCEPT ![r] = p]
    BY <1>5 DEF Continue
  <2> HIDE DEF p
  <2>3. rows[item.id] = item.copy /\ item.copy # None
    BY <1>3, <1>5, NoneIsNothing DEF Current
  <2>4. Others(p)
    BY <1>3, <1>5, <2>1 DEF Others, Current
  <2>5. Current(p.todo)
    BY <1>5, <2>1 DEF Current
  <2>6. Handled(p)
    BY <1>5, <2>1, <2>3, <2>4, <2>5 DEF Handled, Deleting, Purging, LoadedIs
  <2>. QED
    BY <1>1, <2>2, <2>6, RequestHandled
<1>6. ASSUME q.kind = "delete", NEW item \in Lowest(q.todo),
             Continue(r, [q EXCEPT !.phase = "save", !.todo = @ \ {item},
                                   !.id = item.id, !.copy = MovedUp(item)])
      PROVE  SInv'
  <2>1. item \in q.todo
    BY DEF Lowest
  <2>2. Current(q.todo)
    BY <1>1, <1>6 DEF Handled, Deleting
  <2>3. item.copy.number > 1
    BY <1>1, <1>6, <2>1 DEF SInv, TInv, Countable
  <2>4. PICK copy : copy = MovedUp(item)
    OBVIOUS
  <2>5. copy = [item.copy EXCEPT !.number = @ - 1]
    BY <2>4 DEF MovedUp
  <2>6. Continue(r, [q EXCEPT !.phase = "save", !.todo = @ \ {item}, !.id = item.id, !.copy = copy])
    BY <1>6, <2>4
  <2>. QED
    BY <1>5, <1>6, <2>1, <2>2, <2>3, <2>5, <2>6
<1>7. ASSUME q.kind = "purge", NEW item \in q.todo,
             Continue(r, [q EXCEPT !.phase = "save", !.todo = @ \ {item},
                                   !.id = item.id, !.copy = Purged(item)])
      PROVE  SInv'
  <2>1. Current(q.todo) /\ \A other \in q.todo : Expired(other.copy)
    BY <1>1, <1>7 DEF Handled, Purging
  <2>2. PICK n : n = Cardinality(AnswersOf(item.id))
    OBVIOUS
  <2>3. n \in Nat
    BY <1>3, <2>2, AnswersCounted DEF SInv
  <2>4. PICK copy : copy = Purged(item)
    OBVIOUS
  <2>5. copy = [item.copy EXCEPT !.snapshot = Snapshot(n)]
    BY <2>2, <2>4 DEF Purged
  <2>6. Snapshot(n) \in [count : Nat, shown : BOOLEAN] /\ Snapshot(n).count = n
    BY <2>3 DEF Snapshot
  <2>7. copy.snapshot = Snapshot(n)
    BY <1>3, <2>5 DEF Row
  <2>8. Counts(copy, item.id)
    BY <2>2, <2>3, <2>6, <2>7, NoneIsNothing DEF Counts
  <2>9. Continue(r, [q EXCEPT !.phase = "save", !.todo = @ \ {item}, !.id = item.id, !.copy = copy])
    BY <1>7, <2>4
  <2>. QED
    BY <1>5, <1>7, <2>1, <2>5, <2>7, <2>8, <2>9
<1>. QED
  BY <1>4, <1>6, <1>7 DEF NextItem, Continue

LEMMA RecheckHandled ==
  ASSUME SInv, TInv', Sole, NEW r \in Requests, Recheck(r)
  PROVE  SInv'
<1> PICK q : q = requests[r]
  OBVIOUS
<1> DEFINE w == [q EXCEPT !.phase = IF @ = "count" THEN "remove" ELSE "save"]
           p == IF Passes(q) THEN w ELSE None
<1>1. /\ q # None /\ q.phase \in {"compare", "compete", "count"} /\ Handled(q)
      /\ requests' = [requests EXCEPT ![r] = p]
      /\ UNCHANGED <<rows, answers, visits, today, crashes>>
  BY DEF Recheck, Continue, SInv, AllHandled
<1>2. q \in Request
  BY <1>1 DEF SInv, TInv, TypeOK
<1>3. w.kind = q.kind /\ w.id = q.id /\ w.copy = q.copy /\ w.todo = q.todo
      /\ w.phase = (IF q.phase = "count" THEN "remove" ELSE "save") /\ w.base = q.base
  BY <1>2 DEF Request
<1> HIDE DEF w
<1>4. q.kind \in {"edit", "delete", "purge"}
  BY <1>2 DEF Request
<1>5. Handled(w)
  <2>1. CASE q.kind = "edit"
    BY <1>1, <1>3, <2>1 DEF Handled, Editing, LoadedIs
  <2>2. CASE q.kind = "delete"
    BY <1>1, <1>3, <2>2 DEF Handled, Deleting
  <2>3. CASE q.kind = "purge"
    BY <1>1, <2>3 DEF Handled, Purging
  <2>. QED
    BY <1>4, <2>1, <2>2, <2>3
<1>6. p # None => Handled(p)
  BY <1>5
<1> HIDE DEF p
<1>. QED
  BY <1>1, <1>6, RequestHandled

LEMMA LoadHandled ==
  ASSUME SInv, TInv', Sole, NEW r \in Requests, Load(r)
  PROVE  SInv'
<1> PICK q : q = requests[r]
  OBVIOUS
<1> PICK base : base = rows[q.id]
  OBVIOUS
<1> DEFINE p == [q EXCEPT !.phase = "write", !.base = base]
<1>1. /\ q # None /\ q.phase = "save" /\ Handled(q)
      /\ requests' = [requests EXCEPT ![r] = p]
      /\ UNCHANGED <<rows, answers, visits, today, crashes>>
  BY DEF Load, At, Continue, SInv, AllHandled
<1>2. q \in Request
  BY <1>1 DEF SInv, TInv, TypeOK
<1>3. p.kind = q.kind /\ p.id = q.id /\ p.copy = q.copy /\ p.todo = q.todo
      /\ p.phase = "write" /\ p.base = rows[p.id]
  BY <1>2 DEF Request
<1> HIDE DEF p
<1>4. q.kind \in {"edit", "delete", "purge"}
  BY <1>2 DEF Request
<1>5. Handled(p)
  <2>1. CASE q.kind = "edit"
    BY <1>1, <1>3, <2>1 DEF Handled, Editing, LoadedIs
  <2>2. CASE q.kind = "delete"
    BY <1>1, <1>3, <2>2 DEF Handled, Deleting, LoadedIs, Others
  <2>3. CASE q.kind = "purge"
    BY <1>1, <1>3, <2>3 DEF Handled, Purging, LoadedIs, Others
  <2>. QED
    BY <1>4, <2>1, <2>2, <2>3
<1>. QED
  BY <1>1, <1>5, RequestHandled

LEMMA FollowingHandled ==
  ASSUME SInv, TInv', Sole, NEW r \in Requests, Following(r)
  PROVE  SInv'
<1> PICK q : q = requests[r]
  OBVIOUS
<1> PICK later : later = {[id |-> s, copy |-> rows[s]] : s \in Later(q.copy.number)}
  OBVIOUS
<1> DEFINE p == [q EXCEPT !.phase = "next", !.todo = later]
<1>1. /\ q # None /\ q.phase = "following" /\ Handled(q)
      /\ requests' = [requests EXCEPT ![r] = p]
      /\ UNCHANGED <<rows, answers, visits, today, crashes>>
  BY DEF Following, At, Continue, SInv, AllHandled
<1>2. q \in Request
  BY <1>1 DEF SInv, TInv, TypeOK
<1>3. p.kind = q.kind /\ p.phase = "next" /\ p.todo = later
  BY <1>2 DEF Request
<1> HIDE DEF p
<1>4. q.kind = "delete"
  BY <1>1, <1>2 DEF Request, Handled, Editing, Purging
<1>5. Current(later)
  BY DEF Current
<1>6. Handled(p)
  BY <1>3, <1>4, <1>5 DEF Handled, Deleting
<1>. QED
  BY <1>1, <1>6, RequestHandled

(* Fewer answers, or more of a round no purge is busy with. *)
LEMMA AnswersHandled ==
  ASSUME SInv, NEW q, q \in Request, Handled(q), UNCHANGED <<rows, today>>,
         q.kind = "purge" /\ q.phase \in {"save", "write", "erase"} =>
           AnswersOf(q.id)' \subseteq AnswersOf(q.id)
  PROVE  Handled(q)'
<1>1. q.kind \in {"edit", "delete", "purge"} /\ q.id \in Ids /\ q.copy \in Row
  BY DEF Request
<1>2. CASE q.kind = "edit"
  BY <1>2 DEF Handled, Editing, LoadedIs, Replaces, Takes
<1>3. CASE q.kind = "delete"
  BY <1>3 DEF Handled, Deleting, LoadedIs, Current
<1>4. CASE q.kind = "purge"
  <2>1. Purging(q)
    BY <1>4 DEF Handled
  <2>2. ASSUME NEW row \in Row, Counts(row, q.id), q.phase \in {"save", "write", "erase"}
        PROVE  Counts(row, q.id)'
    <3>1. IsFiniteSet(AnswersOf(q.id)) /\ Cardinality(AnswersOf(q.id)) \in Nat
      BY <1>1, AnswersCounted DEF SInv
    <3>2. PICK less : less = AnswersOf(q.id)'
      OBVIOUS
    <3>3. Cardinality(less) \in Nat /\ Cardinality(less) <= Cardinality(AnswersOf(q.id))
      BY <1>4, <2>2, <3>1, <3>2, FS_Subset, FS_CardinalityType
    <3>4. row.snapshot # None /\ row.snapshot.count >= Cardinality(AnswersOf(q.id))
          /\ row.snapshot.count \in Nat
      BY <2>2 DEF Counts, Row
    <3>5. row.snapshot.count >= Cardinality(less)
      BY <3>1, <3>3, <3>4
    <3>. QED
      BY <3>2, <3>4, <3>5 DEF Counts
  <2>3. rows[q.id] # None => rows[q.id] \in Row
    BY <1>1 DEF SInv, TInv, TypeOK
  <2>4. q.phase \in {"save", "write"} => Counts(q.copy, q.id)'
    BY <1>1, <2>1, <2>2 DEF Purging
  <2>5. q.phase = "erase" => Counts(rows[q.id], q.id)'
    <3> PICK row : row = rows[q.id]
      OBVIOUS
    <3>. QED
      BY <2>1, <2>2, <2>3 DEF Purging
  <2>6. Purging(q)'
    BY <2>1, <2>4, <2>5 DEF Purging, LoadedIs, Current, Expired
  <2>. QED
    BY <1>4, <2>6 DEF Handled
<1>. QED
  BY <1>1, <1>2, <1>3, <1>4

LEMMA EraseHandled ==
  ASSUME SInv, TInv', Sole, NEW r \in Requests, Erase(r)
  PROVE  SInv'
<1> PICK q : q = requests[r]
  OBVIOUS
<1> DEFINE p == [q EXCEPT !.phase = "next"]
<1>1. /\ q # None /\ q.phase = "erase" /\ Handled(q)
      /\ requests' = [requests EXCEPT ![r] = p]
      /\ answers' \subseteq answers
      /\ UNCHANGED <<rows, visits, today, crashes>>
  BY DEF Erase, At, Continue, SInv, AllHandled, Without
<1>2. q \in Request
  BY <1>1 DEF SInv, TInv, TypeOK
<1>3. p.kind = q.kind /\ p.phase = "next" /\ p.todo = q.todo
  BY <1>2 DEF Request
<1> HIDE DEF p
<1>4. q.kind = "purge"
  BY <1>1, <1>2 DEF Request, Handled, Editing, Deleting
<1>5. Handled(p)'
  BY <1>1, <1>3, <1>4 DEF Handled, Purging, Current, Expired
<1>6. AllHandled'
  <2>1. \A t \in Requests : requests'[t] = p
    BY <1>1 DEF Sole, SInv, TInv, TypeOK
  <2>. QED
    BY <1>5, <2>1 DEF AllHandled
<1>7. RowsLawful' /\ AnswersOfBegun' /\ VisitsTaken'
  BY <1>1 DEF SInv, RowsLawful, AnswersOfBegun, VisitsTaken, Rounds, Takes
<1>. QED
  BY <1>6, <1>7 DEF SInv

LEMMA StepHandled ==
  ASSUME SInv, TInv', Sole, NEW r \in Requests, Step(r)
  PROVE  SInv'
  BY RecheckHandled, LoadHandled, WriteHandled, RemoveHandled, FollowingHandled, NextItemHandled,
     EraseHandled DEF Step

-----------------------------------------------------------------------------
(* Participants, crashes and the calendar. *)

LEMMA FewerAnswers ==
  ASSUME SInv, answers' \subseteq answers, UNCHANGED <<rows, requests, today>>
  PROVE  AllHandled'
<1>1. ASSUME NEW r \in Requests, NEW q, q = requests[r], q # None PROVE Handled(q)'
  <2>1. q \in Request /\ Handled(q)
    BY <1>1, RequestParts DEF SInv, AllHandled
  <2>2. AnswersOf(q.id)' \subseteq AnswersOf(q.id)
    BY DEF AnswersOf
  <2>. QED
    BY <2>1, <2>2, AnswersHandled
<1>. QED
  BY <1>1 DEF AllHandled

LEMMA ParticipantHandled ==
  ASSUME SInv, TInv', NEW v \in Visits, Participant(v)
  PROVE  SInv'
<1>0. \A w \in Visits : visits[w] # None => visits[w].id \in Ids
  BY DEF SInv, TInv, TypeOK, Visit
<1>1. ASSUME NEW id \in Ids, Open(v, id) PROVE SInv'
  <2>1. /\ rows[id] # None /\ rows[id].status = "active"
        /\ UNCHANGED <<rows, answers, requests, today>>
    BY <1>1 DEF Open
  <2>2. visits'[v].id = id /\ \A w \in Visits \ {v} : visits'[w] = visits[w]
    BY <1>1 DEF Open, SInv, TInv, TypeOK
  <2>3. VisitsTaken'
    BY <2>1, <2>2 DEF SInv, VisitsTaken, Takes
  <2>4. AllHandled'
    BY <2>1, FewerAnswers
  <2>. QED
    BY <2>1, <2>3, <2>4 DEF SInv, RowsLawful, AnswersOfBegun, Rounds
<1>2. CASE Look(v)
  <2>1. UNCHANGED <<rows, answers, requests, today>>
    BY <1>2 DEF Look
  <2>2. \A w \in Visits : visits'[w] # None => visits[w] # None /\ visits'[w].id = visits[w].id
    BY <1>2 DEF Look, SInv, TInv, TypeOK, Visit
  <2>3. VisitsTaken'
    BY <2>1, <2>2 DEF SInv, VisitsTaken, Takes
  <2>4. AllHandled'
    BY <2>1, FewerAnswers
  <2>. QED
    BY <2>1, <2>3, <2>4 DEF SInv, RowsLawful, AnswersOfBegun, Rounds
<1>3. CASE Insert(v)
  <2> PICK id : id = visits[v].id
    OBVIOUS
  <2> DEFINE a == [survey |-> id, visit |-> v, device |-> visits[v].device]
  <2>1. /\ visits[v] # None /\ UNCHANGED <<rows, requests, today>>
        /\ answers' \subseteq answers \union {a}
        /\ \A w \in Visits : visits'[w] # None => visits'[w] = visits[w]
    BY <1>3 DEF Insert, SInv, TInv, TypeOK
  <2>2. id \in Ids /\ rows[id] # None /\ Takes(rows[id]) /\ a.survey = id
    BY <1>0, <2>1 DEF SInv, VisitsTaken
  <2> HIDE DEF a
  <2>3. VisitsTaken'
    BY <2>1 DEF SInv, VisitsTaken, Takes
  <2>4. AnswersOfBegun'
    BY <2>1, <2>2 DEF SInv, AnswersOfBegun, Takes, Begun
  <2>5. \A s \in Ids \ {id} : AnswersOf(s)' \subseteq AnswersOf(s)
    BY <2>1, <2>2 DEF AnswersOf
  <2>6. Lawful(rows[id]) /\ rows[id] \in Row
    BY <2>2 DEF SInv, RowsLawful, Rounds, TInv, TypeOK
  <2>7. ~ (rows[id].due # None /\ rows[id].due <= today)
    BY <2>2, <2>6 DEF Takes, Lawful, Row, SInv, TInv, TypeOK
  <2>8. ASSUME NEW r \in Requests, NEW q, q = requests[r], q # None PROVE Handled(q)'
    <3>1. q \in Request /\ Handled(q) /\ q.id \in Ids
      BY <2>8, RequestParts DEF SInv, AllHandled
    <3>2. q.kind = "purge" /\ q.phase \in {"save", "write", "erase"} => q.id # id
      BY <3>1, <2>7 DEF Handled, Purging, Expired
    <3>. QED
      BY <2>1, <2>5, <3>1, <3>2, AnswersHandled
  <2>9. AllHandled'
    BY <2>1, <2>8 DEF AllHandled
  <2>. QED
    BY <2>1, <2>3, <2>4, <2>9 DEF SInv, RowsLawful, Rounds
<1>. QED
  BY <1>1, <1>2, <1>3 DEF Participant

LEMMA DeleteAnswerHandled ==
  ASSUME SInv, TInv', NEW a, DeleteAnswer(a)
  PROVE  SInv'
<1>1. answers' \subseteq answers /\ UNCHANGED <<rows, requests, visits, today, crashes>>
  BY DEF DeleteAnswer
<1>2. AllHandled'
  BY <1>1, FewerAnswers
<1>. QED
  BY <1>1, <1>2 DEF SInv, RowsLawful, AnswersOfBegun, VisitsTaken, Rounds, Takes

LEMMA RestHandled ==
  ASSUME SInv, TInv', Crash \/ Tick \/ UNCHANGED vars
  PROVE  SInv'
<1>1. CASE Crash
  BY <1>1 DEF Crash, SInv, RowsLawful, AnswersOfBegun, VisitsTaken, AllHandled, Rounds
<1>2. CASE Tick
  BY <1>2 DEF Tick, Idle, SInv, RowsLawful, AnswersOfBegun, VisitsTaken, AllHandled, Rounds
<1>3. CASE UNCHANGED vars
  <2>1. AllHandled'
    BY <1>3, FewerAnswers DEF vars
  <2>. QED
    BY <1>3, <2>1 DEF vars, SInv, RowsLawful, AnswersOfBegun, VisitsTaken, Rounds, Takes
<1>. QED
  BY <1>1, <1>2, <1>3

LEMMA HandledStep ==
  ASSUME Sole
  PROVE  SInv /\ [Next]_vars => SInv'
<1> SUFFICES ASSUME SInv, [Next]_vars PROVE SInv'
  OBVIOUS
<1>1. TInv'
  BY TypeStep DEF SInv
<1>. QED
  BY <1>1, StaffHandled, StepHandled, ParticipantHandled, DeleteAnswerHandled, RestHandled DEF Next

LEMMA RequestsHandled ==
  ASSUME Sole
  PROVE  Spec => []SInv
  BY StartHandled, HandledStep, PTL DEF Spec

(* With one request of staff at a time, every stored answer belongs to a   *)
(* round that exists and was started: neither a deletion nor a restored    *)
(* copy can leave answers with a draft.                                    *)
THEOREM AnswersStayWithRound ==
  ASSUME Sole
  PROVE  Spec => []AnswersHaveRound
<1>1. SInv => AnswersHaveRound
  <2> SUFFICES ASSUME SInv, NEW a \in answers
               PROVE  rows[a.survey] # None /\ rows[a.survey].status # "draft"
    BY DEF AnswersHaveRound
  <2>1. a.survey \in Ids
    BY DEF SInv, TInv, TypeOK, Answer
  <2>2. rows[a.survey] # None /\ Begun(rows[a.survey])
    BY DEF SInv, AnswersOfBegun
  <2>3. Lawful(rows[a.survey])
    BY <2>1, <2>2 DEF SInv, RowsLawful, Rounds
  <2>. QED
    BY <2>2, <2>3 DEF Begun, Lawful
<1>. QED
  BY <1>1, RequestsHandled, PTL

(* A purge that aggregated the answers of a round, saved the aggregate and *)
(* goes on to erase them erases none that came in between.                 *)
THEOREM ErasureCounted ==
  ASSUME Sole
  PROVE  Spec => []ErasedAreCounted
<1>1. SInv => ErasedAreCounted
  <2> SUFFICES ASSUME SInv, NEW r \in Requests, At(r, "erase")
               PROVE  LET row == rows[requests[r].id] IN
                      row # None /\ Counts(row, requests[r].id)
    BY DEF ErasedAreCounted, Counts
  <2> PICK q : q = requests[r]
    OBVIOUS
  <2>1. q # None /\ q.phase = "erase" /\ Handled(q) /\ q \in Request
    BY RequestParts DEF At, SInv, AllHandled
  <2>2. Purging(q)
    BY <2>1 DEF Request, Handled, Editing, Deleting
  <2>. QED
    BY <2>1, <2>2 DEF Purging
<1>. QED
  BY <1>1, RequestsHandled, PTL

(* The next rows keep every aggregate. *)
LEMMA AggregateKept ==
  ASSUME SInv, NEW s \in Rounds, rows[s].snapshot # None, [Next]_vars
  PROVE  rows'[s] # None /\ rows'[s].snapshot = rows[s].snapshot
<1>0. s \in Ids /\ rows[s] # None /\ rows[s].due # None
  BY DEF Rounds, SInv, RowsLawful, Lawful
<1>1. CASE rows' = rows
  BY <1>0, <1>1
<1>2. ASSUME NEW r \in Requests, Write(r), rows' # rows
      PROVE  rows'[s] # None /\ rows'[s].snapshot = rows[s].snapshot
  <2> PICK q : q = requests[r]
    OBVIOUS
  <2>1. At(r, "write") /\ rows' = [rows EXCEPT ![q.id] = q.copy]
    BY <1>2, SavesCopy DEF Write
  <2>2. q.id \in Ids /\ q.copy \in Row /\ q.copy # None
    BY <2>1, RequestParts, NoneIsNothing DEF SInv, At
  <2>3. rows[q.id] # None /\ rows[q.id].snapshot # None => q.copy.snapshot = rows[q.id].snapshot
    BY <2>1, CopyReplaces
  <2>4. rows'[s] = IF s = q.id THEN q.copy ELSE rows[s]
    BY <1>0, <2>1, <2>2 DEF SInv, TInv, TypeOK
  <2>. QED
    BY <1>0, <2>2, <2>3, <2>4
<1>3. ASSUME NEW r \in Requests, Remove(r)
      PROVE  rows'[s] # None /\ rows'[s].snapshot = rows[s].snapshot
  <2> PICK q : q = requests[r]
    OBVIOUS
  <2>1. q # None /\ q.phase = "remove" /\ rows' = [rows EXCEPT ![q.id] = None]
    BY <1>3 DEF Remove, At
  <2>2. Handled(q) /\ q \in Request
    BY <2>1, RequestParts DEF SInv, AllHandled
  <2>3. Deleting(q) /\ q.id \in Ids
    BY <2>1, <2>2 DEF Request, Handled, Editing, Purging
  <2>4. rows[q.id] = q.copy /\ q.copy.status = "draft" /\ q.copy # None
    BY <2>1, <2>2, <2>3, NoneIsNothing DEF Deleting, Request
  <2>5. rows[q.id].due = None
    BY <2>3, <2>4 DEF SInv, RowsLawful, Lawful, Rounds
  <2>6. q.id # s
    BY <1>0, <2>5
  <2>. QED
    BY <1>0, <2>1, <2>6 DEF SInv, TInv, TypeOK
<1>4. ASSUME NEW r \in Requests, Staff(r) PROVE rows' = rows
  BY <1>4 DEF Staff, BeginUpdate, BeginStart, BeginClose, BeginRound, BeginDelete, BeginPurge, Begin
<1>5. ASSUME NEW r \in Requests, Recheck(r) \/ Load(r) \/ Following(r) \/ NextItem(r) \/ Erase(r)
      PROVE  rows' = rows
  BY <1>5 DEF Recheck, Load, Following, NextItem, Erase
<1>6. ASSUME NEW v \in Visits, Participant(v) PROVE rows' = rows
  BY <1>6 DEF Participant, Open, Look, Insert
<1>7. ASSUME Crash \/ Tick \/ UNCHANGED vars \/ \E a \in answers : DeleteAnswer(a) PROVE rows' = rows
  BY <1>7 DEF Crash, Tick, vars, DeleteAnswer
<1>. QED
  BY <1>1, <1>2, <1>3, <1>4, <1>5, <1>6, <1>7 DEF Next, Step

(* Once the answers are gone nothing could compute their aggregate again:  *)
(* with one request of staff at a time no step drops or overwrites it.     *)
THEOREM AggregateStays ==
  ASSUME Sole
  PROVE  Spec => ResultKept
<1>1. SInv /\ [Next]_vars =>
        [\A s \in Rounds :
           rows[s].snapshot # None /\ rows[s].snapshot.count > 0 /\ AnswersOf(s) = {} =>
             rows'[s] # None /\ rows'[s].snapshot = rows[s].snapshot]_vars
  BY AggregateKept
<1>. QED
  BY <1>1, RequestsHandled, PTL DEF Spec, ResultKept

-----------------------------------------------------------------------------
(* The numbers of the rounds, with one request of staff at a time. *)

Numbers == {rows[s].number : s \in Rounds}
Size    == Cardinality(Rounds)

(* The numbers leave out h, and nothing else.  They end at Size when h is  *)
(* the number after it.                                                    *)
Hole(h) == h \in 2 .. Size + 1 /\ Numbers = (1 .. Size + 1) \ {h}

Distinct == \A s, t \in Rounds : rows[s].number = rows[t].number => s = t

Waiting(q, h) == {item.id : item \in q.todo} = {s \in Rounds : rows[s].number > h}

Renumbering(q) == q.kind = "delete" /\ q.phase \in {"following", "next", "save", "write"}

Renumbered(q) ==
  /\ q.phase = "following" => Hole(q.copy.number)
  /\ q.phase = "next" => \E h \in Nat : Hole(h) /\ Waiting(q, h)
  /\ q.phase \in {"save", "write"} => Hole(q.copy.number) /\ Waiting(q, rows[q.id].number)

Numbering(q) ==
  /\ Renumbering(q) => Renumbered(q)
  /\ ~ Renumbering(q) => Hole(Size + 1)
  /\ q.kind = "edit" /\ rows[q.id] = None => q.copy.number = Size + 1

Numbered ==
  /\ \A r \in Requests : requests[r] # None => Numbering(requests[r])
  /\ (\A r \in Requests : requests[r] = None) => Hole(Size + 1)

NInv == SInv /\ IsFiniteSet(Rounds) /\ Distinct /\ (crashes = 0 => Numbered)

LEMMA RoundNumbers ==
  ASSUME TInv, IsFiniteSet(Rounds)
  PROVE  /\ Size \in Nat
         /\ \A s \in Rounds : s \in Ids /\ rows[s] \in Row /\ rows[s].number \in Nat \ {0}
<1>1. Size \in Nat
  BY FS_CardinalityType DEF Size
<1>2. \A s \in Rounds : s \in Ids /\ rows[s] \in Row
  BY DEF Rounds, TInv, TypeOK
<1>. QED
  BY <1>1, <1>2 DEF Row

LEMMA NumbersStart == Init => NInv
<1> SUFFICES ASSUME Init PROVE NInv
  OBVIOUS
<1>1. PICK q \in Questions, many \in BOOLEAN :
        rows = [id \in Ids |-> IF id = Root THEN Draft(1, q, many) ELSE None]
  BY DEF Init
<1>2. Draft(1, q, many) \in Row
  BY DraftTyped
<1>3. Rounds = {Root} /\ rows[Root].number = 1
  BY <1>1, <1>2, SurveyConstants, NoneIsNothing DEF Rounds, Draft
<1>4. IsFiniteSet(Rounds) /\ Size = 1
  BY <1>3, FS_Singleton DEF Size
<1>5. Distinct
  BY <1>3 DEF Distinct
<1>6. Hole(Size + 1)
  <2>1. Numbers = {1}
    BY <1>3 DEF Numbers
  <2>2. {1} = (1 .. 2) \ {2} /\ 2 \in 2 .. 2
    OBVIOUS
  <2>. QED
    BY <1>4, <2>1, <2>2 DEF Hole
<1>7. Numbered
  BY <1>6 DEF Init, Numbered
<1>. QED
  BY <1>4, <1>5, <1>7, StartHandled DEF NInv

(* What writing a row does to the numbers. *)

LEMMA SameNumbers ==
  ASSUME TInv, IsFiniteSet(Rounds), Distinct, NEW id \in Rounds, NEW copy \in Row,
         copy.number = rows[id].number, rows' = [rows EXCEPT ![id] = copy]
  PROVE  Rounds' = Rounds /\ Size' = Size /\ Numbers' = Numbers /\ Distinct'
<1>1. \A s \in Ids : rows'[s] = IF s = id THEN copy ELSE rows[s]
  BY DEF TInv, TypeOK
<1>2. Rounds' = Rounds
  BY <1>1, NoneIsNothing DEF Rounds
<1>3. \A s \in Rounds : rows'[s].number = rows[s].number
  BY <1>1 DEF Rounds
<1>4. Size' = Size
  BY <1>2 DEF Size
<1>5. Numbers' = Numbers
  BY <1>2, <1>3 DEF Numbers
<1>6. Distinct'
  BY <1>2, <1>3 DEF Distinct
<1>. QED
  BY <1>2, <1>4, <1>5, <1>6

LEMMA HoleMoves ==
  ASSUME TInv, IsFiniteSet(Rounds), Distinct, NEW id \in Rounds, NEW copy \in Row,
         copy.number = rows[id].number - 1, Hole(copy.number),
         rows' = [rows EXCEPT ![id] = copy], NEW h, h = rows[id].number
  PROVE  /\ Rounds' = Rounds /\ Distinct' /\ Hole(h)'
         /\ {s \in Rounds : rows[s].number > h}' = {s \in Rounds : rows[s].number > h}
<1>1. \A s \in Ids : rows'[s] = IF s = id THEN copy ELSE rows[s]
  BY DEF TInv, TypeOK, Rounds
<1>2. Rounds' = Rounds
  BY <1>1, NoneIsNothing DEF Rounds
<1>3. \A s \in Rounds : rows'[s].number = IF s = id THEN h - 1 ELSE rows[s].number
  BY <1>1 DEF Rounds
<1>4. Size' = Size /\ Size \in Nat /\ h \in Nat /\ \A s \in Rounds : rows[s].number \in Nat
  BY <1>2, RoundNumbers DEF Size
<1>5. h - 1 \in 2 .. Size + 1 /\ Numbers = (1 .. Size + 1) \ {h - 1}
  BY DEF Hole
<1>6. h \in Numbers
  BY DEF Numbers
<1>7. h \in 2 .. Size + 1
  BY <1>4, <1>5, <1>6
<1>8. \A n : n \in Numbers' <=> (n \in Numbers /\ n # h) \/ n = h - 1
  BY <1>2, <1>3, <1>4 DEF Numbers, Distinct
<1>9. Numbers' = (1 .. Size + 1) \ {h}
  BY <1>4, <1>5, <1>7, <1>8
<1>10. Hole(h)'
  BY <1>4, <1>7, <1>9 DEF Hole
<1>11. \A s \in Rounds : rows[s].number # h - 1
  BY <1>5 DEF Numbers
<1>12. Distinct'
  BY <1>2, <1>3, <1>11 DEF Distinct
<1>. QED
  BY <1>2, <1>3, <1>4, <1>10, <1>12

LEMMA NumberAdded ==
  ASSUME TInv, IsFiniteSet(Rounds), NEW id \in Ids \ Rounds, NEW copy \in Row,
         copy.number = Size + 1, Hole(Size + 1), rows' = [rows EXCEPT ![id] = copy]
  PROVE  Hole(Size + 1)'
<1>1. \A s \in Ids : rows'[s] = IF s = id THEN copy ELSE rows[s]
  BY DEF TInv, TypeOK
<1>2. Rounds' = Rounds \union {id}
  BY <1>1, NoneIsNothing DEF Rounds
<1>3. Size' = Size + 1 /\ Size \in Nat
  BY <1>2, FS_AddElement, RoundNumbers DEF Size
<1>4. \A s \in Rounds : rows'[s].number = rows[s].number
  BY <1>1 DEF Rounds
<1>5. rows'[id].number = Size + 1
  BY <1>1
<1>6. \A n : n \in Numbers' <=> n \in Numbers \/ n = Size + 1
  BY <1>2, <1>4, <1>5 DEF Numbers
<1>7. Numbers = (1 .. Size + 1) \ {Size + 1}
  BY DEF Hole
<1>8. Numbers' = (1 .. Size + 2) \ {Size + 2}
  BY <1>3, <1>6, <1>7
<1>. QED
  BY <1>3, <1>8 DEF Hole

LEMMA NumberRemoved ==
  ASSUME TInv, IsFiniteSet(Rounds), Distinct, NEW id \in Rounds, NEW h, h = rows[id].number, h > 1,
         rows' = [rows EXCEPT ![id] = None]
  PROVE  IsFiniteSet(Rounds)' /\ Distinct' /\ (Hole(Size + 1) => Hole(h)')
<1>1. \A s \in Ids : rows'[s] = IF s = id THEN None ELSE rows[s]
  BY DEF TInv, TypeOK
<1>2. Rounds' = Rounds \ {id}
  BY <1>1 DEF Rounds
<1>3. IsFiniteSet(Rounds)' /\ Size' = Size - 1 /\ Size \in Nat
  BY <1>2, FS_RemoveElement, RoundNumbers DEF Size
<1>4. \A s \in Rounds : s # id => rows'[s].number = rows[s].number
  BY <1>1 DEF Rounds
<1>5. Distinct'
  BY <1>2, <1>4 DEF Distinct
<1>6. ASSUME Hole(Size + 1) PROVE Hole(h)'
  <2>1. \A n : n \in Numbers' <=> n \in Numbers /\ n # h
    BY <1>2, <1>4 DEF Numbers, Distinct
  <2>2. Numbers = (1 .. Size + 1) \ {Size + 1}
    BY <1>6 DEF Hole
  <2>3. h \in Numbers /\ h \in Nat
    BY RoundNumbers DEF Numbers
  <2>4. h \in 2 .. Size
    BY <1>3, <2>2, <2>3
  <2>5. Numbers' = (1 .. Size) \ {h}
    BY <1>3, <2>1, <2>2
  <2>6. Size' + 1 = Size
    BY <1>3
  <2>. QED
    BY <2>4, <2>5, <2>6 DEF Hole
<1>. QED
  BY <1>3, <1>5, <1>6

(* The next round is numbered after the last one. *)
LEMMA LastNumberIs ==
  ASSUME TInv, IsFiniteSet(Rounds), Hole(Size + 1), Rounds # {}
  PROVE  LastNumber = Size
<1>1. Size \in Nat /\ Numbers = (1 .. Size + 1) \ {Size + 1}
  BY RoundNumbers DEF Hole
<1>2. Numbers = 1 .. Size
  BY <1>1
<1>3. Numbers # {}
  BY DEF Numbers
<1>4. Size \in Numbers /\ \A n \in Numbers : Size >= n
  BY <1>1, <1>2, <1>3
<1>5. LastNumber \in Numbers /\ \A n \in Numbers : LastNumber >= n
  BY <1>4 DEF LastNumber, Numbers, Max
<1>. QED
  BY <1>1, <1>2, <1>4, <1>5

LEMMA SoleNumbered ==
  ASSUME TInv, SInv', Sole, NEW r \in Requests, NEW q, requests' = [requests EXCEPT ![r] = q],
         IsFiniteSet(Rounds)', Distinct', crashes' = crashes,
         crashes = 0 /\ q = None => Hole(Size + 1)', crashes = 0 /\ q # None => Numbering(q)'
  PROVE  NInv'
<1>1. \A t \in Requests : requests'[t] = q
  BY DEF Sole, TInv, TypeOK
<1>2. crashes = 0 => Numbered'
  BY <1>1 DEF Numbered
<1>. QED
  BY <1>2 DEF NInv

LEMMA StillNumbered ==
  ASSUME NInv, SInv', Sole, NEW r \in Requests, NEW q, requests' = [requests EXCEPT ![r] = q],
         UNCHANGED <<rows, crashes>>,
         crashes = 0 /\ q = None => Hole(Size + 1), crashes = 0 /\ q # None => Numbering(q)
  PROVE  NInv'
<1>1. Rounds' = Rounds /\ Size' = Size /\ Numbers' = Numbers
  BY DEF Rounds, Size, Numbers
<1>2. IsFiniteSet(Rounds)' /\ Distinct'
  BY <1>1 DEF NInv, Distinct
<1>3. q # None /\ Numbering(q) => Numbering(q)'
  BY <1>1 DEF Numbering, Renumbering, Renumbered, Hole, Waiting
<1>4. Hole(Size + 1) => Hole(Size + 1)'
  BY <1>1 DEF Hole
<1>. QED
  BY <1>2, <1>3, <1>4, SoleNumbered DEF NInv, SInv

LEMMA StaffNumbered ==
  ASSUME NInv, SInv', Sole, NEW r \in Requests, Staff(r)
  PROVE  NInv'
<1>1. requests[r] = None
  BY DEF Staff, BeginUpdate, BeginStart, BeginClose, BeginRound, BeginDelete, BeginPurge, Begin
<1>2. crashes = 0 => Hole(Size + 1)
  BY <1>1 DEF NInv, Numbered, Sole
<1>3. ASSUME NEW q, Begin(r, q), ~ Renumbering(q), q.kind = "edit" => rows[q.id] # None
      PROVE  NInv'
  BY <1>2, <1>3, StillNumbered DEF Begin, Numbering
<1>4. ASSUME NEW kind \in {"edit", "delete", "purge"}, NEW phase, NEW id \in Ids, NEW copy,
             Begin(r, Doing(kind, phase, id, copy)), rows[id] # None, kind = "edit" \/ phase = "count"
      PROVE  NInv'
  <2> PICK q : q = Doing(kind, phase, id, copy)
    OBVIOUS
  <2>1. q.kind = kind /\ q.phase = phase /\ q.id = id
    BY DoingIs
  <2>. QED
    BY <1>3, <1>4, <2>1 DEF Renumbering
<1>5. ASSUME NEW id \in Ids, BeginRound(r, id) PROVE NInv'
  <2>1. PICK source \in Rounds :
          /\ rows[source].number = LastNumber
          /\ Begin(r, Doing("edit", "write", id, Draft(LastNumber + 1, rows[source].questions,
                                                       rows[source].many)))
    BY <1>5 DEF BeginRound
  <2> PICK copy : copy = Draft(LastNumber + 1, rows[source].questions, rows[source].many)
    OBVIOUS
  <2> PICK q : q = Doing("edit", "write", id, copy)
    OBVIOUS
  <2>2. q.kind = "edit" /\ q.copy.number = LastNumber + 1
    BY DoingIs DEF Draft
  <2>3. crashes = 0 => LastNumber = Size
    BY <1>2, <2>1, LastNumberIs DEF NInv, SInv
  <2>4. crashes = 0 => Numbering(q)
    BY <1>2, <2>2, <2>3 DEF Numbering, Renumbering
  <2>. QED
    BY <1>2, <2>1, <2>4, StillNumbered DEF Begin
<1>6. CASE BeginPurge(r)
  <2> DEFINE expired == {id \in Rounds : Expired(rows[id])}
  <2>1. PICK id, todo :
          Begin(r, [Doing("purge", "next", id, rows[id]) EXCEPT !.todo = todo])
    BY <1>6 DEF BeginPurge
  <2> PICK q : q = [Doing("purge", "next", id, rows[id]) EXCEPT !.todo = todo]
    OBVIOUS
  <2>2. q.kind = "purge"
    BY DEF Doing
  <2>. QED
    BY <1>3, <2>1, <2>2 DEF Renumbering
<1>. QED
  BY <1>4, <1>5, <1>6 DEF Staff, BeginUpdate, BeginStart, BeginClose, BeginDelete

(* A request that wrote nothing. *)
LEMMA QuietNumbered ==
  ASSUME NInv, SInv', Sole, NEW r \in Requests, Recheck(r) \/ Load(r) \/ Erase(r)
  PROVE  NInv'
<1> PICK q : q = requests[r]
  OBVIOUS
<1>1. q # None /\ Handled(q) /\ q \in Request
  BY RequestParts DEF NInv, SInv, AllHandled, Recheck, Load, Erase, At
<1>2. q.kind \in {"edit", "delete", "purge"}
  BY <1>1 DEF Request
<1>3. crashes = 0 => Numbering(q)
  BY <1>1 DEF NInv, Numbered
<1>4. CASE Recheck(r)
  <2> DEFINE w == [q EXCEPT !.phase = IF @ = "count" THEN "remove" ELSE "save"]
             p == IF Passes(q) THEN w ELSE None
  <2>1. /\ q.phase \in {"compare", "compete", "count"}
        /\ requests' = [requests EXCEPT ![r] = p] /\ UNCHANGED <<rows, crashes>>
    BY <1>4 DEF Recheck, Continue
  <2>2. w.kind = q.kind /\ w.id = q.id /\ w.copy = q.copy
        /\ w.phase = IF q.phase = "count" THEN "remove" ELSE "save"
    BY <1>1 DEF Request
  <2> HIDE DEF w
  <2>3. q.kind = "delete" => q.phase = "count"
    BY <1>1, <2>1 DEF Handled, Deleting
  <2>4. crashes = 0 => Hole(Size + 1) /\ Numbering(w)
    BY <1>3, <2>1, <2>2, <2>3 DEF Numbering, Renumbering
  <2>5. (crashes = 0 /\ p = None => Hole(Size + 1)) /\ (crashes = 0 /\ p # None => Numbering(p))
    BY <2>4
  <2> HIDE DEF p
  <2>. QED
    BY <2>1, <2>5, StillNumbered
<1>5. CASE Load(r)
  <2> PICK base : base = rows[q.id]
    OBVIOUS
  <2> DEFINE p == [q EXCEPT !.phase = "write", !.base = base]
  <2>1. q.phase = "save" /\ requests' = [requests EXCEPT ![r] = p] /\ UNCHANGED <<rows, crashes>>
    BY <1>5 DEF Load, Continue, At
  <2>2. p.kind = q.kind /\ p.id = q.id /\ p.copy = q.copy /\ p.todo = q.todo /\ p.phase = "write"
    BY <1>1 DEF Request
  <2>3. p # None
    <3>1. base \in Row \union {None}
      BY <1>1 DEF Request, NInv, SInv, TInv, TypeOK
    <3>2. p \in Request
      BY <1>1, <3>1 DEF Request
    <3>. QED
      BY <3>2, NoneIsNothing
  <2> HIDE DEF p
  <2>4. crashes = 0 => Numbering(p)
    BY <1>3, <2>1, <2>2 DEF Numbering, Renumbering, Renumbered, Waiting
  <2>. QED
    BY <2>1, <2>3, <2>4, StillNumbered
<1>6. CASE Erase(r)
  <2> DEFINE p == [q EXCEPT !.phase = "next"]
  <2>1. q.phase = "erase" /\ requests' = [requests EXCEPT ![r] = p] /\ UNCHANGED <<rows, crashes>>
    BY <1>6 DEF Erase, Continue, At
  <2>2. p.kind = q.kind
    BY <1>1 DEF Request
  <2> HIDE DEF p
  <2>3. q.kind = "purge"
    BY <1>1, <1>2, <2>1 DEF Handled, Editing, Deleting
  <2>4. crashes = 0 => Hole(Size + 1) /\ Numbering(p)
    BY <1>3, <2>2, <2>3 DEF Numbering, Renumbering
  <2>. QED
    BY <2>1, <2>4, StillNumbered
<1>. QED
  BY <1>4, <1>5, <1>6

LEMMA RemoveNumbered ==
  ASSUME NInv, SInv', Sole, NEW r \in Requests, Remove(r)
  PROVE  NInv'
<1> PICK q : q = requests[r]
  OBVIOUS
<1> DEFINE p == [q EXCEPT !.phase = "following"]
<1>1. /\ q # None /\ q.phase = "remove" /\ Handled(q) /\ q \in Request
      /\ requests' = [requests EXCEPT ![r] = p]
      /\ rows' = [rows EXCEPT ![q.id] = None] /\ crashes' = crashes
  BY RequestParts DEF Remove, At, Continue, NInv, SInv, AllHandled
<1>2. q.kind \in {"edit", "delete", "purge"} /\ q.id \in Ids /\ q.copy \in Row
  BY <1>1 DEF Request
<1>3. q.kind = "delete" /\ Deleting(q)
  BY <1>1, <1>2 DEF Handled, Editing, Purging
<1>4. q.id \in Rounds /\ rows[q.id].number = q.copy.number /\ q.copy.number > 1
  BY <1>1, <1>2, <1>3, NoneIsNothing DEF Deleting, Rounds
<1>5. crashes = 0 => Hole(Size + 1)
  BY <1>1, <1>3 DEF NInv, Numbered, Numbering, Renumbering
<1>6. p.kind = "delete" /\ p.phase = "following" /\ p.copy = q.copy
  BY <1>1, <1>3 DEF Request
<1>7. p # None
  <2>1. p \in Request
    BY <1>1 DEF Request
  <2>. QED
    BY <2>1, NoneIsNothing
<1> HIDE DEF p
<1>8. IsFiniteSet(Rounds)' /\ Distinct' /\ (crashes = 0 => Hole(p.copy.number)')
  BY <1>1, <1>4, <1>5, <1>6, NumberRemoved DEF NInv, SInv
<1>9. crashes = 0 => Numbering(p)'
  BY <1>6, <1>8 DEF Numbering, Renumbering, Renumbered
<1>. QED
  BY <1>1, <1>7, <1>8, <1>9, SoleNumbered DEF NInv, SInv

LEMMA FollowingNumbered ==
  ASSUME NInv, SInv', Sole, NEW r \in Requests, Following(r)
  PROVE  NInv'
<1> PICK q : q = requests[r]
  OBVIOUS
<1> PICK later : later = {[id |-> s, copy |-> rows[s]] : s \in Later(q.copy.number)}
  OBVIOUS
<1> DEFINE p == [q EXCEPT !.phase = "next", !.todo = later]
<1>1. /\ q # None /\ q.phase = "following" /\ Handled(q) /\ q \in Request
      /\ requests' = [requests EXCEPT ![r] = p]
      /\ UNCHANGED <<rows, crashes>>
  BY RequestParts DEF Following, At, Continue, NInv, SInv, AllHandled
<1>2. q.kind = "delete" /\ q.copy \in Row
  BY <1>1 DEF Request, Handled, Editing, Purging
<1>3. p.kind = "delete" /\ p.phase = "next" /\ p.todo = later
  BY <1>1, <1>2 DEF Request
<1>4. crashes = 0 => Hole(q.copy.number)
  BY <1>1, <1>2 DEF NInv, Numbered, Numbering, Renumbering, Renumbered
<1>5. p # None
  <2>1. \A s \in Later(q.copy.number) : s \in Ids /\ rows[s] \in Row
    BY DEF Later, Rounds, NInv, SInv, TInv, TypeOK
  <2>2. later \in SUBSET [id : Ids, copy : Row]
    BY <2>1
  <2>3. p \in Request
    BY <1>1, <2>2 DEF Request
  <2>. QED
    BY <2>3, NoneIsNothing
<1> HIDE DEF p
<1>6. {item.id : item \in later} = {s \in Rounds : rows[s].number > q.copy.number}
  <2>1. \A item \in later : item.id \in Later(q.copy.number)
    OBVIOUS
  <2>2. \A s \in Later(q.copy.number) : \E item \in later : item.id = s
    <3> TAKE s \in Later(q.copy.number)
    <3> DEFINE item == [id |-> s, copy |-> rows[s]]
    <3>1. item \in later /\ item.id = s
      OBVIOUS
    <3>. QED
      BY <3>1
  <2>. QED
    BY <2>1, <2>2 DEF Later
<1>7. crashes = 0 => Numbering(p)
  <2>1. q.copy.number \in Nat
    BY <1>2 DEF Row
  <2>2. Waiting(p, q.copy.number)
    BY <1>3, <1>6 DEF Waiting
  <2>. QED
    BY <1>3, <1>4, <2>1, <2>2 DEF Numbering, Renumbering, Renumbered
<1>. QED
  BY <1>1, <1>5, <1>7, StillNumbered

(* The lowest of the rounds that still move up is the one after the hole. *)
LEMMA LowestNext ==
  ASSUME NInv, NEW todo \in SUBSET [id : Ids, copy : Row], Current(todo), NEW h \in Nat, Hole(h),
         {item.id : item \in todo} = {s \in Rounds : rows[s].number > h},
         NEW item \in Lowest(todo)
  PROVE  /\ item.copy.number = h + 1
         /\ {other.id : other \in todo \ {item}} = {s \in Rounds : rows[s].number > h + 1}
<1>1. /\ Size \in Nat /\ h \in 2 .. Size + 1 /\ Numbers = (1 .. Size + 1) \ {h}
      /\ \A s \in Rounds : rows[s].number \in Nat
  BY RoundNumbers DEF Hole, NInv, SInv
<1>2. item \in todo /\ \A other \in todo : item.copy.number <= other.copy.number
  BY DEF Lowest
<1>3. \A other \in todo : other.id \in Rounds /\ other.copy = rows[other.id] /\ rows[other.id].number > h
  BY DEF Current
<1>4. PICK m : m = rows[item.id].number
  OBVIOUS
<1>5. m \in Nat /\ m > h /\ m \in Numbers
  BY <1>1, <1>2, <1>3, <1>4 DEF Numbers
<1>6. h + 1 \in Numbers
  BY <1>1, <1>5
<1>7. PICK s \in Rounds : rows[s].number = h + 1
  BY <1>6 DEF Numbers
<1>8. PICK other \in todo : other.id = s
  BY <1>1, <1>7
<1>9. m = h + 1
  BY <1>1, <1>2, <1>3, <1>4, <1>5, <1>7, <1>8
<1>10. \A n \in todo : n.id = item.id => n = item
  BY <1>2, <1>3
<1>11. ASSUME NEW n \in todo \ {item} PROVE n.id \in Rounds /\ rows[n.id].number > h + 1
  <2>1. n.id # item.id /\ n.id \in Rounds /\ rows[n.id].number > h
    BY <1>3, <1>10
  <2>2. rows[n.id].number # h + 1
    BY <1>2, <1>3, <1>4, <1>9, <2>1 DEF NInv, Distinct
  <2>. QED
    BY <1>1, <2>1, <2>2
<1>12. ASSUME NEW t \in Rounds, rows[t].number > h + 1
       PROVE  \E n \in todo \ {item} : n.id = t
  <2>1. rows[t].number > h
    BY <1>1, <1>12
  <2>2. PICK n \in todo : n.id = t
    BY <2>1
  <2>3. n # item
    <3> SUFFICES ASSUME n = item PROVE FALSE
      OBVIOUS
    <3>1. rows[t].number = h + 1
      BY <1>4, <1>9, <2>2
    <3>. QED
      BY <1>12, <3>1
  <2>. QED
    BY <2>2, <2>3
<1>13. {n.id : n \in todo \ {item}} = {t \in Rounds : rows[t].number > h + 1}
  BY <1>11, <1>12
<1>. QED
  BY <1>2, <1>3, <1>4, <1>9, <1>13

LEMMA NextItemNumbered ==
  ASSUME NInv, SInv', Sole, NEW r \in Requests, NextItem(r)
  PROVE  NInv'
<1> PICK q : q = requests[r]
  OBVIOUS
<1>1. /\ q # None /\ q.phase = "next" /\ Handled(q) /\ q \in Request /\ UNCHANGED <<rows, crashes>>
  BY RequestParts DEF NextItem, At, NInv, SInv, AllHandled
<1>2. q.kind \in {"edit", "delete", "purge"} /\ q.todo \in SUBSET [id : Ids, copy : Row]
  BY <1>1 DEF Request
<1>3. q.kind = "delete" => Current(q.todo)
  BY <1>1 DEF Handled, Deleting
<1>4. q.kind = "delete" /\ crashes = 0 => \E h \in Nat : Hole(h) /\ Waiting(q, h)
  BY <1>1 DEF NInv, Numbered, Numbering, Renumbering, Renumbered
<1>5. q.kind # "delete" /\ crashes = 0 => Hole(Size + 1)
  BY <1>1 DEF NInv, Numbered, Numbering, Renumbering
<1>6. CASE q.todo = {} /\ requests' = [requests EXCEPT ![r] = None]
  <2>1. ASSUME NEW h \in Nat, Hole(h), Waiting(q, h) PROVE Hole(Size + 1)
    <3>1. Size \in Nat /\ h \in 2 .. Size + 1 /\ Numbers = (1 .. Size + 1) \ {h}
      BY <2>1, RoundNumbers DEF Hole, NInv, SInv
    <3>2. \A s \in Rounds : ~ (rows[s].number > h)
      BY <1>6, <2>1 DEF Waiting
    <3>3. \A n \in Numbers : ~ (n > h)
      BY <3>2 DEF Numbers
    <3>4. h = Size + 1
      BY <3>1, <3>3
    <3>. QED
      BY <2>1, <3>4
  <2>2. crashes = 0 => Hole(Size + 1)
    BY <1>4, <1>5, <2>1
  <2>. QED
    BY <1>1, <1>6, <2>2, StillNumbered
<1>7. ASSUME q.kind = "delete", NEW item \in Lowest(q.todo),
             requests' = [requests EXCEPT ![r] = [q EXCEPT !.phase = "save", !.todo = @ \ {item},
                                                           !.id = item.id, !.copy = MovedUp(item)]]
      PROVE  NInv'
  <2>1. item \in q.todo /\ item.id \in Ids /\ item.copy \in Row /\ item.copy.number > 1
        /\ rows[item.id] = item.copy
    BY <1>1, <1>2, <1>3, <1>7 DEF Lowest, NInv, SInv, TInv, Countable, Current
  <2> PICK copy : copy = MovedUp(item)
    OBVIOUS
  <2>2. copy \in Row /\ copy.number = item.copy.number - 1
    BY <2>1, MovedUpTyped DEF MovedUp, Row
  <2> DEFINE p == [q EXCEPT !.phase = "save", !.todo = @ \ {item}, !.id = item.id, !.copy = copy]
  <2>3. p \in Request /\ p.kind = "delete" /\ p.phase = "save" /\ p.todo = q.todo \ {item}
        /\ p.id = item.id /\ p.copy = copy
    BY <1>1, <1>7, <2>1, <2>2 DEF Request
  <2>4. requests' = [requests EXCEPT ![r] = p]
    BY <1>7
  <2> HIDE DEF p
  <2>5. ASSUME crashes = 0 PROVE Numbering(p)
    <3>1. PICK h \in Nat : Hole(h) /\ Waiting(q, h)
      BY <1>4, <1>7, <2>5
    <3>2. /\ item.copy.number = h + 1
          /\ {n.id : n \in q.todo \ {item}} = {s \in Rounds : rows[s].number > h + 1}
      BY <1>2, <1>3, <1>7, <3>1, LowestNext DEF Waiting
    <3>3. copy.number = h /\ rows[item.id].number = h + 1
      BY <2>1, <2>2, <3>2
    <3>4. Waiting(p, rows[p.id].number)
      BY <2>3, <3>2, <3>3 DEF Waiting
    <3>. QED
      BY <2>3, <3>1, <3>3, <3>4 DEF Numbering, Renumbering, Renumbered
  <2>6. p # None
    BY <2>3, NoneIsNothing
  <2>. QED
    BY <1>1, <2>4, <2>5, <2>6, StillNumbered
<1>8. ASSUME q.kind = "purge", NEW item \in q.todo,
             requests' = [requests EXCEPT ![r] = [q EXCEPT !.phase = "save", !.todo = @ \ {item},
                                                           !.id = item.id, !.copy = Purged(item)]]
      PROVE  NInv'
  <2> PICK copy : copy = Purged(item)
    OBVIOUS
  <2> DEFINE p == [q EXCEPT !.phase = "save", !.todo = @ \ {item}, !.id = item.id, !.copy = copy]
  <2>1. p.kind = "purge"
    BY <1>1, <1>8 DEF Request
  <2>2. requests' = [requests EXCEPT ![r] = p]
    BY <1>8
  <2> HIDE DEF p
  <2>3. crashes = 0 => Hole(Size + 1) /\ Numbering(p)
    BY <1>5, <1>8, <2>1 DEF Numbering, Renumbering
  <2>. QED
    BY <1>1, <2>2, <2>3, StillNumbered
<1>. QED
  BY <1>6, <1>7, <1>8 DEF NextItem, Continue

LEMMA WriteNumbered ==
  ASSUME NInv, SInv', Sole, NEW r \in Requests, Write(r)
  PROVE  NInv'
<1> PICK q : q = requests[r]
  OBVIOUS
<1>1. At(r, "write") /\ q # None /\ q.phase = "write" /\ Handled(q) /\ q \in Request /\ crashes' = crashes
  BY RequestParts DEF Write, At, NInv, SInv, AllHandled
<1>2. q.kind \in {"edit", "delete", "purge"} /\ q.id \in Ids /\ q.copy \in Row
  BY <1>1 DEF Request
<1>3. Saved(q) = q.copy /\ q.base = rows[q.id] /\ q.copy # None
  BY <1>1, <1>2, SavesCopy, NoneIsNothing DEF NInv
<1>4. /\ rows[q.id] = None => q.kind = "edit"
      /\ rows[q.id] # None =>
           q.copy.number = IF q.kind = "delete" THEN rows[q.id].number - 1 ELSE rows[q.id].number
  BY <1>1, CopyReplaces DEF NInv
<1>5. crashes = 0 => Numbering(q)
  BY <1>1 DEF NInv, Numbered
<1>6. q.kind = "delete" /\ crashes = 0 => Hole(q.copy.number) /\ Waiting(q, rows[q.id].number)
  BY <1>1, <1>5 DEF Numbering, Renumbering, Renumbered
<1>7. q.kind # "delete" /\ crashes = 0 => Hole(Size + 1)
  BY <1>5 DEF Numbering, Renumbering
<1>8. CASE ~ Permitted(q, q.copy)
  <2>1. requests' = [requests EXCEPT ![r] = None] /\ rows' = rows
    BY <1>3, <1>8 DEF Write, Continue
  <2>2. q.kind = "delete" /\ crashes = 0 => FALSE
    <3>1. Hole(q.copy.number) => q.copy.number \notin Numbers
      BY DEF Hole
    <3>2. q.copy.number \notin Numbers => \A s \in Rounds : rows[s].number # q.copy.number
      BY DEF Numbers
    <3>. QED
      BY <1>3, <1>4, <1>6, <1>8, <3>1, <3>2 DEF Permitted
  <2>. QED
    BY <1>1, <1>7, <2>1, <2>2, StillNumbered
<1>9. CASE Permitted(q, q.copy)
  <2>1. rows' = [rows EXCEPT ![q.id] = q.copy]
    BY <1>3, <1>9 DEF Write
  <2> PICK p : p = AfterWrite(q)
    OBVIOUS
  <2>2. requests' = [requests EXCEPT ![r] = p]
    BY <1>3, <1>9 DEF Write, Continue
  <2>3. /\ q.kind = "edit" => p = None
        /\ q.kind = "delete" => /\ p \in Request /\ p.kind = "delete" /\ p.phase = "next"
                                /\ p.todo = q.todo
        /\ q.kind = "purge" => p \in Request /\ p.kind = "purge"
    BY <1>1 DEF AfterWrite, Request
  <2>4. \A s \in Ids : rows'[s] = IF s = q.id THEN q.copy ELSE rows[s]
    BY <1>2, <2>1 DEF NInv, SInv, TInv, TypeOK
  <2>5. Rounds' = Rounds \union {q.id}
    BY <1>2, <1>3, <2>4 DEF Rounds
  <2>6. IsFiniteSet(Rounds)'
    BY <2>5, FS_AddElement DEF NInv
  <2>7. Distinct'
    <3>1. \A s \in Rounds \ {q.id} : rows[s].number # q.copy.number
      BY <1>3, <1>9 DEF Permitted
    <3>2. \A s \in Rounds \ {q.id} : rows'[s] = rows[s]
      BY <2>4 DEF Rounds
    <3>3. rows'[q.id] = q.copy
      BY <1>2, <2>4
    <3>. QED
      BY <2>5, <3>1, <3>2, <3>3 DEF NInv, Distinct
  <2>8. ASSUME crashes = 0 PROVE IF p = None THEN Hole(Size + 1)' ELSE Numbering(p)'
    <3>1. CASE rows[q.id] = None
      <4>1. q.copy.number = Size + 1 /\ q.id \in Ids \ Rounds
        BY <1>2, <1>4, <1>5, <2>8, <3>1 DEF Numbering, Rounds
      <4>2. Hole(Size + 1)'
        BY <1>2, <1>4, <1>7, <2>1, <2>8, <3>1, <4>1, NumberAdded DEF NInv, SInv
      <4>. QED
        BY <1>4, <2>3, <3>1, <4>2
    <3>2. CASE rows[q.id] # None /\ q.kind # "delete"
      <4>1. q.id \in Rounds /\ q.copy.number = rows[q.id].number
        BY <1>2, <1>4, <3>2 DEF Rounds
      <4>2. Size' = Size /\ Numbers' = Numbers
        BY <1>2, <2>1, <4>1, SameNumbers DEF NInv, SInv
      <4>3. Hole(Size + 1)'
        BY <1>7, <2>8, <3>2, <4>2 DEF Hole
      <4>4. q.kind = "purge" => Numbering(p)'
        BY <2>3, <4>3 DEF Numbering, Renumbering
      <4>. QED
        BY <1>2, <2>3, <3>2, <4>3, <4>4
    <3>3. CASE rows[q.id] # None /\ q.kind = "delete"
      <4> PICK h : h = rows[q.id].number
        OBVIOUS
      <4>1. q.id \in Rounds /\ q.copy.number = rows[q.id].number - 1 /\ Hole(q.copy.number)
        BY <1>2, <1>4, <1>6, <2>8, <3>3 DEF Rounds
      <4>2. Hole(h)' /\ {s \in Rounds : rows[s].number > h}' = {s \in Rounds : rows[s].number > h}
        BY <1>2, <2>1, <4>1, HoleMoves DEF NInv, SInv
      <4>3. h \in Nat
        BY <4>1, RoundNumbers DEF NInv, SInv
      <4>4. Waiting(p, h)'
        BY <1>6, <2>3, <2>8, <3>3, <4>2 DEF Waiting
      <4>5. Numbering(p)'
        BY <2>3, <3>3, <4>2, <4>3, <4>4 DEF Numbering, Renumbering, Renumbered
      <4>. QED
        BY <2>3, <3>3, <4>5, NoneIsNothing
    <3>. QED
      BY <3>1, <3>2, <3>3
  <2>. QED
    BY <1>1, <2>2, <2>6, <2>7, <2>8, SoleNumbered DEF NInv, SInv
<1>. QED
  BY <1>3, <1>8, <1>9

LEMMA RestNumbered ==
  ASSUME NInv, SInv',
         \/ \E v \in Visits : Participant(v)
         \/ \E a \in answers : DeleteAnswer(a)
         \/ Crash \/ Tick \/ UNCHANGED vars
  PROVE  NInv'
<1>1. rows' = rows
  BY DEF Participant, Open, Look, Insert, DeleteAnswer, Crash, Tick, vars
<1>2. crashes' # 0 \/ (crashes' = crashes /\ requests' = requests)
  BY DEF Participant, Open, Look, Insert, DeleteAnswer, Crash, Tick, vars, NInv, SInv, TInv, TypeOK
<1>3. Rounds' = Rounds /\ Size' = Size /\ Numbers' = Numbers
  BY <1>1 DEF Rounds, Size, Numbers
<1>4. IsFiniteSet(Rounds)' /\ Distinct'
  BY <1>1, <1>3 DEF NInv, Distinct
<1>5. requests' = requests /\ Numbered => Numbered'
  BY <1>1, <1>3 DEF Numbered, Numbering, Renumbering, Renumbered, Hole, Waiting
<1>. QED
  BY <1>2, <1>4, <1>5 DEF NInv

LEMMA NumberedStep ==
  ASSUME Sole
  PROVE  NInv /\ [Next]_vars => NInv'
<1> SUFFICES ASSUME NInv, [Next]_vars PROVE NInv'
  OBVIOUS
<1>1. SInv'
  BY HandledStep DEF NInv
<1>2. ASSUME NEW r \in Requests, Step(r) PROVE NInv'
  BY <1>1, <1>2, QuietNumbered, WriteNumbered, RemoveNumbered, FollowingNumbered, NextItemNumbered
     DEF Step
<1>. QED
  BY <1>1, <1>2, StaffNumbered, RestNumbered DEF Next

(* With one request of staff at a time the rounds are numbered 1, 2, ...   *)
(* again whenever nothing is in progress, whatever was created, deleted    *)
(* and renumbered row by row in between.                                   *)
THEOREM NoGaps ==
  ASSUME Sole
  PROVE  Spec => []Gapless
<1>1. NInv => Gapless
  <2> SUFFICES ASSUME NInv, Idle, crashes = 0 PROVE Numbers = 1 .. Size
    BY DEF Gapless, Numbers, Size
  <2>1. Size \in Nat
    BY RoundNumbers DEF NInv, SInv
  <2>2. Numbers = (1 .. Size + 1) \ {Size + 1}
    BY DEF NInv, Numbered, Idle, Hole
  <2>. QED
    BY <2>1, <2>2
<1>. QED
  BY <1>1, NumbersStart, NumberedStep, PTL DEF Spec
=============================================================================
