------------------------------ MODULE Surveys ------------------------------
(***************************************************************************)
(* The rounds of one survey series and their answers: SurveysService.      *)
(*                                                                         *)
(* A round is drafted, started, closed and, a retention period later,      *)
(* purged: an aggregate takes the place of its answers.  No request uses a *)
(* transaction.  Each reads rows (Begin...), looks something up (Recheck), *)
(* and saves its copy; save() reads the row once more (Load) and then      *)
(* writes the columns in which the copy differs from it (Write).           *)
(***************************************************************************)
EXTENDS Integers, FiniteSets, FiniteSetsExt

CONSTANTS
  Ids,          \* survey ids, for all rounds of the series
  Root,         \* the first round
  Requests,     \* requests of staff and purges handled at the same time
  Visits,       \* submissions of participants
  DeviceOf,     \* the device each visit comes from
  Questions,    \* lists of questions
  NoQuestions,  \* the empty one
  Updates,      \* bodies of update requests
  MinShown,     \* the fewest answers an aggregate with contents needs
  MaxCrashes,   \* bound: the process dies so many times
  LastDay,      \* bound: the calendar stops here, in retention periods
  None

ASSUME SurveyConstants ==
  /\ Root \in Ids /\ NoQuestions \in Questions
  /\ Updates \subseteq [questions : Questions \union {None},
                        many : BOOLEAN \union {None}, archived : BOOLEAN \union {None}]
  /\ MinShown \in Nat /\ LastDay \in Nat /\ MaxCrashes \in Nat

VARIABLES
  rows,      \* rows[id]: the stored survey, or None
  answers,   \* the stored answers
  requests,  \* requests[r]: what request r is doing, or None
  visits,    \* visits[v]: what visit v is doing, or None
  today,
  crashes    \* how often the process died

vars == <<rows, answers, requests, visits, today, crashes>>

Status == {"draft", "active", "closed", "archived"}

(* closedAt and rawResponsesPurgeAt are written together: due is both.     *)
Row == [number : Nat \ {0}, status : Status, archived : BOOLEAN, questions : Questions,
        many : BOOLEAN, due : Nat \union {None},
        snapshot : [count : Nat, shown : BOOLEAN] \union {None}]

Devices == {DeviceOf[v] : v \in Visits}
Answer  == [survey : Ids, visit : Visits, device : Devices \union {None}]

Request == [kind : {"edit", "delete", "purge"},
            phase : {"compare", "compete", "count", "remove", "following",
                     "save", "write", "erase", "next"},
            id : Ids, copy : Row, base : Row \union {None}, todo : SUBSET [id : Ids, copy : Row]]

Visit == [phase : {"look", "insert"}, id : Ids, device : Devices \union {None}]

ASSUME NoneIsNothing ==
  None \notin Row \union Request \union Visit \union Nat \union [count : Nat, shown : BOOLEAN]

Rounds == {id \in Ids : rows[id] # None}
AnswersOf(id) == {a \in answers : a.survey = id}

Draft(number, questions, many) ==
  [number |-> number, status |-> "draft", archived |-> FALSE, questions |-> questions,
   many |-> many, due |-> None, snapshot |-> None]

(* create() *)
Init ==
  /\ \E q \in Questions, many \in BOOLEAN :
       rows = [id \in Ids |-> IF id = Root THEN Draft(1, q, many) ELSE None]
  /\ answers  = {}
  /\ requests = [r \in Requests |-> None]
  /\ visits   = [v \in Visits |-> None]
  /\ today    = 0
  /\ crashes  = 0

-----------------------------------------------------------------------------
(* Requests of staff: what they read first, and what they make of it. *)

Begin(r, request) ==
  /\ requests[r] = None
  /\ requests' = [requests EXCEPT ![r] = request]
  /\ UNCHANGED <<rows, answers, visits, today, crashes>>

Doing(kind, phase, id, copy) ==
  [kind |-> kind, phase |-> phase, id |-> id, copy |-> copy, base |-> None, todo |-> {}]

Editable(row, u) ==
  /\ u.questions # None => row.status = "draft"
  /\ u.archived = TRUE => row.status # "active"

Given(value, old)   == IF value = None THEN old ELSE value

DraftAgain(row, u) ==  \* broken variant: a restored survey is a draft again
  [row EXCEPT !.questions = Given(u.questions, @), !.many = Given(u.many, @),
     !.archived = Given(u.archived, @),
     !.status = CASE u.archived = TRUE -> "archived"
                  [] u.archived = FALSE /\ @ = "archived" -> "draft"
                  [] OTHER -> @]

Updated(row, u) ==
  [row EXCEPT !.questions = Given(u.questions, @), !.many = Given(u.many, @),
     !.archived = Given(u.archived, @),
     !.status = CASE u.archived = TRUE -> "archived"
                  [] u.archived = FALSE /\ @ = "archived" ->
                       IF row.due = None THEN "draft" ELSE "closed"
                  [] OTHER -> @]

BeginUpdate(r, id, u) ==
  /\ rows[id] # None
  /\ Editable(rows[id], u)
  /\ Begin(r, Doing("edit",
                    IF rows[id].number > 1 /\ u.questions # None THEN "compare" ELSE "save",
                    id, Updated(rows[id], u)))

Startable(row) == row.questions # NoQuestions /\ row.status \in {"draft", "active"}

BeginStart(r, id) ==
  /\ rows[id] # None
  /\ Startable(rows[id])
  /\ Begin(r, Doing("edit", "compete", id,
                    [rows[id] EXCEPT !.status = "active", !.archived = FALSE]))

ClosedOnly(row) == [row EXCEPT !.status = "closed"]  \* broken variant
Closed(row)     == [row EXCEPT !.status = "closed", !.due = today + 1]

BeginClose(r, id) ==
  /\ rows[id] # None
  /\ rows[id].status = "active"
  /\ Begin(r, Doing("edit", "save", id, Closed(rows[id])))

LastNumber == Max({rows[id].number : id \in Rounds})

(* createRound() clones the last round under a new id. *)
BeginRound(r, id) ==
  /\ \A s \in Rounds : rows[s].status # "active"
  /\ id \notin Rounds
  /\ \A q \in Requests : requests[q] # None =>
       id \notin {requests[q].id} \union {item.id : item \in requests[q].todo}
  /\ \E source \in Rounds :
       /\ rows[source].number = LastNumber
       /\ Begin(r, Doing("edit", "write", id,
                         Draft(LastNumber + 1, rows[source].questions, rows[source].many)))

BeginDelete(r, id) ==
  /\ rows[id] # None
  /\ rows[id].number > 1
  /\ rows[id].status = "draft"
  /\ Begin(r, Doing("delete", "count", id, rows[id]))

AtOnce(row)  == row.due # None /\ row.snapshot = None  \* broken variant: no retention period
Again(row)   == row.due # None /\ row.due <= today     \* broken variant: a second time
Expired(row) == row.due # None /\ row.due <= today /\ row.snapshot = None

BeginPurge(r) ==
  LET expired == {id \in Rounds : Expired(rows[id])} IN
    /\ expired # {}
    /\ \E id \in expired :
         Begin(r, [Doing("purge", "next", id, rows[id]) EXCEPT
                     !.todo = {[id |-> s, copy |-> rows[s]] : s \in expired}])

-----------------------------------------------------------------------------
(* The steps of a request once begun. *)

Continue(r, request) == requests' = [requests EXCEPT ![r] = request]
At(r, phase) == requests[r] # None /\ requests[r].phase = phase

Passes(request) ==
  CASE request.phase = "compare" -> request.copy.questions = rows[Root].questions
    [] request.phase = "compete" -> \A s \in Rounds \ {request.id} : rows[s].status # "active"
    [] request.phase = "count"   -> AnswersOf(request.id) = {}

Recheck(r) ==
  /\ requests[r] # None
  /\ requests[r].phase \in {"compare", "compete", "count"}
  /\ Continue(r, IF Passes(requests[r])
                 THEN [requests[r] EXCEPT !.phase = IF @ = "count" THEN "remove" ELSE "save"]
                 ELSE None)
  /\ UNCHANGED <<rows, answers, visits, today, crashes>>

Load(r) ==
  /\ At(r, "save")
  /\ Continue(r, [requests[r] EXCEPT !.phase = "write", !.base = rows[requests[r].id]])
  /\ UNCHANGED <<rows, answers, visits, today, crashes>>

(* The row after the changed columns are written. *)
Merged(row, copy, base) ==
  [column \in DOMAIN copy |-> IF copy[column] = base[column] THEN row[column] ELSE copy[column]]

(* The row a request leaves behind: inserted if there was none to compare  *)
(* with, updated, or still missing.                                        *)
Saved(request) ==
  CASE request.base = None -> request.copy
    [] request.base # None /\ rows[request.id] = None -> None
    [] OTHER -> Merged(rows[request.id], request.copy, request.base)

(* The primary key, and the unique index on the series and round number. *)
Permitted(request, saved) ==
  /\ request.base = None => rows[request.id] = None
  /\ saved # None => \A s \in Rounds \ {request.id} : rows[s].number # saved.number

AfterWrite(request) ==
  CASE request.kind = "edit"   -> None
    [] request.kind = "delete" -> [request EXCEPT !.phase = "next"]
    [] request.kind = "purge"  -> [request EXCEPT !.phase = "erase"]

Write(r) ==
  /\ At(r, "write")
  /\ LET saved == Saved(requests[r]) IN
       IF Permitted(requests[r], saved)
       THEN /\ rows' = [rows EXCEPT ![requests[r].id] = saved]
            /\ Continue(r, AfterWrite(requests[r]))
       ELSE Continue(r, None) /\ UNCHANGED rows
  /\ UNCHANGED <<answers, visits, today, crashes>>

Remove(r) ==
  /\ At(r, "remove")
  /\ rows' = [rows EXCEPT ![requests[r].id] = None]
  /\ Continue(r, [requests[r] EXCEPT !.phase = "following"])
  /\ UNCHANGED <<answers, visits, today, crashes>>

Nobody(number) == {}  \* broken variant: nothing moves up
Later(number)  == {s \in Rounds : rows[s].number > number}

Following(r) ==
  /\ At(r, "following")
  /\ Continue(r, [requests[r] EXCEPT !.phase = "next",
       !.todo = {[id |-> s, copy |-> rows[s]] : s \in Later(requests[r].copy.number)}])
  /\ UNCHANGED <<rows, answers, visits, today, crashes>>

Snapshot(n)    == [count |-> n, shown |-> n >= MinShown]

(* The next round to renumber, or the next survey to purge, whose answers  *)
(* are read and aggregated.                                                *)
Purged(item) == [item.copy EXCEPT !.snapshot = Snapshot(Cardinality(AnswersOf(item.id)))]
MovedUp(item) == [item.copy EXCEPT !.number = @ - 1]

Lowest(todo) == {item \in todo : \A other \in todo : item.copy.number <= other.copy.number}

NextItem(r) ==
  /\ At(r, "next")
  /\ \/ /\ requests[r].todo = {}
        /\ Continue(r, None)
     \/ /\ requests[r].kind = "delete"
        /\ \E item \in Lowest(requests[r].todo) :
             Continue(r, [requests[r] EXCEPT !.phase = "save", !.todo = @ \ {item},
                                             !.id = item.id, !.copy = MovedUp(item)])
     \/ /\ requests[r].kind = "purge"
        /\ \E item \in requests[r].todo :
             Continue(r, [requests[r] EXCEPT !.phase = "save", !.todo = @ \ {item},
                                             !.id = item.id, !.copy = Purged(item)])
  /\ UNCHANGED <<rows, answers, visits, today, crashes>>

Without(id) == answers \ AnswersOf(id)

Erase(r) ==
  /\ At(r, "erase")
  /\ answers' = Without(requests[r].id)
  /\ Continue(r, [requests[r] EXCEPT !.phase = "next"])
  /\ UNCHANGED <<rows, visits, today, crashes>>

(* deleteResponse() *)
DeleteAnswer(a) ==
  /\ a \in answers
  /\ rows[a.survey] # None
  /\ rows[a.survey].snapshot = None
  /\ answers' = answers \ {a}
  /\ UNCHANGED <<rows, requests, visits, today, crashes>>

-----------------------------------------------------------------------------
(* A participant submits: submitPublic(). *)

HashOf(v, row) == IF row.many THEN None ELSE DeviceOf[v]

Open(v, id) ==
  /\ visits[v] = None
  /\ ~ \E a \in answers : a.visit = v
  /\ rows[id] # None
  /\ rows[id].status = "active"
  /\ visits' = [visits EXCEPT ![v] =
       [phase |-> IF rows[id].many THEN "insert" ELSE "look",
        id |-> id, device |-> HashOf(v, rows[id])]]
  /\ UNCHANGED <<rows, answers, requests, today, crashes>>

Answered(id, device) == device # None /\ \E a \in AnswersOf(id) : a.device = device

Look(v) ==
  /\ visits[v] # None
  /\ visits[v].phase = "look"
  /\ visits' = [visits EXCEPT ![v] =
       IF Answered(visits[v].id, visits[v].device) THEN None ELSE [@ EXCEPT !.phase = "insert"]]
  /\ UNCHANGED <<rows, answers, requests, today, crashes>>

(* The unique index on survey and device refuses a second answer. *)
NotIndexed(id, device) == FALSE  \* broken variant
Refused(id, device)    == Answered(id, device)

Insert(v) ==
  /\ visits[v] # None
  /\ visits[v].phase = "insert"
  /\ answers' = answers \union
       (IF Refused(visits[v].id, visits[v].device) THEN {}
        ELSE {[survey |-> visits[v].id, visit |-> v, device |-> visits[v].device]})
  /\ visits' = [visits EXCEPT ![v] = None]
  /\ UNCHANGED <<rows, requests, today, crashes>>

-----------------------------------------------------------------------------
Idle == (\A r \in Requests : requests[r] = None) /\ (\A v \in Visits : visits[v] = None)

Crash ==
  /\ crashes < MaxCrashes
  /\ crashes' = crashes + 1
  /\ requests' = [r \in Requests |-> None]
  /\ visits'   = [v \in Visits |-> None]
  /\ UNCHANGED <<rows, answers, today>>

(* A retention period is over.  No request takes that long. *)
Tick ==
  /\ Idle
  /\ today < LastDay
  /\ today' = today + 1
  /\ UNCHANGED <<rows, answers, requests, visits, crashes>>

Staff(r) ==
  \/ \E id \in Ids :
       \/ \E u \in Updates : BeginUpdate(r, id, u)
       \/ BeginStart(r, id)
       \/ BeginClose(r, id)
       \/ BeginRound(r, id)
       \/ BeginDelete(r, id)
  \/ BeginPurge(r)

Step(r) ==
  \/ Recheck(r) \/ Load(r) \/ Write(r) \/ Remove(r)
  \/ Following(r) \/ NextItem(r) \/ Erase(r)

Participant(v) ==
  \/ \E id \in Ids : Open(v, id)
  \/ Look(v)
  \/ Insert(v)

Next ==
  \/ \E r \in Requests : Staff(r) \/ Step(r)
  \/ \E v \in Visits : Participant(v)
  \/ \E a \in answers : DeleteAnswer(a)
  \/ Crash
  \/ Tick

Spec == Init /\ [][Next]_vars

(* The hourly timer starts a purge whatever else is going on; statements   *)
(* that were sent are answered.                                            *)
Fairness ==
  /\ SF_vars(\E r \in Requests : BeginPurge(r))
  /\ \A r \in Requests : WF_vars(Step(r))
  /\ \A v \in Visits : WF_vars(Look(v) \/ Insert(v))

FairSpec == Spec /\ Fairness

-----------------------------------------------------------------------------
(* Types of the rows, the answers and of what is in progress. *)
TypeOK ==
  /\ rows \in [Ids -> Row \union {None}]
  /\ answers \subseteq Answer
  /\ requests \in [Requests -> Request \union {None}]
  /\ visits \in [Visits -> Visit \union {None}]
  /\ today \in Nat /\ crashes \in Nat

(* At most one round of a series runs.  start() looks for another one      *)
(* before it saves.                                                        *)
OneActiveRound ==
  \A s, t \in Rounds : rows[s].status = "active" /\ rows[t].status = "active" => s = t

(* When nothing is in progress, and no deletion was broken off, the rounds *)
(* are numbered 1, 2, ... without a gap, although deleteRound() renumbers  *)
(* the later ones row by row.                                              *)
Gapless ==
  Idle /\ crashes = 0 => {rows[id].number : id \in Rounds} = 1 .. Cardinality(Rounds)

(* All rounds of a series ask the same questions, or their results could   *)
(* not be compared.                                                        *)
Comparable == Idle => \A s \in Rounds : rows[s].questions = rows[Root].questions

(* An answer belongs to a round that exists and was started: no draft that *)
(* may still be deleted or changed has answers.                            *)
AnswersHaveRound ==
  \A a \in answers : rows[a.survey] # None /\ rows[a.survey].status # "draft"

(* A device answers a round once, also when it submits twice at a time. *)
OncePerDevice ==
  \A a, b \in answers : a.survey = b.survey /\ a.device = b.device /\ a.device # None => a = b

(* A purge erases only answers that the stored aggregate counts. *)
ErasedAreCounted ==
  \A r \in Requests : At(r, "erase") =>
    LET row == rows[requests[r].id] IN
      /\ row # None /\ row.snapshot # None
      /\ row.snapshot.count >= Cardinality(AnswersOf(requests[r].id))

(* An aggregate stays when the answers it was made of are gone: nothing    *)
(* could compute it again.                                                 *)
ResultKept ==
  [][\A s \in Rounds :
       rows[s].snapshot # None /\ rows[s].snapshot.count > 0 /\ AnswersOf(s) = {} =>
         rows'[s] # None /\ rows'[s].snapshot = rows[s].snapshot]_vars

(* The answers of a closed round are gone some time after the retention    *)
(* period, which must have been set: again and again there are none left.  *)
(* A purge that dies between aggregate and erasure breaks this promise, so *)
(* it is made for histories without a crash.                               *)
Overdue(id) ==
  /\ rows[id] # None
  /\ rows[id].status \in {"closed", "archived"}
  /\ rows[id].due = None \/ rows[id].due <= today

AnswersErased == []<>(crashes > 0 \/ \A id \in Ids : Overdue(id) => AnswersOf(id) = {})
=============================================================================
