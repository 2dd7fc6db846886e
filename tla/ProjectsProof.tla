---------------------------- MODULE ProjectsProof ----------------------------
(***************************************************************************)
(* A form makes one project, a listed document has its file, and only an   *)
(* edit of an activity changes its project, for any number of projects,    *)
(* forms, documents, activities and overlapping requests.                  *)
(*                                                                         *)
(* The files are the hard part: requests remove files on the strength of   *)
(* what they read long ago.  They may, because the row of a document is    *)
(* written once: a document whose row was seen (Settled) never gets        *)
(* another one.                                                            *)
(***************************************************************************)
EXTENDS Projects, TLAPS

Arriving == {"find project", "attach"}

(* The upload of d has reached its row, or ended: no row will be written.   *)
Settled(d) ==
  /\ d \in used
  /\ \A s \in Requests : requests[s] # None /\ requests[s].phase \in Arriving
                           => requests[s].about # d

(* What the phase of a request says about the documents it will touch.      *)
RequestOK(q) ==
  /\ q.phase \in Creating => q.about \in Forms
  /\ q.phase \notin Creating => q.id \in Ids
  /\ q.phase = "update" => q.body \in Body
  /\ q.phase \in {"load", "write"} => q.copy \in Row
  /\ q.phase = "link" => q.about \in Activities
  /\ q.phase \in Uploading \union {"detach"} => q.about \in Documents /\ q.about \in used
  /\ q.phase \in Arriving => q.about \in disk
  /\ \A d \in q.files : Settled(d)
  /\ q.phase \in {"count", "delete"} => \A d \in q.files : documents[d] \in {q.id, None}
  /\ q.phase = "detach" => q.files = {q.about}
  /\ q.phase \in {"log removal", "unlink"} => \A d \in q.files : documents[d] = None

RequestsOK == \A s \in Requests : requests[s] # None => RequestOK(requests[s])

OneUpload ==
  \A s, t \in Requests :
    /\ requests[s] # None /\ requests[s].phase \in Uploading
    /\ requests[t] # None /\ requests[t].phase \in Uploading
    /\ requests[s].about = requests[t].about
    => s = t

RowsSettled == \A d \in Documents : documents[d] # None => Settled(d)

Promises == OneProjectPerForm /\ DocumentsHaveFiles

IInv == TypeOK /\ RequestsOK /\ OneUpload /\ RowsSettled /\ Promises

LEMMA InitIInv == Init => IInv
<1>. SUFFICES ASSUME Init PROVE IInv
  OBVIOUS
<1>1. TypeOK
  BY DEF Init, TypeOK
<1>2. RequestsOK /\ OneUpload /\ RowsSettled /\ Promises
  BY DEF Init, RequestsOK, OneUpload, RowsSettled, Promises, OneProjectPerForm,
         DocumentsHaveFiles, Projects
<1>. QED
  BY <1>1, <1>2 DEF IInv

-----------------------------------------------------------------------------
(* What a step of request r may do to the documents: rows go, or come for   *)
(* the document r uploads; files go when they are settled, or r's own.      *)
Careful(r) ==
  /\ \A s \in Requests \ {r} : requests'[s] = requests[s]
  /\ used \subseteq used'
  /\ \A d \in Documents : documents'[d] # documents[d] =>
       \/ documents'[d] = None
       \/ requests[r] # None /\ requests[r].phase = "attach" /\ requests[r].about = d
  /\ \A d \in disk \ disk' :
       \/ Settled(d)
       \/ requests[r] # None /\ requests[r].phase \in Uploading /\ requests[r].about = d
  /\ requests'[r] # None /\ requests'[r].phase \in Uploading =>
       \/ requests'[r].about \notin used
       \/ /\ requests[r] # None
          /\ requests[r].phase \in Uploading /\ requests[r].about = requests'[r].about
          /\ requests'[r].phase \in Arriving => requests[r].phase \in Arriving

LEMMA StaysSettled ==
  ASSUME NEW r \in Requests, Careful(r), NEW d, Settled(d)
  PROVE  Settled(d)'
  BY DEF Careful, Settled, Arriving, Uploading

LEMMA OthersKeep ==
  ASSUME IInv, NEW r \in Requests, Careful(r), NEW s \in Requests \ {r}, requests'[s] # None
  PROVE  RequestOK(requests[s])'
<1>. DEFINE q == requests[s]
<1>1. requests'[s] = q /\ q # None /\ RequestOK(q) /\ q \in Request
  BY DEF Careful, IInv, RequestsOK, TypeOK
<1>2. \A d \in q.files : Settled(d)' /\ d \in Documents
  BY <1>1, StaysSettled DEF RequestOK, Request
<1>3. \A d \in q.files : documents'[d] = documents[d] \/ documents'[d] = None
  <2>. SUFFICES ASSUME NEW d \in q.files, documents'[d] # documents[d], documents'[d] # None
                PROVE  FALSE
    OBVIOUS
  <2>1. requests[r] # None /\ requests[r].phase = "attach" /\ requests[r].about = d
    BY <1>2 DEF Careful
  <2>2. Settled(d)
    BY <1>1 DEF RequestOK
  <2>. QED
    BY <2>1, <2>2 DEF Settled, Arriving
<1>4. q.phase \in Arriving => q.about \in disk'
  <2>. SUFFICES ASSUME q.phase \in Arriving, q.about \notin disk'
                PROVE  FALSE
    OBVIOUS
  <2>1. q.about \in disk
    BY <1>1 DEF RequestOK
  <2>2. ~ Settled(q.about)
    BY <1>1 DEF Settled
  <2>3. requests[r] # None /\ requests[r].phase \in Uploading /\ requests[r].about = q.about
    BY <2>1, <2>2 DEF Careful
  <2>. QED
    BY <1>1, <2>3 DEF IInv, OneUpload, Arriving, Uploading
<1>5. q.about \in used => q.about \in used'
  BY DEF Careful
<1>. QED
  BY <1>1, <1>2, <1>3, <1>4, <1>5 DEF RequestOK

LEMMA CarefulKeeps ==
  ASSUME IInv, NEW r \in Requests, Careful(r), TypeOK',
         requests'[r] # None => RequestOK(requests[r])',
         \A d \in Documents : documents'[d] # None /\ documents[d] = None => Settled(d)',
         Promises'
  PROVE  IInv'
<1>1. RequestsOK'
  BY OthersKeep DEF RequestsOK
<1>2. OneUpload'
  <2>. SUFFICES ASSUME NEW s \in Requests, NEW t \in Requests,
                       requests'[s] # None, requests'[s].phase \in Uploading,
                       requests'[t] # None, requests'[t].phase \in Uploading,
                       requests'[s].about = requests'[t].about, s # t
                PROVE  FALSE
    BY DEF OneUpload
  <2>1. \A x \in Requests \ {r} :
          requests'[x] # None /\ requests'[x].phase \in Uploading
            => requests'[x] = requests[x] /\ requests[x].about \in used
    BY DEF Careful, IInv, RequestsOK, RequestOK
  <2>2. CASE s # r /\ t # r
    BY <2>1, <2>2 DEF IInv, OneUpload
  <2>3. CASE s = r
    BY <2>1, <2>3 DEF IInv, OneUpload, Careful
  <2>4. CASE t = r
    BY <2>1, <2>4 DEF IInv, OneUpload, Careful
  <2>. QED
    BY <2>2, <2>3, <2>4
<1>3. RowsSettled'
  BY StaysSettled DEF RowsSettled, IInv
<1>. QED
  BY <1>1, <1>2, <1>3 DEF IInv

(* A step that leaves documents and files alone. *)
LEMMA QuietKeeps ==
  ASSUME IInv, NEW r \in Requests, TypeOK', OneProjectPerForm',
         documents' = documents, disk' = disk, failed' = failed, used \subseteq used',
         \A s \in Requests \ {r} : requests'[s] = requests[s],
         requests'[r] # None => RequestOK(requests[r])',
         requests'[r] # None /\ requests'[r].phase \in Uploading =>
            /\ requests[r] # None
            /\ requests[r].phase \in Uploading /\ requests[r].about = requests'[r].about
            /\ requests'[r].phase \in Arriving => requests[r].phase \in Arriving
  PROVE  IInv'
<1>1. Careful(r)
  BY DEF Careful
<1>2. Promises'
  BY DEF IInv, Promises, DocumentsHaveFiles
<1>. QED
  BY <1>1, <1>2, CarefulKeeps

-----------------------------------------------------------------------------
(* The parts of actions that concern requests. *)
LEMMA DoingType ==
  ASSUME NEW phase \in Phases, NEW about \in Ids \union Forms \union Documents \union Activities,
         NEW id \in Ids \union {None}
  PROVE  Doing(phase, about, id) \in Request
  BY DEF Doing, Request

LEMMA BeginType ==
  ASSUME TypeOK, NEW r \in Requests, NEW q \in Request, Begin(r, q)
  PROVE  /\ requests' \in [Requests -> Request \union {None}]
         /\ requests'[r] = q
         /\ \A s \in Requests \ {r} : requests'[s] = requests[s]
  BY DEF TypeOK, Begin

LEMMA ContinueType ==
  ASSUME TypeOK, NEW r \in Requests, NEW phase \in Phases, requests[r] # None, Continue(r, phase)
  PROVE  /\ requests' \in [Requests -> Request \union {None}]
         /\ requests'[r] = [requests[r] EXCEPT !.phase = phase]
         /\ \A s \in Requests \ {r} : requests'[s] = requests[s]
<1>1. requests[r] \in Request
  BY DEF TypeOK
<1>2. [requests[r] EXCEPT !.phase = phase] \in Request
  BY <1>1 DEF Request
<1>3. requests' = [requests EXCEPT ![r] = [requests[r] EXCEPT !.phase = phase]]
  BY DEF Continue
<1>. HIDE DEF Request
<1>. QED
  BY <1>2, <1>3 DEF TypeOK

LEMMA EndType ==
  ASSUME TypeOK, NEW r \in Requests, End(r)
  PROVE  /\ requests' \in [Requests -> Request \union {None}]
         /\ requests'[r] = None
         /\ \A s \in Requests \ {r} : requests'[s] = requests[s]
  BY DEF TypeOK, End

(* An ended request that left documents and files alone. *)
LEMMA EndKeeps ==
  ASSUME IInv, NEW r \in Requests, End(r), TypeOK', OneProjectPerForm',
         UNCHANGED <<documents, disk, used, failed>>
  PROVE  IInv'
  BY EndType, QuietKeeps DEF IInv

(* A request that goes on to another phase with documents and files alone. *)
LEMMA ContinueKeeps ==
  ASSUME IInv, NEW r \in Requests, NEW phase \in Phases, requests[r] # None, Continue(r, phase),
         TypeOK', OneProjectPerForm',
         UNCHANGED <<documents, disk, failed>>, used \subseteq used',
         phase \in Creating <=> requests[r].phase \in Creating,
         phase \notin {"update", "load", "write", "link", "detach"},
         phase \in Uploading => requests[r].phase \in Uploading,
         phase \in Arriving => requests[r].phase \in Arriving,
         phase \in {"count", "delete"} => requests[r].phase = "count",
         phase \in {"log removal", "unlink"} => requests[r].phase = "log removal"
  PROVE  IInv'
<1>. DEFINE q == requests[r]
<1>1. q \in Request /\ RequestOK(q)
  BY DEF IInv, TypeOK, RequestsOK
<1>2. /\ requests'[r] = [q EXCEPT !.phase = phase]
      /\ \A s \in Requests \ {r} : requests'[s] = requests[s]
  BY ContinueType DEF IInv
<1>3. /\ requests'[r].phase = phase /\ requests'[r].about = q.about /\ requests'[r].id = q.id
      /\ requests'[r].files = q.files
  BY <1>1, <1>2 DEF Request
<1>4. phase \in Uploading =>
        /\ q.phase \in Uploading /\ q.about = requests'[r].about
        /\ phase \in Arriving => q.phase \in Arriving
  BY <1>3
<1>5. Careful(r)
  BY <1>2, <1>3, <1>4 DEF Careful
<1>6. \A d \in q.files : Settled(d)'
  BY <1>1, <1>5, StaysSettled DEF RequestOK
<1>7. RequestOK(requests[r])'
  BY <1>1, <1>3, <1>6 DEF RequestOK, Uploading, Arriving
<1>. QED
  BY <1>2, <1>3, <1>4, <1>7, QuietKeeps

-----------------------------------------------------------------------------
(* What people start. *)
LEMMA SubmitKeeps ==
  ASSUME IInv, NEW r \in Requests, NEW f \in Forms, Submit(r, f)
  PROVE  IInv'
<1>. DEFINE q == Doing("find", f, None)
<1>1. q \in Request /\ Begin(r, q)
  BY DoingType DEF Phases, Creating, Submit
<1>2. /\ requests' \in [Requests -> Request \union {None}]
      /\ requests'[r] = q
      /\ \A s \in Requests \ {r} : requests'[s] = requests[s]
  BY <1>1, BeginType DEF IInv
<1>3. TypeOK'
  <2>. HIDE DEF q
  <2>. QED
    BY <1>2 DEF IInv, TypeOK, Submit
<1>4. RequestOK(requests[r])'
  BY <1>2 DEF RequestOK, Doing, Creating, Uploading, Arriving
<1>5. OneProjectPerForm'
  BY DEF IInv, Promises, OneProjectPerForm, Projects, Submit
<1>6. requests'[r].phase \notin Uploading
  BY <1>2 DEF Doing, Uploading
<1>. QED
  BY <1>2, <1>3, <1>4, <1>5, <1>6, QuietKeeps DEF Submit

LEMMA LoseAnswerKeeps ==
  ASSUME IInv, NEW r \in Requests, LoseAnswer(r)
  PROVE  IInv'
<1>. DEFINE q == requests[r]
<1>1. q # None /\ q \in Request /\ RequestOK(q) /\ q.phase \in Creating
  BY DEF IInv, TypeOK, RequestsOK, LoseAnswer
<1>2. /\ requests'[r] = [q EXCEPT !.heard = FALSE]
      /\ [q EXCEPT !.heard = FALSE] \in Request
      /\ \A s \in Requests \ {r} : requests'[s] = requests[s]
  BY <1>1 DEF IInv, TypeOK, LoseAnswer, Request
<1>3. /\ requests'[r].phase = q.phase /\ requests'[r].about = q.about /\ requests'[r].id = q.id
      /\ requests'[r].files = q.files
  BY <1>1, <1>2 DEF Request
<1>4. TypeOK'
  <2>1. requests' \in [Requests -> Request \union {None}]
    <3>1. requests' = [requests EXCEPT ![r] = [q EXCEPT !.heard = FALSE]]
      BY DEF LoseAnswer
    <3>. HIDE DEF Request, q
    <3>. QED
      BY <1>2, <3>1 DEF IInv, TypeOK
  <2>2. forms' \in [Forms -> {"editing", "waiting", "done"}]
    BY DEF IInv, TypeOK, LoseAnswer
  <2>. QED
    BY <2>1, <2>2 DEF IInv, TypeOK, LoseAnswer
<1>5. q.phase \notin Uploading
  BY <1>1 DEF Creating, Uploading
<1>6. Careful(r)
  BY <1>2, <1>3, <1>5 DEF Careful, LoseAnswer
<1>7. RequestOK(requests[r])'
  <2>1. \A d \in q.files : Settled(d)'
    BY <1>1, <1>6, StaysSettled DEF RequestOK
  <2>. QED
    BY <1>1, <1>3, <2>1 DEF RequestOK, Creating, Uploading, Arriving
<1>8. OneProjectPerForm'
  BY DEF IInv, Promises, OneProjectPerForm, Projects, LoseAnswer
<1>. QED
  BY <1>2, <1>3, <1>4, <1>5, <1>7, <1>8, QuietKeeps DEF LoseAnswer

LEMMA BeginEditKeeps ==
  ASSUME IInv, NEW r \in Requests, NEW id \in Ids, NEW body \in Body, BeginEdit(r, id, body)
  PROVE  IInv'
<1>. DEFINE q == [Doing("update", id, id) EXCEPT !.body = body]
<1>1. /\ q \in Request /\ Begin(r, q)
      /\ q.phase = "update" /\ q.id = id /\ q.body = body /\ q.files = {}
  BY DEF Phases, Doing, Request, BeginEdit
<1>. HIDE DEF q
<1>2. /\ requests' \in [Requests -> Request \union {None}]
      /\ requests'[r] = q
      /\ \A s \in Requests \ {r} : requests'[s] = requests[s]
  BY <1>1, BeginType DEF IInv
<1>3. TypeOK'
  BY <1>2 DEF IInv, TypeOK, BeginEdit
<1>4. RequestOK(requests[r])'
  BY <1>1, <1>2 DEF RequestOK, Creating, Uploading, Arriving
<1>5. OneProjectPerForm'
  BY DEF IInv, Promises, OneProjectPerForm, Projects, BeginEdit
<1>6. requests'[r].phase \notin Uploading
  BY <1>1, <1>2 DEF Uploading
<1>. QED
  BY <1>2, <1>3, <1>4, <1>5, <1>6, QuietKeeps DEF BeginEdit

LEMMA BeginRemoveKeeps ==
  ASSUME IInv, NEW r \in Requests, NEW id \in Ids, BeginRemove(r, id)
  PROVE  IInv'
<1>. DEFINE q == [Doing("count", id, id) EXCEPT !.files = DocumentsOf(id)]
<1>1. /\ q \in Request /\ Begin(r, q)
      /\ q.phase = "count" /\ q.id = id /\ q.files = DocumentsOf(id)
  BY DEF Phases, Doing, Request, BeginRemove, DocumentsOf
<1>. HIDE DEF q
<1>2. /\ requests' \in [Requests -> Request \union {None}]
      /\ requests'[r] = q
      /\ \A s \in Requests \ {r} : requests'[s] = requests[s]
  BY <1>1, BeginType DEF IInv
<1>3. TypeOK'
  BY <1>2 DEF IInv, TypeOK, BeginRemove
<1>4. Careful(r)
  BY <1>1, <1>2 DEF Careful, BeginRemove, Uploading
<1>5. \A d \in q.files : d \in Documents /\ documents[d] = id /\ Settled(d)
  BY <1>1, ProjectConstants DEF IInv, RowsSettled, DocumentsOf
<1>6. RequestOK(requests[r])'
  <2>1. \A d \in q.files : Settled(d)'
    BY <1>4, <1>5, StaysSettled
  <2>2. documents' = documents
    BY DEF BeginRemove
  <2>. QED
    BY <1>1, <1>2, <1>5, <2>1, <2>2 DEF RequestOK, Creating, Uploading, Arriving
<1>7. OneProjectPerForm'
  BY DEF IInv, Promises, OneProjectPerForm, Projects, BeginRemove
<1>8. requests'[r].phase \notin Uploading
  BY <1>1, <1>2 DEF Uploading
<1>. QED
  BY <1>2, <1>3, <1>6, <1>7, <1>8, QuietKeeps DEF BeginRemove

LEMMA BeginUploadKeeps ==
  ASSUME IInv, NEW r \in Requests, NEW d \in Documents, NEW id \in Ids, BeginUpload(r, d, id)
  PROVE  IInv'
<1>. DEFINE q == Doing("find project", d, id)
<1>1. /\ q \in Request /\ Begin(r, q)
      /\ q.phase = "find project" /\ q.id = id /\ q.about = d /\ q.files = {}
  BY DoingType DEF Phases, Uploading, Doing, BeginUpload
<1>. HIDE DEF q
<1>2. /\ requests' \in [Requests -> Request \union {None}]
      /\ requests'[r] = q
      /\ \A s \in Requests \ {r} : requests'[s] = requests[s]
  BY <1>1, BeginType DEF IInv
<1>3. TypeOK'
  BY <1>2 DEF IInv, TypeOK, BeginUpload
<1>4. Careful(r)
  BY <1>1, <1>2 DEF Careful, BeginUpload
<1>5. RequestOK(requests[r])'
  BY <1>1, <1>2 DEF RequestOK, Creating, Uploading, Arriving, BeginUpload
<1>6. Promises'
  BY DEF IInv, Promises, OneProjectPerForm, DocumentsHaveFiles, Projects, BeginUpload
<1>7. documents' = documents
  BY DEF BeginUpload
<1>. QED
  BY <1>3, <1>4, <1>5, <1>6, <1>7, CarefulKeeps

LEMMA BeginLinkKeeps ==
  ASSUME IInv, NEW r \in Requests, NEW a \in Activities, NEW id \in Ids, BeginLink(r, a, id)
  PROVE  IInv'
<1>. DEFINE q == Doing("link", a, id)
<1>1. /\ q \in Request /\ Begin(r, q)
      /\ q.phase = "link" /\ q.id = id /\ q.about = a /\ q.files = {}
  BY DoingType DEF Phases, Doing, BeginLink
<1>. HIDE DEF q
<1>2. /\ requests' \in [Requests -> Request \union {None}]
      /\ requests'[r] = q
      /\ \A s \in Requests \ {r} : requests'[s] = requests[s]
  BY <1>1, BeginType DEF IInv
<1>3. TypeOK'
  BY <1>2 DEF IInv, TypeOK, BeginLink
<1>4. RequestOK(requests[r])'
  BY <1>1, <1>2 DEF RequestOK, Creating, Uploading, Arriving
<1>5. OneProjectPerForm'
  BY DEF IInv, Promises, OneProjectPerForm, Projects, BeginLink
<1>6. requests'[r].phase \notin Uploading
  BY <1>1, <1>2 DEF Uploading
<1>. QED
  BY <1>2, <1>3, <1>4, <1>5, <1>6, QuietKeeps DEF BeginLink

LEMMA BeginDiscardKeeps ==
  ASSUME IInv, NEW r \in Requests, NEW d \in Documents, BeginDiscard(r, d)
  PROVE  IInv'
<1>. DEFINE q == [Doing("detach", d, documents[d]) EXCEPT !.files = {d}]
<1>0. documents[d] \in Ids /\ Settled(d)
  BY DEF IInv, TypeOK, RowsSettled, BeginDiscard
<1>1. /\ q \in Request /\ Begin(r, q)
      /\ q.phase = "detach" /\ q.id \in Ids /\ q.about = d /\ q.files = {d}
  BY <1>0 DEF Phases, Doing, Request, BeginDiscard
<1>. HIDE DEF q
<1>2. /\ requests' \in [Requests -> Request \union {None}]
      /\ requests'[r] = q
      /\ \A s \in Requests \ {r} : requests'[s] = requests[s]
  BY <1>1, BeginType DEF IInv
<1>3. TypeOK'
  BY <1>2 DEF IInv, TypeOK, BeginDiscard
<1>4. Careful(r)
  BY <1>1, <1>2 DEF Careful, BeginDiscard, Uploading
<1>5. RequestOK(requests[r])'
  <2>1. Settled(d)' /\ d \in used'
    BY <1>0, <1>4, StaysSettled DEF Settled
  <2>. QED
    BY <1>1, <1>2, <2>1 DEF RequestOK, Creating, Uploading, Arriving
<1>6. OneProjectPerForm'
  BY DEF IInv, Promises, OneProjectPerForm, Projects, BeginDiscard
<1>7. requests'[r].phase \notin Uploading
  BY <1>1, <1>2 DEF Uploading
<1>. QED
  BY <1>2, <1>3, <1>5, <1>6, <1>7, QuietKeeps DEF BeginDiscard

-----------------------------------------------------------------------------
(* Creations. *)
LEMMA FindKeeps ==
  ASSUME IInv, NEW r \in Requests, Find(r)
  PROVE  IInv'
<1>1. OneProjectPerForm'
  BY DEF IInv, Promises, OneProjectPerForm, Projects, Find
<1>2. CASE Answer(r, "done")
  <2>1. End(r) /\ forms' \in [Forms -> {"editing", "waiting", "done"}]
    BY <1>2 DEF Answer, IInv, TypeOK
  <2>2. TypeOK'
    BY <2>1, EndType DEF IInv, TypeOK, Find
  <2>. QED
    BY <1>1, <2>1, <2>2, EndKeeps DEF Find
<1>3. CASE Continue(r, "insert") /\ UNCHANGED forms
  <2>1. "insert" \in Phases /\ requests[r] # None /\ requests[r].phase = "find"
    BY DEF Phases, Creating, Find, At
  <2>2. TypeOK'
    BY <1>3, <2>1, ContinueType DEF IInv, TypeOK, Find
  <2>. QED
    BY <1>1, <1>3, <2>1, <2>2, ContinueKeeps DEF Find, Creating, Uploading, Arriving
<1>. QED
  BY <1>2, <1>3 DEF Find

LEMMA InsertKeeps ==
  ASSUME IInv, NEW r \in Requests, Insert(r)
  PROVE  IInv'
<1>. DEFINE f == requests[r].about
<1>0. requests[r] # None /\ requests[r].phase = "insert" /\ f \in Forms
  BY DEF Insert, At, IInv, RequestsOK, RequestOK, Creating
<1>1. CASE Continue(r, "find again") /\ UNCHANGED <<rows, used>>
  <2>1. "find again" \in Phases
    BY DEF Phases, Creating
  <2>2. TypeOK'
    BY <1>0, <1>1, <2>1, ContinueType DEF IInv, TypeOK, Insert
  <2>3. OneProjectPerForm'
    BY <1>1 DEF IInv, Promises, OneProjectPerForm, Projects
  <2>. QED
    BY <1>0, <1>1, <2>1, <2>2, <2>3, ContinueKeeps DEF Insert, Creating, Uploading, Arriving
<1>2. ASSUME NEW id \in Ids \ used, ~ Duplicate(f),
             rows' = [rows EXCEPT ![id] = [form |-> f, archived |-> FALSE]],
             used' = used \union {id}, Continue(r, "log creation")
      PROVE  IInv'
  <2>1. "log creation" \in Phases
    BY DEF Phases, Creating
  <2>2. rows' \in [Ids -> Row \union {None}]
    BY <1>0, <1>2 DEF IInv, TypeOK, Row
  <2>3. TypeOK'
    BY <1>0, <1>2, <2>1, <2>2, ContinueType DEF IInv, TypeOK, Insert
  <2>4. OneProjectPerForm'
    BY <1>2 DEF IInv, TypeOK, Promises, OneProjectPerForm, Projects, Duplicate, Exists
  <2>. QED
    BY <1>0, <1>2, <2>1, <2>3, <2>4, ContinueKeeps DEF Insert, Creating, Uploading, Arriving
<1>. QED
  BY <1>1, <1>2 DEF Insert

LEMMA AnswerKeeps ==
  ASSUME IInv, NEW r \in Requests, NEW outcome \in {"editing", "done"}, Answer(r, outcome),
         UNCHANGED <<rows, documents, disk, links, used, failed, crashes>>
  PROVE  IInv'
<1>1. End(r) /\ forms' \in [Forms -> {"editing", "waiting", "done"}]
  BY DEF Answer, IInv, TypeOK
<1>2. TypeOK'
  BY <1>1, EndType DEF IInv, TypeOK
<1>3. OneProjectPerForm'
  BY DEF IInv, Promises, OneProjectPerForm, Projects
<1>. QED
  BY <1>1, <1>2, <1>3, EndKeeps

(* An ended request that changed nothing but, perhaps, rows and links. *)
LEMMA FinishKeeps ==
  ASSUME IInv, NEW r \in Requests, End(r),
         rows' \in [Ids -> Row \union {None}], links' \in [Activities -> Ids \union {None}],
         OneProjectPerForm',
         UNCHANGED <<documents, disk, forms, used, failed, crashes>>
  PROVE  IInv'
<1>1. TypeOK'
  BY EndType DEF IInv, TypeOK
<1>. QED
  BY <1>1, EndKeeps

LEMMA SameRows ==
  ASSUME IInv, UNCHANGED <<rows, links>>
  PROVE  /\ rows' \in [Ids -> Row \union {None}]
         /\ links' \in [Activities -> Ids \union {None}]
         /\ OneProjectPerForm'
  BY DEF IInv, TypeOK, Promises, OneProjectPerForm, Projects

-----------------------------------------------------------------------------
(* Edits. *)
LEMMA ArchivedStaysUnique ==
  ASSUME IInv, NEW id \in Ids, rows[id] # None, NEW archived \in BOOLEAN,
         rows' = [rows EXCEPT ![id].archived = archived]
  PROVE  rows' \in [Ids -> Row \union {None}] /\ OneProjectPerForm'
<1>1. rows[id] \in Row
  BY DEF IInv, TypeOK
<1>. DEFINE new == [rows[id] EXCEPT !.archived = archived]
<1>2. new \in Row /\ new.form = rows[id].form
  BY <1>1 DEF Row
<1>3. rows' = [rows EXCEPT ![id] = new]
  OBVIOUS
<1>. HIDE DEF Row, new
<1>4. rows' \in [Ids -> Row \union {None}]
  BY <1>2, <1>3 DEF IInv, TypeOK
<1>5. \A p \in Ids : rows'[p] # None => rows[p] # None /\ rows'[p].form = rows[p].form
  BY <1>2, <1>3 DEF IInv, TypeOK
<1>6. OneProjectPerForm'
  BY <1>5 DEF IInv, Promises, OneProjectPerForm, Projects
<1>. QED
  BY <1>4, <1>6

LEMMA UpdateKeeps ==
  ASSUME IInv, NEW r \in Requests, Update(r)
  PROVE  IInv'
<1>. DEFINE id == requests[r].id  body == requests[r].body
<1>1. requests[r] # None /\ requests[r].phase = "update" /\ id \in Ids /\ body \in Body
  BY DEF Update, At, IInv, RequestsOK, RequestOK, Creating
<1>2. rows' \in [Ids -> Row \union {None}] /\ OneProjectPerForm'
  <2>1. CASE rows[id] # None /\ body.archived # None
    <3>1. body.archived \in BOOLEAN /\ rows' = [rows EXCEPT ![id].archived = body.archived]
      BY <1>1, <2>1 DEF Body, Update
    <3>. QED
      BY <1>1, <2>1, <3>1, ArchivedStaysUnique
  <2>2. CASE ~ (rows[id] # None /\ body.archived # None)
    BY <2>2, SameRows DEF Update, IInv, TypeOK, Promises, OneProjectPerForm, Projects
  <2>. QED
    BY <2>1, <2>2
<1>3. CASE End(r)
  BY <1>2, <1>3, FinishKeeps DEF Update, IInv, TypeOK
<1>4. CASE Continue(r, "read")
  <2>1. "read" \in Phases
    BY DEF Phases
  <2>2. TypeOK'
    BY <1>1, <1>2, <1>4, <2>1, ContinueType DEF IInv, TypeOK, Update
  <2>. QED
    BY <1>1, <1>2, <1>4, <2>1, <2>2, ContinueKeeps DEF Update, Creating, Uploading, Arriving
<1>. QED
  BY <1>3, <1>4 DEF Update

(* A request of an edit that takes a row along to its next phase. *)
LEMMA CopyKeeps ==
  ASSUME IInv, NEW r \in Requests, NEW q \in Request,
         requests[r] # None, requests[r].phase \in {"read", "load"},
         requests' = [requests EXCEPT ![r] = q],
         q.phase \in {"load", "write"}, q.copy \in Row, q.id = requests[r].id,
         q.files = requests[r].files,
         UNCHANGED <<rows, documents, disk, links, forms, used, failed, crashes>>
  PROVE  IInv'
<1>1. /\ requests' \in [Requests -> Request \union {None}]
      /\ requests'[r] = q
      /\ \A s \in Requests \ {r} : requests'[s] = requests[s]
  BY DEF IInv, TypeOK
<1>2. TypeOK'
  BY <1>1 DEF IInv, TypeOK
<1>3. Careful(r)
  BY <1>1 DEF Careful, Uploading
<1>4. RequestOK(requests[r])'
  <2>1. RequestOK(requests[r])
    BY DEF IInv, RequestsOK
  <2>2. \A d \in q.files : Settled(d)'
    BY <1>3, <2>1, StaysSettled DEF RequestOK
  <2>. QED
    BY <1>1, <2>1, <2>2 DEF RequestOK, Creating, Uploading, Arriving
<1>. QED
  BY <1>1, <1>2, <1>4, SameRows, QuietKeeps DEF Uploading

LEMMA ReadRowKeeps ==
  ASSUME IInv, NEW r \in Requests, ReadRow(r)
  PROVE  IInv'
<1>. DEFINE id == requests[r].id
<1>1. /\ requests[r] # None /\ requests[r].phase = "read" /\ id \in Ids
      /\ requests[r] \in Request
  BY DEF ReadRow, At, IInv, TypeOK, RequestsOK, RequestOK, Creating
<1>2. CASE rows[id] = None
  BY <1>2, SameRows, FinishKeeps DEF ReadRow
<1>3. CASE rows[id] # None
  <2>. DEFINE q == [requests[r] EXCEPT !.copy = rows[id], !.phase = "load"]
  <2>1. rows[id] \in Row
    BY <1>1, <1>3 DEF IInv, TypeOK
  <2>2. /\ q \in Request /\ q.phase = "load" /\ q.copy = rows[id]
        /\ q.id = requests[r].id /\ q.files = requests[r].files
    BY <1>1, <2>1 DEF Request, Phases
  <2>3. requests' = [requests EXCEPT ![r] = q]
    BY <1>3 DEF ReadRow
  <2>. HIDE DEF q
  <2>. QED
    BY <1>1, <2>1, <2>2, <2>3, CopyKeeps DEF ReadRow
<1>. QED
  BY <1>2, <1>3

LEMMA LoadKeeps ==
  ASSUME IInv, NEW r \in Requests, Load(r)
  PROVE  IInv'
<1>. DEFINE id == requests[r].id
<1>1. /\ requests[r] # None /\ requests[r].phase = "load" /\ id \in Ids
      /\ requests[r].copy \in Row /\ requests[r] \in Request
  BY DEF Load, At, IInv, TypeOK, RequestsOK, RequestOK, Creating
<1>. DEFINE q == [requests[r] EXCEPT !.base = rows[id], !.phase = "write"]
<1>2. /\ q \in Request /\ q.phase = "write" /\ q.copy = requests[r].copy
      /\ q.id = requests[r].id /\ q.files = requests[r].files
  <2>1. rows[id] \in Row \union {None}
    BY <1>1 DEF IInv, TypeOK
  <2>. QED
    BY <1>1, <2>1 DEF Request, Phases
<1>3. requests' = [requests EXCEPT ![r] = q]
  BY DEF Load
<1>. HIDE DEF q
<1>. QED
  BY <1>1, <1>2, <1>3, CopyKeeps DEF Load

LEMMA WriteKeeps ==
  ASSUME IInv, NEW r \in Requests, Write(r)
  PROVE  IInv'
<1>. DEFINE id == requests[r].id  copy == requests[r].copy  base == requests[r].base
<1>1. requests[r] # None /\ requests[r].phase = "write" /\ id \in Ids /\ copy \in Row
  BY DEF Write, At, IInv, RequestsOK, RequestOK, Creating
<1>2. base \in Row \union {None}
  BY <1>1 DEF IInv, TypeOK, Request
<1>3. rows' = [rows EXCEPT ![id] = Saved(rows[id], copy, base)]
  BY DEF Write
<1>4. rows' \in [Ids -> Row \union {None}] /\ OneProjectPerForm'
  <2>1. CASE base = None /\ rows[id] = None
    <3>1. rows' = [rows EXCEPT ![id] = IF Duplicate(copy.form) THEN None ELSE copy]
      BY <1>3, <2>1 DEF Saved
    <3>. QED
      BY <1>1, <3>1 DEF IInv, TypeOK, Promises, OneProjectPerForm, Projects, Duplicate, Exists
  <2>2. CASE base # None /\ rows[id] # None
    <3>. DEFINE archived == IF copy.archived = base.archived THEN rows[id].archived ELSE copy.archived
    <3>1. archived \in BOOLEAN
      BY <1>1, <2>2 DEF IInv, TypeOK, Row
    <3>2. rows' = [rows EXCEPT ![id].archived = archived]
      BY <1>3, <2>2 DEF Saved
    <3>. HIDE DEF archived
    <3>. QED
      BY <1>1, <2>2, <3>1, <3>2, ArchivedStaysUnique
  <2>3. CASE ~ (base = None /\ rows[id] = None) /\ ~ (base # None /\ rows[id] # None)
    <3>1. rows' = [rows EXCEPT ![id] = rows[id]]
      BY <1>3, <2>3 DEF Saved
    <3>. QED
      BY <1>1, <3>1 DEF IInv, TypeOK, Promises, OneProjectPerForm, Projects
  <2>. QED
    BY <2>1, <2>2, <2>3
<1>. QED
  BY <1>4, FinishKeeps DEF Write, IInv, TypeOK

-----------------------------------------------------------------------------
(* Removals. *)
LEMMA CountKeeps ==
  ASSUME IInv, NEW r \in Requests, Count(r)
  PROVE  IInv'
<1>1. requests[r] # None /\ requests[r].phase = "count"
  BY DEF Count, At
<1>2. CASE End(r)
  BY <1>2, SameRows, FinishKeeps DEF Count
<1>3. CASE Continue(r, "delete")
  <2>1. "delete" \in Phases
    BY DEF Phases
  <2>2. TypeOK'
    BY <1>1, <1>3, <2>1, ContinueType DEF IInv, TypeOK, Count
  <2>. QED
    BY <1>1, <1>3, <2>1, <2>2, SameRows, ContinueKeeps DEF Count, Creating, Uploading, Arriving
<1>. QED
  BY <1>2, <1>3 DEF Count

LEMMA DeleteKeeps ==
  ASSUME IInv, NEW r \in Requests, Delete(r)
  PROVE  IInv'
<1>. DEFINE q == requests[r]  id == q.id
<1>1. /\ q # None /\ q.phase = "delete" /\ id \in Ids /\ q \in Request /\ RequestOK(q)
      /\ \A d \in q.files : documents[d] \in {id, None}
  BY DEF Delete, At, IInv, TypeOK, RequestsOK, RequestOK, Creating
<1>2. CASE End(r) /\ UNCHANGED <<rows, documents, links>>
  BY <1>2, SameRows, FinishKeeps DEF Delete
<1>3. ASSUME rows' = [rows EXCEPT ![id] = None],
             documents' = [d \in Documents |-> IF documents[d] = id THEN None ELSE documents[d]],
             links' = [a \in Activities |-> IF links[a] = id THEN None ELSE links[a]],
             Continue(r, "log removal")
      PROVE  IInv'
  <2>1. "log removal" \in Phases
    BY DEF Phases
  <2>2. /\ requests' \in [Requests -> Request \union {None}]
        /\ requests'[r] = [q EXCEPT !.phase = "log removal"]
        /\ \A s \in Requests \ {r} : requests'[s] = requests[s]
    BY <1>1, <1>3, <2>1, ContinueType DEF IInv
  <2>3. /\ requests'[r].phase = "log removal" /\ requests'[r].id = id
        /\ requests'[r].files = q.files
    BY <1>1, <2>2 DEF Request
  <2>4. TypeOK'
    <3>1. /\ rows' \in [Ids -> Row \union {None}]
          /\ documents' \in [Documents -> Ids \union {None}]
          /\ links' \in [Activities -> Ids \union {None}]
      BY <1>3 DEF IInv, TypeOK
    <3>. QED
      BY <2>2, <3>1 DEF IInv, TypeOK, Delete
  <2>5. Careful(r)
    BY <1>3, <2>2, <2>3 DEF Careful, Delete, Uploading
  <2>6. RequestOK(requests[r])'
    <3>1. \A d \in q.files : Settled(d)' /\ d \in Documents
      BY <1>1, <2>5, StaysSettled DEF RequestOK, Request
    <3>2. \A d \in q.files : documents'[d] = None
      BY <1>1, <1>3, <3>1
    <3>. QED
      BY <1>1, <2>3, <3>1, <3>2 DEF RequestOK, Creating, Uploading, Arriving
  <2>7. Promises'
    BY <1>3 DEF IInv, TypeOK, Promises, OneProjectPerForm, Projects, DocumentsHaveFiles, Delete
  <2>8. \A d \in Documents : documents'[d] # None /\ documents[d] = None => Settled(d)'
    BY <1>3
  <2>. QED
    BY <2>4, <2>5, <2>6, <2>7, <2>8, CarefulKeeps
<1>. QED
  BY <1>2, <1>3 DEF Delete

LEMMA LogRemovalKeeps ==
  ASSUME IInv, NEW r \in Requests, LogRemoval(r)
  PROVE  IInv'
<1>1. requests[r] # None /\ requests[r].phase = "log removal" /\ "unlink" \in Phases
  BY DEF LogRemoval, At, Phases
<1>2. TypeOK'
  BY <1>1, ContinueType DEF IInv, TypeOK, LogRemoval
<1>. QED
  BY <1>1, <1>2, SameRows, ContinueKeeps DEF LogRemoval, Creating, Uploading, Arriving

(* A request that ends with files taken away that no listed document needs. *)
LEMMA ClearKeeps ==
  ASSUME IInv, NEW r \in Requests, End(r), disk' \subseteq disk, failed \subseteq failed',
         failed' \subseteq Documents, forms' = forms,
         \A d \in disk \ disk' :
           \/ Settled(d)
           \/ requests[r] # None /\ requests[r].phase \in Uploading /\ requests[r].about = d,
         \A d \in disk \ disk' : documents[d] = None \/ d \in failed',
         UNCHANGED <<rows, documents, links, used, crashes>>
  PROVE  IInv'
<1>1. /\ requests' \in [Requests -> Request \union {None}]
      /\ requests'[r] = None
      /\ \A s \in Requests \ {r} : requests'[s] = requests[s]
  BY EndType DEF IInv
<1>2. TypeOK'
  BY <1>1 DEF IInv, TypeOK
<1>3. Careful(r)
  BY <1>1 DEF Careful
<1>4. Promises'
  BY DEF IInv, TypeOK, Promises, OneProjectPerForm, Projects, DocumentsHaveFiles
<1>. QED
  BY <1>1, <1>2, <1>3, <1>4, CarefulKeeps

LEMMA UnlinkKeeps ==
  ASSUME IInv, NEW r \in Requests, Unlink(r)
  PROVE  IInv'
<1>1. requests[r] # None /\ requests[r].phase = "unlink" /\ RequestOK(requests[r])
  BY DEF Unlink, At, IInv, RequestsOK
<1>2. \A d \in requests[r].files : Settled(d) /\ documents[d] = None
  BY <1>1 DEF RequestOK
<1>3. failed \subseteq Documents
  BY DEF IInv, TypeOK
<1>. QED
  BY <1>2, <1>3, ClearKeeps DEF Unlink

-----------------------------------------------------------------------------
(* Documents. *)
LEMMA RefuseKeeps ==
  ASSUME IInv, NEW r \in Requests, requests[r] # None, requests[r].phase \in Uploading,
         Refuse(r), failed' = failed \union {d \in {requests[r].about} : documents[d] # None},
         UNCHANGED <<rows, documents, links, forms, used, crashes>>
  PROVE  IInv'
<1>1. requests[r].about \in Documents
  BY DEF IInv, RequestsOK, RequestOK
<1>2. failed' \subseteq Documents
  BY <1>1 DEF IInv, TypeOK
<1>. QED
  BY <1>2, ClearKeeps DEF Refuse

(* A document whose upload has not reached its row has none. *)
LEMMA ArrivingHasNoRow ==
  ASSUME IInv, NEW r \in Requests, requests[r] # None, requests[r].phase \in Arriving
  PROVE  requests[r].about \in Documents /\ documents[requests[r].about] = None
<1>1. requests[r].about \in Documents
  BY DEF IInv, RequestsOK, RequestOK, Arriving, Uploading
<1>. QED
  BY <1>1 DEF IInv, RowsSettled, Settled

LEMMA FindProjectKeeps ==
  ASSUME IInv, NEW r \in Requests, FindProject(r)
  PROVE  IInv'
<1>1. requests[r] # None /\ requests[r].phase = "find project" /\ "attach" \in Phases
  BY DEF FindProject, At, Phases, Uploading
<1>2. CASE Continue(r, "attach") /\ UNCHANGED disk
  <2>1. TypeOK'
    BY <1>1, <1>2, ContinueType DEF IInv, TypeOK, FindProject
  <2>. QED
    BY <1>1, <1>2, <2>1, SameRows, ContinueKeeps DEF FindProject, Creating, Uploading, Arriving
<1>3. CASE Refuse(r)
  <2>1. documents[requests[r].about] = None
    BY <1>1, ArrivingHasNoRow DEF Arriving
  <2>2. failed' = failed \union {d \in {requests[r].about} : documents[d] # None}
    BY <2>1 DEF FindProject
  <2>. QED
    BY <1>1, <1>3, <2>2, RefuseKeeps DEF FindProject, Uploading
<1>. QED
  BY <1>2, <1>3 DEF FindProject

LEMMA AttachKeeps ==
  ASSUME IInv, NEW r \in Requests, Attach(r)
  PROVE  IInv'
<1>. DEFINE q == requests[r]  id == q.id
<1>1. /\ q # None /\ q.phase = "attach" /\ id \in Ids /\ q \in Request /\ RequestOK(q)
      /\ "log upload" \in Phases
  BY DEF Attach, At, IInv, TypeOK, RequestsOK, RequestOK, Creating, Phases, Uploading
<1>2. PICK d \in Documents : d = q.about /\ d \in used /\ d \in disk /\ documents[d] = None
  BY <1>1, ArrivingHasNoRow DEF RequestOK, Arriving, Uploading
<1>3. ASSUME documents' = [documents EXCEPT ![d] = id], Continue(r, "log upload"), UNCHANGED disk
      PROVE  IInv'
  <2>2. /\ requests' \in [Requests -> Request \union {None}]
        /\ requests'[r] = [q EXCEPT !.phase = "log upload"]
        /\ \A s \in Requests \ {r} : requests'[s] = requests[s]
    BY <1>1, <1>3, ContinueType DEF IInv
  <2>3. /\ requests'[r].phase = "log upload" /\ requests'[r].id = id
        /\ requests'[r].about = d /\ requests'[r].files = q.files
    BY <1>1, <1>2, <2>2 DEF Request
  <2>4. TypeOK'
    <3>1. documents' \in [Documents -> Ids \union {None}]
      BY <1>1, <1>3 DEF IInv, TypeOK
    <3>. QED
      BY <1>3, <2>2, <3>1 DEF IInv, TypeOK, Attach
  <2>5. Careful(r)
    <3>1. \A e \in Documents : documents'[e] # documents[e] => e = d
      BY <1>3 DEF IInv, TypeOK
    <3>2. disk' = disk /\ used' = used
      BY <1>3 DEF Attach
    <3>. QED
      BY <1>1, <1>2, <2>2, <2>3, <3>1, <3>2 DEF Careful, Uploading, Arriving
  <2>6. RequestOK(requests[r])'
    <3>1. \A e \in q.files : Settled(e)'
      BY <1>1, <2>5, StaysSettled DEF RequestOK
    <3>2. used' = used
      BY DEF Attach
    <3>. QED
      BY <1>1, <1>2, <2>3, <3>1, <3>2 DEF RequestOK, Creating, Uploading, Arriving
  <2>7. Promises'
    BY <1>2, <1>3 DEF IInv, TypeOK, Promises, OneProjectPerForm, Projects, DocumentsHaveFiles, Attach
  <2>8. Settled(d)'
    <3>1. \A s \in Requests \ {r} :
            requests'[s] # None /\ requests'[s].phase \in Arriving => requests'[s].about # d
      <4>. SUFFICES ASSUME NEW s \in Requests \ {r}, requests[s] # None,
                           requests[s].phase \in Uploading, requests[s].about = d
                    PROVE  FALSE
        BY <2>2 DEF Arriving, Uploading
      <4>1. q.phase \in Uploading
        BY <1>1 DEF Uploading
      <4>. QED
        BY <1>1, <1>2, <4>1 DEF IInv, OneUpload
    <3>. QED
      BY <1>2, <2>3, <3>1 DEF Settled, Arriving, Attach
  <2>9. \A e \in Documents : documents'[e] # None /\ documents[e] = None => Settled(e)'
    BY <1>3, <2>8 DEF IInv, TypeOK
  <2>. QED
    BY <2>4, <2>5, <2>6, <2>7, <2>9, CarefulKeeps
<1>4. CASE Refuse(r) /\ UNCHANGED documents
  <2>1. failed' = failed \union {e \in {q.about} : documents[e] # None}
    BY <1>2 DEF Attach
  <2>. QED
    BY <1>1, <1>4, <2>1, RefuseKeeps DEF Attach, Uploading
<1>. QED
  BY <1>2, <1>3, <1>4 DEF Attach

LEMMA DetachKeeps ==
  ASSUME IInv, NEW r \in Requests, Detach(r)
  PROVE  IInv'
<1>. DEFINE q == requests[r]
<1>1. /\ q # None /\ q.phase = "detach" /\ q \in Request /\ RequestOK(q) /\ "unlink" \in Phases
  BY DEF Detach, At, IInv, TypeOK, RequestsOK, Phases
<1>2. PICK d \in Documents : d = q.about /\ q.files = {d}
  BY <1>1 DEF RequestOK
<1>3. documents' = [documents EXCEPT ![d] = None]
  BY <1>2 DEF Detach
<1>4. /\ requests' \in [Requests -> Request \union {None}]
      /\ requests'[r] = [q EXCEPT !.phase = "unlink"]
      /\ \A s \in Requests \ {r} : requests'[s] = requests[s]
  BY <1>1, ContinueType DEF IInv, Detach
<1>5. requests'[r].phase = "unlink" /\ requests'[r].id = q.id /\ requests'[r].files = q.files
  BY <1>1, <1>4 DEF Request
<1>6. TypeOK'
  <2>1. documents' \in [Documents -> Ids \union {None}]
    BY <1>3 DEF IInv, TypeOK
  <2>. QED
    BY <1>4, <2>1 DEF IInv, TypeOK, Detach
<1>7. Careful(r)
  BY <1>3, <1>4, <1>5 DEF Careful, Detach, Uploading, IInv, TypeOK
<1>8. RequestOK(requests[r])'
  <2>1. \A e \in q.files : Settled(e)'
    BY <1>1, <1>7, StaysSettled DEF RequestOK
  <2>2. documents'[d] = None
    BY <1>3 DEF IInv, TypeOK
  <2>. QED
    BY <1>1, <1>2, <1>5, <2>1, <2>2 DEF RequestOK, Creating, Uploading, Arriving
<1>9. Promises'
  BY <1>3 DEF IInv, TypeOK, Promises, OneProjectPerForm, Projects, DocumentsHaveFiles, Detach
<1>10. \A e \in Documents : documents'[e] # None /\ documents[e] = None => Settled(e)'
  BY <1>3 DEF IInv, TypeOK
<1>. QED
  BY <1>6, <1>7, <1>8, <1>9, <1>10, CarefulKeeps

LEMMA LinkKeeps ==
  ASSUME IInv, NEW r \in Requests, Link(r)
  PROVE  IInv'
<1>1. requests[r] # None /\ requests[r].phase = "link" /\ RequestOK(requests[r])
  BY DEF Link, At, IInv, RequestsOK
<1>2. requests[r].id \in Ids
  BY <1>1 DEF RequestOK, Creating
<1>3. links' \in [Activities -> Ids \union {None}]
  BY <1>2 DEF IInv, TypeOK, Link
<1>4. rows' \in [Ids -> Row \union {None}] /\ OneProjectPerForm'
  BY DEF IInv, TypeOK, Promises, OneProjectPerForm, Projects, Link
<1>. QED
  BY <1>3, <1>4, FinishKeeps DEF Link

LEMMA FailKeeps ==
  ASSUME IInv, NEW r \in Requests, Fail(r)
  PROVE  IInv'
<1>1. CASE Answer(r, "editing") /\ UNCHANGED <<disk, failed>>
  BY <1>1, AnswerKeeps DEF Fail
<1>2. ASSUME requests[r].phase \in Uploading, Refuse(r),
             failed' = failed \union {d \in {requests[r].about} : documents[d] # None},
             UNCHANGED forms
      PROVE  IInv'
  BY <1>2, RefuseKeeps DEF Fail
<1>3. CASE End(r) /\ UNCHANGED <<disk, forms, failed>>
  BY <1>3, SameRows, FinishKeeps DEF Fail
<1>. QED
  BY <1>1, <1>2, <1>3 DEF Fail

-----------------------------------------------------------------------------
(* Steps of no request. *)
LEMMA AsideKeeps ==
  ASSUME IInv, rows' \in [Ids -> Row \union {None}], links' \in [Activities -> Ids \union {None}],
         OneProjectPerForm', UNCHANGED <<documents, disk, requests, forms, used, failed, crashes>>
  PROVE  IInv'
<1>1. TypeOK'
  BY DEF IInv, TypeOK
<1>2. Promises'
  BY DEF IInv, Promises, DocumentsHaveFiles
<1>3. (\A d : Settled(d)' <=> Settled(d)) /\ OneUpload'
  BY DEF IInv, OneUpload, Settled, Arriving, Uploading
<1>4. RequestsOK'
  <2>. SUFFICES ASSUME NEW s \in Requests, requests[s] # None
                PROVE  RequestOK(requests[s])'
    BY DEF RequestsOK
  <2>1. RequestOK(requests[s])
    BY DEF IInv, RequestsOK
  <2>. QED
    BY <1>3, <2>1 DEF RequestOK, Creating, Uploading, Arriving
<1>5. RowsSettled'
  BY <1>3 DEF IInv, RowsSettled
<1>. QED
  BY <1>1, <1>2, <1>3, <1>4, <1>5 DEF IInv

LEMMA SetArchivedKeeps ==
  ASSUME IInv, NEW id \in Ids, NEW archived \in BOOLEAN, SetArchived(id, archived)
  PROVE  IInv'
<1>1. rows' \in [Ids -> Row \union {None}] /\ OneProjectPerForm'
  BY ArchivedStaysUnique DEF SetArchived
<1>. QED
  BY <1>1, AsideKeeps DEF SetArchived, IInv, TypeOK

LEMMA DropLinkKeeps ==
  ASSUME IInv, NEW a \in Activities, DropLink(a)
  PROVE  IInv'
<1>1. rows' \in [Ids -> Row \union {None}] /\ OneProjectPerForm'
  BY DEF IInv, TypeOK, Promises, OneProjectPerForm, Projects, DropLink
<1>2. links' \in [Activities -> Ids \union {None}]
  BY DEF IInv, TypeOK, DropLink
<1>. QED
  BY <1>1, <1>2, AsideKeeps DEF DropLink

LEMMA CrashKeeps ==
  ASSUME IInv, Crash
  PROVE  IInv'
<1>1. TypeOK'
  BY DEF IInv, TypeOK, Crash
<1>2. \A s \in Requests : requests'[s] = None
  BY DEF Crash
<1>3. RequestsOK' /\ OneUpload'
  BY <1>2 DEF RequestsOK, OneUpload
<1>4. RowsSettled'
  BY <1>2 DEF IInv, RowsSettled, Settled, Crash
<1>5. Promises'
  BY DEF IInv, Promises, OneProjectPerForm, DocumentsHaveFiles, Projects, Crash
<1>. QED
  BY <1>1, <1>3, <1>4, <1>5 DEF IInv

-----------------------------------------------------------------------------
LEMMA StepKeeps ==
  ASSUME IInv, NEW r \in Requests, Step(r)
  PROVE  IInv'
<1>1. CASE Find(r) \/ Insert(r)
  BY <1>1, FindKeeps, InsertKeeps
<1>2. CASE FindAgain(r) \/ LogCreation(r)
  BY <1>2, AnswerKeeps DEF FindAgain, LogCreation
<1>3. CASE Update(r) \/ ReadRow(r) \/ Load(r) \/ Write(r)
  BY <1>3, UpdateKeeps, ReadRowKeeps, LoadKeeps, WriteKeeps
<1>4. CASE Count(r) \/ Delete(r) \/ LogRemoval(r) \/ Unlink(r)
  BY <1>4, CountKeeps, DeleteKeeps, LogRemovalKeeps, UnlinkKeeps
<1>5. CASE FindProject(r) \/ Attach(r) \/ Detach(r)
  BY <1>5, FindProjectKeeps, AttachKeeps, DetachKeeps
<1>6. CASE LogUpload(r)
  BY <1>6, SameRows, FinishKeeps DEF LogUpload
<1>7. CASE Link(r) \/ Fail(r)
  BY <1>7, LinkKeeps, FailKeeps
<1>. QED
  BY <1>1, <1>2, <1>3, <1>4, <1>5, <1>6, <1>7 DEF Step

LEMMA PeopleKeep ==
  ASSUME IInv, NEW r \in Requests, People(r)
  PROVE  IInv'
<1>1. CASE \E f \in Forms : Submit(r, f)
  BY <1>1, SubmitKeeps
<1>2. CASE LoseAnswer(r)
  BY <1>2, LoseAnswerKeeps
<1>3. ASSUME NEW id \in Ids,
             \/ \E body \in Body : BeginEdit(r, id, body)
             \/ BeginRemove(r, id)
             \/ \E d \in Documents : BeginUpload(r, d, id)
             \/ \E a \in Activities : BeginLink(r, a, id)
      PROVE  IInv'
  BY <1>3, BeginEditKeeps, BeginRemoveKeeps, BeginUploadKeeps, BeginLinkKeeps
<1>4. CASE \E d \in Documents : BeginDiscard(r, d)
  BY <1>4, BeginDiscardKeeps
<1>. QED
  BY <1>1, <1>2, <1>3, <1>4 DEF People

(* Whatever requests overlap, fail or are cut off, the types hold, a form    *)
(* has one project, and what each request remembers of the documents it      *)
(* will touch is still true when it touches them.                            *)
THEOREM Invariance == Spec => []IInv
<1>1. IInv /\ [Next]_vars => IInv'
  <2>. SUFFICES ASSUME IInv, [Next]_vars PROVE IInv'
    OBVIOUS
  <2>1. CASE \E r \in Requests : People(r) \/ Step(r)
    BY <2>1, PeopleKeep, StepKeeps
  <2>2. CASE \E id \in Ids, archived \in BOOLEAN : SetArchived(id, archived)
    BY <2>2, SetArchivedKeeps
  <2>3. CASE \E a \in Activities : DropLink(a)
    BY <2>3, DropLinkKeeps
  <2>4. CASE Crash
    BY <2>4, CrashKeeps
  <2>5. CASE UNCHANGED vars
    BY <2>5, SameRows, AsideKeeps DEF vars
  <2>. QED
    BY <2>1, <2>2, <2>3, <2>4, <2>5 DEF Next
<1>. QED
  BY <1>1, InitIInv, PTL DEF Spec

(* Rows, documents, links, requests and forms keep their types. *)
THEOREM TypeCorrect == Spec => []TypeOK
<1>1. IInv => TypeOK
  BY DEF IInv
<1>. QED
  BY <1>1, Invariance, PTL

(* A form that is sent again makes no second project, however its attempts   *)
(* overlap and whichever of them fail or are cut off by a crash.             *)
THEOREM FormsMakeOneProject == Spec => []OneProjectPerForm
<1>1. IInv => OneProjectPerForm
  BY DEF IInv, Promises
<1>. QED
  BY <1>1, Invariance, PTL

(* A listed document has its file, unless its upload answered with an error: *)
(* what uploads, removals of documents and of projects take away on the      *)
(* strength of what they read belongs to no row by then.                     *)
THEOREM DocumentsKeepFiles == Spec => []DocumentsHaveFiles
<1>1. IInv => DocumentsHaveFiles
  BY DEF IInv, Promises
<1>. QED
  BY <1>1, Invariance, PTL

(* With the foreign key the entity declares, only an edit of an activity     *)
(* changes its project; a removal that counted none takes no link away.      *)
THEOREM LinksStay ==
  ASSUME OnDelete = "refuse"
  PROVE  Spec => LinksKept
<1>1. IInv /\ [Next]_vars
        => [\A a \in Activities : links[a] # None /\ links'[a] # links[a] => Edited(a)]_vars
  <2>. SUFFICES ASSUME IInv, Next, NEW a \in Activities, links[a] # None, links'[a] # links[a]
                PROVE  Edited(a)
    OBVIOUS
  <2>1. CASE \E r \in Requests : Link(r)
    BY <2>1 DEF Edited, Link, IInv, TypeOK
  <2>2. CASE \E b \in Activities : DropLink(b)
    BY <2>2 DEF Edited, DropLink, IInv, TypeOK
  <2>3. CASE \E r \in Requests : Delete(r)
    BY <2>3 DEF Delete, Protected, Linked
  <2>. QED
    BY <2>1, <2>2, <2>3 DEF Next, People, Step, Submit, LoseAnswer, BeginEdit, BeginRemove,
       BeginUpload, BeginLink, BeginDiscard, Find, Insert, FindAgain, LogCreation, Update,
       ReadRow, Load, Write, Count, LogRemoval, Unlink, FindProject, Attach, LogUpload,
       Detach, Fail, SetArchived, Crash
<1>. QED
  BY <1>1, Invariance, PTL DEF Spec, LinksKept
=============================================================================
