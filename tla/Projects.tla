------------------------------ MODULE Projects ------------------------------
(***************************************************************************)
(* The projects of one organisation, their documents and the activities    *)
(* linked to them: ProjectsService, its controller and the form that       *)
(* creates projects.                                                       *)
(*                                                                         *)
(* Nothing here runs in a transaction.  Every request is a sequence of     *)
(* statements; other requests come between any two of them.  A row in      *)
(* project_documents and its file are two things kept in step by hand, and *)
(* a link from an activity is guarded by a count in remove() and by the    *)
(* foreign key.                                                            *)
(***************************************************************************)
EXTENDS Naturals

CONSTANTS
  Ids,         \* project ids, each generated once
  Forms,       \* creation forms; each has one client request id
  Documents,   \* names of stored documents, each made up once
  Activities,  \* activities that may be linked to a project
  Requests,    \* requests handled at the same time
  OnDelete,    \* activities.projectId when its project is deleted
  MaxCrashes,  \* bound: the process dies so many times
  None

ASSUME ProjectConstants ==
  /\ OnDelete \in {"refuse", "clear"}
  /\ MaxCrashes \in Nat
  /\ None \notin Ids \union Forms \union Documents \union Activities

VARIABLES
  rows,       \* rows[id]: the stored project, or None
  documents,  \* documents[d]: the project whose row document d belongs to, or None
  disk,       \* the document files in the upload directory
  links,      \* links[a]: the project activity a is linked to, or None
  requests,   \* requests[r]: what request r is doing, or None
  forms,      \* forms[f]: is the form being edited, waiting for its answer, or done
  used,       \* ids and names of documents generated so far
  failed,     \* history: documents stored by an upload that answered with an error
  crashes

vars == <<rows, documents, disk, links, requests, forms, used, failed, crashes>>

(* Of a project's columns: the form that created it, and archived. *)
Row == [form : Forms, archived : BOOLEAN]

(* A PATCH: archived, which the form sends as it was when it was opened, and *)
(* whether a category is among the fields.                                   *)
Body == [archived : BOOLEAN \union {None}, category : BOOLEAN]

Creating  == {"find", "insert", "find again", "log creation"}
Uploading == {"find project", "attach", "log upload"}
Phases    == Creating \union Uploading \union
             {"update", "read", "load", "write", "count", "delete", "log removal", "unlink",
              "detach", "link"}

Request ==
  [phase : Phases,
   about : Ids \union Forms \union Documents \union Activities,
   id    : Ids \union {None},
   body  : Body \union {None},
   copy  : Row \union {None},
   base  : Row \union {None},
   files : SUBSET Documents,
   heard : BOOLEAN]

Init ==
  /\ rows      = [id \in Ids |-> None]
  /\ documents = [d \in Documents |-> None]
  /\ disk      = {}
  /\ links     = [a \in Activities |-> None]
  /\ requests  = [r \in Requests |-> None]
  /\ forms     = [f \in Forms |-> "editing"]
  /\ used      = {}
  /\ failed    = {}
  /\ crashes   = 0

Projects == {id \in Ids : rows[id] # None}
DocumentsOf(id) == {d \in Documents : documents[d] = id}
Linked(id) == \E a \in Activities : links[a] = id

At(r, phase) == requests[r] # None /\ requests[r].phase = phase

Doing(phase, about, id) ==
  [phase |-> phase, about |-> about, id |-> id, body |-> None, copy |-> None,
   base |-> None, files |-> {}, heard |-> TRUE]

Begin(r, request) ==
  /\ requests[r] = None
  /\ requests' = [requests EXCEPT ![r] = request]

Continue(r, phase) == requests' = [requests EXCEPT ![r].phase = phase]
End(r) == requests' = [requests EXCEPT ![r] = None]

-----------------------------------------------------------------------------
(* Creation: create(), once per client request id. *)

Submit(r, f) ==
  /\ forms[f] = "editing"
  /\ Begin(r, Doing("find", f, None))
  /\ forms' = [forms EXCEPT ![f] = "waiting"]
  /\ UNCHANGED <<rows, documents, disk, links, used, failed, crashes>>

(* The connection breaks or is given up: the form shows an error and may be *)
(* sent again, while the request goes on.                                   *)
LoseAnswer(r) ==
  /\ requests[r] # None
  /\ requests[r].phase \in Creating
  /\ requests[r].heard
  /\ requests' = [requests EXCEPT ![r].heard = FALSE]
  /\ forms' = [forms EXCEPT ![requests[r].about] = "editing"]
  /\ UNCHANGED <<rows, documents, disk, links, used, failed, crashes>>

Answer(r, outcome) ==
  /\ End(r)
  /\ forms' = IF requests[r].heard
              THEN [forms EXCEPT ![requests[r].about] = outcome] ELSE forms

Exists(f) == \E id \in Projects : rows[id].form = f

Find(r) ==
  /\ At(r, "find")
  /\ IF Exists(requests[r].about)
     THEN Answer(r, "done")
     ELSE Continue(r, "insert") /\ UNCHANGED forms
  /\ UNCHANGED <<rows, documents, disk, links, used, failed, crashes>>

NotIndexed(f) == FALSE  \* broken variant: no unique index
Duplicate(f)  == Exists(f)

Insert(r) ==
  LET f == requests[r].about IN
    /\ At(r, "insert")
    /\ \/ /\ Duplicate(f)
          /\ Continue(r, "find again")
          /\ UNCHANGED <<rows, used>>
       \/ /\ ~ Duplicate(f)
          /\ \E id \in Ids \ used :
               /\ rows' = [rows EXCEPT ![id] = [form |-> f, archived |-> FALSE]]
               /\ used' = used \union {id}
          /\ Continue(r, "log creation")
    /\ UNCHANGED <<documents, disk, links, forms, failed, crashes>>

FindAgain(r) ==
  /\ At(r, "find again")
  /\ Answer(r, IF Exists(requests[r].about) THEN "done" ELSE "editing")
  /\ UNCHANGED <<rows, documents, disk, links, used, failed, crashes>>

LogCreation(r) ==
  /\ At(r, "log creation")
  /\ Answer(r, "done")
  /\ UNCHANGED <<rows, documents, disk, links, used, failed, crashes>>

-----------------------------------------------------------------------------
(* Editing: update().  With a category among the fields it reads the row    *)
(* again, looks the category up, and saves the whole copy.                  *)

BeginEdit(r, id, body) ==
  /\ rows[id] # None
  /\ Begin(r, [Doing("update", id, id) EXCEPT !.body = body])
  /\ UNCHANGED <<rows, documents, disk, links, forms, used, failed, crashes>>

Update(r) ==
  LET id == requests[r].id  body == requests[r].body IN
    /\ At(r, "update")
    /\ rows' = IF rows[id] # None /\ body.archived # None
               THEN [rows EXCEPT ![id].archived = body.archived] ELSE rows
    /\ IF body.category THEN Continue(r, "read") ELSE End(r)
    /\ UNCHANGED <<documents, disk, links, forms, used, failed, crashes>>

ReadRow(r) ==
  LET id == requests[r].id IN
    /\ At(r, "read")
    /\ IF rows[id] = None
       THEN End(r)
       ELSE requests' = [requests EXCEPT ![r].copy = rows[id], ![r].phase = "load"]
    /\ UNCHANGED <<rows, documents, disk, links, forms, used, failed, crashes>>

(* save() reads the row once more and writes the columns in which the copy *)
(* differs from it; it inserts the copy when there is no row.              *)
Load(r) ==
  /\ At(r, "load")
  /\ requests' = [requests EXCEPT ![r].base = rows[requests[r].id], ![r].phase = "write"]
  /\ UNCHANGED <<rows, documents, disk, links, forms, used, failed, crashes>>

Saved(row, copy, base) ==
  CASE base = None /\ row = None  -> IF Duplicate(copy.form) THEN None ELSE copy
    [] base # None /\ row # None  -> [row EXCEPT !.archived =
                                        IF copy.archived = base.archived THEN @ ELSE copy.archived]
    [] OTHER                      -> row

Write(r) ==
  LET id == requests[r].id IN
    /\ At(r, "write")
    /\ rows' = [rows EXCEPT ![id] = Saved(@, requests[r].copy, requests[r].base)]
    /\ End(r)
    /\ UNCHANGED <<documents, disk, links, forms, used, failed, crashes>>

(* archiveScoped(): one statement, which does nothing to a missing row. *)
SetArchived(id, archived) ==
  /\ rows[id] # None
  /\ rows' = [rows EXCEPT ![id].archived = archived]
  /\ UNCHANGED <<documents, disk, links, requests, forms, used, failed, crashes>>

-----------------------------------------------------------------------------
(* Removal of an archived project without activities: remove(). *)

FilesFirst(r, id) ==  \* broken variant: the files go before the checks are over
  /\ rows[id] # None
  /\ rows[id].archived
  /\ Begin(r, Doing("count", id, id))
  /\ disk' = disk \ DocumentsOf(id)
  /\ UNCHANGED <<rows, documents, links, forms, used, failed, crashes>>

BeginRemove(r, id) ==
  /\ rows[id] # None
  /\ rows[id].archived
  /\ Begin(r, [Doing("count", id, id) EXCEPT !.files = DocumentsOf(id)])
  /\ UNCHANGED <<rows, documents, disk, links, forms, used, failed, crashes>>

Count(r) ==
  /\ At(r, "count")
  /\ IF Linked(requests[r].id) THEN End(r) ELSE Continue(r, "delete")
  /\ UNCHANGED <<rows, documents, disk, links, forms, used, failed, crashes>>

(* The foreign key of the activities.  That of the documents cascades. *)
Cleared(id)   == FALSE  \* broken variant: the key clears the links instead
Protected(id) == OnDelete = "refuse" /\ Linked(id)

Delete(r) ==
  LET id == requests[r].id IN
    /\ At(r, "delete")
    /\ \/ /\ Protected(id)
          /\ End(r)
          /\ UNCHANGED <<rows, documents, links>>
       \/ /\ ~ Protected(id)
          /\ rows'      = [rows EXCEPT ![id] = None]
          /\ documents' = [d \in Documents |-> IF documents[d] = id THEN None ELSE documents[d]]
          /\ links'     = [a \in Activities |-> IF links[a] = id THEN None ELSE links[a]]
          /\ Continue(r, "log removal")
    /\ UNCHANGED <<disk, forms, used, failed, crashes>>

LogRemoval(r) ==
  /\ At(r, "log removal")
  /\ Continue(r, "unlink")
  /\ UNCHANGED <<rows, documents, disk, links, forms, used, failed, crashes>>

Unlink(r) ==
  /\ At(r, "unlink")
  /\ disk' = disk \ requests[r].files
  /\ End(r)
  /\ UNCHANGED <<rows, documents, links, forms, used, failed, crashes>>

-----------------------------------------------------------------------------
(* Documents: uploadDocument() writes the file before addDocument() saves   *)
(* the row, and removes it again when that throws.                          *)

BeginUpload(r, d, id) ==
  /\ d \notin used
  /\ Begin(r, Doing("find project", d, id))
  /\ disk' = disk \union {d}
  /\ used' = used \union {d}
  /\ UNCHANGED <<rows, documents, links, forms, failed, crashes>>

Refuse(r) ==
  /\ disk' = disk \ {requests[r].about}
  /\ End(r)

FindProject(r) ==
  /\ At(r, "find project")
  /\ IF rows[requests[r].id] # None
     THEN Continue(r, "attach") /\ UNCHANGED disk
     ELSE Refuse(r)
  /\ UNCHANGED <<rows, documents, links, forms, used, failed, crashes>>

Attach(r) ==
  LET d == requests[r].about  id == requests[r].id IN
    /\ At(r, "attach")
    /\ IF rows[id] # None
       THEN /\ documents' = [documents EXCEPT ![d] = id]
            /\ Continue(r, "log upload")
            /\ UNCHANGED disk
       ELSE Refuse(r) /\ UNCHANGED documents
    /\ UNCHANGED <<rows, links, forms, used, failed, crashes>>

LogUpload(r) ==
  /\ At(r, "log upload")
  /\ End(r)
  /\ UNCHANGED <<rows, documents, disk, links, forms, used, failed, crashes>>

(* removeDocument(): the row, then the file. *)
BeginDiscard(r, d) ==
  /\ documents[d] # None
  /\ Begin(r, [Doing("detach", d, documents[d]) EXCEPT !.files = {d}])
  /\ UNCHANGED <<rows, documents, disk, links, forms, used, failed, crashes>>

Detach(r) ==
  /\ At(r, "detach")
  /\ documents' = [documents EXCEPT ![requests[r].about] = None]
  /\ Continue(r, "unlink")
  /\ UNCHANGED <<rows, disk, links, forms, used, failed, crashes>>

-----------------------------------------------------------------------------
(* An activity is saved with a project, which must exist when it is looked  *)
(* up and again, by the foreign key, when the activity is written.          *)

BeginLink(r, a, id) ==
  /\ rows[id] # None
  /\ Begin(r, Doing("link", a, id))
  /\ UNCHANGED <<rows, documents, disk, links, forms, used, failed, crashes>>

Link(r) ==
  LET id == requests[r].id IN
    /\ At(r, "link")
    /\ links' = IF rows[id] # None THEN [links EXCEPT ![requests[r].about] = id] ELSE links
    /\ End(r)
    /\ UNCHANGED <<rows, documents, disk, forms, used, failed, crashes>>

DropLink(a) ==
  /\ links[a] # None
  /\ links' = [links EXCEPT ![a] = None]
  /\ UNCHANGED <<rows, documents, disk, requests, forms, used, failed, crashes>>

-----------------------------------------------------------------------------
(* A statement fails, the entry in the audit log among them, and with it    *)
(* the request.  uploadDocument() then removes its file.                    *)

Fail(r) ==
  /\ requests[r] # None
  /\ \/ /\ requests[r].phase \in Creating
        /\ Answer(r, "editing")
        /\ UNCHANGED <<disk, failed>>
     \/ /\ requests[r].phase \in Uploading
        /\ Refuse(r)
        /\ failed' = failed \union {d \in {requests[r].about} : documents[d] # None}
        /\ UNCHANGED forms
     \/ /\ requests[r].phase \notin Creating \union Uploading
        /\ End(r)
        /\ UNCHANGED <<disk, forms, failed>>
  /\ UNCHANGED <<rows, documents, links, used, crashes>>

Crash ==
  /\ crashes < MaxCrashes
  /\ crashes'  = crashes + 1
  /\ requests' = [r \in Requests |-> None]
  /\ forms'    = [f \in Forms |-> IF forms[f] = "waiting" THEN "editing" ELSE forms[f]]
  /\ UNCHANGED <<rows, documents, disk, links, used, failed>>

People(r) ==
  \/ \E f \in Forms : Submit(r, f)
  \/ LoseAnswer(r)
  \/ \E id \in Ids :
       \/ \E body \in Body : BeginEdit(r, id, body)
       \/ BeginRemove(r, id)
       \/ \E d \in Documents : BeginUpload(r, d, id)
       \/ \E a \in Activities : BeginLink(r, a, id)
  \/ \E d \in Documents : BeginDiscard(r, d)

Step(r) ==
  \/ Find(r) \/ Insert(r) \/ FindAgain(r) \/ LogCreation(r)
  \/ Update(r) \/ ReadRow(r) \/ Load(r) \/ Write(r)
  \/ Count(r) \/ Delete(r) \/ LogRemoval(r) \/ Unlink(r)
  \/ FindProject(r) \/ Attach(r) \/ LogUpload(r) \/ Detach(r)
  \/ Link(r) \/ Fail(r)

Next ==
  \/ \E r \in Requests : People(r) \/ Step(r)
  \/ \E id \in Ids, archived \in BOOLEAN : SetArchived(id, archived)
  \/ \E a \in Activities : DropLink(a)
  \/ Crash

Spec == Init /\ [][Next]_vars

-----------------------------------------------------------------------------
(* Types of the rows, the files and of what is in progress. *)
TypeOK ==
  /\ rows \in [Ids -> Row \union {None}]
  /\ documents \in [Documents -> Ids \union {None}]
  /\ disk \subseteq Documents
  /\ links \in [Activities -> Ids \union {None}]
  /\ requests \in [Requests -> Request \union {None}]
  /\ forms \in [Forms -> {"editing", "waiting", "done"}]
  /\ used \subseteq Ids \union Documents
  /\ failed \subseteq Documents
  /\ crashes \in Nat

(* A form that is sent again, because its answer was lost or an error, makes *)
(* no second project: the two attempts may overlap, and both find nothing.   *)
OneProjectPerForm ==
  \A p, q \in Projects : rows[p].form = rows[q].form => p = q

(* A document that is listed can be downloaded, whatever uploads, removals   *)
(* of documents and removals of its project overlap, unless its upload had   *)
(* answered with an error.                                                   *)
DocumentsHaveFiles ==
  \A d \in Documents : documents[d] # None => d \in disk \union failed

(* Only an edit of the activity changes its project: a removal that counted  *)
(* no activities does not take one away that was linked since.               *)
Edited(a) == DropLink(a) \/ \E r \in Requests : Link(r) /\ requests[r].about = a

LinksKept ==
  [][\A a \in Activities : links[a] # None /\ links'[a] # links[a] => Edited(a)]_vars
=============================================================================
