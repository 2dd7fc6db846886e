-------------------------- MODULE ProcessAutosave --------------------------
(***************************************************************************)
(* The editor of processes and how it saves by itself: pages/Processes.tsx *)
(* with lib/processAutosave.ts, and ProcessesService behind it.            *)
(*                                                                         *)
(* The page keeps, per process, the version it knows to be stored, a queue *)
(* of versions to send (a Map: setting a key it has keeps its place) and   *)
(* the one under way.  Three timers start the next one: a pause after an   *)
(* edit, a longer one after a failure, and an immediate one.               *)
(*                                                                         *)
(* One person edits, and stays on the page, whose list is loaded once.     *)
(* A version stands for title, purpose and definition together.  A request *)
(* that broke off was handled before or never will be.                     *)
(***************************************************************************)
EXTENDS Integers, Sequences

CONSTANTS
  Processes,  \* ids of processes, each given to at most one
  Existing,   \* those that exist at first
  Versions,   \* what a process can look like
  Untitled,   \* versions without a title, which are not sent
  Template,   \* what a new process looks like
  Removable,  \* bound: the processes somebody asks to delete, each once
  Fresh,      \* a process that was not created yet
  Gone,       \* one that was deleted
  None

Payload == [id : Processes, version : Versions]
Sending == [id : Processes, version : Versions, at : {"sent", "found", "stored"}]
Dialog  == [kind : {"create", "remove"}, id : Processes \union {None},
            at : {"sent", "found", "deleted"}]

ASSUME AutosaveConstants ==
  /\ Existing \subseteq Processes /\ Untitled \subseteq Versions
  /\ Template \in Versions \ Untitled
  /\ Removable \subseteq Processes
  /\ None \notin Versions \union Processes \union Sending \union Dialog
  /\ {Fresh, Gone} \intersect Versions = {}

VARIABLES
  stored,    \* stored[p]: the row of p, Fresh or Gone
  list,      \* list[p]: p in the list of the page, or None
  selected,  \* the process that is open, or None
  screen,    \* its version on the screen, or None
  saved,     \* savedProcessSnapshots: the version of p known to be stored, or None
  pending,   \* pendingAutoSaves, in the order of the Map
  inFlight,  \* the version under way, or None
  timer, retry, kick,  \* the three timers: whether they are set
  dialog,    \* the creation or deletion under way, or None
  doomed     \* the processes somebody asked to delete, for SavedIsStored

queue == <<pending, timer, retry, kick>>
page  == <<selected, screen, saved>>
vars  == <<stored, list, page, queue, inFlight, dialog, doomed>>

Exists(p) == stored[p] \notin {Fresh, Gone}

(* A queue and the process p.                                              *)
Holds(q, p) == \E i \in DOMAIN q : q[i].id = p
Place(q, p) == CHOOSE i \in DOMAIN q : q[i].id = p

Put(q, p, v) ==
  IF Holds(q, p)
  THEN [q EXCEPT ![Place(q, p)] = [id |-> p, version |-> v]]
  ELSE Append(q, [id |-> p, version |-> v])

Drop(q, p) ==
  IF Holds(q, p) THEN [i \in 1..(Len(q) - 1) |-> IF i < Place(q, p) THEN q[i] ELSE q[i + 1]]
  ELSE q

Unique(q) == \A i, j \in DOMAIN q : q[i].id = q[j].id => i = j

Waiting(p)   == Holds(pending, p)
WaitingAs(p) == pending[Place(pending, p)].version
Sent(p)      == inFlight # None /\ inFlight.id = p

(* The version of p the queue holds or that is under way.                  *)
Queued(p) == IF Waiting(p) THEN WaitingAs(p) ELSE IF Sent(p) THEN inFlight.version ELSE None

(* What the editor shows when p is opened.                                 *)
Shown(p) == IF Queued(p) # None THEN Queued(p) ELSE list[p]

(* Opening p for the first time takes what the list holds as stored.       *)
Open(p) ==
  /\ selected' = p
  /\ screen' = Shown(p)
  /\ saved' = IF saved[p] = None THEN [saved EXCEPT ![p] = list[p]] ELSE saved

Init ==
  /\ stored \in [Processes -> (Versions \ Untitled) \union {Fresh}]
  /\ \A p \in Processes : stored[p] # Fresh <=> p \in Existing
  /\ list = [p \in Processes |-> IF p \in Existing THEN stored[p] ELSE None]
  /\ selected \in Existing /\ screen = stored[selected]
  /\ saved = [p \in Processes |-> IF p = selected THEN stored[p] ELSE None]
  /\ pending = <<>> /\ inFlight = None /\ dialog = None /\ doomed = {}
  /\ timer = FALSE /\ retry = FALSE /\ kick = FALSE

-----------------------------------------------------------------------------
(* Editing.                                                                *)

(* shouldQueueProcessAutosave for the process that is open.                *)
ShouldQueue(v) ==
  /\ selected # None
  /\ v \notin Untitled
  /\ saved[selected] # v /\ Queued(selected) # v

QueueAutoSave(v) ==
  /\ pending' = Put(pending, selected, v)
  /\ list' = IF list[selected] = None THEN list ELSE [list EXCEPT ![selected] = v]
  /\ timer' = TRUE /\ retry' = FALSE /\ UNCHANGED kick

(* queueCurrentProcessAutoSave, and the effect that runs after a change.   *)
QueueIfNew(v) ==
  \/ ShouldQueue(v) /\ QueueAutoSave(v)
  \/ ~ShouldQueue(v) /\ UNCHANGED <<queue, list>>

(* Any change, also one that leaves the version as it is.                  *)
Edit(v) ==
  /\ selected # None /\ dialog = None
  /\ screen' = v
  /\ QueueIfNew(v)
  /\ UNCHANGED <<stored, selected, saved, inFlight, dialog, doomed>>

(* submitProcessMetadata of an existing process queues without comparing.  *)
Rename(v) ==
  /\ selected # None /\ dialog = None /\ v \notin Untitled
  /\ screen' = v
  /\ QueueAutoSave(v)
  /\ UNCHANGED <<stored, selected, saved, inFlight, dialog, doomed>>

(* openProcess                                                             *)
OpenProcess(p) ==
  /\ dialog = None /\ list[p] # None /\ p # selected
  /\ QueueIfNew(screen)
  /\ Open(p)
  /\ UNCHANGED <<stored, inFlight, dialog, doomed>>

-----------------------------------------------------------------------------
(* flushPendingAutoSaves                                                   *)

Flush ==
  IF inFlight # None \/ pending = <<>> THEN UNCHANGED <<pending, inFlight>>
  ELSE /\ inFlight' = [id |-> Head(pending).id, version |-> Head(pending).version, at |-> "sent"]
       /\ pending' = Tail(pending)

PauseEnds ==
  /\ timer /\ timer' = FALSE /\ Flush
  /\ UNCHANGED <<stored, list, page, retry, kick, dialog, doomed>>

RetryStarts ==
  /\ retry /\ retry' = FALSE /\ Flush
  /\ UNCHANGED <<stored, list, page, timer, kick, dialog, doomed>>

NextStarts ==
  /\ kick /\ kick' = FALSE /\ Flush
  /\ UNCHANGED <<stored, list, page, timer, retry, dialog, doomed>>

(* The finally block.                                                      *)
KickIfIdle == kick' = (kick \/ (pending' # <<>> /\ ~timer /\ ~retry'))

(* ProcessesService.update reads the row and saves it, which inserts it    *)
(* again when it was deleted in between.                                   *)
ServerFinds ==
  /\ inFlight # None /\ inFlight.at = "sent" /\ Exists(inFlight.id)
  /\ inFlight' = [inFlight EXCEPT !.at = "found"]
  /\ UNCHANGED <<stored, list, page, queue, dialog, doomed>>

ServerSaves ==
  /\ inFlight # None /\ inFlight.at = "found"
  /\ inFlight' = [inFlight EXCEPT !.at = "stored"]
  /\ stored' = [stored EXCEPT ![inFlight.id] = inFlight.version]
  /\ UNCHANGED <<list, page, queue, dialog, doomed>>

(* Unless a newer version waits, the answer is what the page knows.        *)
TakeAnswer(p, v) ==
  IF Waiting(p) /\ WaitingAs(p) # v THEN UNCHANGED <<list, saved>>
  ELSE list' = [list EXCEPT ![p] = v] /\ saved' = [saved EXCEPT ![p] = v]

(* A process that was deleted meanwhile is back in the list, and opened    *)
(* when no other is.                                                       *)
SaveSucceeds ==
  LET p == inFlight.id  v == inFlight.version IN
  /\ inFlight # None /\ inFlight.at = "stored"
  /\ TakeAnswer(p, v)
  /\ IF selected = None /\ list' # list THEN selected' = p /\ screen' = v
     ELSE UNCHANGED <<selected, screen>>
  /\ inFlight' = None
  /\ UNCHANGED <<stored, pending, timer, retry, dialog, doomed>> /\ KickIfIdle

\* a broken variant: the version that failed is the first to be tried again
PutFirst(q, p, v) == <<[id |-> p, version |-> v]>> \o Drop(q, p)

\* a broken variant: it is forgotten
PutNot(q, p, v) == q

(* What failed goes back, in the place of what was queued meanwhile.       *)
PutBack(q, p, v) == Put(q, p, v)

(* The request never arrives, the service refuses it, or the answer is     *)
(* lost.                                                                   *)
SaveFails ==
  /\ inFlight # None
  /\ pending' = PutBack(pending, inFlight.id, inFlight.version)
  /\ retry' = TRUE
  /\ inFlight' = None
  /\ UNCHANGED <<stored, list, page, timer, dialog, doomed>> /\ KickIfIdle

-----------------------------------------------------------------------------
(* Creating and deleting; the page waits with its dialog open.             *)

BeginCreate ==
  /\ dialog = None
  /\ QueueIfNew(screen)
  /\ dialog' = [kind |-> "create", id |-> None, at |-> "sent"]
  /\ UNCHANGED <<stored, page, inFlight, doomed>>

EndCreate(p) ==
  /\ dialog # None /\ dialog.kind = "create" /\ stored[p] = Fresh
  /\ stored' = [stored EXCEPT ![p] = Template]
  /\ list' = [list EXCEPT ![p] = Template]
  /\ selected' = p /\ screen' = Template /\ saved' = [saved EXCEPT ![p] = Template]
  /\ dialog' = None
  /\ UNCHANGED <<queue, inFlight, doomed>>

BeginRemove ==
  /\ dialog = None /\ selected \in Removable \ doomed
  /\ pending' = Drop(pending, selected)
  /\ dialog' = [kind |-> "remove", id |-> selected, at |-> "sent"]
  /\ doomed' = doomed \union {selected}
  /\ UNCHANGED <<stored, list, page, timer, retry, kick, inFlight>>

RemoveFinds ==
  /\ dialog # None /\ dialog.kind = "remove" /\ dialog.at = "sent" /\ Exists(dialog.id)
  /\ dialog' = [dialog EXCEPT !.at = "found"]
  /\ UNCHANGED <<stored, list, page, queue, inFlight, doomed>>

RemoveDeletes ==
  /\ dialog # None /\ dialog.kind = "remove" /\ dialog.at = "found"
  /\ stored' = [stored EXCEPT ![dialog.id] = Gone]
  /\ dialog' = [dialog EXCEPT !.at = "deleted"]
  /\ UNCHANGED <<list, page, queue, inFlight, doomed>>

(* The page then opens another process of its list.                        *)
EndRemove ==
  LET p == dialog.id IN
  /\ dialog # None /\ dialog.kind = "remove" /\ dialog.at = "deleted"
  /\ list' = [list EXCEPT ![p] = None]
  /\ \/ /\ \A q \in Processes \ {p} : list[q] = None
        /\ selected' = None /\ screen' = None /\ saved' = [saved EXCEPT ![p] = None]
     \/ \E q \in Processes \ {p} :
          /\ list[q] # None
          /\ selected' = q /\ screen' = Shown(q)
          /\ saved' = [saved EXCEPT ![p] = None, ![q] = IF @ = None THEN list[q] ELSE @]
  /\ dialog' = None
  /\ UNCHANGED <<stored, queue, inFlight, doomed>>

(* Either request fails, before or after it was handled.                   *)
DialogFails ==
  /\ dialog # None /\ dialog' = None
  /\ UNCHANGED <<stored, list, page, queue, inFlight, doomed>>

-----------------------------------------------------------------------------

Next ==
  \/ \E v \in Versions : Edit(v) \/ Rename(v)
  \/ \E p \in Processes : OpenProcess(p) \/ EndCreate(p)
  \/ PauseEnds \/ RetryStarts \/ NextStarts
  \/ ServerFinds \/ ServerSaves \/ SaveSucceeds \/ SaveFails
  \/ BeginCreate \/ BeginRemove \/ RemoveFinds \/ RemoveDeletes \/ EndRemove \/ DialogFails

(* Timers go off (the person stops typing now and then) and requests end,  *)
(* well or not.                                                            *)
Fairness ==
  /\ WF_vars(PauseEnds) /\ WF_vars(RetryStarts) /\ WF_vars(NextStarts)
  /\ WF_vars(ServerFinds \/ ServerSaves \/ SaveSucceeds \/ SaveFails)

Spec == Init /\ [][Next]_vars /\ Fairness

-----------------------------------------------------------------------------
(* The types of the state; the queue holds one version per process.        *)
TypeOK ==
  /\ stored \in [Processes -> Versions \union {Fresh, Gone}]
  /\ list \in [Processes -> Versions \union {None}]
  /\ saved \in [Processes -> Versions \union {None}]
  /\ selected \in Processes \union {None} /\ screen \in Versions \union {None}
  /\ (selected = None <=> screen = None)
  /\ pending \in Seq(Payload) /\ Unique(pending)
  /\ inFlight \in Sending \union {None}
  /\ timer \in BOOLEAN /\ retry \in BOOLEAN /\ kick \in BOOLEAN
  /\ dialog \in Dialog \union {None} /\ doomed \subseteq Processes

(* While versions wait, one is under way or a timer is set: no order of    *)
(* edits, timers and answers leaves the queue standing.                    *)
QueueDriven == pending # <<>> => inFlight # None \/ timer \/ retry \/ kick

(* What the page takes for stored is stored, once nothing of the process   *)
(* is queued or under way: also when answers were lost and versions        *)
(* replaced in the queue.  A deletion, even a failed one, empties the      *)
(* queue, so nothing is said of processes somebody asked to delete.        *)
SavedIsStored ==
  \A p \in Processes \ doomed :
    saved[p] # None /\ ~Waiting(p) /\ ~Sent(p) => stored[p] = saved[p]

(* A process whose save fails forever, one that was deleted for instance,  *)
(* does not keep the others from being sent.                               *)
EveryoneSent == \A p \in Processes : Waiting(p) ~> (Sent(p) \/ ~Waiting(p))
=============================================================================
