----------------------- MODULE ProcessAutosaveProof ------------------------
(***************************************************************************)
(* The queue of the process editor never stands still, and what the page   *)
(* takes for stored is stored, for any number of processes and versions.   *)
(*                                                                         *)
(* A version leaves the queue only to be sent, and a version that was sent *)
(* leaves only when it is known to be stored, or goes back into the queue. *)
(***************************************************************************)
EXTENDS ProcessAutosave, TLAPS

(* A process nobody opened has nothing to be sent and is in the list as it *)
(* is stored.                                                              *)
Untouched ==
  \A p \in Processes \ doomed : saved[p] = None =>
    /\ ~Holds(pending, p) /\ ~Sent(p)
    /\ list[p] # None => list[p] = stored[p]

OpenIsKnown == selected # None => saved[selected] # None

(* A version that was stored is what the row holds until the answer comes. *)
Applied ==
  inFlight # None /\ inFlight.at = "stored" /\ inFlight.id \notin doomed =>
    stored[inFlight.id] = inFlight.version

DeletedWereDoomed == dialog # None /\ dialog.kind = "remove" => dialog.id \in doomed

IInv ==
  /\ TypeOK /\ QueueDriven /\ SavedIsStored
  /\ Untouched /\ OpenIsKnown /\ Applied /\ DeletedWereDoomed

-----------------------------------------------------------------------------
(* The queue: what Put, Drop and Tail leave in it.                         *)

(* The place of a process the queue holds.                                 *)
LEMMA PlaceHolds ==
  ASSUME NEW q \in Seq(Payload), NEW p \in Processes, Holds(q, p)
  PROVE  Place(q, p) \in DOMAIN q /\ q[Place(q, p)].id = p
  BY DEF Holds, Place

(* Putting a version into a queue adds its process and no other, and keeps *)
(* one version per process.                                                *)
LEMMA PutKeeps ==
  ASSUME NEW q \in Seq(Payload), Unique(q), NEW p \in Processes, NEW v \in Versions
  PROVE  /\ Put(q, p, v) \in Seq(Payload) /\ Unique(Put(q, p, v)) /\ Put(q, p, v) # <<>>
         /\ \A x \in Processes : Holds(Put(q, p, v), x) <=> Holds(q, x) \/ x = p
<1>. DEFINE e == [id |-> p, version |-> v]
<1>0. e \in Payload /\ e.id = p
  BY DEF Payload
<1>1. CASE Holds(q, p)
  <2>. DEFINE k == Place(q, p)  r == [q EXCEPT ![k] = e]
  <2>1. k \in DOMAIN q /\ q[k].id = p
    BY <1>1, PlaceHolds
  <2>2. r \in Seq(Payload) /\ DOMAIN r = DOMAIN q /\ r # <<>>
    BY <2>1, <1>0
  <2>3. \A i \in DOMAIN q : r[i].id = q[i].id
    BY <2>1, <1>0
  <2>4. Put(q, p, v) = r
    BY <1>1 DEF Put
  <2>5. Unique(r) /\ \A x \in Processes : Holds(r, x) <=> Holds(q, x)
    BY <2>2, <2>3 DEF Unique, Holds
  <2>. QED
    BY <1>1, <2>2, <2>4, <2>5
<1>2. CASE ~Holds(q, p)
  <2>. DEFINE r == Append(q, e)
  <2>1. r \in Seq(Payload) /\ DOMAIN r = 1..(Len(q) + 1) /\ DOMAIN q = 1..Len(q) /\ Len(q) \in Nat
    BY <1>0
  <2>2. (\A i \in DOMAIN q : r[i] = q[i]) /\ r[Len(q) + 1] = e
    BY <1>0
  <2>3. Put(q, p, v) = r
    BY <1>2 DEF Put
  <2>4. r # <<>>
    BY <2>1
  <2>5. \A x \in Processes : Holds(r, x) <=> Holds(q, x) \/ x = p
    BY <2>1, <2>2, <1>0 DEF Holds
  <2>6. Unique(r)
    BY <2>1, <2>2, <1>0, <1>2 DEF Unique, Holds
  <2>. QED
    BY <2>1, <2>3, <2>4, <2>5, <2>6
<1>. QED
  BY <1>1, <1>2

(* Dropping a process takes it, and nothing else, from the queue.          *)
LEMMA DropKeeps ==
  ASSUME NEW q \in Seq(Payload), Unique(q), NEW p \in Processes
  PROVE  /\ Drop(q, p) \in Seq(Payload) /\ Unique(Drop(q, p))
         /\ Drop(q, p) # <<>> => q # <<>>
         /\ \A x \in Processes : x # p => (Holds(Drop(q, p), x) <=> Holds(q, x))
<1>1. CASE Holds(q, p)
  <2>. DEFINE k == Place(q, p)
              r == [i \in 1..(Len(q) - 1) |-> IF i < k THEN q[i] ELSE q[i + 1]]
  <2>1. k \in 1..Len(q) /\ q[k].id = p /\ Len(q) \in Nat /\ DOMAIN q = 1..Len(q)
    BY <1>1, PlaceHolds
  <2>2. r \in Seq(Payload) /\ DOMAIN r = 1..(Len(q) - 1)
    BY <2>1
  <2>3. Drop(q, p) = r
    BY <1>1 DEF Drop
  <2>4. Unique(r)
    BY <2>1, <2>2 DEF Unique
  <2>5. ASSUME NEW x \in Processes, x # p
        PROVE  Holds(r, x) <=> Holds(q, x)
    <3>1. ASSUME NEW i \in 1..Len(q), q[i].id = x
          PROVE  \E j \in DOMAIN r : r[j].id = x
      <4>1. CASE i < k
        <5>1. i \in DOMAIN r /\ r[i] = q[i]
          BY <4>1, <2>1, <2>2
        <5>. QED
          BY <5>1, <3>1
      <4>2. CASE i > k
        <5>1. i - 1 \in DOMAIN r /\ r[i - 1] = q[i]
          BY <4>2, <2>1, <2>2
        <5>. QED
          BY <5>1, <3>1
      <4>3. CASE i = k
        BY <4>3, <2>1, <2>5, <3>1
      <4>. QED
        BY <4>1, <4>2, <4>3, <2>1
    <3>2. ASSUME NEW j \in DOMAIN r, r[j].id = x
          PROVE  \E i \in DOMAIN q : q[i].id = x
      BY <2>1, <2>2, <3>2
    <3>. QED
      BY <3>1, <3>2, <2>1 DEF Holds
  <2>6. q # <<>>
    BY <2>1
  <2>. QED
    BY <2>2, <2>3, <2>4, <2>5, <2>6
<1>2. CASE ~Holds(q, p)
  BY <1>2 DEF Drop
<1>. QED
  BY <1>1, <1>2

(* Taking the first version leaves the others.                             *)
LEMMA TailKeeps ==
  ASSUME NEW q \in Seq(Payload), Unique(q), q # <<>>
  PROVE  /\ Head(q) \in Payload /\ Tail(q) \in Seq(Payload) /\ Unique(Tail(q))
         /\ Holds(q, Head(q).id)
         /\ \A x \in Processes : Holds(q, x) <=> Holds(Tail(q), x) \/ x = Head(q).id
<1>1. /\ Head(q) = q[1] /\ 1 \in DOMAIN q /\ Head(q) \in Payload /\ Tail(q) \in Seq(Payload)
      /\ DOMAIN q = 1..Len(q) /\ DOMAIN Tail(q) = 1..(Len(q) - 1) /\ Len(q) \in Nat \ {0}
      /\ \A i \in DOMAIN Tail(q) : Tail(q)[i] = q[i + 1]
  OBVIOUS
<1>2. Unique(Tail(q))
  BY <1>1 DEF Unique
<1>3. ASSUME NEW x \in Processes
      PROVE  Holds(q, x) <=> Holds(Tail(q), x) \/ x = Head(q).id
  <2>1. ASSUME NEW i \in DOMAIN q, q[i].id = x, x # Head(q).id
        PROVE  \E j \in DOMAIN Tail(q) : Tail(q)[j].id = x
    <3>1. i - 1 \in DOMAIN Tail(q) /\ Tail(q)[i - 1] = q[i]
      BY <1>1, <2>1
    <3>. QED
      BY <3>1, <2>1
  <2>2. ASSUME NEW j \in DOMAIN Tail(q), Tail(q)[j].id = x
        PROVE  \E i \in DOMAIN q : q[i].id = x
    BY <1>1, <2>2
  <2>. QED
    BY <2>1, <2>2, <1>1 DEF Holds
<1>. QED
  BY <1>1, <1>2, <1>3 DEF Holds

(* What is queued of a process is a version.                               *)
LEMMA QueuedIsVersion ==
  ASSUME TypeOK, NEW p \in Processes
  PROVE  Queued(p) \in Versions \union {None}
<1>1. CASE Waiting(p)
  <2>1. pending \in Seq(Payload) /\ Holds(pending, p)
    BY <1>1 DEF TypeOK, Waiting
  <2>2. pending[Place(pending, p)] \in Payload
    BY <2>1, PlaceHolds
  <2>. QED
    BY <1>1, <2>2 DEF Queued, WaitingAs, Payload
<1>2. CASE ~Waiting(p) /\ Sent(p)
  BY <1>2 DEF Queued, Sent, TypeOK, Sending
<1>3. CASE ~Waiting(p) /\ ~Sent(p)
  BY <1>3 DEF Queued
<1>. QED
  BY <1>1, <1>2, <1>3

-----------------------------------------------------------------------------
(* Every step keeps the invariant.                                         *)

LEMMA InitIInv == Init => IInv
<1>. SUFFICES ASSUME Init PROVE IInv
  OBVIOUS
<1>0. pending = <<>> /\ DOMAIN pending = {} /\ pending \in Seq(Payload) /\ inFlight = None
  BY DEF Init
<1>1. TypeOK
  <2>1. stored \in [Processes -> Versions \union {Fresh, Gone}] /\ selected \in Processes
    BY AutosaveConstants DEF Init
  <2>2. \A p \in Existing : stored[p] \in Versions
    BY AutosaveConstants DEF Init
  <2>3. /\ list \in [Processes -> Versions \union {None}]
        /\ saved \in [Processes -> Versions \union {None}]
        /\ screen \in Versions /\ selected # None /\ screen # None
    BY <2>1, <2>2, AutosaveConstants DEF Init
  <2>4. Unique(pending)
    BY <1>0 DEF Unique
  <2>. QED
    BY <1>0, <2>1, <2>3, <2>4 DEF Init, TypeOK
<1>2. \A p \in Processes : ~Holds(pending, p) /\ ~Sent(p)
  BY <1>0 DEF Holds, Sent
<1>3. QueueDriven /\ Applied /\ DeletedWereDoomed
  BY DEF Init, QueueDriven, Applied, DeletedWereDoomed
<1>4. SavedIsStored /\ Untouched /\ OpenIsKnown
  BY <1>2, AutosaveConstants DEF Init, SavedIsStored, Untouched, OpenIsKnown
<1>. QED
  BY <1>1, <1>3, <1>4 DEF IInv

(* Queueing a version of the open process.                                 *)
LEMMA QueueKeeps ==
  ASSUME IInv, selected # None, NEW v \in Versions, QueueAutoSave(v),
         UNCHANGED <<stored, selected, inFlight, dialog, doomed>>,
         screen' \in Versions, saved' = saved
  PROVE  IInv'
<1>. DEFINE s == selected
<1>1. s \in Processes /\ pending \in Seq(Payload) /\ Unique(pending) /\ saved[s] # None
  BY DEF IInv, TypeOK, OpenIsKnown
<1>2. /\ pending' \in Seq(Payload) /\ Unique(pending') /\ pending' # <<>>
      /\ \A x \in Processes : Holds(pending', x) <=> Holds(pending, x) \/ x = s
  BY <1>1, PutKeeps DEF QueueAutoSave
<1>3. /\ list' \in [Processes -> Versions \union {None}]
      /\ \A x \in Processes : x # s => list'[x] = list[x]
  BY <1>1 DEF QueueAutoSave, IInv, TypeOK
<1>4. TypeOK'
  BY <1>1, <1>2, <1>3, AutosaveConstants DEF IInv, TypeOK, QueueAutoSave
<1>5. QueueDriven' /\ OpenIsKnown' /\ Applied' /\ DeletedWereDoomed'
  BY DEF IInv, QueueDriven, OpenIsKnown, Applied, DeletedWereDoomed, QueueAutoSave
<1>6. \A x \in Processes : Sent(x)' <=> Sent(x)
  BY DEF Sent
<1>7. SavedIsStored'
  BY <1>2, <1>6 DEF IInv, SavedIsStored, Waiting
<1>8. Untouched'
  BY <1>1, <1>2, <1>3, <1>6 DEF IInv, Untouched
<1>. QED
  BY <1>4, <1>5, <1>7, <1>8 DEF IInv

(* A change on the screen that is queued only when it is new.              *)
LEMMA QueueIfNewKeeps ==
  ASSUME IInv, selected # None, NEW v \in Versions, QueueIfNew(v),
         UNCHANGED <<stored, selected, inFlight, dialog, doomed>>,
         screen' \in Versions, saved' = saved
  PROVE  IInv'
<1>1. CASE QueueAutoSave(v)
  BY <1>1, QueueKeeps
<1>2. CASE UNCHANGED <<queue, list>>
  <2>1. UNCHANGED <<pending, timer, retry, kick>>
    BY <1>2 DEF queue
  <2>2. TypeOK'
    BY <1>2, <2>1, AutosaveConstants DEF IInv, TypeOK
  <2>3. (\A x \in Processes : Sent(x)' <=> Sent(x)) /\ (\A x \in Processes : Waiting(x)' <=> Waiting(x))
    BY <2>1 DEF Sent, Waiting
  <2>4. QueueDriven' /\ OpenIsKnown' /\ Applied' /\ DeletedWereDoomed'
    BY <2>1 DEF IInv, QueueDriven, OpenIsKnown, Applied, DeletedWereDoomed
  <2>5. SavedIsStored' /\ Untouched'
    BY <1>2, <2>1, <2>3 DEF IInv, SavedIsStored, Untouched
  <2>. QED
    BY <2>2, <2>4, <2>5 DEF IInv
<1>. QED
  BY <1>1, <1>2 DEF QueueIfNew

LEMMA EditKeeps ==
  ASSUME IInv, NEW v \in Versions, Edit(v) \/ Rename(v)
  PROVE  IInv'
<1>1. CASE Edit(v)
  BY <1>1, QueueIfNewKeeps DEF Edit
<1>2. CASE Rename(v)
  BY <1>2, QueueKeeps DEF Rename
<1>. QED
  BY <1>1, <1>2

(* What an opened process shows, and what the page then takes for stored.  *)
LEMMA OpenIsSound ==
  ASSUME IInv, NEW p \in Processes, list[p] # None
  PROVE  /\ Shown(p) \in Versions
         /\ p \notin doomed /\ saved[p] = None => list[p] = stored[p] /\ ~Holds(pending, p) /\ ~Sent(p)
<1>1. Queued(p) \in Versions \union {None} /\ list[p] \in Versions
  BY QueuedIsVersion DEF IInv, TypeOK
<1>. QED
  BY <1>1 DEF Shown, IInv, Untouched

LEMMA OpenProcessKeeps ==
  ASSUME IInv, NEW p \in Processes, OpenProcess(p)
  PROVE  IInv'
<1>. DEFINE s == selected
<1>1. /\ list[p] # None /\ p # s /\ selected' = p /\ screen' = Shown(p)
      /\ saved' = IF saved[p] = None THEN [saved EXCEPT ![p] = list[p]] ELSE saved
      /\ UNCHANGED <<stored, inFlight, dialog, doomed>>
  BY DEF OpenProcess, Open
<1>2. /\ Shown(p) \in Versions
      /\ p \notin doomed /\ saved[p] = None => list[p] = stored[p] /\ ~Holds(pending, p) /\ ~Sent(p)
  BY <1>1, OpenIsSound
<1>3. /\ pending' \in Seq(Payload) /\ Unique(pending')
      /\ list' \in [Processes -> Versions \union {None}]
      /\ \A x \in Processes : x # s => list'[x] = list[x] /\ (Holds(pending', x) <=> Holds(pending, x))
      /\ s # None => (Holds(pending, s) => Holds(pending', s))
      /\ timer' \in BOOLEAN /\ retry' \in BOOLEAN /\ kick' \in BOOLEAN
      /\ pending' # <<>> => inFlight # None \/ timer' \/ retry' \/ kick'
  <2>1. CASE ShouldQueue(screen) /\ QueueAutoSave(screen)
    <3>1. s \in Processes /\ screen \in Versions
      BY <2>1 DEF ShouldQueue, IInv, TypeOK
    <3>2. /\ pending' \in Seq(Payload) /\ Unique(pending')
          /\ \A x \in Processes : Holds(pending', x) <=> Holds(pending, x) \/ x = s
      BY <2>1, <3>1, PutKeeps DEF QueueAutoSave, IInv, TypeOK
    <3>3. /\ list' \in [Processes -> Versions \union {None}]
          /\ \A x \in Processes : x # s => list'[x] = list[x]
      BY <2>1, <3>1 DEF QueueAutoSave, IInv, TypeOK
    <3>4. timer' = TRUE /\ retry' = FALSE /\ kick' \in BOOLEAN
      BY <2>1 DEF QueueAutoSave, IInv, TypeOK
    <3>. QED
      BY <3>1, <3>2, <3>3, <3>4
  <2>2. CASE UNCHANGED <<queue, list>>
    BY <2>2 DEF queue, IInv, TypeOK, QueueDriven
  <2>. QED
    BY <2>1, <2>2 DEF OpenProcess, QueueIfNew
<1>4. saved' \in [Processes -> Versions \union {None}] /\ saved'[p] # None
  BY <1>1, AutosaveConstants DEF IInv, TypeOK
<1>5. \A x \in Processes : Sent(x)' <=> Sent(x)
  BY <1>1 DEF Sent
<1>6. TypeOK'
  BY <1>1, <1>2, <1>3, <1>4, AutosaveConstants DEF IInv, TypeOK
<1>7. QueueDriven' /\ OpenIsKnown' /\ Applied' /\ DeletedWereDoomed'
  BY <1>1, <1>3, <1>4 DEF IInv, QueueDriven, OpenIsKnown, Applied, DeletedWereDoomed
<1>8. s # None => s \in Processes /\ saved[s] # None
  BY DEF IInv, TypeOK, OpenIsKnown
<1>9. \A x \in Processes : x # p => saved'[x] = saved[x]
  BY <1>1 DEF IInv, TypeOK
<1>10. SavedIsStored'
  <2>. SUFFICES ASSUME NEW x \in Processes \ doomed, saved'[x] # None, ~Holds(pending', x), ~Sent(x)
                PROVE  stored[x] = saved'[x]
    BY <1>1, <1>5 DEF SavedIsStored, Waiting
  <2>1. ~Holds(pending, x)
    <3>1. CASE x = s
      BY <3>1, <1>3, AutosaveConstants
    <3>2. CASE x # s
      BY <3>2, <1>3
    <3>. QED
      BY <3>1, <3>2
  <2>2. CASE saved[x] # None
    BY <2>1, <2>2, <1>1, <1>9 DEF IInv, SavedIsStored, Waiting, TypeOK
  <2>3. CASE saved[x] = None
    BY <2>3, <1>1, <1>2, <1>9 DEF IInv, TypeOK
  <2>. QED
    BY <2>2, <2>3
<1>11. Untouched'
  <2>. SUFFICES ASSUME NEW x \in Processes \ doomed, saved'[x] = None
                PROVE  /\ ~Holds(pending', x) /\ ~Sent(x)
                       /\ list'[x] # None => list'[x] = stored[x]
    BY <1>1, <1>5 DEF Untouched
  <2>1. x # p /\ saved[x] = None
    BY <1>4, <1>9
  <2>2. x # s
    BY <2>1, <1>8, AutosaveConstants
  <2>3. ~Holds(pending, x) /\ ~Sent(x) /\ (list[x] # None => list[x] = stored[x])
    BY <2>1 DEF IInv, Untouched
  <2>. QED
    BY <2>2, <2>3, <1>3
<1>. QED
  BY <1>6, <1>7, <1>10, <1>11 DEF IInv

-----------------------------------------------------------------------------
(* Sending.                                                                *)

(* A timer goes off: one version at most moves from the queue to the       *)
(* request, and a version is under way then unless nothing waits.          *)
LEMMA FlushKeeps ==
  ASSUME IInv, Flush, UNCHANGED <<stored, list, page, dialog, doomed>>,
         timer' \in BOOLEAN, retry' \in BOOLEAN, kick' \in BOOLEAN
  PROVE  IInv'
<1>1. UNCHANGED <<selected, screen, saved>>
  BY DEF page
<1>2. CASE inFlight # None \/ pending = <<>>
  <2>1. UNCHANGED <<pending, inFlight>>
    BY <1>2 DEF Flush
  <2>2. (\A x \in Processes : Sent(x)' <=> Sent(x)) /\ (\A x \in Processes : Waiting(x)' <=> Waiting(x))
    BY <2>1 DEF Sent, Waiting
  <2>3. TypeOK'
    BY <1>1, <2>1 DEF IInv, TypeOK
  <2>4. QueueDriven' /\ OpenIsKnown' /\ Applied' /\ DeletedWereDoomed'
    BY <1>1, <1>2, <2>1 DEF IInv, QueueDriven, OpenIsKnown, Applied, DeletedWereDoomed
  <2>5. SavedIsStored' /\ Untouched'
    BY <1>1, <2>1, <2>2 DEF IInv, SavedIsStored, Untouched
  <2>. QED
    BY <2>3, <2>4, <2>5 DEF IInv
<1>3. CASE inFlight = None /\ pending # <<>>
  <2>. DEFINE h == Head(pending)
  <2>1. /\ inFlight' = [id |-> h.id, version |-> h.version, at |-> "sent"]
        /\ pending' = Tail(pending)
    BY <1>3 DEF Flush
  <2>2. /\ h \in Payload /\ pending' \in Seq(Payload) /\ Unique(pending') /\ Holds(pending, h.id)
        /\ \A x \in Processes : Holds(pending, x) <=> Holds(pending', x) \/ x = h.id
    BY <1>3, <2>1, TailKeeps DEF IInv, TypeOK
  <2>3. inFlight' \in Sending /\ inFlight'.id = h.id /\ inFlight'.at = "sent" /\ h.id \in Processes
    BY <2>1, <2>2 DEF Payload, Sending
  <2>4. inFlight' # None
    BY <2>3, AutosaveConstants
  <2>5. TypeOK'
    BY <1>1, <2>2, <2>3 DEF IInv, TypeOK
  <2>6. \A x \in Processes : Sent(x)' <=> x = h.id
    BY <2>3, <2>4 DEF Sent
  <2>7. QueueDriven' /\ OpenIsKnown' /\ Applied' /\ DeletedWereDoomed'
    BY <1>1, <2>3, <2>4 DEF IInv, QueueDriven, OpenIsKnown, Applied, DeletedWereDoomed
  <2>8. \A x \in Processes : ~Sent(x)
    BY <1>3 DEF Sent
  <2>9. SavedIsStored'
    BY <1>1, <2>2, <2>6, <2>8 DEF IInv, SavedIsStored, Waiting
  <2>10. Untouched'
    BY <1>1, <2>2, <2>6, <2>8 DEF IInv, Untouched
  <2>. QED
    BY <2>5, <2>7, <2>9, <2>10 DEF IInv
<1>. QED
  BY <1>2, <1>3

LEMMA TimersKeep ==
  ASSUME IInv, PauseEnds \/ RetryStarts \/ NextStarts
  PROVE  IInv'
<1>1. timer \in BOOLEAN /\ retry \in BOOLEAN /\ kick \in BOOLEAN
  BY DEF IInv, TypeOK
<1>. QED
  BY <1>1, FlushKeeps DEF PauseEnds, RetryStarts, NextStarts

LEMMA ServerKeeps ==
  ASSUME IInv, ServerFinds \/ ServerSaves
  PROVE  IInv'
<1>. DEFINE p == inFlight.id
<1>1. /\ inFlight # None /\ inFlight \in Sending /\ p \in Processes /\ inFlight.version \in Versions
      /\ UNCHANGED <<list, selected, screen, saved, pending, timer, retry, kick, dialog, doomed>>
  BY DEF ServerFinds, ServerSaves, IInv, TypeOK, Sending, page, queue
<1>2. /\ inFlight' \in Sending /\ inFlight'.id = p /\ inFlight'.version = inFlight.version
      /\ inFlight' # None
      /\ \/ inFlight'.at = "found" /\ stored' = stored
         \/ inFlight'.at = "stored" /\ stored' = [stored EXCEPT ![p] = inFlight.version]
  BY <1>1, AutosaveConstants DEF ServerFinds, ServerSaves, Sending
<1>3. \A x \in Processes : (Sent(x)' <=> x = p) /\ (Sent(x) <=> x = p)
  BY <1>1, <1>2 DEF Sent
<1>4. /\ stored' \in [Processes -> Versions \union {Fresh, Gone}]
      /\ \A x \in Processes : x # p => stored'[x] = stored[x]
      /\ inFlight'.at = "stored" => stored'[p] = inFlight.version
  BY <1>1, <1>2 DEF IInv, TypeOK
<1>5. TypeOK'
  BY <1>1, <1>2, <1>4 DEF IInv, TypeOK
<1>6. QueueDriven' /\ OpenIsKnown' /\ Applied' /\ DeletedWereDoomed'
  BY <1>1, <1>2, <1>4 DEF IInv, QueueDriven, OpenIsKnown, Applied, DeletedWereDoomed
<1>7. SavedIsStored' /\ Untouched'
  BY <1>1, <1>3, <1>4 DEF IInv, SavedIsStored, Untouched, Waiting
<1>. QED
  BY <1>5, <1>6, <1>7 DEF IInv

LEMMA SaveSucceedsKeeps ==
  ASSUME IInv, SaveSucceeds
  PROVE  IInv'
<1>. DEFINE p == inFlight.id  v == inFlight.version
<1>1. /\ inFlight # None /\ inFlight.at = "stored" /\ p \in Processes /\ v \in Versions
      /\ inFlight' = None /\ UNCHANGED <<stored, pending, timer, retry, dialog, doomed>>
  BY DEF SaveSucceeds, IInv, TypeOK, Sending
<1>2. v # None /\ None \notin Processes
  BY <1>1, AutosaveConstants
<1>3. p \notin doomed => stored[p] = v
  BY <1>1 DEF IInv, Applied
<1>4. \/ Waiting(p) /\ UNCHANGED <<list, saved>>
      \/ list' = [list EXCEPT ![p] = v] /\ saved' = [saved EXCEPT ![p] = v]
  BY DEF SaveSucceeds, TakeAnswer
<1>5. /\ list' \in [Processes -> Versions \union {None}]
      /\ saved' \in [Processes -> Versions \union {None}]
      /\ \A x \in Processes : x # p => list'[x] = list[x] /\ saved'[x] = saved[x]
      /\ ~Waiting(p) => saved'[p] = v
      /\ \A x \in Processes : saved[x] # None => saved'[x] # None
      /\ list' # list => saved'[p] = v
  <2>1. /\ list \in [Processes -> Versions \union {None}]
        /\ saved \in [Processes -> Versions \union {None}]
    BY DEF IInv, TypeOK
  <2>2. CASE UNCHANGED <<list, saved>> /\ Waiting(p)
    BY <2>1, <2>2
  <2>3. CASE list' = [list EXCEPT ![p] = v] /\ saved' = [saved EXCEPT ![p] = v]
    BY <2>1, <2>3, <1>1, <1>2
  <2>. QED
    BY <2>2, <2>3, <1>4
<1>6. \/ list' # list /\ selected' = p /\ screen' = v
      \/ UNCHANGED <<selected, screen>>
  BY DEF SaveSucceeds
<1>7. kick' \in BOOLEAN /\ (pending' # <<>> => timer' \/ retry' \/ kick')
  <2>1. kick' = (kick \/ (pending' # <<>> /\ ~timer /\ ~retry'))
    BY DEF SaveSucceeds, KickIfIdle
  <2>2. kick' \in BOOLEAN
    BY <2>1
  <2>. QED
    BY <2>1, <2>2, <1>1
<1>8. TypeOK'
  BY <1>1, <1>2, <1>5, <1>6, <1>7 DEF IInv, TypeOK
<1>9. QueueDriven' /\ Applied' /\ DeletedWereDoomed'
  BY <1>1, <1>7 DEF IInv, QueueDriven, Applied, DeletedWereDoomed
<1>10. OpenIsKnown'
  BY <1>1, <1>2, <1>5, <1>6 DEF IInv, TypeOK, OpenIsKnown
<1>11. \A x \in Processes : ~Sent(x)' /\ (Sent(x) <=> x = p) /\ (Waiting(x)' <=> Waiting(x))
  BY <1>1 DEF Sent, Waiting
<1>12. SavedIsStored'
  BY <1>1, <1>3, <1>5, <1>11 DEF IInv, SavedIsStored
<1>13. Untouched'
  <2>. SUFFICES ASSUME NEW x \in Processes \ doomed, saved'[x] = None
                PROVE  ~Holds(pending, x) /\ (list'[x] # None => list'[x] = stored[x])
    BY <1>1, <1>11 DEF Untouched
  <2>1. saved[x] = None
    BY <1>5
  <2>2. x # p
    BY <2>1, <1>11 DEF IInv, Untouched
  <2>. QED
    BY <2>1, <2>2, <1>5 DEF IInv, Untouched
<1>. QED
  BY <1>8, <1>9, <1>10, <1>12, <1>13 DEF IInv

LEMMA SaveFailsKeeps ==
  ASSUME IInv, SaveFails
  PROVE  IInv'
<1>. DEFINE p == inFlight.id  v == inFlight.version
<1>1. /\ inFlight # None /\ p \in Processes /\ v \in Versions /\ pending' = Put(pending, p, v)
      /\ inFlight' = None /\ retry' = TRUE
      /\ UNCHANGED <<stored, list, selected, screen, saved, timer, dialog, doomed>>
  BY DEF SaveFails, PutBack, IInv, TypeOK, Sending, page
<1>2. /\ pending' \in Seq(Payload) /\ Unique(pending')
      /\ \A x \in Processes : Holds(pending', x) <=> Holds(pending, x) \/ x = p
  BY <1>1, PutKeeps DEF IInv, TypeOK
<1>3. kick' \in BOOLEAN
  BY DEF SaveFails, KickIfIdle, IInv, TypeOK
<1>4. TypeOK'
  BY <1>1, <1>2, <1>3 DEF IInv, TypeOK
<1>5. QueueDriven' /\ OpenIsKnown' /\ Applied' /\ DeletedWereDoomed'
  BY <1>1 DEF IInv, QueueDriven, OpenIsKnown, Applied, DeletedWereDoomed
<1>6. \A x \in Processes : ~Sent(x)' /\ (Sent(x) <=> x = p)
  BY <1>1 DEF Sent
<1>7. SavedIsStored' /\ Untouched'
  BY <1>1, <1>2, <1>6 DEF IInv, SavedIsStored, Untouched, Waiting
<1>. QED
  BY <1>4, <1>5, <1>7 DEF IInv

-----------------------------------------------------------------------------
(* Creating and deleting.                                                  *)

LEMMA BeginCreateKeeps ==
  ASSUME IInv, BeginCreate
  PROVE  IInv'
<1>1. /\ dialog' \in Dialog /\ dialog'.kind = "create"
      /\ UNCHANGED <<stored, selected, screen, saved, inFlight, doomed>>
  BY DEF BeginCreate, Dialog, page
<1>2. /\ pending' \in Seq(Payload) /\ Unique(pending')
      /\ list' \in [Processes -> Versions \union {None}]
      /\ \A x \in Processes : (Holds(pending, x) => Holds(pending', x))
      /\ \A x \in Processes : saved[x] = None => list'[x] = list[x] /\ (Holds(pending', x) <=> Holds(pending, x))
      /\ timer' \in BOOLEAN /\ retry' \in BOOLEAN /\ kick' \in BOOLEAN
      /\ pending' # <<>> => inFlight # None \/ timer' \/ retry' \/ kick'
  <2>1. CASE ShouldQueue(screen) /\ QueueAutoSave(screen)
    <3>1. selected \in Processes /\ screen \in Versions /\ saved[selected] # None
      BY <2>1 DEF ShouldQueue, IInv, TypeOK, OpenIsKnown
    <3>2. /\ pending' \in Seq(Payload) /\ Unique(pending')
          /\ \A x \in Processes : Holds(pending', x) <=> Holds(pending, x) \/ x = selected
      BY <2>1, <3>1, PutKeeps DEF QueueAutoSave, IInv, TypeOK
    <3>3. /\ list' \in [Processes -> Versions \union {None}]
          /\ \A x \in Processes : x # selected => list'[x] = list[x]
      BY <2>1, <3>1 DEF QueueAutoSave, IInv, TypeOK
    <3>4. timer' = TRUE /\ retry' = FALSE /\ kick' \in BOOLEAN
      BY <2>1 DEF QueueAutoSave, IInv, TypeOK
    <3>. QED
      BY <3>1, <3>2, <3>3, <3>4
  <2>2. CASE UNCHANGED <<queue, list>>
    BY <2>2 DEF queue, IInv, TypeOK, QueueDriven
  <2>. QED
    BY <2>1, <2>2 DEF BeginCreate, QueueIfNew
<1>3. \A x \in Processes : Sent(x)' <=> Sent(x)
  BY <1>1 DEF Sent
<1>4. TypeOK'
  BY <1>1, <1>2 DEF IInv, TypeOK
<1>5. QueueDriven' /\ OpenIsKnown' /\ Applied' /\ DeletedWereDoomed'
  BY <1>1, <1>2 DEF IInv, QueueDriven, OpenIsKnown, Applied, DeletedWereDoomed
<1>6. SavedIsStored' /\ Untouched'
  BY <1>1, <1>2, <1>3 DEF IInv, SavedIsStored, Untouched, Waiting
<1>. QED
  BY <1>4, <1>5, <1>6 DEF IInv

LEMMA EndCreateKeeps ==
  ASSUME IInv, NEW p \in Processes, EndCreate(p)
  PROVE  IInv'
<1>1. /\ stored[p] = Fresh /\ selected' = p /\ screen' = Template /\ dialog' = None
      /\ stored' = [stored EXCEPT ![p] = Template]
      /\ list' = [list EXCEPT ![p] = Template] /\ saved' = [saved EXCEPT ![p] = Template]
      /\ UNCHANGED <<pending, timer, retry, kick, inFlight, doomed>>
  BY DEF EndCreate, queue
<1>2. Template \in Versions /\ Template # None /\ p # None /\ Fresh \notin Versions
  BY AutosaveConstants
<1>3. TypeOK'
  BY <1>1, <1>2 DEF IInv, TypeOK
<1>4. \A x \in Processes :
        /\ Sent(x)' <=> Sent(x)
        /\ Waiting(x)' <=> Waiting(x)
        /\ x # p => stored'[x] = stored[x] /\ list'[x] = list[x] /\ saved'[x] = saved[x]
        /\ stored'[p] = Template /\ saved'[p] = Template
  BY <1>1 DEF Sent, Waiting, IInv, TypeOK
<1>5. Applied'
  <2>1. inFlight # None => inFlight.id \in Processes /\ inFlight.version \in Versions
    BY DEF IInv, TypeOK, Sending
  <2>. QED
    BY <1>1, <1>2, <1>4, <2>1 DEF IInv, Applied
<1>6. QueueDriven' /\ OpenIsKnown' /\ DeletedWereDoomed'
  BY <1>1, <1>2, <1>4 DEF IInv, QueueDriven, OpenIsKnown, DeletedWereDoomed
<1>7. SavedIsStored' /\ Untouched'
  BY <1>1, <1>2, <1>4 DEF IInv, SavedIsStored, Untouched, Waiting
<1>. QED
  BY <1>3, <1>5, <1>6, <1>7 DEF IInv

LEMMA BeginRemoveKeeps ==
  ASSUME IInv, BeginRemove
  PROVE  IInv'
<1>. DEFINE p == selected
<1>1. /\ p \in Processes /\ pending' = Drop(pending, p) /\ doomed' = doomed \union {p}
      /\ dialog' = [kind |-> "remove", id |-> p, at |-> "sent"]
      /\ UNCHANGED <<stored, list, selected, screen, saved, timer, retry, kick, inFlight>>
  BY AutosaveConstants DEF BeginRemove, page
<1>2. /\ pending' \in Seq(Payload) /\ Unique(pending') /\ (pending' # <<>> => pending # <<>>)
      /\ \A x \in Processes : x # p => (Holds(pending', x) <=> Holds(pending, x))
  BY <1>1, DropKeeps DEF IInv, TypeOK
<1>3. dialog' \in Dialog /\ dialog'.id = p
  BY <1>1 DEF Dialog
<1>4. TypeOK'
  BY <1>1, <1>2, <1>3 DEF IInv, TypeOK
<1>5. QueueDriven' /\ OpenIsKnown' /\ Applied' /\ DeletedWereDoomed'
  BY <1>1, <1>2, <1>3 DEF IInv, QueueDriven, OpenIsKnown, Applied, DeletedWereDoomed
<1>6. \A x \in Processes : Sent(x)' <=> Sent(x)
  BY <1>1 DEF Sent
<1>7. SavedIsStored' /\ Untouched'
  BY <1>1, <1>2, <1>6 DEF IInv, SavedIsStored, Untouched, Waiting
<1>. QED
  BY <1>4, <1>5, <1>7 DEF IInv

LEMMA RemoveServerKeeps ==
  ASSUME IInv, RemoveFinds \/ RemoveDeletes
  PROVE  IInv'
<1>. DEFINE p == dialog.id
<1>1. /\ dialog # None /\ dialog.kind = "remove" /\ dialog \in Dialog /\ p \in doomed /\ p \in Processes
      /\ UNCHANGED <<list, selected, screen, saved, pending, timer, retry, kick, inFlight, doomed>>
  BY DEF RemoveFinds, RemoveDeletes, page, queue, IInv, TypeOK, DeletedWereDoomed
<1>2. /\ dialog' \in Dialog /\ dialog'.id = p
      /\ stored' = stored \/ stored' = [stored EXCEPT ![p] = Gone]
  BY <1>1 DEF RemoveFinds, RemoveDeletes, Dialog
<1>3. /\ stored' \in [Processes -> Versions \union {Fresh, Gone}]
      /\ \A x \in Processes : x # p => stored'[x] = stored[x]
  BY <1>1, <1>2 DEF IInv, TypeOK
<1>4. TypeOK'
  BY <1>1, <1>2, <1>3 DEF IInv, TypeOK
<1>5. Applied'
  <2>1. inFlight # None => inFlight.id \in Processes
    BY DEF IInv, TypeOK, Sending
  <2>. QED
    BY <1>1, <1>3, <2>1 DEF IInv, Applied
<1>6. QueueDriven' /\ OpenIsKnown' /\ DeletedWereDoomed'
  BY <1>1, <1>2 DEF IInv, QueueDriven, OpenIsKnown, DeletedWereDoomed
<1>7. \A x \in Processes : (Sent(x)' <=> Sent(x)) /\ (Waiting(x)' <=> Waiting(x))
  BY <1>1 DEF Sent, Waiting
<1>8. SavedIsStored' /\ Untouched'
  BY <1>1, <1>3, <1>7 DEF IInv, SavedIsStored, Untouched
<1>. QED
  BY <1>4, <1>5, <1>6, <1>8 DEF IInv

LEMMA EndRemoveKeeps ==
  ASSUME IInv, EndRemove
  PROVE  IInv'
<1>. DEFINE p == dialog.id
<1>1. /\ dialog # None /\ p \in doomed /\ p \in Processes /\ dialog' = None
      /\ list' = [list EXCEPT ![p] = None]
      /\ UNCHANGED <<stored, pending, timer, retry, kick, inFlight, doomed>>
  BY DEF EndRemove, queue, IInv, TypeOK, DeletedWereDoomed
<1>2. /\ list' \in [Processes -> Versions \union {None}]
      /\ \A x \in Processes : x # p => list'[x] = list[x]
  BY <1>1 DEF IInv, TypeOK
<1>3. /\ saved' \in [Processes -> Versions \union {None}]
      /\ \/ selected' = None /\ screen' = None
         \/ selected' \in Processes \ {p} /\ screen' \in Versions /\ saved'[selected'] # None
      /\ \A x \in Processes \ {p} :
           \/ saved'[x] = saved[x]
           \/ saved[x] = None /\ list[x] # None /\ saved'[x] = list[x]
  <2>1. CASE selected' = None /\ screen' = None /\ saved' = [saved EXCEPT ![p] = None]
    BY <2>1, <1>1 DEF IInv, TypeOK
  <2>2. ASSUME NEW q \in Processes \ {p}, list[q] # None, selected' = q, screen' = Shown(q),
               saved' = [saved EXCEPT ![p] = None, ![q] = IF @ = None THEN list[q] ELSE @]
        PROVE  <1>3!1 /\ <1>3!2 /\ <1>3!3
    <3>1. Shown(q) \in Versions /\ list[q] \in Versions
      BY <2>2, OpenIsSound DEF IInv, TypeOK
    <3>. QED
      BY <2>2, <3>1, <1>1 DEF IInv, TypeOK
  <2>. QED
    BY <2>1, <2>2 DEF EndRemove
<1>4. TypeOK'
  BY <1>1, <1>2, <1>3, AutosaveConstants DEF IInv, TypeOK
<1>5. QueueDriven' /\ OpenIsKnown' /\ Applied' /\ DeletedWereDoomed'
  BY <1>1, <1>3 DEF IInv, QueueDriven, OpenIsKnown, Applied, DeletedWereDoomed
<1>6. \A x \in Processes : (Sent(x)' <=> Sent(x)) /\ (Waiting(x)' <=> Waiting(x))
  BY <1>1 DEF Sent, Waiting
<1>7. SavedIsStored' /\ Untouched'
  BY <1>1, <1>2, <1>3, <1>6 DEF IInv, SavedIsStored, Untouched
<1>. QED
  BY <1>4, <1>5, <1>7 DEF IInv

LEMMA CalmKeeps ==
  ASSUME IInv, UNCHANGED <<stored, list, page, queue, inFlight, doomed>>, dialog' \in {None, dialog}
  PROVE  IInv'
<1>1. UNCHANGED <<stored, list, selected, screen, saved, pending, timer, retry, kick, inFlight, doomed>>
  BY DEF page, queue
<1>2. TypeOK'
  BY <1>1 DEF IInv, TypeOK
<1>3. QueueDriven' /\ OpenIsKnown' /\ Applied' /\ DeletedWereDoomed'
  BY <1>1 DEF IInv, QueueDriven, OpenIsKnown, Applied, DeletedWereDoomed
<1>4. \A x \in Processes : (Sent(x)' <=> Sent(x)) /\ (Waiting(x)' <=> Waiting(x))
  BY <1>1 DEF Sent, Waiting
<1>5. SavedIsStored' /\ Untouched'
  BY <1>1, <1>4 DEF IInv, SavedIsStored, Untouched
<1>. QED
  BY <1>2, <1>3, <1>5 DEF IInv

(* The invariant is kept by every step of the editor and of the service.   *)
THEOREM Invariance == Spec => []IInv
<1>1. IInv /\ [Next]_vars => IInv'
  <2>. SUFFICES ASSUME IInv, [Next]_vars PROVE IInv'
    OBVIOUS
  <2>1. ASSUME NEW v \in Versions, Edit(v) \/ Rename(v) PROVE IInv'
    BY <2>1, EditKeeps
  <2>2. ASSUME NEW p \in Processes, OpenProcess(p) PROVE IInv'
    BY <2>2, OpenProcessKeeps
  <2>3. ASSUME NEW p \in Processes, EndCreate(p) PROVE IInv'
    BY <2>3, EndCreateKeeps
  <2>4. CASE PauseEnds \/ RetryStarts \/ NextStarts
    BY <2>4, TimersKeep
  <2>5. CASE ServerFinds \/ ServerSaves
    BY <2>5, ServerKeeps
  <2>6. CASE SaveSucceeds
    BY <2>6, SaveSucceedsKeeps
  <2>7. CASE SaveFails
    BY <2>7, SaveFailsKeeps
  <2>8. CASE BeginCreate
    BY <2>8, BeginCreateKeeps
  <2>9. CASE BeginRemove
    BY <2>9, BeginRemoveKeeps
  <2>10. CASE RemoveFinds \/ RemoveDeletes
    BY <2>10, RemoveServerKeeps
  <2>11. CASE EndRemove
    BY <2>11, EndRemoveKeeps
  <2>12. CASE DialogFails
    BY <2>12, CalmKeeps DEF DialogFails
  <2>13. CASE UNCHANGED vars
    BY <2>13, CalmKeeps DEF vars
  <2>. QED
    BY <2>1, <2>2, <2>3, <2>4, <2>5, <2>6, <2>7, <2>8, <2>9, <2>10, <2>11, <2>12, <2>13 DEF Next
<1>. QED
  BY InitIInv, <1>1, PTL DEF Spec

(* The editor's state is what its types say, for any processes and versions*)
THEOREM TypeCorrect == Spec => []TypeOK
<1>1. IInv => TypeOK
  BY DEF IInv
<1>. QED
  BY Invariance, <1>1, PTL

(* While versions wait, one is under way or a timer is set: the queue of   *)
(* the editor never stands still.                                          *)
THEOREM QueueNeverStandsStill == Spec => []QueueDriven
<1>1. IInv => QueueDriven
  BY DEF IInv
<1>. QED
  BY Invariance, <1>1, PTL

(* What the page takes for stored is stored, unless something of the       *)
(* process is queued or under way or somebody asked to delete it.          *)
THEOREM PageKnowsWhatIsStored == Spec => []SavedIsStored
<1>1. IInv => SavedIsStored
  BY DEF IInv
<1>. QED
  BY Invariance, <1>1, PTL
=============================================================================
