---------------------------- MODULE ActivityStore ---------------------------
(***************************************************************************)
(* What the activity API promises to its editors: every accepted edit acts *)
(* in one step on the row as it is at that moment, an edit sent with a     *)
(* baseline is accepted only if the row still is the one its editor was    *)
(* looking at, and a removed activity stays removed.  There are no         *)
(* requests in flight, no snapshots and no conflicts here.                 *)
(***************************************************************************)
EXTENDS ActivityRecord

CONSTANTS Ids, Clients, Patches, Drafts

VARIABLES rows, born, forms, today

vars == <<rows, born, forms, today>>

Init ==
  /\ rows  = [id \in Ids |-> None]
  /\ born  = {}
  /\ forms = [c \in Clients |-> None]
  /\ today = 0

Create(id, d) ==
  /\ id \notin born
  /\ PlanningAccepts(NewRow(d, today), None, today)
  /\ rows' = [rows EXCEPT ![id] = NewRow(d, today)]
  /\ born' = born \union {id}
  /\ UNCHANGED <<forms, today>>

Open(c, id, tracked) ==
  /\ rows[id] # None
  /\ forms' = [forms EXCEPT ![c] =
                 [id   |-> id,
                  base |-> IF tracked THEN rows[id].version ELSE None,
                  seen |-> rows[id]]]
  /\ UNCHANGED <<rows, born, today>>

Close(c) ==
  /\ forms' = [forms EXCEPT ![c] = None]
  /\ UNCHANGED <<rows, born, today>>

(* An edit of the current row by an editor who saw that very row, or who   *)
(* declined to say which row it saw.                                       *)
Edit(c, p, close) ==
  /\ forms[c] # None
  /\ LET id == forms[c].id IN
       /\ rows[id] # None
       /\ forms[c].base # None => forms[c].seen = rows[id]
       /\ rows' = [rows EXCEPT ![id] = NextVersion(Merge(rows[id], p))]
  /\ forms' = IF close THEN [forms EXCEPT ![c] = None] ELSE forms
  /\ UNCHANGED <<born, today>>

Acknowledge(id, done) ==
  /\ rows[id] # None
  /\ rows' = [rows EXCEPT ![id] = [NextVersion(rows[id]) EXCEPT !.ack = done]]
  /\ UNCHANGED <<born, forms, today>>

Remove(id) ==
  /\ rows' = [rows EXCEPT ![id] = None]
  /\ UNCHANGED <<born, forms, today>>

Tick ==
  /\ today' = today + 1
  /\ UNCHANGED <<rows, born, forms>>

Next ==
  \/ \E id \in Ids :
       \/ \E d \in Drafts : Create(id, d)
       \/ \E done \in BOOLEAN : Acknowledge(id, done)
       \/ Remove(id)
  \/ \E c \in Clients :
       \/ \E id \in Ids, tracked \in BOOLEAN : Open(c, id, tracked)
       \/ Close(c)
       \/ \E p \in Patches, close \in BOOLEAN : Edit(c, p, close)
  \/ Tick

Spec == Init /\ [][Next]_vars
=============================================================================
