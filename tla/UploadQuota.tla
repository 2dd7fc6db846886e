----------------------------- MODULE UploadQuota -----------------------------
(***************************************************************************)
(* Reserving upload capacity: UploadsService.register on PostgreSQL.       *)
(*                                                                         *)
(* A registration grants one file to a set of scopes (an organisation, a   *)
(* user, or the platform).  Its transaction takes one advisory lock per    *)
(* scope, in the order of the scope keys, then reads scope by scope        *)
(* whether the file is granted already and whether it still fits, and      *)
(* inserts the missing grants.  The locks go with the transaction.  Grants *)
(* are deleted without any lock: by an upload whose write failed, by the   *)
(* administrator, and by the maintenance pass.                             *)
(*                                                                         *)
(* The development mode on SQLite runs the same loop without lock and      *)
(* transaction and promises nothing; it is not modelled.                   *)
(***************************************************************************)
EXTENDS Uploads, Integers, FiniteSetsExt

CONSTANTS
  Registrations,  \* requests that may be registering at the same time
  Size,           \* Size[f]: the bytes of file f
  Quota           \* UPLOAD_SCOPE_QUOTA_BYTES

\* Scope keys are numbered in the order sort() gives them.
ASSUME QuotaConstants ==
  /\ Scopes \subseteq Nat
  /\ Size \in [Files -> Nat]
  /\ Quota \in Nat
  /\ None \notin Registrations

VARIABLES
  granted,  \* granted[s]: the files with a row of stored_uploads in scope s
  used,     \* used[s]: the sum of the sizes of those rows
  holder,   \* holder[s]: the transaction that has the advisory lock of s
  tx        \* tx[r]: the transaction of registration r

quotaVars == <<granted, used, holder, tx>>

Transaction == [phase   : {"idle", "locking", "measuring"},
                file    : Files \union {None},
                scopes  : SUBSET Scopes,
                left    : SUBSET Scopes,  \* still to be locked, then measured
                missing : SUBSET Scopes]

Idle == [phase |-> "idle", file |-> None, scopes |-> {}, left |-> {}, missing |-> {}]

QuotaInit ==
  /\ granted = [s \in Scopes |-> {}]
  /\ used    = [s \in Scopes |-> 0]
  /\ holder  = [s \in Scopes |-> None]
  /\ tx      = [r \in Registrations |-> Idle]

-----------------------------------------------------------------------------
Begin(r, f, S) ==
  /\ tx[r].phase = "idle"
  /\ S # {}
  /\ tx' = [tx EXCEPT ![r] = [phase |-> "locking", file |-> f, scopes |-> S,
                              left |-> S, missing |-> {}]]
  /\ UNCHANGED <<granted, used, holder>>

AnyOf(s, S) == s \in S  \* broken variant: the scope keys as they come

FirstOf(s, S) == s \in S /\ \A t \in S : s <= t

Lock(r) ==
  /\ tx[r].phase = "locking"
  /\ \E s \in tx[r].left :
       /\ FirstOf(s, tx[r].left)
       /\ holder[s] = None
       /\ holder' = [holder EXCEPT ![s] = r]
       /\ tx' = [tx EXCEPT ![r].left = @ \ {s}]
  /\ UNCHANGED <<granted, used>>

(* All locks are held: the loop over the scopes starts. *)
StartMeasuring(r) ==
  /\ tx[r].phase = "locking"
  /\ tx[r].left = {}
  /\ tx' = [tx EXCEPT ![r].phase = "measuring", ![r].left = tx[r].scopes]
  /\ UNCHANGED <<granted, used, holder>>

AlwaysMissing(r, s) == s \in Scopes  \* broken variant

IsMissing(r, s) == tx[r].file \notin granted[s]

FullOnly(r, s) == used[s] <= Quota  \* broken variant: its own size not counted

Fits(r, s) == used[s] + Size[tx[r].file] <= Quota

(* One round of the loop for a scope: skip it, note it as missing, or fail. *)
Measure(r, s) ==
  /\ tx[r].phase = "measuring"
  /\ s \in tx[r].left
  /\ IsMissing(r, s) => Fits(r, s)
  /\ tx' = [tx EXCEPT ![r].left = @ \ {s},
                      ![r].missing = IF IsMissing(r, s) THEN @ \union {s} ELSE @]
  /\ UNCHANGED <<granted, used, holder>>

Unlocked(r) == [s \in Scopes |-> IF holder[s] = r THEN None ELSE holder[s]]

Refuse(r, s) ==
  /\ tx[r].phase = "measuring"
  /\ s \in tx[r].left
  /\ IsMissing(r, s)
  /\ ~ Fits(r, s)
  /\ holder' = Unlocked(r)
  /\ tx' = [tx EXCEPT ![r] = Idle]
  /\ UNCHANGED <<granted, used>>

(* The missing rows are inserted; the commit releases the locks. *)
Save(r) ==
  /\ tx[r].phase = "measuring"
  /\ tx[r].left = {}
  /\ granted' = [s \in Scopes |-> IF s \in tx[r].missing
                                  THEN granted[s] \union {tx[r].file} ELSE granted[s]]
  /\ used' = [s \in Scopes |-> IF s \in tx[r].missing
                               THEN used[s] + Size[tx[r].file] ELSE used[s]]
  /\ holder' = Unlocked(r)
  /\ tx' = [tx EXCEPT ![r] = Idle]

(* The connection is lost or the process dies: the database rolls back. *)
Abort(r) ==
  /\ tx[r].phase # "idle"
  /\ holder' = Unlocked(r)
  /\ tx' = [tx EXCEPT ![r] = Idle]
  /\ UNCHANGED <<granted, used>>

(* Rows of f are deleted in the scopes S, whoever holds their locks: in    *)
(* all scopes by unregister, in one by the maintenance pass.               *)
Delete(f, S) ==
  /\ granted' = [s \in Scopes |-> IF s \in S THEN granted[s] \ {f} ELSE granted[s]]
  /\ used' = [s \in Scopes |-> IF s \in S /\ f \in granted[s]
                               THEN used[s] - Size[f] ELSE used[s]]
  /\ UNCHANGED <<holder, tx>>

UnregisterAll(f) == Delete(f, Scopes)

DeleteRecord(f, s) == Delete(f, {s})

-----------------------------------------------------------------------------
(* Of the steps of a registration all but Begin and Abort are its own. *)
Progress(r) ==
  \/ Lock(r)
  \/ StartMeasuring(r)
  \/ \E s \in Scopes : Measure(r, s) \/ Refuse(r, s)
  \/ Save(r)

QuotaNext ==
  \/ \E r \in Registrations :
       \/ \E f \in Files, S \in SUBSET Scopes : Begin(r, f, S)
       \/ Progress(r)
       \/ Abort(r)
  \/ \E f \in Files : UnregisterAll(f) \/ \E s \in Scopes : DeleteRecord(f, s)

QuotaSpec == QuotaInit /\ [][QuotaNext]_quotaVars

(* PostgreSQL grants an advisory lock to its waiters in turn, so a waiter  *)
(* is not passed over for ever: strong fairness.  Nothing else is fair; in *)
(* particular no transaction has to abort.                                 *)
QuotaFairSpec == QuotaSpec /\ \A r \in Registrations : SF_quotaVars(Progress(r))

-----------------------------------------------------------------------------
(* Types: rows, sums, locks and transactions as in UploadsService.register. *)
QuotaTypeOK ==
  /\ granted \in [Scopes -> SUBSET Files]
  /\ used \in [Scopes -> Int]
  /\ holder \in [Scopes -> Registrations \union {None}]
  /\ tx \in [Registrations -> Transaction]

(* Concurrent registrations never take a scope beyond its quota, although  *)
(* each one measures long before it inserts and grants come and go between *)
(* ("concurrent uploads cannot both consume the last available capacity"). *)
WithinQuota == \A s \in Scopes : used[s] <= Quota

(* A grant is idempotent: a scope pays once for a file it was given twice, *)
(* also by two registrations at the same time, and a deletion gives back   *)
(* exactly what was charged.                                               *)
ChargedOnce ==
  \A s \in Scopes : used[s] = MapThenSumSet(LAMBDA f : Size[f], granted[s])

(* Registrations of overlapping sets of scopes do not wait for each other  *)
(* for ever: each one ends, granted or refused, without an abort.          *)
RegistrationsEnd ==
  \A r \in Registrations : tx[r].phase # "idle" ~> tx[r].phase = "idle"
=============================================================================
