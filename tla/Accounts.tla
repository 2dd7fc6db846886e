------------------------------ MODULE Accounts ------------------------------
(***************************************************************************)
(* The accounts of one organisation: UsersController and UsersService      *)
(* (role changes, removal of an access, deletion) and the invitations of   *)
(* AuthService.                                                            *)
(*                                                                         *)
(* A request of an administrator reads (Begin..., FindMember), looks again *)
(* at what it is about to change (CountAdmins, ReadMember) and writes, each*)
(* await a step of its own.  Only disableMembership runs in a transaction  *)
(* that leaves nothing to decide; the rest is check, then act.  save() of  *)
(* an entity writes the columns in which the copy differs from the row,    *)
(* which leaves the row as the copy is, and inserts the copy when the row  *)
(* is gone.  The organisation's editors are users here: no rule tells them *)
(* apart.  Superadmins act on everything and have no membership.           *)
(***************************************************************************)
EXTENDS Integers, FiniteSets, Functions, Identities

CONSTANTS
  Users,       \* account ids, each given to at most one account
  Emails,      \* the addresses people are invited at
  FirstAdmin,  \* the account that administers the organisation at first
  Invited,     \* accounts that exist at first without a password
  Slots,       \* requests of administrators handled at the same time
  Visitors,    \* people with an invitation in their hands
  Operations,  \* bound: what administrators ask for in this instance
  MaxVersion   \* bound: invitations and removals stop here

ASSUME AccountConstants ==
  /\ FirstAdmin \in Users /\ Invited \subseteq Users \ {FirstAdmin}
  /\ Operations \subseteq {"invite", "resend", "change", "create", "local", "remove", "delete"}
  /\ MaxVersion \in Nat

VARIABLES
  account,   \* account[i]: the row of users, Fresh or Gone
  member,    \* member[i]: its membership of the organisation, or None
  requests,  \* requests[s]: what request s is doing, or None
  visits,    \* visits[v]: the invitation v is accepting, or None
  links,     \* links[i]: versions of the invitations that reached i
  newest,    \* newest[i]: the last of them, or None once access was removed
  revoked    \* revoked[i]: those sent before an access of i was removed

accountVars == <<account, member, requests, visits, links, newest, revoked>>

Role == {"org_admin", "user"}

Account    == [email : Emails, role : Role, password : BOOLEAN, version : Nat]
Membership == [role : Role, active : BOOLEAN]

(* entity is the copy of the account a request holds; new, that it is its  *)
(* own and not stored yet.                                                 *)
Request == [op : Operations, id : Users, role : Role \union {None},
            at : {"save", "member", "insert", "mail", "activate", "undo", "find", "bump",
                  "new", "password", "grant", "store", "count", "disable", "delete"},
            seen : Membership \union {None}, entity : Account \union {None}, new : BOOLEAN]

Visit == [at : {"count", "write"}, id : Users, version : Nat]

ASSUME AccountMarks ==
  /\ Fresh \notin Account /\ Gone \notin Account
  /\ None \notin Account \union Membership \union Role \union Request \union Visit \union Nat

Stored(i)      == account[i] \notin {Fresh, Gone}
Pending(i)     == Stored(i) /\ ~account[i].password
Active(m)      == m # None /\ m.active
ActiveAdmin(m) == Active(m) /\ m.role = "org_admin"
Admins         == {i \in Users : ActiveAdmin(member[i])}
Holders(e)     == {i \in Users : Stored(i) /\ account[i].email = e}

Busy    == {s \in Slots : requests[s] # None}
Room(i) == Stored(i) => account[i].version + Cardinality(Busy) < MaxVersion

(* An id for a new account: no other request is about to store it.         *)
Unused(i) == account[i] = Fresh /\ \A s \in Busy : requests[s].id # i

NewAccount(e, role) == [email |-> e, role |-> role, password |-> FALSE, version |-> 0]

AccountsInit ==
  /\ \E e \in Injection({FirstAdmin} \union Invited, Emails) :
       account = [i \in Users |->
         IF i \notin {FirstAdmin} \union Invited THEN Fresh
         ELSE [email |-> e[i], role |-> IF i = FirstAdmin THEN "org_admin" ELSE "user",
               password |-> i = FirstAdmin, version |-> 0]]
  /\ member = [i \in Users |->
       IF i = FirstAdmin THEN [role |-> "org_admin", active |-> TRUE]
       ELSE IF i \in Invited THEN [role |-> "user", active |-> TRUE] ELSE None]
  /\ requests = [s \in Slots |-> None] /\ visits = [v \in Visitors |-> None]
  /\ links = [i \in Users |-> {}] /\ newest = [i \in Users |-> None] /\ revoked = [i \in Users |-> {}]

unsent  == UNCHANGED <<links, newest, revoked, visits>>
waiting == UNCHANGED <<account, member>> /\ unsent

-----------------------------------------------------------------------------
(* How a request moves on.                                                 *)

Begin(s, op, i, role, at, copy, new) ==
  /\ requests[s] = None /\ op \in Operations
  /\ requests' = [requests EXCEPT ![s] =
       [op |-> op, id |-> i, role |-> role, at |-> at, seen |-> None, entity |-> copy, new |-> new]]

Go(s, at) == requests' = [requests EXCEPT ![s].at = at]
End(s)    == requests' = [requests EXCEPT ![s] = None]

At(s, at) == requests[s] # None /\ requests[s].at = at

(* save() of an account: the unique index on the address may refuse it.    *)
Saveable(i, row) == Holders(row.email) \ {i} = {}

(* save() of a membership: it needs its account, and the unique index      *)
(* refuses a second one.                                                   *)
Storable(r) == Stored(r.id) /\ (r.seen = None => member[r.id] = None)

-----------------------------------------------------------------------------
(* AuthService.inviteUser                                                  *)

BeginInvite(s, e, role) ==
  /\ \/ \E i \in Holders(e) :
          /\ account[i].password
          /\ Begin(s, "invite", i, role, "grant", None, FALSE)
     \/ \E i \in Holders(e) :
          /\ Pending(i) /\ account[i].role = role /\ Room(i)
          /\ Begin(s, "invite", i, role, "save", account[i], FALSE)
     \/ /\ Holders(e) = {}
        /\ \E i \in Users : /\ Unused(i)
                            /\ Begin(s, "invite", i, role, "save", NewAccount(e, role), TRUE)
  /\ waiting

SaveInvited(s) ==
  LET r == requests[s]  row == [r.entity EXCEPT !.version = @ + 1] IN
  /\ At(s, "save")
  /\ IF Saveable(r.id, row)
     THEN account' = [account EXCEPT ![r.id] = row] /\ Go(s, "member")
     ELSE UNCHANGED account /\ End(s)
  /\ UNCHANGED member /\ unsent

FindMember(s) ==
  LET r == requests[s]  m == member[r.id] IN
  /\ At(s, "member")
  /\ requests' = [requests EXCEPT
       ![s] = [r EXCEPT !.at = IF m = None THEN "insert" ELSE "mail",
                        !.seen = IF Active(m) THEN None ELSE m]]
  /\ waiting

InsertMember(s) ==
  LET r == requests[s] IN
  /\ At(s, "insert")
  /\ IF Storable(r)
     THEN /\ member' = [member EXCEPT ![r.id] = [role |-> r.role, active |-> TRUE]]
          /\ Go(s, IF r.op = "invite" THEN "mail" ELSE "password")
     ELSE UNCHANGED member /\ End(s)
  /\ UNCHANGED account /\ unsent

(* The mail with the link arrives, or sending it fails.                    *)
SendInvite(s) ==
  LET r == requests[s]  v == r.entity.version + 1 IN
  /\ At(s, "mail")
  /\ \/ /\ links' = [links EXCEPT ![r.id] = @ \union {v}]
        /\ newest' = [newest EXCEPT ![r.id] = v]
        /\ IF r.op = "invite" /\ r.seen # None THEN Go(s, "activate") ELSE End(s)
     \/ Go(s, "undo") /\ UNCHANGED <<links, newest>>
  /\ UNCHANGED <<account, member, revoked, visits>>

Reactivate(s) ==
  LET r == requests[s] IN
  /\ At(s, "activate")
  /\ IF Storable(r)
     THEN member' = [member EXCEPT ![r.id] = [r.seen EXCEPT !.active = TRUE]] /\ End(s)
     ELSE UNCHANGED member /\ Go(s, "undo")
  /\ UNCHANGED account /\ unsent

\* a broken variant: the link that failed stays the current one
UndoInviteNot(s) ==
  /\ At(s, "undo") /\ requests[s].op = "invite" /\ End(s)
  /\ waiting

(* A new account is deleted, an invited one gets its row of before back.   *)
UndoInvite(s) ==
  LET r == requests[s] IN
  /\ At(s, "undo") /\ r.op = "invite" /\ End(s)
  /\ \/ /\ r.new
        /\ account' = [account EXCEPT ![r.id] = IF Stored(r.id) THEN Gone ELSE @]
        /\ member' = [member EXCEPT ![r.id] = None]
     \/ /\ ~r.new
        /\ account' = [account EXCEPT ![r.id] = IF Saveable(r.id, r.entity) THEN r.entity ELSE @]
        /\ UNCHANGED member
  /\ unsent

-----------------------------------------------------------------------------
(* AuthService.resendInvite; a superadmin need not name an organisation.   *)

BeginResend(s, i, scoped) ==
  /\ scoped => Active(member[i])
  /\ Room(i)
  /\ Begin(s, "resend", i, None, "find", None, FALSE)
  /\ waiting

FindPending(s) ==
  LET r == requests[s] IN
  /\ At(s, "find")
  /\ IF Pending(r.id)
     THEN requests' = [requests EXCEPT ![s] = [r EXCEPT !.at = "bump", !.entity = account[r.id]]]
     ELSE End(s)
  /\ waiting

BumpVersion(s) ==
  LET r == requests[s] IN
  /\ At(s, "bump") /\ Go(s, "mail")
  /\ account' = IF Stored(r.id)
                THEN [account EXCEPT ![r.id].version = r.entity.version + 1] ELSE account
  /\ UNCHANGED member /\ unsent

UndoResend(s) ==
  LET r == requests[s] IN
  /\ At(s, "undo") /\ r.op = "resend" /\ End(s)
  /\ account' = IF Stored(r.id) /\ account[r.id].version = r.entity.version + 1
                THEN [account EXCEPT ![r.id].version = r.entity.version] ELSE account
  /\ UNCHANGED member /\ unsent

-----------------------------------------------------------------------------
(* AuthService.acceptInvite                                                *)

OpenLink(v, i, n) ==
  /\ visits[v] = None /\ n \in links[i]
  /\ Pending(i) /\ account[i].version = n
  /\ visits' = [visits EXCEPT ![v] = [at |-> "count", id |-> i, version |-> n]]
  /\ UNCHANGED <<account, member, requests, links, newest, revoked>>

HasAccess(v) ==
  /\ visits[v] # None /\ visits[v].at = "count"
  /\ visits' = [visits EXCEPT ![v] = IF Active(member[visits[v].id])
                                     THEN [visits[v] EXCEPT !.at = "write"] ELSE None]
  /\ UNCHANGED <<account, member, requests, links, newest, revoked>>

\* a broken variant: the account is saved as it was when the link was opened
AcceptBySaving(v) ==
  LET i == visits[v].id IN
  /\ visits[v] # None /\ visits[v].at = "write"
  /\ account' = [account EXCEPT ![i] =
       IF @ = Gone THEN [NewAccount(CHOOSE e \in Emails : TRUE, "user") EXCEPT !.password = TRUE]
       ELSE IF Pending(i) /\ @.version = visits[v].version THEN [@ EXCEPT !.password = TRUE]
       ELSE @]
  /\ visits' = [visits EXCEPT ![v] = None]
  /\ UNCHANGED <<member, requests, links, newest, revoked>>

\* a broken variant: the link is not compared once more
AcceptAnyway(v) ==
  LET i == visits[v].id IN
  /\ visits[v] # None /\ visits[v].at = "write"
  /\ account' = IF Stored(i) THEN [account EXCEPT ![i].password = TRUE] ELSE account
  /\ visits' = [visits EXCEPT ![v] = None]
  /\ UNCHANGED <<member, requests, links, newest, revoked>>

Accept(v) ==
  LET i == visits[v].id IN
  /\ visits[v] # None /\ visits[v].at = "write"
  /\ account' = IF Pending(i) /\ account[i].version = visits[v].version
                THEN [account EXCEPT ![i].password = TRUE] ELSE account
  /\ visits' = [visits EXCEPT ![v] = None]
  /\ UNCHANGED <<member, requests, links, newest, revoked>>

-----------------------------------------------------------------------------
(* UsersController.update, create; AuthService.createLocalUser             *)

BeginChange(s, i, role) ==
  LET m == member[i]
      given == IF role # None THEN role ELSE IF m # None THEN m.role ELSE account[i].role IN
  /\ Stored(i)
  /\ Begin(s, "change", i, given,
           IF ActiveAdmin(m) /\ role \notin {None, "org_admin"} THEN "count" ELSE "grant",
           None, FALSE)
  /\ waiting

BeginCreate(s, e, role) ==
  /\ \/ \E i \in Holders(e) : Begin(s, "create", i, role, "grant", None, FALSE)
     \/ /\ Holders(e) = {}
        /\ \E i \in Users : /\ Unused(i)
                            /\ Begin(s, "create", i, role, "new", NewAccount(e, role), TRUE)
  /\ waiting

BeginLocal(s, e, role) ==
  /\ \/ \E i \in Holders(e) :
          account[i].password /\ Begin(s, "local", i, role, "grant", None, FALSE)
     \/ /\ Holders(e) = {}
        /\ \E i \in Users : /\ Unused(i)
                            /\ Begin(s, "local", i, role, "new", NewAccount(e, role), TRUE)
  /\ waiting

InsertAccount(s) ==
  LET r == requests[s] IN
  /\ At(s, "new")
  /\ IF Saveable(r.id, r.entity)
     THEN /\ account' = [account EXCEPT ![r.id] = r.entity]
          /\ Go(s, IF r.op = "create" THEN "grant" ELSE "insert")
     ELSE UNCHANGED account /\ End(s)
  /\ UNCHANGED member /\ unsent

SetPassword(s) ==
  LET r == requests[s] IN
  /\ At(s, "password") /\ End(s)
  /\ account' = [account EXCEPT ![r.id] = IF Saveable(r.id, r.entity)
                                          THEN [r.entity EXCEPT !.password = TRUE] ELSE @]
  /\ UNCHANGED member /\ unsent

(* addMembership, and the part of inviteUser about an existing account.    *)
ReadMember(s) ==
  LET r == requests[s] IN
  /\ At(s, "grant")
  /\ IF r.op = "invite" /\ Active(member[r.id]) THEN End(s)
     ELSE requests' = [requests EXCEPT ![s] = [r EXCEPT !.at = "store", !.seen = member[r.id]]]
  /\ waiting

StoreMember(s) ==
  LET r == requests[s] IN
  /\ At(s, "store") /\ End(s)
  /\ member' = IF Storable(r)
               THEN [member EXCEPT ![r.id] = [role |-> r.role, active |-> TRUE]] ELSE member
  /\ UNCHANGED account /\ unsent

-----------------------------------------------------------------------------
(* UsersController.remove and removeMembership, UsersService.removeAccount *)

BeginRemove(s, i) ==
  /\ member[i] # None /\ Room(i)
  /\ Begin(s, "remove", i, None, IF member[i].role = "org_admin" THEN "count" ELSE "disable",
           None, FALSE)
  /\ waiting

BeginDelete(s, i) ==
  /\ Stored(i)
  /\ Begin(s, "delete", i, None, IF ActiveAdmin(member[i]) THEN "count" ELSE "delete", None, FALSE)
  /\ waiting

\* a broken variant: one administrator is enough to remove one
CountAdminsOffByOne(s) ==
  LET r == requests[s] IN
  /\ At(s, "count")
  /\ IF Cardinality(Admins) < 1 THEN End(s)
     ELSE Go(s, CASE r.op = "change" -> "grant" [] r.op = "remove" -> "disable" [] OTHER -> "delete")
  /\ waiting

CountAdmins(s) ==
  LET r == requests[s] IN
  /\ At(s, "count")
  /\ IF Cardinality(Admins) <= 1 THEN End(s)
     ELSE Go(s, CASE r.op = "change" -> "grant" [] r.op = "remove" -> "disable" [] OTHER -> "delete")
  /\ waiting

\* a broken variant: the invitations of a removed member stay valid
DisableOnly(s) ==
  LET i == requests[s].id IN
  /\ At(s, "disable") /\ End(s)
  /\ IF member[i] = None THEN UNCHANGED <<member, newest, revoked>>
     ELSE /\ member' = [member EXCEPT ![i].active = FALSE]
          /\ newest' = [newest EXCEPT ![i] = None]
          /\ revoked' = [revoked EXCEPT ![i] = @ \union links[i]]
  /\ UNCHANGED <<account, links, visits>>

DisableMembership(s) ==
  LET i == requests[s].id IN
  /\ At(s, "disable") /\ End(s)
  /\ IF member[i] = None THEN UNCHANGED <<account, member, newest, revoked>>
     ELSE /\ member' = [member EXCEPT ![i].active = FALSE]
          /\ account' = IF Pending(i) THEN [account EXCEPT ![i].version = @ + 1] ELSE account
          /\ newest' = [newest EXCEPT ![i] = None]
          /\ revoked' = [revoked EXCEPT ![i] = @ \union links[i]]
  /\ UNCHANGED <<links, visits>>

DeleteAccount(s) ==
  LET i == requests[s].id IN
  /\ At(s, "delete") /\ End(s)
  /\ account' = IF Stored(i) THEN [account EXCEPT ![i] = Gone] ELSE account
  /\ member' = [member EXCEPT ![i] = None]
  /\ unsent

-----------------------------------------------------------------------------

Administer(s) ==
  \/ \E e \in Emails, role \in Role :
       BeginInvite(s, e, role) \/ BeginCreate(s, e, role) \/ BeginLocal(s, e, role)
  \/ \E i \in Users : \/ \E scoped \in BOOLEAN : BeginResend(s, i, scoped)
                      \/ \E role \in Role \union {None} : BeginChange(s, i, role)
                      \/ BeginRemove(s, i) \/ BeginDelete(s, i)
  \/ SaveInvited(s) \/ FindMember(s) \/ InsertMember(s) \/ SendInvite(s) \/ Reactivate(s)
  \/ UndoInvite(s) \/ FindPending(s) \/ BumpVersion(s) \/ UndoResend(s)
  \/ InsertAccount(s) \/ SetPassword(s) \/ ReadMember(s) \/ StoreMember(s)
  \/ CountAdmins(s) \/ DisableMembership(s) \/ DeleteAccount(s)

AccountsNext ==
  \/ \E s \in Slots : Administer(s)
  \/ \E v \in Visitors : \/ \E i \in Users, n \in 0..MaxVersion : OpenLink(v, i, n)
                         \/ HasAccess(v) \/ Accept(v)

AccountsSpec == AccountsInit /\ [][AccountsNext]_accountVars

-----------------------------------------------------------------------------
(* The types of the rows and of the requests.                              *)
AccountsTypeOK ==
  /\ account \in [Users -> Account \union {Fresh, Gone}]
  /\ member \in [Users -> Membership \union {None}]
  /\ requests \in [Slots -> Request \union {None}]
  /\ visits \in [Visitors -> Visit \union {None}]
  /\ links \in [Users -> SUBSET Nat] /\ revoked \in [Users -> SUBSET Nat]
  /\ newest \in [Users -> Nat \union {None}]

(* An operation on an account that exists removes the last administrator   *)
(* only if it does not count them: create and createLocalUser do not;      *)
(* update, remove, removeMembership and removeAccount do.                  *)
CheckedKeepAdmin ==
  [][Admins # {} /\ Admins' = {} =>
       \E s \in Busy : /\ requests'[s] = None
                       /\ requests[s].new \/ requests[s].op \in {"create", "local"}]_accountVars

Inviting(i) == \E s \in Busy : requests[s].id = i /\ requests[s].op \in {"invite", "resend"}

(* The last invitation that reached a person opens the account until the   *)
(* access is removed, also when a later mail could not be sent: the        *)
(* compensations of inviteUser and resendInvite.                           *)
NewestLinkWorks ==
  \A i \in Users : Pending(i) /\ newest[i] # None /\ ~Inviting(i) => account[i].version = newest[i]

(* An invitation sent before an access was removed never becomes valid     *)
(* again, even when access is granted once more: disableMembership.        *)
RevokedLinksDead == \A i \in Users : Pending(i) => account[i].version \notin revoked[i]

(* Only a person with an active access at that moment activates an account,*)
(* however old the check acceptInvite made.                                *)
ActivationNeedsAccess ==
  [][\A i \in Users : Pending(i) /\ Stored(i)' /\ account'[i].password => Active(member[i])]_accountVars

(* A deleted account does not come back with a link that was opened before,*)
(* and no access is stored for it: acceptInvite, removeAccount and the     *)
(* compensation of inviteUser.                                             *)
GoneStaysGone ==
  [][\A i \in Users : account[i] = Gone => account'[i] = Gone /\ member'[i] = None]_accountVars
=============================================================================
