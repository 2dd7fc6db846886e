--------------------------- MODULE BrowserSession ---------------------------
(***************************************************************************)
(* How the tabs of one browser keep their sessions: lib/api.ts,            *)
(* lib/auth.tsx, lib/authStorage.ts and lib/sessionTimeout.ts, with        *)
(* AuthService and JwtStrategy behind them.                                *)
(*                                                                         *)
(* A session is one row of refresh_sessions.  Its access token and its     *)
(* CSRF token are stored together, per tab; its refresh token is a cookie, *)
(* which all tabs share.  A call carries the access token; refused with    *)
(* 401, it waits for a renewal, which trades the cookie and the CSRF token *)
(* for a new session, and is sent once more.                               *)
(*                                                                         *)
(* Continuations of one answer run before anything else.  The number of    *)
(* the generation (authSessionGeneration) is only ever compared with the   *)
(* current one, so a call or a renewal keeps whether it still is.          *)
(***************************************************************************)
EXTENDS Integers, FiniteSets

CONSTANTS
  Tabs,      \* tabs of one browser
  Users,
  Ids,       \* bound: numbers of the sessions of a person, enough of them
  SignsIn,   \* bound: the pairs of a tab and a person who signs in there
  Active,    \* bound: the tabs that reload, renew by timer or load the profile again
  MaxStrays, \* bound: unheard messages when somebody reloads, signs in or out
  None

Sessions == Users \X Ids
Owner(s) == s[1]

Kinds   == {"renew", "login", "logout"}
Message == [kind : Kinds, tab : Tabs \union {None}, who : Users \union {None},
            cookie : Sessions \union {None}, csrf : Sessions \union {None},
            at : {"sent", "found", "done", "refused"}, new : Sessions \union {None}]
Call == [kind : {"boot", "profile"}, token : Sessions \union {None},
         current : BOOLEAN, retry : BOOLEAN,
         at : {"sent", "ok", "refused", "waiting"}, who : Users \union {None}]
Page == [stored : Sessions \union {None}, user : Users \union {None}, loading : BOOLEAN,
         timer : BOOLEAN, waits : BOOLEAN, call : Call \union {None}]

ASSUME BrowserConstants ==
  /\ Ids \subseteq Nat /\ MaxStrays \in Nat
  /\ SignsIn \subseteq Tabs \X Users /\ Active \subseteq Tabs
  /\ None \notin Tabs \union Users \union Sessions \union Call

VARIABLES
  live,     \* the sessions that have a row
  cookie,   \* the refresh token of the browser, or None
  page,     \* page[t]: the tokens of tab t, who is shown, its timer and its call
  net       \* messages under way; tab is None when no page waits for the answer

vars == <<live, cookie, page, net>>

(* Nobody in the browser has anything of session s.                        *)
Held == (UNION {{m.cookie, m.csrf, m.new} : m \in net}) \union {cookie}
        \union {page[t].stored : t \in Tabs}
        \union {page[t].call.token : t \in {u \in Tabs : page[u].call # None}}
Unused(u) == {i \in Ids : <<u, i>> \notin Held}
NewSession(u) == <<u, CHOOSE i \in Unused(u) : TRUE>>

NewCall(kind, token) ==
  [kind |-> kind, token |-> token, current |-> TRUE, retry |-> FALSE, at |-> "sent", who |-> None]
NewMessage(kind, t, who, c, csrf) ==
  [kind |-> kind, tab |-> t, who |-> who, cookie |-> c, csrf |-> csrf, at |-> "sent", new |-> None]
Answered(m, how, s) ==
  [m EXCEPT !.who = None, !.cookie = None, !.csrf = None, !.at = how, !.new = s]

Blank == [stored |-> None, user |-> None, loading |-> FALSE, timer |-> FALSE,
          waits |-> FALSE, call |-> None]

Init ==
  /\ live = {} /\ cookie = None /\ net = {}
  /\ page = [t \in Tabs |-> Blank]

-----------------------------------------------------------------------------
(* What a page does with itself, as functions of the page.                 *)

(* The effect of useSessionTimeout: a promise it waited for is forgotten.  *)
Rearmed(p) == [p EXCEPT !.waits = FALSE, !.timer = p.user # None /\ p.stored # None]

(* applyResolvedUser: with every new user the effect runs again.           *)
Resolved(p, u) == Rearmed([p EXCEPT !.user = u])

(* invalidateAuthSession, for the call under way.                          *)
Ended(p) == IF p.call = None THEN p ELSE [p EXCEPT !.call.current = FALSE]

ClearSession(p) == Rearmed([Ended(p) EXCEPT !.stored = None, !.user = None])
ApplyAuthenticated(p, s) == Resolved([Ended(p) EXCEPT !.stored = s], Owner(s))

(* The call fails: the first call of a page ends the session, any other is *)
(* ignored.                                                                *)
Rejected(p) ==
  LET q == [p EXCEPT !.call = None]
  IN  IF p.call.kind = "boot" /\ p.call.current
      THEN [ClearSession(q) EXCEPT !.loading = FALSE] ELSE q

Waiting(p) == p.call # None /\ p.call.at = "waiting" /\ p.call.current

-----------------------------------------------------------------------------
(* Renewals: the one all callers of refreshAccessToken in t share.         *)
Renewals(t) == {m \in net : m.kind = "renew" /\ m.tab = t}
NewRenewal(t) == NewMessage("renew", t, None, cookie, page[t].stored)
MayRenew(t) == Renewals(t) # {} \/ page[t].stored # None

WithRenewal(t) == IF Renewals(t) = {} THEN net \union {NewRenewal(t)} ELSE net

(* The answer to the renewal of t: invalidateAuthSession forgets it.       *)
Forget(messages, t) ==
  {IF m.kind = "renew" /\ m.tab = t THEN [m EXCEPT !.tab = None] ELSE m : m \in messages}

(* a broken variant: the new tokens are used but not stored *)
RenewedUnstored(p, s) ==
  LET q == [p EXCEPT !.timer = @ \/ p.waits, !.waits = FALSE]
  IN  IF Waiting(p) THEN [q EXCEPT !.call.token = s, !.call.at = "sent", !.call.retry = TRUE] ELSE q

Renewed(p, s) ==
  LET q == [p EXCEPT !.stored = s, !.timer = @ \/ p.waits, !.waits = FALSE]
  IN  IF Waiting(p) THEN [q EXCEPT !.call.token = s, !.call.at = "sent", !.call.retry = TRUE] ELSE q

(* a broken variant: a failed renewal answers nobody *)
NotRenewedSilently(p) == [p EXCEPT !.stored = None]

NotRenewed(p) ==
  LET q == [p EXCEPT !.stored = None, !.waits = FALSE]
      r == IF Waiting(p) THEN Rejected(q) ELSE q
  IN  IF p.waits THEN ClearSession(r) ELSE r

-----------------------------------------------------------------------------
(* The backend.                                                            *)

(* a broken variant: the cookie alone is enough *)
FindWithoutCsrf(m) ==
  /\ m.kind = "renew" /\ m.at = "sent"
  /\ net' = (net \ {m}) \union
              {IF m.cookie \in live THEN [m EXCEPT !.at = "found"] ELSE Answered(m, "refused", None)}
  /\ UNCHANGED <<live, cookie, page>>

(* getSessionForRefreshToken and the comparison of the CSRF token.         *)
Find(m) ==
  /\ m.kind = "renew" /\ m.at = "sent"
  /\ net' = (net \ {m}) \union
              {IF m.cookie \in live /\ m.csrf = m.cookie
               THEN [m EXCEPT !.at = "found"] ELSE Answered(m, "refused", None)}
  /\ UNCHANGED <<live, cookie, page>>

(* The row goes, however many there were, and a new session is issued.     *)
Rotate(m) ==
  /\ m.kind = "renew" /\ m.at = "found" /\ Unused(Owner(m.cookie)) # {}
  /\ LET s == NewSession(Owner(m.cookie))
     IN  /\ net' = (net \ {m}) \union {Answered(m, "done", s)}
         /\ live' = (live \ {m.cookie}) \union {s}
  /\ UNCHANGED <<cookie, page>>

SignIn(m) ==
  /\ m.kind = "login" /\ m.at = "sent" /\ Unused(m.who) # {}
  /\ LET s == NewSession(m.who)
     IN  /\ net' = (net \ {m}) \union {Answered(m, "done", s)}
         /\ live' = live \union {s}
  /\ UNCHANGED <<cookie, page>>

SignOut(m) ==
  /\ m.kind = "logout" /\ m.at = "sent"
  /\ net' = (net \ {m}) \union {Answered(m, "done", None)}
  /\ live' = live \ {m.cookie}
  /\ UNCHANGED <<cookie, page>>

Serve(m) == Find(m) \/ Rotate(m) \/ SignIn(m) \/ SignOut(m)

(* JwtStrategy.validate and GET /auth/me.  A token may have run out before *)
(* it is renewed; one that was renewed for a call lasts until it is sent   *)
(* again.                                                                  *)
Accept(t) ==
  /\ page[t].call # None /\ page[t].call.at = "sent" /\ page[t].call.token \in live
  /\ page' = [page EXCEPT ![t].call = [@ EXCEPT !.at = "ok", !.token = None, !.who = Owner(page[t].call.token)]]
  /\ UNCHANGED <<live, cookie, net>>

Refuse(t) ==
  /\ page[t].call # None /\ page[t].call.at = "sent"
  /\ page[t].call.token \notin live \/ ~page[t].call.retry
  /\ page' = [page EXCEPT ![t].call.at = "refused", ![t].call.token = None]
  /\ UNCHANGED <<live, cookie, net>>

Answer(t) == Accept(t) \/ Refuse(t)

(* A session is revoked from elsewhere, or is too old.  One the browser    *)
(* has lost track of makes no difference to it.                            *)
Revoke(s) ==
  /\ s \in live \intersect Held /\ live' = live \ {s}
  /\ UNCHANGED <<cookie, page, net>>

-----------------------------------------------------------------------------
(* Answers that reach the browser.                                         *)

(* The browser takes the cookie of every answer, whoever still waits.      *)
Hear(m) ==
  /\ m.at \in {"done", "refused"}
  /\ cookie' = IF m.at = "done" THEN m.new ELSE cookie
  /\ net' = IF m.kind = "login" THEN Forget(net \ {m}, m.tab) ELSE net \ {m}
  /\ page' = CASE m.tab = None -> page
               [] m.tab # None /\ m.kind = "login" ->
                    [page EXCEPT ![m.tab] = ApplyAuthenticated(@, m.new)]
               [] m.tab # None /\ m.kind = "renew" ->
                    [page EXCEPT ![m.tab] = IF m.at = "done" THEN Renewed(@, m.new) ELSE NotRenewed(@)]
  /\ UNCHANGED live

(* A message or its answer is lost.                                        *)
Lose(m) ==
  /\ net' = net \ {m}
  /\ page' = IF m.kind = "renew" /\ m.tab # None
             THEN [page EXCEPT ![m.tab] = NotRenewed(@)] ELSE page
  /\ UNCHANGED <<live, cookie>>

DeliverOk(t) ==
  /\ page[t].call # None /\ page[t].call.at = "ok"
  /\ LET c == page[t].call
         p == [page[t] EXCEPT !.call = None]
     IN  page' = [page EXCEPT ![t] =
                    IF c.current
                    THEN [Resolved(p, c.who) EXCEPT !.loading = @ /\ c.kind # "boot"] ELSE p]
  /\ UNCHANGED <<live, cookie, net>>

(* The interceptor of answers: a call refused for the first time waits.    *)
DeliverRefusal(t) ==
  /\ page[t].call # None /\ page[t].call.at = "refused"
  /\ IF page[t].call.current /\ ~page[t].call.retry /\ MayRenew(t)
     THEN /\ page' = [page EXCEPT ![t].call.at = "waiting"] /\ net' = WithRenewal(t)
     ELSE /\ page' = [page EXCEPT ![t] = Rejected(@)]
          /\ net' = IF page[t].call.kind = "boot" THEN Forget(net, t) ELSE net
  /\ UNCHANGED <<live, cookie>>

(* The renewal a call waited for belongs to an ended session.              *)
DeliverNothing(t) ==
  /\ page[t].call # None /\ page[t].call.at = "waiting" /\ ~page[t].call.current
  /\ page' = [page EXCEPT ![t] = Rejected(@)]
  /\ UNCHANGED <<live, cookie, net>>

Fail(t) ==
  /\ page[t].call # None /\ page[t].call.at \in {"sent", "ok"}
  /\ page' = [page EXCEPT ![t] = Rejected(@)]
  /\ net' = IF page[t].call.kind = "boot" THEN Forget(net, t) ELSE net
  /\ UNCHANGED <<live, cookie>>

Deliver(t) == DeliverOk(t) \/ DeliverRefusal(t) \/ DeliverNothing(t)
-----------------------------------------------------------------------------
(* What people and timers cause in a tab.                                  *)
Strays(messages) == Cardinality({m \in messages : m.tab = None})

Login(t, u) ==
  /\ <<t, u>> \in SignsIn /\ page[t].user = None /\ ~page[t].loading
  /\ ~\E m \in net : m.kind = "login" /\ m.tab = t
  /\ Strays(net) <= MaxStrays
  /\ net' = net \union {NewMessage("login", t, u, None, None)}
  /\ UNCHANGED <<live, cookie, page>>

Logout(t) ==
  /\ page[t].user # None
  /\ page' = [page EXCEPT ![t] = ClearSession(@)]
  /\ net' = Forget(net, t) \union
              (IF page[t].stored # None THEN {NewMessage("logout", None, None, cookie, None)} ELSE {})
  /\ Strays(net) < MaxStrays
  /\ UNCHANGED <<live, cookie>>

(* The timer of the access token: renew, or sign out where nothing is left.*)
Timer(t) ==
  /\ t \in Active /\ page[t].timer
  /\ IF MayRenew(t)
     THEN page' = [page EXCEPT ![t].timer = FALSE, ![t].waits = TRUE] /\ net' = WithRenewal(t)
     ELSE page' = [page EXCEPT ![t] = ClearSession(@)] /\ net' = Forget(net, t)
  /\ UNCHANGED <<live, cookie>>

(* Every other page of the application runs the effect again.              *)
Navigate(t) ==
  /\ page[t].user # None
  /\ page' = [page EXCEPT ![t] = Rearmed(@)]
  /\ UNCHANGED <<live, cookie, net>>

(* Back in the tab: the timer is set again, and refreshProfile.            *)
Return(t) ==
  /\ t \in Active /\ page[t].user # None /\ page[t].call = None
  /\ page' = [page EXCEPT ![t].timer = page[t].stored # None,
                          ![t].call = NewCall("profile", page[t].stored)]
  /\ UNCHANGED <<live, cookie, net>>

(* Reload: what was stored is tried with GET /auth/me; nobody waits for    *)
(* the answers to the old page any more.                                   *)
Reload(t) ==
  /\ t \in Active
  /\ LET s == page[t].stored
     IN  page' = [page EXCEPT ![t] =
                    [Blank EXCEPT !.stored = s, !.loading = s # None,
                                  !.call = IF s = None THEN None ELSE NewCall("boot", s)]]
  /\ net' = {IF m.tab = t THEN [m EXCEPT !.tab = None] ELSE m : m \in net}
  /\ Strays(net') <= MaxStrays
  /\ UNCHANGED <<live, cookie>>

Next ==
  \/ \E m \in net : Serve(m) \/ Hear(m) \/ Lose(m)
  \/ \E s \in Sessions : Revoke(s)
  \/ \E t \in Tabs :
       \/ Answer(t) \/ Deliver(t) \/ Fail(t)
       \/ Logout(t) \/ Timer(t) \/ Navigate(t) \/ Return(t) \/ Reload(t)
       \/ \E u \in Users : Login(t, u)

Spec == Init /\ [][Next]_vars

-----------------------------------------------------------------------------
(* Every variable has its type, and each tab has one renewal at most.      *)
TypeOK ==
  /\ live \subseteq Sessions
  /\ cookie \in Sessions \union {None}
  /\ page \in [Tabs -> Page] /\ net \subseteq Message
  /\ \A t \in Tabs : \A m, n \in Renewals(t) : m = n

(* A tab only ever has a session of the person it shows: however late an   *)
(* answer is, and whoever signed in beside it with the same cookie, the    *)
(* CSRF token and the generations keep a stranger's session out, and a     *)
(* tab that shows nobody has none (refreshAccessToken, refreshSession).    *)
OwnSession ==
  \A t \in Tabs : LET p == page[t] IN
    (p.stored # None /\ ~p.loading) => p.user = Owner(p.stored)

(* The session of tab t can still be renewed, or a new one is on its way.  *)
Sound(t) ==
  \/ page[t].stored # None /\ page[t].stored = cookie /\ cookie \in live
  \/ \E m \in Renewals(t) : m.at = "found" \/ (m.at = "done" /\ m.new \in live)

(* What else can end it: its own person, the backend, the network, or      *)
(* another tab, or an answer to a page or a session that is no more.       *)
Disturbed(t) ==
  \/ Logout(t) \/ Reload(t) \/ Fail(t)
  \/ \E s \in Sessions : Revoke(s)
  \/ \E m \in net : Lose(m) \/ (m.tab # t /\ (Serve(m) \/ Hear(m)))

(* What a tab does on its own, its timer, its calls and their retries at   *)
(* any moment, never loses its session: they share one renewal, so no      *)
(* refresh token is spent twice (refreshAccessTokenPromise).               *)
KeepsItsSession == [][\A t \in Tabs : Sound(t) => (Sound(t)' \/ Disturbed(t))]_vars

(* Whoever waits for a renewal, the timer or a call, waits for one that is *)
(* under way, in whatever order sessions end, calls are refused and        *)
(* answers are lost: nobody waits for ever, and no late caller is forgotten*)
(* (the promise all share, and its `finally`).                             *)
WaitersAreServed ==
  \A t \in Tabs : page[t].waits \/ Waiting(page[t]) => Renewals(t) # {}
=============================================================================
