------------------------- MODULE BrowserSessionProof -------------------------
(***************************************************************************)
(* Theorems about BrowserSession, for any number of tabs, persons and      *)
(* messages under way.                                                     *)
(*                                                                         *)
(* The argument: a session that is in no message but the one that brings   *)
(* it is known to nobody (Fresh), so no answer disturbs another tab by     *)
(* chance.  While t waits for a renewal, its tokens are those the renewal  *)
(* was sent with (RenewalOK), so what comes back belongs to the person t   *)
(* shows; and a tab that starts a renewal or a sign-in leaves the state    *)
(* in which it could start the other (TabOK).                              *)
(***************************************************************************)
EXTENDS BrowserSession, TLAPS

(* The sign-ins that tab t waits for.                                      *)
Logins(t) == {m \in net : m.kind = "login" /\ m.tab = t}

(* What a message says at each stage.                                      *)
NetOK ==
  \A m \in net :
    /\ m.kind = "login" => m.at \in {"sent", "done"} /\ (m.at = "sent" => m.who \in Users)
    /\ m.kind = "logout" => m.tab = None /\ m.at \in {"sent", "done"}
    /\ m.kind = "renew" /\ m.at = "found" => m.cookie \in Sessions /\ m.csrf = m.cookie
    /\ m.kind # "logout" /\ m.at = "done" => m.new \in Sessions
    /\ m.at # "done" => m.new = None

(* A page that loads shows nobody and has its first call under way; one    *)
(* that does not shows the owner of its tokens.                            *)
PageOK(p) ==
  /\ p.loading => /\ p.user = None /\ ~p.timer /\ ~p.waits
                  /\ p.call # None /\ p.call.kind = "boot" /\ p.call.current
                  /\ p.call.at = "waiting" => ~p.call.retry
                  /\ p.call.retry /\ p.call.at = "sent" => p.call.token = p.stored
  /\ p.call # None /\ p.call.kind = "boot" => p.loading
  /\ p.timer \/ p.waits => p.user # None
  /\ p.call # None /\ p.call.at = "ok" => p.call.who \in Users
  /\ p.call # None /\ p.call.current /\ p.stored # None =>
       /\ p.call.at = "ok" => p.call.who = Owner(p.stored)
       /\ p.call.token # None => Owner(p.call.token) = Owner(p.stored)
  /\ p.stored # None /\ ~p.loading => p.user = Owner(p.stored)

(* Renewal m of page p: sent with the tokens that p still has.  When it is *)
(* done, those have gone; when it is refused, they were not worth anything.*)
RenewalOK(m, p) ==
  /\ p.stored # None
  /\ p.loading => p.call.at = "waiting"
  /\ m.at \in {"sent", "found"} => m.csrf = p.stored
  /\ m.at = "sent" /\ p.stored = cookie => m.cookie = cookie
  /\ m.at = "done" => Owner(m.new) = Owner(p.stored) /\ p.stored \notin live
  /\ m.at = "refused" => p.stored # cookie \/ p.stored \notin live

(* A tab signs in or renews, never both, and nobody waits for nothing.     *)
TabOK(t) ==
  /\ PageOK(page[t])
  /\ page[t].loading /\ page[t].call.retry /\ page[t].call.at = "refused" => page[t].stored \notin live
  /\ \A m \in Renewals(t) : RenewalOK(m, page[t])
  /\ \A m \in Logins(t) : page[t].stored = None /\ ~page[t].loading
  /\ \A m, n \in Logins(t) : m = n
  /\ page[t].waits \/ Waiting(page[t]) => Renewals(t) # {}

(* A session an answer brings is known to nobody else in the browser.      *)
Fresh ==
  \A m \in net : m.new # None =>
    /\ m.new # cookie
    /\ \A t \in Tabs : page[t].stored # m.new
    /\ \A n \in net : n.cookie # m.new /\ n.csrf # m.new /\ (n.new = m.new => n = m)

TabsOK == \A t \in Tabs : TabOK(t)

IInv == TypeOK /\ NetOK /\ TabsOK /\ Fresh

-----------------------------------------------------------------------------
(* What the functions of a page do.                                        *)

LEMMA RearmedIs ==
  ASSUME NEW p \in Page
  PROVE  LET q == Rearmed(p) IN
         /\ q \in Page /\ q.stored = p.stored /\ q.user = p.user /\ q.loading = p.loading
         /\ q.call = p.call /\ q.waits = FALSE
         /\ q.timer => p.user # None /\ p.stored # None
<1> DEFINE timer == p.user # None /\ p.stored # None
<1>1. timer \in BOOLEAN
  OBVIOUS
<1>2. Rearmed(p) = [p EXCEPT !.waits = FALSE, !.timer = timer]
  BY DEF Rearmed
<1> HIDE DEF timer
<1>3. LET q == Rearmed(p) IN
      /\ q \in Page /\ q.stored = p.stored /\ q.user = p.user /\ q.loading = p.loading
      /\ q.call = p.call /\ q.waits = FALSE /\ q.timer = timer
  BY <1>1, <1>2 DEF Page
<1>. QED
  BY <1>3 DEF timer

LEMMA ResolvedIs ==
  ASSUME NEW p \in Page, NEW u \in Users \union {None}
  PROVE  LET q == Resolved(p, u) IN
         /\ q \in Page /\ q.stored = p.stored /\ q.user = u /\ q.loading = p.loading
         /\ q.call = p.call /\ q.waits = FALSE
         /\ q.timer => u # None
<1> DEFINE r == [p EXCEPT !.user = u]
<1>1. r \in Page /\ r.stored = p.stored /\ r.user = u /\ r.loading = p.loading /\ r.call = p.call
  BY DEF Page
<1> HIDE DEF r
<1>2. Resolved(p, u) = Rearmed(r)
  BY DEF Resolved, r
<1>3. LET q == Rearmed(r) IN
      /\ q \in Page /\ q.stored = r.stored /\ q.user = r.user /\ q.loading = r.loading
      /\ q.call = r.call /\ q.waits = FALSE /\ (q.timer => r.user # None)
  BY <1>1, RearmedIs
<1>. QED
  BY <1>1, <1>2, <1>3

(* What is left of a call whose session has ended.                         *)
Stale(c, d) ==
  IF c = None THEN d = None
  ELSE /\ d # None /\ d.current = FALSE /\ d.kind = c.kind /\ d.token = c.token
       /\ d.retry = c.retry /\ d.at = c.at /\ d.who = c.who

LEMMA EndedIs ==
  ASSUME NEW p \in Page
  PROVE  LET q == Ended(p) IN
         /\ q \in Page /\ q.stored = p.stored /\ q.user = p.user /\ q.loading = p.loading
         /\ q.timer = p.timer /\ q.waits = p.waits /\ Stale(p.call, q.call)
<1>1. CASE p.call = None
  BY <1>1 DEF Ended, Stale
<1>2. CASE p.call # None
  <2> DEFINE d == [p.call EXCEPT !.current = FALSE]
  <2>1. p.call \in Call
    BY <1>2 DEF Page
  <2>2. d \in Call /\ d.current = FALSE /\ d.kind = p.call.kind /\ d.token = p.call.token
        /\ d.retry = p.call.retry /\ d.at = p.call.at /\ d.who = p.call.who
    BY <2>1 DEF Call
  <2>3. d # None
    BY <2>2, BrowserConstants
  <2> HIDE DEF d
  <2>4. Ended(p) = [p EXCEPT !.call = d]
    BY <1>2, <2>1 DEF Ended, d
  <2>5. LET q == Ended(p) IN
        /\ q \in Page /\ q.stored = p.stored /\ q.user = p.user /\ q.loading = p.loading
        /\ q.timer = p.timer /\ q.waits = p.waits /\ q.call = d
    BY <2>2, <2>4 DEF Page
  <2>. QED
    BY <1>2, <2>2, <2>3, <2>5 DEF Stale
<1>. QED
  BY <1>1, <1>2

LEMMA ClearSessionIs ==
  ASSUME NEW p \in Page
  PROVE  LET q == ClearSession(p) IN
         /\ q \in Page /\ q.stored = None /\ q.user = None /\ q.loading = p.loading
         /\ q.timer = FALSE /\ q.waits = FALSE /\ Stale(p.call, q.call)
<1> DEFINE e == Ended(p)  r == [e EXCEPT !.stored = None, !.user = None]
<1>1. e \in Page /\ e.loading = p.loading /\ Stale(p.call, e.call)
  BY EndedIs
<1> HIDE DEF e
<1>2. r \in Page /\ r.stored = None /\ r.user = None /\ r.loading = e.loading /\ r.call = e.call
  BY <1>1 DEF Page
<1>3. ClearSession(p) = Rearmed(r)
  BY DEF ClearSession, e
<1> HIDE DEF r
<1>4. LET q == Rearmed(r) IN
      /\ q \in Page /\ q.stored = r.stored /\ q.user = r.user /\ q.loading = r.loading
      /\ q.call = r.call /\ q.waits = FALSE /\ (q.timer => r.user # None)
  BY <1>2, RearmedIs
<1>5. Rearmed(r).timer = FALSE
  <2>1. Rearmed(r).timer \in BOOLEAN
    BY <1>4 DEF Page
  <2>. QED
    BY <1>2, <1>4, <2>1
<1>. QED
  BY <1>1, <1>2, <1>3, <1>4, <1>5

LEMMA ApplyAuthenticatedIs ==
  ASSUME NEW p \in Page, NEW s \in Sessions
  PROVE  LET q == ApplyAuthenticated(p, s) IN
         /\ q \in Page /\ q.stored = s /\ q.user = Owner(s) /\ q.loading = p.loading
         /\ q.waits = FALSE /\ Stale(p.call, q.call)
<1> DEFINE e == Ended(p)  r == [e EXCEPT !.stored = s]
<1>1. e \in Page /\ e.loading = p.loading /\ Stale(p.call, e.call)
  BY EndedIs
<1> HIDE DEF e
<1>2. r \in Page /\ r.stored = s /\ r.loading = e.loading /\ r.call = e.call
  BY <1>1 DEF Page
<1>3. ApplyAuthenticated(p, s) = Resolved(r, Owner(s))
  BY DEF ApplyAuthenticated, e
<1>4. PICK u \in Users \union {None} : u = Owner(s)
  BY DEF Owner, Sessions
<1> HIDE DEF r
<1>5. LET q == Resolved(r, u) IN
      /\ q \in Page /\ q.stored = r.stored /\ q.user = u /\ q.loading = r.loading
      /\ q.call = r.call /\ q.waits = FALSE
  BY <1>2, ResolvedIs
<1>. QED
  BY <1>1, <1>2, <1>3, <1>4, <1>5

LEMMA WithoutCall ==
  ASSUME NEW p \in Page
  PROVE  LET q == [p EXCEPT !.call = None] IN
         /\ q \in Page /\ q.stored = p.stored /\ q.user = p.user /\ q.loading = p.loading
         /\ q.timer = p.timer /\ q.waits = p.waits /\ q.call = None
  BY DEF Page

LEMMA RejectedIs ==
  ASSUME NEW p \in Page, p.call # None
  PROVE  LET q == Rejected(p)  first == p.call.kind = "boot" /\ p.call.current IN
         /\ q \in Page /\ q.call = None
         /\ first => /\ q.stored = None /\ q.user = None /\ q.loading = FALSE
                     /\ q.timer = FALSE /\ q.waits = FALSE
         /\ ~first => /\ q.stored = p.stored /\ q.user = p.user /\ q.loading = p.loading
                      /\ q.timer = p.timer /\ q.waits = p.waits
<1> DEFINE r == [p EXCEPT !.call = None]
<1>1. /\ r \in Page /\ r.stored = p.stored /\ r.user = p.user /\ r.loading = p.loading
      /\ r.timer = p.timer /\ r.waits = p.waits /\ r.call = None
  BY WithoutCall
<1> HIDE DEF r
<1>2. CASE p.call.kind = "boot" /\ p.call.current
  <2> DEFINE c == ClearSession(r)
  <2>1. /\ c \in Page /\ c.stored = None /\ c.user = None
        /\ c.timer = FALSE /\ c.waits = FALSE /\ c.call = None
    BY <1>1, ClearSessionIs DEF Stale
  <2> HIDE DEF c
  <2>2. Rejected(p) = [c EXCEPT !.loading = FALSE]
    BY <1>2 DEF Rejected, c, r
  <2>. QED
    BY <1>2, <2>1, <2>2 DEF Page
<1>3. CASE ~(p.call.kind = "boot" /\ p.call.current)
  <2>1. Rejected(p) = r
    BY <1>3 DEF Rejected, r
  <2>. QED
    BY <1>1, <1>3, <2>1
<1>. QED
  BY <1>2, <1>3

LEMMA RenewedIs ==
  ASSUME NEW p \in Page, NEW s \in Sessions
  PROVE  LET q == Renewed(p, s) IN
         /\ q \in Page /\ q.stored = s /\ q.user = p.user /\ q.loading = p.loading
         /\ q.waits = FALSE /\ (q.timer => p.timer \/ p.waits)
         /\ ~Waiting(p) => q.call = p.call
         /\ Waiting(p) => /\ q.call # None /\ q.call.token = s /\ q.call.at = "sent"
                          /\ q.call.kind = p.call.kind /\ q.call.current = p.call.current
<1> DEFINE timer == p.timer \/ p.waits
           r == [p EXCEPT !.stored = s, !.timer = timer, !.waits = FALSE]
<1>1. timer \in BOOLEAN
  OBVIOUS
<1> HIDE DEF timer
<1>2. /\ r \in Page /\ r.stored = s /\ r.user = p.user /\ r.loading = p.loading
      /\ r.timer = timer /\ r.waits = FALSE /\ r.call = p.call
  BY <1>1 DEF Page
<1> HIDE DEF r
<1>3. r = [p EXCEPT !.stored = s, !.timer = @ \/ p.waits, !.waits = FALSE]
  BY DEF r, timer, Page
<1>4. CASE ~Waiting(p)
  BY <1>2, <1>3, <1>4 DEF Renewed, timer
<1>5. CASE Waiting(p)
  <2> DEFINE d == [p.call EXCEPT !.token = s, !.at = "sent", !.retry = TRUE]
  <2>1. p.call \in Call
    BY <1>5 DEF Waiting, Page
  <2>2. d \in Call /\ d.token = s /\ d.at = "sent" /\ d.kind = p.call.kind /\ d.current = p.call.current
    BY <2>1 DEF Call
  <2>3. d # None
    BY <2>2, BrowserConstants
  <2>4. Renewed(p, s) = [r EXCEPT !.call = d]
    BY <1>2, <1>3, <1>5, <2>1 DEF Renewed, Call
  <2> HIDE DEF d
  <2>5. LET q == Renewed(p, s) IN
         /\ q \in Page /\ q.stored = r.stored /\ q.user = r.user /\ q.loading = r.loading
         /\ q.waits = r.waits /\ q.timer = r.timer /\ q.call = d
    BY <1>2, <2>2, <2>4 DEF Page
  <2>. QED
    BY <1>2, <1>5, <2>2, <2>3, <2>5 DEF timer
<1>. QED
  BY <1>4, <1>5

LEMMA NotRenewedIs ==
  ASSUME NEW p \in Page
  PROVE  LET q == NotRenewed(p)
             first == Waiting(p) /\ p.call.kind = "boot" IN
         /\ q \in Page /\ q.stored = None /\ q.waits = FALSE
         /\ Waiting(p) => q.call = None
         /\ ~Waiting(p) => q.call = p.call \/ Stale(p.call, q.call)
         /\ first => q.user = None /\ q.loading = FALSE /\ q.timer = FALSE
         /\ ~first => q.loading = p.loading
         /\ ~first /\ ~p.waits => q.user = p.user /\ q.timer = p.timer
         /\ p.waits => q.user = None /\ q.timer = FALSE
<1> DEFINE r == [p EXCEPT !.stored = None, !.waits = FALSE]
           w == IF Waiting(r) THEN Rejected(r) ELSE r
<1>1. /\ r \in Page /\ r.stored = None /\ r.user = p.user /\ r.loading = p.loading
      /\ r.timer = p.timer /\ r.waits = FALSE /\ r.call = p.call
  BY DEF Page
<1> HIDE DEF r
<1>2. Waiting(r) <=> Waiting(p)
  BY <1>1 DEF Waiting
<1>3. NotRenewed(p) = IF p.waits THEN ClearSession(w) ELSE w
  BY <1>2 DEF NotRenewed, r
<1>4. /\ w \in Page /\ w.stored = None /\ w.waits = FALSE
      /\ Waiting(p) => w.call = None
      /\ ~Waiting(p) => w.call = p.call
      /\ (Waiting(p) /\ p.call.kind = "boot") => w.user = None /\ w.loading = FALSE /\ w.timer = FALSE
      /\ ~(Waiting(p) /\ p.call.kind = "boot") =>
           w.user = p.user /\ w.timer = p.timer /\ w.loading = p.loading
  <2>1. CASE Waiting(r)
    <3>1. r.call # None /\ r.call = p.call /\ r.call.current
      BY <2>1, <1>1 DEF Waiting
    <3>. QED
      BY <2>1, <1>1, <1>2, <3>1, RejectedIs
  <2>2. CASE ~Waiting(r)
    BY <2>2, <1>1, <1>2
  <2>. QED
    BY <2>1, <2>2
<1> HIDE DEF w
<1>5. CASE p.waits
  <2>1. NotRenewed(p) = ClearSession(w)
    BY <1>3, <1>5
  <2>2. LET q == ClearSession(w) IN
        /\ q \in Page /\ q.stored = None /\ q.user = None /\ q.loading = w.loading
        /\ q.timer = FALSE /\ q.waits = FALSE /\ Stale(w.call, q.call)
    BY <1>4, ClearSessionIs
  <2>3. Waiting(p) => NotRenewed(p).call = None
    BY <1>4, <2>1, <2>2 DEF Stale
  <2>4. ~Waiting(p) => Stale(p.call, NotRenewed(p).call)
    BY <1>4, <2>1, <2>2
  <2>. QED
    BY <1>4, <1>5, <2>1, <2>2, <2>3, <2>4
<1>6. CASE ~p.waits
  BY <1>3, <1>4, <1>6
<1>. QED
  BY <1>5, <1>6
-----------------------------------------------------------------------------
(* Messages.                                                               *)

OneRenewal == \A t \in Tabs : \A m, n \in Renewals(t) : m = n

LEMMA NewMessageIs ==
  ASSUME NEW kind \in Kinds, NEW t \in Tabs \union {None}, NEW who \in Users \union {None},
         NEW c \in Sessions \union {None}, NEW csrf \in Sessions \union {None}
  PROVE  LET k == NewMessage(kind, t, who, c, csrf) IN
         /\ k \in Message /\ k.kind = kind /\ k.tab = t /\ k.who = who /\ k.cookie = c
         /\ k.csrf = csrf /\ k.at = "sent" /\ k.new = None
  BY DEF NewMessage, Message

LEMMA AnsweredIs ==
  ASSUME NEW m \in Message, NEW how \in {"done", "refused"}, NEW s \in Sessions \union {None}
  PROVE  LET k == Answered(m, how, s) IN
         /\ k \in Message /\ k.kind = m.kind /\ k.tab = m.tab /\ k.who = None /\ k.cookie = None
         /\ k.csrf = None /\ k.at = how /\ k.new = s
  BY DEF Answered, Message

(* The number of a new session is nowhere in the browser.                  *)
LEMMA NewSessionIs ==
  ASSUME NEW u \in Users, Unused(u) # {}
  PROVE  /\ NewSession(u) \in Sessions /\ Owner(NewSession(u)) = u /\ NewSession(u) \notin Held
  BY DEF NewSession, Unused, Sessions, Owner

LEMMA HeldHas ==
  /\ cookie \in Held
  /\ \A t \in Tabs : page[t].stored \in Held
  /\ \A n \in net : n.cookie \in Held /\ n.csrf \in Held /\ n.new \in Held
<1> DEFINE carried == {{m.cookie, m.csrf, m.new} : m \in net}
<1>1. \A s : s \in UNION carried => s \in Held
  BY DEF Held
<1>2. ASSUME NEW n \in net
      PROVE  {n.cookie, n.csrf, n.new} \in carried
  OBVIOUS
<1> HIDE DEF carried
<1>3. \A n \in net : n.cookie \in UNION carried /\ n.csrf \in UNION carried /\ n.new \in UNION carried
  BY <1>2
<1>4. cookie \in Held
  BY DEF Held
<1>5. ASSUME NEW t \in Tabs
      PROVE  page[t].stored \in Held
  <2>1. page[t].stored \in {page[x].stored : x \in Tabs}
    OBVIOUS
  <2>. QED
    BY <2>1 DEF Held
<1>. QED
  BY <1>1, <1>3, <1>4, <1>5

(* A message nobody waits for any more.                                    *)
Unheard(m) == [m EXCEPT !.tab = None]

LEMMA UnheardIs ==
  ASSUME NEW m \in Message
  PROVE  LET k == Unheard(m) IN
         /\ k \in Message /\ k.kind = m.kind /\ k.tab = None /\ k.who = m.who /\ k.cookie = m.cookie
         /\ k.csrf = m.csrf /\ k.at = m.at /\ k.new = m.new
  BY DEF Unheard, Message

(* N is what is left of M when nobody waits for some of its messages.      *)
LeftOf(N, M) ==
  \A k \in N : \E m \in M :
    /\ k.kind = m.kind /\ k.who = m.who /\ k.cookie = m.cookie /\ k.csrf = m.csrf
    /\ k.at = m.at /\ k.new = m.new /\ k.tab \in {m.tab, None}

SoleNews(N) == \A k, n \in N : k.new # None /\ n.new = k.new => n = k

LEMMA ForgetIs ==
  ASSUME NEW M \in SUBSET Message, SoleNews(M), NEW t \in Tabs
  PROVE  LET N == Forget(M, t) IN
         /\ N \in SUBSET Message /\ LeftOf(N, M) /\ SoleNews(N)
         /\ \A m \in M : (m.kind = "renew" /\ m.tab = t) \/ m \in N
         /\ \A k \in N : (k.kind = "renew" /\ k.tab = None) \/ k \in M
         /\ \A k \in N : ~(k.kind = "renew" /\ k.tab = t)
<1> DEFINE F(m) == IF m.kind = "renew" /\ m.tab = t THEN Unheard(m) ELSE m
           N == {F(m) : m \in M}
<1>1. Forget(M, t) = N
  BY DEF Forget, Unheard
<1>2. t # None
  BY BrowserConstants
<1>3. ASSUME NEW m \in M
      PROVE  /\ F(m) \in Message /\ F(m).kind = m.kind /\ F(m).who = m.who /\ F(m).cookie = m.cookie
             /\ F(m).csrf = m.csrf /\ F(m).at = m.at /\ F(m).new = m.new
             /\ \/ ~(m.kind = "renew" /\ m.tab = t) /\ F(m) = m
                \/ m.kind = "renew" /\ m.tab = t /\ F(m).tab = None
  BY UnheardIs
<1> HIDE DEF F
<1>4. N \in SUBSET Message /\ LeftOf(N, M)
  BY <1>3 DEF LeftOf
<1>5. SoleNews(N)
  BY <1>3 DEF SoleNews
<1>6. /\ \A m \in M : (m.kind = "renew" /\ m.tab = t) \/ m \in N
      /\ \A k \in N : (k.kind = "renew" /\ k.tab = None) \/ k \in M
      /\ \A k \in N : ~(k.kind = "renew" /\ k.tab = t)
  BY <1>2, <1>3
<1>. QED
  BY <1>1, <1>4, <1>5, <1>6

LEMMA AllUnheard ==
  ASSUME NEW M \in SUBSET Message, SoleNews(M), NEW t \in Tabs
  PROVE  LET N == {IF m.tab = t THEN [m EXCEPT !.tab = None] ELSE m : m \in M} IN
         /\ N \in SUBSET Message /\ LeftOf(N, M) /\ SoleNews(N)
         /\ \A m \in M : m.tab = t \/ m \in N
         /\ \A k \in N : k.tab = None \/ k \in M
         /\ \A k \in N : k.tab # t
<1> DEFINE F(m) == IF m.tab = t THEN Unheard(m) ELSE m
           N == {F(m) : m \in M}
<1>1. {IF m.tab = t THEN [m EXCEPT !.tab = None] ELSE m : m \in M} = N
  BY DEF Unheard
<1>2. t # None
  BY BrowserConstants
<1>3. ASSUME NEW m \in M
      PROVE  /\ F(m) \in Message /\ F(m).kind = m.kind /\ F(m).who = m.who /\ F(m).cookie = m.cookie
             /\ F(m).csrf = m.csrf /\ F(m).at = m.at /\ F(m).new = m.new
             /\ \/ m.tab # t /\ F(m) = m
                \/ m.tab = t /\ F(m).tab = None
  BY UnheardIs
<1> HIDE DEF F
<1>4. N \in SUBSET Message /\ LeftOf(N, M)
  BY <1>3 DEF LeftOf
<1>5. SoleNews(N)
  BY <1>3 DEF SoleNews
<1>6. /\ \A m \in M : m.tab = t \/ m \in N
      /\ \A k \in N : k.tab = None \/ k \in M
      /\ \A k \in N : k.tab # t
  BY <1>2, <1>3
<1>. QED
  BY <1>1, <1>4, <1>5, <1>6

(* No session that a message brings is known to the browser.               *)
LEMMA FreshStays ==
  ASSUME Fresh, NEW N, NEW M, net' = N, LeftOf(M, net), SoleNews(M),
         \A k \in N : k \in M \/ (k.new = None /\ k.cookie \in {cookie, None}
                                  /\ \E t \in Tabs : k.csrf \in {page[t].stored, None}),
         cookie' \in {cookie, None},
         \A t \in Tabs : page'[t].stored \in {page[t].stored, None}
  PROVE  Fresh'
<1>1. ASSUME NEW m \in N, m.new # None
      PROVE  \E k \in net : k.new = m.new /\ k.new # None
  BY <1>1 DEF LeftOf
<1>2. ASSUME NEW m \in N, m.new # None, NEW n \in N
      PROVE  n.cookie # m.new /\ n.csrf # m.new /\ (n.new = m.new => n = m)
  <2>1. PICK k \in net : k.new = m.new /\ k.new # None
    BY <1>1, <1>2
  <2>2. n.cookie # m.new /\ n.csrf # m.new
    <3>1. CASE n \in M
      <4>1. PICK l \in net : l.cookie = n.cookie /\ l.csrf = n.csrf
        BY <3>1 DEF LeftOf
      <4>. QED
        BY <2>1, <4>1 DEF Fresh
    <3>2. CASE n \notin M
      <4>1. PICK t \in Tabs : n.cookie \in {cookie, None} /\ n.csrf \in {page[t].stored, None}
        BY <3>2, <1>2
      <4>. QED
        BY <2>1, <4>1 DEF Fresh
    <3>. QED
      BY <3>1, <3>2
  <2>3. n.new = m.new => n = m
    BY <1>2 DEF SoleNews
  <2>. QED
    BY <2>2, <2>3
<1>3. ASSUME NEW m \in N, m.new # None
      PROVE  m.new # cookie' /\ \A t \in Tabs : page'[t].stored # m.new
  <2>1. PICK k \in net : k.new = m.new /\ k.new # None
    BY <1>1, <1>3
  <2>. QED
    BY <2>1, <1>3 DEF Fresh
<1>. QED
  BY <1>2, <1>3 DEF Fresh

LEMMA FreshSole == Fresh => SoleNews(net) /\ LeftOf(net, net)
  BY DEF Fresh, SoleNews, LeftOf

-----------------------------------------------------------------------------
(* A tab keeps what holds of it while others act.                          *)
LEMMA TabKept ==
  ASSUME NEW t \in Tabs, TabOK(t), page'[t] = page[t], Renewals(t)' = Renewals(t),
         Logins(t)' \subseteq Logins(t),
         cookie' = cookie \/ cookie' # page[t].stored \/ page[t].stored = None,
         page[t].stored \notin live => page[t].stored \notin live'
  PROVE  TabOK(t)'
<1>1. ASSUME NEW m \in Renewals(t)
      PROVE  RenewalOK(m, page[t])'
  BY DEF TabOK, RenewalOK
<1>. QED
  BY <1>1 DEF TabOK, PageOK, Waiting

(* The backend works on message m, which k takes the place of.             *)
LEMMA Replaced ==
  ASSUME TypeOK, TabsOK, NEW m \in net, NEW k \in Message, k.kind = m.kind, k.tab = m.tab,
         net' = (net \ {m}) \union {k}, UNCHANGED <<cookie, page>>,
         \A t \in Tabs : page[t].stored \notin live => page[t].stored \notin live',
         \A t \in Tabs : m.kind = "renew" /\ m.tab = t => RenewalOK(k, page[t])'
  PROVE  TabsOK' /\ OneRenewal'
<1>1. ASSUME NEW t \in Tabs, m.tab # t
      PROVE  Renewals(t)' = Renewals(t) /\ Logins(t)' = Logins(t)
  BY <1>1 DEF Renewals, Logins
<1>2. ASSUME NEW t \in Tabs, m.tab = t, m.kind = "renew"
      PROVE  Renewals(t)' = {k} /\ Logins(t)' = Logins(t)
  BY <1>2 DEF Renewals, Logins, TypeOK
<1>3. ASSUME NEW t \in Tabs, m.tab = t, m.kind # "renew"
      PROVE  /\ Renewals(t)' = Renewals(t)
             /\ Logins(t)' = Logins(t) \/ (Logins(t)' = {k} /\ m \in Logins(t))
  BY <1>3 DEF Renewals, Logins, TabsOK, TabOK
<1>4. ASSUME NEW t \in Tabs
      PROVE  TabOK(t)'
  <2>1. CASE Renewals(t)' = Renewals(t) /\ Logins(t)' = Logins(t)
    BY <2>1, TabKept DEF TabsOK
  <2>2. CASE m.tab = t /\ m.kind = "renew"
    <3>1. Renewals(t)' = {k} /\ Logins(t)' = Logins(t)
      BY <2>2, <1>2
    <3>. QED
      BY <2>2, <3>1 DEF TabsOK, TabOK, PageOK, Waiting
  <2>3. CASE m.tab = t /\ m.kind # "renew" /\ Logins(t)' = {k} /\ m \in Logins(t)
    <3>1. Renewals(t)' = Renewals(t)
      BY <2>3, <1>3
    <3>2. \A n \in Renewals(t) : RenewalOK(n, page[t])'
      BY DEF TabsOK, TabOK, RenewalOK
    <3>. QED
      BY <2>3, <3>1, <3>2 DEF TabsOK, TabOK, PageOK, Waiting
  <2>. QED
    BY <1>1, <1>3, <2>1, <2>2, <2>3
<1>5. OneRenewal'
  BY <1>1, <1>2, <1>3 DEF OneRenewal, TypeOK
<1>. QED
  BY <1>4, <1>5 DEF TabsOK
-----------------------------------------------------------------------------
(* The backend.                                                            *)

LEMMA FindKeeps ==
  ASSUME IInv, NEW m \in net, Find(m)
  PROVE  IInv'
<1> DEFINE ok == m.cookie \in live /\ m.csrf = m.cookie
<1>1. m \in Message /\ m.kind = "renew" /\ m.at = "sent" /\ m.new = None /\ UNCHANGED <<live, cookie, page>>
  BY DEF Find, IInv, TypeOK, NetOK
<1>2. PICK k \in Message :
        /\ net' = (net \ {m}) \union {k} /\ k.kind = m.kind /\ k.tab = m.tab /\ k.new = None
        /\ ok => k.at = "found" /\ k.cookie = m.cookie /\ k.csrf = m.csrf
        /\ ~ok => k.at = "refused" /\ k.cookie = None /\ k.csrf = None
  <2>1. CASE ok
    <3>1. [m EXCEPT !.at = "found"] \in Message
      BY <1>1 DEF Message
    <3>. QED
      BY <2>1, <3>1, <1>1 DEF Find, Message
  <2>2. CASE ~ok
    <3>1. LET a == Answered(m, "refused", None) IN
          a \in Message /\ a.kind = m.kind /\ a.tab = m.tab /\ a.cookie = None /\ a.csrf = None
          /\ a.at = "refused" /\ a.new = None
      BY <1>1, AnsweredIs
    <3>2. net' = (net \ {m}) \union {Answered(m, "refused", None)}
      BY <2>2 DEF Find
    <3>. QED
      BY <2>2, <3>1, <3>2
  <2>. QED
    BY <2>1, <2>2
<1> HIDE DEF ok
<1>3. ASSUME NEW t \in Tabs, m.tab = t
      PROVE  RenewalOK(k, page[t])'
  <2>1. RenewalOK(m, page[t])
    BY <1>1, <1>3 DEF IInv, TabsOK, TabOK, Renewals
  <2>2. CASE ok
    BY <1>1, <1>2, <2>1, <2>2 DEF RenewalOK
  <2>3. CASE ~ok
    <3>1. page[t].stored = cookie => cookie \notin live
      BY <1>1, <2>1, <2>3 DEF RenewalOK, ok
    <3>. QED
      BY <1>1, <1>2, <2>1, <2>3, <3>1 DEF RenewalOK
  <2>. QED
    BY <2>2, <2>3
<1>4. TabsOK' /\ OneRenewal'
  BY <1>1, <1>2, <1>3, Replaced DEF IInv
<1>5. TypeOK'
  BY <1>1, <1>2, <1>4 DEF IInv, TypeOK, OneRenewal
<1>6. NetOK'
  BY <1>1, <1>2 DEF IInv, TypeOK, NetOK, ok
<1>7. Fresh'
  BY <1>1, <1>2 DEF IInv, Fresh
<1>. QED
  BY <1>4, <1>5, <1>6, <1>7 DEF IInv

(* A new session replaces one, or is added.                                *)
LEMMA Issued ==
  ASSUME IInv, NEW m \in net, m.kind \in {"renew", "login"}, NEW u \in Users, Unused(u) # {},
         net' = (net \ {m}) \union {Answered(m, "done", NewSession(u))},
         UNCHANGED <<cookie, page>>, live' \subseteq live \union {NewSession(u)},
         m.kind = "renew" => m.at = "found" /\ u = Owner(m.cookie) /\ m.cookie \notin live'
  PROVE  IInv'
<1>1. PICK s \in Sessions : s = NewSession(u) /\ Owner(s) = u /\ s \notin Held
  BY NewSessionIs
<1>2. m \in Message /\ None \notin Sessions
  BY BrowserConstants DEF IInv, TypeOK
<1>3. PICK k \in Message : /\ net' = (net \ {m}) \union {k} /\ k.kind = m.kind /\ k.tab = m.tab
                           /\ k.cookie = None /\ k.csrf = None /\ k.at = "done" /\ k.new = s
  <2>1. net' = (net \ {m}) \union {Answered(m, "done", s)}
    BY <1>1
  <2>2. LET a == Answered(m, "done", s) IN
        /\ a \in Message /\ a.kind = m.kind /\ a.tab = m.tab /\ a.cookie = None
        /\ a.csrf = None /\ a.at = "done" /\ a.new = s
    BY <1>2, AnsweredIs
  <2>. QED
    BY <2>1, <2>2
<1>4. /\ s # cookie /\ \A t \in Tabs : page[t].stored # s
      /\ \A n \in net : n.cookie # s /\ n.csrf # s /\ n.new # s
  BY <1>1, HeldHas
<1>5. live' \subseteq live \union {s}
  BY <1>1
<1>6. ASSUME NEW t \in Tabs, m.kind = "renew", m.tab = t
      PROVE  RenewalOK(k, page[t])'
  <2>1. RenewalOK(m, page[t])
    BY <1>6 DEF IInv, TabsOK, TabOK, Renewals
  <2>2. m.at = "found" /\ u = Owner(m.cookie) /\ m.cookie \notin live' /\ m.csrf = m.cookie
    BY <1>6 DEF IInv, NetOK
  <2>3. page[t].stored = m.cookie
    BY <2>1, <2>2 DEF RenewalOK
  <2>. QED
    BY <1>1, <1>3, <2>1, <2>2, <2>3 DEF RenewalOK
<1>7. TabsOK' /\ OneRenewal'
  BY <1>3, <1>4, <1>5, <1>6, Replaced DEF IInv
<1>8. TypeOK'
  BY <1>1, <1>3, <1>5, <1>7 DEF IInv, TypeOK, OneRenewal
<1>9. NetOK'
  BY <1>1, <1>3 DEF IInv, NetOK
<1>10. Fresh'
  BY <1>2, <1>3, <1>4 DEF IInv, Fresh
<1>. QED
  BY <1>7, <1>8, <1>9, <1>10 DEF IInv

LEMMA RotateKeeps ==
  ASSUME IInv, NEW m \in net, Rotate(m)
  PROVE  IInv'
<1>1. /\ m.kind = "renew" /\ m.at = "found" /\ Unused(Owner(m.cookie)) # {}
      /\ m.cookie \in Sessions /\ UNCHANGED <<cookie, page>>
  BY DEF Rotate, IInv, NetOK
<1>2. PICK u \in Users : u = Owner(m.cookie)
  BY <1>1 DEF Sessions, Owner
<1>3. /\ net' = (net \ {m}) \union {Answered(m, "done", NewSession(u))}
      /\ live' = (live \ {m.cookie}) \union {NewSession(u)}
  BY <1>2 DEF Rotate
<1>4. m.cookie # NewSession(u)
  BY <1>1, <1>2, NewSessionIs, HeldHas
<1>. QED
  BY <1>1, <1>2, <1>3, <1>4, Issued

LEMMA SignInKeeps ==
  ASSUME IInv, NEW m \in net, SignIn(m)
  PROVE  IInv'
<1>1. m.kind = "login" /\ m.who \in Users /\ Unused(m.who) # {} /\ UNCHANGED <<cookie, page>>
  BY DEF SignIn, IInv, NetOK
<1>2. /\ net' = (net \ {m}) \union {Answered(m, "done", NewSession(m.who))}
      /\ live' = live \union {NewSession(m.who)}
  BY DEF SignIn
<1>. QED
  BY <1>1, <1>2, Issued

LEMMA SignOutKeeps ==
  ASSUME IInv, NEW m \in net, SignOut(m)
  PROVE  IInv'
<1>1. /\ m \in Message /\ m.kind = "logout" /\ m.at = "sent" /\ m.new = None /\ m.tab = None
      /\ UNCHANGED <<cookie, page>> /\ live' = live \ {m.cookie}
  BY DEF SignOut, IInv, TypeOK, NetOK
<1>2. PICK k \in Message : /\ net' = (net \ {m}) \union {k} /\ k.kind = m.kind /\ k.tab = m.tab
                           /\ k.cookie = None /\ k.csrf = None /\ k.at = "done" /\ k.new = None
  <2>1. net' = (net \ {m}) \union {Answered(m, "done", None)}
    BY DEF SignOut
  <2>. QED
    BY <1>1, <2>1, AnsweredIs
<1>3. TabsOK' /\ OneRenewal'
  BY <1>1, <1>2, Replaced DEF IInv
<1>4. TypeOK'
  BY <1>1, <1>2, <1>3 DEF IInv, TypeOK, OneRenewal
<1>5. NetOK' /\ Fresh'
  BY <1>1, <1>2 DEF IInv, NetOK, Fresh
<1>. QED
  BY <1>3, <1>4, <1>5 DEF IInv

LEMMA RevokeKeeps ==
  ASSUME IInv, NEW s \in Sessions, Revoke(s)
  PROVE  IInv'
<1>1. live' = live \ {s} /\ UNCHANGED <<cookie, page, net>>
  BY DEF Revoke
<1>2. TabsOK'
  <2> SUFFICES ASSUME NEW t \in Tabs PROVE TabOK(t)'
    BY DEF TabsOK
  <2>1. Renewals(t)' = Renewals(t) /\ Logins(t)' = Logins(t)
    BY <1>1 DEF Renewals, Logins
  <2>. QED
    BY <1>1, <2>1, TabKept DEF IInv, TabsOK
<1>3. TypeOK' /\ NetOK' /\ Fresh'
  BY <1>1 DEF IInv, TypeOK, Renewals, NetOK, Fresh
<1>. QED
  BY <1>2, <1>3 DEF IInv
-----------------------------------------------------------------------------
(* What happens within one tab.                                            *)

(* Tab t changes, its messages do not.                                     *)
LEMMA PageOnly ==
  ASSUME IInv, NEW t \in Tabs, NEW q \in Page, page' = [page EXCEPT ![t] = q],
         UNCHANGED <<live, cookie, net>>, q.stored = page[t].stored,
         PageOK(q),
         q.loading => page[t].loading /\ (q.call.at = page[t].call.at \/ Renewals(t) = {}),
         q.loading /\ q.call.retry /\ q.call.at = "refused" => q.stored \notin live,
         q.waits \/ Waiting(q) => page[t].waits \/ Waiting(page[t])
  PROVE  IInv'
<1>1. page \in [Tabs -> Page] /\ page'[t] = q
  BY DEF IInv, TypeOK
<1>2. \A u \in Tabs : Renewals(u)' = Renewals(u) /\ Logins(u)' = Logins(u)
  BY DEF Renewals, Logins
<1>3. ASSUME NEW u \in Tabs, u # t
      PROVE  TabOK(u)'
  BY <1>1, <1>2, <1>3, TabKept DEF IInv, TabsOK
<1>4. TabOK(t)
  BY DEF IInv, TabsOK
<1>5. ASSUME NEW m \in Renewals(t)
      PROVE  RenewalOK(m, page[t])'
  <2>1. RenewalOK(m, page[t])
    BY <1>4, <1>5 DEF TabOK
  <2>. QED
    BY <1>1, <2>1 DEF RenewalOK
<1>6. PageOK(page[t])' /\ (Waiting(page[t])' <=> Waiting(q))
  BY <1>1 DEF PageOK, Waiting
<1>7. TabOK(t)'
  BY <1>1, <1>2, <1>4, <1>5, <1>6 DEF TabOK
<1>8. TypeOK'
  BY <1>1, <1>2 DEF IInv, TypeOK
<1>9. NetOK' /\ Fresh'
  BY <1>1 DEF IInv, NetOK, Fresh
<1>. QED
  BY <1>3, <1>7, <1>8, <1>9 DEF IInv, TabsOK

LEMMA CallTyped ==
  ASSUME TypeOK, NEW t \in Tabs, page[t].call # None
  PROVE  page[t] \in Page /\ page[t].call \in Call
  BY DEF TypeOK, Page

(* A page with another call, of the same kind and generation.              *)
LEMMA OtherCall ==
  ASSUME NEW p \in Page, NEW c \in Call
  PROVE  LET q == [p EXCEPT !.call = c] IN
         /\ q \in Page /\ q.stored = p.stored /\ q.user = p.user /\ q.loading = p.loading
         /\ q.timer = p.timer /\ q.waits = p.waits /\ q.call = c /\ q.call # None
  BY BrowserConstants DEF Page

LEMMA AcceptKeeps ==
  ASSUME IInv, NEW t \in Tabs, Accept(t)
  PROVE  IInv'
<1> DEFINE p == page[t]
           c == [p.call EXCEPT !.at = "ok", !.token = None, !.who = Owner(p.call.token)]
           q == [p EXCEPT !.call = c]
<1>1. /\ p \in Page /\ p.call # None /\ p.call \in Call /\ p.call.at = "sent" /\ p.call.token \in live
      /\ UNCHANGED <<live, cookie, net>>
  BY CallTyped DEF Accept, IInv
<1>2. Owner(p.call.token) \in Users /\ p.call.token # None
  BY <1>1, BrowserConstants DEF IInv, TypeOK, Sessions, Owner
<1>3. /\ c \in Call /\ c.at = "ok" /\ c.token = None /\ c.who = Owner(p.call.token)
      /\ c.kind = p.call.kind /\ c.current = p.call.current /\ c.retry = p.call.retry
  BY <1>1, <1>2 DEF Call
<1>4. page' = [page EXCEPT ![t] = q]
  BY <1>1 DEF Accept, IInv, TypeOK
<1> HIDE DEF c
<1>5. /\ q \in Page /\ q.stored = p.stored /\ q.user = p.user /\ q.loading = p.loading
      /\ q.timer = p.timer /\ q.waits = p.waits /\ q.call = c /\ c # None
  BY <1>1, <1>3, OtherCall
<1> HIDE DEF q
<1>6. TabOK(t)
  BY DEF IInv, TabsOK
<1>a. ASSUME p.loading PROVE Renewals(t) = {}
  BY <1>1, <1>6, <1>a DEF TabOK, RenewalOK
<1>7. PageOK(q)
  BY <1>1, <1>2, <1>3, <1>5, <1>6 DEF TabOK, PageOK
<1>. QED
  BY <1>1, <1>3, <1>4, <1>5, <1>7, <1>a, PageOnly DEF Waiting

LEMMA RefuseKeeps ==
  ASSUME IInv, NEW t \in Tabs, Refuse(t)
  PROVE  IInv'
<1> DEFINE p == page[t]
           c == [p.call EXCEPT !.at = "refused", !.token = None]
           q == [p EXCEPT !.call = c]
<1>1. /\ p \in Page /\ p.call # None /\ p.call \in Call /\ p.call.at = "sent"
      /\ p.call.token \notin live \/ ~p.call.retry
      /\ UNCHANGED <<live, cookie, net>>
  BY CallTyped DEF Refuse, IInv
<1>2. /\ c \in Call /\ c.at = "refused" /\ c.token = None /\ c.who = p.call.who
      /\ c.kind = p.call.kind /\ c.current = p.call.current /\ c.retry = p.call.retry
  BY <1>1 DEF Call
<1>3. page' = [page EXCEPT ![t] = q]
  BY <1>1 DEF Refuse, IInv, TypeOK, Page, Call
<1> HIDE DEF c
<1>4. /\ q \in Page /\ q.stored = p.stored /\ q.user = p.user /\ q.loading = p.loading
      /\ q.timer = p.timer /\ q.waits = p.waits /\ q.call = c /\ c # None
  BY <1>1, <1>2, OtherCall
<1> HIDE DEF q
<1>5. TabOK(t)
  BY DEF IInv, TabsOK
<1>6. ASSUME p.loading PROVE Renewals(t) = {}
  BY <1>1, <1>5, <1>6 DEF TabOK, RenewalOK
<1>7. PageOK(q)
  BY <1>1, <1>2, <1>4, <1>5 DEF TabOK, PageOK
<1>8. q.loading /\ q.call.retry => q.stored \notin live
  BY <1>1, <1>2, <1>4, <1>5 DEF TabOK, PageOK
<1>. QED
  BY <1>1, <1>2, <1>3, <1>4, <1>6, <1>7, <1>8, PageOnly DEF Waiting

LEMMA DeliverOkKeeps ==
  ASSUME IInv, NEW t \in Tabs, DeliverOk(t)
  PROVE  IInv'
<1> DEFINE p == page[t]
           r == [p EXCEPT !.call = None]
           q == IF p.call.current
                THEN [Resolved(r, p.call.who) EXCEPT !.loading = @ /\ p.call.kind # "boot"] ELSE r
<1>1. /\ p \in Page /\ p.call # None /\ p.call \in Call /\ p.call.at = "ok"
      /\ UNCHANGED <<live, cookie, net>> /\ page' = [page EXCEPT ![t] = q]
  BY CallTyped DEF DeliverOk, IInv
<1>2. TabOK(t)
  BY DEF IInv, TabsOK
<1>3. p.call.who \in Users /\ (p.loading <=> p.call.kind = "boot" /\ p.call.current)
  BY <1>1, <1>2 DEF TabOK, PageOK
<1>4. /\ r \in Page /\ r.stored = p.stored /\ r.user = p.user /\ r.loading = p.loading
      /\ r.timer = p.timer /\ r.waits = p.waits /\ r.call = None
  BY <1>1, WithoutCall
<1> HIDE DEF r
<1>5. /\ q \in Page /\ q.stored = p.stored /\ q.loading = FALSE /\ q.call = None
      /\ p.call.current => q.user = p.call.who /\ q.waits = FALSE /\ (q.timer => q.user # None)
      /\ ~p.call.current => q.user = p.user /\ q.waits = p.waits /\ q.timer = p.timer
  <2>1. CASE p.call.current
    <3> DEFINE w == Resolved(r, p.call.who)
               still == w.loading /\ p.call.kind # "boot"
    <3>1. /\ w \in Page /\ w.stored = p.stored /\ w.user = p.call.who /\ w.loading = p.loading
          /\ w.call = None /\ w.waits = FALSE /\ (w.timer => p.call.who # None)
      BY <1>3, <1>4, ResolvedIs
    <3> HIDE DEF w
    <3>2. still = FALSE
      BY <3>1, <1>3
    <3>3. q = [w EXCEPT !.loading = still]
      BY <2>1, <3>1 DEF w, Page
    <3> HIDE DEF still, q
    <3>. QED
      BY <2>1, <3>1, <3>2, <3>3 DEF Page
  <2>2. CASE ~p.call.current
    BY <2>2, <1>3, <1>4 DEF Page
  <2>. QED
    BY <2>1, <2>2
<1> HIDE DEF q
<1>6. PageOK(q)
  BY <1>1, <1>2, <1>3, <1>5, BrowserConstants DEF TabOK, PageOK
<1>. QED
  BY <1>1, <1>5, <1>6, PageOnly DEF Waiting

LEMMA DeliverNothingKeeps ==
  ASSUME IInv, NEW t \in Tabs, DeliverNothing(t)
  PROVE  IInv'
<1> DEFINE p == page[t]  q == Rejected(p)
<1>1. /\ p \in Page /\ p.call # None /\ ~p.call.current
      /\ UNCHANGED <<live, cookie, net>> /\ page' = [page EXCEPT ![t] = q]
  BY CallTyped DEF DeliverNothing, IInv, TypeOK
<1>2. TabOK(t)
  BY DEF IInv, TabsOK
<1>3. /\ q \in Page /\ q.call = None /\ q.stored = p.stored /\ q.user = p.user /\ q.loading = p.loading
      /\ q.timer = p.timer /\ q.waits = p.waits
  BY <1>1, RejectedIs
<1> HIDE DEF q
<1>4. PageOK(q) /\ ~q.loading
  BY <1>1, <1>2, <1>3 DEF TabOK, PageOK
<1>. QED
  BY <1>1, <1>3, <1>4, PageOnly DEF Waiting

LEMMA NavigateKeeps ==
  ASSUME IInv, NEW t \in Tabs, Navigate(t)
  PROVE  IInv'
<1> DEFINE p == page[t]  q == Rearmed(p)
<1>1. /\ p \in Page /\ p.user # None
      /\ UNCHANGED <<live, cookie, net>> /\ page' = [page EXCEPT ![t] = q]
  BY DEF Navigate, IInv, TypeOK
<1>2. TabOK(t)
  BY DEF IInv, TabsOK
<1>3. /\ q \in Page /\ q.call = p.call /\ q.stored = p.stored /\ q.user = p.user
      /\ q.loading = p.loading /\ q.waits = FALSE
  BY <1>1, RearmedIs
<1> HIDE DEF q
<1>4. PageOK(q) /\ ~q.loading
  BY <1>1, <1>2, <1>3 DEF TabOK, PageOK
<1>. QED
  BY <1>1, <1>3, <1>4, PageOnly DEF Waiting

LEMMA NewCallIs ==
  ASSUME NEW kind \in {"boot", "profile"}, NEW s \in Sessions \union {None}
  PROVE  LET c == NewCall(kind, s) IN
         /\ c \in Call /\ c # None /\ c.kind = kind /\ c.token = s /\ c.current = TRUE
         /\ c.retry = FALSE /\ c.at = "sent"
<1>1. LET c == NewCall(kind, s) IN
      /\ c \in Call /\ c.kind = kind /\ c.token = s /\ c.current = TRUE
      /\ c.retry = FALSE /\ c.at = "sent"
  BY DEF NewCall, Call
<1>. QED
  BY <1>1, BrowserConstants

LEMMA ReturnKeeps ==
  ASSUME IInv, NEW t \in Tabs, Return(t)
  PROVE  IInv'
<1> DEFINE p == page[t]  timer == p.stored # None  c == NewCall("profile", p.stored)
           q == [p EXCEPT !.timer = timer, !.call = c]
<1>1. /\ p \in Page /\ p.user # None /\ p.call = None
      /\ UNCHANGED <<live, cookie, net>> /\ page' = [page EXCEPT ![t] = q]
  BY DEF Return, IInv, TypeOK, Page
<1>2. TabOK(t)
  BY DEF IInv, TabsOK
<1>3. /\ c \in Call /\ c # None /\ c.kind = "profile" /\ c.token = p.stored /\ c.current = TRUE
      /\ c.retry = FALSE /\ c.at = "sent" /\ timer \in BOOLEAN
  BY <1>1, NewCallIs DEF Page
<1> HIDE DEF c, timer
<1>4. /\ q \in Page /\ q.call = c /\ q.stored = p.stored /\ q.user = p.user
      /\ q.loading = p.loading /\ q.waits = p.waits
  BY <1>1, <1>3 DEF Page
<1> HIDE DEF q
<1>5. PageOK(q) /\ ~q.loading
  BY <1>1, <1>2, <1>3, <1>4 DEF TabOK, PageOK
<1>. QED
  BY <1>1, <1>3, <1>4, <1>5, PageOnly DEF Waiting

-----------------------------------------------------------------------------
(* A tab and its messages.                                                 *)

(* Tab t and its messages change, the others keep theirs.                  *)
LEMMA TabStep ==
  ASSUME IInv, NEW t \in Tabs, NEW q \in Page, page' = [page EXCEPT ![t] = q],
         live' = live, net' \subseteq Message, NetOK', Fresh',
         cookie' \in Sessions \union {None},
         \A u \in Tabs \ {t} : /\ Renewals(u)' = Renewals(u) /\ Logins(u)' = Logins(u)
                               /\ cookie' = cookie \/ cookie' # page[u].stored \/ page[u].stored = None,
         PageOK(q),
         q.loading /\ q.call.retry /\ q.call.at = "refused" => q.stored \notin live,
         \A m \in Renewals(t)' : RenewalOK(m, page[t])',
         \A m, n \in Renewals(t)' : m = n,
         \A m \in Logins(t)' : q.stored = None /\ ~q.loading,
         \A m, n \in Logins(t)' : m = n,
         q.waits \/ Waiting(q) => Renewals(t)' # {}
  PROVE  IInv'
<1>1. page \in [Tabs -> Page] /\ page'[t] = q
  BY DEF IInv, TypeOK
<1>2. ASSUME NEW u \in Tabs, u # t
      PROVE  TabOK(u)' /\ \A m, n \in Renewals(u)' : m = n
  <2>1. /\ Renewals(u)' = Renewals(u) /\ Logins(u)' = Logins(u) /\ page'[u] = page[u]
        /\ cookie' = cookie \/ cookie' # page[u].stored \/ page[u].stored = None
    BY <1>1, <1>2
  <2>2. TabOK(u)
    BY DEF IInv, TabsOK
  <2>3. TabOK(u)'
    BY <2>1, <2>2, TabKept
  <2>. QED
    BY <2>1, <2>3 DEF IInv, TypeOK
<1>3. PageOK(page[t])' /\ (Waiting(page[t])' <=> Waiting(q))
  BY <1>1 DEF PageOK, Waiting
<1>4. TabOK(t)'
  BY <1>1, <1>3 DEF TabOK
<1>5. OneRenewal'
  BY <1>2 DEF OneRenewal
<1>6. TypeOK'
  BY <1>1, <1>5 DEF IInv, TypeOK, OneRenewal
<1>. QED
  BY <1>2, <1>4, <1>6 DEF IInv, TabsOK

(* The answer to the renewal of t is not heard any more, and X is sent.    *)
LEMMA Forgotten ==
  ASSUME IInv, NEW t \in Tabs, NEW q, page' = [page EXCEPT ![t] = q], cookie' = cookie,
         q.stored \in {page[t].stored, None}, NEW X \in SUBSET Message,
         \A k \in X : /\ k.kind = "logout" /\ k.tab = None /\ k.at = "sent" /\ k.new = None
                      /\ k.cookie = cookie /\ k.csrf = None,
         net' = Forget(net, t) \union X
  PROVE  /\ net' \subseteq Message /\ NetOK' /\ Fresh' /\ Renewals(t)' = {}
         /\ \A u \in Tabs : Logins(u)' = Logins(u)
         /\ \A u \in Tabs \ {t} : Renewals(u)' = Renewals(u)
<1> DEFINE N == Forget(net, t)
<1>0. page \in [Tabs -> Page] /\ page'[t] = q /\ net \in SUBSET Message /\ SoleNews(net)
  BY FreshSole DEF IInv, TypeOK
<1>1. /\ N \in SUBSET Message /\ LeftOf(N, net) /\ SoleNews(N)
      /\ \A m \in net : (m.kind = "renew" /\ m.tab = t) \/ m \in N
      /\ \A k \in N : (k.kind = "renew" /\ k.tab = None) \/ k \in net
      /\ \A k \in N : ~(k.kind = "renew" /\ k.tab = t)
  BY <1>0, ForgetIs
<1> HIDE DEF N
<1>2. net' = N \union X /\ None \notin Tabs
  BY BrowserConstants DEF N
<1>3. Renewals(t)' = {}
  BY <1>1, <1>2 DEF Renewals
<1>4. \A u \in Tabs : Logins(u)' = Logins(u)
  BY <1>1, <1>2 DEF Logins
<1>5. \A u \in Tabs \ {t} : Renewals(u)' = Renewals(u)
  BY <1>1, <1>2 DEF Renewals
<1>6. NetOK'
  <2> SUFFICES ASSUME NEW k \in N \union X
               PROVE  /\ k.kind = "login" => k.at \in {"sent", "done"} /\ (k.at = "sent" => k.who \in Users)
                      /\ k.kind = "logout" => k.tab = None /\ k.at \in {"sent", "done"}
                      /\ k.kind = "renew" /\ k.at = "found" => k.cookie \in Sessions /\ k.csrf = k.cookie
                      /\ k.kind # "logout" /\ k.at = "done" => k.new \in Sessions
                      /\ k.at # "done" => k.new = None
    BY <1>2 DEF NetOK
  <2>1. CASE k \in X
    BY <2>1
  <2>2. CASE k \in N
    <3>1. PICK m \in net :
            /\ k.kind = m.kind /\ k.who = m.who /\ k.cookie = m.cookie /\ k.csrf = m.csrf
            /\ k.at = m.at /\ k.new = m.new /\ k.tab \in {m.tab, None}
      BY <1>1, <2>2 DEF LeftOf
    <3>. QED
      BY <3>1 DEF IInv, NetOK
  <2>. QED
    BY <2>1, <2>2
<1>7. Fresh'
  <2>1. \A k \in net' : k \in N \/ (k.new = None /\ k.cookie \in {cookie, None}
                                  /\ \E u \in Tabs : k.csrf \in {page[u].stored, None})
    BY <1>2
  <2>2. \A u \in Tabs : page'[u].stored \in {page[u].stored, None}
    BY <1>0
  <2>3. SoleNews(net')
    BY <1>1, <1>2 DEF SoleNews
  <2>. QED
    BY <1>1, <2>1, <2>2, FreshStays DEF IInv
<1>. QED
  BY <1>1, <1>2, <1>3, <1>4, <1>5, <1>6, <1>7

(* A session that ends in t, with whatever is sent for it.                 *)
LEMMA EndsIn ==
  ASSUME IInv, NEW t \in Tabs, NEW q \in Page, page' = [page EXCEPT ![t] = q],
         UNCHANGED <<live, cookie>>, NEW X \in SUBSET Message,
         \A k \in X : /\ k.kind = "logout" /\ k.tab = None /\ k.at = "sent" /\ k.new = None
                      /\ k.cookie = cookie /\ k.csrf = None,
         net' = Forget(net, t) \union X,
         q.stored = None, q.user = None, q.loading = FALSE, q.timer = FALSE, q.waits = FALSE,
         q.call = None \/ (Stale(page[t].call, q.call) /\ ~page[t].loading)
  PROVE  IInv'
<1>1. TabOK(t)
  BY DEF IInv, TabsOK
<1>2. PageOK(q) /\ ~Waiting(q)
  BY <1>1 DEF TabOK, PageOK, Waiting, Stale
<1>3. /\ net' \subseteq Message /\ NetOK' /\ Fresh' /\ Renewals(t)' = {}
      /\ \A u \in Tabs : Logins(u)' = Logins(u)
      /\ \A u \in Tabs \ {t} : Renewals(u)' = Renewals(u)
  BY Forgotten
<1>4. /\ cookie' \in Sessions \union {None} /\ \A m \in Logins(t)' : q.stored = None /\ ~q.loading
      /\ \A m, n \in Logins(t)' : m = n
  BY <1>1, <1>3 DEF IInv, TypeOK, TabOK
<1>. QED
  BY <1>2, <1>3, <1>4, TabStep

(* A call that fails in t: the first call ends the session.                *)
LEMMA RejectKeeps ==
  ASSUME IInv, NEW t \in Tabs, page[t].call # None,
         page' = [page EXCEPT ![t] = Rejected(page[t])], UNCHANGED <<live, cookie>>,
         net' = IF page[t].call.kind = "boot" THEN Forget(net, t) ELSE net
  PROVE  IInv'
<1> DEFINE p == page[t]  q == Rejected(p)  first == p.call.kind = "boot" /\ p.call.current
<1>1. p \in Page /\ p.call # None /\ TabOK(t)
  BY CallTyped DEF IInv, TabsOK
<1>2. p.call.kind = "boot" <=> first
  BY <1>1 DEF TabOK, PageOK
<1>3. /\ q \in Page /\ q.call = None
      /\ first => /\ q.stored = None /\ q.user = None /\ q.loading = FALSE
                  /\ q.timer = FALSE /\ q.waits = FALSE
      /\ ~first => /\ q.stored = p.stored /\ q.user = p.user /\ q.loading = p.loading
                   /\ q.timer = p.timer /\ q.waits = p.waits
  BY <1>1, RejectedIs
<1> HIDE DEF q
<1>a. page' = [page EXCEPT ![t] = q]
  BY DEF q
<1>4. CASE first
  <2>1. PICK X \in SUBSET Message : X = {}
    OBVIOUS
  <2>2. net' = Forget(net, t) \union X
    BY <1>2, <1>4, <2>1
  <2>. QED
    BY <1>3, <1>4, <1>a, <2>1, <2>2, EndsIn
<1>5. CASE ~first
  <2>1. PageOK(q) /\ ~q.loading
    BY <1>1, <1>2, <1>3, <1>5 DEF TabOK, PageOK
  <2>2. net' = net
    BY <1>2, <1>5
  <2>. QED
    BY <1>3, <1>5, <1>a, <2>1, <2>2, PageOnly DEF Waiting
<1>. QED
  BY <1>4, <1>5

(* Tab t asks for a renewal, or joins the one under way.                   *)
LEMMA AsksKeeps ==
  ASSUME IInv, NEW t \in Tabs, MayRenew(t), NEW q \in Page, page' = [page EXCEPT ![t] = q],
         UNCHANGED <<live, cookie>>, net' = WithRenewal(t), q.stored = page[t].stored,
         PageOK(q), q.loading => page[t].loading /\ q.call.at = "waiting"
  PROVE  IInv'
<1> DEFINE p == page[t]  k == NewRenewal(t)
<1>1. TabOK(t) /\ p \in Page /\ None \notin Tabs
  BY BrowserConstants DEF IInv, TabsOK, TypeOK
<1>2. /\ k \in Message /\ k.kind = "renew" /\ k.tab = t /\ k.cookie = cookie
      /\ k.csrf = p.stored /\ k.at = "sent" /\ k.new = None
  <2>1. /\ "renew" \in Kinds /\ t \in Tabs \union {None} /\ None \in Users \union {None}
        /\ cookie \in Sessions \union {None} /\ p.stored \in Sessions \union {None}
    BY <1>1 DEF Page, IInv, TypeOK, Kinds
  <2>. QED
    BY <2>1 DEF NewRenewal, NewMessage, Message
<1> HIDE DEF k
<1>3. /\ \A u \in Tabs : Logins(u)' = Logins(u)
      /\ \A u \in Tabs \ {t} : Renewals(u)' = Renewals(u)
  BY <1>2 DEF WithRenewal, Renewals, Logins, k
<1>4. \/ Renewals(t) # {} /\ Renewals(t)' = Renewals(t) /\ net' = net
      \/ Renewals(t) = {} /\ Renewals(t)' = {k} /\ net' = net \union {k} /\ p.stored # None
  BY <1>2 DEF WithRenewal, Renewals, MayRenew, k
<1>5. page'[t] = q
  BY DEF IInv, TypeOK
<1>6. ASSUME NEW m \in Renewals(t)'
      PROVE  RenewalOK(m, page[t])'
  <2>1. CASE m \in Renewals(t)
    <3>1. RenewalOK(m, p)
      BY <1>1, <2>1 DEF TabOK
    <3>. QED
      BY <1>5, <3>1 DEF RenewalOK
  <2>2. CASE m = k /\ p.stored # None
    BY <1>2, <1>5, <2>2 DEF RenewalOK
  <2>. QED
    BY <1>4, <1>6, <2>1, <2>2
<1>7. net' \subseteq Message /\ NetOK'
  BY <1>2, <1>4 DEF IInv, TypeOK, NetOK
<1>8. Fresh'
  <2>1. \A n \in net' : n \in net \/ (n.new = None /\ n.cookie \in {cookie, None}
                                     /\ \E u \in Tabs : n.csrf \in {page[u].stored, None})
    BY <1>2, <1>4
  <2>2. \A u \in Tabs : page'[u].stored \in {page[u].stored, None}
    BY <1>5 DEF IInv, TypeOK
  <2>3. SoleNews(net') /\ LeftOf(net, net)
    BY <1>2, <1>4, FreshSole DEF SoleNews, IInv
  <2>. QED
    BY <2>1, <2>2, <2>3, FreshStays, FreshSole DEF IInv
<1>9. /\ \A m, n \in Renewals(t)' : m = n
      /\ \A m \in Logins(t)' : q.stored = None /\ ~q.loading
      /\ \A m, n \in Logins(t)' : m = n
      /\ Renewals(t)' # {}
  BY <1>1, <1>3, <1>4 DEF IInv, TypeOK, TabOK
<1>10. cookie' \in Sessions \union {None} /\ (q.loading /\ q.call.at = "refused" => FALSE)
  BY DEF IInv, TypeOK
<1>. QED
  BY <1>3, <1>6, <1>7, <1>8, <1>9, <1>10, TabStep

LEMMA DeliverRefusalKeeps ==
  ASSUME IInv, NEW t \in Tabs, DeliverRefusal(t)
  PROVE  IInv'
<1> DEFINE p == page[t]
<1>1. /\ p \in Page /\ p.call # None /\ p.call \in Call /\ p.call.at = "refused" /\ TabOK(t)
      /\ UNCHANGED <<live, cookie>>
  BY CallTyped DEF DeliverRefusal, IInv, TabsOK
<1>2. CASE p.call.current /\ ~p.call.retry /\ MayRenew(t)
  <2> DEFINE c == [p.call EXCEPT !.at = "waiting"]  q == [p EXCEPT !.call = c]
  <2>1. /\ c \in Call /\ c.at = "waiting" /\ c.token = p.call.token /\ c.who = p.call.who
        /\ c.kind = p.call.kind /\ c.current = p.call.current /\ c.retry = p.call.retry
    BY <1>1 DEF Call
  <2>2. page' = [page EXCEPT ![t] = q] /\ net' = WithRenewal(t)
    BY <1>1, <1>2 DEF DeliverRefusal, IInv, TypeOK, Page, Call
  <2> HIDE DEF c
  <2>3. /\ q \in Page /\ q.stored = p.stored /\ q.user = p.user /\ q.loading = p.loading
        /\ q.timer = p.timer /\ q.waits = p.waits /\ q.call = c /\ c # None
    BY <1>1, <2>1, OtherCall
  <2> HIDE DEF q
  <2>4. PageOK(q)
    BY <1>1, <1>2, <2>1, <2>3 DEF TabOK, PageOK
  <2>. QED
    BY <1>1, <1>2, <2>1, <2>2, <2>3, <2>4, AsksKeeps
<1>3. CASE ~(p.call.current /\ ~p.call.retry /\ MayRenew(t))
  <2>1. /\ page' = [page EXCEPT ![t] = Rejected(page[t])]
        /\ net' = IF page[t].call.kind = "boot" THEN Forget(net, t) ELSE net
    BY <1>3 DEF DeliverRefusal, IInv, TypeOK
  <2>. QED
    BY <1>1, <2>1, RejectKeeps
<1>. QED
  BY <1>2, <1>3

LEMMA FailKeeps ==
  ASSUME IInv, NEW t \in Tabs, Fail(t)
  PROVE  IInv'
<1>1. /\ page[t].call # None /\ UNCHANGED <<live, cookie>>
      /\ page' = [page EXCEPT ![t] = Rejected(page[t])]
      /\ net' = IF page[t].call.kind = "boot" THEN Forget(net, t) ELSE net
  BY DEF Fail, IInv, TypeOK
<1>. QED
  BY <1>1, RejectKeeps

LEMMA LogoutKeeps ==
  ASSUME IInv, NEW t \in Tabs, Logout(t)
  PROVE  IInv'
<1> DEFINE p == page[t]  q == ClearSession(p)  k == NewMessage("logout", None, None, cookie, None)
           X == IF p.stored # None THEN {k} ELSE {}
<1>1. /\ p \in Page /\ TabOK(t) /\ p.user # None
      /\ UNCHANGED <<live, cookie>> /\ page' = [page EXCEPT ![t] = q]
      /\ net' = Forget(net, t) \union X
  BY DEF Logout, IInv, TypeOK, TabsOK
<1>2. /\ k \in Message /\ k.kind = "logout" /\ k.tab = None /\ k.at = "sent" /\ k.new = None
      /\ k.cookie = cookie /\ k.csrf = None
  <2>1. "logout" \in Kinds /\ cookie \in Sessions \union {None}
    BY DEF Kinds, IInv, TypeOK
  <2>. QED
    BY <2>1 DEF NewMessage, Message
<1> HIDE DEF k
<1>3. X \in SUBSET Message /\ \A n \in X : n = k
  BY <1>2
<1> HIDE DEF X
<1>4. /\ q \in Page /\ q.stored = None /\ q.user = None /\ q.loading = p.loading
      /\ q.timer = FALSE /\ q.waits = FALSE /\ Stale(p.call, q.call)
  BY <1>1, ClearSessionIs
<1> HIDE DEF q
<1>5. p.loading = FALSE
  BY <1>1 DEF TabOK, PageOK, Page
<1>. QED
  BY <1>1, <1>2, <1>3, <1>4, <1>5, EndsIn

LEMMA TimerKeeps ==
  ASSUME IInv, NEW t \in Tabs, Timer(t)
  PROVE  IInv'
<1> DEFINE p == page[t]
<1>1. p \in Page /\ TabOK(t) /\ p.timer /\ UNCHANGED <<live, cookie>>
  BY DEF Timer, IInv, TypeOK, TabsOK
<1>2. p.user # None /\ p.loading = FALSE
  BY <1>1 DEF TabOK, PageOK, Page
<1>3. CASE MayRenew(t)
  <2> DEFINE q == [p EXCEPT !.timer = FALSE, !.waits = TRUE]
  <2>1. page' = [page EXCEPT ![t] = q] /\ net' = WithRenewal(t)
    BY <1>1, <1>3 DEF Timer, IInv, TypeOK, Page
  <2>2. /\ q \in Page /\ q.stored = p.stored /\ q.user = p.user /\ q.loading = p.loading
        /\ q.call = p.call
    BY <1>1 DEF Page
  <2> HIDE DEF q
  <2>3. PageOK(q)
    BY <1>1, <1>2, <2>2 DEF TabOK, PageOK
  <2>. QED
    BY <1>1, <1>2, <1>3, <2>1, <2>2, <2>3, AsksKeeps
<1>4. CASE ~MayRenew(t)
  <2> DEFINE q == ClearSession(p)
  <2>1. PICK X \in SUBSET Message : X = {}
    OBVIOUS
  <2>2. page' = [page EXCEPT ![t] = q] /\ net' = Forget(net, t) \union X
    BY <1>4, <2>1 DEF Timer, IInv, TypeOK
  <2>3. /\ q \in Page /\ q.stored = None /\ q.user = None /\ q.loading = p.loading
        /\ q.timer = FALSE /\ q.waits = FALSE /\ Stale(p.call, q.call)
    BY <1>1, ClearSessionIs
  <2> HIDE DEF q
  <2>. QED
    BY <1>1, <1>2, <2>1, <2>2, <2>3, EndsIn
<1>. QED
  BY <1>3, <1>4

LEMMA NetLeft ==
  ASSUME NetOK, LeftOf(net', net)
  PROVE  NetOK'
<1> SUFFICES ASSUME NEW k \in net'
             PROVE  /\ k.kind = "login" => k.at \in {"sent", "done"} /\ (k.at = "sent" => k.who \in Users)
                    /\ k.kind = "logout" => k.tab = None /\ k.at \in {"sent", "done"}
                    /\ k.kind = "renew" /\ k.at = "found" => k.cookie \in Sessions /\ k.csrf = k.cookie
                    /\ k.kind # "logout" /\ k.at = "done" => k.new \in Sessions
                    /\ k.at # "done" => k.new = None
  BY DEF NetOK
<1>1. PICK m \in net :
        /\ k.kind = m.kind /\ k.who = m.who /\ k.cookie = m.cookie /\ k.csrf = m.csrf
        /\ k.at = m.at /\ k.new = m.new /\ k.tab \in {m.tab, None}
  BY DEF LeftOf
<1>. QED
  BY <1>1 DEF NetOK

LEMMA ReloadKeeps ==
  ASSUME IInv, NEW t \in Tabs, Reload(t)
  PROVE  IInv'
<1> DEFINE s == page[t].stored  loading == s # None
           c == IF s = None THEN None ELSE NewCall("boot", s)
           q == [Blank EXCEPT !.stored = s, !.loading = loading, !.call = c]
           N == {IF m.tab = t THEN [m EXCEPT !.tab = None] ELSE m : m \in net}
<1>1. /\ s \in Sessions \union {None} /\ UNCHANGED <<live, cookie>>
      /\ page' = [page EXCEPT ![t] = q] /\ net' = N /\ page \in [Tabs -> Page]
  BY DEF Reload, IInv, TypeOK, Page
<1>2. /\ N \in SUBSET Message /\ LeftOf(N, net) /\ SoleNews(N)
      /\ \A m \in net : m.tab = t \/ m \in N
      /\ \A k \in N : k.tab = None \/ k \in net
      /\ \A k \in N : k.tab # t
  <2>1. net \in SUBSET Message /\ SoleNews(net)
    BY FreshSole DEF IInv, TypeOK
  <2>. QED
    BY <2>1, AllUnheard
<1> HIDE DEF N
<1>3. /\ loading => /\ c \in Call /\ c # None /\ c.kind = "boot" /\ c.token = s /\ c.current = TRUE
                     /\ c.retry = FALSE /\ c.at = "sent"
      /\ ~loading => c = None
  <2>1. CASE loading
    <3>1. c = NewCall("boot", s)
      BY <2>1
    <3> HIDE DEF c, s, loading
    <3>. QED
      BY <1>1, <2>1, <3>1, NewCallIs
  <2>2. CASE ~loading
    BY <2>2
  <2>. QED
    BY <2>1, <2>2
<1> HIDE DEF c
<1>4. /\ q \in Page /\ q.stored = s /\ q.user = None /\ q.loading = loading /\ q.timer = FALSE
      /\ q.waits = FALSE /\ q.call = c
  <2>1. loading \in BOOLEAN /\ c \in Call \union {None} /\ Blank \in Page
    BY <1>3 DEF Blank, Page
  <2> HIDE DEF loading, s
  <2>. QED
    BY <1>1, <2>1 DEF Blank, Page
<1> HIDE DEF q
<1>5. PageOK(q) /\ ~Waiting(q) /\ (q.loading => q.call.at = "sent")
  BY <1>3, <1>4 DEF PageOK, Waiting
<1>6. /\ Renewals(t)' = {} /\ Logins(t)' = {} /\ NetOK'
      /\ \A u \in Tabs \ {t} : Renewals(u)' = Renewals(u) /\ Logins(u)' = Logins(u)
  <2>1. None \notin Tabs
    BY BrowserConstants
  <2>2. /\ Renewals(t)' = {} /\ Logins(t)' = {}
        /\ \A u \in Tabs \ {t} : Renewals(u)' = Renewals(u) /\ Logins(u)' = Logins(u)
    BY <1>1, <1>2, <2>1 DEF Renewals, Logins
  <2>3. NetOK'
    BY <1>1, <1>2, NetLeft DEF IInv
  <2>. QED
    BY <2>2, <2>3
<1>7. Fresh'
  <2>1. \A u \in Tabs : page'[u].stored \in {page[u].stored, None}
    BY <1>1, <1>4
  <2>. QED
    BY <1>1, <1>2, <2>1, FreshStays DEF IInv
<1>8. cookie' \in Sessions \union {None}
  BY <1>1 DEF IInv, TypeOK
<1>. QED
  BY <1>1, <1>2, <1>4, <1>5, <1>6, <1>7, <1>8, TabStep

LEMMA LoginKeeps ==
  ASSUME IInv, NEW t \in Tabs, NEW u \in Users, Login(t, u)
  PROVE  IInv'
<1> DEFINE p == page[t]  k == NewMessage("login", t, u, None, None)
<1>1. /\ p \in Page /\ TabOK(t) /\ p.user = None /\ ~p.loading /\ Logins(t) = {}
      /\ UNCHANGED <<live, cookie, page>> /\ net' = net \union {k} /\ page \in [Tabs -> Page]
  BY DEF Login, Logins, IInv, TypeOK, TabsOK
<1>2. /\ k \in Message /\ k.kind = "login" /\ k.tab = t /\ k.at = "sent" /\ k.new = None
      /\ k.cookie = None /\ k.csrf = None /\ k.who = u
  <2>1. "login" \in Kinds
    BY DEF Kinds
  <2>. QED
    BY <2>1, NewMessageIs
<1> HIDE DEF k
<1>3. p.stored = None
  <2>1. p.stored # None => Owner(p.stored) \in Users
    BY <1>1 DEF Page, Sessions, Owner
  <2>. QED
    BY <1>1, <2>1, BrowserConstants DEF TabOK, PageOK
<1>4. /\ Logins(t)' = {k} /\ Renewals(t)' = Renewals(t)
      /\ \A x \in Tabs \ {t} : Renewals(x)' = Renewals(x) /\ Logins(x)' = Logins(x)
  BY <1>1, <1>2 DEF Renewals, Logins
<1>5. net' \subseteq Message /\ NetOK'
  BY <1>1, <1>2 DEF IInv, TypeOK, NetOK
<1>6. Fresh'
  <2>1. SoleNews(net') /\ SoleNews(net) /\ LeftOf(net, net)
    BY <1>1, <1>2, FreshSole DEF SoleNews, IInv
  <2>2. \A n \in net' : n \in net \/ (n.new = None /\ n.cookie \in {cookie, None}
                                     /\ \E x \in Tabs : n.csrf \in {page[x].stored, None})
    BY <1>1, <1>2
  <2>. QED
    BY <1>1, <2>1, <2>2, FreshStays DEF IInv
<1>7. page' = [page EXCEPT ![t] = p] /\ cookie' \in Sessions \union {None}
  BY <1>1 DEF IInv, TypeOK
<1>8. \A m \in Renewals(t)' : RenewalOK(m, page[t])'
  BY <1>1, <1>3, <1>4 DEF TabOK, RenewalOK
<1>9. PageOK(p) /\ (p.waits \/ Waiting(p) => Renewals(t)' # {})
  BY <1>1, <1>4 DEF TabOK
<1>10. \A m, n \in Renewals(t)' : m = n
  BY <1>4 DEF IInv, TypeOK
<1>. QED
  BY <1>1, <1>3, <1>4, <1>5, <1>6, <1>7, <1>8, <1>9, <1>10, TabStep

-----------------------------------------------------------------------------
(* Answers.                                                                *)

(* The news of message m are known, and m is no more.                      *)
LEMMA Known ==
  ASSUME Fresh, NEW m \in net, net' = net \ {m}, cookie' \in {cookie, m.new, None},
         \A t \in Tabs : page'[t].stored \in {page[t].stored, m.new, None}
  PROVE  Fresh'
<1>1. ASSUME NEW k \in net', k.new # None
      PROVE  k \in net /\ k # m /\ k.new # m.new
  BY <1>1 DEF Fresh
<1>2. ASSUME NEW k \in net', k.new # None
      PROVE  k.new # cookie' /\ \A t \in Tabs : page'[t].stored # k.new
  BY <1>1, <1>2 DEF Fresh
<1>3. ASSUME NEW k \in net', k.new # None, NEW n \in net'
      PROVE  n.cookie # k.new /\ n.csrf # k.new /\ (n.new = k.new => n = k)
  BY <1>1, <1>3 DEF Fresh
<1>. QED
  BY <1>2, <1>3 DEF Fresh

LEMMA NewsTyped ==
  ASSUME IInv, NEW m \in net
  PROVE  /\ m \in Message /\ m.new \in Sessions \union {None} /\ m.tab \in Tabs \union {None}
         /\ \A t \in Tabs : m.new # page[t].stored \/ page[t].stored = None
  BY DEF IInv, TypeOK, Message, Fresh

(* A message nobody waits for, or a lost one that changes no page.         *)
LEMMA Removed ==
  ASSUME IInv, NEW m \in net, net' = net \ {m}, UNCHANGED <<live, page>>,
         cookie' \in {cookie, m.new}, m.kind = "renew" => m.tab = None
  PROVE  IInv'
<1>1. /\ m.new \in Sessions \union {None} /\ None \notin Tabs
      /\ \A t \in Tabs : m.new # page[t].stored \/ page[t].stored = None
  BY NewsTyped, BrowserConstants
<1>2. \A t \in Tabs : Renewals(t)' = Renewals(t) /\ Logins(t)' \subseteq Logins(t)
  BY <1>1 DEF Renewals, Logins
<1>3. TabsOK'
  BY <1>1, <1>2, TabKept DEF IInv, TabsOK
<1>4. TypeOK' /\ NetOK'
  BY <1>1, <1>2 DEF IInv, TypeOK, NetOK
<1>5. Fresh'
  BY Known DEF IInv
<1>. QED
  BY <1>3, <1>4, <1>5 DEF IInv

(* Tab t has its answer, or knows that it will not come.                   *)
LEMMA Heard ==
  ASSUME IInv, NEW m \in net, NEW t \in Tabs, m.tab = t, m.kind \in {"renew", "login"},
         NEW q \in Page, page' = [page EXCEPT ![t] = q], live' = live, net' = net \ {m},
         cookie' \in {cookie, m.new}, q.stored \in {m.new, None}, PageOK(q),
         q.loading => q.call.at # "refused", ~q.waits, ~Waiting(q)
  PROVE  IInv'
<1>1. /\ m.new \in Sessions \union {None} /\ None \notin Tabs
      /\ \A u \in Tabs : m.new # page[u].stored \/ page[u].stored = None
  BY NewsTyped, BrowserConstants
<1>2. Renewals(t)' = {} /\ Logins(t)' = {}
  <2>1. TabOK(t) /\ \A k, n \in Renewals(t) : k = n
    BY DEF IInv, TabsOK, TypeOK
  <2>2. m \in Renewals(t) \/ m \in Logins(t)
    BY DEF Renewals, Logins
  <2>3. \A k \in Renewals(t), n \in Logins(t) : FALSE
    BY <2>1 DEF TabOK, RenewalOK
  <2>4. Renewals(t)' = Renewals(t) \ {m} /\ Logins(t)' = Logins(t) \ {m}
    BY DEF Renewals, Logins
  <2>. QED
    BY <2>1, <2>2, <2>3, <2>4 DEF TabOK
<1>3. \A u \in Tabs \ {t} : /\ Renewals(u)' = Renewals(u) /\ Logins(u)' = Logins(u)
                            /\ cookie' = cookie \/ cookie' # page[u].stored \/ page[u].stored = None
  BY <1>1 DEF Renewals, Logins
<1>4. net' \subseteq Message /\ NetOK' /\ cookie' \in Sessions \union {None}
  BY <1>1 DEF IInv, TypeOK, NetOK
<1>5. Fresh'
  <2>1. \A u \in Tabs : page'[u].stored \in {page[u].stored, m.new, None}
    BY DEF IInv, TypeOK
  <2>. QED
    BY <2>1, Known DEF IInv
<1>. QED
  BY <1>2, <1>3, <1>4, <1>5, TabStep

(* The renewal of t failed, or its answer is lost.                         *)
LEMMA RenewalFails ==
  ASSUME IInv, NEW m \in net, NEW t \in Tabs, m.tab = t, m.kind = "renew",
         page' = [page EXCEPT ![t] = NotRenewed(page[t])], UNCHANGED <<live, cookie>>,
         net' = net \ {m}
  PROVE  IInv'
<1> DEFINE p == page[t]  q == NotRenewed(p)  first == Waiting(p) /\ p.call.kind = "boot"
<1>1. p \in Page /\ TabOK(t) /\ RenewalOK(m, p) /\ page' = [page EXCEPT ![t] = q]
  BY DEF IInv, TypeOK, TabsOK, TabOK, Renewals
<1>2. /\ q \in Page /\ q.stored = None /\ q.waits = FALSE
      /\ Waiting(p) => q.call = None
      /\ ~Waiting(p) => q.call = p.call \/ Stale(p.call, q.call)
      /\ first => q.user = None /\ q.loading = FALSE /\ q.timer = FALSE
      /\ ~first => q.loading = p.loading
      /\ ~first /\ ~p.waits => q.user = p.user /\ q.timer = p.timer
      /\ p.waits => q.user = None /\ q.timer = FALSE
  BY <1>1, NotRenewedIs
<1> HIDE DEF q
<1>3. p.loading => first
  BY <1>1 DEF TabOK, PageOK, RenewalOK, Waiting
<1>4. ~Waiting(q) /\ ~q.loading
  BY <1>2, <1>3 DEF Waiting, Stale
<1>5. PageOK(q)
  <2>1. CASE Waiting(p)
    BY <1>1, <1>2, <1>4, <2>1 DEF TabOK, PageOK
  <2>2. CASE ~Waiting(p)
    BY <1>1, <1>2, <1>3, <1>4, <2>2 DEF TabOK, PageOK, Stale
  <2>. QED
    BY <2>1, <2>2
<1>. QED
  BY <1>1, <1>2, <1>4, <1>5, Heard

LEMMA HearKeeps ==
  ASSUME IInv, NEW m \in net, Hear(m)
  PROVE  IInv'
<1>1. /\ m \in Message /\ m.at \in {"done", "refused"} /\ live' = live
      /\ cookie' = (IF m.at = "done" THEN m.new ELSE cookie)
      /\ m.tab \in Tabs \union {None} /\ m.kind \in Kinds /\ None \notin Tabs
  BY NewsTyped, BrowserConstants DEF Hear, Message
<1>2. net' = (IF m.kind = "login" THEN Forget(net \ {m}, m.tab) ELSE net \ {m})
  BY DEF Hear
<1>3. CASE m.tab = None
  <2>1. page' = page
    BY <1>3 DEF Hear
  <2>2. Forget(net \ {m}, m.tab) = net \ {m}
    <3>1. ASSUME NEW k \in net
          PROVE  (IF k.kind = "renew" /\ k.tab = None THEN [k EXCEPT !.tab = None] ELSE k) = k
      BY DEF IInv, TypeOK, Message
    <3>. QED
      BY <1>3, <3>1 DEF Forget
  <2>. QED
    BY <1>1, <1>2, <1>3, <2>1, <2>2, Removed
<1>4. ASSUME NEW t \in Tabs, m.tab = t
      PROVE  IInv'
  <2> DEFINE p == page[t]
  <2>1. p \in Page /\ TabOK(t) /\ page \in [Tabs -> Page] /\ m.kind \in {"renew", "login"}
    BY <1>1, <1>4 DEF IInv, TypeOK, TabsOK, NetOK, Kinds
  <2>2. CASE m.kind = "login"
    <3> DEFINE q == ApplyAuthenticated(p, m.new)
    <3>1. /\ m.at = "done" /\ m.new \in Sessions /\ page' = [page EXCEPT ![t] = q]
          /\ p.stored = None /\ p.loading = FALSE /\ Renewals(t) = {}
      BY <1>1, <1>4, <2>1, <2>2 DEF Hear, IInv, NetOK, TabOK, Logins, RenewalOK, Page
    <3>2. Forget(net \ {m}, t) = net \ {m}
      BY <3>1 DEF Forget, Renewals
    <3>3. /\ q \in Page /\ q.stored = m.new /\ q.user = Owner(m.new) /\ q.loading = FALSE
          /\ q.waits = FALSE /\ Stale(p.call, q.call)
      BY <2>1, <3>1, ApplyAuthenticatedIs
    <3>4. Owner(m.new) \in Users /\ None \notin Users
      BY <3>1, BrowserConstants DEF Sessions, Owner
    <3> HIDE DEF q
    <3>5. PageOK(q) /\ ~Waiting(q)
      BY <2>1, <3>1, <3>3, <3>4 DEF TabOK, PageOK, Waiting, Stale
    <3>. QED
      BY <1>1, <1>2, <1>4, <2>2, <3>1, <3>2, <3>3, <3>5, Heard
  <2>3. CASE m.kind = "renew" /\ m.at = "done"
    <3> DEFINE q == Renewed(p, m.new)
    <3>1. /\ m.new \in Sessions /\ page' = [page EXCEPT ![t] = q] /\ RenewalOK(m, p)
      <4>1. RenewalOK(m, p) /\ m.new \in Sessions
        BY <1>4, <2>1, <2>3 DEF IInv, NetOK, TabOK, Renewals
      <4>2. page' = [page EXCEPT ![m.tab] = IF m.at = "done" THEN Renewed(@, m.new) ELSE NotRenewed(@)]
        BY <1>1, <1>4, <2>3 DEF Hear
      <4>. QED
        BY <1>4, <2>1, <2>3, <4>1, <4>2
    <3>2. /\ q \in Page /\ q.stored = m.new /\ q.user = p.user /\ q.loading = p.loading
          /\ q.waits = FALSE /\ (q.timer => p.timer \/ p.waits)
          /\ ~Waiting(p) => q.call = p.call
          /\ Waiting(p) => /\ q.call # None /\ q.call.token = m.new /\ q.call.at = "sent"
                           /\ q.call.kind = p.call.kind /\ q.call.current = p.call.current
      BY <2>1, <3>1, RenewedIs
    <3> HIDE DEF q
    <3>3. p.loading => Waiting(p)
      BY <2>1, <3>1 DEF TabOK, PageOK, RenewalOK, Waiting
    <3>4. ~Waiting(q) /\ (q.loading => q.call.at = "sent")
      BY <3>2, <3>3 DEF Waiting
    <3>5. PageOK(q)
      <4>1. p.stored # None /\ Owner(m.new) = Owner(p.stored)
        BY <2>3, <3>1 DEF RenewalOK
      <4>2. CASE Waiting(p)
        BY <2>1, <3>2, <4>1, <4>2 DEF TabOK, PageOK, Waiting
      <4>3. CASE ~Waiting(p)
        BY <2>1, <3>2, <3>3, <4>1, <4>3 DEF TabOK, PageOK
      <4>. QED
        BY <4>2, <4>3
    <3>. QED
      BY <1>1, <1>2, <1>4, <2>3, <3>1, <3>2, <3>4, <3>5, Heard
  <2>4. CASE m.kind = "renew" /\ m.at = "refused"
    <3>1. page' = [page EXCEPT ![m.tab] = IF m.at = "done" THEN Renewed(@, m.new) ELSE NotRenewed(@)]
      BY <1>1, <1>4, <2>4 DEF Hear
    <3>2. page' = [page EXCEPT ![t] = NotRenewed(page[t])]
      BY <1>4, <2>1, <2>4, <3>1
    <3>. QED
      BY <1>1, <1>2, <1>4, <2>4, <3>2, RenewalFails
  <2>. QED
    BY <1>1, <2>1, <2>2, <2>3, <2>4
<1>. QED
  BY <1>1, <1>3, <1>4

LEMMA LoseKeeps ==
  ASSUME IInv, NEW m \in net, Lose(m)
  PROVE  IInv'
<1>1. net' = net \ {m} /\ UNCHANGED <<live, cookie>> /\ m.tab \in Tabs \union {None}
  BY NewsTyped DEF Lose
<1>2. CASE m.kind = "renew" /\ m.tab # None
  <2>1. page' = [page EXCEPT ![m.tab] = NotRenewed(page[m.tab])]
    BY <1>1, <1>2 DEF Lose, IInv, TypeOK
  <2>. QED
    BY <1>1, <1>2, <2>1, RenewalFails
<1>3. CASE ~(m.kind = "renew" /\ m.tab # None)
  <2>1. page' = page
    BY <1>3 DEF Lose
  <2>. QED
    BY <1>1, <1>3, <2>1, Removed
<1>. QED
  BY <1>2, <1>3

-----------------------------------------------------------------------------
LEMMA InitOK == Init => IInv
<1> SUFFICES ASSUME Init PROVE IInv
  OBVIOUS
<1>1. net = {} /\ \A t \in Tabs : page[t] = Blank
  BY DEF Init
<1>2. Blank \in Page
  BY DEF Blank, Page
<1>3. TypeOK
  BY <1>1, <1>2 DEF Init, TypeOK, Renewals
<1>4. NetOK /\ Fresh
  BY <1>1 DEF NetOK, Fresh
<1>5. TabsOK
  BY <1>1 DEF TabsOK, TabOK, PageOK, Waiting, Renewals, Logins, Blank
<1>. QED
  BY <1>3, <1>4, <1>5 DEF IInv

LEMMA NextKeeps == IInv /\ [Next]_vars => IInv'
<1> SUFFICES ASSUME IInv, [Next]_vars PROVE IInv'
  OBVIOUS
<1>1. ASSUME NEW m \in net, Serve(m) \/ Hear(m) \/ Lose(m)
      PROVE  IInv'
  BY <1>1, FindKeeps, RotateKeeps, SignInKeeps, SignOutKeeps, HearKeeps, LoseKeeps DEF Serve
<1>2. ASSUME NEW s \in Sessions, Revoke(s)
      PROVE  IInv'
  BY <1>2, RevokeKeeps
<1>3. ASSUME NEW t \in Tabs, Answer(t) \/ Deliver(t) \/ Fail(t)
      PROVE  IInv'
  BY <1>3, AcceptKeeps, RefuseKeeps, DeliverOkKeeps, DeliverRefusalKeeps, DeliverNothingKeeps,
     FailKeeps DEF Answer, Deliver
<1>4. ASSUME NEW t \in Tabs,
             Logout(t) \/ Timer(t) \/ Navigate(t) \/ Return(t) \/ Reload(t) \/ \E u \in Users : Login(t, u)
      PROVE  IInv'
  BY <1>4, LogoutKeeps, TimerKeeps, NavigateKeeps, ReturnKeeps, ReloadKeeps, LoginKeeps
<1>5. CASE UNCHANGED vars
  BY <1>5 DEF vars, IInv, TypeOK, NetOK, TabsOK, TabOK, PageOK, RenewalOK, Waiting, Renewals,
     Logins, Fresh
<1>. QED
  BY <1>1, <1>2, <1>3, <1>4, <1>5 DEF Next

(* The inductive invariant holds in every state.                           *)
THEOREM Invariance == Spec => []IInv
<1>. QED
  BY InitOK, NextKeeps, PTL DEF Spec

(* Every variable has its type, and each tab has one renewal at most,      *)
(* whoever asks for it (refreshAccessTokenPromise).                        *)
THEOREM TypeCorrect == Spec => []TypeOK
<1>1. IInv => TypeOK
  BY DEF IInv
<1>. QED
  BY <1>1, Invariance, PTL

(* With any number of tabs and persons, a tab has no session of somebody   *)
(* it does not show (refreshAccessToken, applyAuthenticatedSession).       *)
THEOREM SessionsAreOwn == Spec => []OwnSession
<1>1. IInv => OwnSession
  BY DEF IInv, TabsOK, TabOK, PageOK, OwnSession
<1>. QED
  BY <1>1, Invariance, PTL

(* Whoever waits for a renewal waits for one that is under way.            *)
THEOREM NobodyWaitsForNothing == Spec => []WaitersAreServed
<1>1. IInv => WaitersAreServed
  BY DEF IInv, TabsOK, TabOK, WaitersAreServed
<1>. QED
  BY <1>1, Invariance, PTL

-----------------------------------------------------------------------------
(* A tab keeps its session.                                                *)

LEMMA StaysSound ==
  ASSUME NEW t \in Tabs, Sound(t), UNCHANGED <<live, cookie>>,
         page'[t].stored = page[t].stored, Renewals(t) \subseteq net'
  PROVE  Sound(t)'
<1>1. Renewals(t) \subseteq Renewals(t)'
  BY DEF Renewals
<1>. QED
  BY <1>1 DEF Sound

(* What another tab does by itself changes nothing in t.                   *)
LEMMA OthersLeave ==
  ASSUME IInv, NEW t \in Tabs, NEW u \in Tabs, u # t, Sound(t),
         \/ Answer(u) \/ Deliver(u) \/ Fail(u) \/ Logout(u) \/ Timer(u) \/ Navigate(u)
         \/ Return(u) \/ Reload(u) \/ \E x \in Users : Login(u, x)
  PROVE  Sound(t)'
<1>1. /\ UNCHANGED <<live, cookie>>
      /\ page' = page \/ \E q : page' = [page EXCEPT ![u] = q]
      /\ \/ net \subseteq net'
         \/ Forget(net, u) \subseteq net'
         \/ net' = {IF m.tab = u THEN [m EXCEPT !.tab = None] ELSE m : m \in net}
  <2>1. CASE Answer(u) \/ Navigate(u) \/ Return(u)
    BY <2>1 DEF Answer, Accept, Refuse, Navigate, Return
  <2>2. CASE Deliver(u) \/ Fail(u)
    BY <2>2 DEF Deliver, DeliverOk, DeliverRefusal, DeliverNothing, Fail, WithRenewal
  <2>3. CASE Logout(u) \/ Timer(u)
    BY <2>3 DEF Logout, Timer, WithRenewal
  <2>4. CASE Reload(u) \/ \E x \in Users : Login(u, x)
    BY <2>4 DEF Reload, Login
  <2>. QED
    BY <2>1, <2>2, <2>3, <2>4
<1>2. page'[t] = page[t]
  BY <1>1 DEF IInv, TypeOK
<1>3. Renewals(t) \subseteq net'
  <2>1. CASE Forget(net, u) \subseteq net'
    <3>1. \A m \in Renewals(t) : m \in Forget(net, u)
      BY DEF Forget, Renewals
    <3>. QED
      BY <2>1, <3>1
  <2>. QED
    BY <1>1, <2>1 DEF Renewals
<1>. QED
  BY <1>1, <1>2, <1>3, StaysSound

LEMMA BackendKeepsSound ==
  ASSUME IInv, NEW t \in Tabs, Sound(t), NEW m \in net, m.tab = t, Serve(m)
  PROVE  Sound(t)'
<1>1. TabOK(t) /\ None \notin Tabs /\ \A k, n \in Renewals(t) : k = n
  BY BrowserConstants DEF IInv, TabsOK, TypeOK
<1>2. m.kind = "renew" /\ m \in Renewals(t)
  <2>1. m.kind # "logout"
    BY <1>1 DEF IInv, NetOK
  <2>2. m.kind # "login"
    BY <1>1 DEF Logins, TabOK, RenewalOK, Sound
  <2>3. m.kind \in Kinds
    BY DEF IInv, TypeOK, Message
  <2>. QED
    BY <2>1, <2>2, <2>3 DEF Kinds, Renewals
<1>3. CASE Find(m)
  <2>1. m.at = "sent" /\ UNCHANGED <<live, cookie, page>>
    BY <1>3 DEF Find
  <2>2. page[t].stored # None /\ page[t].stored = cookie /\ cookie \in live
    BY <1>1, <1>2, <2>1 DEF Sound
  <2>. QED
    BY <2>1, <2>2 DEF Sound
<1>4. CASE Rotate(m)
  <2>1. PICK s : /\ net' = (net \ {m}) \union {Answered(m, "done", s)} /\ s \in live'
                 /\ s = NewSession(Owner(m.cookie)) /\ Unused(Owner(m.cookie)) # {} /\ m.cookie \in Sessions
    BY <1>4 DEF Rotate, IInv, NetOK
  <2>2. s \in Sessions \union {None} /\ m \in Message
    <3>1. Owner(m.cookie) \in Users
      BY <2>1 DEF Sessions, Owner
    <3>. QED
      BY <2>1, <3>1, NewSessionIs DEF IInv, TypeOK
  <2>3. LET k == Answered(m, "done", s) IN
        k.kind = "renew" /\ k.tab = t /\ k.at = "done" /\ k.new = s
    BY <1>2, <2>2, AnsweredIs
  <2>. QED
    BY <2>1, <2>3 DEF Sound, Renewals
<1>. QED
  BY <1>2, <1>3, <1>4 DEF Serve, SignIn, SignOut

LEMMA HearingKeepsSound ==
  ASSUME IInv, NEW t \in Tabs, Sound(t), NEW m \in net, m.tab = t, Hear(m)
  PROVE  Sound(t)'
<1>1. TabOK(t) /\ None \notin Tabs /\ \A k, n \in Renewals(t) : k = n
  BY BrowserConstants DEF IInv, TabsOK, TypeOK
<1>2. m.kind = "renew" /\ m \in Renewals(t)
  <2>1. m.kind # "logout"
    BY <1>1 DEF IInv, NetOK
  <2>2. m.kind # "login"
    BY <1>1 DEF Logins, TabOK, RenewalOK, Sound
  <2>3. m.kind \in Kinds
    BY DEF IInv, TypeOK, Message
  <2>. QED
    BY <2>1, <2>2, <2>3 DEF Kinds, Renewals
<1>3. RenewalOK(m, page[t]) /\ m.at \in {"done", "refused"}
  BY <1>1, <1>2 DEF TabOK, Hear
<1>4. m.at = "done" /\ m.new \in live
  BY <1>1, <1>2, <1>3 DEF RenewalOK, Sound
<1>5. m.new \in Sessions /\ cookie' = m.new /\ live' = live /\ page \in [Tabs -> Page]
  BY <1>2, <1>4 DEF Hear, IInv, NetOK, TypeOK
<1>6. page' = [page EXCEPT ![m.tab] = IF m.at = "done" THEN Renewed(@, m.new) ELSE NotRenewed(@)]
  BY <1>1, <1>2 DEF Hear
<1>7. page'[t].stored = m.new
  <2>1. page'[t] = Renewed(page[t], m.new) /\ page[t] \in Page
    BY <1>4, <1>5, <1>6
  <2>2. m.new \in Sessions
    BY <1>5
  <2>3. Renewed(page[t], m.new).stored = m.new
    BY <2>1, <2>2, RenewedIs
  <2>. QED
    BY <2>1, <2>3
<1>. QED
  BY <1>4, <1>5, <1>7, BrowserConstants DEF Sound

LEMMA OwnStepKeepsSound ==
  ASSUME IInv, NEW t \in Tabs, Sound(t),
         \/ Answer(t) \/ Deliver(t) \/ Timer(t) \/ Navigate(t) \/ Return(t)
         \/ \E x \in Users : Login(t, x)
  PROVE  Sound(t)'
<1> DEFINE p == page[t]
<1>1. p \in Page /\ TabOK(t) /\ page \in [Tabs -> Page]
  BY DEF IInv, TypeOK, TabsOK
<1>2. MayRenew(t)
  BY DEF Sound, MayRenew
<1>3. net \subseteq WithRenewal(t) /\ Renewals(t) \subseteq net
  BY DEF WithRenewal, Renewals
<1>4. CASE Answer(t)
  <2>1. UNCHANGED <<live, cookie, net>> /\ \E c : page' = [page EXCEPT ![t] = [p EXCEPT !.call = c]]
    BY <1>1, <1>4 DEF Answer, Accept, Refuse, Page
  <2>2. page'[t].stored = p.stored
    BY <1>1, <2>1 DEF Page
  <2>. QED
    BY <1>3, <2>1, <2>2, StaysSound
<1>5. CASE DeliverOk(t)
  <2> DEFINE r == [p EXCEPT !.call = None]
             w == Resolved(r, p.call.who)
  <2>1. /\ p.call # None /\ p.call.at = "ok" /\ UNCHANGED <<live, cookie, net>>
        /\ page'[t] = IF p.call.current THEN [w EXCEPT !.loading = @ /\ p.call.kind # "boot"] ELSE r
    BY <1>1, <1>5 DEF DeliverOk
  <2>2. p.call.who \in Users \union {None}
    BY <1>1, <2>1 DEF TabOK, PageOK
  <2>3. r \in Page /\ r.stored = p.stored
    BY <1>1, WithoutCall
  <2> HIDE DEF r
  <2>4. w \in Page /\ w.stored = p.stored
    BY <2>2, <2>3, ResolvedIs
  <2> HIDE DEF w
  <2>5. page'[t].stored = p.stored
    BY <2>1, <2>3, <2>4 DEF Page
  <2>. QED
    BY <1>3, <2>1, <2>5, StaysSound
<1>6. CASE DeliverRefusal(t)
  <2>1. p.call # None /\ p.call \in Call /\ p.call.at = "refused" /\ UNCHANGED <<live, cookie>>
    BY <1>6, CallTyped DEF DeliverRefusal, IInv
  <2>2. CASE p.call.current /\ ~p.call.retry
    <3>1. net' = WithRenewal(t) /\ page' = [page EXCEPT ![t].call.at = "waiting"]
      BY <1>2, <1>6, <2>2 DEF DeliverRefusal
    <3>2. page'[t].stored = p.stored
      BY <1>1, <3>1 DEF Page
    <3>. QED
      BY <1>3, <2>1, <3>1, <3>2, StaysSound
  <2>3. CASE ~(p.call.current /\ ~p.call.retry)
    <3>1. /\ page'[t] = Rejected(p)
          /\ net' = IF p.call.kind = "boot" THEN Forget(net, t) ELSE net
      BY <1>1, <1>6, <2>3 DEF DeliverRefusal
    <3>2. p.call.kind # "boot"
      <4>1. SUFFICES ASSUME p.call.kind = "boot" PROVE FALSE
        OBVIOUS
      <4>2. p.loading /\ p.call.retry /\ p.stored \notin live
        BY <1>1, <2>1, <2>3, <4>1 DEF TabOK, PageOK
      <4>3. Renewals(t) = {}
        BY <1>1, <2>1, <4>2 DEF TabOK, RenewalOK
      <4>. QED
        BY <4>2, <4>3 DEF Sound
    <3>3. page'[t].stored = p.stored
      BY <1>1, <2>1, <3>1, <3>2, RejectedIs
    <3>. QED
      BY <1>3, <2>1, <3>1, <3>2, <3>3, StaysSound
  <2>. QED
    BY <2>2, <2>3
<1>7. CASE DeliverNothing(t)
  <2>1. p.call # None /\ ~p.call.current /\ UNCHANGED <<live, cookie, net>> /\ page'[t] = Rejected(p)
    BY <1>1, <1>7 DEF DeliverNothing
  <2>2. page'[t].stored = p.stored
    BY <1>1, <2>1, RejectedIs
  <2>. QED
    BY <1>3, <2>1, <2>2, StaysSound
<1>8. CASE Timer(t)
  <2>1. /\ net' = WithRenewal(t) /\ UNCHANGED <<live, cookie>>
        /\ page' = [page EXCEPT ![t].timer = FALSE, ![t].waits = TRUE]
    BY <1>2, <1>8 DEF Timer
  <2>2. page'[t].stored = p.stored
    BY <1>1, <2>1 DEF Page
  <2>. QED
    BY <1>3, <2>1, <2>2, StaysSound
<1>9. CASE Navigate(t)
  <2>1. UNCHANGED <<live, cookie, net>> /\ page'[t] = Rearmed(p)
    BY <1>1, <1>9 DEF Navigate
  <2>2. page'[t].stored = p.stored
    BY <1>1, <2>1, RearmedIs
  <2>. QED
    BY <1>3, <2>1, <2>2, StaysSound
<1>10. CASE Return(t)
  <2>1. UNCHANGED <<live, cookie, net>> /\ page'[t].stored = p.stored
    BY <1>1, <1>10 DEF Return, Page
  <2>. QED
    BY <1>3, <2>1, StaysSound
<1>11. CASE \E x \in Users : Login(t, x)
  <2>1. UNCHANGED <<live, cookie, page>> /\ net \subseteq net'
    BY <1>11 DEF Login
  <2>. QED
    BY <1>3, <2>1, StaysSound
<1>. QED
  BY <1>4, <1>5, <1>6, <1>7, <1>8, <1>9, <1>10, <1>11 DEF Deliver

(* With any number of tabs and persons, a tab does not lose its session by *)
(* what it does on its own: its renewals are one (refreshAccessToken).     *)
THEOREM NoTabLosesItsSession == Spec => KeepsItsSession
<1>1. IInv /\ [Next]_vars => [\A t \in Tabs : Sound(t) => (Sound(t)' \/ Disturbed(t))]_vars
  <2> SUFFICES ASSUME IInv, Next, NEW t \in Tabs, Sound(t), ~Disturbed(t)
               PROVE  Sound(t)'
    OBVIOUS
  <2>1. ASSUME NEW m \in net, Serve(m) \/ Hear(m) \/ Lose(m)
        PROVE  Sound(t)'
    BY <2>1, BackendKeepsSound, HearingKeepsSound DEF Disturbed
  <2>2. ASSUME NEW u \in Tabs,
               \/ Answer(u) \/ Deliver(u) \/ Fail(u) \/ Logout(u) \/ Timer(u) \/ Navigate(u)
               \/ Return(u) \/ Reload(u) \/ \E x \in Users : Login(u, x)
        PROVE  Sound(t)'
    BY <2>2, OthersLeave, OwnStepKeepsSound DEF Disturbed
  <2>. QED
    BY <2>1, <2>2 DEF Next, Disturbed
<1>. QED
  BY <1>1, Invariance, PTL DEF Spec, KeepsItsSession
=============================================================================
