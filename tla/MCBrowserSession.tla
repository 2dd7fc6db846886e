-------------------------- MODULE MCBrowserSession --------------------------
(* Instances of BrowserSession: model values for tabs and people.          *)
EXTENDS BrowserSession

CONSTANTS t1, t2, anna, ben

BothInTheFirst == {<<t1, anna>>, <<t1, ben>>, <<t2, ben>>}

(* The number of a session says nothing: a state is seen as the place that *)
(* holds each session, the first of several, and whether it has a row.     *)
Place(s) ==
  CASE s = cookie -> {<<"cookie">>}
    [] s # cookie /\ page[t1].stored = s -> {<<"first">>}
    [] s # cookie /\ page[t1].stored # s /\ page[t2].stored = s -> {<<"second">>}
    [] OTHER ->
         {<<t>> : t \in {u \in Tabs : page[u].call # None /\ page[u].call.token = s}}
         \union {<<m.kind, m.tab, m.at, m.csrf = s, m.new = s>> :
                   m \in {n \in net : s \in {n.cookie, n.csrf, n.new}}}

Seen ==
  LET Name(s) == IF s = None THEN None ELSE <<Owner(s), s \in live, Place(s)>>
      SeenCall(c) == IF c.token = None THEN c ELSE [c EXCEPT !.token = Name(@)]
  IN  <<Name(cookie),
        [t \in Tabs |-> IF page[t].call = None THEN [page[t] EXCEPT !.stored = Name(@)]
                        ELSE [page[t] EXCEPT !.stored = Name(@), !.call = SeenCall(@)]],
        {[m EXCEPT !.cookie = Name(@), !.csrf = Name(@), !.new = Name(@)] : m \in net},
        Cardinality(net)>>
=============================================================================
