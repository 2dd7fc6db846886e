-------------------------- MODULE MCAnnualTargets --------------------------
(* Two overlapping requests on one target, two measures and  *)
(* two years; the first period ends on day 0, the others later.            *)
EXTENDS AnnualTargets, TLC

CONSTANTS t1, r1, r2, m1, m2

MCDefinitions ==
  {[year |-> 1, end |-> 0, measure |-> m1],
   [year |-> 1, end |-> 1, measure |-> m2],
   [year |-> 2, end |-> 0, measure |-> m1]}

d1 == CHOOSE d \in MCDefinitions : d.year = 1 /\ d.end = 0

(* The definition counts in updates only. *)
MCCommands ==
  [kind : {"update"}, def : MCDefinitions, reasoned : BOOLEAN]
    \union [kind : {"activate"}, def : {d1}, reasoned : {FALSE}]
    \union [kind : {"close", "reopen"}, def : {d1}, reasoned : {TRUE}]

Interchangeable == Permutations({r1, r2})
=============================================================================
