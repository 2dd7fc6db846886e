----------------------------- MODULE Identities -----------------------------
(***************************************************************************)
(* Ids are given to at most one row: an account or an organisation that is *)
(* deleted leaves a mark behind, so that nothing takes its place.          *)
(***************************************************************************)
EXTENDS Rows

CONSTANTS
  Fresh,  \* an id no row has had
  Gone    \* the id of a deleted row

ASSUME MarksDiffer == Fresh # Gone /\ Fresh # None /\ Gone # None
=============================================================================
