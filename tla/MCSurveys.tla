----------------------------- MODULE MCSurveys -----------------------------
(* Small series of surveys: no questions or one of two lists of questions, *)
(* and visits from one device.                                            *)
EXTENDS Surveys, TLC

CONSTANTS s1, s2, s3, v1, v2, d1, q0, q1, q2

MCDeviceOf == [v \in Visits |-> d1]

Change(questions, many, archived) ==
  [questions |-> questions, many |-> many, archived |-> archived]

(* Bound: the second participant comes only while there are two rounds and *)
(* nothing has crashed.                                                    *)
Second     == visits[v2] # None \/ \E a \in answers : a.visit = v2
FewWhenTwo == Second => crashes = 0 /\ Cardinality(Rounds) <= 2

Editing   == {Change(q1, None, None), Change(q2, None, None)}
Archiving == {Change(None, None, TRUE), Change(None, None, FALSE)}

Nothing == {}

ArchivingEditing == Archiving \union Editing
=============================================================================
