---------------------------- MODULE MCActivities ----------------------------
(* Two editors of one activity over two days.                              *)
EXTENDS Activities

CONSTANTS a1, t1, t2, c1, c2

MCTexts == {t1, t2}
MCClients == {c1, c2}

Fields(e, d, v, t) == [exec |-> e, date |-> d, visitors |-> v, text |-> t]

MCPatches ==
  {Fields("planned", 1, None, None),      \* move to tomorrow
   Fields(None, None, 1, None),           \* document visitors only
   Fields("cancelled", 0, 0, t2)}         \* the whole form of an editor page

MCDrafts == {Fields(None, 0, 1, t1), Fields(None, 1, 0, t1), Fields("planned", 1, 1, t1)}
=============================================================================
