---------------------------- MODULE MCBoardTasks ----------------------------
(***************************************************************************)
(* Instances of BoardTasks for TLC: an application of each board and a     *)
(* status change of either lead.                                           *)
(***************************************************************************)
EXTENDS BoardTasks

CONSTANTS a1, a2, c1, c2

MCLeadOf == [c \in Changes |-> IF c = c1 THEN a1 ELSE a2]
MCSends == [x \in Hooks |-> IF x = a1 THEN 2 ELSE 1]
=============================================================================
