------------------------------ MODULE MCSurvey ------------------------------
(***************************************************************************)
(* Small instances of Survey for TLC.                                      *)
(***************************************************************************)
EXTENDS Survey

CONSTANTS s1, s2, l1, l2

\* One /start, or two with different leads.
OneLead == [s \in Starts |-> l1]
TwoLeads == [s \in Starts |-> IF s = s1 THEN l1 ELSE l2]

\* Telegram delivers everything once, or texts once more.
Once == [u \in Updates |-> 1]
TextsTwice == [u \in Updates |-> IF u \in Starts THEN 1 ELSE 2]
=============================================================================
