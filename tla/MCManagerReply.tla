--------------------------- MODULE MCManagerReply ---------------------------
(***************************************************************************)
(* The small instance of ManagerReply for TLC: one user in both bots, a    *)
(* second one in the first; a lead without a contact and one with; two     *)
(* messages of one text, the webhook of the first of them sent twice.      *)
(***************************************************************************)
EXTENDS ManagerReply, TLC

CONSTANTS u1, u2, l1, l2, k1, x1

TwoUsersLinks == {<<u1, "master">>, <<u1, "operator">>, <<u2, "master">>}
SecondHasContact == l1 :> NoContact @@ l2 :> k1
BothNames == {{"ref", "client"}}
OneText == [m \in Msgs |-> x1]
FirstTwice == [m \in Msgs |-> IF m = CHOOSE n \in Msgs : TRUE THEN 2 ELSE 1]
=============================================================================
