---------------------------- MODULE MCChatMirror ----------------------------
(***************************************************************************)
(* Instances of ChatMirror for TLC: two leads with a contact each.         *)
(***************************************************************************)
EXTENDS ChatMirror, TLC

CONSTANTS l1, l2, k1, k2

MCLeads == {l1, l2}
MCContacts == {k1, k2}
MCContactOf == (l1 :> k1) @@ (l2 :> k2)

Symmetry == Permutations(Texts) \cup Permutations(Consumers)
=============================================================================
