----------------------------- MODULE MCSessions -----------------------------
(* Instances of Sessions for TLC.                                           *)
EXTENDS Sessions, TLC

CONSTANTS r1, r2, r3, r4, c1, c2

MCRequests == {r1, r2, r3, r4}
MCConversations == {c1, c2}
SessionSymmetry == Permutations(MCRequests) \union Permutations(MCConversations)
=============================================================================
