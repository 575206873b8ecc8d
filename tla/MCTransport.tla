----------------------------- MODULE MCTransport -----------------------------
(* Instances of Transport for TLC.                                          *)
EXTENDS Transport, TLC

CONSTANTS r1, r2, r3, c1, c2, c3, c4

MCTwoRequests == {r1, r2}
MCThreeRequests == {r1, r2, r3}
MCFourConns == {c1, c2, c3, c4}
MCTwoConns == {c1, c2}

\* Requests are interchangeable; connections are not (NewConn chooses one).
RequestSymmetry == Permutations(MCThreeRequests)
=============================================================================
