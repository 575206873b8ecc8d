--------------------------- MODULE MCResponseModes ---------------------------
(* Instances of ResponseModes for TLC.                                      *)
EXTENDS ResponseModes, TLC

CONSTANTS a, b

MCIds == {a, b}
MCClasses == {"api_error", "rate_limit_error"}
MCReasons == {"tool-calls", "length"}

IdSymmetry == Permutations(MCIds)
=============================================================================
