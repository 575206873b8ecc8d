---------------------------- MODULE MCChatHandler ----------------------------
(* Instances of ChatHandler for TLC.                                        *)
EXTENDS ChatHandler, TLC

CONSTANTS h1, h2

MCHandlers == {h1, h2}
MCOneHandler == {h1}
HandlerSymmetry == Permutations(MCHandlers)
=============================================================================
