------------------------------ MODULE CCEvents ------------------------------
(***************************************************************************)
(* The events of an upstream answer (api.CCStreamEvent), shared by the two *)
(* handlers that read them.  An event is a record with its "type" and the  *)
(* fields that type carries; texts, fragments of arguments and tool inputs *)
(* are sequences of tokens.  "other" stands for what both handlers skip:   *)
(* blank lines, lines that do not parse, framing events, unknown types.    *)
(***************************************************************************)
EXTENDS Naturals, Sequences

CONSTANTS Ids,      \* tool call ids
          Classes,  \* error classes, as upstreamThrottleType tells them apart
          Reasons,  \* finish reasons
          None      \* an absent map entry, field or answer

ASSUME NoneAssumption == None \notin Nat /\ None \notin Ids /\ None \notin Classes

TextTypes == {"text-delta", "reasoning-delta"}
StartTypes == {"tool-use", "tool-input-start"}
=============================================================================
