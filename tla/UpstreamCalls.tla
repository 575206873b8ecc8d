---------------------------- MODULE UpstreamCalls ----------------------------
(***************************************************************************)
(* What the beacon and the chat handlers see of Transport.tla when they    *)
(* call Client.Do: whether a connection is idle in the pool.  A call takes *)
(* it and may leave others; with none it dials, and only a dial looks at   *)
(* whether the caller's context has been cancelled.  A body read to its    *)
(* end may put its connection back.                                        *)
(***************************************************************************)
EXTENDS Naturals

VARIABLE pooled

CanSend(cancelled) == pooled \/ ~cancelled

TakeConn == pooled' \in {FALSE, pooled}

PutConn == pooled' \in {TRUE, pooled}
=============================================================================
