------------------------------ MODULE ConnLease ------------------------------
(***************************************************************************)
(* What the transport promises about its connections, and nothing about    *)
(* how: a connection is opened once, belongs to at most one request at a   *)
(* time, waits in the idle set between two requests, and once dropped is   *)
(* never lent again.  Transport.tla implements this specification with a   *)
(* linked list under a mutex, program counters and sockets.                *)
(***************************************************************************)
CONSTANTS Requests,  \* calls of RoundTrip
          Conns,     \* connections that can be dialed
          None       \* no connection

VARIABLES idle,    \* connections a request may be lent
          lease,   \* the connection each request is using
          opened   \* every connection opened so far

vars == <<idle, lease, opened>>

Init == /\ idle = {}
        /\ lease = [r \in Requests |-> None]
        /\ opened = {}

Open(r, c) == /\ lease[r] = None
              /\ c \notin opened
              /\ opened' = opened \union {c}
              /\ lease' = [lease EXCEPT ![r] = c]
              /\ UNCHANGED idle

Borrow(r, c) == /\ lease[r] = None
                /\ c \in idle
                /\ idle' = idle \ {c}
                /\ lease' = [lease EXCEPT ![r] = c]
                /\ UNCHANGED opened

Return(r) == /\ lease[r] # None
             /\ idle' = idle \union {lease[r]}
             /\ lease' = [lease EXCEPT ![r] = None]
             /\ UNCHANGED opened

Drop(r) == /\ lease[r] # None
           /\ lease' = [lease EXCEPT ![r] = None]
           /\ UNCHANGED <<idle, opened>>

Flush == /\ idle' = {}
         /\ UNCHANGED <<lease, opened>>

Next == \/ \E r \in Requests : \/ \E c \in Conns : Open(r, c) \/ Borrow(r, c)
                               \/ Return(r) \/ Drop(r)
        \/ Flush

Spec == Init /\ [][Next]_vars
=============================================================================
