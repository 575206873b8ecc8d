------------------------------ MODULE Sessions ------------------------------
(***************************************************************************)
(* identity.sessionFor: the session id of a conversation, kept while it is *)
(* used again within sessionTTL.  A request reads the clock before it      *)
(* takes the mutex, so requests may enter the critical section in another  *)
(* order than that of the times they carry.  An id is named by the request *)
(* that mints it.                                                          *)
(***************************************************************************)
EXTENDS Integers

CONSTANTS
    Requests,
    Conversations,   \* what User, or the hash of model, system and first turn, tells apart
    sessionTTL,
    MaxLag,          \* how long a request may be between its clock and the lock
    MaxTime,         \* bound on the clock
    None

Entry == [id : Requests, seen : 0..MaxTime]

ASSUME SessionsAssumption ==
    /\ sessionTTL \in Nat \ {0} /\ MaxLag \in Nat /\ MaxTime \in Nat
    /\ None \notin Requests \union Conversations \union Entry

VARIABLES
    clock,      \* time.Now()
    pc,         \* "start", "lock", "returned"
    convKey,    \* the request's conversation, None without any context
    now,        \* the time the request has read
    sessions,   \* conversation -> its id and when it was last seen, or None
    got         \* the id returned

vars == <<clock, pc, convKey, now, sessions, got>>

TypeOK ==
    /\ clock \in 0..MaxTime
    /\ pc \in [Requests -> {"start", "lock", "returned"}]
    /\ convKey \in [Requests -> Conversations \union {None}]
    /\ now \in [Requests -> 0..MaxTime]
    /\ sessions \in [Conversations -> Entry \union {None}]
    /\ got \in [Requests -> Requests \union {None}]

Init ==
    /\ clock = 0
    /\ pc = [r \in Requests |-> "start"]
    /\ convKey = [r \in Requests |-> None]
    /\ now = [r \in Requests |-> 0]
    /\ sessions = [c \in Conversations |-> None]
    /\ got = [r \in Requests |-> None]

\* No user, no system text and no user turn: a fresh id, and nothing is kept.
NoContext(r) ==
    /\ pc[r] = "start"
    /\ got' = [got EXCEPT ![r] = r]
    /\ pc' = [pc EXCEPT ![r] = "returned"]
    /\ UNCHANGED <<clock, convKey, now, sessions>>

ReadClock(r) ==
    /\ pc[r] = "start"
    /\ \E c \in Conversations : convKey' = [convKey EXCEPT ![r] = c]
    /\ now' = [now EXCEPT ![r] = clock]
    /\ pc' = [pc EXCEPT ![r] = "lock"]
    /\ UNCHANGED <<clock, sessions, got>>

NeverExpires(e, t) == e # None

Fresh(e, t) == e # None /\ t - e.seen < sessionTTL

SeenAtBirth(e, t) == e
TouchExpiry(e, t) == [e EXCEPT !.seen = t + sessionTTL]

Touch(e, t) == [e EXCEPT !.seen = t]

Reuse(r) == LET c == convKey[r] IN
    /\ pc[r] = "lock"
    /\ Fresh(sessions[c], now[r])
    /\ got' = [got EXCEPT ![r] = sessions[c].id]
    /\ sessions' = [sessions EXCEPT ![c] = Touch(@, now[r])]
    /\ pc' = [pc EXCEPT ![r] = "returned"]
    /\ UNCHANGED <<clock, convKey, now>>

Stale(e, t) == e # None /\ t - e.seen > sessionTTL

\* A new id; the entries that are too old at the request's time are dropped.
Mint(r) ==
    /\ pc[r] = "lock"
    /\ ~Fresh(sessions[convKey[r]], now[r])
    /\ got' = [got EXCEPT ![r] = r]
    /\ sessions' = [c \in Conversations |->
           IF c = convKey[r] THEN [id |-> r, seen |-> now[r]]
           ELSE IF Stale(sessions[c], now[r]) THEN None ELSE sessions[c]]
    /\ pc' = [pc EXCEPT ![r] = "returned"]
    /\ UNCHANGED <<clock, convKey, now>>

\* Requests reach the lock within MaxLag: it is held for a map scan only.
Tick ==
    /\ clock < MaxTime
    /\ \A r \in Requests : pc[r] = "lock" => clock + 1 - now[r] <= MaxLag
    /\ clock' = clock + 1
    /\ UNCHANGED <<pc, convKey, now, sessions, got>>

Next == Tick \/ \E r \in Requests : NoContext(r) \/ ReadClock(r) \/ Reuse(r) \/ Mint(r)

Spec == Init /\ [][Next]_vars

-----------------------------------------------------------------------------
(* Properties *)

Served(r) == pc[r] = "returned" /\ convKey[r] # None

\* "The stable session id for a conversation": two requests of a conversation
\* whose times are less than sessionTTL apart, but for the lag of the two that
\* may have come between them, have the same id, in whatever order they and
\* requests of other conversations entered the critical section.
StableSession ==
    \A r, q \in Requests :
        /\ Served(r) /\ Served(q) /\ convKey[r] = convKey[q]
        /\ now[r] <= now[q] /\ now[q] - now[r] < sessionTTL - 2 * MaxLag
        => got[r] = got[q]

\* An id is only reused by a request of the same conversation that comes within
\* sessionTTL of an earlier use: no idle session is resumed.
IdleSessionExpires ==
    [][\A q \in Requests : got'[q] # got[q] /\ got'[q] # q =>
          \E r \in Requests :
              /\ Served(r) /\ got[r] = got'[q] /\ convKey[r] = convKey[q]
              /\ now[q] - now[r] < sessionTTL]_vars
=============================================================================
