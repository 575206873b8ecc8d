--------------------------- MODULE SessionsProofs ---------------------------
(***************************************************************************)
(* Proofs about Sessions.tla, for any requests, conversations, sessionTTL  *)
(* and MaxLag.  The argument is in Kept: what a served request left in the *)
(* map is still there, refreshed to a time at most MaxLag before its own,  *)
(* or so much time has passed that no request still waiting for the lock   *)
(* can be close to it.                                                     *)
(***************************************************************************)
EXTENDS Sessions, TLAPS

\* A request has not read a time to come, nor, at the lock, one long past.
ClockInv ==
    /\ \A r \in Requests : now[r] <= clock
    /\ \A r \in Requests : pc[r] = "start" => convKey[r] = None
    /\ \A r \in Requests : pc[r] = "lock" =>
          clock - now[r] <= MaxLag /\ convKey[r] \in Conversations

\* The entry that r's conversation had when r returned, or its successors.
HasEntry(r) == LET e == sessions[convKey[r]] IN
    e # None /\ e.id = got[r] /\ now[r] - MaxLag <= e.seen

Kept ==
    \A r \in Requests : Served(r) =>
        HasEntry(r) \/ clock - now[r] >= sessionTTL - MaxLag

\* An entry carries the time of some request that was given its id.
SeenByOne ==
    \A c \in Conversations : sessions[c] # None =>
        \E r \in Requests :
            /\ Served(r) /\ convKey[r] = c
            /\ got[r] = sessions[c].id /\ now[r] = sessions[c].seen

IInv == TypeOK /\ ClockInv /\ Kept /\ SeenByOne /\ StableSession

\* A map entry is never the marker for its absence.
LEMMA EntryIsSome ==
    ASSUME TypeOK, NEW c \in Conversations, sessions[c] # None
    PROVE  sessions[c] \in Entry
  BY DEF TypeOK

LEMMA InitInv == Init => IInv
  BY SessionsAssumption
  DEF Init, IInv, TypeOK, ClockInv, Kept, SeenByOne, StableSession, Served

\* Time passing and requests without context leave all else alone.
LEMMA TickStep == IInv /\ Tick => IInv'
<1> SUFFICES ASSUME IInv, Tick PROVE IInv'
  OBVIOUS
<1> USE SessionsAssumption
<1>1. TypeOK'
  BY DEF IInv, TypeOK, Tick
<1>2. ClockInv'
  BY DEF IInv, TypeOK, ClockInv, Tick
<1>3. Kept'
  BY DEF IInv, TypeOK, Kept, HasEntry, Served, Tick
<1>4. SeenByOne' /\ StableSession'
  BY DEF IInv, SeenByOne, StableSession, Served, Tick
<1> QED BY <1>1, <1>2, <1>3, <1>4 DEF IInv

LEMMA NoContextStep ==
    ASSUME IInv, NEW r \in Requests, NoContext(r)
    PROVE  IInv'
<1> USE SessionsAssumption
<1>1. TypeOK'
  BY DEF IInv, TypeOK, NoContext
<1>2. ClockInv'
  BY DEF IInv, TypeOK, ClockInv, NoContext
<1>3. \A x \in Requests : Served(x)' <=> Served(x)
  BY DEF IInv, TypeOK, ClockInv, Served, NoContext
<1>4. \A x \in Requests : Served(x) => got'[x] = got[x]
  BY DEF IInv, TypeOK, Served, NoContext
<1>5. Kept'
  BY <1>3, <1>4 DEF IInv, Kept, HasEntry, NoContext
<1>6. SeenByOne'
  BY <1>3, <1>4 DEF IInv, SeenByOne, NoContext
<1>7. StableSession'
  BY <1>3, <1>4 DEF IInv, StableSession, NoContext
<1> QED BY <1>1, <1>2, <1>5, <1>6, <1>7 DEF IInv

LEMMA ReadClockStep ==
    ASSUME IInv, NEW r \in Requests, ReadClock(r)
    PROVE  IInv'
<1> USE SessionsAssumption
<1>1. TypeOK'
  BY DEF IInv, TypeOK, ReadClock
<1>2. ClockInv'
  BY DEF IInv, TypeOK, ClockInv, ReadClock
<1>3. \A x \in Requests : Served(x)' <=> Served(x)
  BY DEF IInv, TypeOK, Served, ReadClock
<1>4. \A x \in Requests : Served(x) => convKey'[x] = convKey[x] /\ now'[x] = now[x]
  BY DEF IInv, TypeOK, Served, ReadClock
<1>5. Kept'
  BY <1>3, <1>4 DEF IInv, Kept, HasEntry, ReadClock
<1>6. SeenByOne'
  BY <1>3, <1>4 DEF IInv, SeenByOne, ReadClock
<1>7. StableSession'
  BY <1>3, <1>4 DEF IInv, StableSession, ReadClock
<1> QED BY <1>1, <1>2, <1>5, <1>6, <1>7 DEF IInv

\* A request at the lock, with what one step there does to the others.
LEMMA Locking ==
    ASSUME IInv, NEW r \in Requests, Reuse(r) \/ Mint(r)
    PROVE  /\ ClockInv'
           /\ Served(r)'
           /\ convKey[r] \in Conversations
           /\ clock - now[r] <= MaxLag /\ now[r] <= clock
           /\ \A x \in Requests \ {r} :
                 (Served(x)' <=> Served(x)) /\ got'[x] = got[x]
           /\ ~Served(r)
           /\ UNCHANGED <<clock, convKey, now>>
  BY SessionsAssumption
  DEF IInv, TypeOK, ClockInv, Served, Reuse, Mint

LEMMA ReuseStep ==
    ASSUME IInv, NEW r \in Requests, Reuse(r)
    PROVE  IInv'
<1> USE SessionsAssumption
<1> DEFINE c == convKey[r]
<1>1. /\ ClockInv' /\ Served(r)' /\ ~Served(r) /\ c \in Conversations
      /\ clock - now[r] <= MaxLag /\ now[r] <= clock
      /\ \A x \in Requests \ {r} : (Served(x)' <=> Served(x)) /\ got'[x] = got[x]
      /\ UNCHANGED <<clock, convKey, now>>
  BY Locking
<1>2. /\ sessions[c] # None /\ sessions[c] \in Entry
      /\ now[r] - sessions[c].seen < sessionTTL
      /\ got'[r] = sessions[c].id
  BY <1>1, EntryIsSome DEF IInv, TypeOK, Reuse, Fresh
<1>3. /\ sessions'[c] = [id |-> sessions[c].id, seen |-> now[r]]
      /\ \A d \in Conversations \ {c} : sessions'[d] = sessions[d]
  BY <1>1, <1>2 DEF IInv, TypeOK, Reuse, Touch, Entry
<1>4. [id |-> sessions[c].id, seen |-> now[r]] \in Entry /\ now \in [Requests -> Int]
  BY <1>2 DEF IInv, TypeOK, Entry
<1>5. TypeOK'
  BY <1>1, <1>2, <1>4 DEF IInv, TypeOK, Reuse, Touch, Entry
<1>6. HasEntry(r)'
  BY <1>1, <1>2, <1>3, <1>4 DEF HasEntry, IInv, TypeOK
<1>7. Kept'
  <2> SUFFICES ASSUME NEW x \in Requests, Served(x)', x # r
               PROVE  HasEntry(x)' \/ (clock - now[x] >= sessionTTL - MaxLag)'
    BY <1>6 DEF Kept
  <2>1. HasEntry(x) \/ clock - now[x] >= sessionTTL - MaxLag
    BY <1>1 DEF IInv, Kept
  <2>2. CASE convKey[x] = c /\ HasEntry(x)
    <3>1. now[x] - MaxLag <= now[r] /\ got'[x] = sessions[c].id
      BY <1>1, <1>4, <2>2 DEF HasEntry, IInv, ClockInv, TypeOK
    <3>2. HasEntry(x)'
      BY <1>1, <1>3, <1>4, <2>2, <3>1 DEF HasEntry
    <3> QED BY <3>2
  <2>3. CASE convKey[x] # c /\ HasEntry(x)
    BY <1>1, <1>3, <2>3 DEF HasEntry, IInv, TypeOK, Served
  <2>4. CASE clock - now[x] >= sessionTTL - MaxLag
    BY <1>1, <2>4
  <2> QED BY <2>1, <2>2, <2>3, <2>4
<1>8. SeenByOne'
  <2> SUFFICES ASSUME NEW d \in Conversations, sessions'[d] # None
               PROVE  \E x \in Requests :
                         /\ Served(x)' /\ convKey'[x] = d
                         /\ got'[x] = sessions'[d].id /\ now'[x] = sessions'[d].seen
    BY DEF SeenByOne
  <2>1. CASE d = c
    BY <1>1, <1>2, <1>3, <2>1
  <2>2. CASE d # c
    <3>1. PICK x \in Requests :
             /\ Served(x) /\ convKey[x] = d
             /\ got[x] = sessions[d].id /\ now[x] = sessions[d].seen
      BY <1>3, <2>2 DEF IInv, SeenByOne
    <3> QED BY <1>1, <1>3, <2>2, <3>1
  <2> QED BY <2>1, <2>2
<1>9. \A x \in Requests \ {r} :
         Served(x) /\ convKey[x] = c =>
            got[x] = got'[r] \/ now[r] - now[x] >= sessionTTL - 2 * MaxLag
  <2> SUFFICES ASSUME NEW x \in Requests, Served(x), convKey[x] = c, ~HasEntry(x)
               PROVE  now[r] - now[x] >= sessionTTL - 2 * MaxLag
    BY <1>2 DEF HasEntry
  <2>1. clock - now[x] >= sessionTTL - MaxLag
    BY DEF IInv, Kept
  <2> QED BY <1>1, <1>4, <2>1 DEF IInv, TypeOK
<1>10. StableSession'
  BY <1>1, <1>4, <1>9 DEF IInv, StableSession
<1> QED BY <1>1, <1>5, <1>7, <1>8, <1>10 DEF IInv

LEMMA MintStep ==
    ASSUME IInv, NEW r \in Requests, Mint(r)
    PROVE  IInv'
<1> USE SessionsAssumption
<1> DEFINE c == convKey[r]
<1>1. /\ ClockInv' /\ Served(r)' /\ ~Served(r) /\ c \in Conversations
      /\ clock - now[r] <= MaxLag /\ now[r] <= clock
      /\ \A x \in Requests \ {r} : (Served(x)' <=> Served(x)) /\ got'[x] = got[x]
      /\ UNCHANGED <<clock, convKey, now>>
  BY Locking
<1>2. now \in [Requests -> Int] /\ clock \in Int
  BY DEF IInv, TypeOK
<1>3. /\ got'[r] = r
      /\ sessions'[c] = [id |-> r, seen |-> now[r]]
      /\ \A d \in Conversations \ {c} :
            sessions'[d] = IF Stale(sessions[d], now[r]) THEN None ELSE sessions[d]
  BY <1>1 DEF IInv, TypeOK, Mint
<1>4. [id |-> r, seen |-> now[r]] \in Entry
  BY DEF IInv, TypeOK, Entry
<1>5. TypeOK'
  BY <1>1, <1>4 DEF IInv, TypeOK, Mint
<1>6. HasEntry(r)'
  BY <1>1, <1>2, <1>3, <1>4 DEF HasEntry
<1>7. \A x \in Requests \ {r} : Served(x) /\ convKey[x] = c =>
         now[r] - now[x] >= sessionTTL - 2 * MaxLag
                /\ clock - now[x] >= sessionTTL - MaxLag
  <2> SUFFICES ASSUME NEW x \in Requests, Served(x), convKey[x] = c
               PROVE  /\ now[r] - now[x] >= sessionTTL - 2 * MaxLag
                      /\ clock - now[x] >= sessionTTL - MaxLag
    OBVIOUS
  <2>1. CASE HasEntry(x)
    <3>1. sessions[c] # None /\ sessions[c] \in Entry /\ now[x] - MaxLag <= sessions[c].seen
      BY <1>1, <2>1, EntryIsSome DEF IInv, HasEntry
    <3>2. now[r] - sessions[c].seen >= sessionTTL
      BY <1>2, <3>1 DEF Mint, Fresh, Entry
    <3> QED BY <1>1, <1>2, <3>1, <3>2 DEF Entry
  <2>2. CASE ~HasEntry(x)
    <3>1. clock - now[x] >= sessionTTL - MaxLag
      BY <2>2 DEF IInv, Kept
    <3> QED BY <1>1, <1>2, <3>1
  <2> QED BY <2>1, <2>2
<1>8. Kept'
  <2> SUFFICES ASSUME NEW x \in Requests, Served(x)', x # r, convKey[x] # c
               PROVE  HasEntry(x)' \/ (clock - now[x] >= sessionTTL - MaxLag)'
    BY <1>1, <1>6, <1>7 DEF Kept
  <2> DEFINE d == convKey[x]
  <2>1. d \in Conversations /\ Served(x)
    BY <1>1 DEF IInv, TypeOK, Served
  <2>2. CASE clock - now[x] >= sessionTTL - MaxLag
    BY <1>1, <2>2
  <2>3. CASE HasEntry(x) /\ ~Stale(sessions[d], now[r])
    BY <1>1, <1>3, <2>1, <2>3 DEF HasEntry
  <2>4. CASE HasEntry(x) /\ Stale(sessions[d], now[r])
    <3>1. sessions[d] \in Entry /\ now[x] - MaxLag <= sessions[d].seen
      BY <2>1, <2>4, EntryIsSome DEF IInv, HasEntry
    <3>2. now[r] - sessions[d].seen > sessionTTL
      BY <2>4 DEF Stale
    <3> QED BY <1>1, <1>2, <3>1, <3>2 DEF Entry
  <2> QED BY <2>1, <2>2, <2>3, <2>4 DEF IInv, Kept
<1>9. SeenByOne'
  <2> SUFFICES ASSUME NEW d \in Conversations, sessions'[d] # None
               PROVE  \E x \in Requests :
                         /\ Served(x)' /\ convKey'[x] = d
                         /\ got'[x] = sessions'[d].id /\ now'[x] = sessions'[d].seen
    BY DEF SeenByOne
  <2>1. CASE d = c
    BY <1>1, <1>3, <2>1
  <2>2. CASE d # c
    <3>0. sessions'[d] = sessions[d]
      BY <1>3, <2>2
    <3>1. PICK x \in Requests :
             /\ Served(x) /\ convKey[x] = d
             /\ got[x] = sessions[d].id /\ now[x] = sessions[d].seen
      BY <3>0 DEF IInv, SeenByOne
    <3> QED BY <1>1, <3>0, <2>2, <3>1
  <2> QED BY <2>1, <2>2
<1>10. StableSession'
  BY <1>1, <1>2, <1>7 DEF IInv, StableSession
<1> QED BY <1>1, <1>5, <1>8, <1>9, <1>10 DEF IInv

LEMMA InvStep == IInv /\ [Next]_vars => IInv'
<1> SUFFICES ASSUME IInv, [Next]_vars PROVE IInv'
  OBVIOUS
<1>1. CASE Tick
  BY <1>1, TickStep
<1>2. ASSUME NEW r \in Requests, NoContext(r) PROVE IInv'
  BY <1>2, NoContextStep
<1>3. ASSUME NEW r \in Requests, ReadClock(r) PROVE IInv'
  BY <1>3, ReadClockStep
<1>4. ASSUME NEW r \in Requests, Reuse(r) PROVE IInv'
  BY <1>4, ReuseStep
<1>5. ASSUME NEW r \in Requests, Mint(r) PROVE IInv'
  BY <1>5, MintStep
<1>6. CASE UNCHANGED vars
  <2>1. TypeOK' /\ ClockInv'
    BY <1>6 DEF IInv, TypeOK, ClockInv, vars
  <2>2. Kept' /\ SeenByOne' /\ StableSession'
    BY <1>6 DEF IInv, Kept, HasEntry, SeenByOne, StableSession, Served, vars
  <2> QED BY <2>1, <2>2 DEF IInv
<1> QED BY <1>1, <1>2, <1>3, <1>4, <1>5, <1>6 DEF Next

\* The inductive invariant of sessionFor's map.
THEOREM Invariance == Spec => []IInv
<1>1. Init => IInv
  BY InitInv
<1>2. IInv /\ [Next]_vars => IInv'
  BY InvStep
<1> QED BY <1>1, <1>2, PTL DEF Spec

\* The map, the clocks and the ids keep their types in every behaviour.
THEOREM Types == Spec => []TypeOK
<1>1. IInv => TypeOK
  BY DEF IInv
<1> QED BY <1>1, Invariance, PTL

\* Whatever the order in which requests take the mutex after reading the clock,
\* two of a conversation that read times less than sessionTTL - 2 * MaxLag apart
\* are given the same session id.
THEOREM Stability == Spec => []StableSession
<1>1. IInv => StableSession
  BY DEF IInv
<1> QED BY <1>1, Invariance, PTL

LEMMA ReuseIsRecent ==
    ASSUME IInv, Next, NEW q \in Requests, got'[q] # got[q], got'[q] # q
    PROVE  \E r \in Requests :
              /\ Served(r) /\ got[r] = got'[q] /\ convKey[r] = convKey[q]
              /\ now[q] - now[r] < sessionTTL
<1> USE SessionsAssumption
<1>1. Reuse(q)
  BY DEF IInv, TypeOK, Next, Tick, NoContext, ReadClock, Reuse, Mint
<1> DEFINE c == convKey[q]
<1>2. c \in Conversations /\ sessions[c] # None /\ got'[q] = sessions[c].id
      /\ now[q] - sessions[c].seen < sessionTTL
  BY <1>1 DEF IInv, TypeOK, ClockInv, Reuse, Fresh
<1> QED BY <1>2 DEF IInv, SeenByOne

\* No request resumes a session that has been idle for sessionTTL.
THEOREM Expiry == Spec => IdleSessionExpires
<1> DEFINE Recent == \A q \in Requests : got'[q] # got[q] /\ got'[q] # q =>
          \E r \in Requests :
              /\ Served(r) /\ got[r] = got'[q] /\ convKey[r] = convKey[q]
              /\ now[q] - now[r] < sessionTTL
<1>1. IInv /\ [Next]_vars => [Recent]_vars
  BY ReuseIsRecent
<1> QED BY <1>1, Invariance, PTL DEF Spec, IdleSessionExpires
=============================================================================
