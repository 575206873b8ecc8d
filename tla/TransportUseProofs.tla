------------------------- MODULE TransportUseProofs -------------------------
(***************************************************************************)
(* What TLAPS proves of Transport.tla beyond exclusive use, for any number *)
(* of requests and connections: every wait has a deadline, what is retried *)
(* has failed on a pooled connection, and the list holds the idle set.     *)
(***************************************************************************)
EXTENDS TransportProofs, SequenceLemmas, FiniteSetTheorems

-----------------------------------------------------------------------------
(* Deadlines *)

(* A step that sets nobody's deadline, starts no wait and takes no request *)
(* back from the end of its body.                                          *)
LEMMA WaitQuiet ==
    ASSUME WaitHasDeadline, LeaseInv,
           \A r \in Requests : pc'[r] \in {"await", "body"} =>
               /\ pc[r] \in {"await", "body"}
               /\ conn'[r] = conn[r]
               /\ deadline'[conn[r]] = deadline[conn[r]],
           \A r \in Requests : pc[r] \in {"reread", "closed"} => pc'[r] \in {"reread", "closed"},
           \A c \in Conns : deadline[c] \in Requests \union {None}
    PROVE  WaitHasDeadline'
<1> SUFFICES ASSUME NEW r \in Requests, pc'[r] \in {"await", "body"}
             PROVE  LET d == deadline'[conn'[r]] IN
                    d = r \/ (d # None /\ pc'[d] \in {"reread", "closed"})
  BY DEF WaitHasDeadline
<1>1. /\ pc[r] \in {"await", "body"} /\ conn'[r] = conn[r]
      /\ deadline'[conn[r]] = deadline[conn[r]] /\ conn[r] \in Conns
  BY DEF LeaseInv, Holds
<1> QED BY <1>1 DEF WaitHasDeadline

(* A request waits after the step on c, whose deadline d suits it, or it   *)
(* has waited elsewhere before.                                            *)
Suits(c, d) ==
    \A r \in Requests : pc'[r] \in {"await", "body"} =>
        \/ conn'[r] = c /\ (d = r \/ (d # None /\ pc'[d] \in {"reread", "closed"}))
        \/ pc[r] \in {"await", "body"} /\ conn'[r] = conn[r] /\ conn[r] # c

(* Who has read on stays a request that has.                               *)
RereadersStay ==
    \A r \in Requests : pc[r] \in {"reread", "closed"} => pc'[r] \in {"reread", "closed"}

(* A step that sets or clears the deadline of one connection: its waiting  *)
(* user, if it has one, must be content with the new one.                  *)
LEMMA WaitSet ==
    ASSUME WaitHasDeadline, LeaseInv, NEW c \in Conns, NEW d,
           deadline' = [deadline EXCEPT ![c] = d],
           deadline \in [Conns -> Requests \union {None}],
           Suits(c, d), RereadersStay
    PROVE  WaitHasDeadline'
<1> SUFFICES ASSUME NEW r \in Requests, pc'[r] \in {"await", "body"}
             PROVE  LET e == deadline'[conn'[r]] IN
                    e = r \/ (e # None /\ pc'[e] \in {"reread", "closed"})
  BY DEF WaitHasDeadline
<1>1. CASE conn'[r] = c
  BY <1>1 DEF Suits
<1>2. CASE conn'[r] # c
  <2>1. pc[r] \in {"await", "body"} /\ conn'[r] = conn[r] /\ conn[r] # c
    BY <1>2 DEF Suits
  <2>2. conn[r] \in Conns
    BY <2>1 DEF LeaseInv, Holds
  <2>3. deadline'[conn[r]] = deadline[conn[r]]
    BY <2>1, <2>2
  <2> QED BY <2>1, <2>2, <2>3 DEF WaitHasDeadline, RereadersStay
<1> QED BY <1>1, <1>2

(* Every step keeps the deadlines of those who wait.                       *)
LEMMA WaitStep == IInv /\ WaitHasDeadline /\ [Next]_vars => WaitHasDeadline'
<1> SUFFICES ASSUME TypeOK, PoolInv, LeaseInv, WaitHasDeadline, [Next]_vars
             PROVE  WaitHasDeadline'
  BY DEF IInv
<1> USE NoneAssumption
<1>0. deadline \in [Conns -> Requests \union {None}]
  BY DEF TypeOK
<1>1. ASSUME NEW r \in Requests,
             \/ AcquirePooled(r) \/ AcquireEmpty(r) \/ DialFail(r) \/ ReadOK(r)
             \/ ReadFail(r) \/ Expire(r)
      PROVE  WaitHasDeadline'
  <2>1. UNCHANGED deadline
    BY <1>1 DEF AcquirePooled, AcquireEmpty, DialFail, ReadOK, ReadFail, Expire
  <2>2. \A s \in Requests : s # r => pc'[s] = pc[s] /\ conn'[s] = conn[s]
    BY <1>1, ZenonT(30) DEF AcquirePooled, AcquireEmpty, DialFail, ReadOK, ReadFail, GiveUp, Expire, TypeOK
  <2>3. \/ pc'[r] = pc[r] /\ conn'[r] = conn[r]
        \/ pc[r] = "await" /\ pc'[r] = "body" /\ conn'[r] = conn[r]
        \/ pc[r] \notin {"reread", "closed"} /\ pc'[r] \notin {"await", "body"}
    BY <1>1, ZenonT(30) DEF AcquirePooled, AcquireEmpty, DialFail, ReadOK, ReadFail, GiveUp, Expire, TypeOK
  <2> QED BY <1>0, <2>1, <2>2, <2>3, WaitQuiet
<1>2. ASSUME NEW r \in Requests, DialOK(r) PROVE WaitHasDeadline'
  <2>1. PICK c \in Conns : c = NewConn /\ sock[c] = "unborn"
    BY <1>2 DEF DialOK, NewConn, Dialable
  <2>2. /\ deadline' = [deadline EXCEPT ![c] = r]
        /\ pc[r] = "dial" /\ pc'[r] = "send"
        /\ \A s \in Requests : s # r => pc'[s] = pc[s] /\ conn'[s] = conn[s]
    BY <1>2, <2>1 DEF DialOK, TypeOK
  <2>3. \A s \in Requests : Holds(s) => conn[s] # c
    BY <2>1 DEF LeaseInv
  <2>4. Suits(c, r) /\ RereadersStay
    BY <2>2, <2>3 DEF Suits, RereadersStay, Holds
  <2> QED BY <1>0, <2>2, <2>4, WaitSet
<1>3. ASSUME NEW r \in Requests, WriteOK(r) \/ WriteFail(r) \/ BodyRead(r)
      PROVE  WaitHasDeadline'
  <2>1. PICK c \in Conns : c = conn[r] /\ Holds(r)
    BY <1>3 DEF WriteOK, WriteFail, BodyRead, LeaseInv, Holds
  <2>2. deadline' = [deadline EXCEPT ![c] = r] /\ conn' = conn
    BY <1>3, <2>1 DEF WriteOK, WriteFail, BodyRead, SetDeadline
  <2>3. /\ pc[r] \in {"send", "body"}
        /\ \A s \in Requests : s # r => pc'[s] = pc[s]
    BY <1>3 DEF WriteOK, WriteFail, BodyRead, GiveUp, TypeOK
  <2>4. \A s \in Requests : s # r /\ Holds(s) => conn[s] # c
    BY <2>1 DEF LeaseInv
  <2>5. Suits(c, r) /\ RereadersStay
    BY <2>1, <2>2, <2>3, <2>4 DEF Suits, RereadersStay, Holds
  <2> QED BY <1>0, <2>2, <2>5, WaitSet
<1>4. ASSUME NEW r \in Requests, BodyEOF(r) PROVE WaitHasDeadline'
  <2>1. PICK c \in Conns : c = conn[r] /\ Holds(r) /\ next[c] = None
    BY <1>4 DEF BodyEOF, LeaseInv, PoolInv, Holds
  <2>2. deadline' = [deadline EXCEPT ![c] = None] /\ conn' = conn
    BY <1>4, <2>1 DEF BodyEOF, finish, Done, Release
  <2>3. /\ pc[r] = "body" /\ pc'[r] = "finished"
        /\ \A s \in Requests : s # r => pc'[s] = pc[s]
    BY <1>4 DEF BodyEOF, TypeOK
  <2>4. \A s \in Requests : s # r /\ Holds(s) => conn[s] # c
    BY <2>1 DEF LeaseInv
  <2>5. Suits(c, None) /\ RereadersStay
    BY <2>2, <2>3, <2>4 DEF Suits, RereadersStay, Holds
  <2> QED BY <1>0, <2>2, <2>5, WaitSet
<1>5. ASSUME NEW r \in Requests, BodyError(r) \/ Close(r) PROVE WaitHasDeadline'
  <2>1. UNCHANGED <<deadline, conn>>
    BY <1>5 DEF BodyError, Close, finish, Done, Discard
  <2>2. /\ \A s \in Requests : s # r => pc'[s] = pc[s]
        /\ \/ pc'[r] = "closed"
           \/ pc'[r] = "finished" /\ pc[r] = "body"
    BY <1>5, ZenonT(30) DEF BodyError, Close, TypeOK
  <2> QED BY <1>0, <2>1, <2>2, WaitQuiet
<1>6. ASSUME NEW r \in Requests, LateRead(r) PROVE WaitHasDeadline'
  <2>1. /\ pc[r] = "finished" /\ pc'[r] = "reread" /\ conn' = conn
        /\ \A s \in Requests : s # r => pc'[s] = pc[s]
    BY <1>6 DEF LateRead, TypeOK
  <2>2. CASE conn[r] \in Conns
    <3>1. deadline' = [deadline EXCEPT ![conn[r]] = r]
      BY <1>6 DEF LateRead, SetDeadline
    <3>2. Suits(conn[r], r) /\ RereadersStay
      BY <2>1 DEF Suits, RereadersStay
    <3> QED BY <1>0, <2>2, <3>1, <3>2, WaitSet
  <2>3. CASE conn[r] \notin Conns
    <3>1. deadline' = deadline
      BY <1>6, <2>3, <1>0 DEF LateRead, SetDeadline
    <3> QED BY <1>0, <2>1, <3>1, WaitQuiet
  <2> QED BY <2>2, <2>3
<1>7. CASE UNCHANGED <<deadline, pc, conn>>
  BY <1>0, <1>7, WaitQuiet
<1> QED
  <2>1. ASSUME NEW c \in Conns, ServerExecute(c) \/ PeerDrop(c)
        PROVE  UNCHANGED <<deadline, pc, conn>>
    BY <2>1 DEF ServerExecute, PeerDrop
  <2>2. CloseIdleConnections \/ UNCHANGED vars => UNCHANGED <<deadline, pc, conn>>
    BY DEF CloseIdleConnections, vars
  <2> QED BY <1>1, <1>2, <1>3, <1>4, <1>5, <1>6, <1>7, <2>1, <2>2 DEF Next, Progress

(* No wait for the server is without a deadline: it is the waiting         *)
(* request's own, or that of one that read on after its end of file.       *)
THEOREM Deadlines == Spec => []WaitHasDeadline
<1>1. Init => WaitHasDeadline
  BY DEF Init, WaitHasDeadline
<1> QED BY <1>1, InitInv, InvStep, WaitStep, PTL DEF Spec

-----------------------------------------------------------------------------
(* Retries *)

(* The connections on which the server may still execute a request.        *)
Unexecuted(r) == {c \in Conns : sent[c] = <<r>>}

(* How often a request can have been written: by the attempt before the    *)
(* present one, if that was on a pooled connection, and by the present one *)
(* once it is past the write.                                              *)
Before(r) == IF attempt[r] = 1 /\ fresh[r][0] = FALSE THEN 1 ELSE 0
Present(r) == IF pc[r] \in {"acquire", "dial", "send"} THEN 0 ELSE 1
Writes(r) == Before(r) + Present(r)

(* A set of at most k elements, for the k that occur.                      *)
AtMost(S, k) ==
    /\ k \in 0..2
    /\ k = 0 => S = {}
    /\ k = 1 => \A c, d \in S : c = d
    /\ k = 2 => \A c, d, e \in S : c = d \/ d = e \/ c = e

(* Every execution, done or to come, is that of a write of its own.        *)
RepeatInv ==
    /\ \A c \in Conns : sent[c] = <<>> \/ \E r \in Requests : sent[c] = <<r>>
    /\ \A r \in Requests : executed[r] <= Writes(r)
                           /\ AtMost(Unexecuted(r), Writes(r) - executed[r])

LEMMA WritesType == TypeOK => \A r \in Requests : Writes(r) \in 0..2
  BY DEF TypeOK, Writes, Before, Present

(* A subset has at most as many, a larger bound is one too.                *)
LEMMA AtMostWeaker ==
    ASSUME NEW S, NEW T, T \subseteq S, NEW k \in 0..2, NEW m \in 0..2, k <= m, AtMost(S, k)
    PROVE  AtMost(T, m)
  BY DEF AtMost

LEMMA AtMostAdd ==
    ASSUME NEW S, NEW k \in 0..1, AtMost(S, k), NEW x
    PROVE  AtMost(S \union {x}, k + 1)
<1>1. CASE k = 0
  BY <1>1 DEF AtMost
<1>2. CASE k = 1
  BY <1>2 DEF AtMost
<1> QED BY <1>1, <1>2

LEMMA AtMostRemove ==
    ASSUME NEW S, NEW k \in 0..2, AtMost(S, k), NEW x \in S
    PROVE  k > 0 /\ AtMost(S \ {x}, k - 1)
<1>1. k > 0
  BY DEF AtMost
<1>2. CASE k = 1
  BY <1>2 DEF AtMost
<1>3. CASE k = 2
  BY <1>3 DEF AtMost
<1> QED BY <1>1, <1>2, <1>3

(* Steps in which no request is written or executed: for each request the  *)
(* count of possible writes does not fall.                                 *)
LEMMA RepeatQuiet ==
    ASSUME TypeOK, TypeOK', RepeatInv, UNCHANGED executed,
           \A c \in Conns : sent'[c] = sent[c] \/ sent'[c] = <<>>,
           \A r \in Requests : Writes(r) <= Writes(r)'
    PROVE  RepeatInv'
<1>1. ASSUME NEW r \in Requests
      PROVE  executed'[r] <= Writes(r)' /\ AtMost(Unexecuted(r), Writes(r) - executed[r])'
  <2>1. Unexecuted(r)' \subseteq Unexecuted(r)
    <3> SUFFICES ASSUME NEW c \in Conns, sent'[c] = <<r>> PROVE sent[c] = <<r>>
      BY DEF Unexecuted
    <3>1. <<r>> # <<>>
      OBVIOUS
    <3> QED BY <3>1
  <2>2. /\ executed[r] \in Nat /\ Writes(r) \in 0..2 /\ Writes(r)' \in 0..2
        /\ executed[r] <= Writes(r) /\ AtMost(Unexecuted(r), Writes(r) - executed[r])
    BY WritesType DEF RepeatInv, TypeOK, Writes, Before, Present
  <2>3. /\ Writes(r) - executed[r] \in 0..2 /\ Writes(r)' - executed[r] \in 0..2
        /\ Writes(r) - executed[r] <= Writes(r)' - executed[r]
    BY <2>2
  <2>4. AtMost(Unexecuted(r)', Writes(r)' - executed[r])
    BY <2>1, <2>2, <2>3, AtMostWeaker
  <2> QED BY <2>2, <2>3, <2>4 DEF AtMost, Unexecuted
<1>2. \A c \in Conns : sent'[c] = <<>> \/ \E r \in Requests : sent'[c] = <<r>>
  BY DEF RepeatInv
<1> QED BY <1>1, <1>2 DEF RepeatInv

(* What a step of a request does to the count of its writes, and to that   *)
(* of others.                                                              *)
LEMMA WritesOfOthers ==
    ASSUME NEW s \in Requests, pc'[s] = pc[s], attempt'[s] = attempt[s], fresh'[s] = fresh[s]
    PROVE  Writes(s)' = Writes(s)
  BY DEF Writes, Before, Present

(* A retry after a read had a pooled connection, and after a write nothing *)
(* was written: the count does not fall.                                   *)
LEMMA WritesGrow ==
    ASSUME TypeOK, NEW r \in Requests,
           \/ AcquirePooled(r) \/ AcquireEmpty(r) \/ DialOK(r) \/ DialFail(r)
           \/ WriteFail(r) \/ ReadOK(r) \/ ReadFail(r) \/ BodyRead(r) \/ BodyEOF(r)
           \/ BodyError(r) \/ Close(r) \/ LateRead(r) \/ Expire(r)
    PROVE  \A s \in Requests : Writes(s) <= Writes(s)'
<1>1. \A s \in Requests : s # r =>
          pc'[s] = pc[s] /\ attempt'[s] = attempt[s] /\ fresh'[s] = fresh[s]
  BY ZenonT(30) DEF AcquirePooled, AcquireEmpty, DialOK, DialFail, WriteFail, ReadOK, ReadFail, GiveUp,
         BodyRead, BodyEOF, BodyError, Close, LateRead, Expire, call, TypeOK
<1>2. \A s \in Requests : s # r => Writes(s)' = Writes(s)
  BY <1>1, WritesOfOthers
<1>3. \A s \in Requests : Writes(s) \in 0..2
  BY WritesType
<1>4. Writes(r) <= Writes(r)'
  <2>1. CASE AcquirePooled(r) \/ DialOK(r)
    <3>1. /\ pc[r] \in {"acquire", "dial"} /\ pc'[r] = "send" /\ attempt' = attempt
          /\ attempt[r] = 1 => fresh'[r][0] = fresh[r][0]
      BY <2>1 DEF AcquirePooled, DialOK, TypeOK
    <3> QED BY <3>1 DEF Writes, Before, Present, TypeOK
  <2>2. CASE WriteFail(r)
    <3>1. /\ pc[r] = "send" /\ fresh' = fresh
          /\ \/ attempt[r] = 0 /\ attempt'[r] = 1 /\ pc'[r] = "acquire"
             \/ attempt' = attempt /\ pc'[r] = "failed"
      BY <2>2 DEF WriteFail, GiveUp, TypeOK
    <3> QED BY <3>1 DEF Writes, Before, Present, TypeOK
  <2>3. CASE ReadFail(r)
    <3>1. /\ pc[r] = "await" /\ fresh' = fresh
          /\ \/ attempt[r] = 0 /\ attempt'[r] = 1 /\ pc'[r] = "acquire" /\ ~fresh[r][0]
             \/ attempt' = attempt /\ pc'[r] = "failed"
      BY <2>3 DEF ReadFail, GiveUp, MayBeStale, TypeOK
    <3>2. fresh[r][0] \in BOOLEAN
      BY DEF TypeOK
    <3> QED BY <3>1, <3>2 DEF Writes, Before, Present, TypeOK
  <2>4. CASE \/ AcquireEmpty(r) \/ DialFail(r) \/ ReadOK(r) \/ BodyRead(r) \/ BodyEOF(r)
             \/ BodyError(r) \/ Close(r) \/ LateRead(r) \/ Expire(r)
    <3>1. UNCHANGED <<attempt, fresh>>
      BY <2>4 DEF AcquireEmpty, DialFail, ReadOK, BodyRead, BodyEOF, BodyError, Close,
                  LateRead, Expire, call
    <3>2. pc'[r] \in {"acquire", "dial", "send"} => pc[r] \in {"acquire", "dial", "send"}
      <4>1. CASE AcquireEmpty(r) \/ DialFail(r)
        BY <4>1 DEF AcquireEmpty, DialFail
      <4>2. CASE ReadOK(r) \/ BodyEOF(r) \/ BodyError(r) \/ Close(r) \/ LateRead(r)
        BY <4>2 DEF ReadOK, BodyEOF, BodyError, Close, LateRead, TypeOK
      <4>3. CASE BodyRead(r) \/ Expire(r)
        BY <4>3 DEF BodyRead, Expire
      <4> QED BY <2>4, <4>1, <4>2, <4>3
    <3>3. Present(r) <= Present(r)'
      BY <3>2 DEF Present
    <3> QED BY <3>1, <3>3 DEF Writes, Before, Present
  <2> QED BY <2>1, <2>2, <2>3, <2>4
<1> QED BY <1>2, <1>3, <1>4

(* A write puts the request on one more connection, whose wire was empty.  *)
LEMMA RepeatWrite ==
    ASSUME IInv, WireInv, RepeatInv, NEW r \in Requests, WriteOK(r) PROVE RepeatInv'
<1>1. PICK c \in Conns : c = conn[r] /\ sent[c] = <<>>
  BY DEF WriteOK, IInv, LeaseInv, WireInv, Empty, Holds
<1>2. /\ pc[r] = "send" /\ pc' = [pc EXCEPT ![r] = "await"]
      /\ UNCHANGED <<attempt, fresh, executed>>
      /\ sent' = sent \/ sent' = [sent EXCEPT ![c] = Append(<<>>, r)]
  BY <1>1 DEF WriteOK, call
<1>3. Append(<<>>, r) = <<r>> /\ <<r>> # <<>>
  OBVIOUS
<1>4. /\ \A d \in Conns : d # c => sent'[d] = sent[d]
      /\ sent'[c] \in {<<>>, <<r>>}
  BY <1>1, <1>2, <1>3 DEF IInv, TypeOK
<1>5. \A d \in Conns : sent'[d] = <<>> \/ \E q \in Requests : sent'[d] = <<q>>
  BY <1>4 DEF RepeatInv
<1>6. \A s \in Requests : Writes(s) \in 0..2 /\ executed[s] \in Nat
  BY WritesType DEF IInv, TypeOK
<1>7. ASSUME NEW s \in Requests, s # r
      PROVE  executed'[s] <= Writes(s)' /\ AtMost(Unexecuted(s), Writes(s) - executed[s])'
  <2>1. Writes(s)' = Writes(s)
    BY <1>2, <1>7, WritesOfOthers DEF IInv, TypeOK
  <2>2. Unexecuted(s)' = Unexecuted(s)
    <3>1. <<s>> # <<r>> /\ <<s>> # <<>>
      BY <1>7
    <3> QED BY <1>1, <1>4, <3>1 DEF Unexecuted
  <2> QED BY <1>2, <2>1, <2>2 DEF RepeatInv, AtMost
<1>8. executed'[r] <= Writes(r)' /\ AtMost(Unexecuted(r), Writes(r) - executed[r])'
  <2>1. Writes(r)' = Writes(r) + 1 /\ Writes(r) \in 0..1
    BY <1>2 DEF Writes, Before, Present, IInv, TypeOK
  <2>2. executed[r] <= Writes(r) /\ AtMost(Unexecuted(r), Writes(r) - executed[r])
    BY DEF RepeatInv
  <2> DEFINE left == Writes(r) - executed[r]
  <2>a. left \in 0..1 /\ AtMost(Unexecuted(r), left)
    BY <1>6, <2>1, <2>2
  <2>b. AtMost(Unexecuted(r) \union {c}, left + 1)
    <3> HIDE DEF left
    <3> QED BY <2>a, AtMostAdd
  <2>3. AtMost(Unexecuted(r) \union {c}, Writes(r) - executed[r] + 1)
    BY <2>b
  <2>4. Unexecuted(r)' \subseteq Unexecuted(r) \union {c}
    BY <1>4 DEF Unexecuted
  <2>5. /\ Writes(r)' - executed[r] = Writes(r) - executed[r] + 1
        /\ Writes(r)' - executed[r] \in 0..2
    BY <1>6, <2>1, <2>2
  <2>6. AtMost(Unexecuted(r)', Writes(r)' - executed[r])
    BY <2>3, <2>4, <2>5, AtMostWeaker
  <2> QED BY <1>2, <1>6, <2>1, <2>2, <2>6 DEF AtMost
<1> QED BY <1>5, <1>7, <1>8 DEF RepeatInv

(* An execution uses up one of the connections it could come from.         *)
LEMMA RepeatExecute ==
    ASSUME IInv, RepeatInv, NEW c \in Conns, ServerExecute(c) PROVE RepeatInv'
<1>1. PICK r \in Requests : sent[c] = <<r>>
  BY DEF ServerExecute, RepeatInv
<1>2. Head(<<r>>) = r /\ Tail(<<r>>) = <<>> /\ <<r>> # <<>>
  OBVIOUS
<1>3. /\ executed' = [executed EXCEPT ![r] = @ + 1]
      /\ sent' = [sent EXCEPT ![c] = <<>>]
      /\ UNCHANGED <<pc, attempt, fresh>>
  BY <1>1, <1>2 DEF ServerExecute, call
<1>4. sent'[c] = <<>> /\ \A d \in Conns : d # c => sent'[d] = sent[d]
  BY <1>3 DEF IInv, TypeOK
<1>5. \A s \in Requests : Writes(s)' = Writes(s)
  BY <1>3, WritesOfOthers
<1>6. \A s \in Requests : Writes(s) \in 0..2 /\ executed[s] \in Nat
  BY WritesType DEF IInv, TypeOK
<1>7. ASSUME NEW s \in Requests, s # r
      PROVE  executed'[s] <= Writes(s)' /\ AtMost(Unexecuted(s), Writes(s) - executed[s])'
  <2>1. executed'[s] = executed[s]
    BY <1>3, <1>7 DEF IInv, TypeOK
  <2>2. Unexecuted(s)' = Unexecuted(s)
    <3>1. <<s>> # <<r>> /\ <<s>> # <<>>
      BY <1>7
    <3> QED BY <1>1, <1>4, <3>1 DEF Unexecuted
  <2> QED BY <1>5, <1>7, <2>1, <2>2 DEF RepeatInv, AtMost
<1>8. executed'[r] <= Writes(r)' /\ AtMost(Unexecuted(r), Writes(r) - executed[r])'
  <2>1. executed'[r] = executed[r] + 1
    BY <1>3 DEF IInv, TypeOK
  <2>2. c \in Unexecuted(r) /\ Unexecuted(r)' = Unexecuted(r) \ {c}
    BY <1>1, <1>2, <1>4 DEF Unexecuted
  <2>3. /\ AtMost(Unexecuted(r), Writes(r) - executed[r]) /\ executed[r] <= Writes(r)
        /\ Writes(r) - executed[r] \in 0..2
    BY DEF RepeatInv, AtMost
  <2>4. /\ Writes(r) - executed[r] > 0
        /\ AtMost(Unexecuted(r) \ {c}, Writes(r) - executed[r] - 1)
    BY <2>2, <2>3, AtMostRemove
  <2>5. Writes(r) - (executed[r] + 1) = Writes(r) - executed[r] - 1
    BY <1>6
  <2> QED BY <1>5, <1>6, <2>1, <2>2, <2>4, <2>5 DEF AtMost
<1>9. \A d \in Conns : sent'[d] = <<>> \/ \E q \in Requests : sent'[d] = <<q>>
  BY <1>4 DEF RepeatInv
<1> QED BY <1>7, <1>8, <1>9 DEF RepeatInv

(* Every step keeps executions within the writes.                          *)
LEMMA RepeatStep == IInv /\ IInv' /\ WireInv /\ RepeatInv /\ [Next]_vars => RepeatInv'
<1> SUFFICES ASSUME IInv, IInv', WireInv, RepeatInv, [Next]_vars PROVE RepeatInv'
  OBVIOUS
<1>0. TypeOK /\ TypeOK'
  BY DEF IInv
<1>1. ASSUME NEW r \in Requests,
             \/ AcquirePooled(r) \/ AcquireEmpty(r) \/ DialOK(r) \/ DialFail(r)
             \/ WriteFail(r) \/ ReadOK(r) \/ ReadFail(r) \/ BodyRead(r) \/ BodyEOF(r)
             \/ BodyError(r) \/ Close(r) \/ LateRead(r) \/ Expire(r)
      PROVE  RepeatInv'
  <2>1. UNCHANGED <<sent, executed>>
    BY <1>1 DEF AcquirePooled, AcquireEmpty, DialOK, DialFail, WriteFail, ReadOK, ReadFail,
                BodyRead, BodyEOF, BodyError, Close, LateRead, Expire, wire
  <2>2. \A s \in Requests : Writes(s) <= Writes(s)'
    BY <1>0, <1>1, WritesGrow
  <2> QED BY <1>0, <2>1, <2>2, RepeatQuiet
<1>2. ASSUME NEW c \in Conns, PeerDrop(c) PROVE RepeatInv'
  <2>1. /\ UNCHANGED <<executed, pc, attempt, fresh>>
        /\ sent' = [sent EXCEPT ![c] = <<>>]
    BY <1>2 DEF PeerDrop, call
  <2>2. \A d \in Conns : sent'[d] = sent[d] \/ sent'[d] = <<>>
    BY <1>0, <2>1 DEF TypeOK
  <2>3. \A s \in Requests : Writes(s) <= Writes(s)'
    BY <1>0, <2>1, WritesOfOthers, WritesType
  <2> QED BY <1>0, <2>1, <2>2, <2>3, RepeatQuiet
<1>3. CASE CloseIdleConnections \/ UNCHANGED vars
  <2>1. UNCHANGED <<executed, sent, pc, attempt, fresh>>
    BY <1>3 DEF CloseIdleConnections, vars, wire, call
  <2>2. \A s \in Requests : Writes(s) <= Writes(s)'
    BY <1>0, <2>1, WritesOfOthers, WritesType
  <2> QED BY <1>0, <2>1, <2>2, RepeatQuiet
<1> QED BY <1>1, <1>2, <1>3, RepeatWrite, RepeatExecute DEF Next, Progress

(* The server executes a request twice only if its first attempt was on a  *)
(* pooled connection, and never a third time.                              *)
THEOREM Repeats == Spec => []RepeatOnlyOverPool
<1>1. Init => IInv /\ WireInv /\ RepeatInv
  <2> SUFFICES ASSUME Init PROVE WireInv /\ RepeatInv
    BY InitInv
  <2>1. WireInv
    BY DEF Init, WireInv, Empty, Answering
  <2>2. \A r \in Requests : <<r>> # <<>>
    OBVIOUS
  <2>a. \A r \in Requests : executed[r] = 0 /\ attempt[r] = 0 /\ pc[r] = "acquire"
    BY DEF Init
  <2>b. \A r \in Requests : Writes(r) = 0
    BY <2>a DEF Writes, Before, Present
  <2>c. \A c \in Conns : sent[c] = <<>>
    BY DEF Init
  <2>d. \A r \in Requests : Unexecuted(r) = {}
    BY <2>2, <2>c DEF Unexecuted
  <2>3. \A r \in Requests : Unexecuted(r) = {} /\ Writes(r) = 0 /\ executed[r] = 0
    BY <2>a, <2>b, <2>d
  <2> QED BY <2>1, <2>3 DEF RepeatInv, AtMost, Init
<1>2. IInv /\ RepeatInv => RepeatOnlyOverPool
  BY WritesType DEF IInv, TypeOK, RepeatInv, RepeatOnlyOverPool, Writes, Before, Present
<1> QED BY <1>1, <1>2, InvStep, WireStep, RepeatStep, PTL DEF Spec

-----------------------------------------------------------------------------
(* The list holds the idle set *)

Idle == {c \in Conns : sock[c] = "open" /\ \A r \in Requests : Holds(r) => conn[r] # c}

(* The first n elements of list are the pool from its head to its end.     *)
Order(n, list) ==
    /\ head = IF n = 0 THEN None ELSE list[1]
    /\ \A i \in 1..n : next[list[i]] = IF i = n THEN None ELSE list[i + 1]
    /\ \A i, j \in 1..n : list[i] = list[j] => i = j
    /\ \A c \in Conns : c \in Idle <=> \E i \in 1..n : list[i] = c

ListInv == \E n \in Nat : \E list \in [1..n -> Conns] : Order(n, list)

LEMMA ListQuiet ==
    ASSUME ListInv, UNCHANGED <<head, next>>, Idle' = Idle PROVE ListInv'
<1>0. PICK n \in Nat : \E list \in [1..n -> Conns] : Order(n, list)
  BY DEF ListInv
<1>1. PICK list \in [1..n -> Conns] : Order(n, list)
  BY <1>0
<1>2. Order(n, list)'
  BY <1>1 DEF Order
<1> QED BY <1>2 DEF ListInv

(* acquire takes the first of the list out of the idle set.                *)
LEMMA ListPop ==
    ASSUME TypeOK, LeaseInv, ListInv, NEW r \in Requests, AcquirePooled(r) PROVE ListInv'
<1> USE NoneAssumption
<1>0. PICK n \in Nat : \E list \in [1..n -> Conns] : Order(n, list)
  BY DEF ListInv
<1>1. PICK list \in [1..n -> Conns] : Order(n, list)
  BY <1>0
<1>2. n # 0 /\ head = list[1] /\ head \in Conns
  BY <1>1 DEF AcquirePooled, Order
<1> DEFINE m == n - 1
           rest == [i \in 1..m |-> list[i + 1]]
<1>3. m \in Nat /\ rest \in [1..m -> Conns] /\ \A i \in 1..m : rest[i] = list[i + 1]
  BY <1>2
<1>4. /\ head' = next[list[1]]
      /\ next'[list[1]] = None
      /\ \A d \in Conns : d # list[1] => next'[d] = next[d]
  BY <1>2 DEF AcquirePooled, Unlink, TypeOK
<1>5. /\ UNCHANGED sock
      /\ pc[r] = "acquire" /\ Holds(r)' /\ conn'[r] = list[1]
      /\ \A s \in Requests : s # r => (Holds(s)' <=> Holds(s)) /\ conn'[s] = conn[s]
  BY <1>2 DEF AcquirePooled, Holds, TypeOK
<1>6. ~Holds(r)
  BY <1>5 DEF Holds
<1>7. \A c \in Conns : c \in Idle' <=> c \in Idle /\ c # list[1]
  BY <1>5, <1>6 DEF Idle
<1>8. next[list[1]] = IF n = 1 THEN None ELSE list[2]
  BY <1>1, <1>2 DEF Order
<1>9. head' = IF m = 0 THEN None ELSE rest[1]
  BY <1>3, <1>4, <1>8
<1>10. ASSUME NEW i \in 1..m PROVE next'[rest[i]] = IF i = m THEN None ELSE rest[i + 1]
  <2>1. list[i + 1] # list[1] /\ list[i + 1] \in Conns
    BY <1>1 DEF Order
  <2>2. next[list[i + 1]] = IF i + 1 = n THEN None ELSE list[i + 1 + 1]
    BY <1>1 DEF Order
  <2>3. i # m => i + 1 \in 1..m /\ rest[i + 1] = list[i + 1 + 1]
    BY <1>3
  <2> QED BY <1>3, <1>4, <2>1, <2>2, <2>3
<1>11. \A i, j \in 1..m : rest[i] = rest[j] => i = j
  <2> SUFFICES ASSUME NEW i \in 1..m, NEW j \in 1..m, rest[i] = rest[j] PROVE i = j
    OBVIOUS
  <2>1. list[i + 1] = list[j + 1] /\ i + 1 \in 1..n /\ j + 1 \in 1..n
    BY <1>3
  <2>2. i + 1 = j + 1
    BY <1>1, <2>1 DEF Order
  <2> QED BY <2>2
<1>12. ASSUME NEW c \in Conns PROVE c \in Idle' <=> \E i \in 1..m : rest[i] = c
  <2>1. ASSUME NEW i \in 1..m, rest[i] = c PROVE c \in Idle'
    <3>1. i + 1 \in 1..n /\ list[i + 1] = c /\ 1 \in 1..n /\ i + 1 # 1
      BY <1>3, <2>1
    <3>2. c # list[1] /\ c \in Idle
      BY <1>1, <3>1 DEF Order
    <3> QED BY <1>7, <3>2
  <2>2. ASSUME c \in Idle' PROVE \E i \in 1..m : rest[i] = c
    <3>1. PICK k \in 1..n : list[k] = c
      BY <1>1, <1>7, <2>2 DEF Order
    <3>2. k # 1
      BY <1>7, <2>2, <3>1
    <3>3. k - 1 \in 1..m /\ rest[k - 1] = list[k - 1 + 1] /\ k - 1 + 1 = k
      BY <1>3, <3>2
    <3> QED BY <3>1, <3>3
  <2> QED BY <2>1, <2>2
<1>13. Order(m, rest)'
  <2> HIDE DEF m, rest
  <2> QED BY <1>9, <1>10, <1>11, <1>12 DEF Order
<1> HIDE DEF m, rest
<1> QED BY <1>3, <1>13 DEF ListInv

(* release puts a connection that is not idle in front of the list.        *)
LEMMA ListPush ==
    ASSUME TypeOK, PoolInv, LeaseInv, ListInv, NEW r \in Requests, BodyEOF(r) PROVE ListInv'
<1> USE NoneAssumption
<1>0. PICK n \in Nat : \E list \in [1..n -> Conns] : Order(n, list)
  BY DEF ListInv
<1>1. PICK list \in [1..n -> Conns] : Order(n, list)
  BY <1>0
<1>2. PICK c \in Conns : /\ c = conn[r] /\ Holds(r) /\ sock[c] = "open" /\ next[c] = None
                         /\ \A s \in Requests : s # r /\ Holds(s) => conn[s] # c
  BY DEF BodyEOF, LeaseInv, PoolInv, Holds
<1> DEFINE m == n + 1
           longer == [i \in 1..m |-> IF i = 1 THEN c ELSE list[i - 1]]
<1>3. /\ m \in Nat /\ longer \in [1..m -> Conns] /\ longer[1] = c
      /\ \A i \in 1..n : i + 1 \in 1..m /\ i + 1 # 1 /\ longer[i + 1] = list[i]
      /\ \A i \in 1..m : i # 1 => i - 1 \in 1..n /\ longer[i] = list[i - 1]
  OBVIOUS
<1>4. /\ head' = c /\ next'[c] = head
      /\ \A d \in Conns : d # c => next'[d] = next[d]
  BY <1>2 DEF BodyEOF, finish, Done, Release, TypeOK
<1>5. /\ UNCHANGED <<sock, conn>>
      /\ ~Holds(r)'
      /\ \A s \in Requests : s # r => (Holds(s)' <=> Holds(s))
  BY DEF BodyEOF, finish, Done, Release, Holds, TypeOK
<1>6. c \notin Idle
  BY <1>2 DEF Idle
<1>7. \A d \in Conns : d \in Idle' <=> d \in Idle \/ d = c
  BY <1>2, <1>5 DEF Idle
<1>8. \A i \in 1..n : list[i] # c
  BY <1>1, <1>6 DEF Order
<1>9. head' = IF m = 0 THEN None ELSE longer[1]
  BY <1>3, <1>4
<1>10. ASSUME NEW i \in 1..m PROVE next'[longer[i]] = IF i = m THEN None ELSE longer[i + 1]
  <2>1. CASE i = 1
    <3>1. head = IF n = 0 THEN None ELSE list[1]
      BY <1>1 DEF Order
    <3>2. n # 0 => longer[2] = list[1]
      BY <1>3
    <3> QED BY <1>3, <1>4, <2>1, <3>1, <3>2
  <2>2. CASE i # 1
    <3>1. i - 1 \in 1..n /\ longer[i] = list[i - 1] /\ list[i - 1] \in Conns
      BY <1>3, <2>2
    <3>2. next[list[i - 1]] = IF i - 1 = n THEN None ELSE list[i - 1 + 1]
      BY <1>1, <3>1 DEF Order
    <3>3. i # m => longer[i + 1] = list[i]
      BY <1>3, <2>2
    <3>4. i - 1 + 1 = i /\ (i - 1 = n <=> i = m)
      BY <3>1
    <3> QED BY <1>4, <1>8, <3>1, <3>2, <3>3, <3>4
  <2> QED BY <2>1, <2>2
<1>11. ASSUME NEW i \in 1..m, NEW j \in 1..m, longer[i] = longer[j] PROVE i = j
  <2>1. CASE i = 1 \/ j = 1
    BY <1>3, <1>8, <1>11, <2>1
  <2>2. CASE i # 1 /\ j # 1
    <3>1. i - 1 \in 1..n /\ j - 1 \in 1..n /\ list[i - 1] = list[j - 1]
      BY <1>3, <1>11, <2>2
    <3>2. i - 1 = j - 1
      BY <1>1, <3>1 DEF Order
    <3> QED BY <3>2
  <2> QED BY <2>1, <2>2
<1>12. ASSUME NEW d \in Conns PROVE d \in Idle' <=> \E i \in 1..m : longer[i] = d
  <2>1. ASSUME NEW i \in 1..m, longer[i] = d PROVE d \in Idle'
    BY <1>1, <1>3, <1>7, <2>1 DEF Order
  <2>2. ASSUME d \in Idle' PROVE \E i \in 1..m : longer[i] = d
    <3>1. CASE d = c
      BY <1>3, <3>1
    <3>2. CASE d # c
      <4>1. PICK k \in 1..n : list[k] = d
        BY <1>1, <1>7, <2>2, <3>2 DEF Order
      <4> QED BY <1>3, <4>1
    <3> QED BY <3>1, <3>2
  <2> QED BY <2>1, <2>2
<1>13. Order(m, longer)'
  <2> HIDE DEF m, longer
  <2> QED BY <1>9, <1>10, <1>11, <1>12 DEF Order
<1> HIDE DEF m, longer
<1> QED BY <1>3, <1>13 DEF ListInv

(* CloseIdleConnections closes everything idle and forgets the list.       *)
LEMMA ListForget ==
    ASSUME TypeOK, ListInv, CloseIdleConnections PROVE ListInv'
<1>0. PICK n \in Nat : \E list \in [1..n -> Conns] : Order(n, list)
  BY DEF ListInv
<1>1. PICK list \in [1..n -> Conns] : Order(n, list)
  BY <1>0
<1>2. ASSUME NEW i \in 1..n PROVE Linked(list[i])
  <2>1. CASE i = 1
    BY <1>1, <2>1 DEF Order, Linked
  <2>2. CASE i # 1
    <3>1. i - 1 \in 1..n /\ i - 1 # n /\ i - 1 + 1 = i
      BY <2>2
    <3>2. next[list[i - 1]] = list[i] /\ list[i - 1] \in Conns
      BY <1>1, <3>1 DEF Order
    <3> QED BY <3>2 DEF Linked
  <2> QED BY <2>1, <2>2
<1>3. \A c \in Idle : Linked(c)
  BY <1>1, <1>2 DEF Order, Idle
<1>4. /\ UNCHANGED <<conn, pc>> /\ head' = None
      /\ \A c \in Conns : sock'[c] = IF Linked(c) THEN "closed" ELSE sock[c]
  BY DEF CloseIdleConnections, ForgetPool
<1>5. Idle' = {}
  BY <1>3, <1>4 DEF Idle, Holds
<1> DEFINE nobody == [i \in 1..0 |-> None]
<1>6. nobody \in [1..0 -> Conns] /\ \A i \in 1..0 : FALSE
  OBVIOUS
<1>7. Order(0, nobody)'
  <2> HIDE DEF nobody
  <2> QED BY <1>4, <1>5, <1>6 DEF Order
<1> HIDE DEF nobody
<1> QED BY <1>6, <1>7 DEF ListInv

(* Every other step leaves the list and the idle set alone: what is opened *)
(* or closed is held.                                                      *)
LEMMA ListStep == IInv /\ ListInv /\ [Next]_vars => ListInv'
<1> SUFFICES ASSUME TypeOK, PoolInv, LeaseInv, ListInv, [Next]_vars PROVE ListInv'
  BY DEF IInv
<1>1. ASSUME NEW r \in Requests,
             \/ AcquireEmpty(r) \/ DialFail(r) \/ WriteOK(r) \/ ReadOK(r)
             \/ BodyRead(r) \/ LateRead(r) \/ Expire(r)
      PROVE  ListInv'
  <2>1. UNCHANGED <<head, next, sock, conn>>
    BY <1>1 DEF AcquireEmpty, DialFail, WriteOK, ReadOK, BodyRead, LateRead, Expire, pool
  <2>2. \A s \in Requests : Holds(s)' <=> Holds(s)
    BY <1>1 DEF AcquireEmpty, DialFail, WriteOK, ReadOK, BodyRead, LateRead, Expire,
                Holds, TypeOK
  <2>3. Idle' = Idle
    BY <2>1, <2>2 DEF Idle
  <2> QED BY <2>1, <2>3, ListQuiet
<1>2. ASSUME NEW r \in Requests, DialOK(r) PROVE ListInv'
  <2>1. PICK c \in Conns : c = NewConn /\ sock[c] = "unborn"
    BY <1>2 DEF DialOK, NewConn, Dialable
  <2>2. /\ UNCHANGED <<head, next>>
        /\ \A d \in Conns : d # c => sock'[d] = sock[d]
        /\ Holds(r)' /\ conn'[r] = c /\ ~Holds(r)
        /\ \A s \in Requests : s # r => (Holds(s)' <=> Holds(s)) /\ conn'[s] = conn[s]
    BY <1>2, <2>1 DEF DialOK, pool, Holds, TypeOK
  <2>3. c \notin Idle /\ c \notin Idle'
    BY <2>1, <2>2 DEF Idle
  <2>4. Idle' = Idle
    BY <2>2, <2>3 DEF Idle
  <2> QED BY <2>2, <2>4, ListQuiet
<1>3. ASSUME NEW r \in Requests,
             \/ WriteFail(r) \/ ReadFail(r) \/ BodyError(r) \/ (Close(r) /\ ~Done(r))
      PROVE  ListInv'
  <2>1. Holds(r)
    BY <1>3 DEF WriteFail, ReadFail, BodyError, Close, Holds
  <2>2. /\ sock' = [sock EXCEPT ![conn[r]] = "closed"]
        /\ UNCHANGED <<head, next, conn>>
    BY <1>3 DEF WriteFail, ReadFail, GiveUp, BodyError, Close, finish, Done, Discard, pool
  <2>3. \A s \in Requests : s # r => (Holds(s)' <=> Holds(s))
    BY <1>3, ZenonT(30) DEF WriteFail, ReadFail, GiveUp, BodyError, Close, Holds, TypeOK
  <2>4. PICK c \in Conns : c = conn[r] /\ \A s \in Requests : s # r /\ Holds(s) => conn[s] # c
    BY <2>1 DEF LeaseInv
  <2>5. sock'[c] = "closed" /\ \A d \in Conns : d # c => sock'[d] = sock[d]
    BY <2>2, <2>4 DEF TypeOK
  <2>6. c \notin Idle /\ c \notin Idle'
    BY <2>1, <2>4, <2>5 DEF Idle
  <2>7. Idle' = Idle
    BY <2>2, <2>3, <2>4, <2>5, <2>6 DEF Idle
  <2> QED BY <2>2, <2>7, ListQuiet
<1>4. ASSUME NEW r \in Requests, Close(r), Done(r) PROVE ListInv'
  <2>1. UNCHANGED <<head, next, sock, conn>>
    BY <1>4 DEF Close, finish, pool
  <2>2. \A s \in Requests : Holds(s)' <=> Holds(s)
    BY <1>4 DEF Close, Done, Holds, TypeOK
  <2>3. Idle' = Idle
    BY <2>1, <2>2 DEF Idle
  <2> QED BY <2>1, <2>3, ListQuiet
<1>5. CASE UNCHANGED <<head, next, sock, conn, pc>>
  BY <1>5, ListQuiet DEF Idle, Holds
<1> QED
  <2>1. ASSUME NEW c \in Conns, ServerExecute(c) \/ PeerDrop(c)
        PROVE  UNCHANGED <<head, next, sock, conn, pc>>
    BY <2>1 DEF ServerExecute, PeerDrop, pool
  <2>2. UNCHANGED vars => UNCHANGED <<head, next, sock, conn, pc>>
    BY DEF vars
  <2> QED BY <1>1, <1>2, <1>3, <1>4, <1>5, <2>1, <2>2, ListPop, ListPush, ListForget
          DEF Next, Progress

(* Injective, so no longer than there are connections.                     *)
LEMMA ListLength ==
    ASSUME NEW n \in Nat, NEW list \in [1..n -> Conns], Order(n, list)
    PROVE  Cardinality(Conns) \in Nat /\ n <= Cardinality(Conns)
<1>1. list \in Injection(1..n, Conns)
  BY DEF Order, Injection, IsInjective
<1>2. Cardinality(1..n) = n
  BY FS_Interval
<1>3. Cardinality(1..n) <= Cardinality(Conns)
  BY <1>1, ConnsAssumption, FS_Injection
<1> QED BY <1>2, <1>3, ConnsAssumption, FS_CardinalityType

(* Following next from head visits the list and then stays at None.        *)
LEMMA HopList ==
    ASSUME NEW n \in Nat, NEW list \in [1..n -> Conns], Order(n, list)
    PROVE  \A k \in 0..Cardinality(Conns) : Hop[k] = IF k < n THEN list[k + 1] ELSE None
<1> USE NoneAssumption
<1> DEFINE size == Cardinality(Conns)
           place == [k \in 0..size |-> IF k < n THEN list[k + 1] ELSE None]
           step(f) == [k \in 0..size |-> IF k = 0 THEN head
                                        ELSE IF f[k - 1] = None THEN None ELSE next[f[k - 1]]]
<1>1. size \in Nat /\ n <= size
  BY ListLength
<1>2. place = step(place)
  <2> SUFFICES ASSUME NEW k \in 0..size PROVE place[k] = step(place)[k]
    OBVIOUS
  <2>1. CASE k = 0
    BY <1>1, <2>1 DEF Order
  <2>2. CASE k # 0 /\ k <= n
    <3>1. k - 1 \in 0..size /\ place[k - 1] = list[k] /\ k \in 1..n
      BY <1>1, <2>2
    <3>2. next[list[k]] = IF k = n THEN None ELSE list[k + 1]
      BY <3>1 DEF Order
    <3> QED BY <1>1, <2>2, <3>1, <3>2
  <2>3. CASE k # 0 /\ k > n
    BY <1>1, <2>3
  <2> QED BY <1>1, <2>1, <2>2, <2>3
<1>3. Hop = step(Hop)
  <2>1. Hop = CHOOSE f : f = step(f)
    BY DEF Hop
  <2> HIDE DEF step, place
  <2> QED BY <1>2, <2>1
<1> DEFINE wrong == {k \in 0..size : Hop[k] # place[k]}
<1>4. wrong = {}
  <2> SUFFICES ASSUME wrong # {} PROVE FALSE
    OBVIOUS
  <2>1. PICK k \in wrong : \A m \in wrong : k <= m
    <3>1. wrong \subseteq Nat
      OBVIOUS
    <3> HIDE DEF wrong
    <3> QED BY <3>1, LeastNumber
  <2>2. k \in 0..size /\ Hop[k] = step(Hop)[k] /\ place[k] = step(place)[k]
    BY <1>2, <1>3
  <2>3. k # 0
    BY <2>2
  <2>4. k - 1 \in 0..size /\ ~(k <= k - 1)
    BY <1>1, <2>2, <2>3
  <2>a. k - 1 \notin wrong
    <3> HIDE DEF wrong
    <3> QED BY <2>1, <2>4
  <2>5. Hop[k - 1] = place[k - 1]
    BY <2>4, <2>a
  <2> QED BY <2>1, <2>2, <2>3, <2>5
<1> QED BY <1>4

LEMMA ListIsPool == TypeOK /\ ListInv => PoolIsIdleSet
<1> SUFFICES ASSUME TypeOK, ListInv PROVE PoolIsIdleSet
  OBVIOUS
<1> USE NoneAssumption
<1>0. PICK n \in Nat : \E list \in [1..n -> Conns] : Order(n, list)
  BY DEF ListInv
<1>1. PICK list \in [1..n -> Conns] : Order(n, list)
  BY <1>0
<1> DEFINE size == Cardinality(Conns)
<1>2. size \in Nat /\ n <= size
  BY <1>1, ListLength
<1>3. \A k \in 0..size : Hop[k] = IF k < n THEN list[k + 1] ELSE None
  BY <1>1, HopList
<1>4. Hop[size] = None
  BY <1>2, <1>3
<1>5. ASSUME NEW c \in Conns, c \in Idle PROVE \E k \in 0..size : Hop[k] = c
  <2>1. PICK i \in 1..n : list[i] = c
    BY <1>1, <1>5 DEF Order
  <2>2. i - 1 \in 0..size /\ i - 1 < n /\ i - 1 + 1 = i
    BY <1>2
  <2> QED BY <1>3, <2>1, <2>2
<1>6. ASSUME NEW k \in 0..size, Hop[k] # None PROVE Hop[k] \in Idle
  <2>1. k < n /\ k + 1 \in 1..n /\ Hop[k] = list[k + 1] /\ list[k + 1] \in Conns
    BY <1>2, <1>3, <1>6
  <2> QED BY <1>1, <2>1 DEF Order
<1>7. {Hop[k] : k \in 0..size} \ {None} = Idle
  BY <1>5, <1>6 DEF Idle
<1> QED BY <1>4, <1>7 DEF PoolIsIdleSet, Idle

(* The list ends, and what acquire can pop is what was opened and is       *)
(* neither leased nor closed.                                              *)
THEOREM PoolIsIdle == Spec => []PoolIsIdleSet
<1>1. Init => ListInv
  <2> SUFFICES ASSUME Init PROVE ListInv
    OBVIOUS
  <2>1. head = None /\ Idle = {}
    BY DEF Init, Idle
  <2> DEFINE nobody == [i \in 1..0 |-> None]
  <2>2. nobody \in [1..0 -> Conns] /\ \A i \in 1..0 : FALSE
    OBVIOUS
  <2>3. Order(0, nobody)
    BY <2>1, <2>2 DEF Order
  <2> HIDE DEF nobody
  <2> QED BY <2>2, <2>3 DEF ListInv
<1>2. IInv /\ ListInv => PoolIsIdleSet
  BY ListIsPool DEF IInv
<1> QED BY <1>1, <1>2, InitInv, InvStep, ListStep, PTL DEF Spec
=============================================================================
