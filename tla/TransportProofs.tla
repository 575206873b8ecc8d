--------------------------- MODULE TransportProofs ---------------------------
(***************************************************************************)
(* What TLAPS proves of Transport.tla for any number of requests and       *)
(* connections: its types, exclusive use of a connection, that an answer   *)
(* goes to the request it belongs to, and that it implements ConnLease.    *)
(***************************************************************************)
EXTENDS Transport, TLAPS

(* The list: its head and every successor are open, nobody points to the   *)
(* head, and no two nodes point to the same one.  A connection that is     *)
(* open but not in the list has a nil next, so release will accept it.     *)
PoolInv ==
    /\ head # None => sock[head] = "open"
    /\ \A c \in Conns : sock[c] = "open" /\ next[c] # None => sock[next[c]] = "open"
    /\ \A c \in Conns : sock[c] = "open" /\ ~Linked(c) => next[c] = None
    /\ \A c \in Conns : sock[c] = "unborn" => ~Linked(c) /\ next[c] = None
    /\ \A c \in Conns : next[c] # None => next[c] # head
    /\ \A c, d \in Conns : next[c] # None /\ next[c] = next[d] => c = d

(* A held connection is open, out of the list and held once.               *)
LeaseInv ==
    \A r \in Requests : Holds(r) =>
        /\ conn[r] \in Conns
        /\ sock[conn[r]] = "open"
        /\ ~Linked(conn[r])
        /\ \A s \in Requests : Holds(s) /\ conn[s] = conn[r] => s = r

Empty(c) == sent[c] = <<>> /\ replies[c] = <<>>

Answering(c, r) == sent[c] = <<>> /\ replies[c] \in {<<>>, <<r>>}

Asking(c, r) == sent[c] = <<r>> /\ replies[c] = <<>>

(* Nothing is under way on a connection at rest, and on a leased one       *)
(* nothing but its holder's request or the answer to it.                   *)
WireInv ==
    /\ \A c \in Conns : sock[c] = "unborn" => Empty(c)
    /\ \A c \in Conns : sock[c] = "open" /\ Linked(c) => Empty(c)
    /\ \A r \in Requests : pc[r] = "send" => Empty(conn[r])
    /\ \A r \in Requests : pc[r] = "await" => Answering(conn[r], r) \/ Asking(conn[r], r)
    /\ \A r \in Requests : pc[r] = "body" => Answering(conn[r], r)

-----------------------------------------------------------------------------
(* Types *)

(* After a failed exchange the socket, the attempt and the pc have their   *)
(* types: the loop of RoundTrip has no third iteration.                    *)
LEMMA GiveUpTypes ==
    ASSUME TypeOK, NEW r \in Requests, NEW notSent \in BOOLEAN, GiveUp(r, notSent)
    PROVE  /\ sock' \in [Conns -> {"unborn", "open", "closed"}]
           /\ attempt' \in [Requests -> 0..1]
           /\ pc' \in [Requests -> {"acquire", "dial", "send", "await", "body",
                                   "finished", "reread", "closed", "failed"}]
<1>1. sock' \in [Conns -> {"unborn", "open", "closed"}]
  BY DEF GiveUp, TypeOK
<1>2. CASE notSent = TRUE /\ attempt[r] = 0
  <2>1. pc' = [pc EXCEPT ![r] = "acquire"] /\ attempt' = [attempt EXCEPT ![r] = 1]
    BY <1>2 DEF GiveUp
  <2> QED BY <1>1, <2>1 DEF TypeOK
<1>3. CASE ~(notSent = TRUE /\ attempt[r] = 0)
  <2>1. pc' = [pc EXCEPT ![r] = "failed"] /\ attempt' = attempt
    BY <1>3 DEF GiveUp
  <2> QED BY <1>1, <2>1 DEF TypeOK
<1> QED BY <1>2, <1>3

(* Every step of the transport keeps the types.                            *)
LEMMA TypeStep == TypeOK /\ LeaseInv /\ [Next]_vars => TypeOK'
<1> SUFFICES ASSUME TypeOK, LeaseInv, [Next]_vars PROVE TypeOK'
  OBVIOUS
<1> USE NoneAssumption DEF TypeOK
<1>1. ASSUME NEW r \in Requests, AcquirePooled(r) PROVE TypeOK'
  BY <1>1 DEF AcquirePooled, Unlink, wire
<1>2. ASSUME NEW r \in Requests, AcquireEmpty(r) PROVE TypeOK'
  BY <1>2 DEF AcquireEmpty, pool, wire, call
<1>3. ASSUME NEW r \in Requests, DialOK(r) PROVE TypeOK'
  <2>1. NewConn \in Conns
    BY <1>3 DEF DialOK, NewConn, Dialable
  <2> QED BY <1>3, <2>1 DEF DialOK, pool, wire
<1>4. ASSUME NEW r \in Requests, DialFail(r) PROVE TypeOK'
  BY <1>4 DEF DialFail, pool, wire, call
<1>5. ASSUME NEW r \in Requests, WriteOK(r) PROVE TypeOK'
  <2>1. conn[r] \in Conns
    BY <1>5 DEF WriteOK, LeaseInv, Holds
  <2>2. sent' \in [Conns -> Seq(Requests)]
    BY <1>5, <2>1 DEF WriteOK
  <2> QED BY <1>5, <2>2 DEF WriteOK, SetDeadline, pool, call
<1>6. ASSUME NEW r \in Requests, WriteFail(r) PROVE TypeOK'
  <2>1. /\ sock' \in [Conns -> {"unborn", "open", "closed"}]
        /\ attempt' \in [Requests -> 0..1]
        /\ pc' \in [Requests -> {"acquire", "dial", "send", "await", "body",
                                "finished", "reread", "closed", "failed"}]
    BY <1>6, GiveUpTypes DEF WriteFail
  <2>2. deadline' \in [Conns -> Requests \union {None}]
    BY <1>6 DEF WriteFail, SetDeadline
  <2> QED BY <1>6, <2>1, <2>2 DEF WriteFail, pool, wire
<1>7. ASSUME NEW r \in Requests, ReadOK(r) PROVE TypeOK'
  <2>1. conn[r] \in Conns
    BY <1>7 DEF ReadOK, LeaseInv, Holds
  <2>2. Head(replies[conn[r]]) \in Requests
    BY <1>7, <2>1 DEF ReadOK
  <2> QED BY <1>7, <2>2 DEF ReadOK, pool, wire
<1>8. ASSUME NEW r \in Requests, ReadFail(r) PROVE TypeOK'
  <2>1. /\ sock' \in [Conns -> {"unborn", "open", "closed"}]
        /\ attempt' \in [Requests -> 0..1]
        /\ pc' \in [Requests -> {"acquire", "dial", "send", "await", "body",
                                "finished", "reread", "closed", "failed"}]
    BY <1>8, GiveUpTypes DEF ReadFail
  <2> QED BY <1>8, <2>1 DEF ReadFail, pool, wire
<1>9. ASSUME NEW r \in Requests, BodyRead(r) PROVE TypeOK'
  BY <1>9 DEF BodyRead, SetDeadline, pool, wire, call
<1>10. ASSUME NEW r \in Requests, BodyEOF(r) PROVE TypeOK'
  <2>1. conn[r] \in Conns
    BY <1>10 DEF BodyEOF, LeaseInv, Holds
  <2>2. replies' \in [Conns -> Seq(Requests)]
    BY <1>10, <2>1 DEF BodyEOF
  <2>3. junk' \subseteq Conns
    BY <1>10, <2>1 DEF BodyEOF
  <2>4. Release(conn[r]) /\ UNCHANGED sock
    BY <1>10 DEF BodyEOF, finish, Done
  <2>5. /\ head' \in Conns \union {None}
        /\ next' \in [Conns -> Conns \union {None}]
        /\ deadline' \in [Conns -> Requests \union {None}]
    <3>1. CASE next[conn[r]] # None
      BY <2>4, <3>1 DEF Release, pool
    <3>2. CASE next[conn[r]] = None
      <4>1. /\ next' = [next EXCEPT ![conn[r]] = head]
            /\ head' = conn[r]
            /\ deadline' = [deadline EXCEPT ![conn[r]] = None]
        BY <2>4, <3>2 DEF Release
      <4> QED BY <2>1, <4>1
    <3> QED BY <3>1, <3>2
  <2> QED BY <1>10, <2>2, <2>3, <2>4, <2>5 DEF BodyEOF, call
<1>11. ASSUME NEW r \in Requests, BodyError(r) PROVE TypeOK'
  BY <1>11, ZenonT(30) DEF BodyError, finish, Discard, Done, pool, wire, call
<1>12. ASSUME NEW r \in Requests, Close(r) PROVE TypeOK'
  BY <1>12 DEF Close, finish, Discard, Done, pool, wire, call
<1>13. ASSUME NEW r \in Requests, LateRead(r) PROVE TypeOK'
  BY <1>13 DEF LateRead, SetDeadline, pool, wire, call
<1>14. ASSUME NEW r \in Requests, Expire(r) PROVE TypeOK'
  BY <1>14 DEF Expire, pool, wire, call
<1>15. ASSUME NEW c \in Conns, ServerExecute(c) PROVE TypeOK'
  <2>1. Head(sent[c]) \in Requests /\ Tail(sent[c]) \in Seq(Requests)
    BY <1>15 DEF ServerExecute
  <2>2. replies' \in [Conns -> Seq(Requests)]
    BY <1>15, <2>1 DEF ServerExecute
  <2> QED BY <1>15, <2>1, <2>2, SMTT(30) DEF ServerExecute, pool, call
<1>16. ASSUME NEW c \in Conns, PeerDrop(c) PROVE TypeOK'
  <2>1. <<>> \in Seq(Requests)
    OBVIOUS
  <2>2. replies' \in [Conns -> Seq(Requests)]
    BY <1>16, <2>1 DEF PeerDrop
  <2>3. sent' \in [Conns -> Seq(Requests)] /\ peer' \in [Conns -> {"up", "gone"}]
    BY <1>16, <2>1 DEF PeerDrop
  <2> QED BY <1>16, <2>2, <2>3 DEF PeerDrop, pool, call
<1>17. ASSUME CloseIdleConnections PROVE TypeOK'
  BY <1>17 DEF CloseIdleConnections, ForgetPool, wire, call
<1>18. ASSUME UNCHANGED vars PROVE TypeOK'
  BY <1>18 DEF vars
<1> QED
  BY <1>1, <1>2, <1>3, <1>4, <1>5, <1>6, <1>7, <1>8, <1>9, <1>10, <1>11,
     <1>12, <1>13, <1>14, <1>15, <1>16, <1>17, <1>18 DEF Next, Progress

-----------------------------------------------------------------------------
(* The list and the leases *)

(* Steps that touch neither the list nor a socket, and lease nothing.      *)
LEMMA QuietStep ==
    ASSUME PoolInv, LeaseInv, UNCHANGED <<head, next, sock, conn>>,
           \A r \in Requests : Holds(r)' => Holds(r)
    PROVE  PoolInv' /\ LeaseInv'
<1>1. \A c : Linked(c)' <=> Linked(c)
  BY DEF Linked
<1>2. PoolInv'
  BY <1>1 DEF PoolInv
<1>3. LeaseInv'
  BY <1>1 DEF LeaseInv
<1> QED BY <1>2, <1>3

(* The holder closes its connection and lets it go: since it is not in the *)
(* list, nothing acquire can pop has been closed.                          *)
LEMMA DiscardStep ==
    ASSUME TypeOK, PoolInv, LeaseInv, NEW r \in Requests, Holds(r),
           sock' = [sock EXCEPT ![conn[r]] = "closed"],
           UNCHANGED <<head, next, conn>>,
           ~Holds(r)', \A s \in Requests : Holds(s)' => Holds(s)
    PROVE  PoolInv' /\ LeaseInv'
<1> DEFINE c == conn[r]
<1>1. c \in Conns /\ sock[c] = "open" /\ ~Linked(c)
  BY DEF LeaseInv
<1>2. \A d : Linked(d)' <=> Linked(d)
  BY DEF Linked
<1>3. \A d \in Conns : d # c => sock'[d] = sock[d]
  BY DEF TypeOK
<1>4. sock'[c] = "closed"
  BY <1>1 DEF TypeOK
<1>5. head # c /\ \A d \in Conns : next[d] # c
  BY <1>1 DEF Linked
<1>6. PoolInv'
  <2>1. head' # None => sock'[head'] = "open"
    BY <1>3, <1>5 DEF PoolInv, TypeOK
  <2>2. ASSUME NEW d \in Conns, sock'[d] = "open", next'[d] # None
        PROVE  sock'[next'[d]] = "open"
    BY <2>2, <1>3, <1>4, <1>5 DEF PoolInv, TypeOK
  <2> QED BY <2>1, <2>2, <1>2, <1>3, <1>4 DEF PoolInv
<1>7. LeaseInv'
  BY <1>2, <1>3 DEF LeaseInv
<1> QED BY <1>6, <1>7

(* acquire pops the head: injectivity of next keeps the popped connection  *)
(* out of what is left of the list.                                        *)
LEMMA PopStep ==
    ASSUME TypeOK, PoolInv, LeaseInv, NEW r \in Requests, AcquirePooled(r)
    PROVE  PoolInv' /\ LeaseInv'
<1> USE NoneAssumption
<1>0. PICK h \in Conns : h = head
  BY DEF AcquirePooled, TypeOK
<1>1. /\ head \in Conns /\ sock[head] = "open"
      /\ head' = next[head]
      /\ next' = [next EXCEPT ![head] = None]
      /\ conn' = [conn EXCEPT ![r] = head]
      /\ pc' = [pc EXCEPT ![r] = "send"]
      /\ sock' = sock
      /\ pc[r] = "acquire"
  BY DEF AcquirePooled, Unlink, PoolInv, TypeOK
<1>2. /\ next'[head] = None
      /\ \A d \in Conns : d # head => next'[d] = next[d]
  BY <1>1 DEF TypeOK
<1>3. \A d \in Conns : next'[d] # None => next'[d] # head /\ next'[d] # head'
  BY <1>1, <1>2 DEF PoolInv
<1>4. head' # head
  BY <1>1 DEF PoolInv
<1>5. ~Linked(h)'
  BY <1>0, <1>1, <1>2, <1>3, <1>4 DEF Linked
<1>6. \A d \in Conns : d # head => (Linked(d)' <=> Linked(d))
  <2> SUFFICES ASSUME NEW d \in Conns, d # head PROVE Linked(d)' <=> Linked(d)
    OBVIOUS
  <2>1. d = head' <=> d = next[head]
    BY <1>1
  <2>2. (\E e \in Conns : next'[e] = d) <=> (\E e \in Conns : e # head /\ next[e] = d)
    BY <1>2
  <2> QED BY <2>1, <2>2, <1>1 DEF Linked
<1>7. PoolInv'
  <2>1. head' # None => sock'[head'] = "open"
    BY <1>1 DEF PoolInv
  <2>2. \A c \in Conns : sock'[c] = "open" /\ next'[c] # None => sock'[next'[c]] = "open"
    BY <1>1, <1>2 DEF PoolInv
  <2>3. \A c \in Conns : sock'[c] = "open" /\ ~Linked(c)' => next'[c] = None
    BY <1>1, <1>2, <1>6 DEF PoolInv
  <2>4. \A c \in Conns : sock'[c] = "unborn" => ~Linked(c)' /\ next'[c] = None
    BY <1>1, <1>2, <1>6 DEF PoolInv
  <2>5. \A c, d \in Conns : next'[c] # None /\ next'[c] = next'[d] => c = d
    BY <1>2 DEF PoolInv
  <2> QED BY <2>1, <2>2, <2>3, <2>4, <2>5, <1>3 DEF PoolInv
<1>8. \A s \in Requests : s # r => (Holds(s)' <=> Holds(s)) /\ conn'[s] = conn[s]
  BY <1>1 DEF Holds, TypeOK
<1>9. Holds(r)' /\ conn'[r] = head
  BY <1>1 DEF Holds, TypeOK
<1>10. \A s \in Requests : Holds(s) => conn[s] # head
  BY DEF LeaseInv, Linked
<1>11. LeaseInv'
  <2> SUFFICES ASSUME NEW s \in Requests, Holds(s)'
               PROVE  /\ conn'[s] \in Conns /\ sock'[conn'[s]] = "open"
                      /\ ~Linked(conn[s])'
                      /\ \A q \in Requests : Holds(q)' /\ conn'[q] = conn'[s] => q = s
    BY DEF LeaseInv
  <2>1. CASE s = r
    BY <2>1, <1>0, <1>1, <1>5, <1>8, <1>9, <1>10
  <2>2. CASE s # r
    <3>1. Holds(s) /\ conn'[s] = conn[s] /\ conn[s] # head /\ conn[s] \in Conns
      BY <2>2, <1>8, <1>10 DEF LeaseInv
    <3>2. ~Linked(conn[s])'
      <4>1. PICK d \in Conns : d = conn[s]
        BY <3>1
      <4>2. d # head /\ ~Linked(d)
        BY <3>1, <4>1 DEF LeaseInv
      <4>3. ~Linked(d)'
        BY <4>2, <1>6
      <4> QED BY <3>1, <4>1, <4>3
    <3> QED BY <3>1, <3>2, <1>1, <1>8, <1>9 DEF LeaseInv
  <2> QED BY <2>1, <2>2
<1> QED BY <1>7, <1>11

(* A dialed connection was unborn, hence neither in the list nor leased.   *)
LEMMA DialStep ==
    ASSUME TypeOK, PoolInv, LeaseInv, NEW r \in Requests, DialOK(r)
    PROVE  PoolInv' /\ LeaseInv'
<1> USE NoneAssumption
<1>1. PICK c \in Conns : c = NewConn /\ sock[c] = "unborn"
  BY DEF DialOK, NewConn, Dialable
<1>2. /\ sock' = [sock EXCEPT ![c] = "open"]
      /\ conn' = [conn EXCEPT ![r] = c]
      /\ pc' = [pc EXCEPT ![r] = "send"]
      /\ head' = head /\ next' = next
  BY <1>1 DEF DialOK, pool
<1>3. ~Linked(c) /\ next[c] = None
  BY <1>1 DEF PoolInv
<1>4. \A d \in Conns : Linked(d)' <=> Linked(d)
  BY <1>2 DEF Linked
<1>5. sock'[c] = "open" /\ \A d \in Conns : d # c => sock'[d] = sock[d]
  BY <1>2 DEF TypeOK
<1>6. PoolInv'
  <2>1. head' # None => sock'[head'] = "open"
    BY <1>2, <1>5 DEF PoolInv, TypeOK
  <2>2. ASSUME NEW d \in Conns, sock'[d] = "open", next'[d] # None
        PROVE  sock'[next'[d]] = "open"
    <3>1. d # c /\ sock[d] = "open" /\ next[d] \in Conns
      BY <2>2, <1>2, <1>3, <1>5 DEF TypeOK
    <3> QED BY <3>1, <2>2, <1>2, <1>5 DEF PoolInv
  <2> QED BY <2>1, <2>2, <1>2, <1>3, <1>4, <1>5 DEF PoolInv
<1>7. \A s \in Requests : s # r => (Holds(s)' <=> Holds(s)) /\ conn'[s] = conn[s]
  BY <1>2 DEF Holds, TypeOK
<1>8. Holds(r)' /\ conn'[r] = c
  BY <1>2 DEF Holds, TypeOK
<1>9. \A s \in Requests : Holds(s) => conn[s] # c
  BY <1>1 DEF LeaseInv
<1>10. LeaseInv'
  <2> SUFFICES ASSUME NEW s \in Requests, Holds(s)'
               PROVE  /\ conn'[s] \in Conns /\ sock'[conn'[s]] = "open"
                      /\ ~Linked(conn[s])'
                      /\ \A q \in Requests : Holds(q)' /\ conn'[q] = conn'[s] => q = s
    BY DEF LeaseInv
  <2>1. CASE s = r
    BY <2>1, <1>3, <1>4, <1>5, <1>7, <1>8, <1>9
  <2>2. CASE s # r
    <3>1. PICK d \in Conns : d = conn[s] /\ d = conn'[s] /\ Holds(s) /\ ~Linked(d)
      BY <2>2, <1>7 DEF LeaseInv
    <3>2. ~Linked(d)'
      BY <3>1, <1>4
    <3> QED BY <3>1, <3>2, <1>5, <1>7, <1>8, <1>9 DEF LeaseInv
  <2> QED BY <2>1, <2>2
<1> QED BY <1>6, <1>10

(* release: the pushed connection becomes the head and nothing else moves. *)
LEMMA PushStep ==
    ASSUME TypeOK, PoolInv, LeaseInv, NEW r \in Requests, BodyEOF(r)
    PROVE  PoolInv' /\ LeaseInv'
<1> USE NoneAssumption
<1>1. PICK c \in Conns : c = conn[r] /\ sock[c] = "open" /\ ~Linked(c)
  BY DEF BodyEOF, LeaseInv, Holds
<1>2. next[c] = None
  BY <1>1 DEF PoolInv
<1>3. /\ head' = c
      /\ next' = [next EXCEPT ![c] = head]
      /\ sock' = sock
      /\ conn' = conn
      /\ pc' = [pc EXCEPT ![r] = "finished"]
  BY <1>1, <1>2 DEF BodyEOF, finish, Done, Release
<1>4. next'[c] = head /\ \A d \in Conns : d # c => next'[d] = next[d]
  BY <1>3 DEF TypeOK
<1>5. c # head /\ \A d \in Conns : next[d] # c
  BY <1>1 DEF Linked
<1>6. \A d \in Conns : d # c => (Linked(d)' <=> Linked(d))
  <2> SUFFICES ASSUME NEW d \in Conns, d # c PROVE Linked(d)' <=> Linked(d)
    OBVIOUS
  <2>1. (\E e \in Conns : next'[e] = d) <=> (d = head \/ \E e \in Conns : next[e] = d)
    BY <1>2, <1>4
  <2> QED BY <2>1, <1>3 DEF Linked
<1>7. PoolInv'
  <2>1. \A d \in Conns : sock'[d] = "open" /\ next'[d] # None => sock'[next'[d]] = "open"
    BY <1>1, <1>3, <1>4 DEF PoolInv
  <2>2. Linked(c)'
    BY <1>3 DEF Linked
  <2>3. \A d \in Conns : sock'[d] = "open" /\ ~Linked(d)' => next'[d] = None
    BY <2>2, <1>3, <1>4, <1>6 DEF PoolInv
  <2>4. \A d \in Conns : sock'[d] = "unborn" => ~Linked(d)' /\ next'[d] = None
    BY <1>1, <1>3, <1>4, <1>6 DEF PoolInv
  <2>5. \A d \in Conns : next'[d] # None => next'[d] # head'
    BY <1>3, <1>4, <1>5
  <2>6. \A d, e \in Conns : next'[d] # None /\ next'[d] = next'[e] => d = e
    BY <1>4 DEF PoolInv
  <2> QED BY <1>1, <1>3, <2>1, <2>3, <2>4, <2>5, <2>6 DEF PoolInv
<1>8. ~Holds(r)' /\ \A s \in Requests : Holds(s)' => Holds(s) /\ s # r
  BY <1>3 DEF Holds, TypeOK
<1>9. LeaseInv'
  <2> SUFFICES ASSUME NEW s \in Requests, Holds(s)'
               PROVE  /\ conn'[s] \in Conns /\ sock'[conn'[s]] = "open"
                      /\ ~Linked(conn[s])'
                      /\ \A q \in Requests : Holds(q)' /\ conn'[q] = conn'[s] => q = s
    BY DEF LeaseInv
  <2>1. Holds(r)
    BY DEF BodyEOF, Holds
  <2>2. PICK d \in Conns : d = conn[s] /\ d # c /\ Holds(s) /\ ~Linked(d)
    BY <1>1, <1>8, <2>1 DEF LeaseInv
  <2>3. ~Linked(d)'
    BY <2>2, <1>6
  <2> QED BY <2>2, <2>3, <1>3, <1>8 DEF LeaseInv
<1> QED BY <1>7, <1>9

(* CloseIdleConnections closes the list, and no lease is in it.            *)
LEMMA CloseIdleStep ==
    ASSUME TypeOK, PoolInv, LeaseInv, CloseIdleConnections
    PROVE  PoolInv' /\ LeaseInv'
<1> USE NoneAssumption
<1>1. /\ head' = None /\ next' = next /\ conn' = conn /\ pc' = pc
      /\ sock' = [c \in Conns |-> IF Linked(c) THEN "closed" ELSE sock[c]]
  BY DEF CloseIdleConnections, ForgetPool
<1>2. \A c \in Conns : Linked(c)' => Linked(c)
  BY <1>1 DEF Linked
<1>3. \A c \in Conns : /\ Linked(c) => sock'[c] = "closed"
                       /\ ~Linked(c) => sock'[c] = sock[c]
  BY <1>1
<1>4. \A c \in Conns : sock'[c] = "open" => next'[c] = None
  BY <1>1, <1>3 DEF PoolInv
<1>5. \A c \in Conns : sock'[c] = "unborn" => sock[c] = "unborn"
  BY <1>3
<1>6. PoolInv'
  BY <1>1, <1>2, <1>4, <1>5 DEF PoolInv
<1>7. LeaseInv'
  <2> SUFFICES ASSUME NEW s \in Requests, Holds(s)'
               PROVE  /\ conn'[s] \in Conns /\ sock'[conn'[s]] = "open"
                      /\ ~Linked(conn[s])'
                      /\ \A q \in Requests : Holds(q)' /\ conn'[q] = conn'[s] => q = s
    BY DEF LeaseInv
  <2>1. \A q \in Requests : Holds(q)' <=> Holds(q)
    BY <1>1 DEF Holds
  <2>2. PICK d \in Conns : d = conn[s] /\ sock[d] = "open" /\ ~Linked(d)
    BY <2>1 DEF LeaseInv
  <2>3. ~Linked(d)'
    BY <2>2, <1>2
  <2> QED BY <2>1, <2>2, <2>3, <1>1, <1>3 DEF LeaseInv
<1> QED BY <1>6, <1>7

(* Every step keeps the list and the leases apart.                         *)
LEMMA LeaseStep ==
    TypeOK /\ PoolInv /\ LeaseInv /\ [Next]_vars => PoolInv' /\ LeaseInv'
<1> SUFFICES ASSUME TypeOK, PoolInv, LeaseInv, [Next]_vars
             PROVE  PoolInv' /\ LeaseInv'
  OBVIOUS
<1>1. ASSUME NEW r \in Requests, AcquirePooled(r) PROVE PoolInv' /\ LeaseInv'
  BY <1>1, PopStep
<1>2. ASSUME NEW r \in Requests, AcquireEmpty(r) \/ DialFail(r)
      PROVE  PoolInv' /\ LeaseInv'
  BY <1>2, QuietStep DEF AcquireEmpty, DialFail, Holds, TypeOK, pool
<1>3. ASSUME NEW r \in Requests, DialOK(r) PROVE PoolInv' /\ LeaseInv'
  BY <1>3, DialStep
<1>4. ASSUME NEW r \in Requests, WriteOK(r) \/ ReadOK(r)
      PROVE  PoolInv' /\ LeaseInv'
  BY <1>4, QuietStep DEF WriteOK, ReadOK, Holds, TypeOK, pool
<1>5. ASSUME NEW r \in Requests, WriteFail(r) \/ ReadFail(r)
      PROVE  PoolInv' /\ LeaseInv'
  <2>1. Holds(r)
    BY <1>5 DEF WriteFail, ReadFail, Holds
  <2>2. /\ sock' = [sock EXCEPT ![conn[r]] = "closed"]
        /\ UNCHANGED <<head, next, conn>>
    BY <1>5 DEF WriteFail, ReadFail, GiveUp, pool
  <2>3. \/ pc' = [pc EXCEPT ![r] = "acquire"]
        \/ pc' = [pc EXCEPT ![r] = "failed"]
    BY <1>5 DEF WriteFail, ReadFail, GiveUp
  <2>4. ~Holds(r)' /\ \A s \in Requests : Holds(s)' => Holds(s)
    BY <2>3 DEF Holds, TypeOK
  <2> QED BY <2>1, <2>2, <2>4, DiscardStep
<1>6. ASSUME NEW r \in Requests, BodyRead(r) \/ LateRead(r) \/ Expire(r)
      PROVE  PoolInv' /\ LeaseInv'
  BY <1>6, QuietStep DEF BodyRead, LateRead, Expire, Holds, TypeOK, pool
<1>7. ASSUME NEW r \in Requests, BodyEOF(r) PROVE PoolInv' /\ LeaseInv'
  BY <1>7, PushStep
<1>8. ASSUME NEW r \in Requests, BodyError(r) \/ Close(r)
      PROVE  PoolInv' /\ LeaseInv'
  <2>1. CASE Done(r)
    BY <1>8, <2>1, QuietStep DEF BodyError, Close, finish, Done, Holds, TypeOK, pool
  <2>2. CASE ~Done(r)
    <3>1. Holds(r)
      BY <1>8, <2>2 DEF BodyError, Close, Holds
    <3>2. /\ sock' = [sock EXCEPT ![conn[r]] = "closed"]
          /\ UNCHANGED <<head, next, conn>>
      BY <1>8, <2>2 DEF BodyError, Close, finish, Discard, pool
    <3>3. ~Holds(r)' /\ \A s \in Requests : Holds(s)' => Holds(s)
      BY <1>8 DEF BodyError, Close, Holds, TypeOK
    <3> QED BY <3>1, <3>2, <3>3, DiscardStep
  <2> QED BY <2>1, <2>2
<1>9. ASSUME NEW c \in Conns, ServerExecute(c) \/ PeerDrop(c)
      PROVE  PoolInv' /\ LeaseInv'
  BY <1>9, QuietStep DEF ServerExecute, PeerDrop, Holds, pool
<1>10. CASE CloseIdleConnections
  BY <1>10, CloseIdleStep
<1>11. CASE UNCHANGED vars
  BY <1>11, QuietStep DEF vars, Holds
<1> QED
  BY <1>1, <1>2, <1>3, <1>4, <1>5, <1>6, <1>7, <1>8, <1>9, <1>10, <1>11
     DEF Next, Progress

(* The invariant the step lemmas are about.                                *)
IInv == TypeOK /\ PoolInv /\ LeaseInv

(* It holds in the initial state.                                          *)
LEMMA InitInv == Init => IInv
<1> SUFFICES ASSUME Init PROVE IInv
  OBVIOUS
<1> USE NoneAssumption
<1>1. <<>> \in Seq(Requests)
  OBVIOUS
<1>2. TypeOK
  BY <1>1 DEF Init, TypeOK
<1>3. \A c \in Conns : ~Linked(c)
  BY DEF Init, Linked
<1>4. PoolInv /\ LeaseInv
  BY <1>3 DEF Init, PoolInv, LeaseInv, Holds
<1> QED BY <1>2, <1>4 DEF IInv

(* Every step keeps it.                                                    *)
LEMMA InvStep == IInv /\ [Next]_vars => IInv'
BY TypeStep, LeaseStep DEF IInv

(* So every reachable state satisfies it.                                  *)
THEOREM Invariance == Spec => []IInv
BY InitInv, InvStep, PTL DEF Spec

(* Every variable of the transport keeps its type.                         *)
THEOREM Typing == Spec => []TypeOK
<1>1. IInv => TypeOK
  BY DEF IInv
<1> QED BY <1>1, Invariance, PTL

(* However requests interleave, retry and close, a connection in use is    *)
(* used by one request and cannot be popped by another.                    *)
THEOREM Exclusion == Spec => []ExclusiveUse
<1>1. IInv => ExclusiveUse
  BY DEF IInv, LeaseInv, ExclusiveUse
<1> QED BY <1>1, Invariance, PTL

(* No request finds the connection it holds closed by anyone else.         *)
THEOREM Openness == Spec => []HeldIsOpen
<1>1. IInv => HeldIsOpen
  BY DEF IInv, LeaseInv, HeldIsOpen
<1> QED BY <1>1, Invariance, PTL

-----------------------------------------------------------------------------
(* What is on the wire *)

(* Steps that move no bytes, pool nothing and advance no exchange.         *)
LEMMA WireQuiet ==
    ASSUME WireInv, UNCHANGED <<sent, replies>>,
           \A c \in Conns : sock'[c] = "unborn" => sock[c] = "unborn",
           \A c \in Conns : sock'[c] = "open" /\ Linked(c)' => sock[c] = "open" /\ Linked(c),
           \A r \in Requests : Holds(r)' => pc'[r] = pc[r] /\ conn'[r] = conn[r]
    PROVE  WireInv'
<1>1. \A c \in Conns : Empty(c)' <=> Empty(c)
  BY DEF Empty
<1>2. \A r \in Requests : pc'[r] = "send" => Empty(conn[r])'
  BY DEF WireInv, Holds, Empty
<1>3. \A r \in Requests : pc'[r] = "await" => Answering(conn[r], r)' \/ Asking(conn[r], r)'
  BY ZenonT(30) DEF WireInv, Holds, Answering, Asking
<1>4. \A r \in Requests : pc'[r] = "body" => Answering(conn[r], r)'
  BY DEF WireInv, Holds, Answering
<1> QED BY <1>1, <1>2, <1>3, <1>4 DEF WireInv

(* A step of the holder of a connection that leaves every other wire as it *)
(* was, and every other request where it was.                              *)
LEMMA WireOfHolder ==
    ASSUME LeaseInv, WireInv, NEW r \in Requests, Holds(r),
           UNCHANGED <<sock, conn>>,
           \A c \in Conns : c # conn[r] => sent'[c] = sent[c] /\ replies'[c] = replies[c],
           \A c \in Conns : c # conn[r] => (Linked(c)' => Linked(c)),
           \A s \in Requests : s # r => pc'[s] = pc[s],
           Linked(conn[r])' => Empty(conn[r])',
           pc'[r] = "send" => Empty(conn[r])',
           pc'[r] = "await" => Answering(conn[r], r)' \/ Asking(conn[r], r)',
           pc'[r] = "body" => Answering(conn[r], r)'
    PROVE  WireInv'
<1>1. conn[r] \in Conns /\ sock[conn[r]] = "open"
  BY DEF LeaseInv
<1>2. \A s \in Requests : s # r /\ Holds(s) => conn[s] \in Conns /\ conn[s] # conn[r]
  BY DEF LeaseInv
<1>3. \A c \in Conns : c # conn[r] => (Empty(c)' <=> Empty(c))
  BY DEF Empty
<1>4. \A c \in Conns : sock'[c] = "unborn" => Empty(c)'
  BY <1>1, <1>3 DEF WireInv
<1>5. ASSUME NEW c \in Conns, sock'[c] = "open", Linked(c)' PROVE Empty(c)'
  <2>1. CASE c = conn[r]
    BY <1>5, <2>1 DEF Linked, Empty
  <2>2. CASE c # conn[r]
    BY <1>3, <1>5, <2>2 DEF WireInv
  <2> QED BY <2>1, <2>2
<1>6. ASSUME NEW s \in Requests
      PROVE  /\ pc'[s] = "send" => Empty(conn[s])'
             /\ pc'[s] = "await" => Answering(conn[s], s)' \/ Asking(conn[s], s)'
             /\ pc'[s] = "body" => Answering(conn[s], s)'
  <2>1. CASE s = r
    BY <2>1
  <2>2. CASE s # r /\ Holds(s)
    BY <1>2, <2>2 DEF WireInv, Empty, Answering, Asking
  <2>3. CASE s # r /\ ~Holds(s)
    BY <2>3 DEF Holds
  <2> QED BY <2>1, <2>2, <2>3
<1> QED BY <1>4, <1>5, <1>6 DEF WireInv

(* Every step keeps the wires clean: a connection comes to a request with  *)
(* nothing under way on it, and goes back the same.                        *)
LEMMA WireStep == IInv /\ WireInv /\ [Next]_vars => WireInv'
<1> SUFFICES ASSUME TypeOK, PoolInv, LeaseInv, WireInv, [Next]_vars PROVE WireInv'
  BY DEF IInv
<1> USE NoneAssumption
<1>1. ASSUME NEW r \in Requests, AcquirePooled(r) PROVE WireInv'
  <2>1. PICK h \in Conns : h = head /\ sock[h] = "open" /\ Linked(h)
    BY <1>1 DEF AcquirePooled, TypeOK, PoolInv, Linked
  <2>2. /\ conn' = [conn EXCEPT ![r] = h]
        /\ pc' = [pc EXCEPT ![r] = "send"]
        /\ next' = [next EXCEPT ![h] = None]
        /\ head' = next[h]
        /\ UNCHANGED <<sock, sent, replies>>
    BY <1>1, <2>1 DEF AcquirePooled, Unlink, wire
  <2>3. Empty(h)
    BY <2>1 DEF WireInv
  <2>4. \A c \in Conns : (Linked(c)' => Linked(c)) /\ (Empty(c)' <=> Empty(c))
    BY <2>2 DEF Linked, Empty, TypeOK
  <2>5. pc'[r] = "send" /\ conn'[r] = h
    BY <2>2 DEF TypeOK
  <2>6. \A s \in Requests : s # r => pc'[s] = pc[s] /\ conn'[s] = conn[s]
    BY <2>2 DEF TypeOK
  <2>7. ASSUME NEW s \in Requests
        PROVE  /\ pc'[s] = "send" => Empty(conn[s])'
               /\ pc'[s] = "await" => Answering(conn[s], s)' \/ Asking(conn[s], s)'
               /\ pc'[s] = "body" => Answering(conn[s], s)'
    <3>1. CASE s = r
      BY <2>2, <2>3, <2>5, <3>1 DEF Empty
    <3>2. CASE s # r
      BY <2>2, <2>6, <3>2 DEF WireInv, Empty, Answering, Asking
    <3> QED BY <3>1, <3>2
  <2> QED BY <2>2, <2>4, <2>7 DEF WireInv
<1>2. ASSUME NEW r \in Requests, AcquireEmpty(r) \/ DialFail(r) PROVE WireInv'
  BY <1>2, WireQuiet DEF AcquireEmpty, DialFail, Holds, Linked, TypeOK, pool, wire
<1>3. ASSUME NEW r \in Requests, DialOK(r) PROVE WireInv'
  <2>1. PICK n \in Conns : n = NewConn /\ sock[n] = "unborn"
    BY <1>3 DEF DialOK, NewConn, Dialable
  <2>2. /\ conn' = [conn EXCEPT ![r] = n]
        /\ pc' = [pc EXCEPT ![r] = "send"]
        /\ sock' = [sock EXCEPT ![n] = "open"]
        /\ UNCHANGED <<head, next, sent, replies>>
    BY <1>3, <2>1 DEF DialOK, pool, wire
  <2>3. Empty(n) /\ ~Linked(n)
    BY <2>1 DEF WireInv, PoolInv
  <2>4. \A c \in Conns : /\ Linked(c)' <=> Linked(c)
                         /\ Empty(c)' <=> Empty(c)
                         /\ c # n => sock'[c] = sock[c]
    BY <2>2 DEF Linked, Empty, TypeOK
  <2>5. pc'[r] = "send" /\ conn'[r] = n /\ sock'[n] = "open"
    BY <2>2 DEF TypeOK
  <2>6. \A s \in Requests : s # r => pc'[s] = pc[s] /\ conn'[s] = conn[s]
    BY <2>2 DEF TypeOK
  <2>7. ASSUME NEW s \in Requests
        PROVE  /\ pc'[s] = "send" => Empty(conn[s])'
               /\ pc'[s] = "await" => Answering(conn[s], s)' \/ Asking(conn[s], s)'
               /\ pc'[s] = "body" => Answering(conn[s], s)'
    <3>1. CASE s = r
      BY <2>2, <2>3, <2>5, <3>1 DEF Empty
    <3>2. CASE s # r
      BY <2>2, <2>6, <3>2 DEF WireInv, Empty, Answering, Asking
    <3> QED BY <3>1, <3>2
  <2>8. \A c \in Conns : sock'[c] = "unborn" => Empty(c)'
    BY <2>4, <2>5 DEF WireInv
  <2>9. \A c \in Conns : sock'[c] = "open" /\ Linked(c)' => Empty(c)'
    BY <2>3, <2>4 DEF WireInv
  <2> QED BY <2>7, <2>8, <2>9 DEF WireInv
<1>4. ASSUME NEW r \in Requests, WriteOK(r) PROVE WireInv'
  <2>1. Holds(r) /\ conn[r] \in Conns /\ Empty(conn[r]) /\ ~Linked(conn[r])
    BY <1>4 DEF WriteOK, Holds, LeaseInv, WireInv
  <2>2. pc'[r] = "await" /\ \A s \in Requests : s # r => pc'[s] = pc[s]
    BY <1>4 DEF WriteOK, TypeOK
  <2>3. UNCHANGED <<head, next, sock, conn, replies>>
    BY <1>4 DEF WriteOK, pool
  <2>4. sent' = sent \/ sent' = [sent EXCEPT ![conn[r]] = Append(sent[conn[r]], r)]
    BY <1>4 DEF WriteOK
  <2>5. \A c \in Conns : c # conn[r] => sent'[c] = sent[c]
    BY <2>4 DEF TypeOK
  <2>6. sent'[conn[r]] = <<>> \/ sent'[conn[r]] = <<r>>
    BY <2>1, <2>4 DEF TypeOK, Empty
  <2>7. Answering(conn[r], r)' \/ Asking(conn[r], r)'
    BY <2>1, <2>3, <2>6 DEF Answering, Asking, Empty
  <2> QED BY <2>1, <2>2, <2>3, <2>5, <2>7, WireOfHolder DEF Linked
<1>5. ASSUME NEW r \in Requests, WriteFail(r) \/ ReadFail(r) PROVE WireInv'
  <2>1. UNCHANGED <<head, next, conn, sent, replies>>
    BY <1>5 DEF WriteFail, ReadFail, pool, wire
  <2>2. sock' = [sock EXCEPT ![conn[r]] = "closed"]
    BY <1>5 DEF WriteFail, ReadFail, GiveUp
  <2>3. \/ pc' = [pc EXCEPT ![r] = "acquire"]
        \/ pc' = [pc EXCEPT ![r] = "failed"]
    BY <1>5 DEF WriteFail, ReadFail, GiveUp
  <2> QED BY <2>1, <2>2, <2>3, WireQuiet DEF Holds, Linked, TypeOK
<1>6. ASSUME NEW r \in Requests, ReadOK(r) PROVE WireInv'
  <2>1. Holds(r) /\ ~Linked(conn[r]) /\ replies[conn[r]] # <<>>
    BY <1>6 DEF ReadOK, Holds, LeaseInv
  <2>2. Answering(conn[r], r)
    BY <1>6, <2>1 DEF ReadOK, WireInv, Asking
  <2>3. pc'[r] = "body" /\ \A s \in Requests : s # r => pc'[s] = pc[s]
    BY <1>6 DEF ReadOK, TypeOK
  <2>4. UNCHANGED <<head, next, sock, conn, sent, replies>>
    BY <1>6 DEF ReadOK, pool, wire
  <2> QED BY <2>1, <2>2, <2>3, <2>4, WireOfHolder DEF Answering, Linked
<1>7. ASSUME NEW r \in Requests, BodyRead(r) \/ LateRead(r) \/ Expire(r) PROVE WireInv'
  BY <1>7, WireQuiet DEF BodyRead, LateRead, Expire, Holds, Linked, TypeOK, pool, wire
<1>8. ASSUME NEW r \in Requests, BodyEOF(r) PROVE WireInv'
  <2>1. PICK c \in Conns : c = conn[r] /\ Answering(c, r) /\ replies[c] # <<>>
    BY <1>8 DEF BodyEOF, Holds, LeaseInv, WireInv
  <2>2. Holds(r)
    BY <1>8 DEF BodyEOF, Holds
  <2>3. pc'[r] = "finished" /\ \A s \in Requests : s # r => pc'[s] = pc[s]
    BY <1>8 DEF BodyEOF, TypeOK
  <2>4. UNCHANGED <<sock, conn, sent>> /\ replies' = [replies EXCEPT ![c] = Tail(replies[c])]
    BY <1>8, <2>1 DEF BodyEOF, finish, Done
  <2>5. replies[c] = <<r>> /\ sent[c] = <<>>
    BY <2>1 DEF Answering
  <2>6. Tail(<<r>>) = <<>>
    OBVIOUS
  <2>7. replies'[c] = <<>> /\ sent'[c] = <<>>
    BY <2>4, <2>5, <2>6 DEF TypeOK
  <2>8. Empty(conn[r])'
    BY <2>1, <2>4, <2>7 DEF Empty
  <2>9. \A d \in Conns : d # c => sent'[d] = sent[d] /\ replies'[d] = replies[d]
    BY <2>4 DEF TypeOK
  <2>10. \A d \in Conns : d # c => (Linked(d)' => Linked(d))
    <3>1. Release(c)
      BY <1>8, <2>1 DEF BodyEOF, finish, Done
    <3> QED BY <3>1 DEF Release, Linked, TypeOK, pool
  <2> QED BY <2>1, <2>2, <2>3, <2>4, <2>8, <2>9, <2>10, WireOfHolder
<1>9. ASSUME NEW r \in Requests, BodyError(r) \/ Close(r) PROVE WireInv'
  <2>1. UNCHANGED <<head, next, conn, sent, replies>>
    BY <1>9 DEF BodyError, Close, finish, Discard, Release, pool, wire
  <2>2. sock' = sock \/ sock' = [sock EXCEPT ![conn[r]] = "closed"]
    BY <1>9 DEF BodyError, Close, finish, Discard
  <2>3. \/ pc' = [pc EXCEPT ![r] = "finished"]
        \/ pc' = [pc EXCEPT ![r] = "closed"]
    BY <1>9 DEF BodyError, Close
  <2> QED BY <2>1, <2>2, <2>3, WireQuiet DEF Holds, Linked, TypeOK
<1>10. ASSUME NEW c \in Conns, ServerExecute(c) PROVE WireInv'
  <2>1. UNCHANGED <<head, next, sock, conn, pc>> /\ sent[c] # <<>>
    BY <1>10 DEF ServerExecute, pool
  <2>2. /\ sent' = [sent EXCEPT ![c] = Tail(sent[c])]
        /\ replies' = [replies EXCEPT ![c] = Append(replies[c], Head(sent[c]))]
    BY <1>10 DEF ServerExecute
  <2>3. \A d \in Conns : d # c => sent'[d] = sent[d] /\ replies'[d] = replies[d]
    BY <2>2 DEF TypeOK
  <2>4. \A d \in Conns : Empty(d) => d # c
    BY <2>1 DEF Empty
  <2>5. ASSUME NEW r \in Requests, Asking(c, r) PROVE Answering(c, r)'
    <3>1. sent[c] = <<r>> /\ replies[c] = <<>>
      BY <2>5 DEF Asking
    <3>2. Tail(<<r>>) = <<>> /\ Append(<<>>, Head(<<r>>)) = <<r>>
      OBVIOUS
    <3>3. sent'[c] = <<>> /\ replies'[c] = <<r>>
      BY <2>2, <3>1, <3>2 DEF TypeOK
    <3> QED BY <3>3 DEF Answering
  <2>6. \A r \in Requests : pc'[r] = "send" => Empty(conn[r])'
    BY <2>1, <2>3, <2>4 DEF WireInv, LeaseInv, Holds, Empty
  <2>7. ASSUME NEW r \in Requests, pc'[r] = "await"
        PROVE  Answering(conn[r], r)' \/ Asking(conn[r], r)'
    <3>1. conn[r] \in Conns /\ (Answering(conn[r], r) \/ Asking(conn[r], r))
      BY <2>1, <2>7 DEF WireInv, LeaseInv, Holds
    <3>2. CASE conn[r] = c
      BY <2>1, <2>5, <3>1, <3>2 DEF Answering
    <3>3. CASE conn[r] # c
      BY <2>1, <2>3, <3>1, <3>3 DEF Answering, Asking
    <3> QED BY <3>2, <3>3
  <2>8. \A r \in Requests : pc'[r] = "body" => Answering(conn[r], r)'
    BY <2>1, <2>3 DEF WireInv, LeaseInv, Holds, Answering
  <2>9. \A d \in Conns : Linked(d)' <=> Linked(d)
    BY <2>1 DEF Linked
  <2>10. \A d \in Conns : Empty(d) => Empty(d)'
    BY <2>3, <2>4 DEF Empty
  <2> QED BY <2>1, <2>6, <2>7, <2>8, <2>9, <2>10 DEF WireInv
<1>11. ASSUME NEW c \in Conns, PeerDrop(c) PROVE WireInv'
  <2>1. UNCHANGED <<head, next, sock, conn, pc>>
    BY <1>11 DEF PeerDrop, pool
  <2>2. /\ sent' = [sent EXCEPT ![c] = <<>>]
        /\ replies' = replies \/ replies' = [replies EXCEPT ![c] = <<>>]
    BY <1>11 DEF PeerDrop
  <2>3. \A d \in Conns : /\ sent'[d] = sent[d] \/ sent'[d] = <<>>
                         /\ replies'[d] = replies[d] \/ replies'[d] = <<>>
    BY <2>2 DEF TypeOK
  <2>4. \A d \in Conns : Empty(d) => Empty(d)'
    BY <2>3 DEF Empty
  <2>5. \A d \in Conns : Linked(d)' <=> Linked(d)
    BY <2>1 DEF Linked
  <2>6. \A r \in Requests : Holds(r) => conn[r] \in Conns
    BY DEF LeaseInv
  <2>7. \A r \in Requests : pc'[r] = "send" => Empty(conn[r])'
    BY <2>1, <2>3, <2>6 DEF WireInv, Holds, Empty
  <2>8. \A r \in Requests : pc'[r] = "await" => Answering(conn[r], r)' \/ Asking(conn[r], r)'
    BY <2>1, <2>3, <2>6 DEF WireInv, Holds, Answering, Asking
  <2>9. \A r \in Requests : pc'[r] = "body" => Answering(conn[r], r)'
    BY <2>1, <2>3, <2>6 DEF WireInv, Holds, Answering
  <2> QED BY <2>1, <2>4, <2>5, <2>7, <2>8, <2>9 DEF WireInv
<1>12. CASE CloseIdleConnections
  <2>1. UNCHANGED <<next, conn, pc, sent, replies>> /\ head' = None
    BY <1>12 DEF CloseIdleConnections, ForgetPool, wire
  <2>2. \A c \in Conns : sock'[c] = sock[c] \/ sock'[c] = "closed"
    BY <1>12 DEF CloseIdleConnections
  <2> QED BY <2>1, <2>2, WireQuiet DEF Linked
<1>13. CASE UNCHANGED vars
  BY <1>13, WireQuiet DEF vars, Linked
<1> QED
  BY <1>1, <1>2, <1>3, <1>4, <1>5, <1>6, <1>7, <1>8, <1>9, <1>10, <1>11, <1>12,
     <1>13 DEF Next, Progress

(* The answer RoundTrip hands out on a connection that may have served     *)
(* others is the answer to the request just written.                       *)
THEOREM AnswerMatches == Spec => []AnswerIsMine
<1>1. Init => IInv /\ WireInv /\ AnswerIsMine
  BY InitInv DEF Init, WireInv, AnswerIsMine, Empty, Answering
<1>2. IInv /\ WireInv /\ AnswerIsMine /\ [Next]_vars => AnswerIsMine'
  <2> SUFFICES ASSUME TypeOK, LeaseInv, WireInv, AnswerIsMine, [Next]_vars
               PROVE  AnswerIsMine'
    BY DEF IInv
  <2>1. CASE got' = got
    BY <2>1 DEF AnswerIsMine
  <2>2. ASSUME NEW r \in Requests, ReadOK(r) PROVE AnswerIsMine'
    <3>1. replies[conn[r]] = <<r>>
      BY <2>2 DEF ReadOK, WireInv, Answering, Asking
    <3>2. Head(<<r>>) = r
      OBVIOUS
    <3>3. got' = [got EXCEPT ![r] = r]
      BY <2>2, <3>1, <3>2 DEF ReadOK
    <3> QED BY <3>3 DEF AnswerIsMine, TypeOK
  <2>3. got' = got \/ \E r \in Requests : ReadOK(r)
    BY DEF Next, Progress, vars, call, AcquirePooled, AcquireEmpty, DialOK, DialFail,
           WriteOK, WriteFail, ReadFail, BodyRead, BodyEOF, BodyError, LateRead,
           Close, CloseIdleConnections, Expire, ServerExecute, PeerDrop
  <2> QED BY <2>1, <2>2, <2>3
<1> QED BY <1>1, <1>2, InvStep, WireStep, PTL DEF Spec

-----------------------------------------------------------------------------
(* Refinement *)

(* A step that pools, lends, opens and closes nothing is a stutter.        *)
LEMMA LeaseStutter ==
    ASSUME \A c \in Conns : Linked(c)' /\ sock'[c] = "open" <=> Linked(c) /\ sock[c] = "open",
           \A c \in Conns : sock'[c] = "unborn" <=> sock[c] = "unborn",
           \A r \in Requests : Holds(r)' <=> Holds(r),
           \A r \in Requests : Holds(r) => conn'[r] = conn[r]
    PROVE  UNCHANGED Lease!vars
<1>1. IdleConns' = IdleConns /\ OpenedConns' = OpenedConns /\ Leases' = Leases
  BY DEF IdleConns, OpenedConns, Leases
<1> QED BY <1>1 DEF Lease!vars

(* A holder that closes its connection drops the lease, and that is all.   *)
LEMMA LeaseDrop ==
    ASSUME TypeOK, LeaseInv, NEW r \in Requests, Holds(r),
           sock' = [sock EXCEPT ![conn[r]] = "closed"],
           UNCHANGED <<head, next, conn>>,
           ~Holds(r)', \A s \in Requests : s # r => (Holds(s)' <=> Holds(s))
    PROVE  Lease!Drop(r)
<1> USE NoneAssumption
<1>1. conn[r] \in Conns /\ sock[conn[r]] = "open" /\ ~Linked(conn[r])
  BY DEF LeaseInv
<1>2. \A c \in Conns : Linked(c)' <=> Linked(c)
  BY DEF Linked
<1>3. IdleConns' = IdleConns /\ OpenedConns' = OpenedConns
  BY <1>1, <1>2 DEF IdleConns, OpenedConns, TypeOK
<1>4. Leases[r] # None
  BY <1>1 DEF Leases
<1>5. Leases' = [Leases EXCEPT ![r] = None]
  BY DEF Leases
<1> QED BY <1>3, <1>4, <1>5 DEF Lease!Drop

(* Popping the head lends an idle connection.                              *)
LEMMA LeaseBorrow ==
    ASSUME TypeOK, PoolInv, LeaseInv, NEW r \in Requests, AcquirePooled(r)
    PROVE  \E c \in Conns : Lease!Borrow(r, c)
<1> USE NoneAssumption
<1>1. PICK h \in Conns : h = head /\ sock[h] = "open" /\ Linked(h)
  BY DEF AcquirePooled, TypeOK, PoolInv, Linked
<1>2. /\ conn' = [conn EXCEPT ![r] = h]
      /\ pc' = [pc EXCEPT ![r] = "send"]
      /\ pc[r] = "acquire"
      /\ next' = [next EXCEPT ![h] = None]
      /\ head' = next[h]
      /\ sock' = sock
  BY <1>1 DEF AcquirePooled, Unlink
<1>3. next'[h] = None /\ \A d \in Conns : d # h => next'[d] = next[d]
  BY <1>2 DEF TypeOK
<1>4. ~Linked(h)'
  BY <1>1, <1>2, <1>3 DEF Linked, PoolInv
<1>5. ASSUME NEW d \in Conns, d # h PROVE Linked(d)' <=> Linked(d)
  BY <1>1, <1>2, <1>3, <1>5 DEF Linked
<1>6. IdleConns' = IdleConns \ {h} /\ h \in IdleConns
  BY <1>1, <1>2, <1>4, <1>5 DEF IdleConns
<1>7. OpenedConns' = OpenedConns
  BY <1>2 DEF OpenedConns
<1>8. Leases' = [Leases EXCEPT ![r] = h] /\ Leases[r] = None
  BY <1>2 DEF Leases, Holds, TypeOK
<1> QED BY <1>6, <1>7, <1>8 DEF Lease!Borrow

(* A successful dial opens a connection nobody has had.                    *)
LEMMA LeaseOpen ==
    ASSUME TypeOK, PoolInv, LeaseInv, NEW r \in Requests, DialOK(r)
    PROVE  \E c \in Conns : Lease!Open(r, c)
<1> USE NoneAssumption
<1>1. PICK n \in Conns : n = NewConn /\ sock[n] = "unborn"
  BY DEF DialOK, NewConn, Dialable
<1>2. /\ conn' = [conn EXCEPT ![r] = n]
      /\ pc' = [pc EXCEPT ![r] = "send"]
      /\ pc[r] = "dial"
      /\ sock' = [sock EXCEPT ![n] = "open"]
      /\ UNCHANGED <<head, next>>
  BY <1>1 DEF DialOK, pool
<1>3. \A c \in Conns : Linked(c)' <=> Linked(c)
  BY <1>2 DEF Linked
<1>4. ~Linked(n)
  BY <1>1 DEF PoolInv
<1>5. IdleConns' = IdleConns
  BY <1>2, <1>3, <1>4 DEF IdleConns, TypeOK
<1>6. OpenedConns' = OpenedConns \union {n} /\ n \notin OpenedConns
  BY <1>1, <1>2 DEF OpenedConns, TypeOK
<1>7. Leases' = [Leases EXCEPT ![r] = n] /\ Leases[r] = None
  BY <1>2 DEF Leases, Holds, TypeOK
<1> QED BY <1>5, <1>6, <1>7 DEF Lease!Open

(* A clean end of the body returns the connection to the idle set.         *)
LEMMA LeaseReturn ==
    ASSUME TypeOK, PoolInv, LeaseInv, NEW r \in Requests, BodyEOF(r)
    PROVE  Lease!Return(r)
<1> USE NoneAssumption
<1>1. PICK c \in Conns : c = conn[r] /\ sock[c] = "open" /\ ~Linked(c)
  BY DEF BodyEOF, LeaseInv, Holds
<1>2. next[c] = None
  BY <1>1 DEF PoolInv
<1>3. /\ head' = c
      /\ next' = [next EXCEPT ![c] = head]
      /\ UNCHANGED <<sock, conn>>
      /\ pc' = [pc EXCEPT ![r] = "finished"]
      /\ pc[r] = "body"
  BY <1>1, <1>2 DEF BodyEOF, finish, Done, Release
<1>4. next'[c] = head /\ \A d \in Conns : d # c => next'[d] = next[d]
  BY <1>3 DEF TypeOK
<1>5. ASSUME NEW d \in Conns, d # c PROVE Linked(d)' <=> Linked(d)
  <2>1. (\E e \in Conns : next'[e] = d) <=> (d = head \/ \E e \in Conns : next[e] = d)
    BY <1>2, <1>4
  <2> QED BY <2>1, <1>3, <1>5 DEF Linked
<1>6. Linked(c)'
  BY <1>3 DEF Linked
<1>7. IdleConns' = IdleConns \union {c}
  BY <1>1, <1>3, <1>5, <1>6 DEF IdleConns
<1>8. OpenedConns' = OpenedConns
  BY <1>3 DEF OpenedConns
<1>9. Leases' = [Leases EXCEPT ![r] = None] /\ Leases[r] = c
  BY <1>1, <1>3 DEF Leases, Holds, TypeOK
<1> QED BY <1>7, <1>8, <1>9 DEF Lease!Return

(* CloseIdleConnections empties the idle set.                              *)
LEMMA LeaseFlush == ASSUME PoolInv, CloseIdleConnections PROVE Lease!Flush
<1>1. /\ UNCHANGED <<next, conn, pc>> /\ head' = None
      /\ sock' = [c \in Conns |-> IF Linked(c) THEN "closed" ELSE sock[c]]
  BY DEF CloseIdleConnections, ForgetPool
<1>2. \A c \in Conns : Linked(c)' => c = None \/ Linked(c)
  BY <1>1 DEF Linked
<1>3. IdleConns' = {}
  BY <1>1, <1>2, NoneAssumption DEF IdleConns
<1>4. Leases' = Leases
  BY <1>1 DEF Leases, Holds
<1>5. OpenedConns' = OpenedConns
  BY <1>1 DEF OpenedConns, PoolInv
<1> QED BY <1>3, <1>4, <1>5 DEF Lease!Flush

(* Every step of the transport is a step of ConnLease or a stutter.        *)
LEMMA RefinementStep == IInv /\ [Next]_vars => [Lease!Next]_(Lease!vars)
<1> SUFFICES ASSUME TypeOK, PoolInv, LeaseInv, [Next]_vars
             PROVE  Lease!Next \/ UNCHANGED Lease!vars
  BY DEF IInv
<1>1. ASSUME NEW r \in Requests, AcquirePooled(r) PROVE Lease!Next
  BY <1>1, LeaseBorrow DEF Lease!Next
<1>2. ASSUME NEW r \in Requests, DialOK(r) PROVE Lease!Next
  BY <1>2, LeaseOpen DEF Lease!Next
<1>3. ASSUME NEW r \in Requests, BodyEOF(r) PROVE Lease!Next
  BY <1>3, LeaseReturn DEF Lease!Next
<1>4. CASE CloseIdleConnections
  BY <1>4, LeaseFlush DEF Lease!Next
<1>5. ASSUME NEW r \in Requests, WriteFail(r) \/ ReadFail(r) PROVE Lease!Next
  <2>1. Holds(r)
    BY <1>5 DEF WriteFail, ReadFail, Holds
  <2>2. /\ sock' = [sock EXCEPT ![conn[r]] = "closed"]
        /\ UNCHANGED <<head, next, conn>>
    BY <1>5 DEF WriteFail, ReadFail, GiveUp, pool
  <2>3. \/ pc' = [pc EXCEPT ![r] = "acquire"]
        \/ pc' = [pc EXCEPT ![r] = "failed"]
    BY <1>5 DEF WriteFail, ReadFail, GiveUp
  <2>4. ~Holds(r)' /\ \A s \in Requests : s # r => (Holds(s)' <=> Holds(s))
    BY <2>3 DEF Holds, TypeOK
  <2> QED BY <2>1, <2>2, <2>4, LeaseDrop DEF Lease!Next
<1>6. ASSUME NEW r \in Requests, BodyError(r) \/ Close(r)
      PROVE  Lease!Next \/ UNCHANGED Lease!vars
  <2>1. CASE Done(r)
    BY <1>6, <2>1, LeaseStutter
       DEF BodyError, Close, finish, Done, Holds, Linked, TypeOK, pool
  <2>2. CASE ~Done(r)
    <3>1. Holds(r)
      BY <1>6, <2>2 DEF BodyError, Close, Holds
    <3>2. /\ sock' = [sock EXCEPT ![conn[r]] = "closed"]
          /\ UNCHANGED <<head, next, conn>>
      BY <1>6, <2>2 DEF BodyError, Close, finish, Discard, pool
    <3>3. ~Holds(r)' /\ \A s \in Requests : s # r => (Holds(s)' <=> Holds(s))
      BY <1>6 DEF BodyError, Close, Holds, TypeOK
    <3> QED BY <3>1, <3>2, <3>3, LeaseDrop DEF Lease!Next
  <2> QED BY <2>1, <2>2
<1>7. ASSUME NEW r \in Requests,
             \/ AcquireEmpty(r) \/ DialFail(r) \/ WriteOK(r) \/ ReadOK(r)
             \/ BodyRead(r) \/ LateRead(r) \/ Expire(r)
      PROVE  UNCHANGED Lease!vars
  <2>1. UNCHANGED <<head, next, sock, conn>>
    BY <1>7 DEF AcquireEmpty, DialFail, WriteOK, ReadOK, BodyRead, LateRead, Expire, pool
  <2>2. \A s \in Requests : Holds(s)' <=> Holds(s)
    BY <1>7 DEF AcquireEmpty, DialFail, WriteOK, ReadOK, BodyRead, LateRead, Expire,
                Holds, TypeOK
  <2> QED BY <2>1, <2>2, LeaseStutter DEF Linked
<1>8. ASSUME NEW c \in Conns, ServerExecute(c) \/ PeerDrop(c)
      PROVE  UNCHANGED Lease!vars
  BY <1>8, LeaseStutter DEF ServerExecute, PeerDrop, Holds, Linked, pool
<1>9. CASE UNCHANGED vars
  BY <1>9, LeaseStutter DEF vars, Holds, Linked
<1> QED
  BY <1>1, <1>2, <1>3, <1>4, <1>5, <1>6, <1>7, <1>8, <1>9 DEF Next, Progress

(* The linked list, the sockets and the retry loop implement ConnLease.    *)
THEOREM Refinement == Spec => Implements
<1>1. Init => Lease!Init
  <2> SUFFICES ASSUME Init PROVE Lease!Init
    OBVIOUS
  <2>1. IdleConns = {} /\ OpenedConns = {} /\ Leases = [r \in Requests |-> None]
    BY NoneAssumption DEF Init, IdleConns, OpenedConns, Leases, Holds, Linked
  <2> QED BY <2>1 DEF Lease!Init
<1> QED BY <1>1, InitInv, InvStep, RefinementStep, PTL DEF Spec, Implements, Lease!Spec
=============================================================================
