------------------------------ MODULE Transport ------------------------------
(***************************************************************************)
(* internal/upstream/transport.go: the keep-alive connection pool and the  *)
(* life of a request on it.  Goroutines run RoundTrip and then read the    *)
(* response body; the pool is an intrusive linked list (head, next) under  *)
(* Transport.mu; the peer answers, or drops the connection, when it likes. *)
(* One upstream host, the only one the proxy dials, so one pool.           *)
(***************************************************************************)
EXTENDS Naturals, Sequences, FiniteSets

CONSTANTS Requests,   \* calls of RoundTrip, each with its own context deadline
          Conns,      \* bound: connections that can be dialed in a behaviour
          None        \* a nil pointer, or no answer

ASSUME NoneAssumption == None \notin Conns /\ None \notin Requests
ASSUME ConnsAssumption == IsFiniteSet(Conns)

VARIABLES
    head,       \* Transport.pooled[addr]
    next,       \* pooledConn.next
    sock,       \* our end of a connection
    peer,       \* the server's end
    sent,       \* requests the server has received and not yet executed
    replies,    \* answers on the wire, oldest first
    junk,       \* connections with undelivered bytes of an earlier answer
    deadline,   \* whose deadline the connection carries (None: the idle one)
    expired,    \* requests whose deadline has passed
    pc,         \* where the goroutine of a request is
    conn,       \* the pooledConn of the current attempt, and of bodyCloser
    attempt,    \* RoundTrip's loop variable
    fresh,      \* by attempt: was the connection dialed for it?
    got,        \* whose answer RoundTrip returned
    executed    \* how many times the server executed a request

pool == <<head, next>>
wire == <<peer, sent, replies, executed>>
call == <<attempt, fresh, got>>
vars == <<head, next, sock, peer, sent, replies, junk, deadline, expired,
          pc, conn, attempt, fresh, got, executed>>

\* Between acquire and the end of the body the connection is the request's.
Holds(r) == pc[r] \in {"send", "await", "body"}

Linked(c) == c = head \/ \E d \in Conns : next[d] = c

Dialable == {c \in Conns : sock[c] = "unborn"}
NewConn == CHOOSE c \in Dialable : TRUE

Init ==
    /\ head = None
    /\ next = [c \in Conns |-> None]
    /\ sock = [c \in Conns |-> "unborn"]
    /\ peer = [c \in Conns |-> "up"]
    /\ sent = [c \in Conns |-> <<>>]
    /\ replies = [c \in Conns |-> <<>>]
    /\ junk = {}
    /\ deadline = [c \in Conns |-> None]
    /\ expired = {}
    /\ pc = [r \in Requests |-> "acquire"]
    /\ conn = [r \in Requests |-> None]
    /\ attempt = [r \in Requests |-> 0]
    /\ fresh = [r \in Requests |-> [a \in 0..1 |-> TRUE]]
    /\ got = [r \in Requests |-> None]
    /\ executed = [r \in Requests |-> 0]

-----------------------------------------------------------------------------
(* acquire *)

\* A popped connection leaves the list for good: release tests its next.
AcquireLeavesNext == UNCHANGED next

Unlink == next' = [next EXCEPT ![head] = None]

\* The locked section: pop the head of the pool ...
AcquirePooled(r) ==
    /\ pc[r] = "acquire"
    /\ head # None
    /\ head' = next[head]
    /\ Unlink
    /\ conn' = [conn EXCEPT ![r] = head]
    /\ fresh' = [fresh EXCEPT ![r][attempt[r]] = FALSE]
    /\ pc' = [pc EXCEPT ![r] = "send"]
    /\ UNCHANGED <<sock, wire, junk, deadline, expired, attempt, got>>

\* ... or find it empty and dial with the lock released.
AcquireEmpty(r) ==
    /\ pc[r] = "acquire"
    /\ head = None
    /\ pc' = [pc EXCEPT ![r] = "dial"]
    /\ UNCHANGED <<pool, sock, wire, junk, deadline, expired, conn, call>>

DialOK(r) ==
    /\ pc[r] = "dial"
    /\ r \notin expired
    /\ Dialable # {}
    /\ sock' = [sock EXCEPT ![NewConn] = "open"]
    /\ conn' = [conn EXCEPT ![r] = NewConn]
    /\ fresh' = [fresh EXCEPT ![r][attempt[r]] = TRUE]
    /\ deadline' = [deadline EXCEPT ![NewConn] = r]
    /\ pc' = [pc EXCEPT ![r] = "send"]
    /\ UNCHANGED <<pool, wire, junk, expired, attempt, got>>

\* TCP, ClientHello, handshake or ALPN failure: acquire has closed the raw
\* connection and RoundTrip returns without another attempt.
DialFail(r) ==
    /\ pc[r] = "dial"
    /\ pc' = [pc EXCEPT ![r] = "failed"]
    /\ UNCHANGED <<pool, sock, wire, junk, deadline, expired, conn, call>>

-----------------------------------------------------------------------------
(* exchange *)

ExchangeKeepsDeadline(r) == UNCHANGED deadline
ExchangeClearsDeadline(r) == deadline' = [deadline EXCEPT ![conn[r]] = None]

SetDeadline(r) == deadline' = [deadline EXCEPT ![conn[r]] = r]

GiveUpKeepsTrying(r, notSent) ==
    /\ sock' = [sock EXCEPT ![conn[r]] = "closed"]
    /\ \/ /\ notSent
          /\ attempt' = [attempt EXCEPT ![r] = @ + 1]
          /\ pc' = [pc EXCEPT ![r] = "acquire"]
       \/ /\ ~notSent
          /\ UNCHANGED attempt
          /\ pc' = [pc EXCEPT ![r] = "failed"]

\* The tail of RoundTrip's loop after a failed exchange.
GiveUp(r, notSent) ==
    /\ sock' = [sock EXCEPT ![conn[r]] = "closed"]
    /\ \/ /\ notSent /\ attempt[r] = 0
          /\ attempt' = [attempt EXCEPT ![r] = 1]
          /\ pc' = [pc EXCEPT ![r] = "acquire"]
       \/ /\ ~(notSent /\ attempt[r] = 0)
          /\ UNCHANGED attempt
          /\ pc' = [pc EXCEPT ![r] = "failed"]

\* A write the kernel accepts reaches the server only if its end is there.
WriteOK(r) == LET c == conn[r] IN
    /\ pc[r] = "send"
    /\ r \notin expired
    /\ SetDeadline(r)
    /\ sent' = IF peer[c] = "up" THEN [sent EXCEPT ![c] = Append(@, r)] ELSE sent
    /\ pc' = [pc EXCEPT ![r] = "await"]
    /\ UNCHANGED <<pool, sock, peer, replies, executed, junk, expired, conn, call>>

WriteFail(r) ==
    /\ pc[r] = "send"
    /\ r \in expired \/ peer[conn[r]] = "gone"
    /\ SetDeadline(r)
    /\ GiveUp(r, TRUE)
    /\ UNCHANGED <<pool, wire, junk, expired, conn, fresh, got>>

ReadOK(r) == LET c == conn[r] IN
    /\ pc[r] = "await"
    /\ replies[c] # <<>>
    /\ c \notin junk
    /\ got' = [got EXCEPT ![r] = Head(replies[c])]
    /\ pc' = [pc EXCEPT ![r] = "body"]
    /\ UNCHANGED <<pool, sock, wire, junk, deadline, expired, conn, attempt, fresh>>

TimedOut(c) == deadline[c] \in expired

RetriesAnyRead(r) == TRUE

\* Only a pooled connection can have gone stale before the request.
MayBeStale(r) == ~fresh[r][attempt[r]]

\* An I/O error leaves br empty; bytes that do not parse may be left in it.
ReadFail(r) == LET c == conn[r] IN
    /\ pc[r] = "await"
    /\ TimedOut(c) \/ peer[c] = "gone" \/ c \in junk
    /\ \E drained \in IF c \in junk THEN BOOLEAN ELSE {TRUE} :
           GiveUp(r, drained /\ MayBeStale(r))
    /\ UNCHANGED <<pool, wire, junk, deadline, expired, conn, fresh, got>>

-----------------------------------------------------------------------------
(* bodyCloser and release *)

\* release: push under the lock, unless the connection is already linked.
Release(c) ==
    \/ next[c] # None /\ UNCHANGED <<pool, deadline>>
    \/ /\ next[c] = None
       /\ next' = [next EXCEPT ![c] = head]
       /\ head' = c
       /\ deadline' = [deadline EXCEPT ![c] = None]

Discard(c) == /\ sock' = [sock EXCEPT ![c] = "closed"]
              /\ UNCHANGED <<pool, deadline>>

\* bodyCloser.done: the connection has been released or closed.
Done(r) == pc[r] \in {"finished", "reread"}

FinishIgnoresDone(r, clean) ==
    \/ clean /\ Release(conn[r]) /\ UNCHANGED sock
    \/ ~clean /\ Discard(conn[r])

FinishAlwaysReleases(r, clean) ==
    \/ Done(r) /\ UNCHANGED <<pool, sock, deadline>>
    \/ ~Done(r) /\ Release(conn[r]) /\ UNCHANGED sock

FinishReleasesAgain(r, clean) ==
    \/ (clean \/ Done(r)) /\ Release(conn[r]) /\ UNCHANGED sock
    \/ ~clean /\ ~Done(r) /\ Discard(conn[r])

finish(r, clean) ==
    \/ Done(r) /\ UNCHANGED <<pool, sock, deadline>>
    \/ ~Done(r) /\ clean /\ Release(conn[r]) /\ UNCHANGED sock
    \/ ~Done(r) /\ ~clean /\ Discard(conn[r])

\* Read refreshes the deadline, then waits for data.
BodyRead(r) ==
    /\ pc[r] = "body"
    /\ SetDeadline(r)
    /\ UNCHANGED <<pool, sock, wire, junk, expired, pc, conn, call>>

\* Clean EOF.  A decoder may report it before the last chunk is consumed, and
\* then the connection is pooled with that tail unread.
BodyEOF(r) == LET c == conn[r] IN
    /\ pc[r] = "body"
    /\ replies[c] # <<>>
    /\ replies' = [replies EXCEPT ![c] = Tail(@)]
    /\ junk' \in {junk, junk \union {c}}
    /\ finish(r, TRUE)
    /\ pc' = [pc EXCEPT ![r] = "finished"]
    /\ UNCHANGED <<peer, sent, executed, expired, conn, call>>

BodyError(r) ==
    /\ pc[r] = "body"
    /\ TimedOut(conn[r]) \/ peer[conn[r]] = "gone"
    /\ finish(r, FALSE)
    /\ pc' = [pc EXCEPT ![r] = "finished"]
    /\ UNCHANGED <<wire, junk, expired, conn, call>>

\* The line reader asks for more after an unterminated last line: Read sets
\* the deadline although the connection has been released.
LateRead(r) ==
    /\ pc[r] = "finished"
    /\ SetDeadline(r)
    /\ pc' = [pc EXCEPT ![r] = "reread"]
    /\ UNCHANGED <<pool, sock, wire, junk, expired, conn, call>>

\* The caller's Close, in the middle of the body or after it.
Close(r) ==
    /\ pc[r] = "body" \/ Done(r)
    /\ finish(r, FALSE)
    /\ pc' = [pc EXCEPT ![r] = "closed"]
    /\ UNCHANGED <<wire, junk, expired, conn, call>>

CloseIdleKeepsMap == UNCHANGED head

ForgetPool == head' = None

CloseIdleConnections ==
    /\ head # None
    /\ sock' = [c \in Conns |-> IF Linked(c) THEN "closed" ELSE sock[c]]
    /\ ForgetPool
    /\ UNCHANGED <<next, wire, junk, deadline, expired, pc, conn, call>>

-----------------------------------------------------------------------------
(* Time and the server *)

Expire(r) ==
    /\ r \notin expired
    /\ expired' = expired \union {r}
    /\ UNCHANGED <<pool, sock, wire, junk, deadline, pc, conn, call>>

\* The server executes the oldest request it has received and answers.
ServerExecute(c) == LET r == Head(sent[c]) IN
    /\ peer[c] = "up"
    /\ sent[c] # <<>>
    /\ executed' = [executed EXCEPT ![r] = @ + 1]
    /\ sent' = [sent EXCEPT ![c] = Tail(@)]
    /\ replies' = [replies EXCEPT ![c] = Append(@, r)]
    /\ UNCHANGED <<pool, sock, peer, junk, deadline, expired, pc, conn, call>>

\* The server's end goes away, with or without the answers under way.
PeerDrop(c) ==
    /\ sock[c] # "unborn"
    /\ peer[c] = "up"
    /\ peer' = [peer EXCEPT ![c] = "gone"]
    /\ sent' = [sent EXCEPT ![c] = <<>>]
    /\ replies' \in {replies, [replies EXCEPT ![c] = <<>>]}
    /\ UNCHANGED <<pool, sock, executed, junk, deadline, expired, pc, conn, call>>

-----------------------------------------------------------------------------

\* Steps the goroutine takes without waiting for the server's good will.
Progress(r) ==
    \/ AcquirePooled(r) \/ AcquireEmpty(r) \/ DialOK(r) \/ DialFail(r)
    \/ WriteOK(r) \/ WriteFail(r) \/ ReadOK(r) \/ ReadFail(r)
    \/ BodyError(r) \/ (Done(r) /\ Close(r))

Next ==
    \/ \E r \in Requests :
          Progress(r) \/ BodyRead(r) \/ BodyEOF(r) \/ Close(r)
                      \/ LateRead(r) \/ Expire(r)
    \/ \E c \in Conns : ServerExecute(c) \/ PeerDrop(c)
    \/ CloseIdleConnections

Spec == Init /\ [][Next]_vars

\* Goroutines are scheduled and clocks advance; the server owes us nothing.
FairSpec == Spec /\ \A r \in Requests : WF_vars(Progress(r)) /\ WF_vars(Expire(r))

-----------------------------------------------------------------------------
(* Properties *)

\* Every variable has its type.
TypeOK ==
    /\ head \in Conns \union {None}
    /\ next \in [Conns -> Conns \union {None}]
    /\ sock \in [Conns -> {"unborn", "open", "closed"}]
    /\ peer \in [Conns -> {"up", "gone"}]
    /\ sent \in [Conns -> Seq(Requests)]
    /\ replies \in [Conns -> Seq(Requests)]
    /\ junk \in SUBSET Conns
    /\ deadline \in [Conns -> Requests \union {None}]
    /\ expired \in SUBSET Requests
    /\ pc \in [Requests -> {"acquire", "dial", "send", "await", "body",
                            "finished", "reread", "closed", "failed"}]
    /\ conn \in [Requests -> Conns \union {None}]
    /\ attempt \in [Requests -> 0..1]
    /\ fresh \in [Requests -> [0..1 -> BOOLEAN]]
    /\ got \in [Requests -> Requests \union {None}]
    /\ executed \in [Requests -> Nat]

\* A connection that a request is writing to or reading from is in no other
\* request's hands and not in the pool: acquire's pop under the lock and
\* release's push keep the two apart, whatever was retried or closed.
ExclusiveUse ==
    \A r \in Requests : Holds(r) =>
        /\ conn[r] \in Conns
        /\ ~Linked(conn[r])
        /\ \A s \in Requests : Holds(s) /\ conn[s] = conn[r] => s = r

\* Following next from head: the connection after n steps.
Hop[n \in 0..Cardinality(Conns)] ==
    IF n = 0 THEN head
    ELSE IF Hop[n - 1] = None THEN None ELSE next[Hop[n - 1]]

\* The list ends, and what acquire can pop is what was opened and neither
\* leased nor closed: release never hides, duplicates or revives a connection.
PoolIsIdleSet ==
    /\ Hop[Cardinality(Conns)] = None
    /\ {Hop[n] : n \in 0..Cardinality(Conns)} \ {None} =
       {c \in Conns : sock[c] = "open" /\ \A r \in Requests : Holds(r) => conn[r] # c}

\* A request works on a connection that is open on our side until it closes
\* it itself: nobody else's Close, and no second Close, takes it away.
HeldIsOpen == \A r \in Requests : Holds(r) => sock[conn[r]] = "open"

\* RoundTrip returns the answer to its own request, never the unread answer
\* of whoever used the connection before.
AnswerIsMine == \A r \in Requests : got[r] \in {None, r}

\* The server executes a request again only after a first attempt on a pooled
\* connection: a request first sent on a fresh one is executed at most once.
RepeatOnlyOverPool ==
    \A r \in Requests : /\ executed[r] <= 2
                        /\ executed[r] = 2 => ~fresh[r][0]

\* A wait for the server is cut short by the request's own deadline, or by
\* that of a request that read once more after its end of file.
WaitHasDeadline ==
    \A r \in Requests : pc[r] \in {"await", "body"} =>
        LET d == deadline[conn[r]] IN
        d = r \/ (d # None /\ pc[d] \in {"reread", "closed"})

\* The comment above RoundTrip's loop: "a retry is only safe when the request
\* provably never reached the server".  So no request is executed twice.
NeverExecutedTwice == \A r \in Requests : executed[r] <= 1

\* A caller told of failure has nothing open left behind, and one that got an
\* answer got it whole or closed the connection: every request ends.
Termination == \A r \in Requests : <>(pc[r] \in {"closed", "failed"})

IdleConns == {c \in Conns : Linked(c) /\ sock[c] = "open"}
Leases == [r \in Requests |-> IF Holds(r) THEN conn[r] ELSE None]
OpenedConns == {c \in Conns : sock[c] # "unborn"}

\* The transport keeps the promises of ConnLease.
Lease == INSTANCE ConnLease WITH
    idle <- IdleConns, lease <- Leases, opened <- OpenedConns

Implements == Lease!Spec
=============================================================================
