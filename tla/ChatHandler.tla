----------------------------- MODULE ChatHandler -----------------------------
(***************************************************************************)
(* Proxy.HandleChatCompletions, from the client's request to its reply,    *)
(* beside the beacon: early refusals, the start of the beacon, the wait at *)
(* the gate, up to maxAttempts calls with a backoff between them, and the  *)
(* mapping of the last answer.  Clients may go away at any moment.         *)
(***************************************************************************)
EXTENDS Beacon

CONSTANTS Handlers, maxAttempts, None

ASSUME HandlerAssumption == maxAttempts \in Nat \ {0}

VARIABLES
    serverKey,   \* an API key is configured: main starts the beacon itself
    pc,          \* where a handler is
    cancelled,   \* the client's context is done
    passed,      \* which branch of awaitBeacon's select let it through
    attempt,     \* the retry loop's variable
    sent,        \* its present call has put the request on a connection
    ccResp,      \* ccResp and callErr: the outcome of its last call
    body,        \* it has a response body it has not closed
    reply        \* status written to the client

handlerVars == <<pc, cancelled, passed, attempt, sent, ccResp, body, reply>>
vars == <<beaconVars, pooled, serverKey, handlerVars>>

\* An answer: its status, and the throttle class of its body.
CallError == [status |-> 0, class |-> "api_error"]
Success == [status |-> 200, class |-> "api_error"]
Answers == {Success, CallError}
           \union [status : {304, 400, 499, 500}, class : {"api_error", "rate_limit_error"}]

ASSUME NoneAssumption == None \notin Nat \union Answers

Init ==
    /\ serverKey \in BOOLEAN
    /\ InitBeacon(serverKey)
    /\ pooled = FALSE
    /\ pc = [h \in Handlers |-> "start"]
    /\ cancelled = [h \in Handlers |-> FALSE]
    /\ passed = [h \in Handlers |-> "no"]
    /\ attempt = [h \in Handlers |-> 0]
    /\ sent = [h \in Handlers |-> FALSE]
    /\ ccResp = [h \in Handlers |-> None]
    /\ body = [h \in Handlers |-> FALSE]
    /\ reply = [h \in Handlers |-> None]

Goto(h, label) == pc' = [pc EXCEPT ![h] = label]

Refuse(h, status) ==
    /\ reply' = [reply EXCEPT ![h] = status]
    /\ Goto(h, "returned")

\* A wrong method and a missing key are refused before the beacon is started.
RefuseEarly(h) ==
    /\ pc[h] = "start"
    /\ \/ Refuse(h, 405)
       \/ ~serverKey /\ Refuse(h, 401)
    /\ UNCHANGED <<beaconVars, pooled, serverKey, cancelled, passed, attempt, sent,
                   ccResp, body>>

\* With a key the beacon is started; then the body cannot be read, is not
\* JSON or has no messages, or the upstream request is built.
Accept(h) ==
    /\ pc[h] = "start"
    /\ StartBeacon
    /\ \/ Refuse(h, 400)
       \/ Goto(h, "gate") /\ UNCHANGED reply
    /\ UNCHANGED <<pooled, serverKey, cancelled, passed, attempt, sent, ccResp, body>>

\* The select.  Its timer may be the first to fire.
awaitBeacon(h) ==
    /\ pc[h] = "gate"
    /\ \/ gateClosed /\ passed' = [passed EXCEPT ![h] = "gate"]
       \/ passed' = [passed EXCEPT ![h] = "timer"]
       \/ cancelled[h] /\ passed' = [passed EXCEPT ![h] = "cancelled"]
    /\ Goto(h, "call")
    /\ UNCHANGED <<beaconVars, pooled, serverKey, cancelled, attempt, sent, ccResp,
                   body, reply>>

\* A cancelled request still goes out on an idle connection.
CallUpstream(h) ==
    /\ pc[h] = "call"
    /\ sent' = [sent EXCEPT ![h] = CanSend(cancelled[h])]
    /\ IF CanSend(cancelled[h]) THEN TakeConn ELSE UNCHANGED pooled
    /\ Goto(h, "answer")
    /\ UNCHANGED <<beaconVars, serverKey, cancelled, passed, attempt, ccResp, body,
                   reply>>

RetryAnything(h, a) == a.status # 200 /\ attempt[h] < maxAttempts - 1

Retriable(h, a) == a.status >= 500 /\ attempt[h] < maxAttempts - 1

LeaveOpen(h) == body' = [body EXCEPT ![h] = TRUE]

CloseForRetry(h) == body' = [body EXCEPT ![h] = FALSE]

\* An answer, or the failure of the call, at the client's deadline at the latest.
Answer(h) ==
    /\ pc[h] = "answer"
    /\ \E a \in Answers :
          /\ a # CallError => sent[h]
          /\ ccResp' = [ccResp EXCEPT ![h] = a]
          /\ \/ /\ Retriable(h, a)
                /\ CloseForRetry(h)
                /\ attempt' = [attempt EXCEPT ![h] = @ + 1]
                /\ Goto(h, "backoff")
                /\ UNCHANGED reply
             \/ /\ ~Retriable(h, a) /\ a # CallError
                /\ body' = [body EXCEPT ![h] = TRUE]
                /\ Goto(h, "respond")
                /\ UNCHANGED <<attempt, reply>>
             \/ /\ ~Retriable(h, a) /\ a = CallError
                /\ Refuse(h, 502)
                /\ UNCHANGED <<attempt, body>>
    /\ sent' = [sent EXCEPT ![h] = FALSE]
    /\ UNCHANGED <<beaconVars, pooled, serverKey, cancelled, passed>>

Backoff(h) ==
    /\ pc[h] = "backoff"
    /\ \/ Goto(h, "call")
       \/ cancelled[h] /\ Goto(h, "returned")
    /\ UNCHANGED <<beaconVars, pooled, serverKey, cancelled, passed, attempt, sent,
                   ccResp, body, reply>>

StatusFirst(a) ==
    IF a.status \in 400..499 THEN a.status
    ELSE IF a.class # "api_error" THEN 429 ELSE 502

\* The status for an answer that is not a 200.
ErrorStatus(a) ==
    IF a.class # "api_error" THEN 429
    ELSE IF a.status \in 400..499 THEN a.status ELSE 502

\* The error reply, or StreamResponse or NonStreamResponse, which collects and
\* may find an error event; then the deferred Close ends the body, read to its
\* end or not.
Respond(h) ==
    /\ pc[h] = "respond"
    /\ \/ ccResp[h] = Success
          /\ \E status \in {200, 429, 502} : Refuse(h, status)
       \/ ccResp[h] # Success
          /\ Refuse(h, ErrorStatus(ccResp[h]))
    /\ body' = [body EXCEPT ![h] = FALSE]
    /\ PutConn
    /\ UNCHANGED <<beaconVars, serverKey, cancelled, passed, attempt, sent, ccResp>>

\* The client goes away.  It is noticed at the gate, at a dial and in a backoff.
ClientGone(h) ==
    /\ pc[h] \in {"gate", "call", "backoff"}
    /\ ~cancelled[h]
    /\ cancelled' = [cancelled EXCEPT ![h] = TRUE]
    /\ UNCHANGED <<beaconVars, pooled, serverKey, pc, passed, attempt, sent, ccResp,
                   body, reply>>

HandlerNext(h) ==
    \/ RefuseEarly(h) \/ Accept(h) \/ awaitBeacon(h) \/ CallUpstream(h) \/ Answer(h)
    \/ Backoff(h) \/ Respond(h)

Beaconing == BeaconNext /\ UNCHANGED <<serverKey, handlerVars>>

Next == Beaconing \/ \E h \in Handlers : HandlerNext(h) \/ ClientGone(h)

Spec == Init /\ [][Next]_vars

\* Goroutines run, timers fire, and a call returns by its deadline.
FairSpec == Spec /\ WF_vars(Beaconing) /\ \A h \in Handlers : WF_vars(HandlerNext(h))

-----------------------------------------------------------------------------
(* Properties *)

\* Every variable has its type.
TypeOK ==
    /\ beaconPc \in {"off", "step", "answer", "sleep", "returned"}
    /\ step \in 1..4 /\ round \in 1..beaconAttempts
    /\ settled \subseteq Steps /\ arrived \subseteq Steps
    /\ beaconOnce \in BOOLEAN /\ gateClosed \in BOOLEAN /\ serverKey \in BOOLEAN
    /\ pooled \in BOOLEAN
    /\ pc \in [Handlers -> {"start", "gate", "call", "answer", "backoff", "respond",
                            "returned"}]
    /\ passed \in [Handlers -> {"no", "gate", "timer", "cancelled"}]
    /\ cancelled \in [Handlers -> BOOLEAN] /\ body \in [Handlers -> BOOLEAN]
    /\ sent \in [Handlers -> BOOLEAN]
    /\ attempt \in [Handlers -> 0..(maxAttempts - 1)]
    /\ ccResp \in [Handlers -> Answers \union {None}]
    /\ reply \in [Handlers -> {None, 200, 400, 401, 405, 429, 499, 502}]

Born == \A k \in {Whoami, Lifecycle} : k \in arrived \/ round = beaconAttempts

\* handler_test.go: the beacon is "strictly ordered before the first
\* generate".  A handler that saw the gate closed sends its generate only after
\* every birth event has arrived or every round has been spent on it.
BornBeforeGenerate ==
    \A h \in Handlers : sent[h] /\ passed[h] = "gate" => Born

\* However many requests start it, the beacon runs once: a step that has
\* succeeded stays so and is not sent again, nothing is sent after the gate is
\* closed, and the gate stays closed.
BeaconRunsOnce ==
    [][LET Sends == beaconPc = "step" /\ beaconPc' = "answer" IN
       /\ settled \subseteq settled'
       /\ Sends => step' \notin settled /\ ~gateClosed
       /\ gateClosed => gateClosed' /\ beaconPc' = "returned"]_vars

\* A handler calls again only after an upstream 5xx, never after a success, a
\* refusal or a transport error.
RetriesOnlyServerErrors ==
    \A h \in Handlers : pc[h] \in {"backoff", "call", "answer"} =>
        IF attempt[h] = 0 THEN ccResp[h] = None
        ELSE ccResp[h] # None /\ ccResp[h].status >= 500

\* No handler makes a call or returns while it still has a body open, so each
\* connection it took has gone back to the pool or been closed.
BodiesAreClosed ==
    \A h \in Handlers : pc[h] \in {"backoff", "call", "returned"} => ~body[h]

\* The client is told what the last answer said: throttling is a 429 whatever
\* its status, other client errors pass through, everything else that is not a
\* success is a 502; without a reply it has gone away during a backoff.
ReplyFitsAnswer ==
    \A h \in Handlers : pc[h] = "returned" /\ ccResp[h] # None =>
        LET a == ccResp[h] IN
        /\ reply[h] = 200 => a.status = 200
        /\ a.status # 200 /\ a.class = "rate_limit_error" => reply[h] \in {429, None}
        /\ a.status \in 400..499 /\ a.class = "api_error" => reply[h] = a.status
        /\ a.status \in {0, 304, 500} /\ a.class = "api_error" => reply[h] \in {502, None}
        /\ reply[h] = None => cancelled[h] /\ a.status >= 500

\* Every request is answered or abandoned by its client, and a beacon that
\* starts opens the way sooner or later, whether or not it got through.
EveryoneIsServed ==
    /\ \A h \in Handlers : pc[h] # "start" ~> pc[h] = "returned"
    /\ beaconOnce ~> gateClosed

\* The comment above awaitBeacon: "no generate ever reaches the server before
\* its own birth events"; "the timeout only bounds pathological network stalls".
\* So only the timeout can let a generate overtake them.
OnlyTimeoutOvertakes ==
    \A h \in Handlers : sent[h] /\ passed[h] # "timer" => Born
=============================================================================
