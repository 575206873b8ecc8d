---------------------------- MODULE HandlerProofs ----------------------------
(***************************************************************************)
(* What TLAPS proves of Beacon.tla and ChatHandler.tla, for any number of  *)
(* handlers, attempts and rounds: types, the gate, the beacon's single     *)
(* run, retries, open bodies and replies.                                  *)
(***************************************************************************)
EXTENDS ChatHandler, TLAPS

(* What the beacon has settled has arrived, except the fingerprint it may  *)
(* not have to send; the gate closes when it returns, and it returns when  *)
(* everything is settled or the rounds are used up.                        *)
BeaconInv ==
    /\ \A k \in {Whoami, Lifecycle} : k \in settled => k \in arrived
    /\ beaconPc = "answer" => step \in Steps
    /\ gateClosed <=> beaconPc = "returned"
    /\ gateClosed => settled = Steps \/ round = beaconAttempts
    /\ ~beaconOnce => beaconPc = "off"

(* Where a handler is tells what it has: no answer before its first call,  *)
(* a 5xx before a further one, an open body only while it responds, and no *)
(* reply until it returns.                                                 *)
HandlerInv(h) ==
    /\ passed[h] = "gate" => gateClosed
    /\ pc[h] \in {"start", "gate"} => attempt[h] = 0
    /\ pc[h] = "backoff" => attempt[h] # 0
    /\ pc[h] \in {"start", "gate", "call", "answer", "backoff"} =>
          /\ attempt[h] = 0 => ccResp[h] = None
          /\ attempt[h] # 0 => ccResp[h] # None /\ ccResp[h].status >= 500
    /\ body[h] = TRUE => pc[h] = "respond"
    /\ pc[h] = "respond" => ccResp[h] \in Answers \ {CallError}
    /\ pc[h] # "returned" => reply[h] = None

Fits(h) ==
    pc[h] = "returned" /\ ccResp[h] # None =>
        LET a == ccResp[h] IN
        /\ reply[h] = 200 => a.status = 200
        /\ a.status # 200 /\ a.class = "rate_limit_error" => reply[h] \in {429, None}
        /\ a.status \in 400..499 /\ a.class = "api_error" => reply[h] = a.status
        /\ a.status \in {0, 304, 500} /\ a.class = "api_error" => reply[h] \in {502, None}
        /\ reply[h] = None => cancelled[h] /\ a.status >= 500

IInv == TypeOK /\ BeaconInv /\ \A h \in Handlers : HandlerInv(h) /\ Fits(h)

-----------------------------------------------------------------------------
(* Initially nothing has been sent, answered or opened.                    *)
LEMMA Initially == Init => IInv
<1> SUFFICES ASSUME Init PROVE IInv
  OBVIOUS
<1>1. 0 \in 0..(maxAttempts - 1) /\ 1 \in 1..beaconAttempts /\ 1 \in 1..4
  BY AttemptsAssumption, HandlerAssumption
<1>2. settled \subseteq {Fingerprint} /\ {Fingerprint} \subseteq Steps
  BY DEF Init, InitBeacon, Steps
<1>3. TypeOK
  BY <1>1, <1>2, ZenonT(30) DEF Init, InitBeacon, TypeOK, Whoami
<1>4. BeaconInv
  <2>1. Whoami \notin settled /\ Lifecycle \notin settled
    BY <1>2 DEF Whoami, Lifecycle, Fingerprint
  <2>2. ~gateClosed /\ beaconPc \in {"step", "off"} /\ (~beaconOnce => beaconPc = "off")
    BY DEF Init, InitBeacon
  <2> QED BY <2>1, <2>2 DEF BeaconInv
<1>5. \A h \in Handlers : HandlerInv(h) /\ Fits(h)
  BY DEF Init, HandlerInv, Fits
<1> QED BY <1>3, <1>4, <1>5 DEF IInv

(* Every answer is a record with a status; the types of the answers.       *)
LEMMA AnswerTypes ==
    \A a \in Answers : /\ a.status \in {0, 200, 304, 400, 499, 500}
                       /\ a.class \in {"api_error", "rate_limit_error"}
                       /\ a.status = 200 => a = Success
                       /\ a.status = 0 => a = CallError
  BY DEF Answers, Success, CallError

(* A handler whose locals did not change keeps its part of the invariant,  *)
(* because a closed gate stays closed.                                     *)
LEMMA OthersKeep ==
    ASSUME NEW h \in Handlers, HandlerInv(h), Fits(h), gateClosed => gateClosed',
           pc'[h] = pc[h], cancelled'[h] = cancelled[h], passed'[h] = passed[h],
           attempt'[h] = attempt[h], ccResp'[h] = ccResp[h], body'[h] = body[h],
           reply'[h] = reply[h]
    PROVE  HandlerInv(h)' /\ Fits(h)'
  BY DEF HandlerInv, Fits

-----------------------------------------------------------------------------
(* The beacon *)

(* A round sends, settles and ends without losing what was settled.        *)
LEMMA BeaconStep ==
    ASSUME TypeOK, BeaconInv, BeaconNext
    PROVE  /\ BeaconInv'
           /\ gateClosed => gateClosed'
           /\ beaconPc' \in {"off", "step", "answer", "sleep", "returned"}
           /\ step' \in 1..4 /\ round' \in 1..beaconAttempts
           /\ settled' \subseteq Steps /\ arrived' \subseteq Steps
           /\ beaconOnce' \in BOOLEAN /\ gateClosed' \in BOOLEAN /\ pooled' \in BOOLEAN
<1> USE AttemptsAssumption DEF TypeOK, Steps, Whoami, Lifecycle, Fingerprint
<1>1. CASE BeaconSend
  <2>1. PICK k \in Steps : /\ step' = k
                           /\ arrived' \in {arrived, arrived \union {k}}
    BY <1>1 DEF BeaconSend, Pending
  <2>2. /\ beaconPc = "step" /\ beaconPc' = "answer" /\ pooled' \in BOOLEAN
        /\ UNCHANGED <<beaconOnce, round, settled, gateClosed>>
    BY <1>1, ZenonT(30) DEF BeaconSend, TakeConn
  <2>3. arrived \subseteq arrived' /\ arrived' \subseteq Steps
    BY <2>1
  <2>4. ~gateClosed /\ beaconOnce
    BY <2>2 DEF BeaconInv
  <2>5. BeaconInv'
    BY <2>1, <2>2, <2>3, <2>4 DEF BeaconInv
  <2> QED BY <2>1, <2>2, <2>3, <2>5
<1>2. CASE BeaconAnswer
  <2>1. /\ beaconPc = "answer" /\ beaconPc' = "step" /\ pooled' \in BOOLEAN
        /\ step' = step + 1
        /\ UNCHANGED <<beaconOnce, round, arrived, gateClosed>>
    BY <1>2, ZenonT(30) DEF BeaconAnswer, PutConn
  <2>2. /\ settled' \subseteq settled \union {step}
        /\ \A k \in settled' : k \in settled \/ k \in arrived
    BY <1>2 DEF BeaconAnswer
  <2>3. ~gateClosed /\ beaconOnce /\ step \in Steps
    BY <2>1 DEF BeaconInv
  <2>4. settled' \subseteq Steps
    BY <2>2, <2>3
  <2>5. \A k \in {Whoami, Lifecycle} : k \in settled' => k \in arrived
    BY <2>2 DEF BeaconInv
  <2>6. BeaconInv'
    BY <2>1, <2>3, <2>5 DEF BeaconInv
  <2> QED BY <2>1, <2>3, <2>4, <2>6
<1>3. CASE BeaconRoundEnds
  <2>1. beaconPc = "step" /\ UNCHANGED <<beaconOnce, settled, arrived, pooled>>
    BY <1>3 DEF BeaconRoundEnds
  <2>2. ~gateClosed /\ beaconOnce
    BY <2>1 DEF BeaconInv
  <2>3. CASE SequenceOver /\ CloseGate /\ beaconPc' = "returned" /\ UNCHANGED <<step, round>>
    <3>1. gateClosed' = TRUE
      BY <2>3 DEF CloseGate
    <3>2. settled' = Steps \/ round' = beaconAttempts
      BY <2>1, <2>3 DEF SequenceOver
    <3>3. BeaconInv'
      BY <2>1, <2>2, <2>3, <3>1, <3>2 DEF BeaconInv
    <3> QED BY <2>1, <2>3, <3>1, <3>3
  <2>4. CASE ~SequenceOver /\ round' = round + 1 /\ step' = Whoami /\ beaconPc' = "sleep"
             /\ UNCHANGED gateClosed
    <3>1. round' \in 1..beaconAttempts
      BY <2>4 DEF SequenceOver
    <3>2. BeaconInv'
      BY <2>1, <2>2, <2>4 DEF BeaconInv
    <3> QED BY <2>1, <2>4, <3>1, <3>2
  <2> QED BY <1>3, <2>3, <2>4 DEF BeaconRoundEnds
<1>4. CASE BeaconWake
  BY <1>4 DEF BeaconWake, BeaconInv
<1> QED BY <1>1, <1>2, <1>3, <1>4 DEF BeaconNext

(* The first accepted request starts the beacon, the others leave it.      *)
LEMMA StartStep ==
    ASSUME TypeOK, BeaconInv, StartBeacon
    PROVE  /\ BeaconInv'
           /\ gateClosed' = gateClosed
           /\ beaconPc' \in {"off", "step", "answer", "sleep", "returned"}
           /\ step' \in 1..4 /\ round' \in 1..beaconAttempts
           /\ settled' \subseteq Steps /\ arrived' \subseteq Steps
           /\ beaconOnce' \in BOOLEAN
<1>1. CASE beaconOnce /\ UNCHANGED beaconVars
  BY <1>1 DEF TypeOK, BeaconInv, beaconVars
<1>2. CASE /\ ~beaconOnce /\ beaconOnce' = TRUE /\ beaconPc' = "step"
           /\ UNCHANGED <<step, round, settled, arrived, gateClosed>>
  <2>1. ~gateClosed
    BY <1>2 DEF BeaconInv
  <2>2. BeaconInv'
    BY <1>2, <2>1 DEF BeaconInv
  <2> QED BY <1>2, <2>2 DEF TypeOK
<1> QED BY <1>1, <1>2 DEF StartBeacon

-----------------------------------------------------------------------------
(* The handlers *)

LEMMA RefuseEarlyKeeps == ASSUME IInv, NEW h \in Handlers, RefuseEarly(h) PROVE IInv'
<1>1. TypeOK' /\ BeaconInv'
  BY DEF IInv, TypeOK, BeaconInv, RefuseEarly, Refuse, Goto, beaconVars
<1>2. HandlerInv(h)' /\ Fits(h)'
  BY NoneAssumption DEF IInv, TypeOK, HandlerInv, Fits, RefuseEarly, Refuse, Goto, beaconVars
<1>3. \A i \in Handlers \ {h} : HandlerInv(i)' /\ Fits(i)'
  BY OthersKeep DEF IInv, TypeOK, RefuseEarly, Refuse, Goto, beaconVars
<1> QED BY <1>1, <1>2, <1>3 DEF IInv

LEMMA AcceptKeeps == ASSUME IInv, NEW h \in Handlers, Accept(h) PROVE IInv'
<1>1. TypeOK' /\ BeaconInv' /\ gateClosed' = gateClosed
  BY StartStep DEF IInv, TypeOK, Accept, Refuse, Goto
<1>2. HandlerInv(h)' /\ Fits(h)'
  BY <1>1, NoneAssumption DEF IInv, TypeOK, HandlerInv, Fits, Accept, Refuse, Goto
<1>3. \A i \in Handlers \ {h} : HandlerInv(i)' /\ Fits(i)'
  BY <1>1, OthersKeep DEF IInv, TypeOK, Accept, Refuse, Goto
<1> QED BY <1>1, <1>2, <1>3 DEF IInv

LEMMA AwaitKeeps == ASSUME IInv, NEW h \in Handlers, awaitBeacon(h) PROVE IInv'
<1>1. TypeOK' /\ BeaconInv' /\ gateClosed' = gateClosed
  BY DEF IInv, TypeOK, BeaconInv, awaitBeacon, Goto, beaconVars
<1>2. HandlerInv(h)' /\ Fits(h)'
  BY <1>1 DEF IInv, TypeOK, HandlerInv, Fits, awaitBeacon, Goto
<1>3. \A i \in Handlers \ {h} : HandlerInv(i)' /\ Fits(i)'
  BY <1>1, OthersKeep DEF IInv, TypeOK, awaitBeacon, Goto
<1> QED BY <1>1, <1>2, <1>3 DEF IInv

LEMMA CallKeeps == ASSUME IInv, NEW h \in Handlers, CallUpstream(h) PROVE IInv'
<1>0. pooled' \in BOOLEAN /\ CanSend(cancelled[h]) \in BOOLEAN
  BY ZenonT(30) DEF IInv, TypeOK, CallUpstream, CanSend, TakeConn
<1>1. TypeOK' /\ BeaconInv' /\ gateClosed' = gateClosed
  BY <1>0 DEF IInv, TypeOK, BeaconInv, CallUpstream, Goto, beaconVars
<1>2. HandlerInv(h)' /\ Fits(h)'
  BY <1>1 DEF IInv, TypeOK, HandlerInv, Fits, CallUpstream, Goto
<1>3. \A i \in Handlers \ {h} : HandlerInv(i)' /\ Fits(i)'
  BY <1>1, OthersKeep DEF IInv, TypeOK, CallUpstream, Goto
<1> QED BY <1>1, <1>2, <1>3 DEF IInv

(* After an answer: another attempt, the response, or the 502 of a failed  *)
(* call.                                                                   *)
LEMMA AnswerKeeps == ASSUME IInv, NEW h \in Handlers, Answer(h) PROVE IInv'
<1> USE HandlerAssumption, NoneAssumption
<1>1. PICK a \in Answers :
          /\ ccResp' = [ccResp EXCEPT ![h] = a]
          /\ \/ /\ Retriable(h, a)
                /\ CloseForRetry(h)
                /\ attempt' = [attempt EXCEPT ![h] = @ + 1]
                /\ Goto(h, "backoff")
                /\ UNCHANGED reply
             \/ /\ ~Retriable(h, a) /\ a # CallError
                /\ body' = [body EXCEPT ![h] = TRUE]
                /\ Goto(h, "respond")
                /\ UNCHANGED <<attempt, reply>>
             \/ /\ ~Retriable(h, a) /\ a = CallError
                /\ Refuse(h, 502)
                /\ UNCHANGED <<attempt, body>>
  BY DEF Answer
<1>2. /\ pc[h] = "answer" /\ sent' = [sent EXCEPT ![h] = FALSE]
      /\ UNCHANGED <<beaconVars, pooled, serverKey, cancelled, passed>>
  BY DEF Answer
<1>3. BeaconInv' /\ gateClosed' = gateClosed
  BY <1>2 DEF IInv, BeaconInv, beaconVars
<1>4. \A i \in Handlers \ {h} : HandlerInv(i)' /\ Fits(i)'
  BY <1>1, <1>2, <1>3, OthersKeep DEF IInv, TypeOK, Refuse, Goto, CloseForRetry
<1>5. CASE Retriable(h, a) /\ CloseForRetry(h) /\ Goto(h, "backoff") /\ UNCHANGED reply
           /\ attempt' = [attempt EXCEPT ![h] = @ + 1]
  <2>1. a.status >= 500 /\ attempt[h] \in 0..(maxAttempts - 1) /\ attempt[h] < maxAttempts - 1
    BY <1>5 DEF Retriable, IInv, TypeOK
  <2>2. TypeOK'
    BY <1>1, <1>2, <1>5, <2>1 DEF IInv, TypeOK, CloseForRetry, Goto, beaconVars
  <2>3. HandlerInv(h)' /\ Fits(h)'
    BY <1>1, <1>2, <1>3, <1>5, <2>1 DEF IInv, TypeOK, HandlerInv, Fits, CloseForRetry, Goto
  <2> QED BY <1>3, <1>4, <2>2, <2>3 DEF IInv
<1>6. CASE a # CallError /\ body' = [body EXCEPT ![h] = TRUE] /\ Goto(h, "respond")
           /\ UNCHANGED <<attempt, reply>>
  <2>1. TypeOK'
    BY <1>1, <1>2, <1>6 DEF IInv, TypeOK, Goto, beaconVars
  <2>2. HandlerInv(h)' /\ Fits(h)'
    BY <1>1, <1>2, <1>3, <1>6 DEF IInv, TypeOK, HandlerInv, Fits, Goto
  <2> QED BY <1>3, <1>4, <2>1, <2>2 DEF IInv
<1>7. CASE a = CallError /\ Refuse(h, 502) /\ UNCHANGED <<attempt, body>>
  <2>1. TypeOK'
    BY <1>1, <1>2, <1>7 DEF IInv, TypeOK, Refuse, Goto, beaconVars
  <2>2. HandlerInv(h)'
    BY <1>1, <1>2, <1>3, <1>7 DEF IInv, TypeOK, HandlerInv, Refuse, Goto
  <2>3. Fits(h)'
    BY <1>1, <1>2, <1>3, <1>7 DEF IInv, TypeOK, Fits, Refuse, Goto, CallError
  <2> QED BY <1>3, <1>4, <2>1, <2>2, <2>3 DEF IInv
<1> QED BY <1>1, <1>5, <1>6, <1>7

LEMMA BackoffKeeps == ASSUME IInv, NEW h \in Handlers, Backoff(h) PROVE IInv'
<1>1. TypeOK' /\ BeaconInv' /\ gateClosed' = gateClosed
  BY DEF IInv, TypeOK, BeaconInv, Backoff, Goto, beaconVars
<1>2. HandlerInv(h)'
  BY <1>1 DEF IInv, TypeOK, HandlerInv, Backoff, Goto
<1>3. ccResp[h] \in Answers /\ ccResp[h].status >= 500 /\ reply[h] = None
  BY DEF IInv, TypeOK, HandlerInv, Backoff
<1>4. ccResp[h].status = 500
  BY <1>3, AnswerTypes
<1>5. Fits(h)'
  <2>1. UNCHANGED <<ccResp, cancelled, reply>>
    BY DEF Backoff
  <2>2. pc'[h] = "call" \/ cancelled[h]
    BY DEF IInv, TypeOK, Backoff, Goto
  <2> QED BY <1>3, <1>4, <2>1, <2>2, NoneAssumption DEF Fits
<1>6. \A i \in Handlers \ {h} : HandlerInv(i)' /\ Fits(i)'
  BY <1>1, OthersKeep DEF IInv, TypeOK, Backoff, Goto
<1> QED BY <1>1, <1>2, <1>5, <1>6 DEF IInv

(* The status of an error reply, by the status and the class of the answer. *)
LEMMA ErrorStatuses ==
    ASSUME NEW a \in Answers
    PROVE  /\ ErrorStatus(a) \in {400, 429, 499, 502}
           /\ a.class = "rate_limit_error" => ErrorStatus(a) = 429
           /\ a.class = "api_error" /\ a.status \in 400..499 => ErrorStatus(a) = a.status
           /\ a.class = "api_error" /\ a.status \in {0, 304, 500} => ErrorStatus(a) = 502
           /\ a.status = 200 => ErrorStatus(a) = 502
<1>1. {400, 499} \subseteq 400..499 /\ \A status \in {0, 200, 304, 500} : status \notin 400..499
  OBVIOUS
<1>2. a.status = 200 => a.class = "api_error"
  BY AnswerTypes DEF Success
<1> QED BY <1>1, <1>2, AnswerTypes DEF ErrorStatus

LEMMA RespondKeeps == ASSUME IInv, NEW h \in Handlers, Respond(h) PROVE IInv'
<1> USE NoneAssumption
<1>1. PICK status \in {200, 400, 429, 499, 502} :
          /\ Refuse(h, status)
          /\ \/ ccResp[h] = Success
             \/ ccResp[h] # Success /\ status = ErrorStatus(ccResp[h])
  <2>1. CASE ccResp[h] = Success
    BY <2>1 DEF Respond
  <2>2. CASE ccResp[h] # Success
    <3>1. ccResp[h] \in Answers
      BY DEF IInv, HandlerInv, Respond
    <3> QED BY <2>2, <3>1, ErrorStatuses DEF Respond
  <2> QED BY <2>1, <2>2
<1>2. /\ pc[h] = "respond" /\ body' = [body EXCEPT ![h] = FALSE] /\ pooled' \in BOOLEAN
      /\ UNCHANGED <<beaconVars, serverKey, cancelled, passed, attempt, sent, ccResp>>
  BY ZenonT(30) DEF Respond, PutConn, IInv, TypeOK
<1>3. ccResp[h] \in Answers
  BY <1>2 DEF IInv, HandlerInv
<1>4. TypeOK' /\ BeaconInv' /\ gateClosed' = gateClosed
  BY <1>1, <1>2 DEF IInv, TypeOK, BeaconInv, Refuse, Goto, beaconVars
<1>5. HandlerInv(h)'
  BY <1>1, <1>2, <1>4 DEF IInv, TypeOK, HandlerInv, Refuse, Goto
<1>6. pc'[h] = "returned" /\ reply'[h] = status /\ ccResp'[h] = ccResp[h]
  BY <1>1, <1>2 DEF IInv, TypeOK, Refuse, Goto
<1>7. Fits(h)'
  <2>1. CASE ccResp[h] = Success
    BY <1>6, <2>1 DEF Fits, Success
  <2>2. CASE ccResp[h] # Success
    BY <1>1, <1>3, <1>6, <2>2, ErrorStatuses, AnswerTypes DEF Fits
  <2> QED BY <2>1, <2>2
<1>8. \A i \in Handlers \ {h} : HandlerInv(i)' /\ Fits(i)'
  <2>1. \A i \in Handlers \ {h} : pc'[i] = pc[i] /\ body'[i] = body[i] /\ reply'[i] = reply[i]
    BY <1>1, <1>2 DEF IInv, TypeOK, Refuse, Goto
  <2> QED BY <1>2, <1>4, <2>1, OthersKeep DEF IInv
<1> QED BY <1>4, <1>5, <1>7, <1>8 DEF IInv

LEMMA GoneKeeps == ASSUME IInv, NEW h \in Handlers, ClientGone(h) PROVE IInv'
<1>1. TypeOK' /\ BeaconInv' /\ gateClosed' = gateClosed
  BY DEF IInv, TypeOK, BeaconInv, ClientGone, beaconVars
<1>2. HandlerInv(h)' /\ Fits(h)'
  BY <1>1 DEF IInv, TypeOK, HandlerInv, Fits, ClientGone
<1>3. \A i \in Handlers \ {h} : HandlerInv(i)' /\ Fits(i)'
  <2>1. UNCHANGED <<pc, passed, attempt, ccResp, body, reply>>
    BY DEF ClientGone
  <2>2. \A i \in Handlers \ {h} : cancelled'[i] = cancelled[i]
    BY DEF IInv, TypeOK, ClientGone
  <2> QED BY <1>1, <2>1, <2>2, OthersKeep DEF IInv
<1> QED BY <1>1, <1>2, <1>3 DEF IInv

LEMMA BeaconingKeeps == IInv /\ Beaconing => IInv'
<1> SUFFICES ASSUME IInv, Beaconing PROVE IInv'
  OBVIOUS
<1>1. TypeOK' /\ BeaconInv' /\ (gateClosed => gateClosed')
  BY BeaconStep DEF IInv, TypeOK, Beaconing, handlerVars
<1>2. \A i \in Handlers : HandlerInv(i)' /\ Fits(i)'
  BY <1>1, OthersKeep DEF IInv, Beaconing, handlerVars
<1> QED BY <1>1, <1>2 DEF IInv

LEMMA StutterKeeps == IInv /\ UNCHANGED vars => IInv'
<1> SUFFICES ASSUME IInv, UNCHANGED vars PROVE IInv'
  OBVIOUS
<1>1. TypeOK' /\ BeaconInv' /\ gateClosed' = gateClosed
  BY DEF IInv, TypeOK, BeaconInv, vars, beaconVars, handlerVars
<1>2. \A i \in Handlers : HandlerInv(i)' /\ Fits(i)'
  BY <1>1, OthersKeep DEF IInv, vars, handlerVars
<1> QED BY <1>1, <1>2 DEF IInv

LEMMA InvStep == IInv /\ [Next]_vars => IInv'
  BY RefuseEarlyKeeps, AcceptKeeps, AwaitKeeps, CallKeeps, AnswerKeeps, BackoffKeeps,
     RespondKeeps, GoneKeeps, BeaconingKeeps, StutterKeeps DEF Next, HandlerNext

-----------------------------------------------------------------------------
(* Where the goroutines are tells what they have sent, opened and closed.  *)
THEOREM Invariance == Spec => []IInv
  BY Initially, InvStep, PTL DEF Spec

(* Every variable has its type: the loop of HandleChatCompletions makes no *)
(* attempt past maxAttempts, that of runBeacon no round past the last.     *)
THEOREM Types == Spec => []TypeOK
<1>1. IInv => TypeOK
  BY DEF IInv
<1> QED BY <1>1, Invariance, PTL

(* A handler that found the gate closed sends its generate only after the  *)
(* birth events have arrived, or every round has been spent on them.       *)
THEOREM GateOrder == Spec => []BornBeforeGenerate
<1>1. IInv => BornBeforeGenerate
  <2> SUFFICES ASSUME IInv, NEW h \in Handlers, passed[h] = "gate" PROVE Born
    BY DEF BornBeforeGenerate
  <2>1. settled = Steps \/ round = beaconAttempts
    BY DEF IInv, HandlerInv, BeaconInv
  <2> QED BY <2>1 DEF IInv, BeaconInv, Born, Steps
<1> QED BY <1>1, Invariance, PTL

(* The handlers call again only after a 5xx.                               *)
THEOREM Retries == Spec => []RetriesOnlyServerErrors
<1>1. IInv => RetriesOnlyServerErrors
  BY DEF IInv, HandlerInv, RetriesOnlyServerErrors
<1> QED BY <1>1, Invariance, PTL

(* No handler calls, waits or returns with a body open.                    *)
THEOREM Bodies == Spec => []BodiesAreClosed
<1>1. IInv => BodiesAreClosed
  BY DEF IInv, TypeOK, HandlerInv, BodiesAreClosed
<1> QED BY <1>1, Invariance, PTL

(* The reply a client gets is what the last answer calls for.              *)
THEOREM Replies == Spec => []ReplyFitsAnswer
<1>1. IInv => ReplyFitsAnswer
  BY DEF IInv, Fits, ReplyFitsAnswer
<1> QED BY <1>1, Invariance, PTL

-----------------------------------------------------------------------------
(* A step of the beacon forgets nothing it has settled, and sends only     *)
(* what is not settled while the gate is open.                             *)
LEMMA BeaconGoesOn ==
    ASSUME BeaconInv, BeaconNext
    PROVE  /\ settled \subseteq settled'
           /\ beaconPc = "step" /\ beaconPc' = "answer" => step' \notin settled /\ ~gateClosed
           /\ ~gateClosed
<1>1. ~gateClosed
  BY DEF BeaconInv, BeaconNext, BeaconSend, BeaconAnswer, BeaconRoundEnds, BeaconWake
<1>2. settled \subseteq settled'
  BY DEF BeaconNext, BeaconSend, BeaconAnswer, BeaconRoundEnds, BeaconWake
<1>3. beaconPc = "step" /\ beaconPc' = "answer" => step' \notin settled
  BY DEF BeaconNext, BeaconSend, BeaconAnswer, BeaconRoundEnds, BeaconWake, Pending
<1> QED BY <1>1, <1>2, <1>3

(* However many requests start it, the beacon runs once.                   *)
THEOREM RunsOnce == Spec => BeaconRunsOnce
<1> DEFINE Once == LET Sends == beaconPc = "step" /\ beaconPc' = "answer" IN
                   /\ settled \subseteq settled'
                   /\ Sends => step' \notin settled /\ ~gateClosed
                   /\ gateClosed => gateClosed' /\ beaconPc' = "returned"
<1>1. IInv /\ [Next]_vars => [Once]_vars
  <2> SUFFICES ASSUME IInv, [Next]_vars PROVE Once \/ UNCHANGED vars
    OBVIOUS
  <2>1. CASE Beaconing
    BY <2>1, BeaconGoesOn DEF IInv, Beaconing
  <2>2. ASSUME NEW h \in Handlers, HandlerNext(h) \/ ClientGone(h)
        PROVE  Once
    <3>1. UNCHANGED beaconVars \/ StartBeacon
      BY <2>2 DEF HandlerNext, RefuseEarly, Accept, awaitBeacon, CallUpstream, Answer,
                  Backoff, Respond, ClientGone
    <3>2. settled' = settled /\ gateClosed' = gateClosed
      BY <3>1 DEF StartBeacon, beaconVars
    <3>3. beaconPc' = beaconPc \/ (~gateClosed /\ beaconPc' = "step")
      BY <3>1 DEF StartBeacon, beaconVars, IInv, BeaconInv
    <3>4. gateClosed => beaconPc = "returned"
      BY DEF IInv, BeaconInv
    <3> QED BY <3>2, <3>3, <3>4
  <2> QED BY <2>1, <2>2 DEF Next
<1> QED BY <1>1, Invariance, PTL DEF Spec, BeaconRunsOnce
=============================================================================
