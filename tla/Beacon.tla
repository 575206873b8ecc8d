------------------------------- MODULE Beacon -------------------------------
(***************************************************************************)
(* The startup sequence of internal/proxy/beacon.go: started at most once  *)
(* per process, it reports whoami, lifecycle and fingerprint in this order *)
(* in up to beaconAttempts rounds and then closes the gate chat requests   *)
(* wait at.                                                                *)
(***************************************************************************)
EXTENDS UpstreamCalls

CONSTANT beaconAttempts

ASSUME AttemptsAssumption == beaconAttempts \in Nat \ {0}

VARIABLES
    beaconOnce,   \* has StartBeacon's sync.Once fired?
    beaconPc,     \* "off", "step", "answer", "sleep", "returned"
    step,         \* the step being considered, or past the last one
    round,        \* runBeacon's attempt
    settled,      \* the steps whoamiOK, lifeOK and fpSettled say are done
    arrived,      \* the steps the server has executed
    gateClosed    \* beaconGate

beaconVars == <<beaconOnce, beaconPc, step, round, settled, arrived, gateClosed>>

Whoami == 1
Lifecycle == 2
Fingerprint == 3
Steps == {Whoami, Lifecycle, Fingerprint}

\* Without a usable fingerprint.json the third step starts settled.
InitBeacon(started) ==
    /\ beaconOnce = started
    /\ beaconPc = IF started THEN "step" ELSE "off"
    /\ step = Whoami
    /\ round = 1
    /\ settled \in {{}, {Fingerprint}}
    /\ arrived = {}
    /\ gateClosed = FALSE

\* One more runBeacon for every request, with its own local variables.
StartBeaconEachTime ==
    /\ beaconOnce' = TRUE
    /\ beaconPc' = "step"
    /\ step' = Whoami
    /\ round' = 1
    /\ settled' = {}
    /\ UNCHANGED <<arrived, gateClosed>>

StartBeacon ==
    \/ beaconOnce /\ UNCHANGED beaconVars
    \/ /\ ~beaconOnce
       /\ beaconOnce' = TRUE
       /\ beaconPc' = "step"
       /\ UNCHANGED <<step, round, settled, arrived, gateClosed>>

\* The steps this round still has to report.
Pending == {k \in Steps : k >= step /\ k \notin settled}

\* beaconCall: the request may or may not reach the server.
BeaconSend ==
    /\ beaconPc = "step"
    /\ \E k \in Pending :
          /\ \A j \in Pending : k <= j
          /\ step' = k
          /\ arrived' \in {arrived, arrived \union {k}}
    /\ TakeConn
    /\ beaconPc' = "answer"
    /\ UNCHANGED <<beaconOnce, round, settled, gateClosed>>

\* A 200 settles the step; another status, a failure or the 30 s do not.
BeaconAnswer ==
    /\ beaconPc = "answer"
    /\ \/ step \in arrived /\ settled' = settled \union {step}
       \/ UNCHANGED settled
    /\ PutConn
    /\ step' = step + 1
    /\ beaconPc' = "step"
    /\ UNCHANGED <<beaconOnce, round, arrived, gateClosed>>

FirstRoundDone == TRUE
OneRoundMore == round = beaconAttempts + 1 \/ settled = Steps

SequenceOver == round = beaconAttempts \/ settled = Steps

GateOnSuccess == gateClosed' = (settled = Steps)

CloseGate == gateClosed' = TRUE

BeaconRoundEnds ==
    /\ beaconPc = "step"
    /\ Pending = {}
    /\ \/ /\ SequenceOver
          /\ CloseGate
          /\ beaconPc' = "returned"
          /\ UNCHANGED <<step, round>>
       \/ /\ ~SequenceOver
          /\ round' = round + 1
          /\ step' = Whoami
          /\ beaconPc' = "sleep"
          /\ UNCHANGED gateClosed
    /\ UNCHANGED <<beaconOnce, settled, arrived, pooled>>

BeaconWake ==
    /\ beaconPc = "sleep"
    /\ beaconPc' = "step"
    /\ UNCHANGED <<beaconOnce, step, round, settled, arrived, gateClosed, pooled>>

BeaconNext == BeaconSend \/ BeaconAnswer \/ BeaconRoundEnds \/ BeaconWake
=============================================================================
