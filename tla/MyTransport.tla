---------------------------- MODULE MyTransport ----------------------------
(***************************************************************************)
(* The transport of a MySensors node that is no repeater: the state machine *)
(* that finds a parent, gets a node ID, checks the uplink with a ping to   *)
(* the gateway and then lets the sketch send, until too many transmissions *)
(* have failed.  Around it: neighbours that may be its parent, a radio that *)
(* loses what it likes while the air is noisy, sleep and power failures.   *)
(*                                                                         *)
(* A request and the neighbour's answer are one step: in flight are the    *)
(* answers only, each of which is then received or lost.                   *)
(***************************************************************************)
EXTENDS Naturals

CONSTANTS
  Neighbours,     \* the gateway and the repeaters within reach
  Distance,       \* the hops from each of them to the gateway
  AUTO,           \* 255: no parent; as an address, everybody
  Invalid,        \* DISTANCE_INVALID and INVALID_HOPS: 255
  Tokens,         \* what an ID request may carry as its token
  StateRetries,   \* MY_TRANSPORT_STATE_RETRIES
  MaxTxFailures,  \* MY_TRANSPORT_MAX_TX_FAILURES
  MaxTsmFailures, \* MY_TRANSPORT_MAX_TSM_FAILURES
  CounterSize,    \* the values of failedUplinkTransmissions: 2^4
  MaxFailed       \* bound: transmissions in a row that fail before no more are made

ASSUME TransportAssumption ==
  /\ AUTO \notin Neighbours
  /\ Invalid \in Nat
  /\ Distance \in [Neighbours -> Nat]
  /\ \A n \in Neighbours : Distance[n] + 1 < Invalid
  /\ {StateRetries, MaxTxFailures, MaxTsmFailures, MaxFailed} \subseteq Nat
  /\ CounterSize \in Nat \ {0}

VARIABLES
  sm,         \* _transportSM
  config,     \* _transportConfig
  token,      \* _transportToken
  flight,     \* the answers on their way to the node
  power,      \* "on", "asleep" within sleep(), or "off"
  air,        \* "noisy" until it becomes "calm"
  streak,     \* past: the transmissions to the parent that failed in a row
  confirmed,  \* past: the parent by which the pong taken for this uplink came
  late        \* past: "yes" if pongs were in flight when this search began

vars == <<sm, config, token, flight, power, air, streak, confirmed, late>>

States == {"Init", "Parent", "ID", "Uplink", "Ready", "Failure"}

Answers ==
  [kind : {"parent", "pong"}, node : Neighbours] \cup
  [kind : {"id"}, token : Tokens, valid : BOOLEAN]

Machines ==
  [state : States, stateRetries : Nat, findingParentNode : BOOLEAN,
   uplinkOk : BOOLEAN, pingActive : BOOLEAN, transportActive : BOOLEAN,
   failedUplinkTransmissions : 0 .. (CounterSize - 1),
   failureCounter : 0 .. MaxTsmFailures, pingResponse : 0 .. Invalid]

\* The failures since the last success, those among them that the last update in
\* the state Ready came after, and whether so many came between two such
\* updates that the counter may have come round to a small number.
Streaks == [failed : Nat, seen : Nat, leapt : BOOLEAN]

Configs ==
  [nodeId : {"none", "assigned"}, parentNodeId : Neighbours \cup {AUTO},
   distanceGW : 0 .. Invalid]

TypeOK ==
  /\ sm \in Machines
  /\ config \in Configs
  /\ token \in Tokens
  /\ flight \subseteq Answers
  /\ power \in {"on", "asleep", "off"}
  /\ air \in {"noisy", "calm"}
  /\ streak \in Streaks
  /\ confirmed \in Neighbours \cup {AUTO}
  /\ late \in {"yes", "no"}

\* All of it is zero when the node starts.
Started ==
  [state |-> "Init", stateRetries |-> 0, findingParentNode |-> FALSE,
   uplinkOk |-> FALSE, pingActive |-> FALSE, transportActive |-> FALSE,
   failedUplinkTransmissions |-> 0, failureCounter |-> 0, pingResponse |-> 0]

\* What stInitTransition() reads from the EEPROM: never a parent.
Stored(nodeId) == [nodeId |-> nodeId, parentNodeId |-> AUTO, distanceGW |-> Invalid]

NoStreak == [failed |-> 0, seen |-> 0, leapt |-> FALSE]

Init ==
  /\ sm = Started
  /\ config \in {Stored("none"), Stored("assigned")}
  /\ token \in Tokens
  /\ flight = {}
  /\ power = "on"
  /\ air = "noisy"
  /\ streak = NoStreak
  /\ confirmed = AUTO
  /\ late = "no"

-----------------------------------------------------------------------------
(* Sending.                                                                 *)

\* In calm air all is acknowledged and answered; in noise a message may arrive
\* without an acknowledgement, and be acknowledged without an answer.
Outcomes == IF air = "calm" THEN {TRUE} ELSE BOOLEAN

\* transportRouteMessage() to the parent, when s is the state machine so far.
Counted(s, ack) ==
  IF ack THEN 0 ELSE (s.failedUplinkTransmissions + 1) % CounterSize

\* The counter leaps from one number up to MaxTxFailures to another of the next turn
\* only with so many failures more.
Longer ==
  LET failed == streak.failed + 1
      leaps == failed + MaxTxFailures >= streak.seen + CounterSize
  IN [streak EXCEPT !.failed = failed, !.leapt = streak.leapt \/ leaps]

Transmit(s, answers) ==
  \E ack \in Outcomes, answered \in Outcomes :
    /\ sm' = [s EXCEPT !.failedUplinkTransmissions = Counted(s, ack)]
    /\ streak' = IF ack THEN NoStreak ELSE Longer
    /\ flight' = IF answered THEN flight \cup answers ELSE flight

\* The sketch sends: transportSendRoute() refuses unless the transport is ready.  No
\* update need come between two messages: a receive() may send several, and
\* transportProcessFIFO() calls it for several messages.
SendMessage ==
  /\ power = "on"
  /\ sm.uplinkOk
  /\ streak.failed < MaxFailed
  /\ Transmit(sm, {})
  /\ UNCHANGED <<config, token, power, air, confirmed, late>>

\* A ping is answered in any state in which a parent is known, a request for a
\* signal report and a discovery request of the parent likewise.
AnswerPing ==
  /\ power = "on"
  /\ sm.transportActive
  /\ ~sm.findingParentNode
  /\ streak.failed < MaxFailed
  /\ Transmit(sm, {})
  /\ UNCHANGED <<config, token, power, air, confirmed, late>>

-----------------------------------------------------------------------------
(* The transitions, each on entering a state: transportSwitchSM().          *)

Switched(s, to) ==
  [s EXCEPT !.state = to,
            !.stateRetries = IF s.state = to THEN s.stateRetries + 1 ELSE 0]

EnterInit ==
  /\ sm' = [Switched(sm, "Init") EXCEPT !.pingActive = FALSE, !.transportActive = FALSE]
  /\ config' = Stored(config.nodeId)
  /\ UNCHANGED <<token, flight, streak, confirmed, late>>

\* The search is broadcast, which always succeeds and, as broadcasts and an unknown
\* parent have the same address, counts as a success of the uplink.
EnterParent(s) ==
  /\ sm' = [Switched(s, "Parent") EXCEPT !.uplinkOk = FALSE, !.findingParentNode = TRUE,
                                         !.failedUplinkTransmissions = 0]
  /\ config' = [config EXCEPT !.parentNodeId = AUTO, !.distanceGW = Invalid]
  /\ \E heard \in (IF air = "calm" THEN {Neighbours} ELSE SUBSET Neighbours) :
       flight' = flight \cup [kind : {"parent"}, node : heard]
  /\ streak' = NoStreak
  /\ confirmed' = AUTO
  /\ late' = IF \E m \in flight : m.kind = "pong" THEN "yes" ELSE "no"
  /\ UNCHANGED token

\* A node without an ID asks the controller for one.
EnterID(s) ==
  /\ IF config.nodeId = "none"
     THEN /\ token' \in Tokens
          /\ \E valid \in Outcomes :
               Transmit(Switched(s, "ID"), [kind : {"id"}, token : {token'}, valid : {valid}])
     ELSE /\ sm' = Switched(s, "ID")
          /\ UNCHANGED <<token, flight, streak>>
  /\ UNCHANGED <<config, confirmed, late>>

\* Mutant: the answer to the last ping is not forgotten.
Pinging_KeepsResponse(s) == [s EXCEPT !.pingActive = TRUE]
Pinging(s) == [s EXCEPT !.pingActive = TRUE, !.pingResponse = Invalid]

EnterUplink ==
  /\ Transmit(Pinging(Switched(sm, "Uplink")), [kind : {"pong"}, node : {config.parentNodeId}])
  /\ confirmed' = AUTO
  /\ UNCHANGED <<config, token, late>>

EnterReady ==
  /\ sm' = [Switched(sm, "Ready") EXCEPT !.uplinkOk = TRUE, !.failureCounter = 0,
                                         !.failedUplinkTransmissions = 0]
  /\ config' = [config EXCEPT !.distanceGW = sm.pingResponse]
  /\ streak' = NoStreak
  /\ UNCHANGED <<token, flight, confirmed, late>>

FailuresInARow ==
  IF sm.failureCounter < MaxTsmFailures THEN sm.failureCounter + 1 ELSE sm.failureCounter

\* The radio is disabled: nothing reaches the node.
EnterFailure ==
  /\ sm' = [Switched(sm, "Failure") EXCEPT !.failureCounter = FailuresInARow,
                                          !.uplinkOk = FALSE, !.transportActive = FALSE]
  /\ flight' = {}
  /\ UNCHANGED <<config, token, streak, confirmed, late>>

-----------------------------------------------------------------------------
(* The updates, by transportUpdateSM() in every _process().                 *)

\* A state has lasted MY_TRANSPORT_STATE_TIMEOUT_MS.  In calm air what is under way
\* arrives before, if the radio is on.
TimedOut == air = "calm" /\ sm.transportActive => flight = {}

RetriesLeft == sm.stateRetries < StateRetries

Updating(state) ==
  /\ power = "on"
  /\ sm.state = state
  /\ UNCHANGED <<power, air>>

\* The radio may fail to start.
InitUpdate ==
  /\ Updating("Init")
  /\ \/ EnterParent([sm EXCEPT !.transportActive = TRUE])
     \/ air = "noisy" /\ EnterFailure

\* Mutant: a timeout is taken for a success.
HasParent_Assumed == TRUE
HasParent == config.parentNodeId # AUTO

ParentFound ==
  /\ Updating("Parent")
  /\ TimedOut
  /\ HasParent
  /\ EnterID([sm EXCEPT !.findingParentNode = FALSE])

NoParentFound ==
  /\ Updating("Parent")
  /\ TimedOut
  /\ ~HasParent
  /\ IF RetriesLeft THEN EnterParent(sm) ELSE EnterFailure

HasID ==
  /\ Updating("ID")
  /\ config.nodeId # "none"
  /\ EnterUplink

NoID ==
  /\ Updating("ID")
  /\ config.nodeId = "none"
  /\ TimedOut
  /\ IF RetriesLeft THEN EnterID(sm) ELSE EnterFailure

UplinkConfirmed ==
  /\ Updating("Uplink")
  /\ sm.pingResponse # Invalid
  /\ EnterReady

NoPong ==
  /\ Updating("Uplink")
  /\ sm.pingResponse = Invalid
  /\ TimedOut
  /\ IF RetriesLeft THEN EnterUplink ELSE EnterParent([sm EXCEPT !.pingActive = FALSE])

\* Mutants: the link is given up one failure too soon, or too late.
TooManyFailures_Early == sm.failedUplinkTransmissions >= MaxTxFailures
TooManyFailures_Late == sm.failedUplinkTransmissions > MaxTxFailures + 1
TooManyFailures == sm.failedUplinkTransmissions > MaxTxFailures

ReadyUpdate ==
  /\ Updating("Ready")
  /\ IF TooManyFailures
     THEN EnterParent(sm)
     ELSE /\ streak' = [streak EXCEPT !.seen = streak.failed]
          /\ UNCHANGED <<sm, config, token, flight, confirmed, late>>

\* Mutant: the search starts again without the radio.
FailureUpdate_KeepsRadioOff ==
  /\ Updating("Failure")
  /\ TimedOut
  /\ EnterParent(sm)
FailureUpdate ==
  /\ Updating("Failure")
  /\ TimedOut
  /\ EnterInit

Update ==
  \/ InitUpdate \/ ParentFound \/ NoParentFound \/ HasID \/ NoID
  \/ UplinkConfirmed \/ NoPong \/ ReadyUpdate \/ FailureUpdate

-----------------------------------------------------------------------------
(* Receiving: transportProcessFIFO() and transportProcessMessage().         *)

Received(m) ==
  /\ power = "on"
  /\ sm.transportActive
  /\ m \in flight
  /\ flight' = flight \ {m}
  /\ UNCHANGED <<token, power, air, streak, late>>

\* The closest of the neighbours that answer becomes the parent.
Nearer(n) == sm.findingParentNode /\ Distance[n] + 1 < config.distanceGW

ReceiveParent(n) ==
  /\ Received([kind |-> "parent", node |-> n])
  /\ config' = IF Nearer(n)
               THEN [config EXCEPT !.parentNodeId = n, !.distanceGW = Distance[n] + 1]
               ELSE config
  /\ UNCHANGED <<sm, confirmed>>

\* The answer to an older request carries another token.  A node that has its ID
\* is not addressed.
ReceiveID(t, valid) ==
  /\ Received([kind |-> "id", token |-> t, valid |-> valid])
  /\ config' = IF config.nodeId = "none" /\ t = token /\ valid
               THEN [config EXCEPT !.nodeId = "assigned"]
               ELSE config
  /\ UNCHANGED <<sm, confirmed>>

ReceivePong(n) ==
  /\ Received([kind |-> "pong", node |-> n])
  /\ IF sm.pingActive
     THEN /\ sm' = [sm EXCEPT !.pingActive = FALSE, !.pingResponse = Distance[n] + 1]
          /\ confirmed' = n
     ELSE UNCHANGED <<sm, confirmed>>
  /\ UNCHANGED config

Receive ==
  \/ \E n \in Neighbours : ReceiveParent(n) \/ ReceivePong(n)
  \/ \E t \in Tokens, valid \in BOOLEAN : ReceiveID(t, valid)

-----------------------------------------------------------------------------
(* Air and power.                                                           *)

Lose ==
  /\ air = "noisy"
  /\ \E m \in flight : flight' = flight \ {m}
  /\ UNCHANGED <<sm, config, token, power, air, streak, confirmed, late>>

CalmDown ==
  /\ air = "noisy"
  /\ air' = "calm"
  /\ UNCHANGED <<sm, config, token, flight, power, streak, confirmed, late>>

\* sleep() waits ten seconds for the transport to be ready, in which it will
\* be in calm air, unless it has failed.  What reaches a sleeping node is lost.
FallAsleep ==
  /\ power = "on"
  /\ sm.uplinkOk \/ sm.state = "Failure" \/ air = "noisy"
  /\ power' = "asleep"
  /\ flight' = {}
  /\ UNCHANGED <<sm, config, token, air, streak, confirmed, late>>

WakeUp ==
  /\ power = "asleep"
  /\ power' = "on"
  /\ UNCHANGED <<sm, config, token, flight, air, streak, confirmed, late>>

PowerFailure ==
  /\ air = "noisy"
  /\ sm' = Started
  /\ config' = Stored(config.nodeId)
  /\ power' = "off"
  /\ streak' = NoStreak
  /\ confirmed' = AUTO
  /\ UNCHANGED <<token, flight, air, late>>

PowerUp ==
  /\ power = "off"
  /\ power' = "on"
  /\ UNCHANGED <<sm, config, token, flight, air, streak, confirmed, late>>

Next ==
  \/ SendMessage \/ AnswerPing \/ Update \/ Receive
  \/ Lose \/ CalmDown \/ FallAsleep \/ WakeUp \/ PowerFailure \/ PowerUp

Spec == Init /\ [][Next]_vars

\* Every loop() of a sketch processes the transport once before it sleeps.
FairSpec == Spec /\ SF_vars(Update) /\ WF_vars(Receive) /\ WF_vars(WakeUp) /\ WF_vars(PowerUp)

-----------------------------------------------------------------------------
\* A node that may send is fully connected, and one that may answer has a parent:
\* nothing is ever sent to the address that stands for no parent, which is
\* that of everybody (transportRouteMessage).
RouteIsKnown ==
  /\ sm.uplinkOk => sm.state = "Ready" /\ sm.transportActive /\ config.nodeId = "assigned"
  /\ sm.transportActive /\ ~sm.findingParentNode => config.parentNodeId # AUTO

\* The parent of a ready node has passed a ping on to the gateway and brought the
\* answer back, unless a pong of an earlier search was still under way.
ReadyIsConfirmed == sm.uplinkOk => confirmed = config.parentNodeId \/ late = "yes"

\* A ready node does not go on sending into the void: an update that leaves it its
\* parent has seen no more failures in a row than it may, or so many that the
\* counter has come round, with most of its turn between two updates.
FailuresNoticed ==
  sm.uplinkOk =>
    \/ streak.seen <= MaxTxFailures
    \/ streak.seen >= CounterSize /\ streak.leapt

\* Seen from the sketch the transport is an Uplink.
Promised == INSTANCE Uplink WITH
  Parents <- Neighbours,
  NoParent <- AUTO,
  MaxFailures <- MaxTxFailures,
  running <- power # "off",
  parent <- IF sm.uplinkOk THEN config.parentNodeId ELSE AUTO,
  failures <- IF sm.uplinkOk THEN streak.failed ELSE 0

KeepsPromise == Promised!Spec

\* Whatever went wrong, a node in calm air gets ready and stays so.
FinallyReady == <>[](air = "calm" => sm.uplinkOk)
=============================================================================
