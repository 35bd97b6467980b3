----------------------------- MODULE ZigbeeJoin -----------------------------
(***************************************************************************)
(* The Zigbee joining package of Home Assistant: a switch that opens the   *)
(* Zigbee network for new devices over MQTT, a timer, and two automations  *)
(* that start the timer when the switch goes on and close the network when *)
(* the timer finishes or the switch goes off.                              *)
(*                                                                         *)
(* The switch's command topic is its state topic: what Home Assistant      *)
(* publishes goes to the Zigbee bridge and, as the switch's new state, back *)
(* to Home Assistant.  Every trigger starts a run of its automation, and   *)
(* runs interleave at their service calls.                                 *)
(***************************************************************************)
EXTENDS Naturals, Sequences

CONSTANTS
  Faults,        \* what may go wrong: Home Assistant restarts, misses messages
  MaxRequests,   \* bound: times a user turns the switch on or off
  MaxFaults      \* bound: faults

ASSUME ZigbeeAssumption ==
  /\ Faults \subseteq {"restart", "miss"}
  /\ MaxRequests \in Nat
  /\ MaxFaults \in Nat

VARIABLES
  network,     \* the coordinator: "open" while it permits joining
  toBridge,    \* published payloads the bridge has not read yet
  toHA,        \* the same for Home Assistant's state topic
  switch,      \* switch.zigbee2mqtt_main_join
  timer,       \* timer.zigbee_permit_join
  starts,      \* runs of Zigbee Join Enabled before timer.start
  cancels,     \* runs of Zigbee Join Disabled before timer.cancel
  turnOffs,    \* runs of Zigbee Join Disabled before switch.turn_off
  requests, faults,   \* counted for the bounds
  orphaned,    \* past: a fault happened after the last "false" was published
  missed       \* past: "yes" if a message was missed since the switch was off

runVars == <<starts, cancels, turnOffs>>
haVars  == <<switch, timer, runVars>>
vars    == <<network, toBridge, toHA, haVars, requests, faults, orphaned, missed>>

Payloads == {"true", "false"}

TypeOK ==
  /\ network \in {"open", "closed"}
  /\ toBridge \in Seq(Payloads)
  /\ toHA \in Seq(Payloads)
  /\ switch \in {"on", "off"}
  /\ timer \in {"active", "idle"}
  /\ starts \in Nat
  /\ cancels \in Nat
  /\ turnOffs \in Nat
  /\ requests \in Nat
  /\ faults \in Nat
  /\ orphaned \in BOOLEAN
  /\ missed \in {"yes", "no"}

Init ==
  /\ network = "closed"
  /\ toBridge = <<>>
  /\ toHA = <<>>
  /\ switch = "off"
  /\ timer = "idle"
  /\ starts = 0
  /\ cancels = 0
  /\ turnOffs = 0
  /\ requests = 0
  /\ faults = 0
  /\ orphaned = FALSE
  /\ missed = "no"

-----------------------------------------------------------------------------
\* One publication reaches both subscribers of the topic in the same order.
Publish(payload) ==
  /\ toBridge' = Append(toBridge, payload)
  /\ toHA' = Append(toHA, payload)

UserTurnsOn ==
  /\ requests < MaxRequests
  /\ requests' = requests + 1
  /\ Publish("true")
  /\ UNCHANGED <<network, haVars, faults, orphaned, missed>>

UserTurnsOff ==
  /\ requests < MaxRequests
  /\ requests' = requests + 1
  /\ Publish("false")
  /\ orphaned' = FALSE
  /\ UNCHANGED <<network, haVars, faults, missed>>

BridgeReceives ==
  /\ toBridge # <<>>
  /\ toBridge' = Tail(toBridge)
  /\ network' = IF Head(toBridge) = "true" THEN "open" ELSE "closed"
  /\ UNCHANGED <<toHA, haVars, requests, faults, orphaned, missed>>

\* The switch state a payload stands for.
\* Mutant: payload_off is not recognised.
StateShown_AlwaysOn(payload) == "on"
StateShown(payload) == IF payload = "true" THEN "on" ELSE "off"

\* Which run a new state of the switch triggers: only a change triggers one.
StartsAfter(new)  == IF switch = "off" /\ new = "on" THEN starts + 1 ELSE starts
CancelsAfter(new) == IF switch = "on" /\ new = "off" THEN cancels + 1 ELSE cancels

\* Home Assistant reads the state topic.
SwitchReceives ==
  /\ toHA # <<>>
  /\ toHA' = Tail(toHA)
  /\ switch' = StateShown(Head(toHA))
  /\ starts' = StartsAfter(switch')
  /\ cancels' = CancelsAfter(switch')
  /\ missed' = IF switch' = "off" THEN "no" ELSE missed
  /\ UNCHANGED <<network, toBridge, timer, turnOffs, requests, faults, orphaned>>

\* Zigbee Join Enabled.
RunTimerStart ==
  /\ starts > 0
  /\ starts' = starts - 1
  /\ timer' = "active"
  /\ UNCHANGED <<network, toBridge, toHA, switch, cancels, turnOffs, requests, faults,
                 orphaned, missed>>

\* Zigbee Join Disabled, first action, and what is left to do after it.
\* Mutant: the second action is missing.
TurnOffsAfterCancel_None == turnOffs
TurnOffsAfterCancel == turnOffs + 1

RunTimerCancel ==
  /\ cancels > 0
  /\ cancels' = cancels - 1
  /\ turnOffs' = TurnOffsAfterCancel
  /\ timer' = "idle"
  /\ UNCHANGED <<network, toBridge, toHA, switch, starts, requests, faults,
                 orphaned, missed>>

\* Zigbee Join Disabled, second action.
RunSwitchTurnOff ==
  /\ turnOffs > 0
  /\ turnOffs' = turnOffs - 1
  /\ Publish("false")
  /\ orphaned' = FALSE
  /\ UNCHANGED <<network, switch, timer, starts, cancels, requests, faults, missed>>

\* 120 s have passed: the timer.finished event triggers Zigbee Join Disabled.
\* Mutant: the event trigger is missing.
CancelsAfterFinish_None == cancels
CancelsAfterFinish == cancels + 1

TimerFinishes ==
  /\ timer = "active"
  /\ timer' = "idle"
  /\ cancels' = CancelsAfterFinish
  /\ UNCHANGED <<network, toBridge, toHA, switch, starts, turnOffs, requests, faults,
                 orphaned, missed>>

\* Home Assistant restarts: nothing of the package is saved, the switch starts
\* as off, and what was on its way to it is gone (nothing is retained).
HomeAssistantRestarts ==
  /\ "restart" \in Faults /\ faults < MaxFaults
  /\ faults' = faults + 1
  /\ toHA' = <<>>
  /\ switch' = "off"
  /\ timer' = "idle"
  /\ starts' = 0 /\ cancels' = 0 /\ turnOffs' = 0
  /\ orphaned' = TRUE
  /\ missed' = "no"
  /\ UNCHANGED <<network, toBridge, requests>>

\* Home Assistant's connection to the broker drops a message (QoS 0).
HomeAssistantMisses ==
  /\ "miss" \in Faults /\ faults < MaxFaults
  /\ faults' = faults + 1
  /\ toHA # <<>>
  /\ toHA' = Tail(toHA)
  /\ orphaned' = TRUE
  /\ missed' = "yes"
  /\ UNCHANGED <<network, toBridge, haVars, requests>>

Next ==
  \/ UserTurnsOn \/ UserTurnsOff
  \/ BridgeReceives \/ SwitchReceives
  \/ RunTimerStart \/ RunTimerCancel \/ RunSwitchTurnOff \/ TimerFinishes
  \/ HomeAssistantRestarts \/ HomeAssistantMisses

Spec == Init /\ [][Next]_vars

\* Messages arrive, started runs go on and the timer runs out; users and faults
\* do what they like.
FairSpec ==
  /\ Spec
  /\ WF_vars(BridgeReceives)
  /\ WF_vars(SwitchReceives)
  /\ WF_vars(RunTimerStart)
  /\ WF_vars(RunTimerCancel)
  /\ WF_vars(RunSwitchTurnOff)
  /\ WF_vars(TimerFinishes)

-----------------------------------------------------------------------------
Quiet == toBridge = <<>> /\ toHA = <<>> /\ starts = 0 /\ cancels = 0 /\ turnOffs = 0

\* When nothing is on its way, an open network has a timer that will close it,
\* unless Home Assistant restarted or missed a message since the network was
\* last told to close: then nobody closes it, and the switch may say off.
OpenNetworkIsTimed == Quiet /\ network = "open" => timer = "active" \/ orphaned

\* When nothing is on its way, the switch shows what the network does, with the
\* same exception.
SwitchShowsNetwork ==
  Quiet /\ ~orphaned => (switch = "on" <=> network = "open")

\* A switch shown as on is always about to be turned off again: its timer
\* runs or is about to be started, or a run that will turn it off is under
\* way, or the "false" is.  Restarts do not disturb this; a message missed
\* since the switch was last off may.
ShownOnIsWatched ==
  switch = "on" /\ missed = "no" =>
    \/ timer = "active" \/ starts > 0 \/ cancels > 0 \/ turnOffs > 0
    \/ \E i \in 1 .. Len(toHA) : toHA[i] = "false"

\* However on and off are toggled while runs of the automations are under way,
\* the network ends up closed and shown as closed once the users stop, unless
\* a fault came after it was last told to close and nothing told it since.
FinallyClosed ==
  <>[](network = "closed" /\ switch = "off") \/ <>[]orphaned
=============================================================================
