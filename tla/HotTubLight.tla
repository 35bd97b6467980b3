----------------------------- MODULE HotTubLight -----------------------------
(***************************************************************************)
(* The light of the hot tub node (MySensors) and the Home Assistant switch *)
(* that sets it.  After a boot the node reports the light as off, asks for *)
(* the value the controller keeps, and does so in every loop until a first *)
(* message has come in.  Every message sets the relay, the answer to the   *)
(* request like any other.                                                 *)
(***************************************************************************)
EXTENDS Naturals, Sequences

CONSTANTS
  Faults,        \* messages are lost, the node's power fails, the gateway reconnects
  MaxCommands,   \* bound: switch commands issued in Home Assistant
  MaxFaults,     \* bound: faults
  MaxInFlight    \* bound: messages on their way when a loop starts again

ASSUME HotTubAssumption ==
  /\ Faults \subseteq {"loss", "power", "reconnect"}
  /\ {MaxCommands, MaxFaults, MaxInFlight} \subseteq Nat

VARIABLES
  pc,          \* "top" until loop() runs, "await" its initial value, "idle" in its last wait
  initialRelayStateSent,
  relay,       \* LIGHTING_RELAY_PIN
  toHA,        \* what is on its way to the controller, in order: "report" or "request"
  toNode,      \* values on their way to the node, in order
  ha,          \* the switch in Home Assistant
  retained,    \* the retained command at the broker, as a set of at most one
  commands, faults,   \* counted for the bounds
  clean,       \* past: "no" if a message was lost since a value was last published
  wish         \* past: the last value asked of a started node, as a set of at most one

nodeVars == <<pc, initialRelayStateSent, relay>>
vars     == <<nodeVars, toHA, toNode, ha, retained, commands, faults, clean, wish>>

Values == {"on", "off"}

\* The pin's level after a restart: setup() makes it an output, which is low.
ResetLevel == "off"

TypeOK ==
  /\ pc \in {"top", "await", "idle"}
  /\ initialRelayStateSent \in BOOLEAN
  /\ relay \in Values
  /\ toHA \in Seq({"report", "request"})
  /\ toNode \in Seq(Values)
  /\ ha \in Values
  /\ retained \subseteq Values
  /\ commands \in Nat
  /\ faults \in Nat
  /\ clean \in {"yes", "no"}
  /\ wish \subseteq Values

Init ==
  /\ pc = "top"
  /\ initialRelayStateSent = FALSE
  /\ relay = ResetLevel
  /\ toHA = <<>>
  /\ toNode = <<>>
  /\ ha \in Values
  /\ retained \in {{ha}} \cup (IF ha = "off" THEN {{}} ELSE {})
  /\ commands = 0
  /\ faults = 0
  /\ clean = "yes"
  /\ wish = {}

-----------------------------------------------------------------------------
(* The node.                                                                *)

\* The report that the light is off, which it need not be, and the request.
\* Mutant: the request goes first.
Opening_RequestFirst == <<"request", "report">>
Opening == <<"report", "request">>

\* Mutant: the node asks in every loop.
NeedsInitialState_Always == TRUE
NeedsInitialState == ~initialRelayStateSent

AskInitialState ==
  /\ pc = "top"
  /\ NeedsInitialState
  /\ pc' = "await"
  /\ toHA' = toHA \o Opening
  /\ UNCHANGED <<initialRelayStateSent, relay, toNode, ha, retained, commands, faults,
                 clean, wish>>

SkipInitialState ==
  /\ pc = "top"
  /\ ~NeedsInitialState
  /\ pc' = "idle"
  /\ UNCHANGED <<initialRelayStateSent, relay, toHA, toNode, ha, retained, commands,
                 faults, clean, wish>>

\* wait(2000, C_SET, V_STATUS) runs out, however late the answer may come.
InitialStateTimeout ==
  /\ pc = "await"
  /\ pc' = "idle"
  /\ UNCHANGED <<initialRelayStateSent, relay, toHA, toNode, ha, retained, commands,
                 faults, clean, wish>>

NextLoop ==
  /\ pc = "idle"
  /\ Len(toHA) + Len(toNode) <= MaxInFlight
  /\ pc' = "top"
  /\ UNCHANGED <<initialRelayStateSent, relay, toHA, toNode, ha, retained, commands,
                 faults, clean, wish>>

\* What receive() does with the first value: it also sets the relay.
\* Mutant: as in the garage node, the first value is taken note of only.
RelayAfter_Noted(v) == IF initialRelayStateSent THEN v ELSE relay
RelayAfter(v) == v

\* receive(), called from the waits, before every loop() and from the presentation,
\* so also before loop() has asked; a C_SET of V_STATUS ends the wait for one.
Receive ==
  /\ toNode # <<>>
  /\ pc' = IF pc = "await" THEN "idle" ELSE pc
  /\ initialRelayStateSent' = TRUE
  /\ relay' = RelayAfter(Head(toNode))
  /\ toNode' = Tail(toNode)
  /\ UNCHANGED <<toHA, ha, retained, commands, faults, clean, wish>>

Fault(kind) ==
  /\ kind \in Faults
  /\ faults < MaxFaults
  /\ faults' = faults + 1

\* The power fails and comes back: the pin is low again, and what was on its
\* way to the node may have found it switched off.
PowerFailure ==
  /\ Fault("power")
  /\ pc' = "top"
  /\ initialRelayStateSent' = FALSE
  /\ relay' = ResetLevel
  /\ toNode' \in {toNode, <<>>}
  /\ wish' = {}
  /\ UNCHANGED <<toHA, ha, retained, commands, clean>>

-----------------------------------------------------------------------------
(* Radio, gateway, broker and Home Assistant.                               *)

\* What is published towards the node is retained.
Publish(v) ==
  /\ toNode' = Append(toNode, v)
  /\ retained' = {v}
  /\ clean' = "yes"

\* A switch command is believed at once (optimistic).  It is remembered as a wish
\* when the node has its initial value and no report of off is on its way.
Command(v) ==
  /\ commands < MaxCommands
  /\ commands' = commands + 1
  /\ ha' = v
  /\ Publish(v)
  /\ wish' = IF initialRelayStateSent /\ toHA = <<>> THEN {v} ELSE {}
  /\ UNCHANGED <<nodeVars, toHA, faults>>

HandleReport ==
  /\ toHA # <<>> /\ Head(toHA) = "report"
  /\ toHA' = Tail(toHA)
  /\ ha' = "off"
  /\ UNCHANGED <<nodeVars, toNode, retained, commands, faults, clean, wish>>

AnswerRequest ==
  /\ toHA # <<>> /\ Head(toHA) = "request"
  /\ toHA' = Tail(toHA)
  /\ Publish(ha)
  /\ UNCHANGED <<nodeVars, ha, commands, faults, wish>>

\* The gateway subscribes anew and is sent the retained command once more.
GatewayReconnect ==
  /\ Fault("reconnect")
  /\ \E v \in retained : toNode' = Append(toNode, v)
  /\ UNCHANGED <<nodeVars, toHA, ha, retained, commands, clean, wish>>

Lose ==
  /\ Fault("loss")
  /\ \/ toHA # <<>> /\ toHA' = Tail(toHA) /\ UNCHANGED toNode
     \/ toNode # <<>> /\ toNode' = Tail(toNode) /\ UNCHANGED toHA
  /\ clean' = "no"
  /\ wish' = {}
  /\ UNCHANGED <<nodeVars, ha, retained, commands>>

NodeStep == AskInitialState \/ SkipInitialState \/ InitialStateTimeout \/ NextLoop

Next ==
  \/ NodeStep \/ Receive \/ PowerFailure
  \/ \E v \in Values : Command(v)
  \/ HandleReport \/ AnswerRequest \/ GatewayReconnect \/ Lose

Spec == Init /\ [][Next]_vars

\* loop() goes on, its waits are long enough for what has arrived to be read,
\* and the controller reads what reaches it.
FairSpec ==
  /\ Spec
  /\ WF_vars(NodeStep)
  /\ SF_vars(Receive)
  /\ WF_vars(HandleReport)
  /\ WF_vars(AnswerRequest)

-----------------------------------------------------------------------------
Settled == initialRelayStateSent /\ toHA = <<>> /\ toNode = <<>>

\* Once all is delivered the light is as Home Assistant shows it, through late
\* answers, restarts and retained commands sent again, unless a message was
\* lost since a value was last published: the report of off, wrong or not,
\* always comes with a request whose answer puts the light out as well.
LightAsShown == Settled /\ clean = "yes" => relay = ha

\* A light set once the node has started stays as it was set until the node
\* restarts: no late answer, report or retained command undoes it.  Not wishes are
\* a command before the first message of a boot, one made while a report or a request
\* of the node is still on its way, which may undo it, and any from before a loss.
LightAsAsked == Settled => wish \subseteq {relay}

\* However late answers are, light and switch come to agree, unless a
\* message is lost and nothing is published after it.
FinallyAsShown == <>[](relay = ha) \/ <>[](clean = "no")
=============================================================================
