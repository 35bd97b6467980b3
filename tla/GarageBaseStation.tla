------------------------- MODULE GarageBaseStation -------------------------
(***************************************************************************)
(* The MySensors garage door node, the MQTT gateway in front of it and the *)
(* Home Assistant switch that commands it.                                 *)
(*                                                                         *)
(* The node listens before its loop runs: while it looks for its parent    *)
(* and while it presents itself.  It is deaf inside sleep(), in setup()    *)
(* and during every pulse.                                                 *)
(*                                                                         *)
(* The node keeps no door command state: every V_STATUS message it         *)
(* receives after the first one of a boot presses the door button for      *)
(* 500 ms, whatever child it names and whatever value it carries.  The     *)
(* messages towards the node are therefore counted, not stored.            *)
(***************************************************************************)
EXTENDS Naturals, Sequences

CONSTANTS
  Lossy,            \* may the radio lose messages and the node its parent?
  Prompt,           \* does a reply reach the node within the 2 s it waits?
  MaxCommands,      \* bound: switch commands issued in Home Assistant
  MaxReconnects,    \* bound: MQTT reconnections of the gateway
  MaxCrashes,       \* bound: power failures of the node
  MaxAbandoned,     \* bound: waits for the initial value that get no answer
  UplinkCap         \* bound: reports in flight from the node

ASSUME BoundsAssumption ==
  /\ Lossy \in BOOLEAN
  /\ Prompt \in BOOLEAN
  /\ {MaxCommands, MaxReconnects, MaxCrashes, MaxAbandoned, UplinkCap} \subseteq Nat

RelayChild == "relay"                  \* CHILD_ID_RELAY_STATE
DoorChild  == "door"                   \* CHILD_ID_GARAGE_DOOR_1_STATE
Children   == {RelayChild, DoorChild}

\* Levels of the relay pin and values of a report: RELAY_ON and DOOR_OPEN are
\* On, RELAY_OFF and DOOR_CLOSED are Off.
On     == 1
Off    == 0
Levels == {On, Off}

VARIABLES
  pc,                     \* where _begin() or loop() stands
  frames,                 \* activations of receive() holding the button down
  radio,                  \* "off" inside sleep(), else "on"
  relay,                  \* the level of MAIN_DOOR_RELAY
  initialRelayStateSent,
  transport,              \* "ready" as isTransportReady() has it, or "searching"
  reqs,                   \* C_REQ messages on their way to the controller
  down,                   \* V_STATUS messages on their way to the node
  up,                     \* reports on their way to the controller, in order
  ha,                     \* the states of the two switches in Home Assistant
  retained,               \* children with a retained command at the broker
  door,               \* the door itself
  \* What the properties remember of the past; no action reads these
  \* except to keep within a bound.
  commands, replays, reconnects, crashes, abandoned,
  pulses, notices,
  asked,    \* has this boot sent its OFF and its request for the initial value?
  wasted,   \* messages that met the node asleep or with the button pressed
  cut,      \* did a power failure end a pulse whose ON report nothing followed?
  muted     \* pulses whose ON report was dropped, or that were cut and not made good

nodeVars == <<pc, frames, radio, relay, initialRelayStateSent, transport>>
linkVars == <<reqs, down, up>>
haVars   == <<ha, retained>>
boundVars == <<commands, replays, reconnects, crashes, abandoned>>
pastVars == <<boundVars, pulses, notices, asked, wasted, cut, muted>>
vars     == <<nodeVars, linkVars, haVars, door, pastVars>>

Report == [child: Children, value: Levels]

TypeOK ==
  /\ pc \in {"boot", "setup", "top", "await", "drain", "measure", "idle"}
  /\ frames \in Nat
  /\ radio \in {"on", "off"}
  /\ relay \in Levels
  /\ initialRelayStateSent \in BOOLEAN
  /\ transport \in {"ready", "searching"}
  /\ reqs \in Nat
  /\ down \in Nat
  /\ up \in Seq(Report)
  /\ ha \in [Children -> Levels]
  /\ retained \subseteq Children
  /\ door \in Levels
  /\ commands \in Nat
  /\ replays \in Nat
  /\ reconnects \in Nat
  /\ crashes \in Nat
  /\ abandoned \in Nat
  /\ pulses \in Nat
  /\ notices \in Nat
  /\ asked \in BOOLEAN
  /\ wasted \in Nat
  /\ cut \in BOOLEAN
  /\ muted \in Nat

Init ==
  /\ pc = "boot"
  /\ frames = 0
  /\ radio = "on"
  /\ relay = Off
  /\ initialRelayStateSent = FALSE
  /\ transport = "searching"
  /\ reqs = 0
  /\ down = 0
  /\ up = <<>>
  /\ ha = [c \in Children |-> Off]
  /\ retained = {}
  /\ door \in Levels
  /\ commands = 0 /\ replays = 0 /\ reconnects = 0 /\ crashes = 0
  /\ abandoned = 0 /\ pulses = 0 /\ notices = 0
  /\ asked = FALSE /\ wasted = 0 /\ cut = FALSE /\ muted = 0

-----------------------------------------------------------------------------
(* The node.  A report is dropped when the transport is not ready           *)
(* (transportSendRoute) and, by the bound UplinkCap, when the uplink is     *)
(* full, which without loss never happens: see Room.                        *)

Sent(c, v) ==
  IF transport = "ready" /\ Len(up) < UplinkCap
  THEN Append(up, [child |-> c, value |-> v])
  ELSE up

\* Without loss the uplink is taken to be faster than the node: a loop takes
\* ten seconds and a pulse half a second, a report some milliseconds.
Room == Lossy \/ Len(up) + 1 < UplinkCap

\* wasted and muted are counted where properties ask for them: without loss.
Counted(n) == IF Lossy THEN n ELSE n + 1

\* Is the radio being polled, i.e. does _process() run?  While _begin() waits for
\* the transport and presents the node, in the waits of loop() and before each of
\* its turns, and inside a sleep() entered while the transport was not ready.
Polling == radio = "on" /\ (frames = 0 => pc # "measure")

\* _begin() has waited for the transport, which may be lost again since; the node has
\* presented itself, asked for its configuration and registered, and received what
\* came meanwhile.  setup() then sleeps.
EndBoot ==
  /\ pc = "boot" /\ frames = 0
  /\ Lossy \/ transport = "ready"
  /\ pc' = "setup"
  /\ radio' = IF transport = "ready" THEN "off" ELSE "on"
  /\ UNCHANGED <<frames, relay, initialRelayStateSent, transport, linkVars, haVars, door,
                 pastVars>>

EndSetup ==
  /\ pc = "setup" /\ frames = 0
  /\ pc' = "top" /\ radio' = "on"
  /\ UNCHANGED <<frames, relay, initialRelayStateSent, transport, linkVars, haVars, door,
                 pastVars>>

\* The request, lost when the transport is not ready, and when it is made.
\* Mutants: the request is forgotten; the guard is.
Requested_None == reqs
Requested == IF transport = "ready" THEN reqs + 1 ELSE reqs
NeedsInitialState_Always == TRUE
NeedsInitialState == ~initialRelayStateSent

\* The start of loop(): report OFF and ask the controller for its value until
\* a first V_STATUS message has come in.
AskInitialState ==
  /\ pc = "top" /\ frames = 0
  /\ NeedsInitialState
  /\ Room
  /\ up' = Sent(RelayChild, Off)
  /\ reqs' = Requested
  /\ pc' = "await"
  /\ asked' = TRUE /\ cut' = FALSE
  /\ UNCHANGED <<frames, radio, relay, initialRelayStateSent, transport, down, haVars,
                 door, boundVars, pulses, notices, wasted, muted>>

SkipInitialState ==
  /\ pc = "top" /\ frames = 0
  /\ initialRelayStateSent
  /\ pc' = "measure"
  /\ UNCHANGED <<frames, radio, relay, initialRelayStateSent, transport, linkVars, haVars,
                 door, pastVars>>

\* wait(2000, C_SET, V_STATUS) runs out.
InitialStateTimeout ==
  /\ pc = "await" /\ frames = 0
  /\ Prompt => reqs = 0 /\ down = 0
  /\ abandoned < MaxAbandoned
  /\ abandoned' = abandoned + 1
  /\ pc' = "measure"
  /\ UNCHANGED <<frames, radio, relay, initialRelayStateSent, transport, linkVars, haVars,
                 door, commands, replays, reconnects, crashes, pulses, notices, asked,
                 wasted, cut, muted>>

\* ... or ends because the last message processed was a C_SET of V_STATUS.
InitialStateAnswered ==
  /\ pc = "drain" /\ frames = 0
  /\ pc' = "measure"
  /\ UNCHANGED <<frames, radio, relay, initialRelayStateSent, transport, linkVars, haVars,
                 door, pastVars>>

\* The rangefinder: an echo that never comes back measures 0 cm, which counts
\* as closed.  A lost echo is a loss like the others: only when Lossy.
MeasuredDoor == IF Lossy THEN {door, Off} ELSE {door}
\* Mutant: the closed door is not reported.
DoorReport_OpenOnly(v) == IF v = On THEN Sent(DoorChild, On) ELSE up
DoorReport(v) == Sent(DoorChild, v)

MeasureDoor ==
  /\ pc = "measure" /\ frames = 0
  /\ Room
  /\ \E v \in MeasuredDoor : up' = DoorReport(v)
  /\ pc' = "idle"
  /\ UNCHANGED <<frames, radio, relay, initialRelayStateSent, transport, reqs, down, haVars,
                 door, pastVars>>

\* wait(UPDATE_INTERVAL) is over; ten seconds empty a lossless uplink.
NextLoop ==
  /\ pc = "idle" /\ frames = 0
  /\ Lossy \/ up = <<>>
  /\ pc' = "top"
  /\ UNCHANGED <<frames, radio, relay, initialRelayStateSent, transport, linkVars, haVars,
                 door, pastVars>>

\* What wait() knows after a message: it stops at the end of this batch.
Noticed == IF pc = "await" THEN "drain" ELSE pc

\* receive() takes the first V_STATUS message of a boot for the initial value,
\* also one that came before loop() has asked for it.
ReceiveInitialState ==
  /\ Polling
  /\ down > 0
  /\ ~initialRelayStateSent
  /\ initialRelayStateSent' = TRUE
  /\ down' = down - 1
  /\ pc' = Noticed
  /\ muted' = IF cut THEN Counted(muted) ELSE muted
  /\ cut' = FALSE
  /\ UNCHANGED <<frames, radio, relay, transport, reqs, up, haVars, door, boundVars,
                 pulses, notices, asked, wasted>>

\* The reports of a press and of its release, and the level released to.
\* Mutants: a report or the release is forgotten, the pulse length is reported.
PressReport_None == up
PressReport == Sent(RelayChild, On)
ReleaseReport_None == up
ReleaseReport == Sent(RelayChild, Off)
ReleasedLevel_Kept == relay
ReleasedLevel == Off

\* receive() presses the button, reports ON and goes to sleep(500): with the
\* radio off, unless the transport is not ready, when sleep() keeps polling
\* and may call receive() again.
ReceiveCommand ==
  /\ Polling
  /\ down > 0
  /\ initialRelayStateSent
  /\ Room
  /\ down' = down - 1
  /\ relay' = On
  /\ pulses' = IF relay = On THEN pulses ELSE pulses + 1
  /\ wasted' = IF relay = On THEN Counted(wasted) ELSE wasted
  /\ muted' = IF relay = Off /\ transport # "ready" THEN Counted(muted) ELSE muted
  /\ up' = PressReport
  /\ frames' = frames + 1
  /\ radio' = IF transport = "ready" THEN "off" ELSE "on"
  /\ pc' = Noticed
  /\ UNCHANGED <<initialRelayStateSent, transport, reqs, haVars, door, boundVars, notices,
                 asked, cut>>

\* The transport is ready again: the rest of the sleep is spent asleep.
FallAsleep ==
  /\ frames > 0 \/ pc = "setup"
  /\ radio = "on" /\ transport = "ready"
  /\ radio' = "off"
  /\ UNCHANGED <<pc, frames, relay, initialRelayStateSent, transport, linkVars, haVars,
                 door, pastVars>>

\* sleep(500) returns, receive() releases the button and reports OFF.
ReleaseRelay ==
  /\ frames > 0
  /\ Room
  /\ relay' = ReleasedLevel
  /\ up' = ReleaseReport
  /\ frames' = frames - 1
  /\ radio' = "on"
  /\ UNCHANGED <<pc, initialRelayStateSent, transport, reqs, down, haVars, door, pastVars>>

\* Too many failed transmissions: the node looks for another parent.
LoseParent ==
  /\ Lossy /\ Polling /\ transport = "ready"
  /\ transport' = "searching"
  /\ UNCHANGED <<pc, frames, radio, relay, initialRelayStateSent, linkVars, haVars,
                 door, pastVars>>

FindParent ==
  /\ Polling /\ transport = "searching"
  /\ transport' = "ready"
  /\ UNCHANGED <<pc, frames, radio, relay, initialRelayStateSent, linkVars, haVars,
                 door, pastVars>>

\* Does a pulse stand whose ON report may be the last one of the button?  It was
\* sent just before the radio went off, which stays off until the release.
Held == cut \/ (relay = On /\ radio = "off")

\* The power fails and comes back: before() leaves the relay pin at its reset
\* level, nothing was saved, and the node looks for its parent anew.
PowerFailure ==
  /\ crashes < MaxCrashes
  /\ crashes' = crashes + 1
  /\ abandoned' = IF pc = "await" THEN abandoned + 1 ELSE abandoned
  /\ pc' = "boot" /\ frames' = 0 /\ radio' = "on"
  /\ relay' = Off
  /\ initialRelayStateSent' = FALSE
  /\ transport' = "searching"
  /\ cut' = Held
  /\ asked' = FALSE
  /\ UNCHANGED <<linkVars, haVars, door, commands, replays, reconnects, pulses, notices,
                 wasted, muted>>

NodeStep ==
  \/ EndBoot \/ EndSetup
  \/ AskInitialState \/ SkipInitialState \/ InitialStateTimeout \/ InitialStateAnswered
  \/ MeasureDoor \/ NextLoop
  \/ ReceiveInitialState \/ ReceiveCommand \/ FallAsleep \/ ReleaseRelay \/ FindParent

-----------------------------------------------------------------------------
(* Gateway, broker and Home Assistant.                                      *)

\* A state_changed event of the relay switch from on to off sends a notification.
NoticesAfter(before, after) ==
  IF before[RelayChild] = On /\ after[RelayChild] = Off THEN notices + 1 ELSE notices

\* A switch command: sent retained, and believed at once (optimistic).
Command(c, v) ==
  /\ commands < MaxCommands
  /\ commands' = commands + 1
  /\ down' = down + 1
  /\ ha' = [ha EXCEPT ![c] = v]
  /\ notices' = NoticesAfter(ha, ha')
  /\ retained' = retained \union {c}
  /\ UNCHANGED <<nodeVars, reqs, up, door, replays, reconnects, crashes, abandoned,
                 pulses, asked, wasted, cut, muted>>

\* The controller answers a request with the value it keeps; the answer is
\* published like a command.
AnswerRequest ==
  /\ reqs > 0
  /\ reqs' = reqs - 1
  /\ down' = down + 1
  /\ retained' = retained \union {RelayChild}
  /\ UNCHANGED <<nodeVars, up, ha, door, pastVars>>

HandleReport ==
  /\ up # <<>>
  /\ up' = Tail(up)
  /\ ha' = [ha EXCEPT ![Head(up).child] = Head(up).value]
  /\ notices' = NoticesAfter(ha, ha')
  /\ UNCHANGED <<nodeVars, reqs, down, retained, door, boundVars, pulses, asked, wasted,
                 cut, muted>>

\* The gateway connects to the broker anew and subscribes: the broker sends it
\* every retained command once more.
RetainedCount ==
  (IF RelayChild \in retained THEN 1 ELSE 0) + (IF DoorChild \in retained THEN 1 ELSE 0)

GatewayReconnect ==
  /\ reconnects < MaxReconnects
  /\ reconnects' = reconnects + 1
  /\ down' = down + RetainedCount
  /\ replays' = replays + RetainedCount
  /\ UNCHANGED <<nodeVars, reqs, up, haVars, door, commands, crashes, abandoned, pulses,
                 notices, asked, wasted, cut, muted>>

LoseRequest ==
  /\ Lossy /\ reqs > 0
  /\ reqs' = reqs - 1
  /\ UNCHANGED <<nodeVars, down, up, haVars, door, pastVars>>

\* A message to the node is lost on the air, or finds it asleep.
LoseDown ==
  /\ Lossy \/ radio = "off"
  /\ down > 0
  /\ down' = down - 1
  /\ wasted' = Counted(wasted)
  /\ UNCHANGED <<nodeVars, reqs, up, haVars, door, boundVars, pulses, notices, asked, cut,
                 muted>>

LoseReport ==
  /\ Lossy /\ up # <<>>
  /\ up' = Tail(up)
  /\ UNCHANGED <<nodeVars, reqs, down, haVars, door, pastVars>>

\* The door moves: the opener answers the button, or a hand does.
DoorMoves ==
  /\ door' = 1 - door
  /\ UNCHANGED <<nodeVars, linkVars, haVars, pastVars>>

Next ==
  \/ NodeStep
  \/ LoseParent \/ PowerFailure
  \/ \E c \in Children, v \in Levels : Command(c, v)
  \/ AnswerRequest \/ HandleReport \/ GatewayReconnect
  \/ LoseRequest \/ LoseDown \/ LoseReport
  \/ DoorMoves

Spec == Init /\ [][Next]_vars

\* The node's processor keeps running its loop and its timers; the controller
\* keeps reading what reaches it; and the 10 s window of every loop in which the
\* node listens suffices for what is on its way.  Nothing is assumed of losses,
\* failures, commands or the door.
FairSpec ==
  /\ Spec
  /\ WF_vars(NodeStep)
  /\ WF_vars(HandleReport)
  /\ WF_vars(AnswerRequest)
  /\ SF_vars(ReceiveInitialState \/ ReceiveCommand)

-----------------------------------------------------------------------------
(* What the garage door system should guarantee.                            *)

\* The button is never left pressed: whatever is lost, nested or interrupted,
\* the relay is on only while an activation of receive() is there to release it.
RelayReleased == relay = On => frames > 0

\* The door moves no more often than it was told to, plus once per re-delivered
\* retained command and per initial value that came too late for the wait that
\* asked for it.  (receive() cannot tell any of these from a command.)
PulsesAccountedFor == pulses <= commands + replays + abandoned

\* With no loss on the air, nothing late, replayed or restarted, every command
\* has moved the door exactly once, but for those that met the node asleep or the
\* button pressed, and but for one: the first message of the boot presses nothing.
\* If loop() has asked for the initial value, the answer stands in for that one; if
\* the message came before, nothing is asked for and a command is gone.
Undisturbed == ~Lossy /\ Prompt /\ crashes = 0 /\ reconnects = 0
Settled == reqs = 0 /\ down = 0 /\ up = <<>> /\ frames = 0 /\ initialRelayStateSent

EveryCommandPulsesOnce ==
  Undisturbed /\ Settled => pulses + wasted + (IF asked THEN 0 ELSE 1) = commands

\* With no loss on the air every movement of the door has been notified once all
\* is delivered, but for those made while the node had no parent to report to, and
\* those cut by a power failure after which a message came before loop() could
\* report OFF.
PulsesAnnounced == ~Lossy /\ Settled => notices + muted >= pulses

\* Home Assistant does not keep showing the door button as pressed, unless the
\* first message of a boot came before loop() could report OFF.
ButtonShownReleased ==
  ha[RelayChild] = On ~> ha[RelayChild] = Off \/ (initialRelayStateSent /\ ~asked)

\* A door that stays where it is is finally shown there, whatever the
\* optimistic switch of the same child was set to in between.
DoorFinallyShown ==
  \A v \in Levels : <>[](door = v) => <>[](ha[DoorChild] = v)
=============================================================================
