------------------------------ MODULE HvacNode ------------------------------
(***************************************************************************)
(* The infrared heat pump node (MySensors): it sleeps for five minutes,    *)
(* wakes, asks the controller for its four values, and answers every       *)
(* message with a report of its whole state.  It keeps one temperature for *)
(* the two setpoints of the controller.  When a message changes something  *)
(* the heat pump is sent the whole state over infrared.                    *)
(*                                                                         *)
(* Temperatures are in half degrees.  The fan speed is left out: it never  *)
(* makes the node send a command; only the reply with it is kept, for the  *)
(* report it causes.  Reports of speed and flow state are left out: they   *)
(* are numbers, which the controller does not take for these types.        *)
(* The case of a flow name is left out: it only repeats a command.         *)
(***************************************************************************)
EXTENDS Naturals, Sequences

CONSTANTS
  Temps,        \* setpoints a user may ask for
  Asked,        \* flow states a user may ask for
  MaxWishes,    \* bound: settings made in Home Assistant
  Faults,       \* what may go wrong: messages are lost, the node's power fails
  MaxFaults     \* bound: faults

Flows == {"off", "heat", "cool", "autochangeover"}
Modes == {"hot", "cold"}

ASSUME HvacAssumption ==
  /\ Temps \subseteq Nat
  /\ Asked \subseteq Flows
  /\ Faults \subseteq {"loss", "power"}
  /\ {MaxWishes, MaxFaults} \subseteq Nat

VARIABLES
  pc,              \* loop(): "boot", "listen" in its waits, "asleep"
  power,           \* POWER_STATE: "on" for 0, "off" for 1
  mode,            \* MODE_STATE
  temp,            \* TEMP_STATE, an int: whole degrees
  modeString,      \* MODE_STATE_STRING, "" before the first flow state
  unit,            \* what the heat pump was last sent
  toHA,            \* reports and requests on their way, in order
  toNode,          \* replies and settings on their way, in order
  ha,              \* the controller's values
  accepts,         \* is the node's "off" a flow state to the controller: "yes", "no"
  \* What the properties remember of the past.
  commanded,       \* "yes" once this boot sent the heat pump a command
  clean,           \* "yes" while no message of this round was lost
  wish,            \* the last heating setpoint asked for, as a set of at most one
  wishes, faults   \* counted for the bounds

nodeVars == <<pc, power, mode, temp, modeString, unit, commanded>>
linkVars == <<toHA, toNode>>
counters == <<wishes, faults>>
vars     == <<nodeVars, linkVars, ha, accepts, clean, wish, counters>>

Setpoints == {"cool", "heat"}
Command   == [power : {"on", "off"}, mode : Modes, temp : Nat]

\* What the radio carries: C_SET messages and C_REQ messages.  A reply is a C_SET
\* like any other; it is told apart only for the bound on how late it comes.
\* Only a setpoint has a temperature, only a flow state a flow.
Message ==
  {m \in [kind : {"set", "reply", "request"}, type : Setpoints \cup {"speed", "flow"},
          temp : Nat, flow : Flows \cup {""}] :
     /\ m.kind # "request" /\ m.type = "flow" => m.flow # ""
     /\ m.kind = "set" => m.type # "speed"}
CSet == {m \in Message : m.kind # "request"}

SetTemp(setpoint, t) == [kind |-> "set", type |-> setpoint, temp |-> t, flow |-> ""]
SetFlow(f)           == [kind |-> "set", type |-> "flow", temp |-> 0, flow |-> f]
Request(type)        == [kind |-> "request", type |-> type, temp |-> 0, flow |-> ""]

\* int TEMP_STATE is assigned a float.
Whole(t) == t - (t % 2)
WholeDegrees == {t \in Nat : t % 2 = 0}

TypeOK ==
  /\ pc \in {"boot", "listen", "asleep"}
  /\ power \in {"on", "off"}
  /\ mode \in Modes
  /\ temp \in WholeDegrees
  /\ modeString \in Flows \cup {""}
  /\ unit \in Command
  /\ toHA \in Seq(Message)
  /\ toNode \in Seq(CSet)
  /\ ha \in [cool : Nat, heat : Nat, flow : Flows]
  /\ accepts \in {"yes", "no"}
  /\ commanded \in {"yes", "no"}
  /\ clean \in {"yes", "no"}
  /\ wish \subseteq Nat
  /\ wishes \in Nat
  /\ faults \in Nat

Init ==
  /\ pc = "boot"
  /\ power = "on" /\ mode = "hot" /\ temp = 0 /\ modeString = ""
  /\ unit = [power |-> "off", mode |-> "hot", temp |-> 0]
  /\ toHA = <<>> /\ toNode = <<>>
  /\ ha \in {[cool |-> 42, heat |-> 42, flow |-> f] : f \in Asked \cup {"off"}}
  /\ accepts \in {"yes", "no"}
  /\ commanded = "no"
  /\ clean = "yes"
  /\ wish = {}
  /\ wishes = 0 /\ faults = 0

-----------------------------------------------------------------------------
(* The node.                                                                *)

\* requestUpdatedStateAndWait().
\* Mutants: the flow state is not asked for; the setpoints in the other order.
Round_NoFlow == <<Request("speed"), Request("cool"), Request("heat")>>
Round_HeatFirst == <<Request("speed"), Request("heat"), Request("cool"), Request("flow")>>
Round == <<Request("speed"), Request("cool"), Request("heat"), Request("flow")>>

\* The initial values, sent before the first round of a boot.
InitialValues == <<SetTemp("cool", 42), SetFlow("off")>>

\* sendNewStateToGateway().
\* Mutant: the heating setpoint is not reported.
StateReport_CoolOnly(t) == <<SetTemp("cool", t)>>
StateReport(t) == <<SetTemp("cool", t), SetTemp("heat", t)>>

\* Starting takes longer than what an earlier boot sent is on its way.
Boot ==
  /\ pc = "boot" /\ toHA = <<>>
  /\ pc' = "listen"
  /\ toHA' = InitialValues \o Round
  /\ clean' = "yes"
  /\ UNCHANGED <<power, mode, temp, modeString, unit, commanded, toNode, ha, accepts,
                 wish, counters>>

\* Five minutes have passed: so has what was on its way to the controller.
Wake ==
  /\ pc = "asleep" /\ toHA = <<>>
  /\ pc' = "listen"
  /\ toHA' = Round
  /\ clean' = "yes"
  /\ UNCHANGED <<power, mode, temp, modeString, unit, commanded, toNode, ha, accepts,
                 wish, counters>>

Idle == toHA = <<>> /\ toNode = <<>>

\* The waits are over: at least 20 s, long enough for the replies of the round,
\* but a setting and the reports on it may be on their way.
Sleep ==
  /\ pc = "listen"
  /\ \A i \in 1 .. Len(toHA) : toHA[i].kind # "request"
  /\ \A i \in 1 .. Len(toNode) : toNode[i].kind # "reply"
  /\ pc' = "asleep"
  /\ wish' = IF Idle THEN wish ELSE {}
  /\ UNCHANGED <<power, mode, temp, modeString, unit, commanded, toHA, toNode, ha,
                 accepts, clean, counters>>

\* receive() on a setpoint, a flow state and a speed: what becomes of the state.
TempAfter(m) == IF m.type \in Setpoints THEN Whole(m.temp) ELSE temp

PowerOf(flow) == IF flow = "off" THEN "off" ELSE "on"
ModeOf(flow)  == IF flow = "cool" THEN "cold" ELSE "hot"

PowerAfter(m)      == IF m.type = "flow" THEN PowerOf(m.flow) ELSE power
ModeAfter(m)       == IF m.type = "flow" /\ m.flow # "off" THEN ModeOf(m.flow) ELSE mode
ModeStringAfter(m) == IF m.type = "flow" THEN m.flow ELSE modeString

\* The flag of receive().
\* Mutant: only a new flow state sets it.
Changed_FlowOnly(m) == m.type = "flow" /\ m.flow # modeString
Changed(m) ==
  \/ m.type \in Setpoints /\ m.temp # temp
  \/ m.type = "flow" /\ m.flow # modeString

Receive ==
  /\ pc = "listen" /\ toNode # <<>>
  /\ LET m == Head(toNode) IN
       /\ power' = PowerAfter(m)
       /\ mode' = ModeAfter(m)
       /\ temp' = TempAfter(m)
       /\ modeString' = ModeStringAfter(m)
       /\ \/ /\ Changed(m)
             /\ unit' = [power |-> power', mode |-> mode', temp |-> temp']
             /\ commanded' = "yes"
          \/ /\ ~Changed(m)
             /\ UNCHANGED <<unit, commanded>>
  /\ toNode' = Tail(toNode)
  /\ toHA' = toHA \o StateReport(temp')
  /\ UNCHANGED <<pc, ha, accepts, clean, wish, counters>>

\* A message arrives at a node whose radio is off.
ArriveInVain ==
  /\ pc # "listen" /\ toNode # <<>>
  /\ toNode' = Tail(toNode)
  /\ UNCHANGED <<nodeVars, toHA, ha, accepts, clean, wish, counters>>

\* A power failure clears the globals; the heat pump stays as it was.
PowerFailure ==
  /\ "power" \in Faults /\ faults < MaxFaults
  /\ faults' = faults + 1
  /\ pc' = "boot"
  /\ power' = "on" /\ mode' = "hot" /\ temp' = 0 /\ modeString' = ""
  /\ commanded' = "no"
  /\ wish' = {}
  /\ UNCHANGED <<unit, linkVars, ha, accepts, clean, wishes>>

-----------------------------------------------------------------------------
(* The controller, as the node uses it, and the radio.                      *)

Accepted(m) == m.type \in Setpoints \/ accepts = "yes"

Updated(m) ==
  IF m.type \in Setpoints THEN [ha EXCEPT ![m.type] = m.temp] ELSE [ha EXCEPT !.flow = m.flow]

HandleReport ==
  /\ toHA # <<>> /\ Head(toHA).kind = "set"
  /\ toHA' = Tail(toHA)
  /\ ha' = IF Accepted(Head(toHA)) THEN Updated(Head(toHA)) ELSE ha
  /\ UNCHANGED <<nodeVars, toNode, accepts, clean, wish, counters>>

Reply(type) ==
  [kind |-> "reply", type |-> type,
   temp |-> IF type \in Setpoints THEN ha[type] ELSE 0,
   flow |-> IF type = "flow" THEN ha.flow ELSE ""]

HandleRequest ==
  /\ toHA # <<>> /\ Head(toHA).kind = "request"
  /\ toHA' = Tail(toHA)
  /\ toNode' = Append(toNode, Reply(Head(toHA).type))
  /\ UNCHANGED <<nodeVars, ha, accepts, clean, wish, counters>>

\* A setting made in Home Assistant is shown at once (optimistic) and sent.
\* With the node asleep and reports on their way, these may overwrite it: such a
\* wish is not remembered.
Wish(m) ==
  /\ wishes < MaxWishes
  /\ wishes' = wishes + 1
  /\ ha' = Updated(m)
  /\ toNode' = Append(toNode, m)
  /\ UNCHANGED <<nodeVars, toHA, accepts, clean, faults>>

WishHeat ==
  \E t \in Temps :
    /\ Wish(SetTemp("heat", t))
    /\ wish' = IF pc # "listen" /\ toHA # <<>> THEN {} ELSE {t}

WishCool == \E t \in Temps : Wish(SetTemp("cool", t)) /\ wish' = {}

WishFlow == \E f \in Asked : Wish(SetFlow(f)) /\ UNCHANGED wish

Lost ==
  /\ "loss" \in Faults /\ faults < MaxFaults
  /\ faults' = faults + 1
  /\ clean' = "no"
  /\ wish' = {}
  /\ UNCHANGED <<nodeVars, ha, accepts, wishes>>

LoseUp   == Lost /\ toHA # <<>> /\ toHA' = Tail(toHA) /\ UNCHANGED toNode
LoseDown == Lost /\ toNode # <<>> /\ toNode' = Tail(toNode) /\ UNCHANGED toHA

Next ==
  \/ Boot \/ Wake \/ Sleep \/ Receive \/ ArriveInVain \/ PowerFailure
  \/ HandleReport \/ HandleRequest
  \/ WishHeat \/ WishCool \/ WishFlow
  \/ LoseUp \/ LoseDown

Spec == Init /\ [][Next]_vars

\* loop() runs for ever and messages arrive.
FairSpec ==
  /\ Spec
  /\ WF_vars(Boot) /\ WF_vars(Wake) /\ WF_vars(Sleep)
  /\ WF_vars(Receive) /\ WF_vars(ArriveInVain)
  /\ WF_vars(HandleReport) /\ WF_vars(HandleRequest)

-----------------------------------------------------------------------------
\* A round without loss is over: all it asked for is answered and reported.
Settled == pc = "listen" /\ Idle /\ clean = "yes"

\* The heat pump does what a flow name says.
Does(f) ==
  /\ unit.power = PowerOf(f)
  /\ f # "off" => unit.mode = ModeOf(f)

\* What the heat pump was last sent is the node's state, although the float
\* received is compared with the int kept; before the first command of a boot
\* there is nothing to send.
UnitFollows ==
  IF commanded = "yes"
  THEN unit = [power |-> power, mode |-> mode, temp |-> temp]
  ELSE temp = 0 /\ modeString = ""

\* After a round without loss both setpoints of the controller are the node's,
\* whatever was set, reported late or overwritten before.
SetpointsAgree == Settled => ha.cool = temp /\ ha.heat = temp

\* After a round without loss the heat pump does what Home Assistant shows.
UnitAsShown == Settled => Does(ha.flow) /\ unit.temp = ha.heat

\* After a round without loss a heating setpoint is in force, also one set while
\* the node was asleep, unless a cooling setpoint followed it, it was set while
\* the node was falling asleep, or the node restarted.
HeatWishKept == Settled => \A t \in wish : temp = Whole(t)

\* Once nobody sets anything and nothing is lost, Home Assistant and the heat
\* pump come to agree for good.
FinallyAgree ==
  <>[](/\ ha.cool = temp /\ ha.heat = temp /\ unit.temp = temp
       /\ Does(ha.flow))
=============================================================================
