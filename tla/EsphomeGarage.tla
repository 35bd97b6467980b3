--------------------------- MODULE EsphomeGarage ---------------------------
(***************************************************************************)
(* The two doors of the ESPHome garage node.  Each template switch has an   *)
(* action for on, which holds a relay for half a second, and none for off.  *)
(* Whatever is written to a template switch stops its action that runs: a   *)
(* second press starts the delay again, and an off during the delay leaves  *)
(* the relay as it is, until the next press or a restart.  What describes   *)
(* the system as a whole is named EG..., after it.                          *)
(***************************************************************************)
EXTENDS Naturals

CONSTANTS
  Doors,   \* the template switches, each with a relay
  Delay    \* the ticks of 500ms

ASSUME DelayAssumption == Delay \in Nat \ {0}

VARIABLES
  relay,     \* of each door, garage_door_left_relay or garage_door_right_relay
  pending,   \* the doors whose action is in its delay
  left,      \* the ticks of it that are left
  since,     \* past: the ticks since the last press, up to Delay + 1
  cut        \* past: the doors whose action an off has stopped

EGvars == <<relay, pending, left, since, cut>>

EGTypeOK ==
  /\ relay \in [Doors -> {"on", "off"}]
  /\ pending \subseteq Doors
  /\ left \in [Doors -> 0 .. Delay]
  /\ since \in [Doors -> 0 .. Delay + 1]
  /\ cut \subseteq Doors

\* restore_mode: ALWAYS_OFF.  Mutant: the relay is restored as it was.
Restored_AsBefore == relay
Restored == [d \in Doors |-> "off"]

EGInit ==
  /\ relay = [d \in Doors |-> "off"]
  /\ pending = {}
  /\ left = [d \in Doors |-> 0]
  /\ since = [d \in Doors |-> Delay + 1]
  /\ cut = {}

\* Mutant: a second press does not stop the action that runs.
Started_Once(d) == IF d \in pending THEN left ELSE [left EXCEPT ![d] = Delay]
Started(d) == [left EXCEPT ![d] = Delay]

\* turn_on_action, up to its delay.
TurnOn(d) ==
  /\ relay' = [relay EXCEPT ![d] = "on"]
  /\ pending' = pending \cup {d}
  /\ left' = Started(d)
  /\ since' = [since EXCEPT ![d] = 0]
  /\ cut' = cut \ {d}

\* There is no turn_off_action, but what runs is stopped.
TurnOff(d) ==
  /\ cut' = cut \cup ({d} \cap pending)
  /\ pending' = pending \ {d}
  /\ UNCHANGED <<relay, left, since>>

\* Mutant: the relay of another door.
Released_Another(d) == [e \in Doors |-> IF e # d THEN "off" ELSE relay[e]]
Released(d) == [relay EXCEPT ![d] = "off"]

\* The rest of turn_on_action.
Finish(d) ==
  /\ d \in pending /\ left[d] = 0
  /\ relay' = Released(d)
  /\ pending' = pending \ {d}
  /\ UNCHANGED <<left, since, cut>>

Elapsed == [d \in Doors |-> IF d \in pending THEN left[d] - 1 ELSE left[d]]

\* A tick is longer than the loop of the node takes to see that a delay is over.
Tick ==
  /\ \A d \in pending : left[d] > 0
  /\ left' = Elapsed
  /\ since' = [d \in Doors |-> IF since[d] > Delay THEN since[d] ELSE since[d] + 1]
  /\ UNCHANGED <<relay, pending, cut>>

Restart ==
  /\ relay' = Restored
  /\ pending' = {}
  /\ left' = [d \in Doors |-> 0]
  /\ cut' = {}
  /\ UNCHANGED since

EGNext ==
  \/ \E d \in Doors : TurnOn(d) \/ TurnOff(d) \/ Finish(d)
  \/ Tick \/ Restart

EGSpec == EGInit /\ [][EGNext]_EGvars

\* Time goes by, and the node's loop runs.  Nothing obliges the users, nor power.
EGFairSpec == EGSpec /\ WF_EGvars(Tick) /\ \A d \in Doors : WF_EGvars(Finish(d))

-----------------------------------------------------------------------------
\* A relay is held for no longer than half a second after the last press, and while
\* an action is there to release it, unless an off has stopped that action.
NeverHeldLong ==
  \A d \in Doors \ cut : relay[d] = "on" => since[d] <= Delay /\ d \in pending

\* A pulse is not shortened by an earlier press: what releases a relay does so half
\* a second after the last one, a restart excepted.
PulseIsWhole ==
  [][\A d \in Doors : relay[d] = "on" /\ relay'[d] = "off" => since[d] = Delay \/ Restart]_EGvars

\* A relay that is held is released at last, unless it is pressed again for ever or
\* its action was stopped.
FinallyReleased ==
  \A d \in Doors :
    []<><<TurnOn(d)>>_EGvars \/ (relay[d] = "on" ~> relay[d] = "off" \/ d \in cut)
=============================================================================
