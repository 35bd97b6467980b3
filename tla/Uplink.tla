------------------------------- MODULE Uplink -------------------------------
(***************************************************************************)
(* What the transport of a MySensors node promises to the sketch above it: *)
(* it is connected through one parent or through none, keeps its parent    *)
(* until too many transmissions in a row have failed, and sends nothing    *)
(* but through that parent.  How a parent is found is left open.           *)
(***************************************************************************)
EXTENDS Naturals

CONSTANTS
  Parents,      \* the nodes that may be a parent
  NoParent,     \* no node at all
  MaxFailures   \* transmissions that may fail in a row before the parent is given up

VARIABLES
  running,      \* whether the node has power
  parent,       \* the parent of a connected node, or NoParent
  failures      \* transmissions that failed in a row since the node connected

Connected == parent # NoParent

Init ==
  /\ running = TRUE
  /\ parent = NoParent
  /\ failures = 0

Connect ==
  /\ running
  /\ ~Connected
  /\ parent' \in Parents
  /\ failures' = 0
  /\ UNCHANGED running

\* A transmission succeeds or fails; the parent stays.
Transmit ==
  /\ Connected
  /\ failures' \in {0, failures + 1}
  /\ UNCHANGED <<running, parent>>

GiveUp ==
  /\ failures > MaxFailures
  /\ parent' = NoParent
  /\ failures' = 0
  /\ UNCHANGED running

PowerFailure ==
  /\ running' = FALSE
  /\ parent' = NoParent
  /\ failures' = 0

PowerUp ==
  /\ ~running
  /\ running' = TRUE
  /\ UNCHANGED <<parent, failures>>

Next == Connect \/ Transmit \/ GiveUp \/ PowerFailure \/ PowerUp

vars == <<running, parent, failures>>

Spec == Init /\ [][Next]_vars
=============================================================================
