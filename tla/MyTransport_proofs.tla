-------------------------- MODULE MyTransport_proofs --------------------------
(***************************************************************************)
(* Theorems about the transport of a MySensors node, for any neighbours    *)
(* and any limits: types, the route, the confirmation of the uplink, the   *)
(* counter of failures, and that the transport implements an Uplink.       *)
(***************************************************************************)
EXTENDS MyTransport, TLAPS

\* What each state of the machine knows: no route without an active radio, no
\* state past the search without a parent, none past ID without an ID.
Phases ==
  /\ sm.state \in {"Init", "Failure"} => ~sm.transportActive
  /\ sm.state = "Parent" => sm.findingParentNode /\ sm.transportActive
  /\ sm.state \in {"ID", "Uplink", "Ready"} =>
       sm.transportActive /\ ~sm.findingParentNode /\ config.parentNodeId # AUTO
  /\ sm.state \in {"Uplink", "Ready"} => config.nodeId = "assigned"
  /\ sm.uplinkOk <=> sm.state = "Ready"

\* Unless a search began with pongs under way, those under way are the answers
\* of the parent it found.
PongsInOrder ==
  late = "no" =>
    /\ sm.state = "Parent" => \A n \in Neighbours : [kind |-> "pong", node |-> n] \notin flight
    /\ sm.state \in {"ID", "Uplink", "Ready"} =>
         \A n \in Neighbours \ {config.parentNodeId} : [kind |-> "pong", node |-> n] \notin flight
    /\ (sm.state = "Uplink" /\ sm.pingResponse # Invalid) \/ sm.state = "Ready" =>
         confirmed = config.parentNodeId

\* While the node is ready its counter shows the failures in a row until it comes
\* round, which without a leap it does not before the next look.
Counting ==
  sm.uplinkOk =>
    /\ sm.failedUplinkTransmissions <= streak.failed
    /\ streak.failed < CounterSize => sm.failedUplinkTransmissions = streak.failed
    /\ \/ streak.leapt
       \/ streak.failed = streak.seen
       \/ streak.failed + MaxTxFailures < streak.seen + CounterSize
    /\ streak.seen <= MaxTxFailures \/ (streak.seen >= CounterSize /\ streak.leapt)

IInv == TypeOK /\ Phases /\ PongsInOrder /\ Counting

-----------------------------------------------------------------------------
\* A remainder is within its modulus, and a number below it is its own.
LEMMA Remainders ==
  ASSUME NEW n \in Nat, NEW m \in Nat, m > 0
  PROVE  n % m \in 0 .. (m - 1) /\ n % m <= n /\ (n < m => n % m = n)
  OBVIOUS

\* What the assumption says of the ranges of the fields.
LEMMA Ranges ==
  /\ 0 \in 0 .. (CounterSize - 1)
  /\ CounterSize > 0
  /\ Invalid \in 0 .. Invalid
  /\ \A n \in Neighbours : Distance[n] + 1 \in 0 .. Invalid
<1>1. CounterSize > 0
  BY TransportAssumption
<1>2. ASSUME NEW n \in Neighbours
      PROVE  Distance[n] + 1 \in 0 .. Invalid
  <2>1. Distance[n] \in Nat /\ Distance[n] + 1 < Invalid
    BY TransportAssumption
  <2>2. QED  BY <2>1, TransportAssumption
<1>3. QED  BY <1>1, <1>2, TransportAssumption

\* The counter of failures of the state machine stays within its bits.
LEMMA FailuresInRange ==
  ASSUME TypeOK
  PROVE  FailuresInARow \in 0 .. MaxTsmFailures
<1>1. sm.failureCounter \in 0 .. MaxTsmFailures
  BY DEF TypeOK, Machines
<1>2. QED  BY <1>1, TransportAssumption DEF FailuresInARow

\* The counter after a transmission, as long as there is room.
LEMMA CountedInRange ==
  ASSUME TypeOK, NEW s, s.failedUplinkTransmissions \in 0 .. (CounterSize - 1),
         NEW ack \in BOOLEAN
  PROVE  /\ Counted(s, ack) \in 0 .. (CounterSize - 1)
         /\ Counted(s, ack) <= IF ack THEN 0 ELSE s.failedUplinkTransmissions + 1
         /\ s.failedUplinkTransmissions + 1 < CounterSize =>
              Counted(s, ack) = IF ack THEN 0 ELSE s.failedUplinkTransmissions + 1
  BY TransportAssumption, Remainders DEF Counted

\* A streak that ends or goes on.
LEMMA StreakLength ==
  ASSUME TypeOK
  PROVE  /\ NoStreak \in Streaks /\ Longer \in Streaks
         /\ Longer.failed = streak.failed + 1 /\ Longer.seen = streak.seen
         /\ Longer.leapt = (streak.leapt
              \/ streak.failed + 1 + MaxTxFailures >= streak.seen + CounterSize)
<1>1. streak \in Streaks
  BY DEF TypeOK
<1>2. NoStreak \in Streaks
  BY DEF NoStreak, Streaks
<1>3. streak.failed + 1 \in Nat
  BY <1>1 DEF Streaks
<1> QED BY <1>1, <1>2, <1>3 DEF Longer, Streaks

\* A transmission of a node that is ready keeps the count.
LEMMA CountingGoesOn ==
  ASSUME TypeOK, Counting, sm.uplinkOk, NEW ack \in BOOLEAN,
         sm' = [sm EXCEPT !.failedUplinkTransmissions = Counted(sm, ack)],
         streak' = IF ack THEN NoStreak ELSE Longer
  PROVE  Counting'
<1> DEFINE f == sm.failedUplinkTransmissions
<1>1. sm'.failedUplinkTransmissions = Counted(sm, ack) /\ f \in 0 .. (CounterSize - 1)
  BY DEF TypeOK, Machines
<1>2. /\ streak.failed \in Nat /\ streak.seen \in Nat /\ streak.leapt \in BOOLEAN
      /\ MaxTxFailures \in Nat /\ CounterSize \in Nat \ {0}
  BY TransportAssumption DEF TypeOK, Streaks
<1>3. /\ Counted(sm, ack) \in 0 .. (CounterSize - 1)
      /\ Counted(sm, ack) <= IF ack THEN 0 ELSE f + 1
      /\ f + 1 < CounterSize => Counted(sm, ack) = IF ack THEN 0 ELSE f + 1
  BY <1>1, CountedInRange
<1> HIDE DEF f
<1>4. CASE ack
  <2>1. streak'.failed = 0 /\ streak'.seen = 0
    BY <1>4 DEF NoStreak
  <2>2. sm'.failedUplinkTransmissions = 0
    BY <1>1, <1>4 DEF Counted
  <2> QED BY <1>2, <2>1, <2>2 DEF Counting
<1>5. CASE ~ack
  <2>1. /\ streak'.failed = streak.failed + 1 /\ streak'.seen = streak.seen
        /\ streak'.leapt = (streak.leapt
              \/ streak.failed + 1 + MaxTxFailures >= streak.seen + CounterSize)
    BY <1>5, StreakLength
  <2>2. f <= streak.failed /\ (streak.failed < CounterSize => f = streak.failed)
    BY DEF Counting, f
  <2> DEFINE g == sm'.failedUplinkTransmissions
             n == streak.failed
             m == streak'.failed
  <2>6. /\ g \in 0 .. (CounterSize - 1) /\ g <= f + 1
        /\ f + 1 < CounterSize => g = f + 1
        /\ f \in 0 .. (CounterSize - 1) /\ n \in Nat /\ m = n + 1
        /\ f <= n /\ (n < CounterSize => f = n)
    BY <1>1, <1>2, <1>3, <1>5, <2>1, <2>2
  <2> HIDE DEF g, n, m
  <2>7. g <= m /\ (m < CounterSize => g = m)
    BY <1>2, <2>6
  <2>3. /\ sm'.failedUplinkTransmissions <= streak'.failed
        /\ streak'.failed < CounterSize
             => sm'.failedUplinkTransmissions = streak'.failed
    BY <2>7 DEF g, m
  <2>4. \/ streak'.leapt
        \/ streak'.failed = streak'.seen
        \/ streak'.failed + MaxTxFailures < streak'.seen + CounterSize
    <3>1. CASE streak.failed + 1 + MaxTxFailures >= streak.seen + CounterSize
      BY <2>1, <3>1
    <3>2. CASE streak.failed + 1 + MaxTxFailures < streak.seen + CounterSize
      BY <2>1, <3>2
    <3> QED BY <1>2, <3>1, <3>2
  <2>5. \/ streak'.seen <= MaxTxFailures
        \/ streak'.seen >= CounterSize /\ streak'.leapt
    BY <2>1 DEF Counting
  <2> QED BY <2>3, <2>4, <2>5 DEF Counting
<1> QED BY <1>4, <1>5

\* Entering a state counts or restarts its retries.
LEMMA SwitchedRetries ==
  ASSUME NEW s, s.stateRetries \in Nat, NEW to \in States
  PROVE  \E r \in Nat : Switched(s, to) = [s EXCEPT !.state = to, !.stateRetries = r]
<1>1. CASE s.state = to
  <2>1. s.stateRetries + 1 \in Nat
    OBVIOUS
  <2>2. Switched(s, to) = [s EXCEPT !.state = to, !.stateRetries = s.stateRetries + 1]
    BY <1>1 DEF Switched
  <2>3. QED  BY <2>1, <2>2
<1>2. CASE s.state # to
  BY <1>2 DEF Switched
<1>3. QED  BY <1>1, <1>2

LEMMA InitIInv == Init => IInv
  BY TransportAssumption
  DEF Init, NoStreak, Streaks, IInv, TypeOK, Machines, Configs, Phases, PongsInOrder, Counting, Started, Stored, States, Answers

-----------------------------------------------------------------------------
(* Each transition keeps the invariant.                                     *)

LEMMA SendMessageKeeps ==
  ASSUME IInv, SendMessage
  PROVE  IInv'
<1>. PICK ack \in BOOLEAN :
       /\ sm' = [sm EXCEPT !.failedUplinkTransmissions = Counted(sm, ack)]
       /\ streak' = IF ack THEN NoStreak ELSE Longer
       /\ flight' = flight
  BY DEF SendMessage, Transmit, Outcomes
<1>. sm.failedUplinkTransmissions \in 0 .. (CounterSize - 1)
  BY DEF IInv, TypeOK, Machines
<1>0. /\ Counted(sm, ack) \in 0 .. (CounterSize - 1)
      /\ Counted(sm, ack) <= IF ack THEN 0 ELSE sm.failedUplinkTransmissions + 1
      /\ sm.failedUplinkTransmissions + 1 < CounterSize =>
           Counted(sm, ack) = IF ack THEN 0 ELSE sm.failedUplinkTransmissions + 1
  BY CountedInRange DEF IInv
<1>1. TypeOK'
  <2>1. sm' \in Machines
    BY TransportAssumption, Ranges, <1>0
    DEF IInv, TypeOK, Machines, Phases, States,
        SendMessage
  <2>2. config' \in Configs
    BY TransportAssumption, Ranges, <1>0
    DEF IInv, TypeOK, Configs, Phases,
        SendMessage
  <2>3. streak' \in Streaks
    BY StreakLength DEF IInv
  <2>4. QED  BY <2>1, <2>2, <2>3 DEF IInv, TypeOK, SendMessage
<1>2. Phases'
  BY TransportAssumption, Ranges, <1>0
  DEF IInv, TypeOK, Machines, Configs, Phases,
      SendMessage
<1>3. PongsInOrder'
  BY TransportAssumption, Ranges, <1>0
  DEF IInv, TypeOK, Machines, Configs, Phases, PongsInOrder,
      SendMessage
<1>4. Counting'
  <2>1. sm'.uplinkOk = sm.uplinkOk
    BY DEF IInv, TypeOK, Machines
  <2> QED BY <2>1, CountingGoesOn DEF IInv, Counting
<1>. QED  BY <1>1, <1>2, <1>3, <1>4 DEF IInv

LEMMA AnswerPingKeeps ==
  ASSUME IInv, AnswerPing
  PROVE  IInv'
<1>. PICK ack \in BOOLEAN :
       /\ sm' = [sm EXCEPT !.failedUplinkTransmissions = Counted(sm, ack)]
       /\ streak' = IF ack THEN NoStreak ELSE Longer
       /\ flight' = flight
  BY DEF AnswerPing, Transmit, Outcomes
<1>. sm.failedUplinkTransmissions \in 0 .. (CounterSize - 1)
  BY DEF IInv, TypeOK, Machines
<1>0. /\ Counted(sm, ack) \in 0 .. (CounterSize - 1)
      /\ Counted(sm, ack) <= IF ack THEN 0 ELSE sm.failedUplinkTransmissions + 1
      /\ sm.failedUplinkTransmissions + 1 < CounterSize =>
           Counted(sm, ack) = IF ack THEN 0 ELSE sm.failedUplinkTransmissions + 1
  BY CountedInRange DEF IInv
<1>1. TypeOK'
  <2>1. sm' \in Machines
    BY TransportAssumption, Ranges, <1>0
    DEF IInv, TypeOK, Machines, Phases, States,
        AnswerPing
  <2>2. config' \in Configs
    BY TransportAssumption, Ranges, <1>0
    DEF IInv, TypeOK, Configs, Phases,
        AnswerPing
  <2>3. streak' \in Streaks
    BY StreakLength DEF IInv
  <2>4. QED  BY <2>1, <2>2, <2>3 DEF IInv, TypeOK, AnswerPing
<1>2. Phases'
  BY TransportAssumption, Ranges, <1>0
  DEF IInv, TypeOK, Machines, Configs, Phases,
      AnswerPing
<1>3. PongsInOrder'
  BY TransportAssumption, Ranges, <1>0
  DEF IInv, TypeOK, Machines, Configs, Phases, PongsInOrder,
      AnswerPing
<1>4. Counting'
  <2>1. sm'.uplinkOk = sm.uplinkOk
    BY DEF IInv, TypeOK, Machines
  <2> QED BY <2>1, CountingGoesOn DEF IInv, Counting
<1>. QED  BY <1>1, <1>2, <1>3, <1>4 DEF IInv

LEMMA FailureUpdateKeeps ==
  ASSUME IInv, FailureUpdate
  PROVE  IInv'
<1>1. TypeOK'
  <2>1. sm' \in Machines
    BY TransportAssumption, Ranges
    DEF IInv, TypeOK, Machines, Phases, States,
        FailureUpdate, Updating, EnterInit, Switched, Stored
  <2>2. config' \in Configs
    BY TransportAssumption, Ranges
    DEF IInv, TypeOK, Configs, Phases,
        FailureUpdate, Updating, EnterInit, Switched, Stored
  <2>3. QED  BY TransportAssumption, Ranges, <2>1, <2>2
    DEF IInv, TypeOK, Answers,
        FailureUpdate, Updating, EnterInit, Switched, Stored
<1>2. Phases'
  BY TransportAssumption, Ranges
  DEF IInv, TypeOK, Machines, Configs, Phases,
      FailureUpdate, Updating, EnterInit, Switched, Stored
<1>3. PongsInOrder'
  BY TransportAssumption, Ranges
  DEF IInv, TypeOK, Machines, Configs, Phases, PongsInOrder,
      FailureUpdate, Updating, EnterInit, Switched, Stored
<1>4. Counting'
  BY TransportAssumption, Ranges
  DEF IInv, TypeOK, Machines, Configs, Phases, Counting,
      FailureUpdate, Updating, EnterInit, Switched, Stored
<1>. QED  BY <1>1, <1>2, <1>3, <1>4 DEF IInv

LEMMA EnterFailureKeeps ==
  ASSUME IInv, EnterFailure, UNCHANGED <<power, air>>
  PROVE  IInv'
<1>1. TypeOK'
  <2>1. sm' \in Machines
    <3>1. PICK r \in Nat :
            Switched(sm, "Failure") = [sm EXCEPT !.state = "Failure", !.stateRetries = r]
      <4>1. sm.stateRetries \in Nat /\ "Failure" \in States
        BY DEF IInv, TypeOK, Machines, States
      <4>2. QED  BY <4>1, SwitchedRetries
    <3>2. PICK f \in 0 .. MaxTsmFailures : f = FailuresInARow
      BY FailuresInRange DEF IInv
    <3>3. sm' = [[sm EXCEPT !.state = "Failure", !.stateRetries = r] EXCEPT
                   !.failureCounter = f, !.uplinkOk = FALSE, !.transportActive = FALSE]
      BY <3>1, <3>2 DEF EnterFailure
    <3>4. sm \in Machines
      BY DEF IInv, TypeOK
    <3>5. QED  BY <3>3, <3>4 DEF States, Machines
  <2>2. config' \in Configs
    BY TransportAssumption, Ranges
    DEF IInv, TypeOK, Configs, Phases,
        EnterFailure, Switched
  <2>3. QED  BY TransportAssumption, Ranges, <2>1, <2>2
    DEF IInv, TypeOK, Answers,
        EnterFailure, Switched
<1>2. Phases'
  BY TransportAssumption, Ranges
  DEF IInv, TypeOK, Machines, Configs, Phases,
      EnterFailure, Switched
<1>3. PongsInOrder'
  BY TransportAssumption, Ranges
  DEF IInv, TypeOK, Machines, Configs, Phases, PongsInOrder,
      EnterFailure, Switched
<1>4. Counting'
  BY TransportAssumption, Ranges
  DEF IInv, TypeOK, Machines, Configs, Phases, Counting,
      EnterFailure, Switched
<1>. QED  BY <1>1, <1>2, <1>3, <1>4 DEF IInv

LEMMA ReceiveParentKeeps ==
  ASSUME IInv, NEW n \in Neighbours, ReceiveParent(n)
  PROVE  IInv'
<1>1. TypeOK'
  <2>1. sm' \in Machines
    BY TransportAssumption, Ranges
    DEF IInv, TypeOK, Machines, Phases, States,
        ReceiveParent, Received, Nearer
  <2>2. config' \in Configs
    BY TransportAssumption, Ranges
    DEF IInv, TypeOK, Configs, Phases,
        ReceiveParent, Received, Nearer
  <2>3. QED  BY TransportAssumption, Ranges, <2>1, <2>2
    DEF IInv, TypeOK, Answers,
        ReceiveParent, Received, Nearer
<1>2. Phases'
  BY TransportAssumption, Ranges
  DEF IInv, TypeOK, Machines, Configs, Phases,
      ReceiveParent, Received, Nearer
<1>3. PongsInOrder'
  BY TransportAssumption, Ranges
  DEF IInv, TypeOK, Machines, Configs, Phases, PongsInOrder,
      ReceiveParent, Received, Nearer
<1>4. Counting'
  BY TransportAssumption, Ranges
  DEF IInv, TypeOK, Machines, Configs, Phases, Counting,
      ReceiveParent, Received, Nearer
<1>. QED  BY <1>1, <1>2, <1>3, <1>4 DEF IInv

LEMMA ReceiveIDKeeps ==
  ASSUME IInv, NEW t, NEW valid, ReceiveID(t, valid)
  PROVE  IInv'
<1>1. TypeOK'
  <2>1. sm' \in Machines
    BY TransportAssumption, Ranges
    DEF IInv, TypeOK, Machines, Phases, States,
        ReceiveID, Received
  <2>2. config' \in Configs
    BY TransportAssumption, Ranges
    DEF IInv, TypeOK, Configs, Phases,
        ReceiveID, Received
  <2>3. QED  BY TransportAssumption, Ranges, <2>1, <2>2
    DEF IInv, TypeOK, Answers,
        ReceiveID, Received
<1>2. Phases'
  BY TransportAssumption, Ranges
  DEF IInv, TypeOK, Machines, Configs, Phases,
      ReceiveID, Received
<1>3. PongsInOrder'
  BY TransportAssumption, Ranges
  DEF IInv, TypeOK, Machines, Configs, Phases, PongsInOrder,
      ReceiveID, Received
<1>4. Counting'
  BY TransportAssumption, Ranges
  DEF IInv, TypeOK, Machines, Configs, Phases, Counting,
      ReceiveID, Received
<1>. QED  BY <1>1, <1>2, <1>3, <1>4 DEF IInv

LEMMA ReceivePongKeeps ==
  ASSUME IInv, NEW n \in Neighbours, ReceivePong(n)
  PROVE  IInv'
<1>1. TypeOK'
  <2>1. sm' \in Machines
    <3>1. Distance[n] + 1 \in 0 .. Invalid
      BY Ranges
    <3>2. sm \in Machines
      BY DEF IInv, TypeOK
    <3>3. QED  BY <3>1, <3>2 DEF States, Machines, ReceivePong, Received
  <2>2. config' \in Configs
    BY TransportAssumption, Ranges
    DEF IInv, TypeOK, Configs, Phases,
        ReceivePong, Received
  <2>3. QED  BY TransportAssumption, Ranges, <2>1, <2>2
    DEF IInv, TypeOK, Answers,
        ReceivePong, Received
<1>2. Phases'
  BY TransportAssumption, Ranges
  DEF IInv, TypeOK, Machines, Configs, Phases,
      ReceivePong, Received
<1>3. PongsInOrder'
  BY TransportAssumption, Ranges
  DEF IInv, TypeOK, Machines, Configs, Phases, PongsInOrder,
      ReceivePong, Received
<1>4. Counting'
  BY TransportAssumption, Ranges
  DEF IInv, TypeOK, Machines, Configs, Phases, Counting,
      ReceivePong, Received
<1>. QED  BY <1>1, <1>2, <1>3, <1>4 DEF IInv

LEMMA AirAndPowerKeep ==
  ASSUME IInv, Lose \/ CalmDown \/ FallAsleep \/ WakeUp \/ PowerUp
  PROVE  IInv'
<1>1. TypeOK'
  <2>1. sm' \in Machines
    BY TransportAssumption, Ranges
    DEF IInv, TypeOK, Machines, Phases, States,
        Lose, CalmDown, FallAsleep, WakeUp, PowerUp
  <2>2. config' \in Configs
    BY TransportAssumption, Ranges
    DEF IInv, TypeOK, Configs, Phases,
        Lose, CalmDown, FallAsleep, WakeUp, PowerUp
  <2>3. QED  BY TransportAssumption, Ranges, <2>1, <2>2
    DEF IInv, TypeOK, Answers,
        Lose, CalmDown, FallAsleep, WakeUp, PowerUp
<1>2. Phases'
  BY TransportAssumption, Ranges
  DEF IInv, TypeOK, Machines, Configs, Phases,
      Lose, CalmDown, FallAsleep, WakeUp, PowerUp
<1>3. PongsInOrder'
  BY TransportAssumption, Ranges
  DEF IInv, TypeOK, Machines, Configs, Phases, PongsInOrder,
      Lose, CalmDown, FallAsleep, WakeUp, PowerUp
<1>4. Counting'
  BY TransportAssumption, Ranges
  DEF IInv, TypeOK, Machines, Configs, Phases, Counting,
      Lose, CalmDown, FallAsleep, WakeUp, PowerUp
<1>. QED  BY <1>1, <1>2, <1>3, <1>4 DEF IInv

LEMMA PowerFailureKeeps ==
  ASSUME IInv, PowerFailure
  PROVE  IInv'
<1>1. TypeOK'
  <2>1. sm' \in Machines
    BY TransportAssumption, Ranges
    DEF IInv, TypeOK, Machines, Phases, States,
        PowerFailure, Started, Stored
  <2>2. config' \in Configs
    BY TransportAssumption, Ranges
    DEF IInv, TypeOK, Configs, Phases,
        PowerFailure, Started, Stored
  <2>3. QED  BY StreakLength, <2>1, <2>2 DEF IInv, TypeOK, PowerFailure
<1>2. Phases'
  BY TransportAssumption, Ranges
  DEF IInv, TypeOK, Machines, Configs, Phases,
      PowerFailure, Started, Stored
<1>3. PongsInOrder'
  BY TransportAssumption, Ranges
  DEF IInv, TypeOK, Machines, Configs, Phases, PongsInOrder,
      PowerFailure, Started, Stored
<1>4. Counting'
  BY TransportAssumption, Ranges
  DEF IInv, TypeOK, Machines, Configs, Phases, Counting,
      PowerFailure, Started, Stored
<1>. QED  BY <1>1, <1>2, <1>3, <1>4 DEF IInv

LEMMA UplinkConfirmedKeeps ==
  ASSUME IInv, UplinkConfirmed
  PROVE  IInv'
<1>1. TypeOK'
  <2>1. sm' \in Machines
    <3>1. 0 \in 0 .. (CounterSize - 1) /\ 0 \in 0 .. MaxTsmFailures
      BY TransportAssumption, Ranges
    <3>2. sm \in Machines
      BY DEF IInv, TypeOK
    <3>3. QED  BY <3>1, <3>2 DEF States, Machines, UplinkConfirmed, Updating, EnterReady, Switched
  <2>2. config' \in Configs
    BY TransportAssumption, Ranges
    DEF IInv, TypeOK, Machines, Configs, Phases,
        UplinkConfirmed, Updating, EnterReady, Switched
  <2>3. QED  BY StreakLength, <2>1, <2>2
    DEF IInv, TypeOK, UplinkConfirmed, Updating, EnterReady
<1>2. Phases'
  BY TransportAssumption, Ranges
  DEF IInv, TypeOK, Machines, Configs, Phases,
      UplinkConfirmed, Updating, EnterReady, Switched
<1>3. PongsInOrder'
  BY TransportAssumption, Ranges
  DEF IInv, TypeOK, Machines, Configs, Phases, PongsInOrder,
      UplinkConfirmed, Updating, EnterReady, Switched
<1>4. Counting'
  <2>1. streak'.failed = 0 /\ streak'.seen = 0
    BY DEF UplinkConfirmed, EnterReady, NoStreak
  <2>2. sm'.failedUplinkTransmissions = 0
    BY DEF UplinkConfirmed, EnterReady, Switched, IInv, TypeOK, Machines
  <2> QED BY <2>1, <2>2, TransportAssumption DEF Counting
<1>. QED  BY <1>1, <1>2, <1>3, <1>4 DEF IInv

\* The search for a parent, by whatever way it begins.
LEMMA EnterParentKeeps ==
  ASSUME IInv, NEW s \in Machines, s.transportActive = TRUE, EnterParent(s),
         UNCHANGED <<power, air>>
  PROVE  IInv'
<1>0. s.stateRetries \in Nat /\ "Parent" \in States
  BY DEF Machines, States
<1>1. PICK r \in Nat : Switched(s, "Parent") = [s EXCEPT !.state = "Parent", !.stateRetries = r]
  BY <1>0, SwitchedRetries
<1>2. sm' = [[s EXCEPT !.state = "Parent", !.stateRetries = r] EXCEPT
               !.uplinkOk = FALSE, !.findingParentNode = TRUE, !.failedUplinkTransmissions = 0]
  BY <1>1 DEF EnterParent
<1>3. sm' \in Machines
  BY <1>0, <1>2, Ranges DEF Machines
<1>4. /\ sm'.state = "Parent" /\ sm'.transportActive = TRUE /\ sm'.findingParentNode = TRUE
      /\ sm'.uplinkOk = FALSE
  BY <1>2 DEF Machines
<1>5. PICK heard \in SUBSET Neighbours :
        flight' = flight \cup [kind : {"parent"}, node : heard]
  BY DEF EnterParent
<1>6. flight' \subseteq Answers
  BY <1>5 DEF IInv, TypeOK, Answers
<1>7. config' \in Configs
  BY Ranges DEF IInv, TypeOK, Configs, EnterParent
<1>8. TypeOK'
  BY <1>3, <1>6, <1>7, StreakLength DEF IInv, TypeOK, EnterParent
<1>9. late' = "no" => \A n \in Neighbours : [kind |-> "pong", node |-> n] \notin flight'
  <2>1. ASSUME late' = "no", NEW n \in Neighbours
        PROVE  [kind |-> "pong", node |-> n] \notin flight
    BY <2>1 DEF EnterParent
  <2>2. QED  BY <2>1, <1>5
<1>10. Phases'
  BY <1>4 DEF Phases
<1>11. PongsInOrder'
  BY <1>4, <1>9 DEF PongsInOrder
<1>12. Counting'
  BY <1>4 DEF Counting
<1>13. QED  BY <1>8, <1>10, <1>11, <1>12 DEF IInv

\* Asking for an ID, with the parent that was found.
LEMMA EnterIDKeeps ==
  ASSUME IInv, NEW s \in Machines, s.transportActive = TRUE, s.findingParentNode = FALSE,
         s.uplinkOk = FALSE, sm.state \in {"Parent", "ID"}, config.parentNodeId # AUTO,
         EnterID(s), UNCHANGED <<power, air>>
  PROVE  IInv'
<1>0. s.stateRetries \in Nat /\ "ID" \in States
  BY DEF Machines, States
<1>1. PICK r \in Nat : Switched(s, "ID") = [s EXCEPT !.state = "ID", !.stateRetries = r]
  BY <1>0, SwitchedRetries
<1>2. PICK f \in 0 .. (CounterSize - 1) :
        sm' = [[s EXCEPT !.state = "ID", !.stateRetries = r] EXCEPT
                 !.failedUplinkTransmissions = f]
  <2>1. CASE config.nodeId = "none"
    <3>1. PICK ack \in BOOLEAN :
            sm' = [Switched(s, "ID") EXCEPT
                     !.failedUplinkTransmissions = Counted(Switched(s, "ID"), ack)]
      BY <2>1 DEF EnterID, Transmit, Outcomes
    <3>2. Switched(s, "ID").failedUplinkTransmissions \in 0 .. (CounterSize - 1)
      BY <1>1 DEF Machines
    <3>3. PICK f \in 0 .. (CounterSize - 1) : f = Counted(Switched(s, "ID"), ack)
      BY <3>2, CountedInRange DEF IInv
    <3>4. QED  BY <3>1, <3>3, <1>1
  <2>2. CASE config.nodeId # "none"
    <3>1. sm' = Switched(s, "ID")
      BY <2>2 DEF EnterID
    <3>2. s.failedUplinkTransmissions \in 0 .. (CounterSize - 1)
      BY DEF Machines
    <3>3. sm' = [[s EXCEPT !.state = "ID", !.stateRetries = r] EXCEPT
                   !.failedUplinkTransmissions = s.failedUplinkTransmissions]
      BY <3>1, <1>1 DEF Machines
    <3>4. QED  BY <3>2, <3>3
  <2>3. QED  BY <2>1, <2>2
<1>3. sm' \in Machines
  BY <1>0, <1>2 DEF Machines
<1>4. /\ sm'.state = "ID" /\ sm'.transportActive = TRUE /\ sm'.findingParentNode = FALSE
      /\ sm'.uplinkOk = FALSE
  BY <1>2 DEF Machines
<1>5. token' \in Tokens /\ flight' \subseteq Answers /\ streak' \in Streaks
  <2>1. CASE config.nodeId = "none"
    <3>1. token' \in Tokens
      BY <2>1 DEF EnterID
    <3>2. streak' \in Streaks
      BY <2>1, StreakLength DEF EnterID, Transmit, IInv
    <3>3. flight' \subseteq Answers
      <4>1. PICK valid \in BOOLEAN :
              \/ flight' = flight
              \/ flight' = flight \cup [kind : {"id"}, token : {token'}, valid : {valid}]
        BY <2>1 DEF EnterID, Transmit, Outcomes
      <4>2. [kind : {"id"}, token : {token'}, valid : {valid}] \subseteq Answers
        BY <3>1 DEF Answers
      <4>3. QED  BY <4>1, <4>2 DEF IInv, TypeOK
    <3>4. QED  BY <3>1, <3>2, <3>3
  <2>2. CASE config.nodeId # "none"
    BY <2>2 DEF EnterID, IInv, TypeOK
  <2>3. QED  BY <2>1, <2>2
<1>6. TypeOK'
  BY <1>3, <1>5, TransportAssumption DEF IInv, TypeOK, EnterID
<1>7. \A n \in Neighbours : [kind |-> "pong", node |-> n] \in flight' =>
        [kind |-> "pong", node |-> n] \in flight
  BY DEF EnterID, Transmit
<1>8. Phases'
  BY <1>4 DEF Phases, EnterID
<1>9. PongsInOrder'
  BY <1>4, <1>7 DEF PongsInOrder, EnterID, IInv
<1>10. Counting'
  BY <1>4 DEF Counting
<1>11. QED  BY <1>6, <1>8, <1>9, <1>10 DEF IInv

\* The ping to the gateway, through the parent.
LEMMA EnterUplinkKeeps ==
  ASSUME IInv, sm.state \in {"ID", "Uplink"}, config.nodeId # "none",
         EnterUplink, UNCHANGED <<power, air>>
  PROVE  IInv'
<1>0. /\ sm \in Machines /\ sm.stateRetries \in Nat /\ "Uplink" \in States
      /\ sm.transportActive = TRUE /\ sm.findingParentNode = FALSE /\ sm.uplinkOk = FALSE
      /\ config.parentNodeId \in Neighbours /\ config.nodeId = "assigned"
  BY DEF Machines, Configs, States, IInv, TypeOK, Phases
<1>1. PICK r \in Nat : Switched(sm, "Uplink") = [sm EXCEPT !.state = "Uplink", !.stateRetries = r]
  BY <1>0, SwitchedRetries
<1> DEFINE s == Pinging(Switched(sm, "Uplink"))
<1>2. PICK ack \in BOOLEAN : sm' = [s EXCEPT !.failedUplinkTransmissions = Counted(s, ack)]
  BY DEF EnterUplink, Transmit, Outcomes
<1>3. s \in Machines
  <2>1. s = [[sm EXCEPT !.state = "Uplink", !.stateRetries = r] EXCEPT
               !.pingActive = TRUE, !.pingResponse = Invalid]
    BY <1>1 DEF Pinging
  <2>2. QED  BY <2>1, <1>0, Ranges DEF Machines
<1>4. /\ s.state = "Uplink" /\ s.transportActive = TRUE /\ s.findingParentNode = FALSE
      /\ s.uplinkOk = FALSE /\ s.pingResponse = Invalid
      /\ s.failedUplinkTransmissions \in 0 .. (CounterSize - 1)
  BY <1>0, <1>1 DEF Machines, Pinging
<1>5. PICK f \in 0 .. (CounterSize - 1) : sm' = [s EXCEPT !.failedUplinkTransmissions = f]
  <2>1. Counted(s, ack) \in 0 .. (CounterSize - 1)
    BY <1>4, CountedInRange DEF IInv
  <2>2. QED  BY <2>1, <1>2
<1> HIDE DEF s
<1>6. sm' \in Machines
  BY <1>3, <1>5 DEF Machines
<1>7. /\ sm'.state = "Uplink" /\ sm'.transportActive = TRUE /\ sm'.findingParentNode = FALSE
      /\ sm'.uplinkOk = FALSE /\ sm'.pingResponse = Invalid
  BY <1>3, <1>4, <1>5 DEF Machines
<1>8. flight' = flight \/ flight' = flight \cup [kind : {"pong"}, node : {config.parentNodeId}]
  BY DEF EnterUplink, Transmit
<1>9. TypeOK'
  <2>1. flight' \subseteq Answers
    BY <1>0, <1>8 DEF IInv, TypeOK, Answers
  <2>2. streak' \in Streaks
    BY StreakLength DEF EnterUplink, Transmit, IInv
  <2>3. QED  BY <1>6, <2>1, <2>2, TransportAssumption DEF IInv, TypeOK, EnterUplink
<1>10. Phases'
  BY <1>0, <1>7, TransportAssumption DEF Phases, EnterUplink
<1>11. PongsInOrder'
  <2>1. ASSUME late = "no", NEW n \in Neighbours \ {config.parentNodeId}
        PROVE  [kind |-> "pong", node |-> n] \notin flight'
    <3>1. [kind |-> "pong", node |-> n] \notin flight
      BY <2>1 DEF IInv, PongsInOrder
    <3>2. [kind |-> "pong", node |-> n] \notin [kind : {"pong"}, node : {config.parentNodeId}]
      OBVIOUS
    <3>3. QED  BY <3>1, <3>2, <1>8
  <2>2. QED  BY <2>1, <1>7 DEF PongsInOrder, EnterUplink
<1>12. Counting'
  BY <1>7 DEF Counting
<1>13. QED  BY <1>9, <1>10, <1>11, <1>12 DEF IInv

-----------------------------------------------------------------------------
(* The theorems.                                                            *)

LEMMA UpdateKeeps ==
  ASSUME IInv, Update
  PROVE  IInv'
<1>0. sm \in Machines
  BY DEF IInv, TypeOK
<1>1. CASE InitUpdate
  <2>1. UNCHANGED <<power, air>>
    BY <1>1 DEF InitUpdate, Updating
  <2>2. CASE EnterParent([sm EXCEPT !.transportActive = TRUE])
    <3>1. /\ [sm EXCEPT !.transportActive = TRUE] \in Machines
          /\ [sm EXCEPT !.transportActive = TRUE].transportActive = TRUE
      BY <1>0 DEF Machines
    <3>2. QED  BY <2>1, <2>2, <3>1, EnterParentKeeps
  <2>3. CASE EnterFailure
    BY <2>1, <2>3, EnterFailureKeeps
  <2>4. QED  BY <1>1, <2>2, <2>3 DEF InitUpdate
<1>2. CASE ParentFound
  <2>1. UNCHANGED <<power, air>> /\ sm.state = "Parent" /\ config.parentNodeId # AUTO
    BY <1>2 DEF ParentFound, Updating, HasParent
  <2> DEFINE s == [sm EXCEPT !.findingParentNode = FALSE]
  <2>2. /\ s \in Machines /\ s.transportActive = TRUE /\ s.findingParentNode = FALSE
        /\ s.uplinkOk = FALSE
    BY <1>0, <2>1 DEF Machines, IInv, Phases
  <2>3. EnterID(s)
    BY <1>2 DEF ParentFound
  <2> HIDE DEF s
  <2>4. QED  BY <2>1, <2>2, <2>3, EnterIDKeeps
<1>3. CASE NoParentFound
  <2>1. UNCHANGED <<power, air>> /\ sm.transportActive = TRUE
    BY <1>0, <1>3 DEF NoParentFound, Updating, IInv, Phases, Machines
  <2>2. EnterParent(sm) \/ EnterFailure
    BY <1>3 DEF NoParentFound
  <2>3. QED  BY <1>0, <2>1, <2>2, EnterParentKeeps, EnterFailureKeeps
<1>4. CASE HasID
  <2>1. UNCHANGED <<power, air>> /\ sm.state = "ID" /\ config.nodeId # "none" /\ EnterUplink
    BY <1>4 DEF HasID, Updating
  <2>2. QED  BY <2>1, EnterUplinkKeeps
<1>5. CASE NoID
  <2>1. UNCHANGED <<power, air>> /\ sm.state = "ID"
    BY <1>5 DEF NoID, Updating
  <2>2. /\ sm.transportActive = TRUE /\ sm.findingParentNode = FALSE /\ sm.uplinkOk = FALSE
        /\ config.parentNodeId # AUTO
    BY <1>0, <2>1 DEF Machines, IInv, Phases
  <2>3. EnterID(sm) \/ EnterFailure
    BY <1>5 DEF NoID
  <2>4. QED  BY <1>0, <2>1, <2>2, <2>3, EnterIDKeeps, EnterFailureKeeps
<1>6. CASE UplinkConfirmed
  BY <1>6, UplinkConfirmedKeeps
<1>7. CASE NoPong
  <2>1. UNCHANGED <<power, air>> /\ sm.state = "Uplink"
    BY <1>7 DEF NoPong, Updating
  <2>2. CASE EnterUplink
    <3>1. config.nodeId # "none"
      BY <2>1 DEF IInv, Phases
    <3>2. QED  BY <2>1, <2>2, <3>1, EnterUplinkKeeps
  <2>3. CASE EnterParent([sm EXCEPT !.pingActive = FALSE])
    <3>1. /\ [sm EXCEPT !.pingActive = FALSE] \in Machines
          /\ [sm EXCEPT !.pingActive = FALSE].transportActive = TRUE
      BY <1>0, <2>1 DEF Machines, IInv, Phases
    <3>2. QED  BY <2>1, <2>3, <3>1, EnterParentKeeps
  <2>4. QED  BY <1>7, <2>2, <2>3 DEF NoPong
<1>8. CASE ReadyUpdate
  <2>1. UNCHANGED <<power, air>> /\ sm.transportActive = TRUE
    BY <1>0, <1>8 DEF ReadyUpdate, Updating, IInv, Phases, Machines
  <2>2. CASE EnterParent(sm)
    BY <1>0, <2>1, <2>2, EnterParentKeeps
  <2>3. CASE /\ ~TooManyFailures
             /\ streak' = [streak EXCEPT !.seen = streak.failed]
             /\ UNCHANGED <<sm, config, token, flight, confirmed, late>>
    <3>1. /\ streak' \in Streaks
          /\ streak'.failed = streak.failed /\ streak'.seen = streak.failed
          /\ streak'.leapt = streak.leapt
      BY <2>3 DEF IInv, TypeOK, Streaks
    <3>2. TypeOK' /\ Phases' /\ PongsInOrder'
      BY <2>1, <2>3, <3>1 DEF IInv, TypeOK, Machines, Configs, Phases, PongsInOrder
    <3>3. ASSUME sm.uplinkOk
          PROVE  streak.failed <= MaxTxFailures
                 \/ (streak.failed >= CounterSize /\ streak.leapt)
      <4>1. ~(sm.failedUplinkTransmissions > MaxTxFailures)
        BY <2>3 DEF TooManyFailures
      <4>2. /\ streak.failed < CounterSize => sm.failedUplinkTransmissions = streak.failed
            /\ \/ streak.leapt
               \/ streak.failed = streak.seen
               \/ streak.failed + MaxTxFailures < streak.seen + CounterSize
            /\ streak.seen <= MaxTxFailures \/ (streak.seen >= CounterSize /\ streak.leapt)
        BY <3>3 DEF IInv, Counting
      <4>3. /\ streak.failed \in Nat /\ streak.seen \in Nat /\ CounterSize \in Nat
            /\ MaxTxFailures \in Nat
        BY TransportAssumption DEF IInv, TypeOK, Streaks
      <4>4. CASE streak.failed < CounterSize
        BY <4>1, <4>2, <4>3, <4>4
      <4>5. CASE streak.failed >= CounterSize
        BY <4>2, <4>3, <4>5
      <4> QED BY <4>3, <4>4, <4>5
    <3>4. Counting'
      BY <2>3, <3>1, <3>3 DEF IInv, Counting
    <3>5. QED  BY <3>2, <3>4 DEF IInv
  <2>4. QED  BY <1>8, <2>2, <2>3 DEF ReadyUpdate
<1>9. CASE FailureUpdate
  BY <1>9, FailureUpdateKeeps
<1>10. QED
  BY <1>1, <1>2, <1>3, <1>4, <1>5, <1>6, <1>7, <1>8, <1>9 DEF Update

LEMMA NextIInv ==
  ASSUME IInv, [Next]_vars
  PROVE  IInv'
<1>1. CASE SendMessage \/ AnswerPing
  BY <1>1, SendMessageKeeps, AnswerPingKeeps
<1>2. CASE Update
  BY <1>2, UpdateKeeps
<1>3. CASE Receive
  BY <1>3, ReceiveParentKeeps, ReceivePongKeeps, ReceiveIDKeeps DEF Receive
<1>4. CASE Lose \/ CalmDown \/ FallAsleep \/ WakeUp \/ PowerUp
  BY <1>4, AirAndPowerKeep
<1>5. CASE PowerFailure
  BY <1>5, PowerFailureKeeps
<1>6. CASE UNCHANGED vars
  BY <1>6 DEF vars, IInv, TypeOK, Phases, PongsInOrder, Counting
<1>7. QED  BY <1>1, <1>2, <1>3, <1>4, <1>5, <1>6 DEF Next

LEMMA Invariance == Spec => []IInv
<1>1. IInv /\ [Next]_vars => IInv'
  BY NextIInv
<1>2. QED  BY <1>1, InitIInv, PTL DEF Spec

\* All values stay within the fields of the structures that hold them: the counter of
\* failed starts stops at its limit, that of failed transmissions comes round.
THEOREM TypeCorrect == Spec => []TypeOK
<1>1. IInv => TypeOK
  BY DEF IInv
<1>2. QED  BY <1>1, Invariance, PTL

\* Whoever may send is connected, and nothing goes to an unknown parent, whose
\* address is that of everybody (transportRouteMessage).
THEOREM RouteAlwaysKnown == Spec => []RouteIsKnown
<1>1. IInv => RouteIsKnown
  BY DEF IInv, TypeOK, Machines, States, Phases, RouteIsKnown
<1>2. QED  BY <1>1, Invariance, PTL

\* No node is ready before its own parent has brought a pong back from the
\* gateway, if no pong was under way when it began to search (stUplinkUpdate).
THEOREM ReadyAlwaysConfirmed == Spec => []ReadyIsConfirmed
<1>1. IInv => ReadyIsConfirmed
  BY DEF IInv, TypeOK, Phases, PongsInOrder, ReadyIsConfirmed
<1>2. QED  BY <1>1, Invariance, PTL

\* An update leaves a node its parent after more failures in a row than it may
\* only when so many came since the update before that the counter, of whatever
\* width, has come round (stReadyUpdate).
THEOREM FailuresAlwaysNoticed == Spec => []FailuresNoticed
<1>1. IInv => FailuresNoticed
  BY DEF IInv, Counting, FailuresNoticed
<1>2. QED  BY <1>1, Invariance, PTL

-----------------------------------------------------------------------------
(* The refinement.  What the sketch sees is the parent and the failures of a *)
(* transport that is ready, and none of both otherwise.                      *)

\* A step that leaves a ready transport ready, with its parent, transmits or does nothing.
LEMMA StaysReady ==
  ASSUME IInv, sm.uplinkOk = TRUE, sm'.uplinkOk = TRUE, UNCHANGED config,
         (power = "off") <=> (power' = "off"),
         streak'.failed \in {0, streak.failed + 1} \/ streak'.failed = streak.failed
  PROVE  Promised!Transmit \/ UNCHANGED Promised!vars
  BY TransportAssumption
  DEF Promised!Transmit, Promised!Connected, Promised!vars, IInv, Phases

\* A step of a transport that is not ready, and is not afterwards, does nothing.
LEMMA StaysUnready ==
  ASSUME sm.uplinkOk = FALSE, sm'.uplinkOk = FALSE,
         (power = "off") <=> (power' = "off")
  PROVE  UNCHANGED Promised!vars
  BY DEF Promised!vars

LEMMA UpdateRefines ==
  ASSUME IInv, Update
  PROVE  Promised!Next \/ UNCHANGED Promised!vars
<1>0. /\ sm \in Machines /\ power' = power
      /\ sm.uplinkOk <=> sm.state = "Ready"
  BY DEF IInv, TypeOK, Phases, Update, InitUpdate, ParentFound, NoParentFound, HasID, NoID,
         UplinkConfirmed, NoPong, ReadyUpdate, FailureUpdate, Updating
<1>1. CASE UplinkConfirmed
  <2>1. sm.uplinkOk = FALSE /\ power # "off" /\ config.parentNodeId \in Neighbours
    BY <1>0, <1>1, TransportAssumption
    DEF UplinkConfirmed, Updating, Machines, IInv, TypeOK, Configs, Phases
  <2>2. sm'.uplinkOk = TRUE /\ streak'.failed = 0 /\ config'.parentNodeId = config.parentNodeId
    BY <1>0, <1>1 DEF UplinkConfirmed, EnterReady, Switched, NoStreak, Machines, IInv, TypeOK, Configs
  <2>3. Promised!Connect
    BY <1>0, <2>1, <2>2 DEF Promised!Connect, Promised!Connected
  <2>4. QED  BY <2>3 DEF Promised!Next
<1>2. CASE ReadyUpdate
  <2>1. CASE TooManyFailures /\ EnterParent(sm)
    <3>1. sm.uplinkOk = TRUE /\ sm'.uplinkOk = FALSE
      BY <1>0, <1>2, <2>1 DEF ReadyUpdate, Updating, EnterParent, Switched, Machines
    <3>2. streak.failed > MaxTxFailures
      <4>1. /\ sm.failedUplinkTransmissions > MaxTxFailures
            /\ sm.failedUplinkTransmissions <= streak.failed
        BY <2>1, <3>1 DEF TooManyFailures, IInv, Counting
      <4>2. /\ sm.failedUplinkTransmissions \in Nat /\ streak.failed \in Nat
            /\ MaxTxFailures \in Nat
        BY <1>0, TransportAssumption DEF Machines, Streaks, IInv, TypeOK
      <4> QED BY <4>1, <4>2
    <3>3. Promised!GiveUp
      BY <1>0, <3>1, <3>2 DEF Promised!GiveUp
    <3>4. QED  BY <3>3 DEF Promised!Next
  <2>2. CASE /\ streak' = [streak EXCEPT !.seen = streak.failed]
             /\ UNCHANGED <<sm, config, token, flight, confirmed, late>>
    <3>1. streak'.failed = streak.failed
      BY <2>2 DEF IInv, TypeOK, Streaks
    <3> QED BY <1>0, <2>2, <3>1 DEF Promised!vars
  <2>3. QED  BY <1>2, <2>1, <2>2 DEF ReadyUpdate
<1>3. CASE ~UplinkConfirmed /\ ~ReadyUpdate
  <2>1. sm.uplinkOk = FALSE
    BY <1>0, <1>3
    DEF Machines, Update, InitUpdate, ParentFound, NoParentFound, HasID, NoID, NoPong,
        FailureUpdate, Updating
  <2>2. sm'.state # "Ready"
    <3>1. EnterInit => sm'.state = "Init"
      BY <1>0 DEF EnterInit, Switched, Machines
    <3>2. EnterFailure => sm'.state = "Failure"
      BY <1>0 DEF EnterFailure, Switched, Machines
    <3>3. EnterUplink => sm'.state = "Uplink"
      BY <1>0 DEF EnterUplink, Transmit, Pinging, Switched, Machines
    <3>4. ASSUME NEW s \in Machines, EnterParent(s) PROVE sm'.state = "Parent"
      BY <3>4 DEF EnterParent, Switched, Machines
    <3>5. ASSUME NEW s \in Machines, EnterID(s) PROVE sm'.state = "ID"
      BY <3>5 DEF EnterID, Transmit, Switched, Machines
    <3>6. /\ [sm EXCEPT !.transportActive = TRUE] \in Machines
          /\ [sm EXCEPT !.findingParentNode = FALSE] \in Machines
          /\ [sm EXCEPT !.pingActive = FALSE] \in Machines
      BY <1>0 DEF Machines
    <3>7. QED
      BY <1>0, <1>3, <3>1, <3>2, <3>3, <3>4, <3>5, <3>6
      DEF Update, InitUpdate, ParentFound, NoParentFound, HasID, NoID, NoPong, FailureUpdate
  <2>3. IInv'
    BY UpdateKeeps
  <2>4. sm'.uplinkOk = FALSE
    BY <2>2, <2>3 DEF IInv, TypeOK, Machines, Phases
  <2>5. QED  BY <1>0, <2>1, <2>4, StaysUnready
<1>4. QED  BY <1>1, <1>2, <1>3

\* Every step of the transport is one of the Uplink, or none.
LEMMA NextRefines ==
  ASSUME IInv, [Next]_vars
  PROVE  Promised!Next \/ UNCHANGED Promised!vars
<1>0. sm \in Machines /\ config \in Configs
  BY DEF IInv, TypeOK
<1>1. CASE SendMessage \/ AnswerPing
  <2>1. PICK ack \in BOOLEAN :
          sm' = [sm EXCEPT !.failedUplinkTransmissions = Counted(sm, ack)]
    BY <1>1 DEF SendMessage, AnswerPing, Transmit, Outcomes
  <2>2. sm'.uplinkOk = sm.uplinkOk /\ sm.uplinkOk \in BOOLEAN
    BY <1>0, <2>1 DEF Machines
  <2>3. /\ UNCHANGED config
        /\ power' = power
        /\ streak'.failed \in {0, streak.failed + 1}
    BY <1>1, StreakLength DEF SendMessage, AnswerPing, Transmit, NoStreak, IInv
  <2>4. QED  BY <2>2, <2>3, StaysReady, StaysUnready DEF Promised!Next
<1>2. CASE Update
  BY <1>2, UpdateRefines
<1>3. CASE Receive
  <2>1. UNCHANGED <<power, streak>> /\ sm'.uplinkOk = sm.uplinkOk /\ sm.uplinkOk \in BOOLEAN
    BY <1>0, <1>3
    DEF Receive, ReceiveParent, ReceivePong, ReceiveID, Received, Machines
  <2>2. sm.uplinkOk => config'.parentNodeId = config.parentNodeId
    BY <1>0, <1>3
    DEF Receive, ReceiveParent, ReceivePong, ReceiveID, Received, Nearer, Configs, IInv, Phases
  <2>3. QED  BY <2>1, <2>2 DEF Promised!vars
<1>4. CASE Lose \/ CalmDown \/ FallAsleep \/ WakeUp
  BY <1>4 DEF Lose, CalmDown, FallAsleep, WakeUp, Promised!vars
<1>5. CASE PowerUp
  <2>1. sm' = sm /\ config' = config /\ streak' = streak /\ power = "off" /\ power' = "on"
    BY <1>5 DEF PowerUp
  <2>2. Promised!PowerUp
    BY <2>1 DEF Promised!PowerUp
  <2>3. QED  BY <2>2 DEF Promised!Next
<1>6. CASE PowerFailure
  <2>1. sm'.uplinkOk = FALSE /\ power' = "off"
    BY <1>6 DEF PowerFailure, Started
  <2>2. Promised!PowerFailure
    BY <2>1 DEF Promised!PowerFailure
  <2>3. QED  BY <2>2 DEF Promised!Next
<1>7. CASE UNCHANGED vars
  BY <1>7 DEF vars, Promised!vars
<1>8. QED
  BY <1>1, <1>2, <1>3, <1>4, <1>5, <1>6, <1>7 DEF Next

\* Seen from the sketch the transport is an Uplink: it keeps its parent until more
\* than MY_TRANSPORT_MAX_TX_FAILURES transmissions in a row have failed.
THEOREM PromiseKept == Spec => KeepsPromise
<1>1. Init => Promised!Init
  BY DEF Init, Started, Promised!Init
<1>2. IInv /\ [Next]_vars => [Promised!Next]_(Promised!vars)
  BY NextRefines
<1>3. QED  BY <1>1, <1>2, Invariance, PTL DEF Spec, KeepsPromise, Promised!Spec
=============================================================================
