-------------------------- MODULE ZigbeeJoin_proofs --------------------------
(***************************************************************************)
(* Proofs about ZigbeeJoin: types, that a switch shown as on is always     *)
(* about to be turned off as long as Home Assistant misses no message, and *)
(* that at rest the switch shows what the network does and an open network *)
(* has a timer, unless a fault came after it was last told to close.       *)
(***************************************************************************)
EXTENDS ZigbeeJoin, TLAPS

\* The initial state has the types.
LEMMA InitType == Init => TypeOK
<1> SUFFICES ASSUME Init PROVE TypeOK
  OBVIOUS
<1>1. orphaned \in BOOLEAN
  BY DEF Init
<1>2. QED
  BY <1>1 DEF Init, TypeOK

\* Every step keeps the types.
LEMMA TypeStep == ASSUME TypeOK, [Next]_vars PROVE TypeOK'
<1> USE DEF TypeOK, haVars, runVars, Payloads
<1>1. CASE UserTurnsOn
  BY <1>1 DEF UserTurnsOn, Publish
<1>2. CASE UserTurnsOff
  <2>1. orphaned' \in BOOLEAN
    BY <1>2 DEF UserTurnsOff
  <2>2. toBridge' \in Seq(Payloads) /\ toHA' \in Seq(Payloads)
    BY <1>2 DEF UserTurnsOff, Publish
  <2>3. QED
    BY <1>2, <2>1, <2>2 DEF UserTurnsOff
<1>3. CASE BridgeReceives
  BY <1>3 DEF BridgeReceives
<1>4. CASE SwitchReceives
  BY <1>4 DEF SwitchReceives, StateShown, StartsAfter, CancelsAfter
<1>5. CASE RunTimerStart
  BY <1>5 DEF RunTimerStart
<1>6. CASE RunTimerCancel
  BY <1>6 DEF RunTimerCancel, TurnOffsAfterCancel
<1>7. CASE RunSwitchTurnOff
  <2>1. orphaned' \in BOOLEAN
    BY <1>7 DEF RunSwitchTurnOff
  <2>2. toBridge' \in Seq(Payloads) /\ toHA' \in Seq(Payloads)
    BY <1>7 DEF RunSwitchTurnOff, Publish
  <2>3. QED
    BY <1>7, <2>1, <2>2 DEF RunSwitchTurnOff
<1>8. CASE TimerFinishes
  BY <1>8 DEF TimerFinishes, CancelsAfterFinish
<1>9. CASE HomeAssistantRestarts
  BY <1>9 DEF HomeAssistantRestarts
<1>10. CASE HomeAssistantMisses
  BY <1>10 DEF HomeAssistantMisses
<1>11. CASE UNCHANGED vars
  BY <1>11 DEF vars
<1>12. QED
  BY <1>1, <1>2, <1>3, <1>4, <1>5, <1>6, <1>7, <1>8, <1>9, <1>10, <1>11 DEF Next

\* Every variable keeps its type, whatever goes wrong.
THEOREM TypeCorrect == Spec => []TypeOK
  BY InitType, TypeStep, PTL DEF Spec

\* A "false" on its way to Home Assistant.
OffComing == \E i \in 1 .. Len(toHA) : toHA[i] = "false"

\* Publishing keeps a "false" that is on its way, and publishing "false" puts
\* one on its way.
LEMMA OffPublished ==
  ASSUME TypeOK, NEW payload \in Payloads, Publish(payload)
  PROVE  /\ OffComing => OffComing'
         /\ payload = "false" => OffComing'
<1>1. toHA \in Seq(Payloads) /\ toHA' = Append(toHA, payload)
  BY DEF TypeOK, Publish
<1>2. Len(toHA') = Len(toHA) + 1 /\ Len(toHA) \in Nat
  BY <1>1
<1>3. \A i \in 1 .. Len(toHA) : toHA'[i] = toHA[i]
  BY <1>1
<1>4. toHA'[Len(toHA')] = payload
  BY <1>1
<1>5. ASSUME OffComing PROVE OffComing'
  BY <1>2, <1>3, <1>5 DEF OffComing
<1>6. ASSUME payload = "false" PROVE OffComing'
  <2>1. Len(toHA') \in 1 .. Len(toHA')
    BY <1>2
  <2>2. QED
    BY <1>4, <1>6, <2>1 DEF OffComing
<1>7. QED
  BY <1>5, <1>6

\* Reading a message takes a "false" off the way only by reading it.
LEMMA OffRead ==
  ASSUME TypeOK, toHA # <<>>, toHA' = Tail(toHA), Head(toHA) # "false", OffComing
  PROVE  OffComing'
<1>1. PICK i \in 1 .. Len(toHA) : toHA[i] = "false"
  BY DEF OffComing
<1>2. toHA \in Seq(Payloads)
  BY DEF TypeOK
<1>3. i # 1
  BY <1>1, <1>2
<1>4. i - 1 \in 1 .. Len(Tail(toHA)) /\ Tail(toHA)[i - 1] = toHA[i]
  BY <1>1, <1>2, <1>3
<1>5. QED
  BY <1>1, <1>4 DEF OffComing

\* Every step keeps a switch shown as on watched.
LEMMA WatchedStep ==
  ASSUME TypeOK, ShownOnIsWatched, [Next]_vars
  PROVE  ShownOnIsWatched'
<1> USE DEF haVars, runVars, Payloads
<1>0. ShownOnIsWatched <=>
        (switch = "on" /\ missed = "no" =>
                          \/ timer = "active" \/ starts > 0 \/ cancels > 0 \/ turnOffs > 0
                          \/ OffComing)
  BY DEF ShownOnIsWatched, OffComing
<1>a. ShownOnIsWatched' <=>
        (switch' = "on" /\ missed' = "no" =>
                           \/ timer' = "active" \/ starts' > 0 \/ cancels' > 0
                           \/ turnOffs' > 0 \/ OffComing')
  BY DEF ShownOnIsWatched, OffComing
<1>b. /\ starts \in Nat /\ cancels \in Nat /\ turnOffs \in Nat
      /\ toHA \in Seq(Payloads) /\ switch \in {"on", "off"}
  BY DEF TypeOK
<1>1. CASE UserTurnsOn
  BY <1>0, <1>a, <1>1, OffPublished DEF UserTurnsOn
<1>2. CASE UserTurnsOff
  BY <1>0, <1>a, <1>2, OffPublished DEF UserTurnsOff
<1>3. CASE BridgeReceives
  BY <1>0, <1>a, <1>3 DEF BridgeReceives, OffComing
<1>4. CASE SwitchReceives
  <2>1. CASE Head(toHA) = "false"
    BY <1>a, <1>4, <2>1 DEF SwitchReceives, StateShown
  <2>2. CASE Head(toHA) # "false" /\ switch = "off"
    <3>1. Head(toHA) = "true"
      BY <1>b, <1>4, <2>2 DEF SwitchReceives
    <3>2. starts' > 0
      BY <1>b, <1>4, <2>2, <3>1 DEF SwitchReceives, StateShown, StartsAfter
    <3>3. QED
      BY <1>a, <3>2
  <2>3. CASE Head(toHA) # "false" /\ switch = "on"
    <3>1. Head(toHA) = "true"
      BY <1>b, <1>4, <2>3 DEF SwitchReceives
    <3>2. /\ timer' = timer /\ starts' = starts /\ cancels' = cancels
          /\ turnOffs' = turnOffs /\ missed' = missed
      BY <1>4, <2>3, <3>1 DEF SwitchReceives, StateShown, StartsAfter, CancelsAfter
    <3>3. OffComing => OffComing'
      BY <1>4, <2>3, OffRead DEF SwitchReceives
    <3>4. QED
      BY <1>0, <1>a, <2>3, <3>2, <3>3
  <2>4. QED
    BY <1>b, <2>1, <2>2, <2>3
<1>5. CASE RunTimerStart
  BY <1>a, <1>5 DEF RunTimerStart
<1>6. CASE RunTimerCancel
  BY <1>a, <1>b, <1>6 DEF RunTimerCancel, TurnOffsAfterCancel
<1>7. CASE RunSwitchTurnOff
  BY <1>a, <1>7, OffPublished DEF RunSwitchTurnOff
<1>8. CASE TimerFinishes
  BY <1>a, <1>b, <1>8 DEF TimerFinishes, CancelsAfterFinish
<1>9. CASE HomeAssistantRestarts
  BY <1>a, <1>9 DEF HomeAssistantRestarts
<1>10. CASE HomeAssistantMisses
  BY <1>a, <1>10 DEF HomeAssistantMisses
<1>11. CASE UNCHANGED vars
  BY <1>0, <1>a, <1>11 DEF vars, OffComing
<1>12. QED
  BY <1>1, <1>2, <1>3, <1>4, <1>5, <1>6, <1>7, <1>8, <1>9, <1>10, <1>11 DEF Next

\* A join switch shown as on is always about to be turned off, through any
\* toggling and restarts, unless Home Assistant missed a message since it was
\* last off (ZigbeeJoin.ShownOnIsWatched).
THEOREM SwitchNeverLeftOn == Spec => []ShownOnIsWatched
<1>1. Init => ShownOnIsWatched
  BY DEF Init, ShownOnIsWatched
<1>2. TypeOK /\ ShownOnIsWatched /\ [Next]_vars => ShownOnIsWatched'
  BY WatchedStep
<1>3. QED
  BY <1>1, <1>2, TypeCorrect, PTL DEF Spec

-----------------------------------------------------------------------------
\* What a reader of q will show once it has read all of q, if it shows isOn now.
FinallyOn(q, isOn) == IF q = <<>> THEN isOn ELSE q[Len(q)] = "true"

\* The network and the switch are headed for the same end, unless a fault came
\* after the last "false" was published.
Agreed ==
  ~orphaned => (FinallyOn(toBridge, network = "open") <=> FinallyOn(toHA, switch = "on"))

\* A message missed since the switch was last off is made up for by a "false"
\* on its way, unless none was published since.
MissedIsMadeUp == ~orphaned /\ missed = "yes" => OffComing

AgreementInv == Agreed /\ MissedIsMadeUp

\* A reader will end up as the last payload says, whatever it shows now.
LEMMA LastCounts ==
  ASSUME NEW q \in Seq(Payloads), NEW payload \in Payloads, NEW isOn
  PROVE  FinallyOn(Append(q, payload), isOn) = (payload = "true")
<1>1. Append(q, payload) \in Seq(Payloads) /\ Len(Append(q, payload)) = Len(q) + 1
  OBVIOUS
<1>2. Append(q, payload)[Len(q) + 1] = payload
  OBVIOUS
<1>3. Append(q, payload) # <<>>
  <2>1. Len(<<>>) = 0 /\ Len(q) \in Nat
    OBVIOUS
  <2>2. QED
    BY <1>1, <2>1
<1>4. QED
  BY <1>1, <1>2, <1>3 DEF FinallyOn

\* A queue is empty when its length is zero.
LEMMA EmptyQueue ==
  ASSUME NEW M, NEW q \in Seq(M)
  PROVE  q = <<>> <=> Len(q) = 0
OBVIOUS

\* Reading the first payload leaves where the reader is headed as it was.
LEMMA ReadingKeepsEnd ==
  ASSUME NEW q \in Seq(Payloads), q # <<>>, NEW isOn \in BOOLEAN
  PROVE  FinallyOn(Tail(q), Head(q) = "true") = FinallyOn(q, isOn)
<1>0. /\ Tail(q) \in Seq(Payloads) /\ Len(q) \in Nat \ {0} /\ Head(q) = q[1]
      /\ Len(Tail(q)) = Len(q) - 1
      /\ \A i \in 1 .. Len(q) - 1 : Tail(q)[i] = q[i + 1]
  OBVIOUS
<1>1. CASE Len(q) = 1
  <2>a. Len(Tail(q)) = 0 /\ Head(q) = q[Len(q)]
    BY <1>0, <1>1
  <2>b. Tail(q) \in Seq(Payloads)
    BY <1>0
  <2>1. Tail(q) = <<>>
    BY <2>a, <2>b, EmptyQueue, Zenon
  <2>2. QED
    BY <2>a, <2>1 DEF FinallyOn
<1>2. CASE Len(q) # 1
  <2>a. Len(Tail(q)) \in 1 .. Len(q) - 1 /\ Len(Tail(q)) + 1 = Len(q)
    BY <1>0, <1>2
  <2>1. Tail(q) # <<>>
    <3>1. Len(Tail(q)) # 0
      BY <1>0, <1>2
    <3>2. Tail(q) \in Seq(Payloads)
      BY <1>0
    <3>3. QED
      BY <3>1, <3>2, EmptyQueue, Zenon
  <2>2. Tail(q)[Len(Tail(q))] = q[Len(q)]
    BY <1>0, <2>a
  <2>3. QED
    BY <2>1, <2>2 DEF FinallyOn
<1>3. QED
  BY <1>1, <1>2

\* One publication sends the network and the switch to the same end.
LEMMA PublishedAgree ==
  ASSUME TypeOK, NEW payload \in Payloads, Publish(payload)
  PROVE  Agreed'
<1>1. toBridge \in Seq(Payloads) /\ toHA \in Seq(Payloads)
  BY DEF TypeOK
<1>2. FinallyOn(toBridge', network' = "open") = (payload = "true")
  BY <1>1, LastCounts DEF Publish
<1>3. FinallyOn(toHA', switch' = "on") = (payload = "true")
  BY <1>1, LastCounts DEF Publish
<1>4. QED
  BY <1>2, <1>3 DEF Agreed

\* Every step keeps network and switch headed for the same end.
LEMMA AgreedStep ==
  ASSUME TypeOK, Agreed, [Next]_vars
  PROVE  Agreed'
<1> USE DEF haVars, runVars
<1>0. toBridge \in Seq(Payloads) /\ toHA \in Seq(Payloads)
  BY DEF TypeOK
<1>a. ASSUME UNCHANGED <<network, switch, toBridge, toHA, orphaned>>
      PROVE  Agreed'
  BY <1>a DEF Agreed
<1>1. CASE UserTurnsOn
  BY <1>1, PublishedAgree DEF UserTurnsOn, Payloads
<1>2. CASE UserTurnsOff
  BY <1>2, PublishedAgree DEF UserTurnsOff, Payloads
<1>3. CASE BridgeReceives
  <2>1. (network' = "open") = (Head(toBridge) = "true")
    BY <1>3 DEF BridgeReceives
  <2>2. FinallyOn(toBridge', network' = "open") = FinallyOn(toBridge, network = "open")
    BY <1>0, <1>3, <2>1, ReadingKeepsEnd DEF BridgeReceives
  <2>3. FinallyOn(toHA', switch' = "on") = FinallyOn(toHA, switch = "on") /\ orphaned' = orphaned
    BY <1>3 DEF BridgeReceives
  <2>4. QED
    BY <2>2, <2>3 DEF Agreed
<1>4. CASE SwitchReceives
  <2>1. (switch' = "on") = (Head(toHA) = "true")
    BY <1>4 DEF SwitchReceives, StateShown
  <2>2. FinallyOn(toHA', switch' = "on") = FinallyOn(toHA, switch = "on")
    BY <1>0, <1>4, <2>1, ReadingKeepsEnd DEF SwitchReceives
  <2>3. /\ FinallyOn(toBridge', network' = "open") = FinallyOn(toBridge, network = "open")
        /\ orphaned' = orphaned
    BY <1>4 DEF SwitchReceives
  <2>4. QED
    BY <2>2, <2>3 DEF Agreed
<1>5. CASE RunTimerStart
  BY <1>a, <1>5 DEF RunTimerStart
<1>6. CASE RunTimerCancel
  BY <1>a, <1>6 DEF RunTimerCancel
<1>7. CASE RunSwitchTurnOff
  BY <1>7, PublishedAgree DEF RunSwitchTurnOff, Payloads
<1>8. CASE TimerFinishes
  BY <1>a, <1>8 DEF TimerFinishes
<1>9. CASE HomeAssistantRestarts
  BY <1>9 DEF HomeAssistantRestarts, Agreed
<1>10. CASE HomeAssistantMisses
  BY <1>10 DEF HomeAssistantMisses, Agreed
<1>11. CASE UNCHANGED vars
  BY <1>a, <1>11 DEF vars
<1>12. QED
  BY <1>1, <1>2, <1>3, <1>4, <1>5, <1>6, <1>7, <1>8, <1>9, <1>10, <1>11 DEF Next

\* Every step keeps a "false" on its way after a missed message, unless none
\* was published since.
LEMMA MadeUpStep ==
  ASSUME TypeOK, MissedIsMadeUp, [Next]_vars
  PROVE  MissedIsMadeUp'
<1> USE DEF haVars, runVars, Payloads
<1>a. ASSUME UNCHANGED <<toHA, orphaned, missed>>
      PROVE  MissedIsMadeUp'
  BY <1>a DEF MissedIsMadeUp, OffComing
<1>1. CASE UserTurnsOn
  BY <1>1, OffPublished DEF UserTurnsOn, MissedIsMadeUp
<1>2. CASE UserTurnsOff
  BY <1>2, OffPublished DEF UserTurnsOff, MissedIsMadeUp
<1>3. CASE BridgeReceives
  BY <1>a, <1>3 DEF BridgeReceives
<1>4. CASE SwitchReceives
  <2>1. CASE Head(toHA) = "false"
    BY <1>4, <2>1 DEF SwitchReceives, StateShown, MissedIsMadeUp
  <2>2. CASE Head(toHA) # "false"
    <3>1. toHA \in Seq(Payloads) /\ toHA # <<>>
      BY <1>4 DEF SwitchReceives, TypeOK
    <3>2. Head(toHA) = "true"
      BY <2>2, <3>1
    <3>3. missed' = missed /\ orphaned' = orphaned
      BY <1>4, <3>2 DEF SwitchReceives, StateShown
    <3>4. OffComing => OffComing'
      BY <1>4, <2>2, OffRead DEF SwitchReceives
    <3>5. QED
      BY <3>3, <3>4 DEF MissedIsMadeUp
  <2>3. QED
    BY <2>1, <2>2
<1>5. CASE RunTimerStart
  BY <1>a, <1>5 DEF RunTimerStart
<1>6. CASE RunTimerCancel
  BY <1>a, <1>6 DEF RunTimerCancel
<1>7. CASE RunSwitchTurnOff
  BY <1>7, OffPublished DEF RunSwitchTurnOff, MissedIsMadeUp
<1>8. CASE TimerFinishes
  BY <1>a, <1>8 DEF TimerFinishes
<1>9. CASE HomeAssistantRestarts
  BY <1>9 DEF HomeAssistantRestarts, MissedIsMadeUp
<1>10. CASE HomeAssistantMisses
  BY <1>10 DEF HomeAssistantMisses, MissedIsMadeUp
<1>11. CASE UNCHANGED vars
  BY <1>a, <1>11 DEF vars
<1>12. QED
  BY <1>1, <1>2, <1>3, <1>4, <1>5, <1>6, <1>7, <1>8, <1>9, <1>10, <1>11 DEF Next

\* The inductive invariant behind the two theorems below.
LEMMA AgreementCorrect == Spec => []AgreementInv
<1>1. Init => AgreementInv
  BY DEF Init, AgreementInv, Agreed, MissedIsMadeUp, FinallyOn
<1>2. TypeOK /\ AgreementInv /\ [Next]_vars => AgreementInv'
  BY AgreedStep, MadeUpStep DEF AgreementInv
<1>3. QED
  BY <1>1, <1>2, TypeCorrect, PTL DEF Spec

\* With nothing on its way the switch shows what the network does, however on
\* and off crossed, unless Home Assistant restarted or missed a message after
\* the last "false" was published (ZigbeeJoin.SwitchShowsNetwork).
THEOREM SwitchTellsTheTruth == Spec => []SwitchShowsNetwork
<1>1. AgreementInv => SwitchShowsNetwork
  BY DEF AgreementInv, Agreed, FinallyOn, SwitchShowsNetwork, Quiet
<1>2. QED
  BY <1>1, AgreementCorrect, PTL

\* With nothing on its way an open network has its timer running, with the
\* same exception (ZigbeeJoin.OpenNetworkIsTimed).
THEOREM OpenNetworkWillClose == Spec => []OpenNetworkIsTimed
<1>1. AgreementInv /\ ShownOnIsWatched /\ TypeOK => OpenNetworkIsTimed
  <2> SUFFICES ASSUME AgreementInv, ShownOnIsWatched, TypeOK, Quiet,
                      network = "open", ~orphaned
               PROVE  timer = "active"
    BY DEF OpenNetworkIsTimed
  <2>1. toHA = <<>> /\ toBridge = <<>> /\ starts = 0 /\ cancels = 0 /\ turnOffs = 0
    BY DEF Quiet
  <2>2. switch = "on"
    BY <2>1 DEF AgreementInv, Agreed, FinallyOn
  <2>3. missed = "no"
    BY <2>1 DEF AgreementInv, MissedIsMadeUp, OffComing, TypeOK
  <2>4. ~\E i \in 1 .. Len(toHA) : toHA[i] = "false"
    BY <2>1
  <2>5. QED
    BY <2>1, <2>2, <2>3, <2>4 DEF ShownOnIsWatched
<1>2. QED
  BY <1>1, AgreementCorrect, SwitchNeverLeftOn, TypeCorrect, PTL
=============================================================================
