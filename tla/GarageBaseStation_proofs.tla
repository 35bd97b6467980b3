---------------------- MODULE GarageBaseStation_proofs ----------------------
(***************************************************************************)
(* Proofs about GarageBaseStation, for every bound and for a radio with or *)
(* without losses: the button is released, presses are accounted for,      *)
(* undisturbed there is one per command, without loss each is notified,    *)
(* but for what wasted, asked and muted name.                              *)
(***************************************************************************)
EXTENDS GarageBaseStation, FiniteSetTheorems, TLAPS

\* Every message that may still press the button, and every press so far, was
\* paid for by a command, a replay or a wait given up; a wait that still goes
\* on pays for the answer it expects, which will not press the button.
Waiting == IF pc = "await" THEN 1 ELSE 0

Accounted ==
  pulses + down + reqs <= commands + replays + abandoned + Waiting

\* An activation of receive() holds the button only after the first message of
\* the boot, which ends the wait for it and the doubt about a pulse that was cut;
\* the node sleeps in setup() and inside receive() only.
Phases ==
  /\ frames > 0 => initialRelayStateSent
  /\ pc = "await" => ~initialRelayStateSent
  /\ cut => ~initialRelayStateSent
  /\ radio = "off" => pc = "setup" \/ frames > 0

IInv ==
  /\ TypeOK
  /\ RelayReleased
  /\ Phases
  /\ Accounted
  /\ PulsesAccountedFor

\* The reports the node sends keep the uplink a sequence of reports.
LEMMA SentType ==
  ASSUME TypeOK, NEW c \in Children, NEW v \in Levels
  PROVE  Sent(c, v) \in Seq(Report)
<1>1. [child |-> c, value |-> v] \in Report
  BY DEF Report
<1>2. QED
  BY <1>1 DEF Sent, TypeOK

\* The initial states satisfy the inductive invariant.
LEMMA InitInv == Init => IInv
<1> SUFFICES ASSUME Init PROVE IInv
  OBVIOUS
<1>1. ha \in [Children -> Levels] /\ door \in Levels /\ up \in Seq(Report)
  BY DEF Init, Levels
<1>2. initialRelayStateSent \in BOOLEAN
  BY DEF Init
<1>3. TypeOK
  BY <1>1, <1>2 DEF Init, TypeOK, Levels
<1>4. QED
  BY <1>3 DEF Init, IInv, RelayReleased, Phases, Accounted, PulsesAccountedFor, Waiting,
              On, Off

\* Every step keeps the types.
LEMMA TypeStep == ASSUME TypeOK, Next PROVE TypeOK'
<1> USE DEF TypeOK, nodeVars, linkVars, haVars, pastVars, boundVars, Counted
<1>0. CASE EndBoot \/ EndSetup
  BY <1>0 DEF EndBoot, EndSetup
<1>1. CASE AskInitialState
  <2>1. up' \in Seq(Report) /\ reqs' \in Nat
    BY <1>1, SentType DEF AskInitialState, Requested, Children, Levels, Off
  <2>2. asked' \in BOOLEAN /\ cut' \in BOOLEAN
    BY <1>1 DEF AskInitialState
  <2>3. QED
    BY <1>1, <2>1, <2>2 DEF AskInitialState
<1>2. CASE SkipInitialState
  BY <1>2 DEF SkipInitialState
<1>3. CASE InitialStateTimeout
  BY <1>3 DEF InitialStateTimeout
<1>4. CASE InitialStateAnswered
  BY <1>4 DEF InitialStateAnswered
<1>5. CASE MeasureDoor
  BY <1>5, SentType DEF MeasureDoor, MeasuredDoor, DoorReport, Children, Levels, Off
<1>6. CASE NextLoop
  BY <1>6 DEF NextLoop
<1>7. CASE ReceiveInitialState
  <2>1. muted' \in Nat /\ down' \in Nat
    BY <1>7 DEF ReceiveInitialState
  <2>2. initialRelayStateSent' \in BOOLEAN /\ cut' \in BOOLEAN
    BY <1>7 DEF ReceiveInitialState
  <2>3. QED
    BY <1>7, <2>1, <2>2 DEF ReceiveInitialState, Noticed
<1>8. CASE ReceiveCommand
  BY <1>8, SentType DEF ReceiveCommand, PressReport, Noticed, Children, Levels, On
<1>9. CASE FallAsleep
  BY <1>9 DEF FallAsleep
<1>10. CASE ReleaseRelay
  BY <1>10, SentType DEF ReleaseRelay, ReleaseReport, ReleasedLevel, Children, Levels, Off
<1>11. CASE FindParent
  BY <1>11 DEF FindParent
<1>12. CASE LoseParent
  BY <1>12 DEF LoseParent
<1>13. CASE PowerFailure
  <2>1. initialRelayStateSent' \in BOOLEAN
    BY <1>13 DEF PowerFailure
  <2>2. abandoned' \in Nat /\ relay' \in Levels
    BY <1>13 DEF PowerFailure, Levels
  <2>3. cut' \in BOOLEAN /\ asked' \in BOOLEAN
    BY <1>13 DEF PowerFailure, Held
  <2>4. QED
    BY <1>13, <2>1, <2>2, <2>3 DEF PowerFailure
<1>14. ASSUME NEW c \in Children, NEW v \in Levels, Command(c, v)
       PROVE  TypeOK'
  BY <1>14 DEF Command, NoticesAfter
<1>15. CASE AnswerRequest
  BY <1>15 DEF AnswerRequest, Children
<1>16. CASE HandleReport
  <2>1. Head(up) \in Report /\ Tail(up) \in Seq(Report)
    BY <1>16 DEF HandleReport
  <2>2. QED
    BY <1>16, <2>1 DEF HandleReport, Report, NoticesAfter
<1>17. CASE GatewayReconnect
  BY <1>17 DEF GatewayReconnect, RetainedCount
<1>18. CASE LoseRequest
  BY <1>18 DEF LoseRequest
<1>19. CASE LoseDown
  BY <1>19 DEF LoseDown
<1>20. CASE LoseReport
  BY <1>20 DEF LoseReport
<1>21. CASE DoorMoves
  BY <1>21 DEF DoorMoves, Levels, On, Off
<1>22. QED
  BY <1>0, <1>1, <1>2, <1>3, <1>4, <1>5, <1>6, <1>7, <1>8, <1>9, <1>10, <1>11, <1>12, <1>13,
     <1>14, <1>15, <1>16, <1>17, <1>18, <1>19, <1>20, <1>21 DEF Next, NodeStep

\* Every step leaves the button released when the last activation ends, and
\* the phases of a boot in order.
LEMMA ButtonStep ==
  ASSUME TypeOK, RelayReleased, Phases, Next
  PROVE  RelayReleased' /\ Phases'
<1> USE DEF TypeOK, RelayReleased, Phases, On, Off, nodeVars, linkVars, haVars, pastVars,
            boundVars
<1>0. CASE EndBoot \/ EndSetup
  BY <1>0 DEF EndBoot, EndSetup
<1>1. CASE AskInitialState \/ SkipInitialState \/ InitialStateTimeout
           \/ InitialStateAnswered \/ MeasureDoor \/ NextLoop
  BY <1>1 DEF AskInitialState, NeedsInitialState, SkipInitialState, InitialStateTimeout,
              InitialStateAnswered, MeasureDoor, NextLoop
<1>2. CASE ReceiveInitialState
  BY <1>2 DEF ReceiveInitialState, Noticed, Polling
<1>3. CASE ReceiveCommand
  BY <1>3 DEF ReceiveCommand, Noticed, Polling
<1>4. CASE ReleaseRelay
  BY <1>4 DEF ReleaseRelay, ReleasedLevel
<1>5. CASE FallAsleep \/ FindParent \/ LoseParent
  BY <1>5 DEF FallAsleep, FindParent, LoseParent
<1>6. CASE PowerFailure
  BY <1>6 DEF PowerFailure
<1>7. CASE \/ \E c \in Children, v \in Levels : Command(c, v)
           \/ AnswerRequest \/ HandleReport \/ GatewayReconnect
           \/ LoseRequest \/ LoseDown \/ LoseReport \/ DoorMoves
  BY <1>7 DEF Command, AnswerRequest, HandleReport, GatewayReconnect, LoseRequest,
              LoseDown, LoseReport, DoorMoves
<1>8. QED
  BY <1>0, <1>1, <1>2, <1>3, <1>4, <1>5, <1>6, <1>7 DEF Next, NodeStep

\* Every step keeps the account of presses.
LEMMA AccountStep ==
  ASSUME TypeOK, Phases, Accounted, PulsesAccountedFor, Next
  PROVE  Accounted' /\ PulsesAccountedFor'
<1> USE DEF TypeOK, Accounted, PulsesAccountedFor, Waiting, nodeVars, linkVars, haVars,
            pastVars, boundVars
<1>1. CASE AskInitialState
  BY <1>1 DEF AskInitialState, Requested
<1>2. CASE InitialStateTimeout
  BY <1>2 DEF InitialStateTimeout
<1>3. CASE ReceiveInitialState
  BY <1>3 DEF ReceiveInitialState, Noticed
<1>4. CASE ReceiveCommand
  BY <1>4 DEF ReceiveCommand, Noticed, Phases
<1>5. CASE PowerFailure
  <2>1. CASE pc = "await"
    BY <1>5, <2>1 DEF PowerFailure
  <2>2. CASE pc # "await"
    BY <1>5, <2>2 DEF PowerFailure
  <2>3. QED
    BY <2>1, <2>2
<1>6. CASE EndBoot \/ EndSetup \/ SkipInitialState \/ InitialStateAnswered \/ MeasureDoor
           \/ NextLoop \/ FallAsleep \/ ReleaseRelay \/ FindParent \/ LoseParent
  BY <1>6 DEF EndBoot, EndSetup, SkipInitialState, InitialStateAnswered, MeasureDoor, NextLoop, FallAsleep,
              ReleaseRelay, FindParent, LoseParent
<1>7. ASSUME NEW c \in Children, NEW v \in Levels, Command(c, v)
      PROVE  Accounted' /\ PulsesAccountedFor'
  BY <1>7 DEF Command
<1>8. CASE GatewayReconnect
  <2>1. RetainedCount \in Nat
    BY DEF RetainedCount
  <2>2. QED
    BY <1>8, <2>1 DEF GatewayReconnect
<1>9. CASE AnswerRequest
  BY <1>9 DEF AnswerRequest
<1>10. CASE LoseRequest
  BY <1>10 DEF LoseRequest
<1>11. CASE LoseDown
  BY <1>11 DEF LoseDown
<1>12. CASE HandleReport \/ LoseReport \/ DoorMoves
  BY <1>12 DEF HandleReport, LoseReport, DoorMoves
<1>13. QED
  BY <1>1, <1>2, <1>3, <1>4, <1>5, <1>6, <1>7, <1>8, <1>9, <1>10, <1>11, <1>12
     DEF Next, NodeStep

\* A step that changes nothing keeps the inductive invariant.
LEMMA StutterStep == ASSUME IInv, UNCHANGED vars PROVE IInv'
  BY DEF IInv, TypeOK, RelayReleased, Phases, Accounted, PulsesAccountedFor, Waiting,
         vars, nodeVars, linkVars, haVars, pastVars, boundVars

\* The inductive invariant holds in every reachable state.
THEOREM InductiveInvariant == Spec => []IInv
<1>1. IInv /\ [Next]_vars => IInv'
  BY TypeStep, ButtonStep, AccountStep, StutterStep DEF IInv
<1>2. QED
  BY InitInv, <1>1, PTL DEF Spec

\* Every variable of the node, the links and the controller keeps its type.
THEOREM TypeCorrect == Spec => []TypeOK
<1>1. IInv => TypeOK
  BY DEF IInv
<1>2. QED
  BY <1>1, InductiveInvariant, PTL

\* receive() never leaves the door button pressed behind it, however its
\* activations nest, whatever is lost and whenever the power fails.
THEOREM ButtonNeverLeftPressed == Spec => []RelayReleased
<1>1. IInv => RelayReleased
  BY DEF IInv
<1>2. QED
  BY <1>1, InductiveInvariant, PTL

\* receive() presses the door button at most once per command, per re-delivered
\* retained command and per wait for the initial value that was given up.
THEOREM NoPressUnaccountedFor == Spec => []PulsesAccountedFor
<1>1. IInv => PulsesAccountedFor
  BY DEF IInv
<1>2. QED
  BY <1>1, InductiveInvariant, PTL

-----------------------------------------------------------------------------
(* Without loss on the air the node keeps the parent it has found.          *)

\* Out of the boot, and asleep, the node has a parent.
Steady == ~Lossy => (pc # "boot" \/ radio = "off" => transport = "ready")

One(b) == IF b THEN 1 ELSE 0

\* Undisturbed, the account of presses is exact: the first message of the boot is
\* the one that presses nothing, the request brings one more, and the wait for the
\* initial value ends with an answer: the loop goes no further without one.
ExactAccount ==
  Undisturbed =>
    /\ replays = 0
    /\ pulses + wasted + down + reqs + One(initialRelayStateSent)
         = commands + One(asked)
    /\ ~initialRelayStateSent =>
         /\ pulses = 0 /\ wasted <= commands
         /\ IF asked THEN pc = "await" ELSE pc \in {"boot", "setup", "top"}

\* Every step keeps the node's parent, without loss.
LEMMA SteadyStep ==
  ASSUME TypeOK, Phases, Steady, [Next]_vars
  PROVE  Steady'
<1> USE DEF TypeOK, Phases, Steady, nodeVars, linkVars, haVars, pastVars, boundVars
<1>1. CASE ReceiveCommand
  BY <1>1 DEF ReceiveCommand, Polling, Noticed
<1>2. CASE FallAsleep \/ LoseParent \/ FindParent
  BY <1>2 DEF FallAsleep, LoseParent, FindParent
<1>3. CASE ReleaseRelay
  BY <1>3 DEF ReleaseRelay
<1>4. CASE PowerFailure
  BY <1>4 DEF PowerFailure
<1>5. CASE EndBoot \/ EndSetup \/ AskInitialState \/ SkipInitialState
           \/ InitialStateTimeout \/ InitialStateAnswered \/ MeasureDoor \/ NextLoop
           \/ ReceiveInitialState
  BY <1>5 DEF EndBoot, EndSetup, AskInitialState, SkipInitialState, InitialStateTimeout,
              InitialStateAnswered, MeasureDoor, NextLoop, ReceiveInitialState, Noticed
<1>6. CASE \/ \E c \in Children, v \in Levels : Command(c, v)
           \/ AnswerRequest \/ HandleReport \/ GatewayReconnect
           \/ LoseRequest \/ LoseDown \/ LoseReport \/ DoorMoves
  BY <1>6 DEF Command, AnswerRequest, HandleReport, GatewayReconnect, LoseRequest,
              LoseDown, LoseReport, DoorMoves
<1>7. CASE UNCHANGED vars
  BY <1>7 DEF vars
<1>8. QED
  BY <1>1, <1>2, <1>3, <1>4, <1>5, <1>6, <1>7 DEF Next, NodeStep

\* Every step keeps the account exact while nothing disturbs it.
LEMMA ExactStep ==
  ASSUME TypeOK, Phases, Steady, ExactAccount, Next, Undisturbed'
  PROVE  ExactAccount'
<1> USE DEF TypeOK, nodeVars, linkVars, haVars, pastVars, boundVars
<1>2. ~Lossy /\ Prompt /\ crashes' = 0 /\ reconnects' = 0
  BY DEF Undisturbed
<1>3. crashes = 0 /\ reconnects = 0 /\ ~PowerFailure /\ ~GatewayReconnect
  <2>1. ~PowerFailure /\ ~GatewayReconnect
    BY <1>2 DEF PowerFailure, GatewayReconnect
  <2>2. NodeStep => UNCHANGED <<crashes, reconnects>>
    <3>1. EndBoot \/ EndSetup \/ AskInitialState \/ SkipInitialState
          \/ InitialStateTimeout \/ InitialStateAnswered \/ MeasureDoor \/ NextLoop
          => UNCHANGED <<crashes, reconnects>>
      BY DEF EndBoot, EndSetup, AskInitialState, SkipInitialState, InitialStateTimeout,
             InitialStateAnswered, MeasureDoor, NextLoop
    <3>2. ReceiveInitialState \/ ReceiveCommand \/ FallAsleep \/ ReleaseRelay
          \/ FindParent => UNCHANGED <<crashes, reconnects>>
      BY DEF ReceiveInitialState, ReceiveCommand, FallAsleep, ReleaseRelay, FindParent
    <3>3. QED
      BY <3>1, <3>2 DEF NodeStep
  <2>3. ~NodeStep => UNCHANGED <<crashes, reconnects>>
    BY <2>1 DEF Next, LoseParent, Command, AnswerRequest, HandleReport,
                LoseRequest, LoseDown, LoseReport, DoorMoves
  <2>4. QED
    BY <1>2, <2>1, <2>2, <2>3
<1>4. /\ replays = 0
      /\ pulses + wasted + down + reqs + One(initialRelayStateSent)
           = commands + One(asked)
      /\ ~initialRelayStateSent =>
           /\ pulses = 0 /\ wasted <= commands
           /\ IF asked THEN pc = "await" ELSE pc \in {"boot", "setup", "top"}
  BY <1>2, <1>3 DEF ExactAccount, Undisturbed
<1>b. /\ pulses \in Nat /\ wasted \in Nat /\ down \in Nat /\ reqs \in Nat
      /\ commands \in Nat
      /\ One(initialRelayStateSent) \in Nat /\ One(asked) \in Nat
  BY DEF One
<1>a. ASSUME UNCHANGED <<pulses, wasted, down, reqs, commands, initialRelayStateSent,
                         asked, replays, pc>>
      PROVE  ExactAccount'
  BY <1>4, <1>a DEF ExactAccount, One
<1>5. CASE AskInitialState
  <2>1. transport = "ready" /\ ~initialRelayStateSent /\ ~asked
    BY <1>2, <1>4, <1>5 DEF AskInitialState, NeedsInitialState, Steady
  <2>2. /\ reqs' = reqs + 1 /\ asked' = TRUE /\ pc' = "await"
        /\ UNCHANGED <<pulses, wasted, down, initialRelayStateSent, commands, replays>>
    BY <1>5, <2>1 DEF AskInitialState, Requested
  <2>3. QED
    BY <1>4, <2>1, <2>2 DEF ExactAccount, One
<1>6. CASE EndBoot \/ EndSetup \/ SkipInitialState
  <2>1. UNCHANGED <<pulses, wasted, down, reqs, commands, initialRelayStateSent, asked,
                    replays>>
    BY <1>6 DEF EndBoot, EndSetup, SkipInitialState
  <2>2. /\ pc # "await"
        /\ ~initialRelayStateSent => pc' \in {"boot", "setup", "top"}
    BY <1>6 DEF EndBoot, EndSetup, SkipInitialState
  <2>3. QED
    BY <1>4, <2>1, <2>2 DEF ExactAccount, One
<1>7. CASE InitialStateTimeout
  BY <1>2, <1>4, <1>7 DEF InitialStateTimeout, Phases, ExactAccount, One
<1>8. CASE InitialStateAnswered \/ MeasureDoor \/ NextLoop
  BY <1>4, <1>8 DEF InitialStateAnswered, MeasureDoor, NextLoop, Phases, ExactAccount
<1>9. CASE ReceiveInitialState
  <2>1. /\ ~initialRelayStateSent /\ initialRelayStateSent' = TRUE
        /\ down > 0 /\ down' = down - 1
        /\ UNCHANGED <<pulses, wasted, reqs, commands, asked, replays>>
    BY <1>9 DEF ReceiveInitialState
  <2>2. QED
    BY <1>4, <2>1 DEF ExactAccount, One
<1>10. CASE ReceiveCommand
  <2>1. /\ initialRelayStateSent /\ initialRelayStateSent' = initialRelayStateSent
        /\ down > 0 /\ down' = down - 1
        /\ UNCHANGED <<reqs, commands, asked, replays>>
    BY <1>10 DEF ReceiveCommand
  <2>2. pulses + wasted + down + reqs + 1 = commands + One(asked)
    BY <1>4, <2>1 DEF One
  <2>3. CASE relay = On
    <3>1. pulses' = pulses /\ wasted' = wasted + 1
      BY <1>2, <1>10, <2>3 DEF ReceiveCommand, Counted
    <3>2. pulses' + wasted' + down' + reqs' + 1 = commands' + One(asked')
      BY <1>b, <2>1, <2>2, <3>1
    <3>3. QED
      BY <1>4, <2>1, <3>2 DEF ExactAccount, One
  <2>4. CASE relay # On
    <3>1. pulses' = pulses + 1 /\ wasted' = wasted
      BY <1>10, <2>4 DEF ReceiveCommand
    <3>2. pulses' + wasted' + down' + reqs' + 1 = commands' + One(asked')
      BY <1>b, <2>1, <2>2, <3>1
    <3>3. QED
      BY <1>4, <2>1, <3>2 DEF ExactAccount, One
  <2>5. QED
    BY <2>3, <2>4
<1>11. CASE FallAsleep \/ ReleaseRelay \/ FindParent
  BY <1>a, <1>11 DEF FallAsleep, ReleaseRelay, FindParent
<1>12. ASSUME NEW c \in Children, NEW v \in Levels, Command(c, v)
       PROVE  ExactAccount'
  BY <1>4, <1>12 DEF Command, ExactAccount, One
<1>13. CASE AnswerRequest
  BY <1>4, <1>13 DEF AnswerRequest, ExactAccount, One
<1>14. CASE HandleReport \/ DoorMoves
  BY <1>a, <1>14 DEF HandleReport, DoorMoves
<1>15. CASE LoseDown
  <2>1. radio = "off" /\ down > 0 /\ down' = down - 1 /\ wasted' = wasted + 1
    BY <1>2, <1>15 DEF LoseDown, Counted
  <2>2. ~initialRelayStateSent => pc = "setup"
    BY <2>1 DEF Phases
  <2>3. UNCHANGED <<pulses, initialRelayStateSent, asked, replays, reqs, commands, pc>>
    BY <1>15 DEF LoseDown
  <2>4. pulses + wasted' + (down - 1) + reqs + One(initialRelayStateSent)
          = commands + One(asked)
    BY <1>4, <1>b, <2>1
  <2>5. ~initialRelayStateSent => wasted' <= commands
    BY <1>4, <1>b, <2>1, <2>2, <2>4 DEF One
  <2>6. QED
    BY <1>4, <2>1, <2>3, <2>4, <2>5 DEF ExactAccount
<1>16. ~(LoseParent \/ LoseRequest \/ LoseReport)
  BY <1>2 DEF LoseParent, LoseRequest, LoseReport
<1>17. QED
  BY <1>3, <1>5, <1>6, <1>7, <1>8, <1>9, <1>10, <1>11, <1>12, <1>13, <1>14, <1>15, <1>16
     DEF Next, NodeStep

\* The exact account and what it rests on hold in every reachable state.
LEMMA ExactCorrect == Spec => [](Steady /\ ExactAccount)
<1>1. Init => Steady /\ ExactAccount
  BY DEF Init, Steady, ExactAccount, One
<1>2. IInv /\ Steady /\ ExactAccount /\ [Next]_vars => Steady' /\ ExactAccount'
  <2> SUFFICES ASSUME IInv, Steady, ExactAccount, [Next]_vars
               PROVE  Steady' /\ ExactAccount'
    OBVIOUS
  <2>1. CASE UNCHANGED vars
    BY <2>1 DEF vars, nodeVars, linkVars, haVars, pastVars, boundVars, Steady,
                ExactAccount, Undisturbed
  <2>2. CASE Next
    <3>1. ~Undisturbed' => ExactAccount'
      BY DEF ExactAccount
    <3>2. QED
      BY <2>2, <3>1, SteadyStep, ExactStep DEF IInv
  <2>3. QED
    BY <2>1, <2>2
<1>3. QED
  BY <1>1, <1>2, InductiveInvariant, PTL DEF Spec

\* With no loss on the air, nothing late, replayed or restarted, the door button
\* has been pressed exactly once per switch command when all is delivered, but for
\* the commands that met the node asleep or pressed, and for one if it came before
\* loop() had asked for the initial value (GarageBaseStation.receive).
THEOREM OnePressPerCommand == Spec => []EveryCommandPulsesOnce
<1>1. IInv /\ ExactAccount => EveryCommandPulsesOnce
  BY DEF IInv, TypeOK, ExactAccount, EveryCommandPulsesOnce, Settled, One
<1>2. QED
  BY <1>1, InductiveInvariant, ExactCorrect, PTL

-----------------------------------------------------------------------------
(* The notifications that the reports under way will send.                  *)

\* The places in q of the reports of a press and of a release.
PressR   == [child |-> RelayChild, value |-> On]
ReleaseR == [child |-> RelayChild, value |-> Off]

PressAt(q)   == {i \in 1 .. Len(q) : q[i] = PressR}
ReleaseAt(q) == {i \in 1 .. Len(q) : q[i] = ReleaseR}

\* Is the button shown pressed when the reports of q before place k have been
\* read, if it is shown so now?
OnBefore(q, shown, k) ==
  \/ \E i \in PressAt(q) : i < k /\ \A j \in ReleaseAt(q) : j < k => j < i
  \/ shown = On /\ \A j \in ReleaseAt(q) : ~(j < k)

\* The reports of q that turn it from on to off, each of which notifies; and is it
\* on when all are read?
Falls(q, shown)  == {k \in ReleaseAt(q) : OnBefore(q, shown, k)}
Due(q, shown)    == Cardinality(Falls(q, shown))
LeftOn(q, shown) == OnBefore(q, shown, Len(q) + 1)

\* What is notified, muted or about to be notified makes up for every press, but
\* for one whose ON report is the last of the button; that one is Held.
AnnouncedInv ==
  ~Lossy =>
    /\ pulses <= notices + muted + Due(up, ha[RelayChild])
                   + (IF LeftOn(up, ha[RelayChild]) THEN 1 ELSE 0)
    /\ ~Held => pulses <= notices + muted + Due(up, ha[RelayChild])

\* The report appended has the last place, the others keep theirs.
LEMMA AppendPlaces ==
  ASSUME NEW q \in Seq(Report), NEW r \in Report
  PROVE  /\ PressAt(Append(q, r)) =
              IF r = PressR THEN PressAt(q) \union {Len(q) + 1} ELSE PressAt(q)
         /\ ReleaseAt(Append(q, r)) =
              IF r = ReleaseR THEN ReleaseAt(q) \union {Len(q) + 1} ELSE ReleaseAt(q)
<1>1. /\ Len(Append(q, r)) = Len(q) + 1 /\ Len(q) \in Nat
      /\ Append(q, r)[Len(q) + 1] = r
      /\ \A i \in 1 .. Len(q) : Append(q, r)[i] = q[i]
  OBVIOUS
<1>2. 1 .. (Len(q) + 1) = (1 .. Len(q)) \union {Len(q) + 1}
  BY <1>1
<1>3. QED
  BY <1>1, <1>2 DEF PressAt, ReleaseAt

\* Reading the first report moves the others one place forward.
LEMMA TailPlaces ==
  ASSUME NEW q \in Seq(Report), q # <<>>
  PROVE  /\ \A i \in Nat \ {0} : i \in PressAt(Tail(q)) <=> i + 1 \in PressAt(q)
         /\ \A i \in Nat \ {0} : i \in ReleaseAt(Tail(q)) <=> i + 1 \in ReleaseAt(q)
         /\ 1 \in PressAt(q) <=> Head(q) = PressR
         /\ 1 \in ReleaseAt(q) <=> Head(q) = ReleaseR
         /\ Tail(q) \in Seq(Report)
<1>1. /\ Len(q) \in Nat \ {0} /\ Len(Tail(q)) = Len(q) - 1 /\ Head(q) = q[1]
      /\ \A i \in 1 .. Len(q) - 1 : Tail(q)[i] = q[i + 1]
      /\ Tail(q) \in Seq(Report)
  OBVIOUS
<1>2. QED
  BY <1>1 DEF PressAt, ReleaseAt

\* Sets of places one of which is the other moved forward.
LEMMA Shifted ==
  ASSUME NEW S \in SUBSET (Nat \ {0}), IsFiniteSet(S),
         NEW T \in SUBSET (Nat \ {0}), IsFiniteSet(T),
         \A i \in Nat \ {0} : i \in S <=> i + 1 \in T
  PROVE  Cardinality(T) = Cardinality(S) + (IF 1 \in T THEN 1 ELSE 0)
<1> DEFINE U == T \ {1}
           f == [i \in S |-> i + 1]
<1>1. f \in Bijection(S, U)
  <2>1. f \in [S -> U]
    <3>1. ASSUME NEW i \in S PROVE i + 1 \in U
      <4>1. i \in Nat \ {0} /\ i + 1 # 1
        OBVIOUS
      <4>2. QED
        BY <4>1
    <3>2. QED
      BY <3>1
  <2>2. \A i, j \in S : f[i] = f[j] => i = j
    OBVIOUS
  <2>3. \A t \in U : \E i \in S : f[i] = t
    <3> TAKE t \in U
    <3>1. t - 1 \in Nat \ {0} /\ (t - 1) + 1 = t
      OBVIOUS
    <3>2. t - 1 \in S
      BY <3>1
    <3>3. QED
      BY <3>1, <3>2
  <2>4. QED
    <3> HIDE DEF f, U
    <3>1. DOMAIN f = S
      BY <2>1
    <3>2. f \in Injection(S, U)
      BY <2>1, <2>2, <3>1 DEF Injection, IsInjective
    <3>3. f \in Surjection(S, U)
      BY <2>1, <2>3 DEF Surjection
    <3>4. QED
      BY <3>2, <3>3 DEF Bijection
<1>2. Cardinality(U) = Cardinality(S)
  BY <1>1, FS_Bijection DEF ExistsBijection
<1>3. /\ Cardinality(U) = IF 1 \in T THEN Cardinality(T) - 1 ELSE Cardinality(T)
      /\ Cardinality(T) \in Nat /\ Cardinality(S) \in Nat
  BY FS_RemoveElement, FS_CardinalityType
<1>4. QED
  BY <1>2, <1>3

\* The reports that notify are finitely many places of the sequence.
LEMMA FallsFinite ==
  ASSUME NEW q \in Seq(Report), NEW shown \in Levels
  PROVE  /\ Falls(q, shown) \in SUBSET (Nat \ {0})
         /\ IsFiniteSet(Falls(q, shown))
         /\ Due(q, shown) \in Nat
<1>1. Falls(q, shown) \in SUBSET (1 .. Len(q)) /\ Len(q) \in Int
  BY DEF Falls, ReleaseAt
<1>2. IsFiniteSet(1 .. Len(q))
  BY <1>1, FS_Interval
<1>3. IsFiniteSet(Falls(q, shown))
  BY <1>1, <1>2, FS_Subset
<1>4. QED
  BY <1>1, <1>3, FS_CardinalityType DEF Due

\* A report appended: that of a release notifies if the button was left on.
LEMMA AppendDue ==
  ASSUME NEW q \in Seq(Report), NEW r \in Report, NEW shown \in Levels
  PROVE  /\ r # ReleaseR => Due(Append(q, r), shown) = Due(q, shown)
         /\ r = PressR => LeftOn(Append(q, r), shown)
         /\ r \notin {PressR, ReleaseR} =>
              (LeftOn(Append(q, r), shown) <=> LeftOn(q, shown))
         /\ r = ReleaseR =>
              Due(Append(q, r), shown)
                = Due(q, shown) + (IF LeftOn(q, shown) THEN 1 ELSE 0)
<1> DEFINE n == Len(q) + 1
           a == Append(q, r)
<1>1. /\ PressAt(a) = IF r = PressR THEN PressAt(q) \union {n} ELSE PressAt(q)
      /\ ReleaseAt(a) = IF r = ReleaseR THEN ReleaseAt(q) \union {n} ELSE ReleaseAt(q)
  BY AppendPlaces
<1>2. /\ n \in Nat /\ Len(a) + 1 = n + 1
      /\ \A i \in PressAt(q) : i \in Nat /\ i < n
      /\ \A i \in ReleaseAt(q) : i \in Nat /\ i < n
  BY DEF PressAt, ReleaseAt
<1>3. PressR # ReleaseR
  BY DEF PressR, ReleaseR, On, Off
<1>4. LeftOn(q, shown) <=> OnBefore(q, shown, n)
  BY DEF LeftOn
<1>5. LeftOn(a, shown) <=> OnBefore(a, shown, n + 1)
  BY <1>2 DEF LeftOn
<1>6. IsFiniteSet(Falls(q, shown)) /\ Due(q, shown) \in Nat
  BY FallsFinite
<1> HIDE DEF n, a
<1>7. \A k \in Nat : k <= n => (OnBefore(a, shown, k) <=> OnBefore(q, shown, k))
  <2> SUFFICES ASSUME NEW k \in Nat, k <= n
               PROVE  OnBefore(a, shown, k) <=> OnBefore(q, shown, k)
    OBVIOUS
  <2>1. ~(n < k)
    BY <1>2
  <2>2. QED
    BY <1>1, <1>2, <2>1 DEF OnBefore
<1>8. r # ReleaseR => Falls(a, shown) = Falls(q, shown)
  BY <1>1, <1>2, <1>7 DEF Falls
<1>9. r = PressR => LeftOn(a, shown)
  BY <1>1, <1>2, <1>3, <1>5 DEF OnBefore
<1>10. r \notin {PressR, ReleaseR} => (LeftOn(a, shown) <=> LeftOn(q, shown))
  <2> SUFFICES ASSUME r \notin {PressR, ReleaseR}
               PROVE  OnBefore(a, shown, n + 1) <=> OnBefore(q, shown, n)
    BY <1>4, <1>5
  <2>1. /\ PressAt(a) = PressAt(q) /\ ReleaseAt(a) = ReleaseAt(q)
        /\ \A i \in PressAt(q) \union ReleaseAt(q) : i < n + 1 /\ i < n
    BY <1>1, <1>2
  <2>2. QED
    BY <2>1 DEF OnBefore
<1>11. ASSUME r = ReleaseR
       PROVE  Due(a, shown) = Due(q, shown) + (IF LeftOn(q, shown) THEN 1 ELSE 0)
  <2>1. Falls(a, shown) = IF LeftOn(q, shown) THEN Falls(q, shown) \union {n}
                                              ELSE Falls(q, shown)
    BY <1>1, <1>2, <1>4, <1>7, <1>11 DEF Falls
  <2>2. n \notin Falls(q, shown)
    BY <1>2 DEF Falls
  <2>3. Cardinality(Falls(q, shown) \union {n}) = Cardinality(Falls(q, shown)) + 1
    BY <1>6, <2>2, FS_AddElement
  <2>4. Cardinality(Falls(q, shown)) \in Nat
    BY <1>6 DEF Due
  <2>5. QED
    BY <2>1, <2>3, <2>4 DEF Due
<1>12. QED
  BY <1>8, <1>9, <1>10, <1>11 DEF a, Due

\* Reading a report sends one of the notifications due, if it turns the switch
\* off, and leaves the others and what they end with.
LEMMA TailDue ==
  ASSUME NEW q \in Seq(Report), q # <<>>, NEW shown \in Levels, NEW next \in Levels,
         next = IF Head(q) = PressR THEN On ELSE IF Head(q) = ReleaseR THEN Off ELSE shown
  PROVE  /\ LeftOn(Tail(q), next) <=> LeftOn(q, shown)
         /\ Due(q, shown) = Due(Tail(q), next)
              + (IF Head(q) = ReleaseR /\ shown = On THEN 1 ELSE 0)
<1> DEFINE t == Tail(q)
<1>1. /\ \A i \in Nat \ {0} : i \in PressAt(t) <=> i + 1 \in PressAt(q)
      /\ \A i \in Nat \ {0} : i \in ReleaseAt(t) <=> i + 1 \in ReleaseAt(q)
      /\ 1 \in PressAt(q) <=> Head(q) = PressR
      /\ 1 \in ReleaseAt(q) <=> Head(q) = ReleaseR
      /\ t \in Seq(Report)
  BY TailPlaces
<1>2. /\ \A i \in PressAt(t) : i \in Nat \ {0}
      /\ \A i \in ReleaseAt(t) : i \in Nat \ {0}
      /\ \A i \in PressAt(q) : i \in Nat \ {0}
      /\ \A i \in ReleaseAt(q) : i \in Nat \ {0}
  BY DEF PressAt, ReleaseAt
<1>3. PressR # ReleaseR /\ On # Off
  BY DEF PressR, ReleaseR, On, Off
<1>4. Len(t) + 1 \in Nat \ {0} /\ Len(q) + 1 = (Len(t) + 1) + 1
  OBVIOUS
<1> HIDE DEF t
<1>5. \A k \in Nat \ {0} : OnBefore(t, next, k) => OnBefore(q, shown, k + 1)
  <2> SUFFICES ASSUME NEW k \in Nat \ {0}, OnBefore(t, next, k)
               PROVE  OnBefore(q, shown, k + 1)
    OBVIOUS
  <2>0. \A j \in ReleaseAt(q) : j = 1 \/ (j - 1 \in ReleaseAt(t) /\ j - 1 \in Nat)
    <3> TAKE j \in ReleaseAt(q)
    <3>1. j # 1 => j - 1 \in Nat \ {0} /\ (j - 1) + 1 = j
      BY <1>2
    <3>2. QED
      BY <1>1, <3>1
  <2>1. CASE \E i \in PressAt(t) : i < k /\ \A j \in ReleaseAt(t) : j < k => j < i
    <3>1. PICK i \in PressAt(t) : i < k /\ \A j \in ReleaseAt(t) : j < k => j < i
      BY <2>1
    <3>0. i \in Nat \ {0}
      BY <1>2
    <3>2. i \in Nat \ {0} /\ i + 1 \in PressAt(q) /\ i + 1 < k + 1
      BY <1>1, <3>0, <3>1
    <3>3. ASSUME NEW j \in ReleaseAt(q), j < k + 1 PROVE j < i + 1
      <4>1. j \in Nat
        BY <1>2
      <4>2. CASE j = 1
        BY <3>2, <4>2
      <4>3. CASE j # 1
        <5>1. j - 1 \in ReleaseAt(t) /\ j - 1 < k
          BY <2>0, <3>3, <4>1, <4>3
        <5>2. j - 1 < i
          BY <3>1, <5>1
        <5>3. QED
          BY <3>2, <4>1, <5>2
      <4>4. QED
        BY <4>2, <4>3
    <3>4. QED
      BY <3>2, <3>3 DEF OnBefore
  <2>2. CASE next = On /\ \A j \in ReleaseAt(t) : ~(j < k)
    <3>1. Head(q) # ReleaseR /\ 1 \notin ReleaseAt(q)
      BY <1>1, <1>3, <2>2
    <3>2. ASSUME NEW j \in ReleaseAt(q) PROVE ~(j < k + 1)
      <4>1. j \in Nat /\ j - 1 \in ReleaseAt(t)
        BY <1>2, <2>0, <3>1
      <4>2. ~(j - 1 < k)
        BY <2>2, <4>1
      <4>3. QED
        BY <4>1, <4>2
    <3>3. CASE Head(q) = PressR
      <4>1. 1 \in PressAt(q) /\ 1 < k + 1
        BY <1>1, <3>3
      <4>2. QED
        BY <3>2, <4>1 DEF OnBefore
    <3>4. CASE Head(q) # PressR
      <4>1. shown = On
        BY <2>2, <3>1, <3>4
      <4>2. QED
        BY <3>2, <4>1 DEF OnBefore
    <3>5. QED
      BY <3>3, <3>4
  <2>3. QED
    BY <2>1, <2>2 DEF OnBefore
<1>6. \A k \in Nat \ {0} : OnBefore(q, shown, k + 1) => OnBefore(t, next, k)
  <2> SUFFICES ASSUME NEW k \in Nat \ {0}, OnBefore(q, shown, k + 1)
               PROVE  OnBefore(t, next, k)
    OBVIOUS
  <2>1. CASE \E i \in PressAt(q) :
               i < k + 1 /\ \A j \in ReleaseAt(q) : j < k + 1 => j < i
    <3>1. PICK i \in PressAt(q) :
                 i < k + 1 /\ \A j \in ReleaseAt(q) : j < k + 1 => j < i
      BY <2>1
    <3>0. i \in Nat \ {0}
      BY <1>2
    <3>2. ASSUME NEW j \in ReleaseAt(t), j < k
          PROVE  j \in Nat \ {0} /\ j + 1 < i
      <4>1. j \in Nat \ {0}
        BY <1>2
      <4>2. j + 1 \in ReleaseAt(q) /\ j + 1 < k + 1
        BY <1>1, <3>2, <4>1
      <4>3. QED
        BY <3>1, <4>1, <4>2
    <3>3. CASE i = 1
      <4>1. Head(q) = PressR /\ next = On
        BY <1>1, <3>1, <3>3
      <4>2. \A j \in ReleaseAt(t) : ~(j < k)
        <5> SUFFICES ASSUME NEW j \in ReleaseAt(t), j < k PROVE FALSE
          OBVIOUS
        <5>1. j \in Nat \ {0} /\ j + 1 < 1
          BY <3>2, <3>3
        <5>2. QED
          BY <5>1
      <4>3. QED
        BY <4>1, <4>2 DEF OnBefore
    <3>4. CASE i # 1
      <4>1. i - 1 \in Nat \ {0} /\ (i - 1) + 1 = i
        BY <3>0, <3>4
      <4>2. i - 1 \in PressAt(t) /\ i - 1 < k
        BY <1>1, <3>0, <3>1, <4>1
      <4>3. ASSUME NEW j \in ReleaseAt(t), j < k PROVE j < i - 1
        <5>1. j \in Nat \ {0} /\ j + 1 < i
          BY <3>2, <4>3
        <5>2. QED
          BY <3>0, <5>1
      <4>4. QED
        BY <4>2, <4>3 DEF OnBefore
    <3>5. QED
      BY <3>3, <3>4
  <2>2. CASE shown = On /\ \A j \in ReleaseAt(q) : ~(j < k + 1)
    <3>1. Head(q) # ReleaseR
      <4>1. 1 < k + 1
        OBVIOUS
      <4>2. QED
        BY <1>1, <2>2, <4>1
    <3>2. next = On
      BY <2>2, <3>1
    <3>3. ASSUME NEW j \in ReleaseAt(t) PROVE ~(j < k)
      <4>1. j \in Nat \ {0}
        BY <1>2
      <4>2. j + 1 \in ReleaseAt(q)
        BY <1>1, <4>1
      <4>3. ~(j + 1 < k + 1)
        BY <2>2, <4>2
      <4>4. QED
        BY <4>1, <4>3
    <3>4. QED
      BY <3>2, <3>3 DEF OnBefore
  <2>3. QED
    BY <2>1, <2>2 DEF OnBefore
<1>7. LeftOn(t, next) <=> LeftOn(q, shown)
  BY <1>4, <1>5, <1>6 DEF LeftOn
<1>8. \A i \in Nat \ {0} : i \in Falls(t, next) <=> i + 1 \in Falls(q, shown)
  BY <1>1, <1>5, <1>6 DEF Falls
<1>9. 1 \in Falls(q, shown) <=> Head(q) = ReleaseR /\ shown = On
  <2>1. \A i \in PressAt(q) : ~(i < 1)
    BY <1>2
  <2>2. \A i \in ReleaseAt(q) : ~(i < 1)
    BY <1>2
  <2>3. OnBefore(q, shown, 1) <=> shown = On
    BY <2>1, <2>2 DEF OnBefore
  <2>4. QED
    BY <1>1, <2>3 DEF Falls
<1>10. /\ Falls(t, next) \in SUBSET (Nat \ {0}) /\ IsFiniteSet(Falls(t, next))
       /\ Falls(q, shown) \in SUBSET (Nat \ {0}) /\ IsFiniteSet(Falls(q, shown))
  BY <1>1, FallsFinite
<1>11. Cardinality(Falls(q, shown))
         = Cardinality(Falls(t, next)) + (IF 1 \in Falls(q, shown) THEN 1 ELSE 0)
  BY <1>8, <1>10, Shifted
<1>12. QED
  BY <1>7, <1>9, <1>11 DEF Due, t

\* Turning the switch off by hand takes at most one of the notifications due.
LEMMA SwitchedDue ==
  ASSUME NEW q \in Seq(Report)
  PROVE  /\ Due(q, Off) <= Due(q, On)
         /\ Due(q, On) <= Due(q, Off) + 1
         /\ LeftOn(q, Off) => LeftOn(q, On)
         /\ Due(q, On) = Due(q, Off) \/ (LeftOn(q, On) => LeftOn(q, Off))
<1>1. On \in Levels /\ Off \in Levels /\ On # Off
  BY DEF Levels, On, Off
<1>2. \A k : OnBefore(q, Off, k) => OnBefore(q, On, k)
  BY <1>1 DEF OnBefore
<1>3. /\ Falls(q, On) \in SUBSET (Nat \ {0}) /\ IsFiniteSet(Falls(q, On))
      /\ Due(q, On) \in Nat
      /\ IsFiniteSet(Falls(q, Off)) /\ Due(q, Off) \in Nat
  BY <1>1, FallsFinite
<1>4. \A j, k : j \in ReleaseAt(q) /\ j < k /\ OnBefore(q, On, k) => OnBefore(q, Off, k)
  BY DEF OnBefore
<1>5. Falls(q, Off) \subseteq Falls(q, On)
  BY <1>2 DEF Falls
<1>6. CASE Falls(q, On) = Falls(q, Off)
  <2>1. Due(q, On) = Due(q, Off)
    BY <1>6 DEF Due
  <2>2. LeftOn(q, Off) => LeftOn(q, On)
    BY <1>2 DEF LeftOn
  <2>3. QED
    BY <1>3, <2>1, <2>2
<1>7. CASE Falls(q, On) # Falls(q, Off)
  <2>1. PICK k \in Falls(q, On) : k \notin Falls(q, Off)
    BY <1>5, <1>7
  <2>2. ASSUME NEW j \in Falls(q, On), j \notin Falls(q, Off) PROVE j = k
    <3>1. /\ j \in ReleaseAt(q) /\ OnBefore(q, On, j) /\ ~OnBefore(q, Off, j)
          /\ k \in ReleaseAt(q) /\ OnBefore(q, On, k) /\ ~OnBefore(q, Off, k)
      BY <2>1, <2>2 DEF Falls
    <3>2. ~(j < k) /\ ~(k < j)
      BY <1>4, <3>1
    <3>3. j \in Nat /\ k \in Nat
      BY <1>3, <2>2
    <3>4. QED
      BY <3>2, <3>3
  <2>3. Falls(q, On) = Falls(q, Off) \union {k}
    BY <1>5, <2>1, <2>2
  <2>4. Due(q, On) = Due(q, Off) + 1
    BY <1>3, <2>1, <2>3, FS_AddElement DEF Due
  <2>5. k \in ReleaseAt(q) /\ k < Len(q) + 1
    BY <2>1 DEF Falls, ReleaseAt
  <2>6. LeftOn(q, On) <=> LeftOn(q, Off)
    BY <1>2, <1>4, <2>5 DEF LeftOn
  <2>7. QED
    BY <1>3, <2>4, <2>6
<1>8. QED
  BY <1>6, <1>7

\* Without loss a report that has room is sent, if the node has its parent.
LEMMA SentWithoutLoss ==
  ASSUME TypeOK, transport = "ready", ~Lossy, Room, NEW c \in Children, NEW v \in Levels
  PROVE  Sent(c, v) = Append(up, [child |-> c, value |-> v])
<1>1. UplinkCap \in Nat /\ Len(up) \in Nat
  BY BoundsAssumption DEF TypeOK
<1>2. QED
  BY <1>1 DEF Sent, Room

\* If the notifications sent, muted or due make up for every press, so much the more
\* does what AnnouncedInv counts.
LEMMA MadeUpKeeps ==
  ASSUME pulses' <= notices' + muted' + Due(up', ha'[RelayChild]),
         pulses' \in Nat, notices' \in Nat, muted' \in Nat,
         Due(up', ha'[RelayChild]) \in Nat
  PROVE  AnnouncedInv'
<1>1. PICK p, n, m, d \in Nat :
        p = pulses' /\ n = notices' /\ m = muted' /\ d = Due(up', ha'[RelayChild])
  OBVIOUS
<1>2. \A b \in {0, 1} : p <= n + m + d + b
  BY <1>1
<1>3. QED
  BY <1>1, <1>2 DEF AnnouncedInv

\* A report of OFF announces a press that was held, and settles the account.
LEMMA OffReportKeeps ==
  ASSUME TypeOK, AnnouncedInv, ~Lossy, up' = Append(up, ReleaseR), pulses' = pulses,
         notices' = notices, ha' = ha, muted' = muted
  PROVE  AnnouncedInv'
<1>1. /\ up \in Seq(Report) /\ ha[RelayChild] \in Levels /\ ReleaseR \in Report
      /\ pulses \in Nat /\ notices \in Nat /\ muted \in Nat
  BY DEF TypeOK, Children, ReleaseR, Report, Levels
<1>2. Due(up', ha'[RelayChild])
        = Due(up, ha[RelayChild]) + (IF LeftOn(up, ha[RelayChild]) THEN 1 ELSE 0)
  BY <1>1, AppendDue
<1>3. Due(up, ha[RelayChild]) \in Nat
  BY <1>1, FallsFinite
<1>4. pulses' <= notices' + muted' + Due(up', ha'[RelayChild])
  BY <1>1, <1>2, <1>3 DEF AnnouncedInv
<1>5. Due(up', ha'[RelayChild]) \in Nat
  BY <1>2, <1>3
<1>6. QED
  BY <1>1, <1>4, <1>5 DEF AnnouncedInv

\* A step that leaves the reports, the switch and the counts alone and holds no
\* press less keeps what is to be announced.
LEMMA NoReportKeeps ==
  ASSUME AnnouncedInv, up' = up, pulses' = pulses, notices' = notices, ha' = ha,
         muted' = muted, ~Held' => ~Held
  PROVE  AnnouncedInv'
BY DEF AnnouncedInv

\* Every step keeps the account of what is to be announced.
LEMMA AnnouncedStep ==
  ASSUME TypeOK, RelayReleased, Phases, Steady, AnnouncedInv, Next
  PROVE  AnnouncedInv'
<1> SUFFICES ASSUME ~Lossy PROVE AnnouncedInv'
  BY DEF AnnouncedInv
<1> USE DEF nodeVars, linkVars, haVars, pastVars, boundVars
<1> DEFINE due == Due(up, ha[RelayChild])
           left == LeftOn(up, ha[RelayChild])
<1>0. /\ pulses <= notices + muted + due + (IF left THEN 1 ELSE 0)
      /\ ~Held => pulses <= notices + muted + due
  BY DEF AnnouncedInv
<1>a. /\ up \in Seq(Report) /\ ha \in [Children -> Levels]
      /\ pulses \in Nat /\ notices \in Nat /\ muted \in Nat /\ frames \in Nat
  BY DEF TypeOK
<1>b. /\ PressR \in Report /\ ReleaseR \in Report /\ PressR # ReleaseR
      /\ \A v \in Levels : /\ [child |-> DoorChild, value |-> v] \in Report
                           /\ [child |-> DoorChild, value |-> v] \notin {PressR, ReleaseR}
      /\ RelayChild \in Children /\ DoorChild \in Children /\ RelayChild # DoorChild
      /\ On \in Levels /\ Off \in Levels /\ On # Off
  BY DEF PressR, ReleaseR, Report, Children, RelayChild, DoorChild, Levels, On, Off
<1>c. ha[RelayChild] \in Levels
  BY <1>a, <1>b
<1>d. due \in Nat
  BY <1>a, <1>c, FallsFinite
<1>1. CASE AskInitialState
  <2>1. transport = "ready"
    BY <1>1 DEF AskInitialState, Steady
  <2>2. up' = Append(up, ReleaseR)
    BY <1>b, <1>1, <2>1, SentWithoutLoss DEF AskInitialState, ReleaseR
  <2>3. QED
    BY <1>1, <2>2, OffReportKeeps DEF AskInitialState
<1>2. CASE MeasureDoor
  <2>1. transport = "ready"
    BY <1>2 DEF MeasureDoor, Steady
  <2>2. PICK v \in Levels : up' = Sent(DoorChild, v)
    BY <1>2 DEF MeasureDoor, MeasuredDoor, DoorReport, TypeOK, Levels
  <2>3. up' = Append(up, [child |-> DoorChild, value |-> v])
    BY <1>b, <1>2, <2>1, <2>2, SentWithoutLoss DEF MeasureDoor
  <2>4. /\ Due(up', ha[RelayChild]) = due
        /\ LeftOn(up', ha[RelayChild]) <=> left
    BY <1>a, <1>b, <1>c, <2>3, AppendDue
  <2>5. /\ ha' = ha /\ pulses' = pulses /\ notices' = notices /\ muted' = muted
        /\ Held' = Held
    BY <1>2 DEF MeasureDoor, Held
  <2>6. QED
    BY <1>0, <1>d, <2>4, <2>5 DEF AnnouncedInv
<1>3. CASE ReleaseRelay
  <2>0. ha' = ha /\ pulses' = pulses /\ notices' = notices /\ muted' = muted
    BY <1>3 DEF ReleaseRelay
  <2>1. CASE transport = "ready"
    <3>1. up' = Append(up, ReleaseR)
      BY <1>b, <1>3, <2>1, SentWithoutLoss DEF ReleaseRelay, ReleaseReport, ReleaseR
    <3>2. QED
      BY <2>0, <3>1, OffReportKeeps
  <2>2. CASE transport # "ready"
    <3>1. up' = up
      BY <1>3, <2>2 DEF ReleaseRelay, ReleaseReport, Sent
    <3>2. ~Held
      BY <1>3, <2>2 DEF ReleaseRelay, Held, Steady, Phases
    <3>3. QED
      BY <2>0, <3>1, <3>2, NoReportKeeps
  <2>3. QED
    BY <2>1, <2>2
<1>4. CASE ReceiveCommand
  <2>1. ~Held
    BY <1>4 DEF ReceiveCommand, Polling, Phases, Held
  <2>2. ha' = ha /\ notices' = notices
    BY <1>4 DEF ReceiveCommand
  <2>3. CASE transport = "ready"
    <3>1. up' = Append(up, PressR)
      BY <1>b, <1>4, <2>3, SentWithoutLoss DEF ReceiveCommand, PressReport, PressR
    <3>2. Due(up', ha[RelayChild]) = due /\ LeftOn(up', ha[RelayChild])
      BY <1>a, <1>b, <1>c, <3>1, AppendDue
    <3>3. muted' = muted /\ pulses' \in {pulses, pulses + 1}
      BY <1>4, <2>3 DEF ReceiveCommand
    <3>4. Held' \/ pulses' = pulses
      BY <1>4, <2>3 DEF ReceiveCommand, Held
    <3>5. QED
      BY <1>0, <1>a, <1>d, <2>1, <2>2, <3>2, <3>3, <3>4 DEF AnnouncedInv
  <2>4. CASE transport # "ready"
    <3>1. up' = up
      BY <1>4, <2>4 DEF ReceiveCommand, PressReport, Sent
    <3>2. \/ pulses' = pulses /\ muted' = muted
          \/ pulses' = pulses + 1 /\ muted' = muted + 1
      <4>1. relay = On \/ relay = Off
        BY DEF TypeOK, Levels
      <4>2. relay = On => pulses' = pulses /\ muted' = muted
        BY <1>b, <1>4 DEF ReceiveCommand
      <4>3. relay = Off => pulses' = pulses + 1 /\ muted' = muted + 1
        BY <1>b, <1>4, <2>4 DEF ReceiveCommand, Counted
      <4>4. QED
        BY <4>1, <4>2, <4>3
    <3>3. pulses' <= notices' + muted' + Due(up', ha'[RelayChild])
      BY <1>0, <1>a, <1>d, <2>1, <2>2, <3>1, <3>2
    <3>4. QED
      BY <1>a, <1>d, <2>2, <3>1, <3>2, <3>3, MadeUpKeeps
  <2>5. QED
    BY <2>3, <2>4
<1>5. CASE ReceiveInitialState
  <2>1. ha' = ha /\ notices' = notices /\ pulses' = pulses /\ up' = up
    BY <1>5 DEF ReceiveInitialState
  <2>2. CASE cut
    <3>1. muted' = muted + 1
      BY <1>5, <2>2 DEF ReceiveInitialState, Counted
    <3>2. pulses' <= notices' + muted' + Due(up', ha'[RelayChild])
      BY <1>0, <1>a, <1>d, <2>1, <3>1
    <3>3. QED
      BY <1>a, <1>d, <2>1, <3>1, <3>2 DEF AnnouncedInv
  <2>3. CASE ~cut
    <3>1. muted' = muted /\ ~Held
      BY <1>5, <2>3 DEF ReceiveInitialState, Held, Polling, Phases
    <3>2. QED
      BY <2>1, <3>1, NoReportKeeps
  <2>4. QED
    BY <2>2, <2>3
<1>6. CASE HandleReport
  <2>1. /\ up # <<>> /\ up' = Tail(up) /\ Head(up) \in Report
        /\ ha' = [ha EXCEPT ![Head(up).child] = Head(up).value]
        /\ notices' = NoticesAfter(ha, ha') /\ pulses' = pulses /\ muted' = muted
        /\ Held' = Held
    BY <1>a, <1>6 DEF HandleReport, Held
  <2>2. ha'[RelayChild] = IF Head(up) = PressR THEN On
                          ELSE IF Head(up) = ReleaseR THEN Off ELSE ha[RelayChild]
    <3>1. CASE Head(up).child = RelayChild
      <4>1. ha'[RelayChild] = Head(up).value /\ Head(up).value \in {On, Off}
        BY <1>a, <1>b, <2>1, <3>1 DEF Report, Levels
      <4>2. Head(up) = [child |-> RelayChild, value |-> Head(up).value]
        BY <2>1, <3>1 DEF Report
      <4>3. QED
        BY <1>b, <4>1, <4>2 DEF PressR, ReleaseR
    <3>2. CASE Head(up).child # RelayChild
      BY <1>a, <1>b, <2>1, <3>2 DEF PressR, ReleaseR
    <3>3. QED
      BY <3>1, <3>2
  <2>3. ha'[RelayChild] \in Levels
    BY <1>b, <1>c, <2>2
  <2>4. /\ LeftOn(up', ha'[RelayChild]) <=> left
        /\ due = Due(up', ha'[RelayChild])
                   + (IF Head(up) = ReleaseR /\ ha[RelayChild] = On THEN 1 ELSE 0)
    BY <1>a, <1>c, <2>1, <2>2, <2>3, TailDue
  <2>5. notices' = notices
                     + (IF Head(up) = ReleaseR /\ ha[RelayChild] = On THEN 1 ELSE 0)
    BY <1>a, <1>b, <2>1, <2>2 DEF NoticesAfter
  <2>6. Due(up', ha'[RelayChild]) \in Nat
    BY <1>a, <2>1, <2>3, TailPlaces, FallsFinite
  <2>7. CASE Head(up) = ReleaseR /\ ha[RelayChild] = On
    <3>1. notices' = notices + 1 /\ due = Due(up', ha'[RelayChild]) + 1
      BY <2>4, <2>5, <2>7
    <3>2. QED
      BY <1>0, <1>a, <2>1, <2>4, <2>6, <3>1 DEF AnnouncedInv
  <2>8. CASE ~(Head(up) = ReleaseR /\ ha[RelayChild] = On)
    <3>1. notices' = notices /\ due = Due(up', ha'[RelayChild])
      BY <1>a, <2>4, <2>5, <2>6, <2>8
    <3>2. QED
      BY <1>0, <1>a, <2>1, <2>4, <2>6, <3>1 DEF AnnouncedInv
  <2>9. QED
    BY <2>7, <2>8
<1>7. ASSUME NEW c \in Children, NEW v \in Levels, Command(c, v)
      PROVE  AnnouncedInv'
  <2>1. /\ up' = up /\ pulses' = pulses /\ muted' = muted /\ Held' = Held
        /\ ha' = [ha EXCEPT ![c] = v] /\ notices' = NoticesAfter(ha, ha')
    BY <1>7 DEF Command, Held
  <2>2. ha'[RelayChild] \in {On, Off} /\ ha[RelayChild] \in {On, Off}
    BY <1>a, <1>b, <1>c, <2>1 DEF Levels
  <2>3. /\ Due(up, On) \in Nat /\ Due(up, Off) \in Nat
        /\ Due(up, Off) <= Due(up, On) /\ Due(up, On) <= Due(up, Off) + 1
        /\ LeftOn(up, Off) => LeftOn(up, On)
        /\ Due(up, On) = Due(up, Off) \/ (LeftOn(up, On) => LeftOn(up, Off))
    BY <1>a, <1>b, SwitchedDue, FallsFinite
  <2>4. CASE ha'[RelayChild] = ha[RelayChild]
    <3>1. notices' = notices
      BY <1>b, <2>1, <2>4 DEF NoticesAfter
    <3>2. QED
      BY <1>0, <2>1, <2>4, <3>1 DEF AnnouncedInv
  <2>5. CASE ha[RelayChild] = On /\ ha'[RelayChild] = Off
    <3>1. notices' = notices + 1
      BY <2>1, <2>5 DEF NoticesAfter
    <3>2. QED
      BY <1>0, <1>a, <2>1, <2>3, <2>5, <3>1 DEF AnnouncedInv
  <2>6. CASE ha[RelayChild] = Off /\ ha'[RelayChild] = On
    <3>1. notices' = notices
      BY <1>b, <2>1, <2>6 DEF NoticesAfter
    <3>2. QED
      BY <1>0, <1>a, <2>1, <2>3, <2>6, <3>1 DEF AnnouncedInv
  <2>7. QED
    BY <2>2, <2>4, <2>5, <2>6
<1>8. CASE EndBoot \/ EndSetup \/ SkipInitialState \/ InitialStateTimeout
           \/ InitialStateAnswered \/ NextLoop
  <2>1. CASE EndBoot
    BY <2>1, NoReportKeeps DEF EndBoot, Held, Phases
  <2>2. CASE EndSetup
    <3>1. relay # On
      BY <2>2 DEF EndSetup, Phases, RelayReleased
    <3>2. QED
      BY <2>2, <3>1, NoReportKeeps DEF EndSetup, Held
  <2>3. CASE SkipInitialState \/ InitialStateTimeout \/ InitialStateAnswered \/ NextLoop
    BY <2>3, NoReportKeeps DEF SkipInitialState, InitialStateTimeout,
                               InitialStateAnswered, NextLoop, Held
  <2>4. QED
    BY <1>8, <2>1, <2>2, <2>3
<1>9. CASE FallAsleep \/ FindParent
  BY <1>9, NoReportKeeps DEF FallAsleep, FindParent, Held
<1>10. CASE PowerFailure
  BY <1>10, NoReportKeeps DEF PowerFailure, Held
<1>11. CASE AnswerRequest \/ GatewayReconnect \/ LoseDown \/ DoorMoves
  BY <1>11, NoReportKeeps DEF AnswerRequest, GatewayReconnect, LoseDown, DoorMoves, Held
<1>12. ~(LoseParent \/ LoseRequest \/ LoseReport)
  BY DEF LoseParent, LoseRequest, LoseReport
<1>13. QED
  BY <1>1, <1>2, <1>3, <1>4, <1>5, <1>6, <1>7, <1>8, <1>9, <1>10, <1>11, <1>12
     DEF Next, NodeStep

\* With no loss on the air every press of the door button has been notified when all
\* is delivered, whatever commands and power failures came in the middle of it, but
\* for those counted as made without a parent or as cut and not made good
\* (GarageBaseStation.receive and loop, the "door activated" automation).
THEOREM EveryPressAnnounced == Spec => []PulsesAnnounced
<1>1. Init => AnnouncedInv
  <2> SUFFICES ASSUME Init PROVE AnnouncedInv
    OBVIOUS
  <2>1. up \in Seq(Report) /\ ha[RelayChild] \in Levels
    BY DEF Init, Children, Levels
  <2>2. Due(up, ha[RelayChild]) \in Nat
    BY <2>1, FallsFinite
  <2>3. pulses = 0 /\ notices = 0 /\ muted = 0
    BY DEF Init
  <2>4. QED
    BY <2>2, <2>3 DEF AnnouncedInv
<1>2. AnnouncedInv /\ UNCHANGED vars => AnnouncedInv'
  BY NoReportKeeps DEF vars, nodeVars, linkVars, haVars, pastVars, boundVars, Held
<1>3. IInv /\ Steady /\ AnnouncedInv /\ [Next]_vars => AnnouncedInv'
  BY <1>2, AnnouncedStep DEF IInv
<1>4. IInv /\ AnnouncedInv => PulsesAnnounced
  <2> SUFFICES ASSUME AnnouncedInv, ~Lossy, Settled, IInv
               PROVE  notices + muted >= pulses
    BY DEF PulsesAnnounced
  <2>1. ~Held
    BY DEF Settled, IInv, RelayReleased, Phases, Held
  <2>2. ReleaseAt(up) = {}
    BY DEF Settled, ReleaseAt
  <2>3. Due(up, ha[RelayChild]) = 0
    BY <2>2, FS_EmptySet DEF Due, Falls
  <2>4. QED
    BY <2>1, <2>3 DEF AnnouncedInv, IInv, TypeOK
<1>5. QED
  BY <1>1, <1>3, <1>4, InductiveInvariant, ExactCorrect, PTL DEF Spec
=============================================================================
