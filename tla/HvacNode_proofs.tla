--------------------------- MODULE HvacNode_proofs ---------------------------
(***************************************************************************)
(* Proofs about HvacNode: types, that the heat pump's last command is the  *)
(* node's state, and that after a round without loss the setpoints of the  *)
(* controller agree, the unit does as shown and a wish is in force.        *)
(***************************************************************************)
EXTENDS HvacNode, TLAPS

\* Which records are messages.
LEMMA IsMessage ==
  ASSUME NEW k \in {"set", "reply", "request"},
         NEW type \in Setpoints \cup {"speed", "flow"},
         NEW t \in Nat, NEW f \in Flows \cup {""},
         k # "request" /\ type = "flow" => f # "",
         k = "set" => type # "speed"
  PROVE  [kind |-> k, type |-> type, temp |-> t, flow |-> f] \in Message
  BY DEF Message

\* What the constructors build are messages.
LEMMA Constructed ==
  /\ \A s \in Setpoints, t \in Nat : SetTemp(s, t) \in Message
  /\ \A f \in Flows : SetFlow(f) \in Message
  /\ \A type \in Setpoints \cup {"speed", "flow"} : Request(type) \in Message
  BY IsMessage DEF Setpoints, Flows, SetTemp, SetFlow, Request

\* What the node sends are messages.
LEMMA Sends ==
  /\ Round \in Seq(Message)
  /\ InitialValues \in Seq(Message)
  /\ \A t \in Nat : StateReport(t) \in Seq(Message)
<1>1. Round \in Seq(Message)
  BY Constructed DEF Round, Setpoints
<1>2. InitialValues \in Seq(Message)
  BY Constructed DEF InitialValues, Setpoints, Flows
<1>3. ASSUME NEW t \in Nat PROVE StateReport(t) \in Seq(Message)
  BY Constructed DEF StateReport, Setpoints
<1>4. QED
  BY <1>1, <1>2, <1>3

\* Cutting the fraction off leaves whole degrees.
LEMMA WholeIsWhole == \A t \in Nat : Whole(t) \in WholeDegrees
  BY DEF Whole, WholeDegrees

\* A message taken from a link is a message, and what remains are messages.
LEMMA Taken ==
  ASSUME NEW M, NEW s \in Seq(M), s # <<>>
  PROVE  Head(s) \in M /\ Tail(s) \in Seq(M)
  OBVIOUS

\* The controller's values after a set message.
LEMMA UpdatedType ==
  ASSUME TypeOK, NEW m \in Message, m.kind = "set"
  PROVE  Updated(m) \in [cool : Nat, heat : Nat, flow : Flows]
  BY DEF TypeOK, Message, Updated, Setpoints

\* The controller's reply is a message.
LEMMA ReplyType ==
  ASSUME TypeOK, NEW type \in Setpoints \cup {"speed", "flow"}
  PROVE  Reply(type) \in CSet
<1>1. ha.flow \in Flows /\ \A s \in Setpoints : ha[s] \in Nat
  BY DEF TypeOK, Setpoints
<1>2. ASSUME type \in Setpoints PROVE Reply(type) \in Message
  <2>1. Reply(type) = [kind |-> "reply", type |-> type, temp |-> ha[type], flow |-> ""]
    BY <1>2 DEF Reply, Setpoints
  <2>2. QED
    BY <1>1, <1>2, <2>1, IsMessage DEF Setpoints
<1>3. ASSUME type = "speed" PROVE Reply(type) \in Message
  <2>1. Reply(type) = [kind |-> "reply", type |-> type, temp |-> 0, flow |-> ""]
    BY <1>3 DEF Reply, Setpoints
  <2>2. QED
    BY <1>3, <2>1, IsMessage
<1>4. ASSUME type = "flow" PROVE Reply(type) \in Message
  <2>1. Reply(type) = [kind |-> "reply", type |-> type, temp |-> 0, flow |-> ha.flow]
    BY <1>4 DEF Reply, Setpoints
  <2>2. QED
    BY <1>1, <1>4, <2>1, IsMessage DEF Flows
<1>5. Reply(type) \in Message
  BY <1>2, <1>3, <1>4
<1>6. Reply(type).kind = "reply"
  BY DEF Reply
<1>7. QED
  BY <1>5, <1>6 DEF CSet

\* The node's state after a message.
LEMMA ReceiveType ==
  ASSUME TypeOK, Receive
  PROVE  /\ power' \in {"on", "off"} /\ mode' \in Modes
         /\ temp' \in WholeDegrees /\ modeString' \in Flows \cup {""}
         /\ unit' \in Command /\ commanded' \in {"yes", "no"}
<1> DEFINE m == Head(toNode)
<1>1. m \in Message
  BY Taken DEF TypeOK, Receive, CSet
<1>2. power' \in {"on", "off"}
  BY DEF TypeOK, Receive, PowerAfter, PowerOf
<1>3. mode' \in Modes
  BY DEF TypeOK, Receive, ModeAfter, ModeOf, Modes
<1>4. temp' \in WholeDegrees
  <2>1. m.temp \in Nat
    BY <1>1 DEF Message
  <2>2. temp' = IF m.type \in Setpoints THEN Whole(m.temp) ELSE temp
    BY DEF Receive, TempAfter
  <2>3. QED
    BY <2>1, <2>2, WholeIsWhole DEF TypeOK
<1>5. modeString' \in Flows \cup {""}
  <2>1. m.flow \in Flows \cup {""}
    BY <1>1 DEF Message
  <2>2. modeString' = IF m.type = "flow" THEN m.flow ELSE modeString
    BY DEF Receive, ModeStringAfter
  <2>3. QED
    BY <2>1, <2>2 DEF TypeOK
<1>6. unit' \in Command /\ commanded' \in {"yes", "no"}
  <2>1. \/ unit' = [power |-> power', mode |-> mode', temp |-> temp'] /\ commanded' = "yes"
        \/ unit' = unit /\ commanded' = commanded
    BY DEF Receive
  <2>2. [power |-> power', mode |-> mode', temp |-> temp'] \in Command
    BY <1>2, <1>3, <1>4 DEF Command, WholeDegrees
  <2>3. unit \in Command /\ commanded \in {"yes", "no"}
    BY DEF TypeOK
  <2>4. QED
    BY <2>1, <2>2, <2>3
<1>7. QED
  BY <1>2, <1>3, <1>4, <1>5, <1>6

\* A wish keeps the types.
LEMMA WishType ==
  ASSUME TypeOK, NEW m \in Message, m.kind = "set", Wish(m), wish' \subseteq Nat
  PROVE  TypeOK'
<1>1. ha' \in [cool : Nat, heat : Nat, flow : Flows]
  BY UpdatedType DEF Wish
<1>2. toNode' \in Seq(CSet)
  <2>1. toNode \in Seq(CSet) /\ toNode' = Append(toNode, m) /\ m \in CSet
    BY DEF TypeOK, Wish, CSet
  <2>2. QED
    BY <2>1
<1>3. wishes' \in Nat
  <2>1. wishes \in Nat
    BY DEF TypeOK
  <2>2. wishes' = wishes + 1
    BY DEF Wish
  <2>3. QED
    BY <2>1, <2>2
<1>4. QED
  BY <1>1, <1>2, <1>3 DEF TypeOK, Wish, nodeVars

\* The initial state has the types.
LEMMA InitType == Init => TypeOK
<1> SUFFICES ASSUME Init PROVE TypeOK
  OBVIOUS
<1>1. ha \in [cool : Nat, heat : Nat, flow : Flows]
  <2>1. PICK f \in Asked \cup {"off"} : ha = [cool |-> 42, heat |-> 42, flow |-> f]
    BY DEF Init
  <2>2. f \in Flows
    BY HvacAssumption DEF Flows
  <2>3. QED
    BY <2>1, <2>2
<1>2. 0 \in WholeDegrees
  BY DEF WholeDegrees
<1>3. unit \in Command
  BY DEF Init, Command, Modes
<1>4. toHA \in Seq(Message) /\ toNode \in Seq(CSet)
  <2>1. toHA = <<>> /\ toNode = <<>>
    BY DEF Init
  <2>2. QED
    BY <2>1
<1>5. QED
  BY <1>1, <1>2, <1>3, <1>4 DEF Init, TypeOK, Modes

\* Every step keeps the types.
LEMMA TypeStep == ASSUME TypeOK, [Next]_vars PROVE TypeOK'
<1> USE DEF nodeVars, linkVars, counters
<1>1. CASE Boot
  <2>1. toHA' \in Seq(Message)
    BY <1>1, Sends DEF Boot
  <2>2. QED
    BY <1>1, <2>1 DEF Boot, TypeOK
<1>2. CASE Wake
  <2>1. toHA' \in Seq(Message)
    BY <1>2, Sends DEF Wake
  <2>2. QED
    BY <1>2, <2>1 DEF Wake, TypeOK
<1>3. CASE Sleep
  BY <1>3 DEF Sleep, TypeOK
<1>4. CASE Receive
  <2>1. toNode' \in Seq(CSet)
    BY <1>4, Taken DEF Receive, TypeOK
  <2>2. toHA' \in Seq(Message)
    <3>1. temp' \in Nat
      BY <1>4, ReceiveType DEF WholeDegrees
    <3>2. StateReport(temp') \in Seq(Message) /\ toHA \in Seq(Message)
      BY <3>1, Sends DEF TypeOK
    <3>3. toHA' = toHA \o StateReport(temp')
      BY <1>4 DEF Receive
    <3>4. QED
      BY <3>2, <3>3
  <2>3. UNCHANGED <<pc, ha, accepts, clean, wish, wishes, faults>>
    BY <1>4 DEF Receive
  <2>4. QED
    BY <1>4, <2>1, <2>2, <2>3, ReceiveType DEF TypeOK
<1>5. CASE ArriveInVain
  BY <1>5, Taken DEF ArriveInVain, TypeOK
<1>6. CASE PowerFailure
  <2>1. temp' \in WholeDegrees
    <3>1. temp' = 0
      BY <1>6 DEF PowerFailure
    <3>2. 0 \in WholeDegrees
      BY DEF WholeDegrees
    <3>3. QED
      BY <3>1, <3>2
  <2>2. mode' \in Modes
    BY <1>6 DEF PowerFailure, Modes
  <2>3. faults' \in Nat
    <3>1. faults \in Nat /\ faults' = faults + 1
      BY <1>6 DEF PowerFailure, TypeOK
    <3>2. QED
      BY <3>1
  <2>4. QED
    BY <1>6, <2>1, <2>2, <2>3 DEF PowerFailure, TypeOK
<1>7. CASE HandleReport
  <2>1. toHA' \in Seq(Message) /\ Head(toHA) \in Message
    BY <1>7, Taken DEF HandleReport, TypeOK
  <2>2. ha' \in [cool : Nat, heat : Nat, flow : Flows]
    <3>1. Updated(Head(toHA)) \in [cool : Nat, heat : Nat, flow : Flows]
      BY <1>7, <2>1, UpdatedType DEF HandleReport
    <3>2. ha \in [cool : Nat, heat : Nat, flow : Flows]
      BY DEF TypeOK
    <3>3. QED
      BY <1>7, <3>1, <3>2 DEF HandleReport
  <2>3. QED
    BY <1>7, <2>1, <2>2 DEF HandleReport, TypeOK
<1>8. CASE HandleRequest
  <2>1. toHA' \in Seq(Message) /\ Head(toHA) \in Message
    BY <1>8, Taken DEF HandleRequest, TypeOK
  <2>2. Head(toHA).type \in Setpoints \cup {"speed", "flow"}
    BY <2>1 DEF Message
  <2>3. toNode' \in Seq(CSet)
    <3>1. Reply(Head(toHA).type) \in CSet
      BY <2>2, ReplyType
    <3>2. toNode \in Seq(CSet) /\ toNode' = Append(toNode, Reply(Head(toHA).type))
      BY <1>8 DEF HandleRequest, TypeOK
    <3>3. QED
      BY <3>1, <3>2
  <2>4. QED
    BY <1>8, <2>1, <2>3 DEF HandleRequest, TypeOK
<1>9. CASE WishHeat
  <2>1. PICK t \in Temps : Wish(SetTemp("heat", t)) /\ wish' \in {{}, {t}}
    BY <1>9 DEF WishHeat
  <2>2. t \in Nat
    BY HvacAssumption
  <2>3. SetTemp("heat", t) \in Message
    BY <2>2, Constructed DEF Setpoints
  <2>4. QED
    BY <2>1, <2>2, <2>3, WishType DEF SetTemp
<1>10. CASE WishCool
  <2>1. PICK t \in Temps : Wish(SetTemp("cool", t)) /\ wish' = {}
    BY <1>10 DEF WishCool
  <2>2. SetTemp("cool", t) \in Message
    BY Constructed, HvacAssumption DEF Setpoints
  <2>3. QED
    BY <2>1, <2>2, WishType DEF SetTemp
<1>11. CASE WishFlow
  <2>1. PICK f \in Asked : Wish(SetFlow(f)) /\ UNCHANGED wish
    BY <1>11 DEF WishFlow
  <2>2. SetFlow(f) \in Message
    BY Constructed, HvacAssumption
  <2>3. QED
    BY <2>1, <2>2, WishType DEF SetFlow, TypeOK
<1>12. CASE LoseUp
  <2>1. toHA' \in Seq(Message)
    BY <1>12, Taken DEF LoseUp, TypeOK
  <2>2. faults' \in Nat
    <3>1. faults \in Nat /\ faults' = faults + 1
      BY <1>12 DEF LoseUp, Lost, TypeOK
    <3>2. QED
      BY <3>1
  <2>3. QED
    BY <1>12, <2>1, <2>2 DEF LoseUp, Lost, TypeOK
<1>13. CASE LoseDown
  <2>1. toNode' \in Seq(CSet)
    BY <1>13, Taken DEF LoseDown, TypeOK
  <2>2. faults' \in Nat
    <3>1. faults \in Nat /\ faults' = faults + 1
      BY <1>13 DEF LoseDown, Lost, TypeOK
    <3>2. QED
      BY <3>1
  <2>3. QED
    BY <1>13, <2>1, <2>2 DEF LoseDown, Lost, TypeOK
<1>14. CASE UNCHANGED vars
  BY <1>14 DEF vars, TypeOK
<1>15. QED
  BY <1>1, <1>2, <1>3, <1>4, <1>5, <1>6, <1>7, <1>8, <1>9, <1>10, <1>11, <1>12, <1>13,
     <1>14 DEF Next

\* Every variable keeps its type, for all settings, losses and power failures.
THEOREM TypeCorrect == Spec => []TypeOK
  BY InitType, TypeStep, PTL DEF Spec

\* The flow name kept says what power and mode are.
StateNamed ==
  modeString # "" =>
    /\ power = PowerOf(modeString)
    /\ modeString # "off" => mode = ModeOf(modeString)

\* A message that sets no flag changes nothing.
LEMMA NothingChanged ==
  ASSUME TypeOK, StateNamed, Receive, ~Changed(Head(toNode))
  PROVE  UNCHANGED <<power, mode, temp, modeString, unit, commanded>>
<1> DEFINE m == Head(toNode)
<1>1. m \in Message /\ m.kind # "request"
  <2>1. toNode \in Seq(CSet) /\ toNode # <<>>
    BY DEF Receive, TypeOK
  <2>2. m \in CSet
    BY <2>1, Taken
  <2>3. QED
    BY <2>2 DEF CSet
<1>2. UNCHANGED <<unit, commanded>>
  BY DEF Receive
<1>3. temp' = temp
  <2>1. CASE m.type \in Setpoints
    <3>1. m.temp = temp
      BY <2>1 DEF Changed
    <3>2. Whole(temp) = temp
      <4>1. temp \in WholeDegrees
        BY DEF TypeOK
      <4>2. QED
        BY <4>1 DEF Whole, WholeDegrees
    <3>3. QED
      BY <2>1, <3>1, <3>2 DEF Receive, TempAfter
  <2>2. CASE m.type \notin Setpoints
    BY <2>2 DEF Receive, TempAfter
  <2>3. QED
    BY <2>1, <2>2
<1>4. power' = power /\ mode' = mode /\ modeString' = modeString
  <2>1. CASE m.type # "flow"
    BY <2>1 DEF Receive, PowerAfter, ModeAfter, ModeStringAfter
  <2>2. CASE m.type = "flow"
    <3>1. m.flow = modeString /\ modeString # ""
      BY <1>1, <2>2 DEF Changed, Message
    <3>2. QED
      BY <2>2, <3>1 DEF StateNamed, Receive, PowerAfter, ModeAfter, ModeStringAfter
  <2>3. QED
    BY <2>1, <2>2
<1>5. QED
  BY <1>2, <1>3, <1>4

\* Every message leaves power and mode as the flow name says.
LEMMA StateNamedStep == ASSUME TypeOK, StateNamed, [Next]_vars PROVE StateNamed'
<1> USE DEF StateNamed, nodeVars
<1>1. CASE Receive
  BY <1>1 DEF Receive, PowerAfter, ModeAfter, ModeStringAfter, PowerOf
<1>2. CASE PowerFailure
  BY <1>2 DEF PowerFailure
<1>3. ASSUME UNCHANGED <<power, mode, modeString>> PROVE StateNamed'
  BY <1>3
<1>4. QED
  BY <1>1, <1>2, <1>3
     DEF Next, vars, Boot, Wake, Sleep, ArriveInVain, HandleReport, HandleRequest,
         Wish, WishHeat, WishCool, WishFlow, Lost, LoseUp, LoseDown

\* Every step keeps the heat pump's last command the node's state.
LEMMA FollowsStep ==
  ASSUME TypeOK, StateNamed, UnitFollows, [Next]_vars
  PROVE  UnitFollows'
<1> USE DEF nodeVars
<1>1. CASE Receive
  <2>1. CASE Changed(Head(toNode))
    <3>1. commanded' = "yes" /\ unit' = [power |-> power', mode |-> mode', temp |-> temp']
      BY <1>1, <2>1 DEF Receive
    <3>2. QED
      BY <3>1 DEF UnitFollows
  <2>2. CASE ~Changed(Head(toNode))
    <3>1. UNCHANGED <<power, mode, temp, modeString, unit, commanded>>
      BY <1>1, <2>2, NothingChanged
    <3>2. QED
      BY <3>1 DEF UnitFollows
  <2>3. QED
    BY <2>1, <2>2
<1>2. CASE PowerFailure
  BY <1>2 DEF PowerFailure, UnitFollows
<1>3. ASSUME UNCHANGED <<power, mode, temp, modeString, unit, commanded>>
      PROVE  UnitFollows'
  BY <1>3 DEF UnitFollows
<1>4. QED
  BY <1>1, <1>2, <1>3
     DEF Next, vars, Boot, Wake, Sleep, ArriveInVain, HandleReport, HandleRequest,
         Wish, WishHeat, WishCool, WishFlow, Lost, LoseUp, LoseDown

\* What the heat pump was last sent is the node's state (HvacNode.UnitFollows).
THEOREM LastCommandIsState == Spec => []UnitFollows
<1>1. Init => StateNamed /\ UnitFollows
  BY DEF Init, StateNamed, UnitFollows
<1>2. TypeOK /\ StateNamed /\ UnitFollows /\ [Next]_vars => StateNamed' /\ UnitFollows'
  BY StateNamedStep, FollowsStep
<1>3. QED
  BY <1>1, <1>2, TypeCorrect, PTL DEF Spec

-----------------------------------------------------------------------------
(* What is on its way.  K and good are sets of messages.                    *)

\* No message of K is in q.
None(q, K) == \A i \in 1 .. Len(q) : q[i] \notin K

\* There is one, and the last one is good.
LastIs(q, K, good) ==
  \E i \in 1 .. Len(q) :
    /\ q[i] \in K \cap good
    /\ \A j \in 1 .. Len(q) : i < j => q[j] \notin K

AskFor(s)       == {m \in Message : m.kind = "request" /\ m.type = s}
Requests        == {m \in Message : m.kind = "request"}
Reports(s)      == {m \in Message : m.kind = "set" /\ m.type = s}
SetpointsIn     == {m \in CSet : m.type \in Setpoints}
FlowsIn         == {m \in CSet : m.type = "flow"}
Of(t)           == {m \in Message : m.temp = t}
WholeOf(t)      == {m \in CSet : Whole(m.temp) = Whole(t)}
Naming(f)       == {m \in CSet : m.flow = f}

\* Once the controller has read q the setpoint s it has now will be t.
Becomes(q, s, now, t) ==
  LastIs(q, Reports(s), Of(t)) \/ (None(q, Reports(s)) /\ now = t)

\* In a round without loss a report of the node's temperature is still to come,
\* or the controller's setpoints are headed for it.
SetpointsComing ==
  pc = "listen" /\ clean = "yes" =>
    \/ ~None(toHA, Requests)
    \/ toNode # <<>>
    \/ \A s \in Setpoints : Becomes(toHA, s, ha[s], temp)

\* In a round without loss the flow state is still to be asked for and nothing
\* after that changes the controller's, or the node is headed for it.
FlowComing ==
  pc = "listen" /\ clean = "yes" =>
    \/ LastIs(toHA, AskFor("flow") \cup Reports("flow"), AskFor("flow"))
    \/ /\ None(toHA, Reports("flow"))
       /\ \/ LastIs(toNode, FlowsIn, Naming(ha.flow))
          \/ None(toNode, FlowsIn) /\ modeString = ha.flow

\* The heating setpoint is asked for after the cooling one and before any
\* report of it.
InOrder(q) ==
  /\ \/ None(q, AskFor("cool") \cup AskFor("heat"))
     \/ LastIs(q, AskFor("cool") \cup AskFor("heat"), AskFor("heat"))
  /\ \A i, j \in 1 .. Len(q) :
       i < j /\ q[i] \in Reports("heat") => q[j] \notin AskFor("heat")

\* A heating setpoint wished for is the controller's until the node asks for it,
\* then the last setpoint on its way to the node, then the node's; and a node
\* that sleeps or starts has let the controller know.
ToBeAsked(t) == ~None(toHA, AskFor("heat")) /\ Whole(ha.heat) = Whole(t)
Arriving(t) ==
  None(toHA, AskFor("heat")) /\ LastIs(toNode, SetpointsIn, WholeOf(t))
InForce(t) ==
  /\ None(toHA, AskFor("heat"))
  /\ None(toNode, SetpointsIn)
  /\ temp = Whole(t)
  /\ Becomes(toHA, "heat", ha["heat"], temp)

WishUnderWay ==
  \A t \in wish :
    IF pc = "listen"
    THEN ToBeAsked(t) \/ Arriving(t) \/ InForce(t)
    ELSE toHA = <<>> /\ Whole(ha.heat) = Whole(t)

RoundInv == SetpointsComing /\ FlowComing /\ InOrder(toHA) /\ WishUnderWay

\* A message appended is the last one if it counts, and changes nothing if not.
LEMMA AppendLast ==
  ASSUME NEW M, NEW q \in Seq(M), NEW m \in M, NEW K, NEW good
  PROVE  /\ m \in K => /\ ~None(Append(q, m), K)
                       /\ m \in good => LastIs(Append(q, m), K, good)
         /\ m \notin K => /\ None(q, K) => None(Append(q, m), K)
                          /\ ~None(q, K) => ~None(Append(q, m), K)
                          /\ LastIs(q, K, good) => LastIs(Append(q, m), K, good)
<1> DEFINE a == Append(q, m)
           n == Len(q) + 1
<1>1. /\ Len(q) \in Nat /\ Len(a) = n /\ a[n] = m
      /\ \A i \in 1 .. Len(q) : a[i] = q[i]
  OBVIOUS
<1>2. 1 .. n = (1 .. Len(q)) \cup {n} /\ \A i \in 1 .. n : ~(n < i)
  BY <1>1
<1> HIDE DEF a, n
<1>3. ASSUME m \in K
      PROVE  ~None(a, K) /\ (m \in good => LastIs(a, K, good))
  BY <1>1, <1>2, <1>3 DEF None, LastIs
<1>4. ASSUME m \notin K
      PROVE  /\ None(q, K) => None(a, K)
             /\ ~None(q, K) => ~None(a, K)
  BY <1>1, <1>2, <1>4 DEF None
<1>5. ASSUME m \notin K, LastIs(q, K, good) PROVE LastIs(a, K, good)
  <2>1. PICK i \in 1 .. Len(q) :
          /\ q[i] \in K \cap good
          /\ \A j \in 1 .. Len(q) : i < j => q[j] \notin K
    BY <1>5 DEF LastIs
  <2>2. i \in 1 .. n /\ a[i] \in K \cap good
    BY <1>1, <1>2, <2>1
  <2>3. \A j \in 1 .. n : i < j => a[j] \notin K
    BY <1>1, <1>2, <1>5, <2>1
  <2>4. QED
    BY <1>1, <2>2, <2>3 DEF LastIs
<1>6. QED
  BY <1>3, <1>4, <1>5 DEF a

\* A message read leaves the last one, unless it was itself the last that counts.
LEMMA TailLast ==
  ASSUME NEW M, NEW q \in Seq(M), q # <<>>, NEW K, NEW good
  PROVE  /\ None(q, K) => None(Tail(q), K) /\ Head(q) \notin K
         /\ None(Tail(q), K) /\ Head(q) \notin K => None(q, K)
         /\ LastIs(q, K, good) =>
              \/ LastIs(Tail(q), K, good)
              \/ None(Tail(q), K) /\ Head(q) \in K \cap good
<1> DEFINE t == Tail(q)
<1>1. /\ Len(q) \in Nat \ {0} /\ Len(t) = Len(q) - 1 /\ Head(q) = q[1]
      /\ \A i \in 1 .. Len(t) : t[i] = q[i + 1] /\ i + 1 \in 1 .. Len(q)
      /\ \A i \in 1 .. Len(q) : i = 1 \/ (i - 1 \in 1 .. Len(t) /\ t[i - 1] = q[i])
      /\ 1 \in 1 .. Len(q)
  OBVIOUS
<1> HIDE DEF t
<1>2. None(q, K) => None(t, K) /\ Head(q) \notin K
  BY <1>1 DEF None
<1>3. None(t, K) /\ Head(q) \notin K => None(q, K)
  BY <1>1 DEF None
<1>4. ASSUME LastIs(q, K, good)
      PROVE  LastIs(t, K, good) \/ (None(t, K) /\ Head(q) \in K \cap good)
  <2>1. PICK i \in 1 .. Len(q) :
          /\ q[i] \in K \cap good
          /\ \A j \in 1 .. Len(q) : i < j => q[j] \notin K
    BY <1>4 DEF LastIs
  <2>2. CASE i = 1
    <3>1. \A j \in 1 .. Len(t) : t[j] \notin K
      <4> TAKE j \in 1 .. Len(t)
      <4>1. j + 1 \in 1 .. Len(q) /\ i < j + 1 /\ t[j] = q[j + 1]
        BY <1>1, <2>2
      <4>2. QED
        BY <2>1, <4>1
    <3>2. QED
      BY <1>1, <2>1, <2>2, <3>1 DEF None
  <2>3. CASE i # 1
    <3>1. i - 1 \in 1 .. Len(t) /\ t[i - 1] \in K \cap good
      BY <1>1, <2>1, <2>3
    <3>2. \A j \in 1 .. Len(t) : i - 1 < j => t[j] \notin K
      <4> TAKE j \in 1 .. Len(t)
      <4> HAVE i - 1 < j
      <4>1. j + 1 \in 1 .. Len(q) /\ i < j + 1 /\ t[j] = q[j + 1]
        BY <1>1
      <4>2. QED
        BY <2>1, <4>1
    <3>3. QED
      BY <3>1, <3>2 DEF LastIs
  <2>4. QED
    BY <2>2, <2>3
<1>5. QED
  BY <1>2, <1>3, <1>4 DEF t

\* An empty link carries nothing.
LEMMA EmptyLink ==
  \A K, good : None(<<>>, K) /\ ~LastIs(<<>>, K, good)
  BY DEF None, LastIs

\* Where the messages of two sequences are in the joint one.
LEMMA Joined ==
  ASSUME NEW a \in Seq(Message), NEW b \in Seq(Message)
  PROVE  /\ Len(a \o b) = Len(a) + Len(b)
         /\ \A i \in 1 .. Len(a) : (a \o b)[i] = a[i]
         /\ \A i \in Len(a) + 1 .. Len(a) + Len(b) : (a \o b)[i] = b[i - Len(a)]
  OBVIOUS

\* A report appends its two setpoints one after the other.
LEMMA ReportAppends ==
  ASSUME NEW q \in Seq(Message), NEW t \in Nat
  PROVE  /\ Append(q, SetTemp("cool", t)) \in Seq(Message)
         /\ SetTemp("cool", t) \in Message /\ SetTemp("heat", t) \in Message
         /\ q \o StateReport(t)
              = Append(Append(q, SetTemp("cool", t)), SetTemp("heat", t))
<1>1. SetTemp("cool", t) \in Message /\ SetTemp("heat", t) \in Message
  BY Constructed DEF Setpoints
<1>2. ASSUME NEW a \in Message, NEW b \in Message
      PROVE  q \o <<a, b>> = Append(Append(q, a), b)
  OBVIOUS
<1>3. QED
  BY <1>1, <1>2 DEF StateReport

\* The node's report makes both setpoints its temperature.
LEMMA ReportSettles ==
  ASSUME NEW q \in Seq(Message), NEW t \in Nat
  PROVE  \A s \in Setpoints : \A now : Becomes(q \o StateReport(t), s, now, t)
<1> DEFINE c == SetTemp("cool", t)
           h == SetTemp("heat", t)
           a == Append(q, c)
<1>1. /\ a \in Seq(Message) /\ c \in Message /\ h \in Message
      /\ q \o StateReport(t) = Append(a, h)
  BY ReportAppends
<1>2. /\ c \in Reports("cool") \cap Of(t) /\ h \in Reports("heat") \cap Of(t)
      /\ h \notin Reports("cool")
  BY <1>1 DEF Reports, Of, SetTemp
<1> HIDE DEF c, h
<1>3. LastIs(a, Reports("cool"), Of(t))
  BY <1>1, <1>2, AppendLast
<1> HIDE DEF a
<1>4. LastIs(Append(a, h), Reports("cool"), Of(t))
  BY <1>1, <1>2, <1>3, AppendLast
<1>5. LastIs(Append(a, h), Reports("heat"), Of(t))
  BY <1>1, <1>2, AppendLast
<1>6. QED
  BY <1>1, <1>4, <1>5 DEF Becomes, Setpoints

\* It changes nothing for messages other than reports of a setpoint.
LEMMA ReportKeeps ==
  ASSUME NEW q \in Seq(Message), NEW t \in Nat, NEW K, NEW good,
         \A m \in K : m.kind # "set" \/ m.type \notin Setpoints
  PROVE  /\ None(q, K) => None(q \o StateReport(t), K)
         /\ ~None(q, K) => ~None(q \o StateReport(t), K)
         /\ LastIs(q, K, good) => LastIs(q \o StateReport(t), K, good)
<1> DEFINE c == SetTemp("cool", t)
           h == SetTemp("heat", t)
           a == Append(q, c)
<1>1. /\ a \in Seq(Message) /\ c \in Message /\ h \in Message
      /\ q \o StateReport(t) = Append(a, h)
  BY ReportAppends
<1>2. c \notin K /\ h \notin K
  BY DEF SetTemp, Setpoints
<1> HIDE DEF c, h
<1>3. /\ None(q, K) => None(a, K)
      /\ ~None(q, K) => ~None(a, K)
      /\ LastIs(q, K, good) => LastIs(a, K, good)
  BY <1>1, <1>2, AppendLast
<1> HIDE DEF a
<1>4. /\ None(a, K) => None(Append(a, h), K)
      /\ ~None(a, K) => ~None(Append(a, h), K)
      /\ LastIs(a, K, good) => LastIs(Append(a, h), K, good)
  BY <1>1, <1>2, AppendLast
<1>5. QED
  BY <1>1, <1>3, <1>4

\* A round asks for everything, for the heating setpoint after the cooling one,
\* and reports no heating setpoint.
LEMMA RoundAsks ==
  ASSUME NEW q \in {Round, InitialValues \o Round}
  PROVE  /\ ~None(q, Requests)
         /\ LastIs(q, AskFor("flow") \cup Reports("flow"), AskFor("flow"))
         /\ LastIs(q, AskFor("cool") \cup AskFor("heat"), AskFor("heat"))
         /\ ~None(q, AskFor("heat"))
         /\ \A i \in 1 .. Len(q) : q[i] \notin Reports("heat")
<1> DEFINE n == Len(q) - 4
<1>1. /\ n \in {0, 2} /\ Len(q) = n + 4
      /\ q[n + 2] = Request("cool") /\ q[n + 3] = Request("heat")
      /\ q[n + 4] = Request("flow")
      /\ \A i \in 1 .. Len(q) :
           q[i] \in {SetTemp("cool", 42), SetFlow("off"), Request("speed"), Request("cool"),
                    Request("heat"), Request("flow")}
  <2>1. CASE q = Round
    BY <2>1 DEF Round
  <2>2. CASE q = InitialValues \o Round
    <3>1. /\ InitialValues \in Seq(Message) /\ Len(InitialValues) = 2
          /\ Round \in Seq(Message) /\ Len(Round) = 4
      BY Sends DEF InitialValues, Round
    <3>2. /\ Len(q) = 6
          /\ \A i \in 1 .. 2 : q[i] = InitialValues[i]
          /\ \A i \in 3 .. 6 : q[i] = Round[i - 2]
      <4>1. /\ Len(q) = Len(InitialValues) + Len(Round)
            /\ \A i \in 1 .. Len(InitialValues) : q[i] = InitialValues[i]
            /\ \A i \in Len(InitialValues) + 1 .. Len(InitialValues) + Len(Round) :
                 q[i] = Round[i - Len(InitialValues)]
        BY <2>2, <3>1, Joined
      <4>2. QED
        BY <3>1, <4>1
    <3>3. /\ q[1] = SetTemp("cool", 42) /\ q[2] = SetFlow("off")
          /\ q[3] = Request("speed") /\ q[4] = Request("cool")
          /\ q[5] = Request("heat") /\ q[6] = Request("flow")
      BY <3>2 DEF InitialValues, Round
    <3>4. QED
      BY <3>2, <3>3
  <2>3. QED
    BY <2>1, <2>2
<1>2. /\ Request("cool") \in Requests
      /\ Request("heat") \in AskFor("heat") /\ Request("flow") \in AskFor("flow")
      /\ Request("flow") \notin AskFor("cool") \cup AskFor("heat")
      /\ \A m \in {SetTemp("cool", 42), SetFlow("off"), Request("speed"), Request("cool"),
                    Request("heat"), Request("flow")} : m \notin Reports("heat")
  <2>1. Request("cool") \in Requests
    BY Constructed DEF Requests, Request, Setpoints
  <2>2. /\ Request("heat") \in AskFor("heat") /\ Request("flow") \in AskFor("flow")
        /\ Request("flow") \notin AskFor("cool") \cup AskFor("heat")
    BY Constructed DEF AskFor, Request, Setpoints
  <2>3. \A m \in Reports("heat") \cup Reports("flow") : m.kind = "set"
    BY DEF Reports
  <2>4. /\ \A type : Request(type).kind = "request"
        /\ SetTemp("cool", 42).type = "cool" /\ SetFlow("off").type = "flow"
    BY DEF Request, SetTemp, SetFlow
  <2>5. \A m \in Reports("heat") : m.type = "heat"
    BY DEF Reports
  <2>6. QED
    BY <2>1, <2>2, <2>3, <2>4, <2>5
<1> HIDE DEF n
<1>3. /\ n + 2 \in 1 .. Len(q) /\ n + 3 \in 1 .. Len(q) /\ n + 4 \in 1 .. Len(q)
      /\ \A j \in 1 .. Len(q) : /\ ~(n + 4 < j)
                              /\ n + 3 < j => j = n + 4
  BY <1>1
<1>4. ~None(q, Requests) /\ ~None(q, AskFor("heat"))
  BY <1>1, <1>2, <1>3 DEF None
<1>5. LastIs(q, AskFor("flow") \cup Reports("flow"), AskFor("flow"))
  BY <1>1, <1>2, <1>3 DEF LastIs
<1>6. LastIs(q, AskFor("cool") \cup AskFor("heat"), AskFor("heat"))
  BY <1>1, <1>2, <1>3 DEF LastIs
<1>7. QED
  BY <1>1, <1>2, <1>4, <1>5, <1>6

-----------------------------------------------------------------------------
(* The steps.                                                               *)

\* What the controller makes of the report it reads.
LEMMA ReportRead ==
  ASSUME TypeOK, HandleReport
  PROVE  /\ toHA \in Seq(Message) /\ toHA # <<>> /\ toHA' = Tail(toHA)
         /\ Head(toHA) \in Message /\ Head(toHA).kind = "set"
         /\ Head(toHA).type \in Setpoints \cup {"flow"}
         /\ \A s \in Setpoints :
              ha'[s] = IF Head(toHA) \in Reports(s) THEN Head(toHA).temp ELSE ha[s]
         /\ Head(toHA) \notin Reports("flow") => ha'.flow = ha.flow
<1> DEFINE m == Head(toHA)
<1>1. toHA \in Seq(Message) /\ toHA # <<>> /\ toHA' = Tail(toHA) /\ m.kind = "set"
  BY DEF TypeOK, HandleReport
<1>2. m \in Message
  BY <1>1, Taken
<1>3. m.type \in Setpoints \cup {"flow"}
  BY <1>1, <1>2 DEF Message
<1>4. ha \in [cool : Nat, heat : Nat, flow : Flows]
  BY DEF TypeOK
<1>5. ha' = IF Accepted(m) THEN Updated(m) ELSE ha
  BY DEF HandleReport
<1>6. \A s \in Setpoints \cup {"flow"} : m \in Reports(s) <=> m.type = s
  BY <1>1, <1>2 DEF Reports
<1> HIDE DEF m
<1>7. CASE m.type = "flow"
  BY <1>1, <1>2, <1>3, <1>4, <1>5, <1>6, <1>7 DEF Accepted, Updated, Setpoints, m
<1>8. CASE m.type \in Setpoints
  BY <1>1, <1>2, <1>3, <1>4, <1>5, <1>6, <1>8 DEF Accepted, Updated, Setpoints, m
<1>9. QED
  BY <1>3, <1>7, <1>8

\* Reading a report leaves what a setpoint will become.
LEMMA ReadBecomes ==
  ASSUME TypeOK, HandleReport, NEW s \in Setpoints, NEW t, Becomes(toHA, s, ha[s], t)
  PROVE  Becomes(toHA', s, ha'[s], t)
<1>1. /\ toHA \in Seq(Message) /\ toHA # <<>> /\ toHA' = Tail(toHA)
      /\ ha'[s] = IF Head(toHA) \in Reports(s) THEN Head(toHA).temp ELSE ha[s]
  BY ReportRead
<1>2. CASE LastIs(toHA, Reports(s), Of(t))
  <2>1. \/ LastIs(toHA', Reports(s), Of(t))
        \/ None(toHA', Reports(s)) /\ Head(toHA) \in Reports(s) \cap Of(t)
    BY <1>1, <1>2, TailLast
  <2>2. QED
    BY <1>1, <2>1 DEF Becomes, Of
<1>3. CASE None(toHA, Reports(s)) /\ ha[s] = t
  <2>1. None(toHA', Reports(s)) /\ Head(toHA) \notin Reports(s)
    BY <1>1, <1>3, TailLast
  <2>2. QED
    BY <1>1, <1>3, <2>1 DEF Becomes
<1>4. QED
  BY <1>2, <1>3 DEF Becomes

\* Every step leaves a report to come, or the setpoints headed for the node's.
LEMMA SetpointsStep ==
  ASSUME TypeOK, SetpointsComing, [Next]_vars
  PROVE  SetpointsComing'
<1> SUFFICES ASSUME pc' = "listen", clean' = "yes"
             PROVE  \/ ~None(toHA', Requests)
                    \/ toNode' # <<>>
                    \/ \A s \in Setpoints : Becomes(toHA', s, ha'[s], temp')
  BY DEF SetpointsComing
<1> USE DEF nodeVars, linkVars, counters
<1>1. ASSUME NEW m \in CSet, toNode' = Append(toNode, m)
      PROVE  toNode' # <<>>
  <2>1. toNode \in Seq(CSet)
    BY DEF TypeOK
  <2>2. Len(toNode') = Len(toNode) + 1 /\ Len(toNode) \in Nat /\ Len(<<>>) = 0
    BY <1>1, <2>1
  <2>3. QED
    BY <2>2
<1>2. CASE Boot
  BY <1>2, RoundAsks DEF Boot
<1>3. CASE Wake
  BY <1>3, RoundAsks DEF Wake
<1>4. CASE Receive
  <2>1. temp' \in Nat
    BY <1>4, ReceiveType DEF WholeDegrees
  <2>2. toHA \in Seq(Message) /\ toHA' = toHA \o StateReport(temp')
    BY <1>4 DEF Receive, TypeOK
  <2>3. QED
    BY <2>1, <2>2, ReportSettles
<1>5. CASE HandleReport
  <2>1. /\ toHA \in Seq(Message) /\ toHA # <<>> /\ toHA' = Tail(toHA)
        /\ Head(toHA).kind = "set"
    BY <1>5, ReportRead
  <2>2. pc = "listen" /\ clean = "yes" /\ toNode' = toNode /\ temp' = temp
    BY <1>5 DEF HandleReport
  <2>3. CASE ~None(toHA, Requests)
    <3>1. Head(toHA) \notin Requests
      BY <2>1 DEF Requests
    <3>2. ~None(toHA', Requests)
      BY <2>1, <2>3, <3>1, TailLast
    <3>3. QED
      BY <3>2
  <2>4. CASE \A s \in Setpoints : Becomes(toHA, s, ha[s], temp)
    BY <1>5, <2>2, <2>4, ReadBecomes
  <2>5. QED
    BY <2>2, <2>3, <2>4 DEF SetpointsComing
<1>6. CASE HandleRequest
  <2>1. Head(toHA) \in Message
    BY <1>6, Taken DEF HandleRequest, TypeOK
  <2>2. Reply(Head(toHA).type) \in CSet
    BY <2>1, ReplyType DEF Message
  <2>3. QED
    BY <1>1, <1>6, <2>2 DEF HandleRequest
<1>7. CASE WishHeat \/ WishCool \/ WishFlow
  <2>1. PICK m \in CSet : Wish(m)
    <3>1. ASSUME NEW t \in Temps, NEW s \in Setpoints PROVE SetTemp(s, t) \in CSet
      <4>1. SetTemp(s, t) \in Message
        BY Constructed, HvacAssumption
      <4>2. QED
        BY <4>1 DEF CSet, SetTemp
    <3>2. ASSUME NEW f \in Asked PROVE SetFlow(f) \in CSet
      <4>1. SetFlow(f) \in Message
        BY Constructed, HvacAssumption
      <4>2. QED
        BY <4>1 DEF CSet, SetFlow
    <3>3. QED
      BY <1>7, <3>1, <3>2 DEF WishHeat, WishCool, WishFlow, Setpoints
  <2>2. QED
    BY <1>1, <2>1 DEF Wish
<1>8. CASE Sleep \/ ArriveInVain \/ PowerFailure \/ LoseUp \/ LoseDown
  BY <1>8 DEF Sleep, ArriveInVain, PowerFailure, LoseUp, LoseDown, Lost
<1>9. CASE UNCHANGED vars
  BY <1>9 DEF vars, SetpointsComing
<1>10. QED
  BY <1>2, <1>3, <1>4, <1>5, <1>6, <1>7, <1>8, <1>9 DEF Next

\* What a round brings the node of the flow state.
LEMMA FlowStep ==
  ASSUME TypeOK, FlowComing, [Next]_vars
  PROVE  FlowComing'
<1> DEFINE K == AskFor("flow") \cup Reports("flow")
           Asking == LastIs(toHA, K, AskFor("flow"))
           Heading ==
             /\ None(toHA, Reports("flow"))
             /\ \/ LastIs(toNode, FlowsIn, Naming(ha.flow))
                \/ None(toNode, FlowsIn) /\ modeString = ha.flow
<1> SUFFICES ASSUME pc' = "listen", clean' = "yes"
             PROVE  Asking' \/ Heading'
  BY DEF FlowComing
<1> USE DEF nodeVars, linkVars, counters
<1>0. toHA \in Seq(Message) /\ toNode \in Seq(CSet)
  BY DEF TypeOK
<1>c. \A m \in AskFor("flow") : m.kind = "request" /\ m.type = "flow"
  BY DEF AskFor
<1>a. ASSUME pc = "listen", clean = "yes" PROVE Asking \/ Heading
  BY <1>a DEF FlowComing
<1>b. ASSUME NEW m \in CSet, toNode' = Append(toNode, m), None(toHA', Reports("flow")),
             m \in FlowsIn => m.flow = ha'.flow,
             m \notin FlowsIn => Heading /\ ha'.flow = ha.flow /\ modeString' = modeString
      PROVE  Heading'
  <2>1. CASE m \in FlowsIn
    <3>1. m \in Naming(ha'.flow)
      BY <1>b, <2>1 DEF Naming
    <3>2. LastIs(toNode', FlowsIn, Naming(ha'.flow))
      BY <1>0, <1>b, <2>1, <3>1, AppendLast
    <3>3. QED
      BY <1>b, <3>2
  <2>2. CASE m \notin FlowsIn
    <3>1. /\ LastIs(toNode, FlowsIn, Naming(ha.flow))
               => LastIs(toNode', FlowsIn, Naming(ha.flow))
          /\ None(toNode, FlowsIn) => None(toNode', FlowsIn)
      BY <1>0, <1>b, <2>2, AppendLast
    <3>2. QED
      BY <1>b, <2>2, <3>1
  <2>3. QED
    BY <2>1, <2>2
<1>2. CASE Boot
  BY <1>2, RoundAsks DEF Boot
<1>3. CASE Wake
  BY <1>3, RoundAsks DEF Wake
<1>4. CASE Receive
  <2>1. temp' \in Nat
    BY <1>4, ReceiveType DEF WholeDegrees
  <2>2. /\ toHA' = toHA \o StateReport(temp') /\ ha' = ha /\ toNode # <<>>
        /\ toNode' = Tail(toNode) /\ modeString' = ModeStringAfter(Head(toNode))
        /\ pc = "listen" /\ clean = "yes"
    BY <1>4 DEF Receive
  <2>3. /\ \A m \in K : m.kind # "set" \/ m.type \notin Setpoints
        /\ \A m \in Reports("flow") : m.kind # "set" \/ m.type \notin Setpoints
    <3>1. \A m \in Reports("flow") : m.type \notin Setpoints
      BY DEF Reports, Setpoints
    <3>2. QED
      BY <1>c, <3>1
  <2>4. CASE Asking
    <3> HIDE DEF K
    <3>1. LastIs(toHA', K, AskFor("flow"))
      BY <1>0, <2>1, <2>2, <2>3, <2>4, ReportKeeps
    <3>2. QED
      BY <3>1
  <2>5. CASE Heading
    <3>1. None(toHA', Reports("flow"))
      BY <1>0, <2>1, <2>2, <2>3, <2>5, ReportKeeps
    <3>2. Head(toNode) \in CSet
      BY <1>0, <2>2, Taken
    <3>3. CASE LastIs(toNode, FlowsIn, Naming(ha.flow))
      <4>1. \/ LastIs(toNode', FlowsIn, Naming(ha.flow))
            \/ None(toNode', FlowsIn) /\ Head(toNode) \in FlowsIn \cap Naming(ha.flow)
        BY <1>0, <2>2, <3>3, TailLast
      <4>2. Head(toNode) \in FlowsIn \cap Naming(ha.flow) => modeString' = ha.flow
        BY <2>2 DEF FlowsIn, Naming, ModeStringAfter
      <4>3. QED
        BY <2>2, <3>1, <4>1, <4>2
    <3>4. CASE None(toNode, FlowsIn) /\ modeString = ha.flow
      <4>1. None(toNode', FlowsIn) /\ Head(toNode) \notin FlowsIn
        BY <1>0, <2>2, <3>4, TailLast
      <4>2. modeString' = modeString
        BY <2>2, <3>2, <4>1 DEF FlowsIn, ModeStringAfter
      <4>3. QED
        BY <2>2, <3>1, <3>4, <4>1, <4>2
    <3>5. QED
      BY <2>5, <3>3, <3>4
  <2>6. QED
    BY <1>a, <2>2, <2>4, <2>5
<1>5. CASE HandleReport
  <2>1. /\ toHA # <<>> /\ toHA' = Tail(toHA) /\ Head(toHA).kind = "set"
        /\ Head(toHA) \notin Reports("flow") => ha'.flow = ha.flow
    BY <1>5, ReportRead
  <2>2. pc = "listen" /\ clean = "yes" /\ toNode' = toNode /\ modeString' = modeString
    BY <1>5 DEF HandleReport
  <2>3. Head(toHA) \notin AskFor("flow")
    BY <1>c, <2>1
  <2>4. CASE Asking
    <3> HIDE DEF K
    <3>1. LastIs(toHA', K, AskFor("flow"))
      BY <1>0, <2>1, <2>3, <2>4, TailLast
    <3>2. QED
      BY <3>1
  <2>5. CASE Heading
    <3>1. None(toHA', Reports("flow")) /\ Head(toHA) \notin Reports("flow")
      BY <1>0, <2>1, <2>5, TailLast
    <3>2. QED
      BY <2>1, <2>2, <2>5, <3>1
  <2>6. QED
    BY <1>a, <2>2, <2>4, <2>5
<1>6. CASE HandleRequest
  <2>1. /\ toHA # <<>> /\ toHA' = Tail(toHA) /\ Head(toHA).kind = "request"
        /\ toNode' = Append(toNode, Reply(Head(toHA).type)) /\ ha' = ha
        /\ modeString' = modeString /\ pc = "listen" /\ clean = "yes"
    BY <1>6 DEF HandleRequest
  <2>2. Head(toHA) \in Message
    BY <1>0, <2>1, Taken
  <2>3. Reply(Head(toHA).type) \in CSet
    BY <2>2, ReplyType DEF Message
  <2>4. Reply(Head(toHA).type) \in FlowsIn
          <=> Head(toHA).type = "flow"
    BY <2>3 DEF FlowsIn, Reply
  <2>5. Head(toHA).type = "flow" => Reply(Head(toHA).type).flow = ha.flow
    BY DEF Reply
  <2>6. CASE Asking
    <3>1. \/ LastIs(toHA', K, AskFor("flow"))
          \/ None(toHA', K) /\ Head(toHA) \in K \cap AskFor("flow")
      <4> HIDE DEF K
      <4>1. QED
        BY <1>0, <2>1, <2>6, TailLast
    <3>2. ASSUME None(toHA', K), Head(toHA) \in AskFor("flow") PROVE Heading'
      <4>1. None(toHA', Reports("flow"))
        BY <3>2 DEF None
      <4>2. Head(toHA).type = "flow"
        BY <1>c, <3>2
      <4> HIDE DEF K, Heading
      <4>3. QED
        BY <1>b, <2>1, <2>3, <2>4, <2>5, <4>1, <4>2
    <3>3. QED
      BY <3>1, <3>2
  <2>7. CASE Heading
    <3>1. None(toHA', Reports("flow"))
      BY <1>0, <2>1, <2>7, TailLast
    <3> HIDE DEF K, Heading
    <3>2. QED
      BY <1>b, <2>1, <2>3, <2>4, <2>5, <2>7, <3>1
  <2>8. QED
    BY <1>a, <2>1, <2>6, <2>7
<1>7. ASSUME NEW m \in CSet, Wish(m), m.kind = "set",
             m.type \in Setpoints \/ m.type = "flow"
      PROVE  Asking' \/ Heading'
  <2>1. /\ toHA' = toHA /\ toNode' = Append(toNode, m) /\ ha' = Updated(m)
        /\ modeString' = modeString /\ pc = "listen" /\ clean = "yes"
    BY <1>7 DEF Wish
  <2>2. ha \in [cool : Nat, heat : Nat, flow : Flows]
    BY DEF TypeOK
  <2>3. m \in FlowsIn => m.flow = ha'.flow
    BY <2>1, <2>2 DEF FlowsIn, Updated, Setpoints
  <2>4. m \notin FlowsIn => ha'.flow = ha.flow
    BY <1>7, <2>1, <2>2 DEF FlowsIn, Updated, Setpoints
  <2>5. CASE Asking
    BY <2>1, <2>5
  <2>6. CASE Heading
    <3>1. None(toHA', Reports("flow"))
      BY <2>1, <2>6
    <3> HIDE DEF K, Heading
    <3>2. QED
      BY <1>b, <2>1, <2>3, <2>4, <2>6, <3>1
  <2>7. QED
    BY <1>a, <2>1, <2>5, <2>6
<1>8. CASE WishHeat \/ WishCool \/ WishFlow
  <2>1. ASSUME NEW t \in Temps, NEW s \in Setpoints
        PROVE  /\ SetTemp(s, t) \in CSet /\ SetTemp(s, t).kind = "set"
               /\ SetTemp(s, t).type \in Setpoints
    <3>1. SetTemp(s, t) \in Message
      BY Constructed, HvacAssumption
    <3>2. QED
      BY <3>1 DEF CSet, SetTemp
  <2>2. ASSUME NEW f \in Asked
        PROVE  /\ SetFlow(f) \in CSet /\ SetFlow(f).kind = "set"
               /\ SetFlow(f).type = "flow"
    <3>1. SetFlow(f) \in Message
      BY Constructed, HvacAssumption
    <3>2. QED
      BY <3>1 DEF CSet, SetFlow
  <2> HIDE DEF Asking, Heading
  <2>3. QED
    BY <1>7, <1>8, <2>1, <2>2 DEF WishHeat, WishCool, WishFlow, Setpoints
<1>9. CASE Sleep \/ ArriveInVain \/ PowerFailure \/ LoseUp \/ LoseDown
  BY <1>9 DEF Sleep, ArriveInVain, PowerFailure, LoseUp, LoseDown, Lost
<1>10. CASE UNCHANGED vars
  BY <1>a, <1>10 DEF vars
<1>11. QED
  BY <1>2, <1>3, <1>4, <1>5, <1>6, <1>8, <1>9, <1>10 DEF Next

\* Reading a message and reporting keep the order of requests and reports, and
\* a round starts with it.
LEMMA OrderKept ==
  ASSUME NEW q \in Seq(Message)
  PROVE  /\ InOrder(q) /\ q # <<>> => InOrder(Tail(q))
         /\ InOrder(q) => \A t \in Nat : InOrder(q \o StateReport(t))
         /\ q \in {Round, InitialValues \o Round, <<>>} => InOrder(q)
<1> DEFINE K == AskFor("cool") \cup AskFor("heat")
<1> USE DEF InOrder
<1>1. ASSUME InOrder(q), q # <<>> PROVE InOrder(Tail(q))
  <2>1. None(Tail(q), K) \/ LastIs(Tail(q), K, AskFor("heat"))
    <3>1. None(q, K) \/ LastIs(q, K, AskFor("heat"))
      BY <1>1
    <3> HIDE DEF K
    <3>2. QED
      BY <1>1, <3>1, TailLast
  <2>2. ASSUME NEW i \in 1 .. Len(Tail(q)), NEW j \in 1 .. Len(Tail(q)), i < j,
               Tail(q)[i] \in Reports("heat")
        PROVE  Tail(q)[j] \notin AskFor("heat")
    <3>1. /\ i + 1 \in 1 .. Len(q) /\ j + 1 \in 1 .. Len(q) /\ i + 1 < j + 1
          /\ Tail(q)[i] = q[i + 1] /\ Tail(q)[j] = q[j + 1]
      BY <1>1, <2>2
    <3>2. QED
      BY <1>1, <2>2, <3>1
  <2>3. QED
    BY <2>1, <2>2
<1>2. ASSUME InOrder(q), NEW t \in Nat PROVE InOrder(q \o StateReport(t))
  <2>1. \A m \in K : m.kind # "set" \/ m.type \notin Setpoints
    BY DEF AskFor
  <2>2. None(q \o StateReport(t), K) \/ LastIs(q \o StateReport(t), K, AskFor("heat"))
    <3>1. None(q, K) \/ LastIs(q, K, AskFor("heat"))
      BY <1>2
    <3> HIDE DEF K
    <3>2. QED
      BY <2>1, <3>1, ReportKeeps
  <2>3. ASSUME NEW i \in 1 .. Len(q \o StateReport(t)),
               NEW j \in 1 .. Len(q \o StateReport(t)), i < j,
               (q \o StateReport(t))[i] \in Reports("heat")
        PROVE  (q \o StateReport(t))[j] \notin AskFor("heat")
    <3> DEFINE r == StateReport(t)
    <3>1. /\ r \in Seq(Message) /\ Len(r) = 2
          /\ r[1] = SetTemp("cool", t) /\ r[2] = SetTemp("heat", t)
      BY Sends DEF StateReport
    <3>2. r[1] \notin AskFor("heat") /\ r[2] \notin AskFor("heat")
      <4>1. SetTemp("cool", t).kind = "set" /\ SetTemp("heat", t).kind = "set"
        BY DEF SetTemp
      <4>2. \A m \in AskFor("heat") : m.kind = "request"
        BY DEF AskFor
      <4>3. QED
        BY <3>1, <4>1, <4>2
    <3> HIDE DEF r
    <3>3. /\ Len(q \o r) = Len(q) + 2 /\ Len(q) \in Nat
          /\ \A k \in 1 .. Len(q) : (q \o r)[k] = q[k]
          /\ (q \o r)[Len(q) + 1] = r[1] /\ (q \o r)[Len(q) + 2] = r[2]
      <4>0. Len(q) \in Nat
        OBVIOUS
      <4>1. /\ Len(q \o r) = Len(q) + Len(r)
            /\ \A k \in 1 .. Len(q) : (q \o r)[k] = q[k]
            /\ \A k \in Len(q) + 1 .. Len(q) + Len(r) : (q \o r)[k] = r[k - Len(q)]
        BY <3>1, Joined
      <4>2. /\ Len(q) + 1 \in Len(q) + 1 .. Len(q) + 2 /\ (Len(q) + 1) - Len(q) = 1
            /\ Len(q) + 2 \in Len(q) + 1 .. Len(q) + 2 /\ (Len(q) + 2) - Len(q) = 2
        BY <4>0
      <4>3. QED
        BY <3>1, <4>0, <4>1, <4>2
    <3>4. /\ i \in Nat /\ j \in Nat
          /\ \/ i \in 1 .. Len(q) /\ j \in 1 .. Len(q)
             \/ j = Len(q) + 1
             \/ j = Len(q) + 2
      BY <2>3, <3>3 DEF r
    <3>5. QED
      BY <1>2, <2>3, <3>2, <3>3, <3>4 DEF r
  <2>4. QED
    BY <2>2, <2>3
<1>3. ASSUME q \in {Round, InitialValues \o Round, <<>>} PROVE InOrder(q)
  <2>1. CASE q = <<>>
    BY <2>1, EmptyLink
  <2>2. CASE q # <<>>
    BY <1>3, <2>2, RoundAsks
  <2>3. QED
    BY <2>1, <2>2
<1>4. QED
  BY <1>1, <1>2, <1>3

\* Every step keeps requests and reports in order.
LEMMA OrderStep ==
  ASSUME TypeOK, InOrder(toHA), [Next]_vars
  PROVE  InOrder(toHA')
<1> USE DEF nodeVars, linkVars, counters
<1>0. toHA \in Seq(Message) /\ toHA' \in Seq(Message)
  BY TypeStep DEF TypeOK
<1>1. CASE Boot
  BY <1>0, <1>1, OrderKept DEF Boot
<1>2. CASE Wake
  BY <1>0, <1>2, OrderKept DEF Wake
<1>3. CASE Receive
  <2>1. temp' \in Nat
    BY <1>3, ReceiveType DEF WholeDegrees
  <2>2. QED
    BY <1>0, <1>3, <2>1, OrderKept DEF Receive
<1>4. CASE HandleReport \/ HandleRequest \/ LoseUp
  BY <1>0, <1>4, OrderKept DEF HandleReport, HandleRequest, LoseUp
<1>5. ASSUME toHA' = toHA PROVE InOrder(toHA')
  BY <1>5
<1>6. QED
  BY <1>1, <1>2, <1>3, <1>4, <1>5
     DEF Next, vars, Sleep, ArriveInVain, PowerFailure, Wish, WishHeat, WishCool,
         WishFlow, LoseDown

\* Cutting the fraction off twice cuts nothing more.
LEMMA WholeTwice == \A t \in Nat : Whole(Whole(t)) = Whole(t)
  BY DEF Whole

\* Every step keeps a heating setpoint wished for under way.
LEMMA WishStep ==
  ASSUME TypeOK, InOrder(toHA), WishUnderWay, [Next]_vars
  PROVE  WishUnderWay'
<1> SUFFICES ASSUME NEW t \in wish'
             PROVE  IF pc' = "listen"
                    THEN ToBeAsked(t)' \/ Arriving(t)' \/ InForce(t)'
                    ELSE toHA' = <<>> /\ Whole(ha'.heat) = Whole(t)
  BY DEF WishUnderWay
<1> USE DEF nodeVars, linkVars, counters
<1>0. /\ toHA \in Seq(Message) /\ toNode \in Seq(CSet) /\ wish \subseteq Nat
      /\ ha \in [cool : Nat, heat : Nat, flow : Flows]
  BY DEF TypeOK
<1>a. ASSUME t \in wish
      PROVE  IF pc = "listen"
             THEN ToBeAsked(t) \/ Arriving(t) \/ InForce(t)
             ELSE toHA = <<>> /\ Whole(ha.heat) = Whole(t)
  BY <1>a DEF WishUnderWay
<1>1. CASE Boot \/ Wake
  <2>1. /\ pc # "listen" /\ wish' = wish /\ ha' = ha
        /\ toHA' \in {Round, InitialValues \o Round}
    BY <1>1 DEF Boot, Wake
  <2>2. ~None(toHA', AskFor("heat"))
    BY <2>1, RoundAsks
  <2>3. ToBeAsked(t)'
    BY <1>a, <2>1, <2>2 DEF ToBeAsked
  <2>4. QED
    BY <1>1, <2>3 DEF Boot, Wake
<1>2. CASE Sleep
  <2>1. /\ toHA = <<>> /\ toNode = <<>> /\ t \in wish /\ t \in Nat
        /\ pc = "listen" /\ pc' = "asleep" /\ toHA' = toHA /\ ha' = ha
    BY <1>0, <1>2 DEF Sleep, Idle
  <2>2. InForce(t)
    BY <1>a, <2>1, EmptyLink DEF ToBeAsked, Arriving
  <2>3. ha.heat = Whole(t)
    BY <2>1, <2>2, EmptyLink DEF InForce, Becomes
  <2>4. QED
    BY <2>1, <2>3, WholeTwice
<1>3. CASE Receive
  <2>1. /\ temp' \in Nat /\ toHA' = toHA \o StateReport(temp')
        /\ toNode # <<>> /\ toNode' = Tail(toNode) /\ temp' = TempAfter(Head(toNode))
        /\ ha' = ha /\ t \in wish /\ pc = "listen" /\ pc' = "listen"
    BY <1>3, ReceiveType DEF Receive, WholeDegrees
  <2>2. /\ None(toHA, AskFor("heat")) => None(toHA', AskFor("heat"))
        /\ ~None(toHA, AskFor("heat")) => ~None(toHA', AskFor("heat"))
    <3>1. \A m \in AskFor("heat") : m.kind # "set" \/ m.type \notin Setpoints
      BY DEF AskFor
    <3>2. QED
      BY <1>0, <2>1, <3>1, ReportKeeps
  <2>3. Becomes(toHA', "heat", ha'["heat"], temp')
    BY <1>0, <2>1, ReportSettles DEF Setpoints
  <2>4. Head(toNode) \in CSet
    BY <1>0, <2>1, Taken
  <2>5. CASE ToBeAsked(t)
    BY <2>1, <2>2, <2>5 DEF ToBeAsked
  <2>6. CASE Arriving(t)
    <3>1. \/ LastIs(toNode', SetpointsIn, WholeOf(t))
          \/ None(toNode', SetpointsIn) /\ Head(toNode) \in SetpointsIn \cap WholeOf(t)
      BY <1>0, <2>1, <2>6, TailLast DEF Arriving
    <3>2. Head(toNode) \in SetpointsIn \cap WholeOf(t) => temp' = Whole(t)
      BY <2>1 DEF SetpointsIn, WholeOf, TempAfter
    <3>3. QED
      BY <2>1, <2>2, <2>3, <2>6, <3>1, <3>2 DEF Arriving, InForce
  <2>7. CASE InForce(t)
    <3>1. None(toNode', SetpointsIn) /\ Head(toNode) \notin SetpointsIn
      BY <1>0, <2>1, <2>7, TailLast DEF InForce
    <3>2. temp' = temp
      BY <2>1, <2>4, <3>1 DEF SetpointsIn, TempAfter
    <3>3. QED
      BY <2>1, <2>2, <2>3, <2>7, <3>1, <3>2 DEF InForce
  <2>8. QED
    BY <1>a, <2>1, <2>5, <2>6, <2>7
<1>4. CASE HandleReport
  <2>1. /\ toHA # <<>> /\ toHA' = Tail(toHA) /\ Head(toHA).kind = "set"
        /\ ha'["heat"] = IF Head(toHA) \in Reports("heat") THEN Head(toHA).temp
                        ELSE ha["heat"]
    BY <1>4, ReportRead DEF Setpoints
  <2>2. /\ pc' = pc /\ toNode' = toNode /\ temp' = temp /\ t \in wish
    BY <1>4 DEF HandleReport
  <2>3. pc = "listen"
    BY <1>a, <2>1, <2>2
  <2>4. Head(toHA) \notin AskFor("heat")
    BY <2>1 DEF AskFor
  <2>5. CASE ToBeAsked(t)
    <3>1. ~None(toHA', AskFor("heat"))
      BY <1>0, <2>1, <2>4, <2>5, TailLast DEF ToBeAsked
    <3>2. Head(toHA) \notin Reports("heat")
      <4>1. PICK j \in 1 .. Len(toHA) : toHA[j] \in AskFor("heat")
        BY <2>5 DEF ToBeAsked, None
      <4>2. Head(toHA) = toHA[1] /\ 1 \in 1 .. Len(toHA)
        BY <1>0, <2>1
      <4>3. 1 < j
        BY <2>4, <4>1, <4>2
      <4>4. QED
        BY <4>1, <4>2, <4>3 DEF InOrder
    <3>3. QED
      BY <2>1, <2>2, <2>3, <2>5, <3>1, <3>2 DEF ToBeAsked
  <2>6. CASE Arriving(t)
    <3>1. None(toHA', AskFor("heat"))
      BY <1>0, <2>1, <2>6, TailLast DEF Arriving
    <3>2. QED
      BY <2>2, <2>3, <2>6, <3>1 DEF Arriving
  <2>7. CASE InForce(t)
    <3>1. None(toHA', AskFor("heat"))
      BY <1>0, <2>1, <2>7, TailLast DEF InForce
    <3>2. Becomes(toHA', "heat", ha'["heat"], temp)
      BY <1>4, <2>7, ReadBecomes DEF InForce, Setpoints
    <3>3. QED
      BY <2>2, <2>3, <2>7, <3>1, <3>2 DEF InForce
  <2>8. QED
    BY <1>a, <2>2, <2>3, <2>5, <2>6, <2>7
<1>5. CASE HandleRequest
  <2> DEFINE m == Head(toHA)
             r == Reply(m.type)
  <2>1. /\ toHA # <<>> /\ toHA' = Tail(toHA) /\ m.kind = "request"
        /\ toNode' = Append(toNode, r) /\ ha' = ha /\ pc' = pc /\ temp' = temp
        /\ t \in wish
    BY <1>5 DEF HandleRequest
  <2>2. m \in Message
    BY <1>0, <2>1, Taken
  <2>3. r \in CSet /\ r.type = m.type /\ (m.type = "heat" => r.temp = ha.heat)
    <3>1. r \in CSet
      BY <2>2, ReplyType DEF Message
    <3>2. QED
      BY <3>1 DEF Reply, Setpoints
  <2>4. pc = "listen"
    BY <1>a, <2>1
  <2>5. \A s \in Setpoints : m \in AskFor(s) <=> m.type = s
    BY <2>1, <2>2 DEF AskFor
  <2>6. r \in SetpointsIn <=> m.type \in Setpoints
    BY <2>3 DEF SetpointsIn
  <2> HIDE DEF m, r
  <2>7. CASE ToBeAsked(t)
    <3>1. CASE None(toHA', AskFor("heat"))
      <4>1. m \in AskFor("heat")
        BY <1>0, <2>1, <2>7, <3>1, TailLast DEF ToBeAsked, m
      <4>2. m.type = "heat"
        BY <2>5, <4>1 DEF Setpoints
      <4>3. r \in SetpointsIn /\ r \in WholeOf(t)
        BY <2>3, <2>6, <2>7, <4>2 DEF Setpoints, WholeOf, ToBeAsked
      <4>4. LastIs(toNode', SetpointsIn, WholeOf(t))
        BY <1>0, <2>1, <2>3, <4>3, AppendLast
      <4>5. QED
        BY <2>1, <2>4, <3>1, <4>4 DEF Arriving
    <3>2. CASE ~None(toHA', AskFor("heat"))
      BY <2>1, <2>4, <2>7, <3>2 DEF ToBeAsked
    <3>3. QED
      BY <3>1, <3>2
  <2>8. CASE None(toHA, AskFor("heat"))
    <3>1. ~LastIs(toHA, AskFor("cool") \cup AskFor("heat"), AskFor("heat"))
      BY <2>8 DEF LastIs, None
    <3>2. None(toHA, AskFor("cool") \cup AskFor("heat"))
      BY <3>1 DEF InOrder
    <3>3. m \notin AskFor("cool") \cup AskFor("heat") /\ None(toHA', AskFor("heat"))
      BY <1>0, <2>1, <2>8, <3>2, TailLast DEF m
    <3>4. r \notin SetpointsIn
      BY <2>5, <2>6, <3>3 DEF Setpoints
    <3>5. /\ LastIs(toNode, SetpointsIn, WholeOf(t)) => LastIs(toNode', SetpointsIn, WholeOf(t))
          /\ None(toNode, SetpointsIn) => None(toNode', SetpointsIn)
      BY <1>0, <2>1, <2>3, <3>4, AppendLast
    <3>6. ASSUME Becomes(toHA, "heat", ha["heat"], temp)
          PROVE  Becomes(toHA', "heat", ha["heat"], temp)
      <4>1. m \notin Reports("heat")
        BY <2>1 DEF Reports
      <4>2. QED
        BY <1>0, <2>1, <3>6, <4>1, TailLast DEF Becomes, m
    <3>7. QED
      BY <1>a, <2>1, <2>4, <2>8, <3>3, <3>5, <3>6 DEF ToBeAsked, Arriving, InForce
  <2>9. QED
    BY <1>a, <2>1, <2>4, <2>7, <2>8 DEF Arriving, InForce
<1>6. CASE WishHeat
  <2>1. PICK u \in Temps : /\ Wish(SetTemp("heat", u))
                         /\ wish' = IF pc # "listen" /\ toHA # <<>> THEN {} ELSE {u}
    BY <1>6 DEF WishHeat
  <2>2. u = t /\ (pc = "listen" \/ toHA = <<>>) /\ t \in Nat
    BY <2>1, HvacAssumption
  <2>3. /\ ha' = Updated(SetTemp("heat", t)) /\ toNode' = Append(toNode, SetTemp("heat", t))
        /\ toHA' = toHA /\ pc' = pc
    BY <2>1, <2>2 DEF Wish
  <2>4. ha'.heat = t
    BY <1>0, <2>3 DEF Updated, SetTemp, Setpoints
  <2>5. SetTemp("heat", t) \in Message
    BY <2>2, Constructed DEF Setpoints
  <2>6. /\ SetTemp("heat", t) \in CSet /\ SetTemp("heat", t) \in SetpointsIn
        /\ SetTemp("heat", t) \in WholeOf(t)
    BY <2>5 DEF CSet, SetpointsIn, WholeOf, SetTemp, Setpoints
  <2>7. LastIs(toNode', SetpointsIn, WholeOf(t))
    BY <1>0, <2>3, <2>6, AppendLast
  <2>8. QED
    BY <2>2, <2>3, <2>4, <2>7 DEF ToBeAsked, Arriving
<1>7. CASE WishFlow
  <2>1. PICK f \in Asked : Wish(SetFlow(f)) /\ wish' = wish
    BY <1>7 DEF WishFlow
  <2>2. SetFlow(f) \in CSet /\ SetFlow(f) \notin SetpointsIn
    <3>1. SetFlow(f) \in Message
      BY Constructed, HvacAssumption
    <3>2. QED
      BY <3>1 DEF CSet, SetpointsIn, SetFlow, Setpoints
  <2>3. /\ ha' = Updated(SetFlow(f)) /\ toNode' = Append(toNode, SetFlow(f))
        /\ toHA' = toHA /\ pc' = pc /\ temp' = temp
    BY <2>1 DEF Wish
  <2>4. ha'["heat"] = ha["heat"]
    BY <1>0, <2>3 DEF Updated, SetFlow, Setpoints
  <2>5. /\ LastIs(toNode, SetpointsIn, WholeOf(t)) => LastIs(toNode', SetpointsIn, WholeOf(t))
        /\ None(toNode, SetpointsIn) => None(toNode', SetpointsIn)
    BY <1>0, <2>2, <2>3, AppendLast
  <2>6. QED
    BY <1>a, <2>1, <2>3, <2>4, <2>5 DEF ToBeAsked, Arriving, InForce
<1>8. CASE WishCool \/ PowerFailure \/ LoseUp \/ LoseDown
  BY <1>8 DEF WishCool, PowerFailure, LoseUp, LoseDown, Lost
<1>9. CASE ArriveInVain
  BY <1>a, <1>9 DEF ArriveInVain
<1>10. CASE UNCHANGED vars
  BY <1>a, <1>10 DEF vars, ToBeAsked, Arriving, InForce
<1>11. QED
  BY <1>1, <1>2, <1>3, <1>4, <1>5, <1>6, <1>7, <1>8, <1>9, <1>10 DEF Next

\* What a round is about to bring holds in every reachable state.
LEMMA RoundCorrect == Spec => []RoundInv
<1>1. Init => RoundInv
  <2> SUFFICES ASSUME Init PROVE RoundInv
    OBVIOUS
  <2>1. pc = "boot" /\ wish = {} /\ toHA = <<>>
    BY DEF Init
  <2>2. InOrder(toHA)
    BY <2>1, EmptyLink DEF InOrder
  <2>3. QED
    BY <2>1, <2>2 DEF RoundInv, SetpointsComing, FlowComing, WishUnderWay
<1>2. TypeOK /\ RoundInv /\ [Next]_vars => RoundInv'
  BY SetpointsStep, FlowStep, OrderStep, WishStep DEF RoundInv
<1>3. QED
  BY <1>1, <1>2, TypeCorrect, PTL DEF Spec

\* After a round without loss the controller's two setpoints are the one the
\* node keeps, in whatever order they were set (HvacNode.SetpointsAgree).
THEOREM OneSetpoint == Spec => []SetpointsAgree
<1>1. RoundInv => SetpointsAgree
  <2> SUFFICES ASSUME RoundInv, Settled PROVE ha["cool"] = temp /\ ha["heat"] = temp
    BY DEF SetpointsAgree
  <2>1. toHA = <<>> /\ toNode = <<>> /\ pc = "listen" /\ clean = "yes"
    BY DEF Settled, Idle
  <2>2. \A s \in Setpoints : Becomes(toHA, s, ha[s], temp)
    BY <2>1, EmptyLink DEF RoundInv, SetpointsComing
  <2>3. QED
    BY <2>1, <2>2, EmptyLink DEF Becomes, Setpoints
<1>2. QED
  BY <1>1, RoundCorrect, PTL

\* After a round without loss the heat pump does what Home Assistant shows, also
\* after a power failure that took the node's state (HvacNode.UnitAsShown).
THEOREM UnitDoesAsShown == Spec => []UnitAsShown
<1>1. TypeOK /\ RoundInv /\ StateNamed /\ UnitFollows /\ SetpointsAgree => UnitAsShown
  <2> SUFFICES ASSUME TypeOK, RoundInv, StateNamed, UnitFollows, SetpointsAgree, Settled
               PROVE  Does(ha.flow) /\ unit.temp = ha.heat
    BY DEF UnitAsShown
  <2>1. toHA = <<>> /\ toNode = <<>> /\ pc = "listen" /\ clean = "yes"
    BY DEF Settled, Idle
  <2>2. modeString = ha.flow
    BY <2>1, EmptyLink DEF RoundInv, FlowComing
  <2>3. ha.flow # ""
    BY DEF TypeOK, Flows
  <2>4. unit = [power |-> power, mode |-> mode, temp |-> temp]
    BY <2>2, <2>3 DEF UnitFollows
  <2>5. ha.heat = temp
    BY DEF SetpointsAgree
  <2>6. QED
    BY <2>2, <2>3, <2>4, <2>5 DEF Does, StateNamed
<1>2. Init => StateNamed
  BY DEF Init, StateNamed
<1>3. TypeOK /\ StateNamed /\ [Next]_vars => StateNamed'
  BY StateNamedStep
<1>4. QED
  BY <1>1, <1>2, <1>3, TypeCorrect, RoundCorrect, LastCommandIsState, OneSetpoint, PTL
     DEF Spec

\* After a round without loss a heating setpoint wished for is in force, also one
\* set while the node slept (HvacNode.HeatWishKept).
THEOREM HeatWishInForce == Spec => []HeatWishKept
<1>1. RoundInv => HeatWishKept
  <2> SUFFICES ASSUME RoundInv, Settled, NEW t \in wish PROVE temp = Whole(t)
    BY DEF HeatWishKept
  <2>1. toHA = <<>> /\ toNode = <<>> /\ pc = "listen"
    BY DEF Settled, Idle
  <2>2. InForce(t)
    BY <2>1, EmptyLink DEF RoundInv, WishUnderWay, ToBeAsked, Arriving
  <2>3. QED
    BY <2>2 DEF InForce
<1>2. QED
  BY <1>1, RoundCorrect, PTL
=============================================================================
