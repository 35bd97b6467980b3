------------------------- MODULE HotTubLight_proofs -------------------------
(***************************************************************************)
(* Proofs about HotTubLight for any faults and bounds, however late         *)
(* messages are.                                                            *)
(***************************************************************************)
EXTENDS HotTubLight, TLAPS

\* What becomes of the end of a queue when something is added.
LEMMA Added ==
  ASSUME NEW S, NEW q \in Seq(S), NEW v \in S
  PROVE  /\ Append(q, v) \in Seq(S)
         /\ Append(q, v) # <<>>
         /\ Append(q, v)[Len(Append(q, v))] = v
OBVIOUS

\* ... and when its head is taken.
LEMMA Taken ==
  ASSUME NEW S, NEW q \in Seq(S), q # <<>>
  PROVE  /\ Head(q) \in S
         /\ Tail(q) \in Seq(S)
         /\ Tail(q) = <<>> => q[Len(q)] = Head(q)
         /\ Tail(q) # <<>> => Tail(q)[Len(Tail(q))] = q[Len(q)]
<1>1. /\ Head(q) = q[1] /\ Head(q) \in S
      /\ Tail(q) \in Seq(S) /\ Len(Tail(q)) = Len(q) - 1
      /\ Len(q) \in Nat \ {0}
  OBVIOUS
<1>2. Tail(q) = <<>> => Len(q) = 1
  BY <1>1
<1>3. ASSUME Tail(q) # <<>>
      PROVE  Tail(q)[Len(Tail(q))] = q[Len(q)]
  <2>1. Len(Tail(q)) \in 1 .. Len(Tail(q))
    BY <1>1, <1>3
  <2>2. \A i \in 1 .. Len(Tail(q)) : Tail(q)[i] = q[i + 1]
    OBVIOUS
  <2> QED BY <1>1, <2>1, <2>2
<1> QED BY <1>1, <1>2, <1>3

\* Asking puts a request at the end.
LEMMA Asked ==
  ASSUME NEW q \in Seq({"report", "request"})
  PROVE  /\ q \o Opening \in Seq({"report", "request"})
         /\ q \o Opening # <<>>
         /\ (q \o Opening)[Len(q \o Opening)] = "request"
BY DEF Opening

-----------------------------------------------------------------------------
\* The controller is never left with a report alone: a request comes after it.
Asking == toHA # <<>> => toHA[Len(toHA)] = "request"

\* The value the relay will have when all that is on its way has arrived.
Newest == IF toNode = <<>> THEN relay ELSE toNode[Len(toNode)]

\* With no request under way, what the node will have is what is shown, unless
\* it has just started or a message was lost; so is what the broker keeps.
Agreed ==
  clean = "yes" /\ toHA = <<>> =>
    /\ retained \subseteq {ha}
    /\ toNode # <<>> \/ initialRelayStateSent => Newest = ha

\* A wish is shown, the node has started, and nothing is on its way that could
\* change the switch.
Wished ==
  wish # {} =>
    /\ wish = {ha}
    /\ initialRelayStateSent
    /\ toHA = <<>>
    /\ clean = "yes"

IInv == TypeOK /\ Asking /\ Agreed /\ Wished

\* The initial states satisfy the invariant.
LEMMA InitInv == ASSUME Init PROVE IInv
<1>1. ha \in Values /\ retained \subseteq Values
  BY DEF Init, Values
<1>2. initialRelayStateSent \in BOOLEAN
  BY DEF Init
<1>3. TypeOK
  BY <1>1, <1>2 DEF Init, TypeOK, Values, ResetLevel
<1>4. Asking /\ Agreed /\ Wished
  BY DEF Init, Asking, Agreed, Wished, Values
<1> QED BY <1>3, <1>4 DEF IInv

\* Every step keeps the types.
LEMMA TypeStep == ASSUME TypeOK, [Next]_vars PROVE TypeOK'
<1> USE DEF TypeOK, nodeVars
<1>1. CASE AskInitialState
  BY <1>1, Asked DEF AskInitialState
<1>2. CASE SkipInitialState \/ InitialStateTimeout \/ NextLoop
  BY <1>2 DEF SkipInitialState, InitialStateTimeout, NextLoop
<1>3. CASE Receive
  <2>1. Head(toNode) \in Values /\ toNode' \in Seq(Values)
    BY <1>3, Taken DEF Receive
  <2> QED BY <1>3, <2>1 DEF Receive, RelayAfter
<1>4. CASE PowerFailure
  <2>1. initialRelayStateSent' \in BOOLEAN
    BY <1>4 DEF PowerFailure
  <2>2. toNode' \in Seq(Values)
    <3>1. toNode' = toNode \/ toNode' = <<>>
      BY <1>4 DEF PowerFailure
    <3>2. <<>> \in Seq(Values)
      OBVIOUS
    <3> QED BY <3>1, <3>2
  <2>3. relay' \in Values
    BY <1>4 DEF PowerFailure, ResetLevel, Values
  <2> QED BY <1>4, <2>1, <2>2, <2>3 DEF PowerFailure, Fault
<1>5. ASSUME NEW v \in Values, Command(v) PROVE TypeOK'
  BY <1>5 DEF Command, Publish
<1>6. CASE HandleReport
  BY <1>6, Taken DEF HandleReport, Values
<1>7. CASE AnswerRequest
  BY <1>7, Taken DEF AnswerRequest, Publish
<1>8. CASE GatewayReconnect
  BY <1>8 DEF GatewayReconnect, Fault
<1>9. CASE Lose
  <2>1. toHA' = toHA \/ (toHA # <<>> /\ toHA' = Tail(toHA))
    BY <1>9 DEF Lose
  <2>2. toNode' = toNode \/ (toNode # <<>> /\ toNode' = Tail(toNode))
    BY <1>9 DEF Lose
  <2>3. toHA' \in Seq({"report", "request"})
    <3>1. CASE toHA # <<>> /\ toHA' = Tail(toHA)
      <4>1. Tail(toHA) \in Seq({"report", "request"})
        BY <3>1, Taken
      <4> QED BY <3>1, <4>1
    <3> QED BY <2>1, <3>1
  <2>4. toNode' \in Seq(Values)
    <3>1. CASE toNode # <<>> /\ toNode' = Tail(toNode)
      <4>1. Tail(toNode) \in Seq(Values)
        BY <3>1, Taken
      <4> QED BY <3>1, <4>1
    <3> QED BY <2>2, <3>1
  <2> QED BY <1>9, <2>3, <2>4 DEF Lose, Fault
<1>10. CASE UNCHANGED vars
  BY <1>10 DEF vars
<1> QED
  BY <1>1, <1>2, <1>3, <1>4, <1>5, <1>6, <1>7, <1>8, <1>9, <1>10 DEF Next, NodeStep

\* Every step keeps the node on its way to what is shown.
LEMMA AgreedStep ==
  ASSUME IInv, [Next]_vars
  PROVE  Asking' /\ Agreed' /\ Wished'
<1> USE DEF IInv, TypeOK, Asking, Agreed, Wished, Newest, nodeVars
<1>1. CASE AskInitialState
  <2>1. toHA' # <<>> /\ toHA'[Len(toHA')] = "request"
    BY <1>1, Asked DEF AskInitialState
  <2>2. wish' = {}
    BY <1>1 DEF AskInitialState, NeedsInitialState
  <2> QED BY <2>1, <2>2
<1>2. CASE SkipInitialState \/ InitialStateTimeout \/ NextLoop
  BY <1>2 DEF SkipInitialState, InitialStateTimeout, NextLoop
<1>3. CASE Receive
  <2>1. Newest' = Newest
    BY <1>3, Taken DEF Receive, RelayAfter
  <2> QED BY <1>3, <2>1 DEF Receive
<1>4. CASE PowerFailure
  BY <1>4 DEF PowerFailure, Fault
<1>5. ASSUME NEW v \in Values, Command(v) PROVE Asking' /\ Agreed' /\ Wished'
  <2>1. Newest' = v
    BY <1>5, Added DEF Command, Publish
  <2> QED BY <1>5, <2>1 DEF Command, Publish
<1>6. CASE HandleReport
  <2>1. toHA' # <<>> /\ toHA'[Len(toHA')] = "request"
    BY <1>6, Taken DEF HandleReport
  <2>2. wish' = {}
    BY <1>6 DEF HandleReport
  <2> QED BY <2>1, <2>2
<1>7. CASE AnswerRequest
  <2>1. Newest' = ha'
    BY <1>7, Added DEF AnswerRequest, Publish
  <2>2. Asking'
    BY <1>7, Taken DEF AnswerRequest
  <2>3. wish' = {}
    BY <1>7 DEF AnswerRequest
  <2> QED BY <1>7, <2>1, <2>2, <2>3 DEF AnswerRequest, Publish
<1>8. CASE GatewayReconnect
  <2>1. PICK v \in retained : toNode' = Append(toNode, v)
    BY <1>8 DEF GatewayReconnect
  <2>2. Newest' = v
    BY <2>1, Added
  <2> QED BY <1>8, <2>1, <2>2 DEF GatewayReconnect, Fault
<1>9. CASE Lose
  <2>1. Asking'
    BY <1>9, Taken DEF Lose
  <2> QED BY <1>9, <2>1 DEF Lose, Fault
<1>10. CASE UNCHANGED vars
  BY <1>10 DEF vars
<1> QED
  BY <1>1, <1>2, <1>3, <1>4, <1>5, <1>6, <1>7, <1>8, <1>9, <1>10 DEF Next, NodeStep

\* The invariant holds of every behaviour.
LEMMA Inductive == Spec => []IInv
<1>1. ASSUME IInv, [Next]_vars PROVE IInv'
  BY <1>1, TypeStep, AgreedStep DEF IInv
<1> QED BY <1>1, InitInv, PTL DEF Spec

-----------------------------------------------------------------------------
\* Values and messages are of their kinds, for any combination of faults.
THEOREM TypeCorrect == Spec => []TypeOK
<1>1. IInv => TypeOK
  BY DEF IInv
<1> QED BY <1>1, Inductive, PTL

\* Once all is delivered the light is as it is shown, through any number of
\* late answers, restarts and commands sent again (loop and receive of the
\* sketch with the retained, optimistic switch).
THEOREM ShownIsLit == Spec => []LightAsShown
<1>1. IInv => LightAsShown
  BY DEF IInv, Agreed, Newest, LightAsShown, Settled
<1> QED BY <1>1, Inductive, PTL

\* A light set once the node has started stays as it was set: nothing that was
\* on its way, nor what the broker keeps, undoes it.
THEOREM WishIsLit == Spec => []LightAsAsked
<1>1. IInv => LightAsAsked
  BY DEF IInv, Agreed, Wished, Newest, LightAsAsked, Settled
<1> QED BY <1>1, Inductive, PTL
=============================================================================
