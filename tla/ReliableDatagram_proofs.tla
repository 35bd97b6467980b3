----------------------- MODULE ReliableDatagram_proofs -----------------------
(***************************************************************************)
(* Proofs about ReliableDatagram for any stations, any width of the number, *)
(* any number of retries, messages and power failures.                      *)
(***************************************************************************)
EXTENDS ReliableDatagram, TLAPS

\* The messages as they are, whatever the bounds of the model.
Datagrams == [of : Stations, number : Nat \ {0}, id : Numbers]

\* TypeOK but for the bounds of the model.
Types ==
  /\ assigned \subseteq Stations
  /\ phase \in [Stations -> {"idle", "waiting"}]
  /\ seq \in [Stations -> Numbers]
  /\ tries \in [Stations -> 0 .. Retries]
  /\ result \in [Stations -> {"none", "acked", "gaveUp"}]
  /\ fifo \in Seq(Datagrams) /\ Len(fifo) <= FifoSize
  /\ hand \in Seq(Datagrams) /\ Len(hand) <= 1
  /\ seen \in [Stations \cup {Everybody} -> Numbers]
  /\ air \in {"noisy", "calm"}
  /\ restarts \in [Stations \cup {Base} -> Nat]
  /\ sent \in [Stations -> Nat]
  /\ begun \in [Stations -> {"noisy", "calm"}]
  /\ latest \in [Stations -> Nat]
  /\ got \subseteq Stations
  /\ round \subseteq Stations
  /\ repeated \subseteq Stations
  /\ \A s \in Stations : phase[s] = "waiting" => sent[s] > 0

\* What the base has taken and not looked up, and all that it has.
Held == Range(hand)
Kept == Range(fifo)
Coming == Held \cup Kept

\* The messages of a station come in the order in which it began to send them,
\* after the one that was handed over last.
Ascending(q) ==
  \A i, j \in 1 .. Len(q) : i < j /\ q[i].of = q[j].of => q[i].number <= q[j].number
HeldFirst ==
  \A m \in Held, n \in Kept : m.of = n.of => m.number <= n.number
Within ==
  /\ \A m \in Coming : latest[m.of] <= m.number /\ m.number <= sent[m.of]
  /\ \A s \in Stations : latest[s] <= sent[s]
Ordered == Ascending(fifo) /\ HeldFirst /\ Within

\* All transmissions of a message have one number.
Numbered ==
  /\ \A m, n \in Coming : m.of = n.of /\ m.number = n.number => m.id = n.id
  /\ \A m \in Coming :
       phase[m.of] = "waiting" /\ m.number = sent[m.of] => m.id = seq[m.of]

\* The base has not forgotten, nor mistaken another for the station.
Sole(s) == restarts[Base] = 0 /\ Alike(s) = {s}

\* A base that remembers knows a message it has handed over by its number.
Known ==
  \A s \in Stations : Sole(s) =>
    /\ \A m \in Coming :
         m.of = s /\ m.number = latest[s] => m.id = seen[Address(s)]
    /\ phase[s] = "waiting" /\ latest[s] = sent[s] => seq[s] = seen[Address(s)]

\* The numbers of a station that has not restarted count its messages.
Counted ==
  \A s \in Stations : restarts[s] = 0 =>
    /\ seq[s] = sent[s] % Ids
    /\ \A m \in Coming : m.of = s => m.id = m.number % Ids
    /\ Sole(s) => seen[Address(s)] = latest[s] % Ids

\* The message handed over last is the last one of its station, or a newer one was sent.
Recorded == \A s \in Stations : sent[s] > 0 /\ latest[s] = sent[s] => s \in got

\* A message that was acknowledged in calm order is handed over next, and as news.
Pending(s) ==
  /\ \E m \in Held : m.of = s /\ m.number = sent[s]
  /\ sent[s] - latest[s] < Ids
Delivered ==
  \A s \in assigned :
    result[s] = "acked" /\ restarts[s] = 0 /\ restarts[Base] = 0 =>
      s \in got \/ s \in round \/ Pending(s)

\* No station has sent more messages than there were calls.
Bounded ==
  /\ failures \in 0 .. MaxRestarts
  /\ calls \in 0 .. MaxMessages
  /\ \A s \in Stations : sent[s] <= calls

OrderInv == Ordered /\ Numbered /\ Known
DeliveryInv == Counted /\ Recorded /\ Delivered

\* A station that waits since the air is calm has a retry left or its message
\* is with the base.
CalmInv ==
  \A s \in assigned : begun[s] = "calm" =>
    /\ air = "calm"
    /\ result[s] # "gaveUp"
    /\ phase[s] = "waiting" =>
         \/ tries[s] < Retries
         \/ \E m \in Kept : m.of = s /\ m.id = seq[s]

-----------------------------------------------------------------------------
\* A message appended is the last element.
LEMMA AppendRange ==
  ASSUME NEW M, NEW q \in Seq(M), NEW m \in M
  PROVE  /\ Append(q, m) \in Seq(M) /\ Len(Append(q, m)) = Len(q) + 1
         /\ Range(Append(q, m)) = Range(q) \cup {m}
<1>1. /\ Append(q, m) \in Seq(M) /\ Len(Append(q, m)) = Len(q) + 1
      /\ DOMAIN Append(q, m) = 1 .. Len(q) + 1 /\ DOMAIN q = 1 .. Len(q)
      /\ Append(q, m)[Len(q) + 1] = m /\ Len(q) \in Nat
      /\ \A i \in 1 .. Len(q) : Append(q, m)[i] = q[i]
  OBVIOUS
<1>2. 1 .. Len(q) + 1 = (1 .. Len(q)) \cup {Len(q) + 1}
  BY <1>1
<1> QED BY <1>1, <1>2 DEF Range

\* A message taken is the first element, the others stay.
LEMMA TailRange ==
  ASSUME NEW M, NEW q \in Seq(M), q # <<>>
  PROVE  /\ Head(q) \in M /\ Tail(q) \in Seq(M) /\ Len(Tail(q)) <= Len(q)
         /\ Range(q) = {Head(q)} \cup Range(Tail(q))
<1>1. /\ Head(q) \in M /\ Tail(q) \in Seq(M) /\ Len(Tail(q)) = Len(q) - 1
      /\ Len(q) \in Nat \ {0} /\ Head(q) = q[1]
      /\ DOMAIN q = 1 .. Len(q) /\ DOMAIN Tail(q) = 1 .. Len(q) - 1
      /\ \A i \in 1 .. Len(q) - 1 : Tail(q)[i] = q[i + 1]
  OBVIOUS
<1>2. Range(q) \subseteq {Head(q)} \cup Range(Tail(q))
  <2> SUFFICES ASSUME NEW i \in 1 .. Len(q), i # 1
               PROVE  q[i] \in Range(Tail(q))
    BY <1>1 DEF Range
  <2>1. i - 1 \in 1 .. Len(q) - 1 /\ (i - 1) + 1 = i
    BY <1>1
  <2>2. Tail(q)[i - 1] = q[i]
    BY <1>1, <2>1
  <2> QED BY <1>1, <2>1, <2>2 DEF Range
<1>3. {Head(q)} \cup Range(Tail(q)) \subseteq Range(q)
  <2>1. \A i \in 1 .. Len(q) - 1 : i + 1 \in 1 .. Len(q)
    BY <1>1
  <2>2. 1 \in 1 .. Len(q)
    BY <1>1
  <2> QED BY <1>1, <2>1, <2>2 DEF Range
<1> QED BY <1>1, <1>2, <1>3

\* A sequence of one element, and of none.
LEMMA ShortRange ==
  ASSUME NEW M
  PROVE  /\ Range(<<>>) = {} /\ <<>> \in Seq(M) /\ Len(<<>>) = 0
         /\ \A m \in M : /\ Range(<<m>>) = {m} /\ <<m>> \in Seq(M)
                         /\ Len(<<m>>) = 1
         /\ \A q \in Seq(M) : Range(q) \subseteq M
BY DEF Range

\* Sorted messages stay so when a newer one is appended.
LEMMA AppendAscends ==
  ASSUME NEW q \in Seq(Datagrams), Ascending(q), NEW m \in Datagrams,
         \A n \in Range(q) : n.of = m.of => n.number <= m.number
  PROVE  Ascending(Append(q, m))
<1> DEFINE a == Append(q, m)
<1>1. /\ Len(q) \in Nat /\ Len(a) = Len(q) + 1 /\ a[Len(q) + 1] = m
      /\ \A i \in 1 .. Len(q) : a[i] = q[i]
      /\ \A i \in 1 .. Len(q) : q[i] \in Range(q)
  BY DEF Range
<1> HIDE DEF a
<1> SUFFICES ASSUME NEW i \in 1 .. Len(a), NEW j \in 1 .. Len(a),
                    i < j, a[i].of = a[j].of
             PROVE  a[i].number <= a[j].number
  BY DEF Ascending, a
<1>2. i \in 1 .. Len(q) /\ (j \in 1 .. Len(q) \/ j = Len(q) + 1)
  BY <1>1
<1>3. CASE j \in 1 .. Len(q)
  BY <1>1, <1>2, <1>3 DEF Ascending
<1>4. CASE j = Len(q) + 1
  BY <1>1, <1>2, <1>4
<1> QED BY <1>2, <1>3, <1>4

\* Sorted messages stay so when the first, which was sent before the others, is taken.
LEMMA TailAscends ==
  ASSUME NEW q \in Seq(Datagrams), Ascending(q), q # <<>>
  PROVE  /\ Ascending(Tail(q))
         /\ \A n \in Range(Tail(q)) : Head(q).of = n.of => Head(q).number <= n.number
<1>1. /\ Len(q) \in Nat \ {0} /\ Len(Tail(q)) = Len(q) - 1 /\ Head(q) = q[1]
      /\ DOMAIN Tail(q) = 1 .. Len(q) - 1
      /\ \A i \in 1 .. Len(q) - 1 : Tail(q)[i] = q[i + 1]
  OBVIOUS
<1>2. \A i \in 1 .. Len(q) - 1 : i + 1 \in 1 .. Len(q) /\ 1 < i + 1
  BY <1>1
<1>3. 1 \in 1 .. Len(q)
  BY <1>1
<1>4. Ascending(Tail(q))
  <2> SUFFICES ASSUME NEW i \in 1 .. Len(q) - 1, NEW j \in 1 .. Len(q) - 1,
                      i < j, Tail(q)[i].of = Tail(q)[j].of
               PROVE  Tail(q)[i].number <= Tail(q)[j].number
    BY <1>1 DEF Ascending
  <2>1. i + 1 < j + 1
    BY <1>1
  <2> QED BY <1>1, <1>2, <2>1 DEF Ascending
<1>5. ASSUME NEW n \in Range(Tail(q)), Head(q).of = n.of
      PROVE  Head(q).number <= n.number
  <2>1. PICK i \in 1 .. Len(q) - 1 : n = q[i + 1]
    BY <1>1 DEF Range
  <2> QED BY <1>1, <1>2, <1>3, <1>5, <2>1 DEF Ascending
<1> QED BY <1>4, <1>5

-----------------------------------------------------------------------------
\* A number is a multiple of Ids and a remainder.
LEMMA Division ==
  ASSUME NEW n \in Nat
  PROVE  n = Ids * (n \div Ids) + (n % Ids) /\ n % Ids \in 0 .. (Ids - 1)
         /\ n \div Ids \in Nat
BY DatagramAssumption, SMT

\* There is one such remainder.
LEMMA SameRemainder ==
  ASSUME NEW p \in Int, NEW q \in Int, NEW r \in 0 .. (Ids - 1), NEW s \in 0 .. (Ids - 1),
         Ids * p + r = Ids * q + s
  PROVE  r = s
BY DatagramAssumption, SMT

\* Multiples of Ids are as far apart.
LEMMA Apart ==
  ASSUME NEW p \in Nat, NEW q \in Nat, p < q
  PROVE  Ids * p + Ids <= Ids * q
BY DatagramAssumption, SMT

\* Counting on a remainder, and taking the remainder, is to count on the number.
LEMMA NextCount ==
  ASSUME NEW n \in Nat
  PROVE  ((n % Ids) + 1) % Ids = (n + 1) % Ids
<1> DEFINE r == n % Ids
           p == n \div Ids
           a == (n + 1) \div Ids
           b == (r + 1) \div Ids
<1>1. n = Ids * p + r /\ r \in 0 .. (Ids - 1) /\ p \in Nat
  BY Division
<1>2. n + 1 = Ids * a + ((n + 1) % Ids) /\ (n + 1) % Ids \in 0 .. (Ids - 1) /\ a \in Nat
  BY Division
<1>3. r + 1 = Ids * b + ((r + 1) % Ids) /\ (r + 1) % Ids \in 0 .. (Ids - 1) /\ b \in Nat
  BY <1>1, Division
<1>4. Ids * (p + b) = Ids * p + Ids * b /\ Ids * p \in Int /\ Ids * b \in Int
      /\ Ids * a \in Int /\ p + b \in Int
  BY <1>1, <1>2, <1>3, DatagramAssumption, SMT
<1> DEFINE x == (n + 1) % Ids
           y == (r + 1) % Ids
<1> HIDE DEF r, p, a, b, x, y
<1>5. Ids * a + x = Ids * (p + b) + y
  BY <1>1, <1>2, <1>3, <1>4, DatagramAssumption DEF x, y
<1>6. x = y
  BY <1>2, <1>3, <1>4, <1>5, SameRemainder DEF x, y
<1> QED BY <1>6 DEF x, y, r

\* Two messages with the same number of eight bits are a whole round apart.
LEMMA SameNumber ==
  ASSUME NEW m \in Nat, NEW n \in Nat, m < n, m % Ids = n % Ids
  PROVE  n - m >= Ids
<1> DEFINE p == m \div Ids
           q == n \div Ids
           r == m % Ids
<1>1. m = Ids * p + r /\ n = Ids * q + r /\ r \in Int /\ p \in Nat /\ q \in Nat
  BY Division
<1>2. Ids * p \in Int /\ Ids * q \in Int /\ Ids \in Nat
  BY <1>1, DatagramAssumption
<1> HIDE DEF p, q, r
<1>3. CASE p < q
  BY <1>1, <1>2, <1>3, Apart
<1>4. CASE p = q
  BY <1>1, <1>2, <1>4
<1>5. CASE q < p
  BY <1>1, <1>2, <1>5, Apart, DatagramAssumption
<1> QED BY <1>1, <1>3, <1>4, <1>5

-----------------------------------------------------------------------------
\* The message a station sends, or sent last.
Message(s) == [of |-> s, number |-> sent[s], id |-> seq[s]]

\* A number, counted on, is a number.
LEMMA NextIdType ==
  ASSUME Types, NEW s \in Stations
  PROVE  NextId(s) \in Numbers /\ 0 \in Numbers
<1>1. Numbers = 0 .. (Ids - 1) /\ seq[s] \in Numbers
  BY DEF Numbers, Types
<1>2. seq[s] + 1 \in Nat /\ 0 \in Numbers
  BY <1>1, DatagramAssumption
<1>3. (seq[s] + 1) % Ids \in Numbers
  BY <1>1, <1>2, Division
<1> QED BY <1>2, <1>3 DEF NextId

\* A transmission adds at most the message to what the base has.
LEMMA Transmission ==
  ASSUME Types, NEW m \in Datagrams, Transmit(m)
  PROVE  /\ fifo' \in Seq(Datagrams) /\ Len(fifo') <= FifoSize
         /\ Kept' \subseteq Kept \cup {m} /\ Kept \subseteq Kept'
         /\ air = "calm" /\ Len(fifo) < FifoSize => m \in Kept'
         /\ Ascending(fifo) /\ (\A n \in Kept : n.of = m.of => n.number <= m.number)
              => Ascending(fifo')
<1> USE DatagramAssumption
<1>1. fifo \in Seq(Datagrams) /\ Len(fifo) <= FifoSize /\ Len(fifo) \in Nat
  BY DEF Types
<1>2. CASE Len(fifo) < FifoSize /\ fifo' = Append(fifo, m)
  <2>1. /\ fifo' \in Seq(Datagrams) /\ Len(fifo') = Len(fifo) + 1
        /\ Range(fifo') = Range(fifo) \cup {m}
    BY <1>1, <1>2, AppendRange
  <2>2. Ascending(fifo) /\ (\A n \in Kept : n.of = m.of => n.number <= m.number)
          => Ascending(fifo')
    BY <1>1, <1>2, AppendAscends DEF Kept
  <2> QED BY <1>1, <1>2, <2>1, <2>2 DEF Kept
<1>3. CASE (air = "noisy" \/ Len(fifo) = FifoSize) /\ UNCHANGED fifo
  BY <1>1, <1>3 DEF Kept, Ascending
<1> QED BY <1>2, <1>3 DEF Transmit

\* What a station sends is a message, and a newer one with each call of sendtoWait().
LEMMA Sending ==
  ASSUME Types, NEW s \in Stations, Send(s) \/ Retransmit(s)
  PROVE  /\ Message(s)' \in Datagrams /\ Message(s)'.of = s
         /\ Message(s)'.number = sent'[s] /\ Message(s)'.id = seq'[s]
         /\ Transmit(Message(s)')
         /\ sent' \in [Stations -> Nat] /\ sent'[s] > 0
         /\ seq' \in [Stations -> Numbers]
         /\ \A t \in Stations \ {s} : sent'[t] = sent[t] /\ seq'[t] = seq[t]
         /\ Send(s) => sent'[s] = sent[s] + 1
         /\ Retransmit(s) => sent' = sent /\ seq' = seq
<1>1. CASE Send(s)
  <2>1. sent' \in [Stations -> Nat] /\ sent'[s] = sent[s] + 1 /\ sent[s] \in Nat
    BY <1>1 DEF Send, Types
  <2>2. seq' \in [Stations -> Numbers]
    BY <1>1, NextIdType DEF Send, Types
  <2>3. /\ \A t \in Stations \ {s} : sent'[t] = sent[t] /\ seq'[t] = seq[t]
        /\ Transmit(Message(s)')
    BY <1>1 DEF Send, Types, Message
  <2>4. ~Retransmit(s)
    BY <1>1 DEF Send, MayCall, Retransmit, TimedOut
  <2> QED BY <2>1, <2>2, <2>3, <2>4 DEF Message, Datagrams
<1>2. CASE Retransmit(s)
  <2>1. sent' = sent /\ seq' = seq /\ sent[s] > 0
    BY <1>2 DEF Retransmit, TimedOut, Types
  <2>2. Transmit(Message(s)')
    BY <1>2, <2>1 DEF Retransmit, Message
  <2>3. ~Send(s)
    BY <1>2 DEF Send, MayCall, Retransmit, TimedOut
  <2> QED BY <2>1, <2>2, <2>3 DEF Message, Datagrams, Types
<1> QED BY <1>1, <1>2

\* What the base takes from its radio it still has to look up.
LEMMA Taking ==
  ASSUME Types, Acknowledge
  PROVE  /\ hand' \in Seq(Datagrams) /\ Len(hand') = 1
         /\ fifo' \in Seq(Datagrams) /\ Len(fifo') <= Len(fifo)
         /\ Head(fifo) \in Datagrams /\ Held' = {Head(fifo)} /\ Held = {}
         /\ Kept = {Head(fifo)} \cup Kept' /\ Coming' = Coming
<1>1. fifo \in Seq(Datagrams) /\ fifo # <<>> /\ hand = <<>>
      /\ hand' = <<Head(fifo)>> /\ fifo' = Tail(fifo)
  BY DEF Acknowledge, Types
<1>2. /\ Head(fifo) \in Datagrams /\ Tail(fifo) \in Seq(Datagrams)
      /\ Len(Tail(fifo)) <= Len(fifo)
      /\ Range(fifo) = {Head(fifo)} \cup Range(Tail(fifo))
  BY <1>1, TailRange
<1>3. /\ hand' \in Seq(Datagrams) /\ Len(hand') = 1
      /\ Range(hand') = {Head(fifo)} /\ Range(hand) = {}
  BY <1>1, <1>2, ShortRange
<1> QED BY <1>1, <1>2, <1>3 DEF Held, Kept, Coming

\* What the base looks up it no longer has, unless it was sent again.
LEMMA LookingUp ==
  ASSUME Types, HandOver
  PROVE  /\ hand' = <<>> /\ fifo' = fifo /\ Held' = {} /\ Coming' = Kept
         /\ \E m \in Datagrams :
              /\ Held = {m}
              /\ IF IsNews(m)
                 THEN /\ seen' = [seen EXCEPT ![Address(m.of)] = m.id]
                      /\ latest' = [latest EXCEPT ![m.of] = m.number]
                      /\ got' = IF m.number = sent[m.of] THEN got \cup {m.of} ELSE got
                      /\ repeated' = IF m.number <= latest[m.of]
                                     THEN repeated \cup {m.of} ELSE repeated
                 ELSE UNCHANGED <<seen, latest, got, repeated>>
<1>1. PICK m \in Range(hand) :
        /\ hand' = <<>>
        /\ IF IsNews(m)
           THEN /\ seen' = [seen EXCEPT ![Address(m.of)] = m.id]
                /\ latest' = [latest EXCEPT ![m.of] = m.number]
                /\ got' = IF m.number = sent[m.of] THEN got \cup {m.of} ELSE got
                /\ repeated' = IF m.number <= latest[m.of]
                               THEN repeated \cup {m.of} ELSE repeated
           ELSE UNCHANGED <<seen, latest, got, repeated>>
        /\ fifo' = fifo
  BY DEF HandOver
<1>2. hand \in Seq(Datagrams) /\ Len(hand) \in Nat /\ Len(hand) <= 1
      /\ DOMAIN hand = 1 .. Len(hand)
  BY DEF Types
<1>3. PICK i \in 1 .. Len(hand) : m = hand[i]
  BY <1>1, <1>2 DEF Range
<1>4. i = 1 /\ DOMAIN hand = {1} /\ m \in Datagrams
  BY <1>2, <1>3
<1>5. Held = {m} /\ Held' = {}
  BY <1>1, <1>3, <1>4, ShortRange DEF Held, Range
<1> QED BY <1>1, <1>4, <1>5 DEF Coming, Kept

\* The addresses of the datagrams, none of a station that was given none.
LEMMA Addresses ==
  ASSUME NEW s \in Stations
  PROVE  /\ Address(s) \in Stations \cup {Everybody}
         /\ Address(s) \in Stations <=> s \in assigned
         /\ s \in assigned => Address(s) = s
BY DatagramAssumption DEF Address

-----------------------------------------------------------------------------
\* Every step keeps the types.
LEMMA TypesStep ==
  ASSUME Types, [Next]_vars
  PROVE  Types'
<1> USE DatagramAssumption
<1>1. ASSUME NEW s \in Stations, Send(s) PROVE Types'
  <2>1. fifo' \in Seq(Datagrams) /\ Len(fifo') <= FifoSize
        /\ sent' \in [Stations -> Nat] /\ sent'[s] > 0 /\ seq' \in [Stations -> Numbers]
        /\ \A t \in Stations \ {s} : sent'[t] = sent[t]
    BY <1>1, Sending, Transmission
  <2>2. \A t \in Stations : phase'[t] = "waiting" => sent'[t] > 0
    BY <1>1, <2>1 DEF Send, Types
  <2>3. /\ phase' \in [Stations -> {"idle", "waiting"}]
        /\ tries' \in [Stations -> 0 .. Retries]
        /\ result' \in [Stations -> {"none", "acked", "gaveUp"}]
        /\ begun' \in [Stations -> {"noisy", "calm"}]
        /\ got' \subseteq Stations /\ round' \subseteq Stations
    BY <1>1 DEF Send, Types
  <2> QED BY <1>1, <2>1, <2>2, <2>3 DEF power, Send, Types, Base
<1>2. ASSUME NEW s \in Stations, Retransmit(s) PROVE Types'
  <2>1. fifo' \in Seq(Datagrams) /\ Len(fifo') <= FifoSize
    BY <1>2, Sending, Transmission
  <2>2. tries' \in [Stations -> 0 .. Retries]
    BY <1>2 DEF Retransmit, Types
  <2> QED BY <1>2, <2>1, <2>2 DEF power, Retransmit, Types, Base
<1>3. ASSUME NEW s \in Stations, GiveUp(s) PROVE Types'
  <2>1. /\ phase' \in [Stations -> {"idle", "waiting"}]
        /\ result' \in [Stations -> {"none", "acked", "gaveUp"}]
        /\ \A t \in Stations : phase'[t] = "waiting" => phase[t] = "waiting"
    BY <1>3 DEF GiveUp, Types
  <2> QED BY <1>3, <2>1 DEF power, GiveUp, Types, base, Base
<1>4. ASSUME NEW s \in Stations, RestartStation(s) PROVE Types'
  <2>1. /\ phase' \in [Stations -> {"idle", "waiting"}]
        /\ seq' \in [Stations -> Numbers]
        /\ tries' \in [Stations -> 0 .. Retries]
        /\ result' \in [Stations -> {"none", "acked", "gaveUp"}]
        /\ restarts' \in [Stations \cup {Base} -> Nat]
        /\ \A t \in Stations : phase'[t] = "waiting" => phase[t] = "waiting"
    <3>1. 0 \in Numbers /\ 0 \in 0 .. Retries
      BY NextIdType
    <3>2. restarts' \in [Stations \cup {Base} -> Nat]
      BY <1>4 DEF RestartStation, Fails, Types
    <3> QED BY <1>4, <3>1, <3>2 DEF RestartStation, Types
  <2> QED BY <1>4, <2>1 DEF RestartStation, Types, base, Base
<1>5. CASE Acknowledge
  <2>1. /\ phase' \in [Stations -> {"idle", "waiting"}]
        /\ result' \in [Stations -> {"none", "acked", "gaveUp"}]
        /\ round' \subseteq Stations
        /\ \A t \in Stations : phase'[t] = "waiting" => phase[t] = "waiting"
    BY <1>5 DEF Acknowledge, Types, Hearing
  <2>2. UNCHANGED <<assigned, seq, tries, sent, begun, seen, air, restarts, latest, got,
                    repeated>>
    BY <1>5 DEF Acknowledge, power
  <2>3. /\ hand' \in Seq(Datagrams) /\ Len(hand') <= 1
        /\ fifo' \in Seq(Datagrams) /\ Len(fifo') <= FifoSize
    <3>1. /\ hand' \in Seq(Datagrams) /\ Len(hand') = 1
          /\ fifo' \in Seq(Datagrams) /\ Len(fifo') <= Len(fifo)
          /\ fifo \in Seq(Datagrams) /\ Len(fifo) <= FifoSize
      BY <1>5, Taking DEF Types
    <3>2. Len(fifo) \in Nat /\ Len(fifo') \in Nat
      BY <3>1
    <3> QED BY <3>1, <3>2
  <2> QED BY <2>1, <2>2, <2>3 DEF Types, Base
<1>6. CASE HandOver
  <2>1. UNCHANGED <<assigned, station, fifo, air, restarts>> /\ hand' = <<>>
    BY <1>6 DEF HandOver, power
  <2>2. hand' \in Seq(Datagrams) /\ Len(hand') <= 1
    BY <2>1, ShortRange
  <2>3. /\ seen' \in [Stations \cup {Everybody} -> Numbers]
        /\ latest' \in [Stations -> Nat]
        /\ got' \subseteq Stations /\ repeated' \subseteq Stations
    <3>1. PICK m \in Datagrams :
              IF IsNews(m)
              THEN /\ seen' = [seen EXCEPT ![Address(m.of)] = m.id]
                   /\ latest' = [latest EXCEPT ![m.of] = m.number]
                   /\ got' = IF m.number = sent[m.of] THEN got \cup {m.of} ELSE got
                   /\ repeated' = IF m.number <= latest[m.of]
                                  THEN repeated \cup {m.of} ELSE repeated
              ELSE UNCHANGED <<seen, latest, got, repeated>>
      BY <1>6, LookingUp
    <3>2. m.of \in Stations /\ m.id \in Numbers /\ m.number \in Nat
      BY DEF Datagrams
    <3>3. CASE IsNews(m)
      <4>1. seen' = [seen EXCEPT ![Address(m.of)] = m.id]
            /\ latest' = [latest EXCEPT ![m.of] = m.number]
        BY <3>1, <3>3
      <4>2. got' \subseteq Stations /\ repeated' \subseteq Stations
        BY <3>1, <3>2, <3>3 DEF Types
      <4> QED BY <3>2, <4>1, <4>2 DEF Types
    <3>4. CASE ~IsNews(m)
      BY <3>1, <3>4 DEF Types
    <3> QED BY <3>3, <3>4
  <2> QED BY <2>1, <2>2, <2>3 DEF Types, station, Base
<1>7. CASE RestartBase
  <2>1. UNCHANGED <<assigned, station, air, latest, got, repeated>>
        /\ fifo' = <<>> /\ hand' = <<>>
    BY <1>7 DEF RestartBase
  <2>2. /\ hand' \in Seq(Datagrams) /\ Len(hand') <= 1
        /\ fifo' \in Seq(Datagrams) /\ Len(fifo') <= FifoSize
    BY <2>1, ShortRange
  <2>3. /\ seen' \in [Stations \cup {Everybody} -> Numbers]
        /\ restarts' \in [Stations \cup {Base} -> Nat]
    <3>1. 0 \in Numbers
      BY DEF Numbers
    <3> QED BY <1>7, <3>1 DEF RestartBase, Fails, Types
  <2> QED BY <2>1, <2>2, <2>3 DEF Types, station, Base
<1>8. CASE CalmDown
  BY <1>8 DEF power, CalmDown, Types, station, base, Base
<1>9. CASE UNCHANGED vars
  BY <1>9 DEF power, vars, Types, station, base, Base
<1> QED BY <1>1, <1>2, <1>3, <1>4, <1>5, <1>6, <1>7, <1>8, <1>9
        DEF Next, TimeoutEnds

\* The variables keep their types, whatever the bounds of the model.
LEMMA TypesCorrect == Spec => []Types
<1>1. Init => Types
  <2> SUFFICES ASSUME Init PROVE Types
    OBVIOUS
  <2>1. 0 \in Numbers /\ 0 \in 0 .. Retries
    BY DatagramAssumption DEF Numbers
  <2>2. <<>> \in Seq(Datagrams) /\ Len(<<>>) = 0
    OBVIOUS
  <2> QED BY <2>1, <2>2, DatagramAssumption DEF Init, Types
<1> QED BY <1>1, TypesStep, PTL DEF Spec

\* A station without an address is never told that its message arrived: what is
\* acknowledged to everybody is not for it (ReliableDatagram.NeverTold).
THEOREM NotToldWithoutAddress == Spec => []NeverTold
<1>1. Init => NeverTold
  BY DEF Init, NeverTold
<1>2. Types /\ NeverTold /\ [Next]_vars => NeverTold'
  <2> SUFFICES ASSUME Types, NeverTold, [Next]_vars,
                      NEW s \in Stations, s \notin assigned'
               PROVE  result'[s] # "acked"
    BY DEF NeverTold
  <2>1. assigned' = assigned /\ result[s] # "acked"
    BY DEF NeverTold, Next, TimeoutEnds, Send, Retransmit, GiveUp, RestartStation,
           Acknowledge, HandOver, RestartBase, CalmDown, vars
  <2>2. ASSUME NEW t \in Stations, Send(t) \/ GiveUp(t) \/ RestartStation(t)
        PROVE  result'[s] # "acked"
    BY <2>1, <2>2 DEF Send, GiveUp, RestartStation, Types
  <2>3. CASE Acknowledge
    <3>1. Head(fifo).of \in Stations
      BY <2>3, Taking DEF Datagrams
    <3>2. ~IsExpected(s, Address(Head(fifo).of), Head(fifo).id)
      BY <2>1, <3>1, DatagramAssumption DEF IsExpected, Address
    <3> QED BY <2>1, <2>3, <3>2 DEF Acknowledge
  <2>4. CASE \/ HandOver \/ RestartBase \/ CalmDown \/ UNCHANGED vars
             \/ \E t \in Stations : Retransmit(t)
    BY <2>1, <2>4 DEF HandOver, RestartBase, CalmDown, Retransmit, station, vars
  <2> QED BY <2>2, <2>3, <2>4 DEF Next, TimeoutEnds
<1> QED BY <1>1, <1>2, TypesCorrect, PTL DEF Spec

-----------------------------------------------------------------------------
\* The base has messages of the stations.
LEMMA ComingType ==
  ASSUME Types
  PROVE  /\ Coming \subseteq Datagrams /\ Held \subseteq Coming /\ Kept \subseteq Coming
         /\ \A m \in Coming : m.of \in Stations /\ m.number \in Nat \ {0} /\ m.id \in Numbers
<1>1. Held \subseteq Datagrams /\ Kept \subseteq Datagrams
  BY ShortRange DEF Types, Held, Kept
<1> QED BY <1>1 DEF Coming, Datagrams

\* A base that restarts has no messages.
LEMMA NothingComes ==
  ASSUME RestartBase
  PROVE  Coming' = {} /\ Held' = {} /\ Kept' = {} /\ Ascending(fifo')
<1>1. fifo' = <<>> /\ hand' = <<>> /\ Len(<<>>) = 0 /\ 1 .. 0 = {}
  BY DEF RestartBase
<1>2. Held' = {} /\ Kept' = {}
  BY <1>1 DEF Held, Kept, Range
<1> QED BY <1>1, <1>2 DEF Coming, Ascending

\* The messages of each station stay in order.
LEMMA OrderedStep ==
  ASSUME Types, Ordered, [Next]_vars
  PROVE  Ordered'
<1>1. ASSUME NEW s \in Stations, Send(s) \/ Retransmit(s) PROVE Ordered'
  <2> DEFINE m == Message(s)'
  <2>1. /\ m \in Datagrams /\ m.of = s /\ m.number = sent'[s] /\ Transmit(m)
        /\ sent[s] \in Nat /\ sent'[s] \in Nat /\ sent[s] <= sent'[s]
        /\ \A t \in Stations \ {s} : sent'[t] = sent[t]
    BY <1>1, Sending DEF Types
  <2>2. hand' = hand /\ latest' = latest
    BY <1>1 DEF Send, Retransmit
  <2> HIDE DEF m
  <2>3. \A n \in Coming : n.of = s => n.number <= m.number /\ n.number <= sent'[s]
    BY <2>1, ComingType DEF Ordered, Within
  <2>4. Held' = Held /\ Kept' \subseteq Kept \cup {m} /\ Ascending(fifo')
    BY <2>1, <2>2, <2>3, ComingType, Transmission DEF Held, Ordered
  <2>5. HeldFirst'
    BY <2>1, <2>3, <2>4, ComingType DEF Ordered, HeldFirst
  <2>6. \A t \in Stations : latest'[t] <= sent'[t]
    <3> SUFFICES ASSUME NEW t \in Stations PROVE latest[t] <= sent'[t]
      BY <2>2
    <3>1. latest[t] <= sent[t] /\ latest[t] \in Nat
      BY DEF Ordered, Within, Types
    <3> QED BY <2>1, <3>1
  <2>7. \A n \in Coming' : latest'[n.of] <= n.number /\ n.number <= sent'[n.of]
    <3> SUFFICES ASSUME NEW n \in Coming'
                 PROVE  latest[n.of] <= n.number /\ n.number <= sent'[n.of]
      BY <2>2
    <3>1. CASE n = m
      BY <2>1, <2>2, <2>6, <3>1
    <3>2. CASE n \in Coming
      BY <2>1, <2>3, <3>2, ComingType DEF Ordered, Within
    <3> QED BY <2>4, <3>1, <3>2 DEF Coming
  <2> QED BY <2>4, <2>5, <2>6, <2>7 DEF Ordered, Within
<1>2. CASE Acknowledge
  <2>1. /\ fifo' = Tail(fifo) /\ fifo # <<>> /\ fifo \in Seq(Datagrams)
        /\ sent' = sent /\ latest' = latest
    BY <1>2 DEF Acknowledge, Types
  <2>2. /\ Ascending(fifo')
        /\ \A n \in Kept' : Head(fifo).of = n.of => Head(fifo).number <= n.number
    BY <2>1, TailAscends DEF Ordered, Kept
  <2> QED BY <1>2, <2>1, <2>2, Taking DEF Ordered, HeldFirst, Within
<1>3. CASE HandOver
  <2>1. PICK m \in Datagrams :
          /\ Held = {m}
          /\ latest' = [latest EXCEPT ![m.of] = m.number] \/ latest' = latest
    BY <1>3, LookingUp
  <2>2. sent' = sent /\ fifo' = fifo /\ Held' = {} /\ Kept' = Kept /\ Coming' = Kept
    BY <1>3, LookingUp DEF HandOver, station, Kept
  <2>3. m \in Coming /\ m.of \in Stations
    BY <2>1, ComingType
  <2>4. ASSUME NEW n \in Kept PROVE latest'[n.of] <= n.number /\ n.number <= sent'[n.of]
    <3>1. latest[n.of] <= n.number /\ n.number <= sent[n.of] /\ n.of \in Stations
      BY <2>4, ComingType DEF Ordered, Within
    <3>2. m.of = n.of => m.number <= n.number
      BY <2>1, <2>4 DEF Ordered, HeldFirst
    <3> QED BY <2>1, <2>2, <2>3, <3>1, <3>2 DEF Types
  <2>5. ASSUME NEW t \in Stations PROVE latest'[t] <= sent'[t]
    <3>1. latest[t] <= sent[t] /\ m.number <= sent[m.of]
      BY <2>3 DEF Ordered, Within
    <3> QED BY <2>1, <2>2, <2>3, <3>1 DEF Types
  <2> QED BY <2>2, <2>4, <2>5 DEF Ordered, HeldFirst, Within
<1>4. CASE RestartBase
  BY <1>4, NothingComes DEF RestartBase, station, Ordered, HeldFirst, Within
<1>5. CASE CalmDown \/ UNCHANGED vars \/ \E s \in Stations : GiveUp(s) \/ RestartStation(s)
  <2>1. hand' = hand /\ fifo' = fifo /\ latest' = latest /\ sent' = sent
    BY <1>5 DEF CalmDown, GiveUp, RestartStation, station, base, vars
  <2> QED BY <2>1 DEF Ordered, Ascending, HeldFirst, Within, Coming, Held, Kept
<1> QED BY <1>1, <1>2, <1>3, <1>4, <1>5 DEF Next, TimeoutEnds

\* All transmissions of a message keep its number.
LEMMA NumberedStep ==
  ASSUME Types, Ordered, Numbered, [Next]_vars
  PROVE  Numbered'
<1>1. ASSUME NEW s \in Stations, Send(s) \/ Retransmit(s) PROVE Numbered'
  <2> DEFINE m == Message(s)'
  <2>1. /\ m \in Datagrams /\ m.of = s /\ m.number = sent'[s] /\ m.id = seq'[s]
        /\ Transmit(m)
        /\ \A t \in Stations \ {s} : sent'[t] = sent[t] /\ seq'[t] = seq[t]
    BY <1>1, Sending
  <2>2. hand' = hand /\ \A t \in Stations \ {s} : phase'[t] = phase[t]
    BY <1>1 DEF Send, Retransmit, Types
  <2> HIDE DEF m
  <2>3. Coming' \subseteq Coming \cup {m}
    BY <2>1, <2>2, Transmission DEF Coming, Held
  <2>4. ASSUME NEW n \in Coming, n.of = s, n.number = sent'[s] PROVE n.id = seq'[s]
    <3>1. n.number <= sent[s] /\ sent[s] \in Nat
      BY <2>4 DEF Ordered, Within, Types
    <3>2. Retransmit(s) /\ sent' = sent /\ seq' = seq
      BY <1>1, <2>4, <3>1, Sending
    <3> QED BY <2>4, <3>2 DEF Numbered, Retransmit, TimedOut
  <2>5. ASSUME NEW n \in Coming, n.of # s, phase'[n.of] = "waiting", n.number = sent'[n.of]
        PROVE  n.id = seq'[n.of]
    BY <2>1, <2>2, <2>5, ComingType DEF Numbered
  <2> QED BY <2>1, <2>3, <2>4, <2>5 DEF Numbered
<1>2. CASE Acknowledge
  <2>1. Coming' = Coming
    BY <1>2, Taking
  <2>2. /\ sent' = sent /\ seq' = seq
        /\ \A t \in Stations : phase'[t] = "waiting" => phase[t] = "waiting"
    BY <1>2 DEF Acknowledge
  <2> QED BY <2>1, <2>2, ComingType DEF Numbered
<1>3. CASE HandOver
  <2>1. Coming' \subseteq Coming
    BY <1>3, LookingUp, ComingType
  <2>2. sent' = sent /\ seq' = seq /\ phase' = phase
    BY <1>3 DEF HandOver, station
  <2> QED BY <2>1, <2>2 DEF Numbered
<1>4. CASE RestartBase
  BY <1>4, NothingComes DEF Numbered
<1>5. CASE CalmDown \/ UNCHANGED vars \/ \E s \in Stations : GiveUp(s) \/ RestartStation(s)
  <2>1. hand' = hand /\ fifo' = fifo /\ sent' = sent
    BY <1>5 DEF CalmDown, GiveUp, RestartStation, station, base, vars
  <2>2. \A t \in Stations :
          phase'[t] = "waiting" => phase[t] = "waiting" /\ seq'[t] = seq[t]
    BY <1>5 DEF CalmDown, GiveUp, RestartStation, station, vars, Types
  <2>3. Coming' = Coming
    BY <2>1 DEF Coming, Held, Kept
  <2> QED BY <2>1, <2>2, <2>3, ComingType DEF Numbered
<1> QED BY <1>1, <1>2, <1>3, <1>4, <1>5 DEF Next, TimeoutEnds

\* Addresses are given once, and power failures are not forgotten.
LEMMA Lasting ==
  ASSUME Types, [Next]_vars
  PROVE  /\ assigned' = assigned
         /\ \A s \in Stations : Address(s)' = Address(s) /\ Alike(s)' = Alike(s)
         /\ \A n \in Stations \cup {Base} : restarts'[n] = 0 => restarts[n] = 0
         /\ \A s \in Stations : Sole(s)' => Sole(s) /\ ~RestartBase
         /\ \A s \in Stations : Sole(s)' => restarts'[Base] = 0
<1>1. assigned' = assigned
  BY DEF Next, TimeoutEnds, Send, Retransmit, GiveUp, RestartStation,
         Acknowledge, HandOver, RestartBase, CalmDown, vars
<1>2. \A s \in Stations : Address(s)' = Address(s) /\ Alike(s)' = Alike(s)
  BY <1>1 DEF Address, Alike
<1>3. restarts' = restarts \/ \E n \in Stations \cup {Base} : Fails(n)
  BY DEF power, Next, TimeoutEnds, Send, Retransmit, GiveUp, RestartStation,
         Acknowledge, HandOver, RestartBase, CalmDown, vars
<1>4. \A n \in Stations \cup {Base} : restarts'[n] = 0 => restarts[n] = 0
  BY <1>3 DEF Fails, Types
<1>5. RestartBase => restarts'[Base] # 0
  BY DEF RestartBase, Fails, Types
<1>6. ASSUME NEW s \in Stations, Sole(s)' PROVE restarts'[Base] = 0 /\ Sole(s)
  BY <1>2, <1>4, <1>6 DEF Sole, Base
<1> QED BY <1>1, <1>2, <1>4, <1>5, <1>6

\* A base that remembers still knows what it has handed over.
LEMMA KnownStep ==
  ASSUME Types, Ordered, Numbered, Known, [Next]_vars
  PROVE  Known'
<1> SUFFICES ASSUME NEW t \in Stations, Sole(t)'
             PROVE  /\ \A m \in Coming' : m.of = t /\ m.number = latest'[t]
                                            => m.id = seen'[Address(t)]
                    /\ phase'[t] = "waiting" /\ latest'[t] = sent'[t]
                         => seq'[t] = seen'[Address(t)]
  <2>1. \A t \in Stations : Address(t)' = Address(t)
    BY Lasting
  <2> QED BY <2>1 DEF Known
<1>1. /\ Sole(t) /\ ~RestartBase
      /\ \A m \in Coming : m.of = t /\ m.number = latest[t] => m.id = seen[Address(t)]
      /\ phase[t] = "waiting" /\ latest[t] = sent[t] => seq[t] = seen[Address(t)]
  BY Lasting DEF Known
<1>2. /\ latest[t] \in Nat /\ sent[t] \in Nat /\ latest[t] <= sent[t]
      /\ Address(t) \in Stations \cup {Everybody}
  BY Addresses DEF Types, Ordered, Within
<1>3. CASE \E s \in Stations : Send(s) \/ Retransmit(s)
  <2>1. PICK s \in Stations : Send(s) \/ Retransmit(s)
    BY <1>3
  <2> DEFINE m == Message(s)'
  <2>2. /\ m \in Datagrams /\ m.of = s /\ m.number = sent'[s] /\ m.id = seq'[s]
        /\ Transmit(m)
        /\ \A r \in Stations \ {s} : sent'[r] = sent[r] /\ seq'[r] = seq[r]
        /\ Send(s) => sent'[s] = sent[s] + 1
        /\ Retransmit(s) => sent' = sent /\ seq' = seq
    BY <2>1, Sending
  <2>3. /\ hand' = hand /\ latest' = latest /\ seen' = seen
        /\ \A r \in Stations \ {s} : phase'[r] = phase[r]
        /\ Retransmit(s) => phase' = phase /\ phase[s] = "waiting"
    BY <2>1 DEF Send, Retransmit, TimedOut, Types
  <2> HIDE DEF m
  <2>4. Coming' \subseteq Coming \cup {m}
    BY <2>2, <2>3, Transmission DEF Coming, Held
  <2>5. CASE t # s
    BY <1>1, <2>2, <2>3, <2>4, <2>5
  <2>6. CASE t = s /\ Send(s)
    <3>1. latest'[t] # sent'[t] /\ m.number # latest'[t]
      BY <1>2, <2>2, <2>3, <2>6
    <3> QED BY <1>1, <2>3, <2>4, <3>1
  <2>7. CASE t = s /\ Retransmit(s)
    BY <1>1, <2>2, <2>3, <2>4, <2>7
  <2> QED BY <2>1, <2>5, <2>6, <2>7
<1>4. CASE Acknowledge
  <2>1. Coming' = Coming
    BY <1>4, Taking
  <2>2. /\ sent' = sent /\ seq' = seq /\ seen' = seen /\ latest' = latest
        /\ phase'[t] = "waiting" => phase[t] = "waiting"
    BY <1>4 DEF Acknowledge
  <2> QED BY <1>1, <2>1, <2>2
<1>5. CASE HandOver
  <2>1. PICK m \in Datagrams :
          /\ Held = {m}
          /\ IF IsNews(m)
             THEN /\ seen' = [seen EXCEPT ![Address(m.of)] = m.id]
                  /\ latest' = [latest EXCEPT ![m.of] = m.number]
             ELSE UNCHANGED <<seen, latest>>
    BY <1>5, LookingUp
  <2>2. /\ sent' = sent /\ seq' = seq /\ phase' = phase
        /\ Coming' \subseteq Coming /\ m \in Coming
        /\ m.of \in Stations /\ Address(m.of) \in Stations \cup {Everybody}
    BY <1>5, <2>1, LookingUp, ComingType, Addresses DEF HandOver, station
  <2>3. CASE ~IsNews(m)
    BY <1>1, <2>1, <2>2, <2>3
  <2>4. CASE IsNews(m) /\ m.of = t
    <3>1. latest'[t] = m.number /\ seen'[Address(t)] = m.id
      BY <1>2, <2>1, <2>2, <2>4 DEF Types
    <3> QED BY <2>2, <2>4, <3>1 DEF Numbered
  <2>5. CASE IsNews(m) /\ m.of # t
    <3>1. Address(m.of) # Address(t)
      BY <1>1, <2>2, <2>5 DEF Sole, Alike
    <3>2. latest'[t] = latest[t] /\ seen'[Address(t)] = seen[Address(t)]
      BY <1>2, <2>1, <2>2, <2>5, <3>1 DEF Types
    <3> QED BY <1>1, <2>2, <3>2
  <2> QED BY <2>3, <2>4, <2>5
<1>6. CASE CalmDown \/ UNCHANGED vars \/ \E s \in Stations : GiveUp(s) \/ RestartStation(s)
  <2>1. hand' = hand /\ fifo' = fifo /\ sent' = sent /\ latest' = latest /\ seen' = seen
    BY <1>6 DEF CalmDown, GiveUp, RestartStation, station, base, vars
  <2>2. phase'[t] = "waiting" => phase[t] = "waiting" /\ seq'[t] = seq[t]
    BY <1>6 DEF CalmDown, GiveUp, RestartStation, station, vars, Types
  <2>3. Coming' = Coming
    BY <2>1 DEF Coming, Held, Kept
  <2> QED BY <1>1, <2>1, <2>2, <2>3
<1> QED BY <1>1, <1>3, <1>4, <1>5, <1>6 DEF Next, TimeoutEnds

\* The order and the numbers of the messages, from the start on.
LEMMA OrderCorrect == Spec => []OrderInv
<1>1. Init => OrderInv
  <2> SUFFICES ASSUME Init PROVE OrderInv
    OBVIOUS
  <2>1. Held = {} /\ Kept = {} /\ Coming = {} /\ Ascending(fifo)
    <3>1. hand = <<>> /\ fifo = <<>> /\ Len(<<>>) = 0 /\ 1 .. 0 = {}
      BY DEF Init
    <3> QED BY <3>1 DEF Held, Kept, Coming, Range, Ascending
  <2> QED BY <2>1 DEF Init, OrderInv, Ordered, HeldFirst, Within, Numbered, Known
<1>2. Types /\ OrderInv /\ [Next]_vars => OrderInv'
  BY OrderedStep, NumberedStep, KnownStep DEF OrderInv
<1> QED BY <1>1, <1>2, TypesCorrect, PTL DEF Spec

\* Every step keeps the bounds.
LEMMA BoundedStep ==
  ASSUME Types, Bounded, [Next]_vars
  PROVE  Bounded'
<1> USE DatagramAssumption
<1>1. ASSUME NEW s \in Stations, Send(s) PROVE Bounded'
  <2>1. calls < MaxMessages /\ calls' = calls + 1 /\ failures' = failures
    BY <1>1 DEF Send, MayCall, power
  <2>2. sent'[s] = sent[s] + 1 /\ \A t \in Stations \ {s} : sent'[t] = sent[t]
    BY <1>1, Sending
  <2>3. calls' \in 0 .. MaxMessages /\ calls \in Nat
    BY <2>1 DEF Bounded
  <2>4. ASSUME NEW t \in Stations PROVE sent'[t] <= calls'
    <3>1. sent[t] <= calls /\ sent[t] \in Nat
      BY DEF Bounded, Types
    <3> QED BY <2>1, <2>2, <2>3, <3>1
  <2> QED BY <2>1, <2>3, <2>4 DEF Bounded
<1>2. ASSUME NEW n, Fails(n), sent' = sent, calls' = calls PROVE Bounded'
  BY <1>2 DEF Fails, Bounded
<1>3. CASE \E s \in Stations : RestartStation(s)
  BY <1>2, <1>3 DEF RestartStation
<1>4. CASE RestartBase
  BY <1>2, <1>4 DEF RestartBase, station
<1>5. CASE \/ Acknowledge \/ HandOver \/ CalmDown \/ UNCHANGED vars
           \/ \E s \in Stations : Retransmit(s) \/ GiveUp(s)
  <2>1. UNCHANGED <<failures, calls, sent>>
    BY <1>5 DEF Acknowledge, HandOver, CalmDown, Retransmit, GiveUp, station, power, vars
  <2> QED BY <2>1 DEF Bounded
<1> QED BY <1>1, <1>3, <1>4, <1>5 DEF Next, TimeoutEnds

\* The variables keep their types: the base's radio keeps no more messages than it
\* has room for, the base has at most one in hand, and the number, counted on,
\* stays within its bits (ReliableDatagram.TypeOK).
THEOREM TypeCorrect == Spec => []TypeOK
<1>1. Init => Bounded
  BY DatagramAssumption DEF Init, Bounded
<1>2. Types /\ OrderInv /\ Bounded => TypeOK
  <2> SUFFICES ASSUME Types, OrderInv, Bounded PROVE TypeOK
    OBVIOUS
  <2>1. \A s \in Stations : sent[s] \in 0 .. MaxMessages /\ latest[s] \in 0 .. MaxMessages
    BY DatagramAssumption DEF Types, OrderInv, Ordered, Within, Bounded
  <2>2. Coming \subseteq Messages
    <3> SUFFICES ASSUME NEW m \in Coming PROVE m \in Messages
      OBVIOUS
    <3>1. m \in Datagrams /\ m.of \in Stations /\ m.number <= sent[m.of]
      BY ComingType DEF OrderInv, Ordered, Within
    <3>2. m.number \in 1 .. MaxMessages
      BY <2>1, <3>1, DatagramAssumption DEF Datagrams
    <3> QED BY <3>1, <3>2 DEF Datagrams, Messages
  <2>3. ASSUME NEW q \in Seq(Datagrams), Range(q) \subseteq Messages
        PROVE  q \in Seq(Messages)
    BY <2>3 DEF Range
  <2>4. fifo \in Seq(Messages) /\ hand \in Seq(Messages)
    BY <2>2, <2>3 DEF Types, Coming, Held, Kept
  <2> QED BY <2>1, <2>4 DEF Types, Bounded, TypeOK
<1> QED BY <1>1, <1>2, BoundedStep, TypesCorrect, OrderCorrect, PTL DEF Spec

\* A message is handed over once, and none after a later one, unless the base has
\* restarted or takes two stations for one (ReliableDatagram.OnceInOrder).
THEOREM HandedOverOnce == Spec => []OnceInOrder
<1>1. Init => OnceInOrder
  BY DEF Init, OnceInOrder
<1>2. Types /\ OrderInv /\ OnceInOrder /\ [Next]_vars => OnceInOrder'
  <2> SUFFICES ASSUME Types, OrderInv, OnceInOrder, [Next]_vars
               PROVE  OnceInOrder'
    OBVIOUS
  <2> SUFFICES ASSUME NEW s \in repeated', restarts'[Base] = 0, Alike(s)' = {s}
               PROVE  FALSE
    <3>1. restarts'[Base] \in Nat
      BY TypesStep DEF Types, Base
    <3> QED BY <3>1 DEF OnceInOrder
  <2>1. s \in Stations /\ Sole(s)
    <3>1. s \in Stations
      BY TypesStep DEF Types
    <3> QED BY <3>1, Lasting DEF Sole
  <2>2. s \notin repeated
    BY <2>1 DEF OnceInOrder, Sole, Types
  <2>3. HandOver
    BY <2>2 DEF Next, TimeoutEnds, Send, Retransmit, GiveUp, RestartStation,
                Acknowledge, RestartBase, CalmDown, base, vars
  <2>4. PICK m \in Datagrams :
          Held = {m} /\ IsNews(m) /\ m.number <= latest[m.of] /\ s = m.of
    BY <2>2, <2>3, LookingUp
  <2>5. m \in Coming /\ m.number \in Nat /\ latest[s] \in Nat /\ latest[s] <= m.number
    BY <2>1, <2>4, ComingType DEF OrderInv, Ordered, Within, Types
  <2>6. m.number = latest[s]
    BY <2>4, <2>5
  <2> QED BY <2>1, <2>4, <2>5, <2>6 DEF OrderInv, Known, IsNews
<1> QED BY <1>1, <1>2, TypesCorrect, OrderCorrect, PTL DEF Spec

-----------------------------------------------------------------------------
\* The numbers of a station that has not restarted go on counting.
LEMMA CountedStep ==
  ASSUME Types, Counted, [Next]_vars
  PROVE  Counted'
<1> SUFFICES ASSUME NEW t \in Stations, restarts'[t] = 0
             PROVE  /\ seq'[t] = sent'[t] % Ids
                    /\ \A m \in Coming' : m.of = t => m.id = m.number % Ids
                    /\ Sole(t)' => seen'[Address(t)] = latest'[t] % Ids
  <2>1. \A t \in Stations : Address(t)' = Address(t)
    BY Lasting
  <2> QED BY <2>1 DEF Counted
<1>1. /\ seq[t] = sent[t] % Ids
      /\ \A m \in Coming : m.of = t => m.id = m.number % Ids
      /\ Sole(t) => seen[Address(t)] = latest[t] % Ids
      /\ Sole(t)' => Sole(t) /\ ~RestartBase
      /\ sent[t] \in Nat
  BY Lasting DEF Counted, Types
<1>2. CASE \E s \in Stations : Send(s) \/ Retransmit(s)
  <2>1. PICK s \in Stations : Send(s) \/ Retransmit(s)
    BY <1>2
  <2> DEFINE m == Message(s)'
  <2>2. /\ m \in Datagrams /\ m.of = s /\ m.number = sent'[s] /\ m.id = seq'[s]
        /\ Transmit(m)
        /\ \A r \in Stations \ {s} : sent'[r] = sent[r] /\ seq'[r] = seq[r]
        /\ Send(s) => sent'[s] = sent[s] + 1
        /\ Retransmit(s) => sent' = sent /\ seq' = seq
    BY <2>1, Sending
  <2>3. hand' = hand /\ latest' = latest /\ seen' = seen
    BY <2>1 DEF Send, Retransmit
  <2>4. Send(s) => seq'[s] = (seq[s] + 1) % Ids
    BY DEF Send, NextId, Types
  <2> HIDE DEF m
  <2>5. Coming' \subseteq Coming \cup {m}
    BY <2>2, <2>3, Transmission DEF Coming, Held
  <2>6. seq'[t] = sent'[t] % Ids
    <3>1. CASE t = s /\ Send(s)
      BY <1>1, <2>2, <2>4, <3>1, NextCount
    <3>2. CASE t # s \/ Retransmit(s)
      BY <1>1, <2>2, <3>2
    <3> QED BY <2>1, <3>1, <3>2
  <2> QED BY <1>1, <2>2, <2>3, <2>5, <2>6
<1>3. CASE Acknowledge
  <2>1. Coming' = Coming
    BY <1>3, Taking
  <2>2. sent' = sent /\ seq' = seq /\ seen' = seen /\ latest' = latest
    BY <1>3 DEF Acknowledge
  <2> QED BY <1>1, <2>1, <2>2
<1>4. CASE HandOver
  <2>1. PICK m \in Datagrams :
          /\ Held = {m}
          /\ IF IsNews(m)
             THEN /\ seen' = [seen EXCEPT ![Address(m.of)] = m.id]
                  /\ latest' = [latest EXCEPT ![m.of] = m.number]
             ELSE UNCHANGED <<seen, latest>>
    BY <1>4, LookingUp
  <2>2. /\ sent' = sent /\ seq' = seq
        /\ Coming' \subseteq Coming /\ m \in Coming
        /\ m.of \in Stations /\ Address(m.of) \in Stations \cup {Everybody}
        /\ Address(t) \in Stations \cup {Everybody}
    BY <1>4, <2>1, LookingUp, ComingType, Addresses DEF HandOver, station
  <2>3. ASSUME Sole(t) PROVE seen'[Address(t)] = latest'[t] % Ids
    <3>1. CASE ~IsNews(m)
      BY <1>1, <2>1, <2>3, <3>1
    <3>2. CASE IsNews(m) /\ m.of = t
      <4>1. latest'[t] = m.number /\ seen'[Address(t)] = m.id
        BY <2>1, <2>2, <3>2 DEF Types
      <4> QED BY <1>1, <2>2, <3>2, <4>1
    <3>3. CASE IsNews(m) /\ m.of # t
      <4>1. Address(m.of) # Address(t)
        BY <2>2, <2>3, <3>3 DEF Sole, Alike
      <4>2. latest'[t] = latest[t] /\ seen'[Address(t)] = seen[Address(t)]
        BY <2>1, <2>2, <3>3, <4>1 DEF Types
      <4> QED BY <1>1, <2>3, <4>2
    <3> QED BY <3>1, <3>2, <3>3
  <2> QED BY <1>1, <2>2, <2>3
<1>5. CASE RestartBase
  <2>1. sent' = sent /\ seq' = seq
    BY <1>5 DEF RestartBase, station
  <2> QED BY <1>1, <1>5, <2>1, NothingComes
<1>6. CASE CalmDown \/ UNCHANGED vars \/ \E s \in Stations : GiveUp(s) \/ RestartStation(s)
  <2>1. hand' = hand /\ fifo' = fifo /\ sent' = sent /\ latest' = latest /\ seen' = seen
    BY <1>6 DEF CalmDown, GiveUp, RestartStation, station, base, vars
  <2>2. seq'[t] = seq[t]
    <3>1. ASSUME NEW s \in Stations, RestartStation(s) PROVE s # t
      BY <3>1 DEF RestartStation, Fails, Types
    <3> QED BY <1>6, <3>1 DEF CalmDown, GiveUp, RestartStation, station, vars, Types
  <2>3. Coming' = Coming
    BY <2>1 DEF Coming, Held, Kept
  <2> QED BY <1>1, <2>1, <2>2, <2>3
<1> QED BY <1>2, <1>3, <1>4, <1>5, <1>6 DEF Next, TimeoutEnds

\* The base is known to have handed over the last message of a station.
LEMMA RecordedStep ==
  ASSUME Types, Ordered, Recorded, [Next]_vars
  PROVE  Recorded'
<1> SUFFICES ASSUME NEW t \in Stations, sent'[t] > 0, latest'[t] = sent'[t]
             PROVE  t \in got'
  BY DEF Recorded
<1>1. /\ sent[t] > 0 /\ latest[t] = sent[t] => t \in got
      /\ latest[t] <= sent[t] /\ sent[t] \in Nat /\ latest[t] \in Nat
  BY DEF Recorded, Ordered, Within, Types
<1>2. ASSUME NEW s \in Stations, Send(s) PROVE t \in got'
  <2>1. latest'[t] = latest[t] /\ s = t => sent'[t] = sent[t] + 1
    BY <1>2 DEF Send, Types
  <2>2. s # t
    BY <1>1, <1>2, <2>1 DEF Send
  <2> QED BY <1>1, <1>2, <2>2 DEF Send, Types
<1>3. CASE HandOver
  <2>1. PICK m \in Datagrams :
          IF IsNews(m)
          THEN /\ latest' = [latest EXCEPT ![m.of] = m.number]
               /\ got' = IF m.number = sent[m.of] THEN got \cup {m.of} ELSE got
          ELSE UNCHANGED <<latest, got>>
    BY <1>3, LookingUp
  <2>2. sent' = sent
    BY <1>3 DEF HandOver, station
  <2> QED BY <1>1, <2>1, <2>2 DEF Types, Datagrams
<1>4. CASE \/ Acknowledge \/ RestartBase \/ CalmDown \/ UNCHANGED vars
           \/ \E s \in Stations : Retransmit(s) \/ GiveUp(s) \/ RestartStation(s)
  <2>1. sent' = sent /\ latest' = latest /\ got' = got
    BY <1>4 DEF Acknowledge, RestartBase, CalmDown, Retransmit, GiveUp, RestartStation,
                station, base, vars
  <2> QED BY <1>1, <2>1
<1> QED BY <1>2, <1>3, <1>4 DEF Next, TimeoutEnds

\* A station with an address is not taken for another.
LEMMA AddressedAlone ==
  ASSUME NEW s \in Stations, s \in assigned
  PROVE  Alike(s) = {s}
BY DatagramAssumption DEF Alike, Address

\* What is acknowledged is handed over, or next in order.
LEMMA DeliveredStep ==
  ASSUME Types, Ordered, Counted, Recorded, Delivered, [Next]_vars
  PROVE  Delivered'
<1> SUFFICES ASSUME NEW t \in assigned', result'[t] = "acked", restarts'[t] = 0,
                    restarts'[Base] = 0
             PROVE  t \in got' \/ t \in round' \/ Pending(t)'
  BY DEF Delivered
<1>1. /\ t \in assigned /\ t \in Stations /\ restarts[t] = 0 /\ restarts[Base] = 0
      /\ Address(t) = t
      /\ result[t] = "acked" => t \in got \/ t \in round \/ Pending(t)
  BY Lasting, Addresses DEF Delivered, Types
<1>2. /\ Sole(t) /\ ~RestartBase
      /\ seq[t] = sent[t] % Ids
      /\ \A m \in Coming : m.of = t => m.id = m.number % Ids
      /\ seen[t] = latest[t] % Ids
      /\ sent[t] \in Nat /\ latest[t] \in Nat
      /\ \A m \in Coming : m.of = t => latest[t] <= m.number /\ m.number <= sent[t]
      /\ sent[t] > 0 /\ latest[t] = sent[t] => t \in got
  <2>1. Sole(t)
    BY <1>1, AddressedAlone DEF Sole
  <2>2. ~RestartBase
    BY DEF RestartBase, Fails, Types
  <2> QED BY <1>1, <2>1, <2>2 DEF Counted, Ordered, Within, Recorded, Types
<1>3. ASSUME NEW s \in Stations, Send(s)
      PROVE  t \in got' \/ t \in round' \/ Pending(t)'
  <2>1. s # t /\ result[t] = "acked"
    BY <1>1, <1>3 DEF Send, Types
  <2>2. /\ sent'[t] = sent[t] /\ latest' = latest /\ hand' = hand
        /\ got' = got \ {s} /\ round' = round \ {s}
    BY <1>1, <1>3, <2>1 DEF Send, Types
  <2>3. Pending(t) => Pending(t)'
    BY <2>2 DEF Pending, Held
  <2> QED BY <1>1, <2>1, <2>2, <2>3
<1>4. CASE Acknowledge
  <2> DEFINE m == Head(fifo)
  <2>1. /\ m \in Datagrams /\ m \in Coming /\ Held' = {m} /\ Held = {}
        /\ m.of \in Stations /\ m.number \in Nat
    BY <1>4, Taking, ComingType
  <2>2. /\ sent' = sent /\ latest' = latest /\ got' = got /\ round \subseteq round'
    BY <1>4 DEF Acknowledge
  <2>3. CASE result[t] = "acked"
    <3>1. ~Pending(t)
      BY <2>1 DEF Pending
    <3> QED BY <1>1, <2>2, <2>3, <3>1
  <2>4. CASE result[t] # "acked"
    <3>1. /\ IsExpected(t, Address(m.of), m.id)
          /\ sent[t] - latest[t] >= Ids => t \in round'
      BY <1>1, <1>4, <2>4 DEF Acknowledge
    <3>2. m.of = t /\ m.id = seq[t]
      BY <1>1, <2>1, <3>1, Addresses DEF IsExpected
    <3> HIDE DEF m
    <3>3. CASE m.number < sent[t]
      <4>1. sent[t] - m.number >= Ids
        BY <1>2, <2>1, <3>2, <3>3, SameNumber
      <4>2. sent[t] - latest[t] >= Ids
        BY <1>2, <2>1, <3>2, <4>1, DatagramAssumption
      <4> QED BY <3>1, <4>2
    <3>4. CASE m.number = sent[t] /\ sent[t] - latest[t] < Ids
      BY <2>1, <2>2, <3>2, <3>4 DEF Pending
    <3>5. CASE m.number = sent[t] /\ sent[t] - latest[t] >= Ids
      BY <3>1, <3>5
    <3>6. m.number <= sent[t]
      BY <1>2, <2>1, <3>2
    <3> QED BY <1>2, <2>1, <3>3, <3>4, <3>5, <3>6, DatagramAssumption
  <2> QED BY <2>3, <2>4
<1>5. CASE HandOver
  <2>1. PICK m \in Datagrams :
          /\ Held = {m}
          /\ IF IsNews(m)
             THEN got' = IF m.number = sent[m.of] THEN got \cup {m.of} ELSE got
             ELSE UNCHANGED got
    BY <1>5, LookingUp
  <2>2. result[t] = "acked" /\ round' = round /\ got \subseteq got'
    BY <1>5, <2>1 DEF HandOver, station
  <2>3. CASE Pending(t)
    <3>1. /\ m.of = t /\ m.number = sent[t] /\ m \in Coming
          /\ sent[t] - latest[t] < Ids
          /\ m.number \in Nat \ {0}
      BY <2>1, <2>3, ComingType DEF Pending
    <3>2. CASE IsNews(m)
      BY <2>1, <3>1, <3>2
    <3>3. CASE ~IsNews(m)
      <4>1. m.number % Ids = latest[t] % Ids
        BY <1>1, <1>2, <3>1, <3>3 DEF IsNews
      <4>2. ~(latest[t] < sent[t])
        BY <1>2, <3>1, <4>1, SameNumber, DatagramAssumption
      <4>3. latest[t] = sent[t] /\ sent[t] > 0
        BY <1>2, <3>1, <4>2
      <4> QED BY <1>2, <2>2, <4>3
    <3> QED BY <3>2, <3>3
  <2> QED BY <1>1, <2>2, <2>3
<1>6. CASE \/ CalmDown \/ UNCHANGED vars
           \/ \E s \in Stations : Retransmit(s) \/ GiveUp(s) \/ RestartStation(s)
  <2>1. /\ sent' = sent /\ latest' = latest /\ got' = got /\ round' = round /\ hand' = hand
        /\ result[t] = "acked"
    <3>1. CASE CalmDown \/ UNCHANGED vars \/ \E s \in Stations : Retransmit(s)
      BY <3>1 DEF CalmDown, Retransmit, station, base, vars
    <3>2. CASE \E s \in Stations : GiveUp(s) \/ RestartStation(s)
      BY <1>1, <3>2 DEF GiveUp, RestartStation, base, Types
    <3> QED BY <1>6, <3>1, <3>2
  <2>2. Pending(t) => Pending(t)'
    BY <2>1 DEF Pending, Held
  <2> QED BY <1>1, <2>1, <2>2
<1> QED BY <1>2, <1>3, <1>4, <1>5, <1>6 DEF Next, TimeoutEnds

\* What was acknowledged has been handed over or is about to be, unless power failed
\* or the numbers came round (ReliableDatagram.AckedIsDelivered).
THEOREM AcknowledgedArrives == Spec => []AckedIsDelivered
<1>1. Init => DeliveryInv
  <2> SUFFICES ASSUME Init PROVE DeliveryInv
    OBVIOUS
  <2>1. Coming = {}
    <3>1. hand = <<>> /\ fifo = <<>>
      BY DEF Init
    <3> QED BY <3>1 DEF Held, Kept, Coming, Range
  <2>2. 0 % Ids = 0
    BY DatagramAssumption
  <2>3. Counted
    BY <2>1, <2>2, Addresses DEF Init, Counted
  <2>4. Recorded /\ Delivered
    BY DEF Init, Recorded, Delivered
  <2> QED BY <2>3, <2>4 DEF DeliveryInv
<1>2. Types /\ OrderInv /\ DeliveryInv /\ [Next]_vars => DeliveryInv'
  BY CountedStep, RecordedStep, DeliveredStep DEF OrderInv, DeliveryInv
<1>3. Types /\ NeverTold /\ DeliveryInv => AckedIsDelivered
  <2> SUFFICES ASSUME Types, NeverTold, DeliveryInv, NEW s \in Stations,
                      result[s] = "acked", restarts[s] = 0, restarts[Base] = 0,
                      s \notin got, s \notin round
               PROVE  hand # <<>> /\ hand[1].of = s /\ hand[1].number = sent[s]
    BY DEF AckedIsDelivered, Types
  <2>1. Pending(s)
    BY DEF NeverTold, DeliveryInv, Delivered
  <2>2. PICK m \in Range(hand) : m.of = s /\ m.number = sent[s]
    BY <2>1 DEF Pending, Held
  <2>3. PICK i \in DOMAIN hand : m = hand[i]
    BY <2>2 DEF Range
  <2>4. i = 1 /\ hand # <<>>
    BY <2>3 DEF Types
  <2> QED BY <2>2, <2>3, <2>4
<1> QED BY <1>1, <1>2, <1>3, TypesCorrect, OrderCorrect, NotToldWithoutAddress, PTL
        DEF Spec

-----------------------------------------------------------------------------
\* Once the air is calm a station's message is with the base when no retry is left.
LEMMA CalmStep ==
  ASSUME Types, CalmInv, [Next]_vars
  PROVE  CalmInv'
<1> USE DatagramAssumption
<1> SUFFICES ASSUME NEW t \in assigned', begun'[t] = "calm"
             PROVE  /\ air' = "calm"
                    /\ result'[t] # "gaveUp"
                    /\ phase'[t] = "waiting" =>
                         \/ tries'[t] < Retries
                         \/ \E m \in Kept' : m.of = t /\ m.id = seq'[t]
  BY DEF CalmInv
<1>1. /\ t \in assigned /\ t \in Stations
      /\ begun[t] = "calm" =>
           /\ air = "calm"
           /\ result[t] # "gaveUp"
           /\ phase[t] = "waiting" =>
                \/ tries[t] < Retries
                \/ \E m \in Kept : m.of = t /\ m.id = seq[t]
  BY Lasting DEF CalmInv, Types
<1>2. CASE \E s \in Stations : Send(s) \/ Retransmit(s)
  <2>1. PICK s \in Stations : Send(s) \/ Retransmit(s)
    BY <1>2
  <2>2. /\ Message(s)' \in Datagrams /\ Message(s)'.of = s /\ Message(s)'.id = seq'[s]
        /\ Transmit(Message(s)')
        /\ \A r \in Stations \ {s} : seq'[r] = seq[r]
    BY <2>1, Sending
  <2>3. /\ Kept \subseteq Kept'
        /\ air = "calm" /\ Len(fifo) < FifoSize => Message(s)' \in Kept'
    BY <2>2, Transmission
  <2>4. CASE t # s
    <3>1. /\ phase'[t] = phase[t] /\ result'[t] = result[t] /\ tries'[t] = tries[t]
          /\ begun'[t] = begun[t] /\ air' = air
      BY <1>1, <2>1, <2>4 DEF Send, Retransmit, Types
    <3> QED BY <1>1, <2>2, <2>3, <2>4, <3>1
  <2>5. CASE t = s /\ Send(s)
    BY <1>1, <2>5 DEF Send, Types
  <2>6. CASE t = s /\ Retransmit(s)
    <3>1. /\ air = "calm" /\ air' = air /\ result' = result /\ result[t] # "gaveUp"
          /\ fifo = <<>>
      BY <1>1, <2>6 DEF Retransmit, TimedOut
    <3>2. Len(fifo) < FifoSize
      BY <3>1
    <3> QED BY <2>2, <2>3, <2>6, <3>1, <3>2
  <2> QED BY <2>1, <2>4, <2>5, <2>6
<1>3. ASSUME NEW s \in Stations, GiveUp(s)
      PROVE  /\ air' = "calm"
             /\ result'[t] # "gaveUp"
             /\ phase'[t] = "waiting" =>
                  \/ tries'[t] < Retries
                  \/ \E m \in Kept' : m.of = t /\ m.id = seq'[t]
  <2>1. /\ air' = air /\ begun' = begun /\ fifo' = fifo /\ tries' = tries /\ seq' = seq
        /\ air = "calm"
    BY <1>1, <1>3 DEF GiveUp, base
  <2>2. fifo = <<>> /\ phase[s] = "waiting" /\ tries[s] = Retries
    BY <1>3, <2>1 DEF GiveUp, TimedOut
  <2>3. Kept = {}
    BY <2>2 DEF Kept, Range
  <2>4. s # t
    BY <1>1, <2>1, <2>2, <2>3
  <2>5. phase'[t] = phase[t] /\ result'[t] = result[t]
    BY <1>1, <1>3, <2>4 DEF GiveUp, Types
  <2> QED BY <1>1, <2>1, <2>3, <2>5
<1>4. CASE Acknowledge
  <2> DEFINE m == Head(fifo)
  <2>1. Kept = {m} \cup Kept'
    BY <1>4, Taking
  <2>2. /\ air' = air /\ begun' = begun /\ tries' = tries /\ seq' = seq
        /\ air = "calm" /\ result[t] # "gaveUp"
        /\ result'[t] \in {result[t], "acked"}
        /\ phase'[t] = "waiting" => phase[t] = "waiting"
    BY <1>1, <1>4 DEF Acknowledge
  <2>3. m.of = t /\ m.id = seq[t] /\ phase[t] = "waiting" => phase'[t] = "idle"
    <3>1. m.of = t => t \in Hearing(m) /\ Address(m.of) = t
      BY <1>1, Addresses DEF Hearing
    <3> QED BY <1>1, <1>4, <2>2, <3>1 DEF Acknowledge, IsExpected
  <2> QED BY <1>1, <2>1, <2>2, <2>3
<1>5. CASE \E s \in Stations : RestartStation(s)
  <2>1. air = "noisy" /\ begun' = begun
    BY <1>5 DEF RestartStation, Fails
  <2> QED BY <1>1, <2>1
<1>6. CASE RestartBase
  <2>1. air = "noisy" /\ begun' = begun
    BY <1>6 DEF RestartBase, Fails, station
  <2> QED BY <1>1, <2>1
<1>7. CASE CalmDown
  <2>1. air = "noisy" /\ begun' = begun
    BY <1>7 DEF CalmDown, station
  <2> QED BY <1>1, <2>1
<1>8. CASE HandOver \/ UNCHANGED vars
  <2>1. /\ UNCHANGED <<fifo, air, begun, result, phase, tries, seq>>
    BY <1>8 DEF HandOver, station, base, vars
  <2> QED BY <1>1, <2>1 DEF Kept
<1> QED BY <1>2, <1>3, <1>4, <1>5, <1>6, <1>7, <1>8 DEF Next, TimeoutEnds

\* A station with an address that sends in calm air is told, also when the base takes
\* its message for one it has seen (ReliableDatagram.CalmIsAcked).
THEOREM CalmIsTold == Spec => []CalmIsAcked
<1>1. Init => CalmInv
  BY DEF Init, CalmInv, Types
<1>2. Types /\ CalmInv => CalmIsAcked
  BY DEF CalmInv, CalmIsAcked
<1> QED BY <1>1, <1>2, CalmStep, TypesCorrect, PTL DEF Spec
=============================================================================
