-------------------------- MODULE ReliableDatagram --------------------------
(***************************************************************************)
(* Acknowledged datagrams from the home monitors to their base station:     *)
(* sendtoWait() numbers a message, sends it until it is acknowledged or the *)
(* retries are exhausted; recvfromAck() acknowledges what it takes from the *)
(* radio and hands it over unless its number is that of the last one.       *)
(*                                                                         *)
(* A station may have initialised the datagram manager, which gives the     *)
(* radio its address, or, as the home monitor does, only the radio: then it *)
(* sends from the address of everybody.  Stations and the base lose power,  *)
(* and with it all they know; the air loses what it likes until it calms.   *)
(***************************************************************************)
EXTENDS Naturals, Sequences, Functions

CONSTANTS
  Stations,      \* the addresses of the home monitors
  Everybody,     \* RH_BROADCAST_ADDRESS, which a radio has that was given none
  Ids,           \* the numbers there are: 2^8
  Retries,       \* _retries
  FifoSize,      \* the messages the base's radio keeps
  MaxMessages,   \* bound: calls of sendtoWait(), by all stations
  MaxRestarts    \* bound: power failures

ASSUME DatagramAssumption ==
  /\ Everybody \notin Stations
  /\ Ids \in Nat \ {0, 1}
  /\ {Retries, FifoSize} \subseteq Nat \ {0}
  /\ {MaxMessages, MaxRestarts} \subseteq Nat

VARIABLES
  assigned,    \* the stations whose radio has its address
  phase,       \* of each station: "idle", or "waiting" within sendtoWait()
  seq,         \* its _lastSequenceNumber
  tries,       \* its transmissions of the message, less one
  result,      \* what its last sendtoWait() returned
  fifo,        \* the messages the base's radio keeps
  hand,        \* the message recvfromAck() has acknowledged, if any
  seen,        \* the base's _seenIds
  air,         \* "noisy" until it becomes "calm"
  restarts,    \* past: how often each station, or the base, has restarted
  failures,    \* past: how often power has failed
  calls,       \* past: how often sendtoWait() was called
  sent,        \* past: how many messages each station has sent
  begun,       \* past: the air when it began to send the last one
  latest,      \* past: its message that was handed over last
  got,         \* past: the stations whose last message was handed over
  round,       \* past: those told when their numbers had come round since the latest
  repeated     \* past: the stations of which a message was handed over that was no news

station == <<phase, seq, tries, result, sent, begun, round, calls>>
base    == <<fifo, hand, seen, latest, got, repeated>>
power   == <<restarts, failures>>
vars    == <<assigned, station, base, air, power>>

Base == "base"
Address(s) == IF s \in assigned THEN s ELSE Everybody
Numbers == 0 .. (Ids - 1)
Messages == [of : Stations, number : 1 .. MaxMessages, id : Numbers]

TypeOK ==
  /\ assigned \subseteq Stations
  /\ phase \in [Stations -> {"idle", "waiting"}]
  /\ seq \in [Stations -> Numbers]
  /\ tries \in [Stations -> 0 .. Retries]
  /\ result \in [Stations -> {"none", "acked", "gaveUp"}]
  /\ fifo \in Seq(Messages) /\ Len(fifo) <= FifoSize
  /\ hand \in Seq(Messages) /\ Len(hand) <= 1
  /\ seen \in [Stations \cup {Everybody} -> Numbers]
  /\ air \in {"noisy", "calm"}
  /\ restarts \in [Stations \cup {Base} -> Nat]
  /\ failures \in 0 .. MaxRestarts
  /\ calls \in 0 .. MaxMessages
  /\ sent \in [Stations -> 0 .. MaxMessages]
  /\ begun \in [Stations -> {"noisy", "calm"}]
  /\ latest \in [Stations -> 0 .. MaxMessages]
  /\ got \subseteq Stations
  /\ round \subseteq Stations
  /\ repeated \subseteq Stations

Init ==
  /\ assigned \in SUBSET Stations
  /\ phase = [s \in Stations |-> "idle"]
  /\ seq = [s \in Stations |-> 0]
  /\ tries = [s \in Stations |-> 0]
  /\ result = [s \in Stations |-> "none"]
  /\ fifo = <<>>
  /\ hand = <<>>
  /\ seen = [a \in Stations \cup {Everybody} |-> 0]
  /\ air = "noisy"
  /\ restarts = [n \in Stations \cup {Base} |-> 0]
  /\ failures = 0
  /\ calls = 0
  /\ sent = [s \in Stations |-> 0]
  /\ begun = [s \in Stations |-> "noisy"]
  /\ latest = [s \in Stations |-> 0]
  /\ got = {}
  /\ round = {}
  /\ repeated = {}

-----------------------------------------------------------------------------
(* sendtoWait().                                                            *)

\* What is sent reaches the base's radio, if that has room and the air allows.
Transmit(m) ==
  \/ Len(fifo) < FifoSize /\ fifo' = Append(fifo, m)
  \/ (air = "noisy" \/ Len(fifo) = FifoSize) /\ UNCHANGED fifo

\* Mutant: the number has more than eight bits.
NextId_Wide(s) == seq[s] + 1
NextId(s) == (seq[s] + 1) % Ids

\* The sketch calls sendtoWait() when it likes, but not within sendtoWait().
MayCall(s) == phase[s] = "idle" /\ calls < MaxMessages

\* The reading is built into a message, and numbered.
Send(s) ==
  /\ MayCall(s)
  /\ calls' = calls + 1
  /\ phase' = [phase EXCEPT ![s] = "waiting"]
  /\ seq' = [seq EXCEPT ![s] = NextId(s)]
  /\ tries' = [tries EXCEPT ![s] = 0]
  /\ result' = [result EXCEPT ![s] = "none"]
  /\ sent' = [sent EXCEPT ![s] = @ + 1]
  /\ begun' = [begun EXCEPT ![s] = air]
  /\ got' = got \ {s}
  /\ round' = round \ {s}
  /\ Transmit([of |-> s, number |-> sent'[s], id |-> seq'[s]])
  /\ UNCHANGED <<assigned, hand, seen, air, power, latest, repeated>>

\* The timeout is over.  In calm air the base, which does nothing else, has answered
\* before.
TimedOut(s) ==
  /\ phase[s] = "waiting"
  /\ air = "calm" => fifo = <<>> /\ hand = <<>>

Retransmit(s) ==
  /\ TimedOut(s)
  /\ tries[s] < Retries
  /\ tries' = [tries EXCEPT ![s] = @ + 1]
  /\ Transmit([of |-> s, number |-> sent[s], id |-> seq[s]])
  /\ UNCHANGED <<assigned, phase, seq, result, sent, begun, round, calls, hand, seen,
                 air, power, latest, got, repeated>>

GiveUp(s) ==
  /\ TimedOut(s)
  /\ tries[s] = Retries
  /\ phase' = [phase EXCEPT ![s] = "idle"]
  /\ result' = [result EXCEPT ![s] = "gaveUp"]
  /\ UNCHANGED <<assigned, seq, tries, sent, begun, round, calls, base, air, power>>

-----------------------------------------------------------------------------
(* recvfromAck() at the base.                                               *)

\* A station that waits takes the acknowledgement that is for its address and its
\* number, and discards any other.  One that comes too late is discarded within
\* the next sendtoWait(), which waits for another number.
\* Mutants: the number, or the address, is not looked at.
IsExpected_AnyId(s, to, id) == to = s
IsExpected_AnyAddress(s, to, id) == id = seq[s]
IsExpected(s, to, id) == to = s /\ id = seq[s]

\* Mutant: what has been seen is handed over again.
IsNews_Always(m) == TRUE
IsNews(m) == m.id # seen[Address(m.of)]

\* The acknowledgement goes to the address the message came from: these radios let
\* it through.  Mutant: what has been seen is not acknowledged again.
Hearing_OfNews(m) ==
  { s \in Stations : IsNews(m) /\ Address(m.of) \in {Everybody, Address(s)} }
Hearing(m) == { s \in Stations : Address(m.of) \in {Everybody, Address(s)} }

Acknowledge ==
  /\ hand = <<>>
  /\ fifo # <<>>
  /\ hand' = <<Head(fifo)>>
  /\ fifo' = Tail(fifo)
  /\ \E heard \in SUBSET Hearing(Head(fifo)) :
       LET m == Head(fifo)
           told == { s \in heard :
                       phase[s] = "waiting" /\ IsExpected(s, Address(m.of), m.id) }
       IN /\ air = "calm" => heard = Hearing(m)
          /\ phase' = [s \in Stations |-> IF s \in told THEN "idle" ELSE phase[s]]
          /\ result' = [s \in Stations |-> IF s \in told THEN "acked" ELSE result[s]]
          /\ round' = round \cup { s \in told : sent[s] - latest[s] >= Ids }
  /\ UNCHANGED <<assigned, seq, tries, sent, begun, calls, seen, air, power, latest, got,
                 repeated>>

HandOver ==
  \E m \in Range(hand) :
    /\ hand' = <<>>
    /\ IF IsNews(m)
       THEN /\ seen' = [seen EXCEPT ![Address(m.of)] = m.id]
            /\ latest' = [latest EXCEPT ![m.of] = m.number]
            /\ got' = IF m.number = sent[m.of] THEN got \cup {m.of} ELSE got
            /\ repeated' = IF m.number <= latest[m.of] THEN repeated \cup {m.of} ELSE repeated
       ELSE UNCHANGED <<seen, latest, got, repeated>>
    /\ UNCHANGED <<assigned, station, fifo, air, power>>

-----------------------------------------------------------------------------
(* Power and air.                                                           *)

Fails(n) ==
  /\ air = "noisy"
  /\ failures < MaxRestarts
  /\ failures' = failures + 1
  /\ restarts' = [restarts EXCEPT ![n] = @ + 1]

RestartStation(s) ==
  /\ Fails(s)
  /\ phase' = [phase EXCEPT ![s] = "idle"]
  /\ seq' = [seq EXCEPT ![s] = 0]
  /\ tries' = [tries EXCEPT ![s] = 0]
  /\ result' = [result EXCEPT ![s] = "none"]
  /\ UNCHANGED <<assigned, sent, begun, round, calls, base, air>>

RestartBase ==
  /\ Fails(Base)
  /\ fifo' = <<>>
  /\ hand' = <<>>
  /\ seen' = [a \in Stations \cup {Everybody} |-> 0]
  /\ UNCHANGED <<assigned, station, air, latest, got, repeated>>

CalmDown ==
  /\ air = "noisy"
  /\ air' = "calm"
  /\ UNCHANGED <<assigned, station, base, power>>

TimeoutEnds(s) == Retransmit(s) \/ GiveUp(s)

Next ==
  \/ \E s \in Stations : Send(s) \/ TimeoutEnds(s) \/ RestartStation(s)
  \/ Acknowledge \/ HandOver \/ RestartBase \/ CalmDown

Spec == Init /\ [][Next]_vars

-----------------------------------------------------------------------------
\* The stations that the base takes for s: those without an address are one to it.
Alike(s) == { t \in Stations : Address(t) = Address(s) }

\* A station whose radio has no address is never told that a message arrived: the
\* acknowledgement is not for the address that sendtoWait() compares it with.
NeverTold == \A s \in Stations \ assigned : result[s] # "acked"

\* What was acknowledged has been handed over, or is about to be.  It may not be if
\* power failed, or if so many messages before it were lost that the numbers have
\* come round to that of the last one that was not.
AckedIsDelivered ==
  \A s \in Stations :
    result[s] = "acked" =>
      \/ s \in got
      \/ hand # <<>> /\ hand[1].of = s /\ hand[1].number = sent[s]
      \/ restarts[s] > 0
      \/ restarts[Base] > 0
      \/ s \in round

\* A message is handed over once, and none after a later one, unless the base
\* forgot or mistook what it had seen.
OnceInOrder ==
  \A s \in repeated : restarts[Base] > 0 \/ Alike(s) # {s}

\* In calm air sendtoWait() is told at once, also when the base takes the message
\* for one it has seen.
CalmIsAcked ==
  \A s \in assigned : begun[s] = "calm" => result[s] # "gaveUp"
=============================================================================
