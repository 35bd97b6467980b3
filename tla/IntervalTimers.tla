--------------------------- MODULE IntervalTimers ---------------------------
(***************************************************************************)
(* The two boards that wait for an interval by their millisecond clock.     *)
(* The heat pump controller publishes the room temperature: its loop()      *)
(* compares the clock with the sum of the last sending and the interval.    *)
(* The WeMos DHT server reads its sensor for a request: it compares the     *)
(* difference of two readings with the interval.  Sum and clock wrap at     *)
(* different moments, a difference does not.                                *)
(***************************************************************************)
EXTENDS WrappingClock

CONSTANTS
  Interval,   \* SEND_ROOM_TEMP_INTERVAL_MS, interval
  MaxStep,    \* the longest time between two steps of the board
  MaxTime     \* bound: the last moment looked at

ASSUME TimerAssumption ==
  /\ Interval \in 1 .. (Wrap - 1)
  /\ MaxStep \in Nat
  /\ MaxTime \in Nat

VARIABLES
  board,     \* the "controller" or the "server"
  pc,        \* the controller "tests" the interval or "sends"; the server is in
             \* "setup" until it is connected, then it tests
  now,       \* the moment
  last,      \* lastTempSend, previousMillis: the reading of the clock stored
  done,      \* past: the moment of that reading
  text,      \* str_temperature and str_humidity: the moment they were written
  failed,    \* past: did the sensor fail when it was last read
  answered   \* past: the moment the server answered last

vars == <<board, pc, now, last, done, text, failed, answered>>

\* The strings are empty, no answer was given.
Never == -1

TypeOK ==
  /\ board \in {"controller", "server"}
  /\ pc \in {"setup", "tests", "sends"}
  /\ now \in Nat
  /\ last \in Readings
  /\ done \in Nat
  /\ text \in Nat \cup {Never}
  /\ failed \in BOOLEAN
  /\ answered \in Nat \cup {Never}

\* The controller's setup() stores the clock.  The server starts with a zero,
\* which is no reading of the sensor, and with empty strings.
Init ==
  /\ \/ board = "controller" /\ pc = "tests" /\ now \in 0 .. MaxStep
     \/ board = "server" /\ pc = "setup" /\ now = 0
  /\ last = Reading(now)
  /\ done = now
  /\ text = Never
  /\ failed = FALSE
  /\ answered = Never

\* Connecting, serving and publishing take time, and so do the users.
Pass ==
  /\ \E d \in 1 .. MaxStep : now' = now + d
  /\ now' <= MaxTime
  /\ UNCHANGED <<board, pc, last, done, text, failed, answered>>

Stamp == Reading(now)

-----------------------------------------------------------------------------
(* The controller.                                                          *)

\* A test that forgets the interval, and one that is late by one.
SumDue_NoInterval == Reading(now) > last
SumDue_Late == Reading(now) > Plus(last, Interval + 1)
SumDue == Reading(now) > Plus(last, Interval)

\* A loop() that is not due changes nothing.
Test ==
  /\ board = "controller"
  /\ pc = "tests"
  /\ SumDue
  /\ pc' = "sends"
  /\ UNCHANGED <<board, now, last, done, text, failed, answered>>

\* hpStatusChanged() has published, and the clock is read again.
Send ==
  /\ pc = "sends"
  /\ pc' = "tests"
  /\ last' = Stamp
  /\ done' = now
  /\ UNCHANGED <<board, now, text, failed, answered>>

-----------------------------------------------------------------------------
(* The server.                                                              *)

\* A test for more than the interval, and one by the sum.
DifferenceDue_Late == Since(Reading(now), last) > Interval
DifferenceDue_Sum == Reading(now) >= Plus(last, Interval)
DifferenceDue == Since(Reading(now), last) >= Interval

\* A sensor that answers rewrites the strings; after a failure they stay as they
\* were, and previousMillis is set all the same.
Measure ==
  /\ last' = Stamp
  /\ done' = now
  /\ \/ text' = now /\ failed' = FALSE
     \/ text' = text /\ failed' = TRUE

\* read_sensor().
ReadSensor ==
  \/ DifferenceDue /\ Measure
  \/ ~DifferenceDue /\ UNCHANGED <<last, done, text, failed>>

\* The rest of setup(), once the board is connected: the initial read.
Start ==
  /\ pc = "setup"
  /\ ReadSensor
  /\ pc' = "tests"
  /\ UNCHANGED <<board, now, answered>>

\* A request reads, then answers with what the strings hold.
Request ==
  /\ board = "server"
  /\ pc = "tests"
  /\ ReadSensor
  /\ answered' = now
  /\ UNCHANGED <<board, pc, now>>

Next == Pass \/ Test \/ Send \/ Start \/ Request

Spec == Init /\ [][Next]_vars

-----------------------------------------------------------------------------
Testing == board = "controller" /\ pc = "tests"

\* The comment on line 268: the temperature is sent every interval only.
OnlyEveryInterval == Testing /\ SumDue => now - done > Interval

\* A sending comes early only when the sum of the last one and the interval
\* has wrapped and the clock has not.
EarlyOnlyAtWrap ==
  Testing /\ SumDue /\ now - done <= Interval =>
    /\ last + Interval >= Wrap
    /\ now \div Wrap = done \div Wrap

\* A sending is overdue only when the clock has wrapped since the last one.
LateOnlyAtWrap ==
  Testing /\ ~SumDue /\ now - done > Interval => now \div Wrap > done \div Wrap

\* The room temperature is sent early or late only where the sum and the clock
\* wrap at different moments.
OnTimeButAtWrap == EarlyOnlyAtWrap /\ LateOnlyAtWrap

\* The comment on line 45: at least the interval passes between readings of
\* the sensor, and from the start to the first one, failed ones included, across
\* the wrap of the clock too.
Spaced ==
  [][board = "server" /\ done' # done => done' - done >= Interval]_vars

\* An answer shows what the sensor said less than an interval ago, with these
\* exceptions.  The sensor was read within the interval and failed: then the
\* strings are those of the last success, however old, or empty.  The board has
\* not run for an interval: then they are empty.  The last reading is so old that
\* the clock has come round to it: then it is not repeated.
AnswerIsRecent ==
  board = "server" /\ answered = now =>
    \/ text # Never /\ now - text < Interval
    \/ failed /\ now - done < Interval
    \/ text = Never /\ now < Interval
    \/ now - done >= Wrap
=============================================================================
