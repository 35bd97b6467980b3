---------------------------- MODULE Timing_proofs ----------------------------
(***************************************************************************)
(* Proofs about the boards that wait or count: the interval timers, for     *)
(* every clock, interval and pace; the throttle of the reports, for any     *)
(* channels and values; and the ESPHome garage, for any doors and delay.    *)
(* They share nothing but this module.                                      *)
(***************************************************************************)
EXTENDS IntervalTimers, ReportThrottle, EsphomeGarage, TLAPS

\* The clock shows a reading.
LEMMA ReadingType ==
  ASSUME NEW t \in Nat
  PROVE  Reading(t) \in Readings
BY WrapAssumption, SMT DEF Reading, Readings

\* The difference of two readings never exceeds the time that has passed.
LEMMA SinceNeverMore ==
  ASSUME NEW a \in Nat, NEW b \in Nat, b <= a
  PROVE  Since(Reading(a), Reading(b)) <= a - b
BY WrapAssumption, SMT DEF Since, Reading

\* Two moments with the same quotient and remainder are one.
LEMMA SameMoment ==
  ASSUME NEW p \in Int, NEW q \in Int, NEW r \in Readings, NEW s \in Readings,
         Wrap * p + r = Wrap * q + s
  PROVE  r = s
BY WrapAssumption, SMT DEF Readings

\* Every number is a multiple of Wrap and a remainder.
LEMMA Division ==
  ASSUME NEW t \in Int
  PROVE  t = Wrap * (t \div Wrap) + (t % Wrap) /\ t % Wrap \in Readings
         /\ t \div Wrap \in Int
BY WrapAssumption, SMT DEF Readings

\* It is the time that has passed, as long as that is less than a wrap.
LEMMA SinceExact ==
  ASSUME NEW a \in Nat, NEW b \in Nat, b <= a, a - b < Wrap
  PROVE  Since(Reading(a), Reading(b)) = a - b
<1> DEFINE p == a \div Wrap
           q == b \div Wrap
           d == Reading(a) - Reading(b)
           n == d \div Wrap
<1>1. a = Wrap * p + Reading(a) /\ b = Wrap * q + Reading(b)
      /\ p \in Int /\ q \in Int /\ Reading(a) \in Int /\ Reading(b) \in Int
  BY Division DEF Reading, Readings
<1>2. d = Wrap * n + (d % Wrap) /\ d % Wrap \in Readings /\ n \in Int
  BY <1>1, Division
<1>3. a - b = Wrap * p - Wrap * q + d
  <2> DEFINE wp == Wrap * p
             wq == Wrap * q
             ra == Reading(a)
             rb == Reading(b)
  <2>1. /\ wp \in Int /\ wq \in Int /\ ra \in Int /\ rb \in Int
        /\ a = wp + ra /\ b = wq + rb
    BY <1>1, WrapAssumption
  <2> HIDE DEF wp, wq, ra, rb
  <2>2. a - b = wp - wq + (ra - rb)
    BY <2>1
  <2> QED BY <2>2 DEF wp, wq, ra, rb
<1>4. Wrap * (p - q + n) = Wrap * p - Wrap * q + Wrap * n
  BY <1>1, <1>2, WrapAssumption, SMT
<1>5. Wrap * 0 + (a - b) = Wrap * (p - q + n) + (d % Wrap)
  BY <1>2, <1>3, <1>4, WrapAssumption, SMT DEF Readings
<1>6. a - b \in Readings
  BY WrapAssumption DEF Readings
<1>7. p - q + n \in Int
  BY <1>1, <1>2
<1> HIDE DEF p, q, n
<1>8. a - b = d % Wrap
  BY <1>2, <1>5, <1>6, <1>7, SameMoment
<1> QED BY <1>8 DEF Since

\* A moment is its reading and a whole number of wraps.
LEMMA MomentDivision ==
  ASSUME NEW t \in Nat
  PROVE  /\ t = Wrap * (t \div Wrap) + Reading(t)
         /\ Reading(t) \in Readings
         /\ t \div Wrap \in Nat
BY WrapAssumption, SMT DEF Reading, Readings

\* A sum of a reading and an interval wraps at most once.
LEMMA PlusOnce ==
  ASSUME NEW r \in Readings
  PROVE  Plus(r, Interval) = IF r + Interval < Wrap THEN r + Interval
                             ELSE r + Interval - Wrap
BY WrapAssumption, TimerAssumption, SMT DEF Plus, Readings

\* Moments in the order of their wraps.
LEMMA Periods ==
  ASSUME NEW p \in Nat, NEW q \in Nat, p < q
  PROVE  Wrap * p + Wrap <= Wrap * q
BY WrapAssumption, SMT

-----------------------------------------------------------------------------
\* The same moment's reading, nothing done in the future, the controller has
\* no setup() left and only it sends; nothing is answered before the start.
Stamped ==
  /\ last = Reading(done) /\ done <= now /\ answered <= now
  /\ pc = "sends" => board = "controller"
  /\ pc = "setup" => board = "server" /\ answered = Never

\* The strings are those of the last reading unless it failed, and empty until
\* one succeeded.
Written ==
  board = "server" => failed \/ text = done \/ (text = Never /\ done = 0)

\* The variables keep their types and the stored reading is that of the
\* moment of the last sending or reading (IntervalTimers.TypeOK).
THEOREM TypeCorrect == Spec => [](TypeOK /\ Stamped)
<1> USE TimerAssumption DEF Never
<1>1. Init => TypeOK /\ Stamped
  <2> SUFFICES ASSUME Init PROVE TypeOK /\ Stamped
    OBVIOUS
  <2>1. now \in Nat
    BY DEF Init
  <2>2. last \in Readings
    BY <2>1, ReadingType DEF Init
  <2>3. pc \in {"setup", "tests"} /\ board \in {"controller", "server"}
        /\ failed \in BOOLEAN
    BY DEF Init
  <2>4. TypeOK
    BY <2>1, <2>2, <2>3 DEF Init, TypeOK
  <2>5. Stamped
    BY <2>1 DEF Init, Stamped
  <2> QED BY <2>4, <2>5
<1>2. TypeOK /\ Stamped /\ [Next]_vars => TypeOK' /\ Stamped'
  <2> SUFFICES ASSUME TypeOK, Stamped, [Next]_vars PROVE TypeOK' /\ Stamped'
    OBVIOUS
  <2>1. CASE Pass
    BY <2>1 DEF Pass, TypeOK, Stamped
  <2>2. CASE Test
    BY <2>2 DEF Test, TypeOK, Stamped
  <2>3. CASE Send
    BY <2>3, ReadingType DEF Send, Stamp, TypeOK, Stamped
  <2>4. CASE Request
    <3>1. CASE Measure
      <4>1. TypeOK'
        BY <2>4, <3>1, ReadingType DEF Request, Measure, Stamp, TypeOK
      <4> QED BY <2>4, <3>1, <4>1 DEF Request, Measure, Stamp, TypeOK, Stamped
    <3> QED BY <2>4, <3>1 DEF Request, ReadSensor, TypeOK, Stamped
  <2>5. CASE Start
    <3>1. CASE Measure
      <4>1. TypeOK'
        BY <2>5, <3>1, ReadingType DEF Start, Measure, Stamp, TypeOK
      <4> QED BY <2>5, <3>1, <4>1 DEF Start, Measure, Stamp, TypeOK, Stamped
    <3> QED BY <2>5, <3>1 DEF Start, ReadSensor, TypeOK, Stamped
  <2>6. CASE UNCHANGED vars
    BY <2>6 DEF vars, TypeOK, Stamped
  <2> QED BY <2>1, <2>2, <2>3, <2>4, <2>5, <2>6 DEF Next
<1> QED BY <1>1, <1>2, PTL DEF Spec

\* Sum and clock disagree with the time that has passed only around their wraps.
LEMMA WrongOnlyAtWrap ==
  Spec => [](EarlyOnlyAtWrap /\ LateOnlyAtWrap)
<1>1. TypeOK /\ Stamped => EarlyOnlyAtWrap /\ LateOnlyAtWrap
  <2> SUFFICES ASSUME TypeOK, Stamped PROVE EarlyOnlyAtWrap /\ LateOnlyAtWrap
    OBVIOUS
  <2> DEFINE p == done \div Wrap
             q == now \div Wrap
             r == Reading(done)
             s == Reading(now)
  <2>1. /\ done = Wrap * p + r /\ now = Wrap * q + s
        /\ r \in Readings /\ s \in Readings /\ p \in Nat /\ q \in Nat
    BY MomentDivision DEF TypeOK
  <2>2. SumDue <=> s > (IF r + Interval < Wrap THEN r + Interval
                     ELSE r + Interval - Wrap)
    BY <2>1, PlusOnce DEF SumDue, Stamped
  <2>3. done <= now /\ last = r
    BY DEF Stamped
  <2>4. Wrap \in Nat \ {0} /\ Interval \in 1 .. (Wrap - 1)
    BY WrapAssumption, TimerAssumption
  <2>5. Wrap * p \in Int /\ Wrap * q \in Int
    BY <2>1, <2>4
  <2> DEFINE wp == Wrap * p
             wq == Wrap * q
  <2>6. /\ p = q => wp = wq
        /\ p < q => wp + Wrap <= wq
        /\ q < p => wq + Wrap <= wp
    BY <2>1, Periods
  <2>7. /\ done = wp + r /\ now = wq + s /\ wp \in Int /\ wq \in Int
        /\ r \in 0 .. (Wrap - 1) /\ s \in 0 .. (Wrap - 1)
    BY <2>1, <2>5 DEF Readings
  <2>8. /\ EarlyOnlyAtWrap <=> (Testing /\ SumDue /\ now - done <= Interval
                               => r + Interval >= Wrap /\ q = p)
        /\ LateOnlyAtWrap <=> (Testing /\ ~SumDue /\ now - done > Interval
                              => q > p)
    BY <2>3 DEF EarlyOnlyAtWrap, LateOnlyAtWrap
  <2>9. p \in Nat /\ q \in Nat
    BY <2>1
  <2> HIDE DEF p, q, r, s, wp, wq
  <2>10. CASE p = q
    BY <2>2, <2>3, <2>4, <2>6, <2>7, <2>8, <2>9, <2>10
  <2>11. CASE p < q
    BY <2>2, <2>3, <2>4, <2>6, <2>7, <2>8, <2>9, <2>11
  <2>12. CASE q < p
    BY <2>3, <2>4, <2>6, <2>7, <2>9, <2>12
  <2> QED BY <2>9, <2>10, <2>11, <2>12
<1> QED BY <1>1, TypeCorrect, PTL

\* The status is sent early only when the sum wraps before the clock, and late only
\* when the clock wraps first, for any width of the clock
\* (IntervalTimers.OnTimeButAtWrap).
THEOREM RoomTemperatureOnTime == Spec => []OnTimeButAtWrap
<1>1. EarlyOnlyAtWrap /\ LateOnlyAtWrap => OnTimeButAtWrap
  BY DEF OnTimeButAtWrap
<1> QED BY <1>1, WrongOnlyAtWrap, PTL

\* The sensor is never read twice within the interval, however often the clock
\* has wrapped (IntervalTimers.Spaced).
THEOREM ReadingsSpaced == Spec => Spaced
<1>1. TypeOK /\ Stamped /\ [Next]_vars
        => [board = "server" /\ done' # done => done' - done >= Interval]_vars
  <2> SUFFICES ASSUME TypeOK, Stamped, Next, board = "server", done' # done
               PROVE  done' - done >= Interval
    BY DEF vars
  <2>1. DifferenceDue /\ done' = now
    BY DEF Next, Start, Request, ReadSensor, Measure, Pass, Test, Send, Stamped
  <2>2. Since(Reading(now), Reading(done)) <= now - done
    BY SinceNeverMore DEF TypeOK, Stamped
  <2>3. Since(Reading(now), Reading(done)) \in Int
    BY WrapAssumption, ReadingType, SMT DEF Since, Readings, TypeOK
  <2> QED BY <2>1, <2>2, <2>3, TimerAssumption DEF DifferenceDue, Stamped, TypeOK
<1> QED BY <1>1, TypeCorrect, PTL DEF Spec, Spaced

\* An answer shows what the sensor said less than an interval ago, but for the
\* failures, the start and the moments that the clock cannot tell from the last
\* reading (IntervalTimers.AnswerIsRecent).
THEOREM AnswersRecent == Spec => []AnswerIsRecent
<1> DEFINE Inv == AnswerIsRecent /\ Written
<1> USE TimerAssumption DEF Never
<1>1. Init => Inv
  BY DEF Init, AnswerIsRecent, Written
<1>2. TypeOK /\ Stamped /\ Inv /\ [Next]_vars => Inv'
  <2> SUFFICES ASSUME TypeOK, Stamped, Inv, [Next]_vars PROVE Inv'
    OBVIOUS
  <2>1. ReadSensor /\ board' = board => Written'
    BY DEF ReadSensor, Measure, Written
  <2>2. CASE Request
    <3>1. CASE Measure
      BY <2>1, <2>2, <3>1 DEF Request, ReadSensor, Measure, AnswerIsRecent, TypeOK
    <3>2. CASE ~DifferenceDue
      <4>1. now - done < Wrap => now - done < Interval
        BY <3>2, SinceExact DEF DifferenceDue, Stamped, TypeOK
      <4>2. UNCHANGED <<now, done, text, failed>>
        BY <2>2, <3>2 DEF Request, ReadSensor
      <4>3. now - done < Interval \/ now - done >= Wrap
        BY <4>1, WrapAssumption DEF TypeOK
      <4>4. ASSUME board = "server", now - done < Interval
            PROVE  \/ text # Never /\ now - text < Interval
                   \/ failed
                   \/ text = Never /\ now < Interval
        BY <4>4 DEF Written, TypeOK
      <4>5. AnswerIsRecent'
        BY <2>2, <4>2, <4>3, <4>4 DEF Request, AnswerIsRecent
      <4> QED BY <2>2, <4>2, <4>5 DEF Request, Written
    <3> QED BY <2>2, <3>1, <3>2 DEF Request, ReadSensor
  <2>3. CASE Start
    BY <2>1, <2>3 DEF Start, Stamped, TypeOK, AnswerIsRecent
  <2>4. CASE Pass
    BY <2>4 DEF Pass, Stamped, TypeOK, AnswerIsRecent, Written
  <2>5. CASE Test
    BY <2>5 DEF Test, AnswerIsRecent, Written
  <2>6. CASE Send
    <3>1. board = "controller" /\ board' = board
      BY <2>6 DEF Send, Stamped
    <3> QED BY <3>1 DEF AnswerIsRecent, Written
  <2>7. CASE UNCHANGED vars
    BY <2>7 DEF vars, AnswerIsRecent, Written
  <2> QED BY <2>2, <2>3, <2>4, <2>5, <2>6, <2>7 DEF Next
<1> QED BY <1>1, <1>2, TypeCorrect, PTL DEF Spec

-----------------------------------------------------------------------------
(* The throttle of the reports, for any channels, values and Forced.        *)

\* The variables keep their types; nNoUpdates never passes Forced, whose test
\* is for equality (ReportThrottle.RTTypeOK).
THEOREM ThrottleTypes == RTSpec => []RTTypeOK
<1> USE ThrottleAssumption
<1>1. RTInit => RTTypeOK
  BY DEF RTInit, RTTypeOK
<1>2. RTTypeOK /\ [RTNext]_RTvars => RTTypeOK'
  <2> SUFFICES ASSUME RTTypeOK, [RTNext]_RTvars PROVE RTTypeOK'
    OBVIOUS
  <2>1. ASSUME NEW c \in Channels, NEW v \in Values, Report(c, v) PROVE RTTypeOK'
    <3>1. lastSent' \in [Channels -> Values \cup {Zero}]
      BY <2>1 DEF Report, Last, RTTypeOK
    <3>2. quiet' \in [Channels -> 0 .. Forced]
      BY <2>1 DEF Report, RTTypeOK
    <3>3. shown' \in [Channels -> Values \cup {Unknown}]
      BY <2>1 DEF Report, RTTypeOK
    <3>4. lost' \in [Channels -> Nat] /\ unheard' \in [Channels -> Nat]
      BY <2>1 DEF Report, RTTypeOK
    <3> QED BY <3>1, <3>2, <3>3, <3>4 DEF RTTypeOK
  <2>2. ASSUME NEW c \in Channels, NEW v \in Values, Hold(c, v) PROVE RTTypeOK'
    <3>1. quiet[c] + 1 \in 0 .. Forced
      BY <2>2 DEF Hold, Reports, RTTypeOK
    <3> QED BY <2>2, <3>1 DEF Hold, RTTypeOK
  <2>3. CASE UNCHANGED RTvars
    BY <2>3 DEF RTvars, RTTypeOK
  <2> QED BY <2>1, <2>2, <2>3 DEF RTNext, Read
<1> QED BY <1>1, <1>2, PTL DEF RTSpec

\* Home Assistant shows the last value unless a report was lost since
\* (ReportThrottle.ShownIsLast).
THEOREM ShownUnlessLost == RTSpec => []ShownIsLast
<1> USE ThrottleAssumption
<1>1. RTInit => ShownIsLast
  BY DEF RTInit, ShownIsLast
<1>2. RTTypeOK /\ ShownIsLast /\ [RTNext]_RTvars => ShownIsLast'
  <2> SUFFICES ASSUME RTTypeOK, ShownIsLast, [RTNext]_RTvars,
                      NEW d \in Channels, shown'[d] # lastSent'[d]
               PROVE  lost'[d] > 0 \/ (shown'[d] = Unknown /\ lastSent'[d] = Zero)
    BY DEF ShownIsLast
  <2>1. ASSUME NEW c \in Channels, NEW v \in Values, Report(c, v), c = d
        PROVE  lost'[d] > 0
    BY <2>1 DEF Report, Last, RTTypeOK
  <2>2. ASSUME NEW c \in Channels, NEW v \in Values,
               (Report(c, v) /\ c # d) \/ Hold(c, v)
        PROVE  lastSent'[d] = lastSent[d] /\ shown'[d] = shown[d] /\ lost'[d] = lost[d]
    BY <2>2 DEF Report, Last, Hold, RTTypeOK
  <2>3. CASE UNCHANGED RTvars
    BY <2>3 DEF RTvars, ShownIsLast
  <2> QED BY <2>1, <2>2, <2>3 DEF RTNext, Read, ShownIsLast
<1> QED BY <1>1, <1>2, ThrottleTypes, PTL DEF RTSpec

-----------------------------------------------------------------------------
\* The counter makes HeardInTime inductive: it counts the readings since the
\* last report, heard or not, and each lost report cost at most Forced + 1.
SilenceCounted ==
  \A c \in Channels : unheard[c] <= quiet[c] + lost[c] * (Forced + 1)

\* One more lost report allows for Forced + 1 more readings.
LEMMA OneMore ==
  ASSUME NEW n \in Nat
  PROVE  n * (Forced + 1) \in Nat
         /\ (n + 1) * (Forced + 1) = n * (Forced + 1) + Forced + 1
BY ThrottleAssumption, SMT

\* Every reading keeps the count.
LEMMA SilenceStep ==
  ASSUME RTTypeOK, SilenceCounted, [RTNext]_RTvars
  PROVE  SilenceCounted'
<1> USE ThrottleAssumption
<1> SUFFICES ASSUME NEW d \in Channels
             PROVE  unheard'[d] <= quiet'[d] + lost'[d] * (Forced + 1)
  BY DEF SilenceCounted
<1>1. /\ unheard[d] <= quiet[d] + lost[d] * (Forced + 1)
      /\ unheard[d] \in Nat /\ quiet[d] \in 0 .. Forced /\ lost[d] \in Nat
  BY DEF SilenceCounted, RTTypeOK
<1>2. /\ lost[d] * (Forced + 1) \in Nat
      /\ (lost[d] + 1) * (Forced + 1) = lost[d] * (Forced + 1) + Forced + 1
  BY <1>1, OneMore
<1>3. ASSUME NEW c \in Channels, NEW v \in Values, Report(c, v), c = d
      PROVE  unheard'[d] <= quiet'[d] + lost'[d] * (Forced + 1)
  <2>1. quiet'[d] = 0
    BY <1>3 DEF Report, RTTypeOK
  <2>2. CASE unheard'[d] = 0 /\ lost'[d] = 0
    BY <2>1, <2>2
  <2>3. CASE unheard'[d] = unheard[d] + 1 /\ lost'[d] = lost[d] + 1
    BY <1>1, <1>2, <2>1, <2>3
  <2> QED BY <1>3, <2>2, <2>3 DEF Report, RTTypeOK
<1>4. ASSUME NEW c \in Channels, NEW v \in Values, Hold(c, v), c = d
      PROVE  unheard'[d] <= quiet'[d] + lost'[d] * (Forced + 1)
  <2>1. unheard'[d] = unheard[d] + 1 /\ quiet'[d] = quiet[d] + 1
        /\ lost'[d] = lost[d]
    BY <1>4 DEF Hold, RTTypeOK
  <2> QED BY <1>1, <1>2, <2>1
<1>5. ASSUME NEW c \in Channels, NEW v \in Values, Report(c, v) \/ Hold(c, v),
             c # d
      PROVE  unheard'[d] = unheard[d] /\ quiet'[d] = quiet[d]
             /\ lost'[d] = lost[d]
  BY <1>5 DEF Report, Hold, RTTypeOK
<1>6. CASE UNCHANGED RTvars
  BY <1>1, <1>6 DEF RTvars
<1>7. CASE RTNext
  <2>1. PICK c \in Channels, v \in Values : Report(c, v) \/ Hold(c, v)
    BY <1>7 DEF RTNext, Read
  <2>2. CASE c = d
    BY <1>3, <1>4, <2>1, <2>2
  <2>3. CASE c # d
    BY <1>1, <1>5, <2>1, <2>3
  <2> QED BY <2>2, <2>3
<1> QED BY <1>6, <1>7

\* A sensor is silent for at most Forced + 1 readings more with every report
\* that is lost (ReportThrottle.HeardInTime).
THEOREM SilenceBounded == RTSpec => []HeardInTime
<1>1. RTInit => SilenceCounted
  <2> SUFFICES ASSUME RTInit, NEW c \in Channels
               PROVE  unheard[c] <= quiet[c] + lost[c] * (Forced + 1)
    BY DEF SilenceCounted
  <2>1. unheard[c] = 0 /\ quiet[c] = 0 /\ lost[c] = 0
    BY DEF RTInit
  <2>2. 0 * (Forced + 1) = 0
    BY ThrottleAssumption
  <2> QED BY <2>1, <2>2
<1>2. RTTypeOK /\ SilenceCounted => HeardInTime
  <2> SUFFICES ASSUME RTTypeOK, SilenceCounted, NEW c \in Channels
               PROVE  unheard[c] <= Forced + lost[c] * (Forced + 1)
    BY DEF HeardInTime
  <2>1. unheard[c] <= quiet[c] + lost[c] * (Forced + 1) /\ quiet[c] \in 0 .. Forced
        /\ unheard[c] \in Nat /\ lost[c] \in Nat
    BY DEF SilenceCounted, RTTypeOK
  <2>2. lost[c] * (Forced + 1) \in Nat
    BY <2>1, OneMore
  <2> QED BY <2>1, <2>2, ThrottleAssumption
<1> QED BY <1>1, <1>2, SilenceStep, ThrottleTypes, PTL DEF RTSpec

-----------------------------------------------------------------------------
(* The doors of the ESPHome garage, for any doors and Delay.                *)

\* An action that runs was started by the last press, and a relay that is held is
\* held by an action that runs or that was stopped.
Running ==
  /\ \A d \in pending : d \notin cut /\ left[d] + since[d] = Delay
  /\ \A d \in Doors \ cut : relay[d] = "on" => d \in pending

\* Every step keeps the types and the actions that run.
LEMMA RunningStep ==
  ASSUME EGTypeOK, Running, [EGNext]_EGvars
  PROVE  EGTypeOK' /\ Running'
<1> USE DelayAssumption
<1>1. ASSUME NEW d \in Doors, TurnOn(d) PROVE EGTypeOK' /\ Running'
  BY <1>1 DEF TurnOn, Started, EGTypeOK, Running
<1>2. ASSUME NEW d \in Doors, TurnOff(d) PROVE EGTypeOK' /\ Running'
  BY <1>2 DEF TurnOff, EGTypeOK, Running
<1>3. ASSUME NEW d \in Doors, Finish(d) PROVE EGTypeOK' /\ Running'
  BY <1>3 DEF Finish, Released, EGTypeOK, Running
<1>4. CASE Tick
  <2>1. \A d \in pending : d \in Doors /\ left[d] \in 1 .. Delay /\ since[d] \in 0 .. Delay - 1
    BY <1>4 DEF Tick, EGTypeOK, Running
  <2>2. left' \in [Doors -> 0 .. Delay] /\ since' \in [Doors -> 0 .. Delay + 1]
    BY <1>4, <2>1 DEF Tick, Elapsed, EGTypeOK
  <2>3. \A d \in pending : left'[d] = left[d] - 1 /\ since'[d] = since[d] + 1
    BY <1>4, <2>1 DEF Tick, Elapsed
  <2> QED BY <1>4, <2>1, <2>2, <2>3 DEF Tick, EGTypeOK, Running
<1>5. CASE Restart
  BY <1>5 DEF Restart, Restored, EGTypeOK, Running
<1>6. CASE UNCHANGED EGvars
  BY <1>6 DEF EGvars, EGTypeOK, Running
<1> QED BY <1>1, <1>2, <1>3, <1>4, <1>5, <1>6 DEF EGNext

\* The actions that run, from the start on.
LEMMA RunningCorrect == EGSpec => [](EGTypeOK /\ Running)
<1>1. EGInit => EGTypeOK /\ Running
  BY DelayAssumption DEF EGInit, EGTypeOK, Running
<1> QED BY <1>1, RunningStep, PTL DEF EGSpec

\* A relay is held half a second after the last press at most, with an action
\* there to release it, unless an off has stopped that
\* (EsphomeGarage.NeverHeldLong).
THEOREM RelayNotHeldLong == EGSpec => []NeverHeldLong
<1>1. EGTypeOK /\ Running => NeverHeldLong
  <2> SUFFICES ASSUME EGTypeOK, Running, NEW d \in Doors \ cut, relay[d] = "on"
               PROVE  since[d] <= Delay /\ d \in pending
    BY DEF NeverHeldLong
  <2>1. d \in pending /\ left[d] + since[d] = Delay
    BY DEF Running
  <2> QED BY <2>1 DEF EGTypeOK
<1> QED BY <1>1, RunningCorrect, PTL

\* What releases a relay does so half a second after the last press, however often
\* it was pressed, a restart excepted (EsphomeGarage.PulseIsWhole).
THEOREM PulsesWhole == EGSpec => PulseIsWhole
<1>1. EGTypeOK /\ Running /\ [EGNext]_EGvars
        => [\A d \in Doors : relay[d] = "on" /\ relay'[d] = "off"
                              => since[d] = Delay \/ Restart]_EGvars
  <2> SUFFICES ASSUME EGTypeOK, Running, EGNext, ~Restart,
                      NEW d \in Doors, relay[d] = "on", relay'[d] = "off"
               PROVE  since[d] = Delay
    OBVIOUS
  <2>1. Finish(d)
    BY DEF EGNext, TurnOn, TurnOff, Finish, Released, Tick, EGTypeOK
  <2>2. d \in pending /\ left[d] = 0 /\ left[d] + since[d] = Delay
    BY <2>1 DEF Finish, Running
  <2> QED BY <2>2 DEF EGTypeOK
<1> QED BY <1>1, RunningCorrect, PTL DEF EGSpec, PulseIsWhole
=============================================================================
