--------------------------- MODULE ReportThrottle ---------------------------
(***************************************************************************)
(* How the climate nodes report: a loop() reads temperature and humidity    *)
(* and sends a value when it differs from the last one sent, or when it has *)
(* been the same for a number of reads.  A send that the radio loses is not *)
(* noticed.  What describes the system as a whole is named RT..., after it.   *)
(***************************************************************************)
EXTENDS Naturals

CONSTANTS
  Channels,    \* temperature and humidity
  Values,      \* what the sensor may measure
  Zero,        \* the value that lastTemp and lastHum start with
  Unknown,     \* what Home Assistant shows before the first report
  Forced,      \* FORCE_UPDATE_N_READS
  MaxLosses,   \* bound: reports lost, for each channel
  MaxGood      \* bound: readings since a report was heard, for each channel

ASSUME ThrottleAssumption ==
  /\ Unknown \notin Values \cup {Zero}
  /\ Forced \in Nat
  /\ MaxLosses \in Nat
  /\ MaxGood \in Nat

VARIABLES
  lastSent,  \* lastTemp, lastHum
  quiet,     \* nNoUpdatesTemp, nNoUpdatesHum
  shown,     \* what Home Assistant shows
  lost,      \* past: reports lost since one was heard
  unheard    \* past: readings since a report was heard

RTvars == <<lastSent, quiet, shown, lost, unheard>>

RTTypeOK ==
  /\ lastSent \in [Channels -> Values \cup {Zero}]
  /\ quiet \in [Channels -> 0 .. Forced]
  /\ shown \in [Channels -> Values \cup {Unknown}]
  /\ lost \in [Channels -> Nat]
  /\ unheard \in [Channels -> Nat]

RTInit ==
  /\ lastSent = [c \in Channels |-> Zero]
  /\ quiet = [c \in Channels |-> 0]
  /\ shown = [c \in Channels |-> Unknown]
  /\ lost = [c \in Channels |-> 0]
  /\ unheard = [c \in Channels |-> 0]

-----------------------------------------------------------------------------
\* Only values that changed.
Reports_Changed(c, v) == v # lastSent[c]

Reports(c, v) == v # lastSent[c] \/ quiet[c] = Forced

\* lastTemp is not kept.
Last_Kept(c, v) == lastSent

Last(c, v) == [lastSent EXCEPT ![c] = v]

\* The last value and the counter are set before the value is sent.
Report(c, v) ==
  /\ Reports(c, v)
  /\ lastSent' = Last(c, v)
  /\ quiet' = [quiet EXCEPT ![c] = 0]
  /\ \/ /\ shown' = [shown EXCEPT ![c] = v]
        /\ lost' = [lost EXCEPT ![c] = 0]
        /\ unheard' = [unheard EXCEPT ![c] = 0]
     \/ /\ lost[c] < MaxLosses
        /\ lost' = [lost EXCEPT ![c] = @ + 1]
        /\ unheard' = [unheard EXCEPT ![c] = @ + 1]
        /\ UNCHANGED shown

Hold(c, v) ==
  /\ ~Reports(c, v)
  /\ quiet' = [quiet EXCEPT ![c] = @ + 1]
  /\ unheard' = [unheard EXCEPT ![c] = @ + 1]
  /\ UNCHANGED <<lastSent, shown, lost>>

\* A reading that is not a number changes nothing: it is a stuttering step.
Read(c) ==
  /\ unheard[c] < MaxGood
  /\ \E v \in Values : Report(c, v) \/ Hold(c, v)

RTNext == \E c \in Channels : Read(c)

RTSpec == RTInit /\ [][RTNext]_RTvars

-----------------------------------------------------------------------------
\* Home Assistant shows the last value the node took for sent, unless a report
\* was lost since; before the first report it may show nothing, when the
\* sensor measures just what the variables start with.
ShownIsLast ==
  \A c \in Channels :
    shown[c] # lastSent[c] => lost[c] > 0 \/ (shown[c] = Unknown /\ lastSent[c] = Zero)

\* However reports are lost and values change, every report lost costs at most
\* Forced + 1 readings before Home Assistant hears of the sensor again.
HeardInTime ==
  \A c \in Channels : unheard[c] <= Forced + lost[c] * (Forced + 1)
=============================================================================
