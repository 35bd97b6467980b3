------------------------- MODULE HeatpumpController -------------------------
(***************************************************************************)
(* The heat pump controller: an ESP8266 between the heat pump's serial     *)
(* port and MQTT.  Its loop() makes sure of the MQTT connection, lets the  *)
(* HeatPump library synchronise with the unit, and serves one message.     *)
(* Commands stage settings in the library and ask it to update the unit;   *)
(* the library calls back when the settings it reads have changed, and the *)
(* callback publishes them, retained.                                      *)
(*                                                                         *)
(* The HeatPump library is external.  It keeps the settings wanted and     *)
(* those last read (current); an update sends the settings in which the    *)
(* two differ; the first settings read become the wanted ones.             *)
(***************************************************************************)
EXTENDS Naturals, Sequences, FiniteSets

CONSTANTS
  Fields,        \* power, mode, temperature, fan, vane, wideVane
  Values,        \* what a setting may be
  Unset,         \* a setting nobody has given or read yet
  MaxKeys,       \* keys a command's JSON document has room for (6)
  Disturbances,  \* what may happen besides: see Disturb
  MaxCommands,   \* bound: commands published
  MaxMishaps     \* bound: disturbances

ASSUME HeatpumpAssumption ==
  /\ IsFiniteSet(Fields) /\ Fields # {}
  /\ Values # {}
  /\ Unset \notin Values
  /\ MaxKeys \in Nat
  /\ Disturbances \subseteq {"drop", "restart", "failure", "remote"}
  /\ MaxCommands \in Nat
  /\ MaxMishaps \in Nat

VARIABLES
  pc,            \* where loop() is
  link,          \* mqtt_client.connected(): "up" or "down"
  inbox,         \* commands delivered to the client and not yet read
  wanted,        \* the library: the settings to send
  current,       \* the library: the settings last read
  first,         \* the library: "yes" until settings have been read
  unit,          \* the settings of the heat pump itself
  retained,      \* the broker: the retained message of heatpump_topic
  commands, mishaps,   \* counted for the bounds
  asked,         \* past: what was last asked of each field
  withheld,      \* past: the fields a command named without a sure effect
  byRemote,      \* past: the fields last changed with the remote control
  unpublished    \* past: "yes" after a publication that failed

library  == <<wanted, current, first>>
past     == <<asked, withheld, byRemote>>
shown    == <<retained, unpublished>>
vars     == <<pc, link, inbox, library, unit, shown, commands, mishaps, past>>

Settings == [Fields -> Values]
Known    == [Fields -> Values \cup {Unset}]
Nothing  == [f \in Fields |-> Unset]
Documents == UNION {[S -> Values] : S \in SUBSET Fields}

\* A command: the settings it names, and whether remoteTemp or custom is there.
Commands == [set : Documents, extra : {"none", "packet"}]

TypeOK ==
  /\ pc \in {"connect", "sync", "serve"}
  /\ link \in {"up", "down"}
  /\ inbox \in Seq(Commands)
  /\ wanted \in Known
  /\ current \in Known
  /\ first \in {"yes", "no"}
  /\ unit \in Settings
  /\ retained \in Known
  /\ commands \in Nat
  /\ mishaps \in Nat
  /\ asked \in Settings
  /\ withheld \subseteq Fields
  /\ byRemote \subseteq Fields
  /\ unpublished \in {"yes", "no"}

\* setup() has connected to the broker and called hp.connect().
Init ==
  /\ pc = "connect"
  /\ link = "up"
  /\ inbox = <<>>
  /\ wanted = Nothing
  /\ current = Nothing
  /\ first = "yes"
  /\ unit \in Settings
  /\ retained = Nothing
  /\ commands = 0
  /\ mishaps = 0
  /\ asked = unit
  /\ withheld = {}
  /\ byRemote = {}
  /\ unpublished = "no"

-----------------------------------------------------------------------------
\* The broker delivers a command to a client that is connected, or to nobody.
Command ==
  /\ commands < MaxCommands
  /\ commands' = commands + 1
  /\ \E c \in Commands :
       /\ DOMAIN c.set # {} \/ c.extra = "packet"
       /\ inbox' = IF link = "up" THEN Append(inbox, c) ELSE inbox
  /\ UNCHANGED <<pc, link, library, unit, shown, mishaps, past>>

\* The connection drops, the controller restarts, an update fails, or somebody
\* uses the remote control.
Disturb(kind) ==
  /\ kind \in Disturbances
  /\ mishaps < MaxMishaps
  /\ mishaps' = mishaps + 1

\* The session is clean: what was not read is gone with the connection.
Drop ==
  /\ Disturb("drop")
  /\ link = "up"
  /\ link' = "down"
  /\ inbox' = <<>>
  /\ UNCHANGED <<pc, library, unit, shown, commands, past>>

\* The controller starts again, connects, and knows nothing of the unit.
Restart ==
  /\ Disturb("restart")
  /\ pc' = "connect"
  /\ link' = "up"
  /\ inbox' = <<>>
  /\ wanted' = Nothing
  /\ current' = Nothing
  /\ first' = "yes"
  /\ UNCHANGED <<unit, shown, commands, past>>

\* Somebody uses the unit's own remote control.
Remote ==
  /\ Disturb("remote")
  /\ \E f \in Fields, v \in Values :
       /\ unit' = [unit EXCEPT ![f] = v]
       /\ asked' = [asked EXCEPT ![f] = v]
       /\ byRemote' = byRemote \cup {f}
  /\ UNCHANGED <<pc, link, inbox, library, shown, commands, withheld>>

-----------------------------------------------------------------------------
\* mqttConnect() tries until the client is connected.
Connect ==
  /\ pc = "connect"
  /\ link = "down"
  /\ link' = "up"
  /\ UNCHANGED <<pc, inbox, library, unit, shown, commands, mishaps, past>>

Connected ==
  /\ pc = "connect"
  /\ link = "up"
  /\ pc' = "sync"
  /\ UNCHANGED <<link, inbox, library, unit, shown, commands, mishaps, past>>

\* hpSettingsChanged(): the publication is lost, for good, when the link is down.
SettingsChanged(settings) ==
  IF link = "up" THEN retained' = settings /\ unpublished' = "no"
                 ELSE retained' = retained /\ unpublished' = "yes"

\* A controller that calls back when the unit differs from what it wants.
Changed_FromWanted == unit # wanted

\* A controller that calls back once.
Changed_Once == first = "yes"

\* The library calls back when what it reads differs from what it read last.
Changed == unit # current

\* hp.sync() reads the settings of the unit.
SyncReads ==
  /\ pc = "sync"
  /\ pc' = "serve"
  /\ current' = unit
  /\ first' = "no"
  /\ wanted' = IF first = "yes" THEN unit ELSE wanted
  /\ IF Changed THEN SettingsChanged(unit) ELSE UNCHANGED shown
  /\ withheld' = {f \in withheld : unit[f] # asked[f]}
  /\ UNCHANGED <<link, inbox, unit, commands, mishaps, asked, byRemote>>

\* hp.sync() only asks, or reads something else.
SyncOther ==
  /\ pc = "sync"
  /\ pc' = "serve"
  /\ UNCHANGED <<link, inbox, library, unit, shown, commands, mishaps, past>>

-----------------------------------------------------------------------------
Keys(c) == Cardinality(DOMAIN c.set) + (IF c.extra = "packet" THEN 1 ELSE 0)

\* deserializeJson() has room for MaxKeys members.
Parses(c) == Keys(c) <= MaxKeys

\* The containsKey() blocks: each setting named is staged.
With(settings, c) ==
  [f \in Fields |-> IF f \in DOMAIN c.set THEN c.set[f] ELSE settings[f]]

\* A chain of else-ifs: of several settings named none is staged.
Staged_ElseIf(c) ==
  [f \in Fields |-> IF DOMAIN c.set = {f} THEN c.set[f] ELSE wanted[f]]

Staged(c) == With(wanted, c)

ServeNothing ==
  /\ pc = "serve"
  /\ inbox = <<>>
  /\ pc' = "connect"
  /\ UNCHANGED <<link, inbox, library, unit, shown, commands, mishaps, past>>

Take(c) ==
  /\ pc = "serve"
  /\ inbox # <<>>
  /\ c = Head(inbox)
  /\ inbox' = Tail(inbox)
  /\ pc' = "connect"
  /\ UNCHANGED <<link, current, first, shown, commands>>

\* The error is published on the debug topic, and that is all.
Reject(c) ==
  /\ Take(c)
  /\ ~Parses(c)
  /\ UNCHANGED <<wanted, unit, mishaps, past>>

\* With remoteTemp or custom the settings are staged and update() not called.
Stage(c) ==
  /\ Take(c)
  /\ Parses(c)
  /\ c.extra = "packet"
  /\ wanted' = Staged(c)
  /\ asked' = With(asked, c)
  /\ byRemote' = byRemote \ DOMAIN c.set
  /\ withheld' = withheld \cup DOMAIN c.set
  /\ UNCHANGED <<unit, mishaps>>

\* What update() sends: the wanted settings that differ from those last read.
Sent == {f \in Fields : wanted'[f] # current[f]}

\* An update that sends every setting, those nobody has given included.
Updated_All == wanted'

Updated == [f \in Fields |-> IF f \in Sent THEN wanted'[f] ELSE unit[f]]

Update(c) ==
  /\ Take(c)
  /\ Parses(c)
  /\ c.extra = "none"
  /\ wanted' = Staged(c)
  /\ asked' = With(asked, c)
  /\ byRemote' = byRemote \ DOMAIN c.set

UpdateSucceeds(c) ==
  /\ Update(c)
  /\ unit' = Updated
  /\ withheld' = {f \in DOMAIN c.set : c.set[f] = current[f]}
                   \cup {f \in withheld \ DOMAIN c.set : f \notin Sent}
  /\ UNCHANGED mishaps

\* update() returns false: the unit did what was sent, or nothing.
UpdateFails(c) ==
  /\ Disturb("failure")
  /\ Update(c)
  /\ unit' \in {unit, Updated}
  /\ withheld' = withheld \cup DOMAIN c.set

Serve(c) == Reject(c) \/ Stage(c) \/ UpdateSucceeds(c) \/ UpdateFails(c)

Next ==
  \/ Command \/ Drop \/ Restart \/ Remote
  \/ Connect \/ Connected \/ SyncReads \/ SyncOther \/ ServeNothing
  \/ \E c \in Commands : Serve(c)

\* loop() goes on, the unit answers now and then, a mishap need not happen.
Fairness ==
  /\ WF_vars(Connect)
  /\ WF_vars(Connected)
  /\ WF_vars(SyncOther)
  /\ SF_vars(SyncReads)
  /\ WF_vars(ServeNothing)
  /\ \A c \in Commands : WF_vars(Reject(c) \/ Stage(c) \/ UpdateSucceeds(c))

Spec == Init /\ [][Next]_vars /\ Fairness

-----------------------------------------------------------------------------
\* Why Obeyed is inductive: what the library wants is what was asked, or it
\* has settled on what the unit does against a command that is withheld.
Settled(f) ==
  /\ first = "yes" => current[f] = Unset
  /\ f \notin byRemote =>
       \/ wanted[f] = asked[f]
       \/ first = "yes" /\ wanted[f] = Unset
       \/ first = "no" /\ f \in withheld /\ wanted[f] = current[f]
            /\ current[f] = unit[f]

\* The retained message is what the controller last read from the unit, unless
\* its publication failed; only another change or a restart repeats it
\* (hpSettingsChanged, line 86).
RetainedIsCurrent ==
  unpublished = "no" /\ first = "no" => retained = current

\* A setting of the unit is what was last asked of it, unless the asking
\* command came with remoteTemp or custom (line 226's else), its update failed,
\* or it asked for what the controller believed the setting to be already: then
\* the library sends nothing.  Changes made with the remote control are undone
\* by updates for other settings until a command names the setting again.
Obeyed ==
  \A f \in Fields : unit[f] # asked[f] => f \in withheld \cup byRemote

\* What Home Assistant shows ends up being what the unit does, whoever changed
\* it and however the commands were mixed, unless a publication was lost and
\* the settings have not changed since.
FinallyShown == <>[](retained = unit) \/ <>[](unpublished = "yes")
=============================================================================
