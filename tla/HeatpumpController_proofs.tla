--------------------- MODULE HeatpumpController_proofs ---------------------
(***************************************************************************)
(* Proofs about HeatpumpController for any fields, values and bounds.       *)
(***************************************************************************)
EXTENDS HeatpumpController, TLAPS

\* Staging a document gives settings of the same kind.
LEMMA WithType ==
  ASSUME NEW V, NEW s \in [Fields -> V], NEW c \in Commands, Values \subseteq V
  PROVE  With(s, c) \in [Fields -> V]
<1>1. \A f \in DOMAIN c.set : c.set[f] \in Values
  BY DEF Commands, Documents
<1> QED BY <1>1 DEF With

\* What is taken from the inbox is a command, and commands remain.
LEMMA TakeType ==
  ASSUME TypeOK, NEW c, Take(c)
  PROVE  c \in Commands /\ inbox' \in Seq(Commands)
BY DEF TypeOK, Take

\* Every step preserves the type invariant, but for the handling of commands.
LEMMA QuietTypeStep ==
  ASSUME TypeOK, HeatpumpAssumption,
         \/ Command \/ Drop \/ Restart \/ Remote \/ Connect \/ Connected
         \/ SyncReads \/ SyncOther \/ ServeNothing \/ UNCHANGED vars
  PROVE  TypeOK'
<1>1. CASE Command
  <2>1. PICK c \in Commands :
          inbox' = IF link = "up" THEN Append(inbox, c) ELSE inbox
    BY <1>1 DEF Command
  <2>2. inbox' \in Seq(Commands)
    BY <2>1 DEF TypeOK
  <2> QED BY <1>1, <2>2 DEF Command, TypeOK, library, shown, past
<1>2. CASE Drop
  BY <1>2 DEF Drop, Disturb, TypeOK, library, shown, past
<1>3. CASE Remote
  BY <1>3 DEF Remote, Disturb, TypeOK, Settings, library, shown
<1>6. CASE Restart
  <2>1. Nothing \in Known
    BY DEF Nothing, Known
  <2> QED BY <1>6, <2>1 DEF Restart, Disturb, TypeOK, shown, past
<1>4. CASE Connect \/ Connected \/ SyncOther \/ ServeNothing \/ UNCHANGED vars
  BY <1>4 DEF Connect, Connected, SyncOther, ServeNothing, vars, TypeOK,
              library, shown, past
<1>5. CASE SyncReads
  <2>1. unit \in Known
    BY DEF TypeOK, Settings, Known
  <2>2. retained' \in Known /\ unpublished' \in {"yes", "no"}
    BY <1>5, <2>1 DEF SyncReads, SettingsChanged, shown, TypeOK
  <2>3. wanted' \in Known /\ current' \in Known /\ first' \in {"yes", "no"}
    BY <1>5, <2>1 DEF SyncReads, TypeOK
  <2> QED BY <1>5, <2>2, <2>3 DEF SyncReads, TypeOK
<1> QED BY <1>1, <1>2, <1>3, <1>4, <1>5, <1>6

\* Before settings are read, current is unset, so what is sent has been given.
LEMMA UpdatedType ==
  ASSUME TypeOK, HeatpumpAssumption, wanted' \in Known,
         \A f \in Fields : wanted'[f] = Unset => current[f] = Unset
  PROVE  Updated \in Settings
<1>1. \A f \in Fields : f \in Sent => wanted'[f] \in Values
  BY DEF Sent, Known, TypeOK
<1> QED BY <1>1 DEF Updated, Settings, TypeOK

\* A setting that is wanted by nobody has not been read either.
WantedFirst ==
  \A f \in Fields : wanted[f] = Unset => current[f] = Unset /\ first = "yes"

\* The handling of a command preserves the type invariant and WantedFirst.
LEMMA ServeTypeStep ==
  ASSUME TypeOK, WantedFirst, HeatpumpAssumption, NEW c \in Commands, Serve(c)
  PROVE  TypeOK' /\ WantedFirst'
<1>0. Take(c)
  BY DEF Serve, Reject, Stage, UpdateSucceeds, UpdateFails, Update
<1>1. inbox' \in Seq(Commands) /\ pc' = "connect"
  BY <1>0, TakeType DEF Take
<1>2. Staged(c) \in Known /\ With(asked, c) \in Settings
  BY WithType DEF Staged, Known, Settings, TypeOK
<1>3. DOMAIN c.set \subseteq Fields
  BY DEF Commands, Documents
<1>4. \A f \in Fields : Staged(c)[f] = Unset => wanted[f] = Unset
  BY DEF Staged, With, Commands, Documents, HeatpumpAssumption
<1>5. current' = current /\ first' = first
  BY <1>0 DEF Take
<1>6. wanted' \in {wanted, Staged(c)} /\ asked' \in {asked, With(asked, c)}
  BY DEF Serve, Reject, Stage, UpdateSucceeds, UpdateFails, Update, past
<1>7. wanted' \in Known /\ asked' \in Settings
  BY <1>2, <1>6 DEF TypeOK
<1>8. WantedFirst'
  BY <1>4, <1>5, <1>6 DEF WantedFirst
<1>9. Updated \in Settings
  BY <1>7, <1>5, <1>8, UpdatedType DEF WantedFirst
<1>10. unit' \in Settings
  BY <1>9 DEF Serve, Reject, Stage, UpdateSucceeds, UpdateFails, TypeOK
<1>11. /\ withheld' \subseteq Fields /\ byRemote' \subseteq Fields
       /\ mishaps' \in Nat
  BY <1>3 DEF Serve, Reject, Stage, UpdateSucceeds, UpdateFails, Update,
              Disturb, TypeOK, past
<1> QED
  BY <1>0, <1>1, <1>5, <1>7, <1>8, <1>10, <1>11 DEF Take, TypeOK, shown

\* The controller's variables keep their types, and the unit never holds a
\* setting that nobody gave (HeatpumpController.TypeOK).
THEOREM TypeCorrect == Spec => [](TypeOK /\ WantedFirst)
<1> USE HeatpumpAssumption
<1>1. Init => TypeOK /\ WantedFirst
  BY DEF Init, TypeOK, WantedFirst, Nothing, Known, Settings
<1>2. TypeOK /\ WantedFirst /\ [Next]_vars => TypeOK' /\ WantedFirst'
  <2> SUFFICES ASSUME TypeOK, WantedFirst, [Next]_vars
               PROVE  TypeOK' /\ WantedFirst'
    OBVIOUS
  <2>1. CASE \E c \in Commands : Serve(c)
    BY <2>1, ServeTypeStep
  <2>2. CASE \/ Command \/ Drop \/ Restart \/ Remote \/ Connect \/ Connected
             \/ SyncReads \/ SyncOther \/ ServeNothing \/ UNCHANGED vars
    <3>1. TypeOK'
      BY <2>2, QuietTypeStep
    <3>2. CASE SyncReads
      <4>1. \A f \in Fields : unit[f] # Unset
        BY DEF TypeOK, Settings, HeatpumpAssumption
      <4> QED BY <3>1, <3>2, <4>1 DEF SyncReads, WantedFirst
    <3>4. CASE Restart
      BY <3>1, <3>4 DEF Restart, WantedFirst, Nothing
    <3>3. CASE ~SyncReads /\ ~Restart
      <4>1. UNCHANGED library
        BY <2>2, <3>3 DEF Command, Drop, Remote, Connect, Connected, SyncOther,
                          ServeNothing, vars
      <4> QED BY <3>1, <4>1 DEF library, WantedFirst
    <3> QED BY <3>1, <3>2, <3>3, <3>4
  <2> QED BY <2>1, <2>2 DEF Next
<1> QED BY <1>1, <1>2, PTL DEF Spec

\* What Home Assistant shows is what the controller last read, unless the
\* publication failed (HeatpumpController.RetainedIsCurrent).
THEOREM ShownIsCurrent == Spec => []RetainedIsCurrent
<1> USE HeatpumpAssumption
<1> DEFINE Unread == first = "yes" => current = Nothing
           Inv == RetainedIsCurrent /\ Unread
<1>1. Init => Inv
  BY DEF Init, RetainedIsCurrent
<1>2. TypeOK /\ Inv /\ [Next]_vars => Inv'
  <2> SUFFICES ASSUME TypeOK, RetainedIsCurrent, Unread, [Next]_vars PROVE Inv'
    OBVIOUS
  <2>1. CASE SyncReads
    <3>1. CASE Changed
      BY <2>1, <3>1 DEF SyncReads, SettingsChanged, RetainedIsCurrent
    <3>2. CASE ~Changed
      <4>1. unit # Nothing
        BY DEF TypeOK, Settings, Nothing
      <4> QED BY <2>1, <3>2, <4>1 DEF SyncReads, Changed, shown, RetainedIsCurrent,
                                      TypeOK
    <3> QED BY <3>1, <3>2
  <2>2. CASE Restart
    BY <2>2 DEF Restart, RetainedIsCurrent
  <2>3. CASE ~SyncReads /\ ~Restart
    <3>1. UNCHANGED <<current, first, retained, unpublished>>
      BY <2>3 DEF Next, Command, Drop, Remote, Connect, Connected, SyncOther,
                  ServeNothing, Serve, Reject, Stage, UpdateSucceeds,
                  UpdateFails, Update, Take, vars, library, shown
    <3> QED BY <3>1 DEF RetainedIsCurrent
  <2> QED BY <2>1, <2>2, <2>3
<1> QED BY <1>1, <1>2, TypeCorrect, PTL DEF Spec

-----------------------------------------------------------------------------
\* The inductive invariant of Obeyed.
Obedience ==
  \A f \in Fields :
    /\ Settled(f)
    /\ unit[f] # asked[f] => f \in withheld \cup byRemote

\* A setting an update sends without being told is what was asked, unless the
\* remote control has changed it.
LEMMA SentIsAsked ==
  ASSUME Obedience, NEW f \in Fields, wanted[f] # current[f], f \notin byRemote
  PROVE  wanted[f] = asked[f]
BY DEF Obedience, Settled

\* Handling a command keeps the library settled.
LEMMA ServeObeys ==
  ASSUME TypeOK, Obedience, HeatpumpAssumption, NEW c \in Commands, Serve(c)
  PROVE  Obedience'
<1> DEFINE Mine(f) == Settled(f) /\ (unit[f] # asked[f] => f \in withheld \cup byRemote)
<1> SUFFICES ASSUME NEW f \in Fields PROVE Mine(f)'
  BY DEF Obedience
<1>1. current' = current /\ first' = first /\ first \in {"yes", "no"}
  BY DEF Serve, Reject, Stage, UpdateSucceeds, UpdateFails, Update, Take, TypeOK
<1>2. Mine(f)
  BY DEF Obedience
<1>3. CASE Reject(c)
  BY <1>1, <1>2, <1>3 DEF Reject, Settled, past
<1>4. /\ With(asked, c)[f] = (IF f \in DOMAIN c.set THEN c.set[f] ELSE asked[f])
      /\ Staged(c)[f] = (IF f \in DOMAIN c.set THEN c.set[f] ELSE wanted[f])
  BY DEF With, Staged
<1>5. CASE Stage(c)
  <2>1. /\ unit' = unit /\ asked' = With(asked, c) /\ wanted' = Staged(c)
        /\ f \in withheld' <=> f \in withheld \/ f \in DOMAIN c.set
        /\ f \in byRemote' <=> f \in byRemote /\ f \notin DOMAIN c.set
    BY <1>5 DEF Stage
  <2> QED BY <1>1, <1>2, <1>4, <2>1 DEF Settled
<1>6. CASE Update(c)
  <2>1. /\ wanted'[f] = (IF f \in DOMAIN c.set THEN c.set[f] ELSE wanted[f])
        /\ asked'[f] = (IF f \in DOMAIN c.set THEN c.set[f] ELSE asked[f])
        /\ f \in byRemote' <=> f \in byRemote /\ f \notin DOMAIN c.set
    BY <1>4, <1>6 DEF Update
  <2>2. Updated[f] = (IF wanted'[f] # current[f] THEN wanted'[f] ELSE unit[f])
    BY DEF Updated, Sent
  <2>3. f \in Sent <=> wanted'[f] # current[f]
    BY DEF Sent
  <2>4. wanted[f] # current[f] /\ f \notin byRemote => wanted[f] = asked[f]
    BY SentIsAsked
  <2>5. CASE UpdateSucceeds(c)
    <3>1. unit'[f] = Updated[f]
      BY <2>5 DEF UpdateSucceeds
    <3>2. f \in withheld' <=> IF f \in DOMAIN c.set THEN c.set[f] = current[f]
                              ELSE f \in withheld /\ f \notin Sent
      BY <2>5 DEF UpdateSucceeds
    <3>3. CASE f \in DOMAIN c.set
      BY <3>1, <3>2, <3>3, <2>1, <2>2, <1>1, <1>2 DEF Settled
    <3>4. CASE f \notin DOMAIN c.set
      BY <3>1, <3>2, <3>4, <2>1, <2>2, <2>3, <2>4, <1>1, <1>2 DEF Settled
    <3> QED BY <3>3, <3>4
  <2>6. CASE UpdateFails(c)
    <3>1. unit'[f] \in {unit[f], Updated[f]}
      BY <2>6 DEF UpdateFails
    <3>2. f \in withheld' <=> f \in withheld \/ f \in DOMAIN c.set
      BY <2>6 DEF UpdateFails
    <3>3. CASE f \in DOMAIN c.set
      BY <3>2, <3>3, <2>1, <1>1, <1>2 DEF Settled
    <3>4. CASE f \notin DOMAIN c.set
      BY <3>1, <3>2, <3>4, <2>1, <2>2, <2>4, <1>1, <1>2 DEF Settled
    <3> QED BY <3>3, <3>4
  <2>7. CASE ~UpdateSucceeds(c) /\ ~UpdateFails(c)
    BY <2>7, <1>3, <1>5 DEF Serve
  <2> QED BY <2>5, <2>6, <2>7
<1> QED BY <1>3, <1>5, <1>6 DEF Serve, UpdateSucceeds, UpdateFails

\* Reading the settings, the first time or later, keeps the library settled.
LEMMA SyncObeys ==
  ASSUME TypeOK, Obedience, SyncReads
  PROVE  Obedience'
<1> DEFINE Mine(f) == Settled(f) /\ (unit[f] # asked[f] => f \in withheld \cup byRemote)
<1> SUFFICES ASSUME NEW f \in Fields PROVE Mine(f)'
  BY DEF Obedience
<1>1. Mine(f)
  BY DEF Obedience
<1>2. f \in withheld' <=> f \in withheld /\ unit[f] # asked[f]
  BY DEF SyncReads
<1>3. first \in {"yes", "no"}
  BY DEF TypeOK
<1> QED BY <1>1, <1>2, <1>3 DEF SyncReads, Settled

\* Nor does the remote control unsettle it, nor a restart.
LEMMA MishapObeys ==
  ASSUME TypeOK, Obedience, Remote \/ Restart
  PROVE  Obedience'
<1> DEFINE Mine(f) == Settled(f) /\ (unit[f] # asked[f] => f \in withheld \cup byRemote)
<1> SUFFICES ASSUME NEW f \in Fields PROVE Mine(f)'
  BY DEF Obedience
<1>1. Mine(f)
  BY DEF Obedience
<1>2. CASE Restart
  BY <1>1, <1>2 DEF Restart, Settled, Nothing, past
<1>3. CASE Remote
  <2>1. PICK g \in Fields, v \in Values :
          /\ unit' = [unit EXCEPT ![g] = v]
          /\ asked' = [asked EXCEPT ![g] = v]
          /\ byRemote' = byRemote \cup {g}
    BY <1>3 DEF Remote
  <2>2. UNCHANGED <<wanted, current, first, withheld>>
    BY <1>3 DEF Remote, library
  <2>3. CASE f = g
    BY <1>1, <2>1, <2>2, <2>3 DEF Settled, TypeOK, Settings
  <2>4. CASE f # g
    <3>1. unit'[f] = unit[f] /\ asked'[f] = asked[f]
      BY <2>1, <2>4 DEF TypeOK, Settings
    <3>2. f \in byRemote' <=> f \in byRemote
      BY <2>1, <2>4
    <3> QED BY <1>1, <2>2, <3>1, <3>2 DEF Settled
  <2> QED BY <2>3, <2>4
<1> QED BY <1>2, <1>3

\* Whatever the interleaving of commands, updates and readings, a setting that
\* is not as asked is one a command withheld or the remote control changed
\* (HeatpumpController.Obeyed).
THEOREM CommandsObeyed == Spec => []Obeyed
<1> USE HeatpumpAssumption
<1>1. Init => Obedience
  BY DEF Init, Obedience, Settled, Nothing
<1>2. TypeOK /\ Obedience /\ [Next]_vars => Obedience'
  <2> SUFFICES ASSUME TypeOK, Obedience, [Next]_vars PROVE Obedience'
    OBVIOUS
  <2>1. CASE \E c \in Commands : Serve(c)
    BY <2>1, ServeObeys
  <2>2. CASE SyncReads
    BY <2>2, SyncObeys
  <2>3. CASE Remote \/ Restart
    BY <2>3, MishapObeys
  <2>4. CASE Command \/ Drop \/ Connect \/ Connected \/ SyncOther
             \/ ServeNothing \/ UNCHANGED vars
    <3>1. UNCHANGED <<library, unit, past>>
      BY <2>4 DEF Command, Drop, Connect, Connected, SyncOther, ServeNothing,
                  vars
    <3> QED BY <3>1 DEF library, past, Obedience, Settled
  <2> QED BY <2>1, <2>2, <2>3, <2>4 DEF Next
<1>3. Obedience => Obeyed
  BY DEF Obedience, Obeyed
<1> QED BY <1>1, <1>2, <1>3, TypeCorrect, PTL DEF Spec
=============================================================================
