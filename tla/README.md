# Home Assistant configuration: verification project

TLA+ models of the programs and automations in this repository, checked with
TLC, and theorems about them proved with TLAPS. Paths below are relative to the
root of the repository.

## The system

One house, run by Home Assistant over MQTT. The repository holds the firmware of
the nodes in the house, the Home Assistant configuration that ties them together
and a few helper programs. Around them it vendors some 1660 files of Arduino
libraries, nearly all of its lines; of these two parts on which the nodes depend are
modelled: the transport of MySensors and the acknowledged datagrams of RadioHead.

    node --radio--> gateway --MQTT--> broker --MQTT--> Home Assistant
         <--radio--         <--MQTT--        <--MQTT--

### Inventory

| Component | State it keeps | Operations | What is hard | Correct when |
|---|---|---|---|---|
| Garage base station, `arduino/sudojosh-mysensors-relay-and-temperature` | relay pin, `initialRelayStateSent`, throttles | `loop` (ask for the initial value, measure the door, wait), `receive` (press the door button for 500 ms) | late answers, replayed commands, nested `receive`, power failure in a pulse | the button is never left pressed, the door moves once per command, Home Assistant shows where it is |
| Climate nodes' report throttle (three sketches) | last value and unchanged count of each channel | one reading per loop | lost reports, off by one, the initial zero | what is shown is the last value, and silence is bounded |
| Heat pump node, infrared, `arduino/sudojosh-mysensors-temperature-heatpump2` | power, mode, temperature, fan, flow name | a round of requests every five minutes, `receive` | one temperature for two setpoints, echoes that overwrite settings, sleep, restarts | setpoints, node and heat pump agree after a round |
| Heat pump controller, `platformio/heatpump-controller` | settings wanted and read (in the library), MQTT link, `lastTempSend` | `loop`, `mqttCallback`, `hpSettingsChanged`, `hpStatusChanged` | commands staged but not sent, stale belief, dropped connection, restart, wrap of the clock | settings are as asked, Home Assistant shows what the unit does |
| Zigbee joining, `homeassistant/packages/zigbee2mqtt.yml` | switch, timer, runs of two automations | on, off, expiry, restart | toggling during a run, state and command on one topic, nothing restored | the network does not stay open |
| Home Assistant configuration, `homeassistant/configuration.yaml` | switch states, automations | commands, notifications, Holiday Mode | optimistic and retained switches | states converge, every press is notified |
| MySensors transport, `MySensors/core/MyTransport.cpp` | state machine, parent, ID, counters of failures | search a parent, get an ID, ping the gateway, send, give up | lost and late answers, a four-bit counter, sleep, power failures | a node sends through a parent that reaches the gateway, and always gets ready again |
| WeMos DHT server, `arduino/sketch_apr28a` | last readings, `previousMillis` | setup, two HTTP requests | wrap of the clock, failed readings | the sensor is not read too often, answers are recent |
| Hot tub monitor, `arduino/sudojosh-mysensors-hottub-monitor` | lighting relay, `initialRelayStateSent` | `loop`, `receive` | the initial report overwrites the switch, late answers | the light is as shown, and as last set |
| ESPHome garage doors, `esphome/garage.yaml` | two relays, two template switches | on, 500 ms, off | overlapping pulses, reboot | a relay is held half a second after the last press |
| 433 MHz and nRF24 home monitor, `arduino/home-*`, `RadioHead/RHReliableDatagram.cpp` | message numbers, numbers seen, table of readings | send and wait, acknowledge, hand over | lost acknowledgements, numbers that come round, restarts, a radio without address | what is acknowledged was handed over, once and in order |
| Flame sensor, `raspberrypi/flame-sensor` | retained state at the broker | edge callback, restart | debounce hides edges, restart in a fire | the state shown is the pin's |
| Parking sensor, `arduino/parking_sensor` | two LEDs, a count of equal readings | one reading per loop | limits of the counter | the LEDs go out when nothing moves |
| Metlink and Tidespy, `homeassistant/custom_components` | last response | update, attributes | stale data, time conversions | a departure shown is in the future |
| Dreamland, `dreamland` | as Home Assistant | toggle script, notifications | as the garage | as the garage |

The remaining parts (build, containers, trials, vendored libraries) keep no state
of their own; `PROJECT.json` lists them with the reason they are left out.

The nodes and Home Assistant interact by messages only. A command is published,
retained, to the gateway's topic, and the gateway sends it by radio; reports go
the other way. A node also asks (`request()`) for the value the controller keeps
and gets it as a message that cannot be told from a command. Reports and messages
to sleeping nodes may be lost and nobody notices. Within a sketch all calls are on
one thread, but `wait()` and `sleep()` process messages and so call `receive()`.
Automations start on events and interleave at their service calls. Where this bites is
listed line by line as the hazards in `PROJECT.json`.

## Modules

Each component is one module; its theorems are in the module with `_proofs` after
its name, those of IntervalTimers, ReportThrottle and EsphomeGarage together in
`Timing_proofs`, which extends all three: so the last two name their `Init`, `Next`
and so on `RTInit` and `EGInit`. `PROJECT.json` maps every definition to its lines. Operators with an
underscore, defined just before the one they resemble (`SumDue_Late`, `IsNews_Always`),
are plausible mistakes in the code, used to show that each property can fail.

**GarageBaseStation**: node, radio, gateway, broker and the Home Assistant
switches of the garage. `pc` stands for the place in the program. It begins with `boot`:
`_begin()` waits for the transport and presents the node, processes messages all the
while, and so calls `receive()` before `loop()` has asked for anything; `setup` then
sleeps. A message that comes in `boot` is taken for the initial value, and `loop()`
neither reports OFF nor asks for the value (`asked` stays false). `frames` counts the
activations of `receive()` that hold the button down: a pulse sleeps, with the radio off,
when what arrives is lost (`LoseDown`, `wasted`); a `sleep()` entered without a ready
transport goes on processing messages, so `receive()` may be entered again. `receive()` looks neither at the child nor at the
value, so messages towards the node are counted (`down`); reports are a queue
(`up`), because the last one decides what is shown. `GatewayReconnect` delivers
retained commands once more. `Lossy` and `Prompt` say whether messages are lost and
whether an answer reaches the node within its 2 s.
External: the MySensors core, the gateway, the broker and Home Assistant's MySensors
switch (optimistic; reports overwrite it). Without loss the uplink is
faster than the node (`Room`): a report takes milliseconds, a loop ten seconds.

**ZigbeeJoin**: the switch, its timer, the Zigbee bridge, and the runs of the two
automations, counted by the service call they have reached (`starts`, `cancels`,
`turnOffs`). Any number of runs may be under way: Home Assistant 0.96 has no modes
that would refuse a second one. Command and state topic are the same, so one
publication goes to bridge and Home Assistant alike. A restart loses runs, timer and
what was on its way; a missed message is lost to Home Assistant only.

**HotTubLight**: the light of the hot tub node and its switch. `loop()` is `top`,
`await` (the wait for the initial value) and `idle`. Unlike the garage, every message
sets the relay, so messages towards the node are a queue of values. They are received
from the boot on, before the first `loop()` too. Answers may take
any time; a lost parent only loses messages here, since nothing sleeps. The two
temperatures and the display keep no state.

**HeatpumpController**: `loop()` is `connect` (`mqttConnect`), `sync` (`hp.sync()`),
`serve` (`mqtt_client.loop()`, at most one message). The HeatPump library is external
and modelled as the sketch uses it: settings `wanted`, settings last read `current`,
an update sends what differs, the first reading becomes what is wanted, and a reading
that differs from the one before calls `hpSettingsChanged()`. A command names any set of
settings and may carry `remoteTemp` or `custom` (`extra`), which stages the settings
without an update. Debug mode and packet dump change nothing else and are left out.

**HvacNode**: `loop()` is `boot`, `listen` (the waits of a round) and `asleep`.
`receive()` is one action with its reports. Temperatures are in half degrees
because the node stores a float in an int. Left out: the fan speed,
which never makes the node send a command (its reply is kept, since every reply is
answered with a report); reports of speed and flow, which are numbers and which
the controller does not accept for types that `MyMessage.h` gives as text; the
case of flow names. Taken to hold: the replies of a round arrive within its
20 s of waits, what is in flight arrives before the node wakes or has booted, the
controller knows all four values, and the heat pump hears every infrared command.
Whether the controller accepts the node's initial "off" is left open (`accepts`).

**MyTransport**: the transport of a node that is no repeater. `sm` and `config` are
`_transportSM` and `_transportConfig`; one action per outcome of an update
function, with the transition function of the state it enters, and one per message
awaited. Neighbours and radio are external: a request and its answer are one step,
and the answers in flight are received or lost; in `noisy` air a message may arrive
without its acknowledgement and the other way round. The radio's own failure to
start is a branch of `InitUpdate`. `token` is the token of the last ID request, which
a later request may repeat. The answers to a ping, to a request
for a signal report and to the parent's discovery request are alike (`AnswerPing`). Between
two updates any number of messages may be sent: `receive()` of the heat pump node sends
four reports, and one round of the FIFO calls it up to five times; `streak` remembers the
failures in a row, those that the last update came after, and whether so many came
between two updates that the counter may have come round. Left out: signing,
static parents and passive mode, which the sketches do not enable. **Uplink** is what it
promises to a sketch, **MCTransport** an instance with a gateway and a repeater.

**ReliableDatagram**: `sendtoWait()` of the stations and `recvfromAck()` of the base.
The base's sketch is not in the repository; it is taken to do nothing but
`recvfromAck()`. `assigned` are the stations that initialise the datagram manager. The
home monitor does not (`home-monitor.ino:37` calls `driver.init()` where
`radio.init()` is meant), so its radio keeps the broadcast address. An acknowledgement
reaches the stations that wait in the step that sends it: one that comes later is
discarded. `hand` is the message between its acknowledgement and its delivery.

**EsphomeGarage**: the two template switches and their relays, in ticks of the delay.
ESPHome is external: writing to a template switch stops the action that runs, and a
delay that is started again starts from its beginning. An off has no action of its
own, but it stops the pulse and so leaves the relay on (`cut`); the model says so and
the properties except it.

**WrappingClock**: readings of `millis()`, unsigned sums and differences. Used by
**IntervalTimers**, the two boards that wait for an interval: the heat pump controller
(line 268), which adds, and the WeMos server, which subtracts. `now` is the true
moment, which the program never sees. The server starts in `setup`, where it waits for
the network as long as that takes, with empty strings. A reading of the sensor sets
`previousMillis` (`done` is its moment) and then succeeds, which rewrites the strings
(`text` is the moment), or fails, which leaves them as they were. How old a value
is that the DHT library itself keeps (the comment on line 56) is not part of `text`, nor
is the quarter of a second that a reading takes.

**ReportThrottle**: the last value and the counter of each channel, what Home
Assistant shows, and what was lost.

Variables commented "past" are read by no action except to keep within a bound;
they let a property speak of what happened before.

## Runs

| Run | Question | Result |
|---|---|---|
| `garage_calm` | With nothing lost or late, but a power failure and a gateway reconnection: does every command press once, is every press notified, do the switches converge? | Yes, with these exceptions, each of which the run needs. The first message of a boot is swallowed: when a command is taken for the answer, the answer is taken for the command, but when it came before the node asked, nothing replaces it; a command that finds the node asleep is lost; a second one within a pulse presses nothing more (`EveryCommandPulsesOnce`). A pulse made without a parent is not notified, nor one cut by a power failure if a message then comes before the report of OFF (`PulsesAnnounced`), in which case the switch also goes on showing on (`ButtonShownReleased`). |
| `garage_rough` | With losses, late answers, a lost parent, a power failure, a replay: is the button released, is every press accounted for? | Yes. The presses nobody asked for are at most those of replays and of waits given up. |
| `zigbee` | However the switch is toggled while runs go on, does it agree with the network and does the network end closed? | Yes, except after a restart or a missed message with the network open (`orphaned`), when it may stay open for ever. |
| `hot_tub` | The node opens with a report of off, which may be wrong. Is the light still as shown, and as set, however late answers are? | Yes, unless a message is lost and nothing is published after it: the request that follows the report puts the light out too. After a restart the light is therefore off, and shown as off, whatever was set. |
| `heatpump` | Is every setting that is not as asked accounted for, and does Home Assistant end up showing what the unit does? | Yes; the exceptions are those named in `Obeyed` and, for what is shown, a publication that failed. |
| `hvac_node` | Do the two setpoints, the node and the heat pump come to agree, and on what was asked for? | Yes after every round without loss. A heating setpoint wins over a stale echo only because heating is requested after cooling; no such claim can be made of a cooling setpoint. |
| `interval_timers` | Is the room temperature early or late only around the wrap of the clock? Are the server's readings spaced, when does an answer show anything but a young reading? | Yes; spaced always, the first one from the start; an answer is less than an interval old unless the sensor failed when it was last read, less than an interval ago (then it is of any age, or empty), the board has just started (empty), or the clock has come round to the last reading. |
| `interval_timers_claim` | Is the room temperature sent only every interval (comment on line 268)? | No: in every loop between the wrap of the sum and that of the clock. |
| `throttle` | When reports are lost unnoticed, what is shown, and how long is the silence? | The last value sent unless one was lost; at most `Forced` + 1 readings per loss. |
| `transport` | Does a node send only through a parent that reached the gateway, give it up when it must and never else, and get ready in the end? | Yes, but a parent that is lost is kept when the counter of failures comes round between two updates, which takes 11 failures more in the code (`leapt`). The parent may be confirmed by a pong of an earlier search that was still under way (`late`). |
| `reliable_datagram` | What does the result of `sendtoWait()` say of the delivery? | An acknowledged message was handed over, unless power failed or the numbers came round; one that is not acknowledged may have been. A station without an address is never told, and stations alike are mistaken for each other. |
| `esphome_garage` | However on and off are written, how long is a relay held? | Until half a second after the last press, unless an off cuts the pulse: then until the next press or restart. |

The run that ends in a counterexample is the finding of `PROJECT.json`: for the last
minute of every 49.7 days the controller publishes its status in every loop.

Where else the code differs from what is said of it, no run is spent on it:

- The header of the garage sketch (line 26) says that the relay state survives a power
  failure. Nothing is stored, and the controller's answer is swallowed.
- The comment of the throttle (lines 54 to 57) says that a report is forced every
  `FORCE_UPDATE_N_READS` readings. It is every `FORCE_UPDATE_N_READS` + 1, the
  bound of `HeardInTime`.
- `sketch_apr28a.ino:60` says that a failed reading exits early "to try again". It is
  tried again only when the interval is over, and until it succeeds the requests are
  answered with the last strings, which the comment on line 56 takes to be up to two seconds
  old.
- The home monitor's radio has no address, as above. Nothing is ever
  acknowledged to it, so every reading is sent four times; `NeverTold` states it of
  every station that starts like this.
- `home-monitor-garage-door.ino:53` gives `toCharArray()` the length without the final
  zero and so drops the last character, harmless for "23.00" but not for "512".

### Bounds

- `garage_calm`: 2 commands, 1 reconnection, 1 power failure, 2 waits given up, 3
  reports under way. Two commands are what it takes for one to be swallowed as the
  initial value, before or after it was asked for, and another to overlap; a power failure
  in an abandoned wait needs both. `garage_rough` has 1 wait given up and 1 report under way: losses make
  every longer queue look like a shorter one to its two properties, which do not
  read the queue.
- `zigbee`: 4 requests and 2 faults: on and off twice, which a run of either
  automation can straddle, with a restart and a missed message.
- `hot_tub`: 3 commands, 3 faults of any kind, a new loop with up to 4 messages on their
  way: two unanswered rounds, and a command between any two of their messages.
- `heatpump`: two settings of two values, so that a command can name one, the other or
  both; room for two keys instead of six, so that both with `remoteTemp` are refused
  as all six with it are; 2 commands, of which the second may ask for the old value; 2
  mishaps, in any combination of drop, restart, failed update and remote control.
- `hvac_node`: one half degree (41, with 42 as initial value), flow states off and
  cool, 2 settings, and one lost message or one power failure. A stale echo, the
  setting it overwrites and the fault fit in.
- `interval_timers`: clock of 8 readings, interval 3, steps of up to 11, so that one
  pause can exceed a turn; three turns. The theorems are for every width.
- `transport`: a gateway and a repeater, two tokens, one retry of a state, one failure that
  is borne, a counter of two bits, and no more messages once five in a row have failed: each
  limit is reached and passed, and the counter comes round between two updates. The
  search has no other numbers, and losses, sleep and power failures are not bounded.
- `reliable_datagram`: two stations, each with or without an address, three numbers and
  four messages between them, so that one station's come round; one retry, room for two
  messages, one power failure.
- `esphome_garage`: two doors, a delay of three ticks; nothing else is bounded.
- `throttle`: `Forced` 2, 2 losses per channel, 9 readings without news, one more
  than the property allows with two losses.

`CHECK_DEADLOCK FALSE` stands where the bounds let the system stop: users that ask for
nothing more, a clock at its last moment.

### Fairness

Fairness is stated of what the code or the hardware does by itself, never of users,
faults or remote controls.

- Garage: `loop()` goes on (weak, on all steps of the node together); Home Assistant
  handles what reaches it (weak); `receive()` gets what is in flight: strong, because
  the node listens only in its boot and in the windows of its loop, of which the last is
  ten seconds long and comes round in every loop.
- Zigbee: messages arrive, runs go on, the timer runs out (weak each).
- Hot tub: as the garage.
- Heat pump controller: the steps of `loop()` (weak); `SyncReads` strong, since `hp.sync()`
  does other things in some rounds but polls the settings again and again.
- Transport: messages arrive, a sleeping node wakes, power comes back (weak each); the
  updates strong, since a node asleep updates nothing, but `_process()` runs before every
  `loop()` (`MySensors/hal/architecture/AVR/MyMainAVR.cpp:30`), and `sleep()` itself
  updates for up to ten seconds before it sleeps unready. `FinallyReady` asks for calm air:
  while it is noisy, all may be lost for ever.
- ESPHome: time goes by and a delay that is over is noticed (weak each). Nobody is
  obliged to stop pressing, which `FinallyReleased` excepts.
- Heat pump node: booting, waking, sleeping, and the delivery of messages (weak).

The clock, throttle and datagram models have safety properties only and need none.

## Proofs

Every safety property that a passing run checks is also a theorem, of the form
`Spec => []Inv` (or `[][A]_vars`), for all values of the
constants under the named assumptions of each module (`BoundsAssumption`,
`ZigbeeAssumption`, `HotTubAssumption`, `HeatpumpAssumption`, `HvacAssumption`, `WrapAssumption`,
`TimerAssumption`, `ThrottleAssumption`, `TransportAssumption`, `DatagramAssumption`,
`DelayAssumption`): that bounds are natural
numbers, sets are of the right kind, an interval is shorter than the clock, and a datagram has at least one retry and the radio room for one message (in the
code: `RH_DEFAULT_RETRIES` is 3, and the radio's FIFO holds 3). Each of these modules has
its type invariant proved (`TypeCorrect`, `ThrottleTypes`, `RunningCorrect`); the runs
leave it out, but for those of the heat pump controller, which says that an update sends
no setting that nobody gave, and of the datagrams, which says that a number stays within
its bits. The strengthened invariants were checked with TLC on the instances of the runs
before they were proved. Beyond the types:

- **GarageBaseStation**: `ButtonNeverLeftPressed`, and `NoPressUnaccountedFor`:
  pulses are at most commands, replays and waits given up. This is not inductive: a
  message in flight or a request not yet answered is a press to come. The
  strengthening (`Accounted`) counts these in, and has a wait that still goes on pay
  for the answer it expects; `Phases` says that it is over once a message was swallowed.
  `OnePressPerCommand`: undisturbed, the same account is exact (`ExactAccount`): the first
  message of a boot presses nothing, whether or not a request brings another, and the
  loop does not go on from an unanswered request; it rests on the node keeping its
  parent once it is out of the boot (`Steady`). `EveryPressAnnounced` bounds presses by the
  notifications sent, those muted, and those that reading the queue will cause (`Due`: the
  reports of a release before which the button is shown on). The invariant
  (`AnnouncedInv`) says that these make up for all presses but one, whose report of ON is
  the last of the button and which is held or was cut by a power failure (`Held`). Lemmas say
  what appending a report, reading one and a command do to `Due` (a bijection between
  the places of the queue).
- **ZigbeeJoin**: `SwitchNeverLeftOn`. `ShownOnIsWatched` is inductive; the
  work is in the queue: lemmas say what taking its head and appending to it do to
  the presence of a "false" in it. `SwitchTellsTheTruth` and `OpenNetworkWillClose`: both
  speak of empty queues, and the invariant (`Agreed`) of what bridge and Home Assistant will
  come to when they have read theirs, which is as the last payload published says; a message
  missed is made up for by a "false" still to come (`MissedIsMadeUp`).
- **HotTubLight**: `ShownIsLit` and `WishIsLit`. Neither is inductive: they speak
  of empty queues. `Agreed` says it of the newest value on its way to the node, and of what the
  broker keeps; `Asking`, that a report is never without a request behind it;
  `Wished`, that nothing on its way can change a switch set since the start.
- **HeatpumpController**: `ShownIsCurrent` and `CommandsObeyed`. For `Obeyed` the
  invariant is `Settled` for each field: what the library wants is what was asked, or it
  has settled against a withheld command on what the unit does. A lemma treats the
  first reading, which makes wanted whatever nobody has given.
- **HvacNode**: `LastCommandIsState`. The flow name kept must say what power and mode
  are (`StateNamed`), for only then is a repeated name no change of state; and a
  message that changes nothing by the comparison of float and int leaves the
  int as it was (`NothingChanged`). `OneSetpoint`, `UnitDoesAsShown` and `HeatWishInForce` speak
  of the end of a round, when nothing is on its way. `RoundInv` says where each is headed
  during it: a setpoint, to the last report of it in the queue or, without
  one, to where it is (`Becomes`); the flow state, to a request behind all its reports, or to the
  last reply; a wish, to a request still to be asked, the last reply on its way, or the
  node's own temperature. This rests on the order of the requests (`InOrder`).
- **ReliableDatagram**: `HandedOverOnce` and `AcknowledgedArrives`. `Ordered`: what the
  base has of a station comes in the order in which it was first sent, none before the one handed over
  last. `Numbered`: the transmissions of a message have one number, and so a base
  that forgot nothing knows the message it handed over last when it meets it again (`Known`). For
  the second, numbers are counts modulo `Ids` while the station has power (`Counted`): a number
  equal to that expected belongs to the message itself or to one a whole round older
  (`SameNumber`), and a message that is no news was handed over (`Recorded`). `CalmIsTold`:
  a station without a retry left has its message with the base (`CalmInv`), because the base
  has emptied its radio before a timeout ends, and then there is room for the retry.
  `NotToldWithoutAddress` needs types only. `TypeCorrect` bounds the numbers by the calls.
- **EsphomeGarage**: `RelayNotHeldLong`, `PulsesWhole`. An action that runs was started by
  the last press: what is left of its delay and what has passed since add up to it; a
  relay that is held has such an action or one that was stopped (`Running`).
- **IntervalTimers**: `RoomTemperatureOnTime`, `ReadingsSpaced`, `AnswersRecent`. The
  invariant ties stored readings to moments; the lemmas are about
  remainders: what a sum is when it wraps once, and that the difference of
  two readings is the time that passed, less whole turns. `Written`: the strings are those of
  the last reading unless it failed.
- **MyTransport**: `RouteAlwaysKnown`, `ReadyAlwaysConfirmed`, `FailuresAlwaysNoticed`, and
  `PromiseKept`: it implements **Uplink**, where the parent seen is that of a ready
  node. `Phases` says what flags, ID and parent are in each state; `PongsInOrder`, that
  unless pongs were left over by the last search all come from the parent of this
  one; `Counting`, that the counter shows the true number of failures as long as that is less
  than its width, and never more than it, and that without a leap between two updates the
  next one comes in time. The width is any number. Under it each action is a step of Uplink or changes nothing of it: only
  entering the ready state connects, only `ReadyUpdate` with too many failures gives up.
- **ReportThrottle**: `ShownUnlessLost`, `SilenceBounded`. `HeardInTime` is
  strengthened with the counter: silence is at most the counter plus `Forced` + 1
  for each loss.

### Only model-checked

- All liveness: `ButtonShownReleased`, `DoorFinallyShown`, `FinallyClosed`,
  `FinallyAsShown`, `FinallyShown`, `FinallyAgree`, `FinallyReady`, `FinallyReleased`. The prover handles neither fairness nor ENABLED.
- Nothing is recursive; if it were, what it computes for every input could not be
  proved either, as the induction theorems cannot be instantiated.

## Not modelled

- Of the vendored libraries, whatever the nodes do not run: repeaters, gateways other than
  MQTT, firmware updates, signing, other radios. They are nearly all of the
  repository's lines, so the share of it that is modelled is small.
- The 433 MHz sketches: they send without acknowledgement, and what is lost depends on
  the length of messages and web requests, which the code does not fix.
- The flame sensor: a callback of three lines on top of a debounce that is not in the
  repository. Holiday Mode: a sequence with two delays of which nothing says what it
  owes to lights used meanwhile. The parking sensor: one loop without concurrency.
- Metlink and Tidespy are one HTTP request per update; their time conversions would be a
  pure module.

The first version of the heat pump node does not compile. Dreamland is an earlier
configuration with the same garage switch. Displays, HTTP, formatting, calibration
offsets, over-the-air updates, containers and build files are left out as pure
input and output, and the vendored libraries beyond what the nodes use of them.

## Plan

1. *Done*: garage, Zigbee, hot tub, heat pump controller, heat pump node, clocks,
   throttle, transport, datagrams and ESPHome doors, with all their safety properties checked
   and proved; the transport shown and proved to implement Uplink.
2. **Register**, an abstract specification: a value that is asked for, done and
   shown, for HotTubLight and, once a round is over, HvacNode.
