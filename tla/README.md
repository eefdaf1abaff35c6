# Formal model of ha-marstek-ble

TLA+ models of the Home Assistant integration in `custom_components/marstek_ble` and of the
command line tool in `standalone_test`, checked with TLC and, for the modules named below,
proved with TLAPS. Line numbers are those of the source at the commit the models were written
from; paths without a directory are under `src/custom_components/marstek_ble/`.

## 1. Inventory of the system

| Component | State | Operations | Talks to |
| --- | --- | --- | --- |
| BLE transport, `marstek_device.py` class `MarstekBLEDevice` (700-1231) | client, notification flag, two locks, inactivity timer, pending command and its event | `send_command`, `_ensure_connected`, `_on_disconnect`, `_reset_disconnect_timer`, `_execute_disconnect`, `disconnect`, `record_notification` | Bleak (awaited calls, callbacks); called by the coordinator and the control entities |
| Frames, `MarstekProtocol`, `MarstekData` (31-697) | none | `build_command`, legacy parser | `build_command` is used by the transport; the parser is what the runtime must agree with |
| Polling coordinator, `coordinator.py`, `product_coordinator.py` | poll lock, fast and medium counters, intervals, data, ready event; module globals: backoff level and deadline | bluetooth- and time-triggered polls, `set_poll_intervals`, `_handle_backoff`, `_handle_notification` | `send_command`; notification callback; listeners of entities |
| Product runtime, `product_runtime.py`, `products/*`, `product_coordinator.py` | the data object, `field_updates` under canonical paths and older names | `parse_notification`, `parse_payload`, poll plan | called by the notification handler, which then calls the listeners |
| Packet schemas, `schema.py`, `products/venus.py`, `products/jupiter.py` | none: tables of offsets, sizes and minimum lengths | `validate_payload`, `parse_into` | called by the runtime |
| Entity plan and manager, `entity.py`, `product_entity_platform.py` | one manager for each platform with the keys of the entities it has made | `build_entity_plan`, `sync` at every listener round | coordinator listeners; Home Assistant adds entities later |
| Sensors, `sensor.py`, `binary_sensor.py` | the state last written | value and availability, written at listener rounds | read data and time stamps of the coordinator |
| Controls, `select.py`, `switch.py`, `button.py` | `_attr_current_option`, `_assumed_state` | one command each; some are read back | `send_command` and its lock, coordinator listeners |
| Entry lifecycle, `__init__.py` | coordinators by entry | setup, unload, option update | all of the above |
| Config flow, `config_flow.py` | the device of a card, the devices of a form | discovery, confirmation, user step, options step | creates entries; flow manager and unique IDs of Home Assistant |
| Diagnostics, `diagnostics.py` | none | snapshot | reads |
| Command line tool, `standalone_test/marstek_basic_info.py` | batteries found, frame buffer, a FIFO of futures for each command byte, results | discovery, session, collection, report | an ESPHome proxy over its API |

What is hard in this system, and what makes each part correct:

* **Transport.** One asyncio loop, but many tasks: polls, buttons, selects, the inactivity timer,
  unloading. Every await is a point where another task, the disconnected callback or a
  notification comes in. Correct means: commands do not overlap; a call returns True only on a
  response to a request it has outstanding; every call ends; there is at most one link and it is
  subscribed; no link is left up with nobody to close it.
* **Coordinator.** Polls are started by two triggers and wait for one lock; the backoff is shared
  by every battery. Correct means: the medium group is neither starved nor faster than
  configured, backoff grows and is cleared as intended, polls do not overlap.
* **Runtime and schemas.** Payloads come in several lengths and two decoders that share no code must
  agree on all of them. Correct means: a frame is applied in full or not at all; a value's time stamp
  is that of its frame; what is computed from two values is computed from one frame.
* **Entities.** Pack counts change while platforms are set up and entities are being added. Correct
  means: every part the battery reports gets its entities exactly once; an entity is not shown on
  data that has gone or grown old.
* **Controls.** Calls of several users queue with polls, are repeated, and their answers may be lost
  or late. Correct means: the state shown is the device's, or becomes it when it is read back.
* **Lifecycle.** Setup may fail and be repeated while polls go on. Correct means: one coordinator
  serves a loaded entry, with the options of now.
* **Config flow.** Cards and forms lie open for any time beside one another. Correct means: a battery
  gets one entry, whichever of them is finished first.
* **Tool.** Answers come in chunks, late or not at all. Correct means: frames survive fragmentation
  and loss; responses go to the commands they answer; links are released; the run ends.

`PROJECT.json` lists the hazards one by one with their lines.

## 2. Plan

| Order | Module | Models | Composes | Main questions |
| --- | --- | --- | --- | --- |
| 1 (done) | `BleDevice` | `MarstekBLEDevice` | the BLE stack as environment | locks, links, subscription, termination |
| 1 (done) | `CommandChannel`, `BleDeviceRefines` | what `send_command` promises | refinement of `CommandChannel` by `BleDevice` | success only on a response |
| 1 (done) | `BleCorrelation` | `BleDevice` with an observer | `BleDevice` | whose answer was it |
| 2 (done) | `PollCoordinator` | several coordinators, their triggers and the shared backoff | `send_command` as a nondeterministic result | cadence, shared backoff, lock |
| 3 (done) | `EntryLifecycle` | setup, unload, options | coordinators in outline | one coordinator per battery |
| 4 (done) | `PacketLayouts`, `ProductData` | packet tables, both decoders, time stamps, notification handler | `PacketLayouts` | drop-in decoding, atomicity, freshness |
| 5 (done) | `ProductEntities` | plan, managers and availability | notifications and time as environment | no duplicates, no loss, no stale or ghost entity |
| 6 (done) | `ControlEntities` | selects, switches and buttons | queue of the transport, polls, battery | assumed against actual and read-back state |
| 7 (done) | `FrameBuffer`, `StandaloneTool` | the tool | `FrameBuffer` over a lossy stream | resynchronisation, matching, ending |
| 8 (done) | `ConfigFlow` | discovery cards and user forms | flow manager as environment | one entry for a battery |

Every safety property of the runs that hold is also proved for all values of the constants
(section 11), those of the tool's stream under hypotheses on the payloads; liveness is model-checked,
with the safety half of three of its properties proved. For three properties that fail it is proved
which step that takes.

## 3. The transport (`BleDevice`)

### State

| Variable | In the code |
| --- | --- |
| `pc`, `held` | the await a task is suspended in, and the client object that await is made on |
| `opOwner`, `connOwner` | holders of `_operation_lock`, `_connect_lock` |
| `client`, `started` | `_client`, `_notifications_started` |
| `pending`, `event` | `_pending_command`; `_response_event` (None, clear, set) |
| `timer`, `young` | `_disconnect_timer`; the timer that is less than 30 s old because the 2 s wait after its write still runs |
| `cmd`, `attempt`, `result` | parameter, loop variable and outcome of `send_command` |
| `links`, `notifying`, `replies` | the stack: clients that are connected, those subscribed, responses in the air |

Not modelled: histories, counters and timestamps, `_response_data` (never read),
`_expected_disconnect` (selects a log level), the bytes of frames (a frame is its command byte).
A response that is not a complete frame still completes a command in the code if its fourth byte
matches; the model has one kind of response per command byte and does not tell them apart.

### Actions

An action runs from one await to the next. `send_command` is `Call`, `AcquireOp`,
`EnsureConnected`, (`SenderAcquiresConn`, `EstablishSucceeds`/`EstablishFails`,
`SubscribeSucceeds`/`SubscribeFails`, `CleanupDone`), `WriteSucceeds`/`WriteFails`,
`ResponseReceived`/`ResponseTimeout`, `DropDone`, `BackoffOver`. `Cancel` is a CancelledError at
any of its awaits. A timer is `TimerFires`, `IdlerAcquiresConn`, `IdleDisconnectDone`;
`disconnect()` is `Disconnect`, `CloserAcquiresConn`, `NotificationsStopped`, `DisconnectDone`. The
environment is `DropLink`, `DeviceAnswers`, `Deliver`.

Two things about the environment are worth knowing. `DisconnectSucceeds` runs the disconnected
callback, as Bleak does for a requested disconnect too; the code relies on it to forget the
client. And `record_notification` is called by the coordinator's notification handler for every
notification, whether it was parsed or not, so `Deliver` does not look at the payload.

Three constants switch faults on: `MayCancel` (a caller's task is cancelled), `DisconnectMayFail`
(`client.disconnect()` raises and the link stays), `LateSubscribeAck` (`start_notify` returns
although the link has gone in the meantime).

### Properties

| Property | Kind | Says |
| --- | --- | --- |
| `LockDiscipline` | invariant, proved | each lock is held by exactly the task inside its scope |
| `RequestIsPending` | invariant, proved | the request in flight is the pending one |
| `OneLink` | invariant, proved | never two links |
| `ClientIsLive` | invariant, proved | `_client` is never an object whose link is gone |
| `ListensWhileWaiting` | invariant, proved | a request on a live link can hear its answer |
| `LinkIsWatched` | invariant, proved | an idle link has a timer or a `disconnect()` to close it |
| `ImplementsChannel` | refinement, proved | `send_command` keeps `CommandChannel`'s promise |
| `CallsGetShorter` | action property, proved | a call never goes back: each step of it that is not waiting brings its end nearer |
| `AnswersThisCall` | invariant, fails | a call succeeds on an answer to itself |
| `CallsEnd`, `LinkIsReleased` | liveness | calls end; the link is released when commands stop |

### Runs

| Run | Faults | Instance | Result |
| --- | --- | --- | --- |
| `ble_safe` | none | 2 senders, 2 timers, 1 closer, 2 clients, 2 bytes, 3 attempts | holds, 30 thousand states |
| `ble_faults` | all | as above, 1 byte, 2 attempts | holds, 330 thousand states |
| `ble_live` | late acknowledgement | 2 senders, 1 timer, 1 client, 1 byte, 2 attempts | holds, 10 thousand states |
| `ble_correlation` | none | 2 senders, 2 bytes | `AnswersThisCall` fails |

`ble_correlation` is a finding of `PROJECT.json`: the code does something that a document of the
repository rules out. Section 11 says what it takes: an answer that its call left behind in the air.
`CallsGetShorter` is checked with all faults: a lost link, a failing disconnect or a late answer may not
make a call start over. `OneLink`, `ListensWhileWaiting` and `LinkIsWatched` are claims about the
fault-free environment only: with cancellation or with a disconnect that raises, a link can be lost
from sight. Which steps do it is part of the proofs (section 11). Two more counterexamples have no run of their own and are one line away from `ble_safe`:

* `ListensWhileWaiting` with `MayCancel = TRUE`: a CancelledError during `start_notify` passes
  `except Exception` (830), the connection stays, and the next command waits on a link that
  delivers nothing until its timeout drops it.
* `DisconnectsOnlyInactive`, as a PROPERTY of `ble_safe` without its symmetry: the timer is reset
  only after a write has returned (944), so one armed by an earlier command may take the link down
  under a write that takes long.

Bounds. Two senders are enough for every queueing situation, since the operation lock makes more
senders wait at the same place. Two timers: one that has fired and is suspended, and one that is
armed. Two clients: the one in use and one that is left over. Two bytes: equal and different
commands; where only one byte is used, the property does not compare bytes. Two attempts: a first
and a last one; `ble_safe` has a middle one as well. Symmetry is used for safety only.

Fairness (`BleDeviceRefines`). A task that can continue does so and each awaited call of the stack
returns or raises: weak fairness of each task's steps. `asyncio.Lock` is FIFO, so strong fairness
of acquiring a lock. Due timers run: part of weak fairness. Nothing is assumed of callers, of link
loss, of the device or of its responses. Liveness is not claimed with `DisconnectMayFail`, where
the inactivity timer may fail for good, nor with cancellation, which ends calls by itself.

## 4. The polling coordinators (`PollCoordinator`)

### State and actions

| Variable | In the code |
| --- | --- |
| `level`, `window` | `_GLOBAL_BACKOFF_LEVEL`; time left until `_GLOBAL_BACKOFF_UNTIL` |
| `fast`, `medium`, `cycle` | the sanitised intervals and `_medium_poll_cycle` |
| `count` | `_fast_poll_count` modulo `cycle`, the only way the code reads it |
| `initialDone`, `seen`, `failed` | `_initial_poll_done`; `_last_service_info` is not None; a failure in `_current_poll_commands` |
| `lock`, `pc`, `left` | `_poll_lock`; where a poll is and the commands left in its group |
| `next`, `age` | time until the time trigger calls; time since `_last_poll_started_at` |
| `gap` | an observer: fast groups since the last medium group or change of intervals |

A poll begins with `TimePoll` (or `TimePollSkipped`) or `EventPoll`, gets the lock in
`PollSkipped` (a backoff window is open) or `PollStarts`, and goes through `CommandDone`,
`FastGroupDone` and `MediumGroupDone`; the step of its last command includes the backoff and the
release of the lock, because no await lies between them. `SetIntervals` is the options listener,
which takes no lock. `TimePasses` is the clock. A command ends with success or failure as it
likes: what that means is `CommandChannel`'s affair. Home Assistant's debouncer lets one
advertisement-triggered poll of a coordinator run at a time; its cooldown is left out, which allows
more behaviours.

The notification handler is in `ProductData`. Not modelled in `coordinator.py`: the flag that
`_async_handle_unavailable` sets for a log line, and durations and counters nothing reads.

### Properties and runs

| Property | Kind | Says |
| --- | --- | --- |
| `OnePollAtATime` | invariant, proved | one poll of a battery sends commands, whatever the triggers do |
| `WindowMatchesLevel` | invariant, proved | the shared window never exceeds the level's entry, nor outlasts a success |
| `MediumKeepsUp` | invariant, proved | a medium group in every cycle of fast groups |
| `MediumOnTime` | action property, proved | after the first poll, medium groups are a cycle of fast groups apart, the first pair perhaps one less |
| `Cadence` | invariant, proved | the cycle is the medium interval in fast intervals, rounded up |
| `PollsGoOn` | liveness | polls end, and polling resumes after every backoff |
| `FastPollsSpaced` | action property, not satisfied, in no run | polls start a fast interval apart |

| Run | Instance | Result |
| --- | --- | --- |
| `poll_safe` | 2 coordinators, a time and an event poll each, backoff <<1, 1, 2>>, intervals up to 2 and 3, requests inside and outside the bounds | holds, 707 thousand states |
| `poll_live` | 2 coordinators, 2 fast commands, backoff <<1, 1>>, fixed intervals | holds, 43 thousand states |

`FastPollsSpaced` states what the comment of the scheduler says ("runs at the configured base
interval", 363). As a PROPERTY of `poll_live` TLC refutes it in a few steps: an advertisement starts
a poll whatever the age of the last one, and polls that have waited for the lock follow at once.

Bounds. Two coordinators are what sharing the backoff needs. One time poll under way besides one
event poll gives every order at the lock; `TimeSlots` bounds the backlog of timed polls, and the
model lets the trigger pass without a poll only where the code does, so that with all slots taken
time stops until a poll ends. The table of backoffs keeps the shape of `BACKOFF_INTERVALS`: an
entry for "no backoff", then growing ones, the last of which repeats. Liveness uses fixed
intervals: each change restarts the time trigger, and changes without end could put it off.

Fairness. Time passes, the time trigger runs when due, and commands end (`CallsEnd` shows that of
the transport): weak fairness. `asyncio.Lock` is FIFO: strong fairness of taking it. Nothing is
assumed of advertisements or of the success of commands.

## 5. The config entry (`EntryLifecycle`)

### State and actions

Every setup makes a coordinator object (`created`); `runtime`, `stored` and `platforms` are the
three places that refer to one (`entry.runtime_data`, `hass.data`, the entities). `listening` has
the coordinators whose `async_start` and update listener are not undone; `ready`, `intervals`,
`sending` and `linked` are state of each coordinator and its device. `entry` is Home Assistant's
state of the entry together with the await that setup or unload is suspended in.

Setup is `SetupNotFound`, `SetupBegins`, `BatteryReady` or `ReadyTimeout`, `PlatformsForwarded`;
unload is `UnloadBegins`, `Disconnected`, `PlatformsUnloaded` or `PlatformsStay`. `ChangeOptions`
queues a run of the update listener, `HandleUpdate` is that run. `CommandStarts` needs nothing but
a coordinator that was created: its time trigger is never unsubscribed.

Home Assistant's side is modelled from what the code relies on: setup and unload of one entry do
not overlap, `on_unload` callbacks run after a successful unload and after `ConfigEntryNotReady`,
a retry is a new setup, and an entry that failed to unload is not set up again. An exception from
forwarding the platforms is not modelled.

### Properties and runs

| Property | Kind | Says |
| --- | --- | --- |
| `OneListener` | invariant, proved | advertisements reach one coordinator, the one in `runtime_data` |
| `EntitiesAreServed` | invariant, proved | entities of a loaded entry belong to the stored, listening, ready coordinator |
| `OptionsInForce` | invariant, proved | no change of the options is lost, those during setup included |
| `CommandsAreSerialized` | invariant, fails | one command to the battery at a time |

`entry_safe` checks the first three with 3 setups, 2 values of the options and 2 updates under way
(91 thousand states): a first setup, one that replaces it and one that replaces a replaced one; an
update overtaken by another. `entry_serial` shows the last one to fail: the coordinator of a setup
that was retried or unloaded polls on beside its successor. That is a finding. It takes such a
coordinator: setups and reloads alone do not break the serialization (section 11).

### How entries come about (`ConfigFlow`)

`entries` has the battery and unique ID of every entry; `flows` has of every open flow its step, its
unique ID, if it has one, and what it offers. `Discover` is `async_step_bluetooth`, `Confirm` the confirmation of its
card, `ShowForm` and `Choose` are the two calls of the user step. Each runs without an await that gives
way, so it is one action; between them anything may happen. `CreateEntry` is what Home Assistant's
flow manager does with a finished flow: an entry of the same unique ID is replaced, other flows of that
ID are ended; it also refuses a second card for an ID. The options step stores its input: that is
`ChangeOptions` of `EntryLifecycle`. Names without the prefix of a battery are filtered before anything
is kept and are left out; so are ignored discoveries.

| Property | Kind | Says |
| --- | --- | --- |
| `OneEntryPerAddress` | invariant, proved | an address gets one entry, however many flows offer it at once |
| `CardsAreNew` | invariant, proved | an open card is for an address without an entry and without another card |
| `OneEntryPerName` | invariant, fails | a battery that changes its address has one entry |

`OneEntryPerAddress` and `CardsAreNew` are proved for all values of the constants and need no run.
`ConfigFlow.cfg` has TLC check them as well, with a battery under two addresses, another battery and
three flows (819 states up to symmetry): `tlc -config ConfigFlow.cfg MCConfigFlow`. With the invariant
`OneEntryPerName` added it finds the counterexample in four steps: two cards for the two addresses, then
both confirmations. Comments at the check of the name say that it "prevents duplicate discovery when
devices use random MAC addresses" (71, 172); but names are compared when a card or form is built and not
when it is confirmed.

## 6. Decoding (`PacketLayouts`, `ProductData`)

### State and actions

`PacketLayouts` is data, as relations: for each product the packets with their least and greatest
payload length, every field source with offset, size and minimum length, the fields of derived
sensors, the packets that polls ask for, and, for a Venus, the slices that `MarstekProtocol` cuts. A field is a section,
an item number and a name.

| Variable of `ProductData` | In the code |
| --- | --- |
| `product` | the runtime chosen at setup |
| `value` | the data object; a value is the number of its frame and the bytes it was read from |
| `marks`, `flat` | `field_updates` under canonical paths, and under the one-word names older code reads |
| `told` | the last frame after which `async_update_listeners` was called |
| `legacy`, `legacyTold` | values and result of `MarstekProtocol.parse_notification` on the same frames |

`Notify` is the whole handler: checks of the frame, length check of the packet, the updates whose
sources apply to a payload of that length, the parsers of text packets, time stamps, listeners.
Converters are left out, because two decoders agree on a field exactly if they read the same bytes
of the same frame. A Venus text packet may name some of its attributes and not others; a text of a
Jupiter may fail to decode.

### Properties and the run `product_data`

| Property | Kind | Says |
| --- | --- | --- |
| `DropIn` | invariant, proved | the Venus runtime and `MarstekProtocol` leave the same bytes of the same frames under every name, and report the same frames |
| `MetadataMatchesValue` | invariant, proved | the time stamp under a path and under its older name is that of the value's frame |
| `DerivedInputsAgree` | invariant, proved | what a derived sensor is computed from came in one frame |
| `LayoutsAreSound` | invariant of the tables, proved | fields overlap only if nested, fit a payload, and are polled if an entity shows them; a payload of any length from 0 to 250 is read alike by both decoders, with at most one value for a field |
| `RejectedFramesAreIgnored` | action property, proved | a frame the listeners are not told of changed nothing |

The run takes every sequence of three frames out of some thirty for a Venus and a dozen for a
Jupiter: for each command the lengths on both sides of every minimum of the tables, text with none,
one and several attributes, a corrupt frame and an unknown command (3.8 thousand states). Three
frames are a first one, one that overwrites part of it, and one that overwrites part of both.
`LayoutsAreSound` looks at single frames, but of every length; the proofs of section 11 go through the
tables again, for whatever a frame's text names, and carry the result over to sequences of any number
of frames.

Two differences do not show in `DropIn` and are worth knowing. `MarstekProtocol` marks every
attribute that is not None after 0x04 and 0x24, those of earlier frames included, so its time stamps
are newer than its values; nothing but its tests reads them, and the product runtime does not do it.
And the name `error_code` of a Jupiter is entered by the inverter's field of that name as well as by
`battery.error_code_1`, whose value it reads; `MetadataMatchesValue` leaves that one name out.

## 7. Entities (`ProductEntities`)

### State and actions

`up`, `known` and `made` are the platforms set up, the keys their managers keep and the number of
objects made for an entity; `scheduled` and `added` are the two stages of `async_add_entities`;
`shown` is the state an entity wrote last; `count` and `age` are what entities see of the data.

A listener round (`Round`) syncs every manager that is set up and lets every added entity write its
state. `Notified` ends in one; Home Assistant's base class has one for each advertisement, and when
advertisements stop (`Advertised`). Timed polls have none of their own, and a poll swallows the
failures of its commands, so that `last_poll_successful` is always true: an entity turns unavailable
by the age of its data or with its pack, and only at a round. `SetUp` subscribes a platform and syncs
once, `Add` is Home Assistant adding a scheduled entity, `Unload` forgets everything.

### Properties and the run `entities`

| Property | Kind | Says |
| --- | --- | --- |
| `MadeOnce` | invariant, proved | no entity is made twice while the entry is loaded |
| `EveryPackHasEntities` | invariant, proved | no entity of a populated slot is lost; a manager's keys are the entities that exist |
| `ShownIsPresent` | invariant, proved | no entity is shown as available without its slot |
| `StaleGoesUnavailable` | liveness | a sensor whose command is no longer answered does not keep its value |

The instance has two platforms, a sensor of each of two commands, one of both, a binary sensor and
one sensor in each of two packs; counts go from 0 to 3, one above the slots (4.9 thousand states).
Fairness: the battery keeps advertising and scheduled entities are added. Nothing is assumed of
notifications. `detect_expansion_increases` of `entity.py` has no caller and is not modelled.

## 8. Controls (`ControlEntities`)

### State and actions

`calls` is the queue of `_operation_lock`: the call at its head is being served (`attempt`, `asking`),
the others wait. `Reaches` and `Misses` begin an attempt, `Expires` ends one without an answer,
`Deliver` is a notification: parsed first, with a listener round, then taken for the answer if the
head waits for its command byte. `air` is a queue, as notifications of one link are, and is lost with
the link. `Choose` is a user, `StartPoll` the coordinator, `ChangesOutside` the vendor's app. The medium
poll asks for the system data with the command 0x0D, by which the charge mode is written
(`const.py` 51-53): such a command is in `Statuses`. Its answers carry nothing that a control shows, but
one that is late completes a write that waits, and an answer to the write completes the poll.
`data` and `shown` are what the coordinator holds and what the controls show. The battery (`setting`)
stores a write when it takes it and reports it when it is polled; `writer` and `doubt` observe who
wrote last and which control's calls have left the outcome open.

### Properties and the run `controls`

| Property | Kind | Says |
| --- | --- | --- |
| `AssumedIsTrue` | invariant, proved | a control without read-back shows the setting, unless its calls left it open or someone else wrote |
| `SettledStays` | action property, proved | a control that is read back, shows the setting and has nothing else on the way to it keeps showing it until someone sets it anew |
| `Converges` | liveness | a control that is read back comes to show the setting and stays with it |

`doubt` is what the code cannot exclude: a call that failed although the battery took its write, or
one that was answered by the late answer of an earlier call or of a poll. The exception for another writer is not
idle either: "Self-Consumption" of the operating mode select and "on" of the output switch are the
same frame, as are "Manual" and "on" of the buzzer switch. Three more things a reader of the code may
not expect, all visible in the model: a switch that is read back shows the value of before right
after a success, until the next poll; a select jumps back in the same way if a reading from before
its write arrives after it; and a value without an option leaves the old option in place, which is
why `Converges` asks for an option.

The instance has three scenes, each with the controls that can disturb each other: the charge mode
select with a value that has no option, beside the poll that shares its command; the output switch and
the operating mode select; the EPS switch, which nothing reads back, and a button. Two calls, one change
from outside, two attempts and two notifications in the air give a late answer, a second call waiting
behind the first, and a reading from before a write (275 thousand states). `Starts` says what the
battery may be set to at first; of the two charge modes with an option, which mirror each other, it has
one. Fairness: polls go on, waits end, and not every poll and not every reading is lost; users, writes
and the status polls are free to fail. `_safe_send_and_sleep` goes on after a command that failed, so a
list of polls always gets to its end. Two parts of the model are there for the bound `MaxAir`: `Room`
keeps a place for a reading beside the answers to status polls, which would keep every reading out for
ever, and `Nears` says that of a reading with something before it, that something does not always come
when the link is lost. That the battery takes a poll again and again is asked of the polls together
(`\E r`): each scene reads one command back.

## 9. The command line tool (`FrameBuffer`, `StandaloneTool`)

### State and actions

`FrameBuffer` is `feed` and its helpers on real bytes, with real checksums: an XOR is written as the
sum of its bits, each set if an odd number of the bytes has it. `feed` is a recursive function of the
bytes left (`Cut`). `StandaloneTool` is one
run: `Start`, the scan (`Advertises`, `ScanDone`, `ScanEnds`), then for each battery `Connect` or
`ConnectFails`, the commands (`Send`, `Succeeds`, `Expires`, `Fails`), `Collected`, `Close`. The
environment cuts answers into chunks of any length (`Deliver`), loses one (`Lose`), delays answers
past their time limit, or takes the battery out of reach (`LinkLost`), which the session is not told.
`Close` goes on to the next battery whatever comes of the disconnect: one that times out or fails is
only logged (560-567), and the link may stay. `held` has the links that are up, and the observer
`refused` those of them whose disconnect has failed (`Disconnect`).

The code keeps a FIFO of futures for each command byte, but sends one command at a time and removes
its future when it ends; `future` is that one. A future is cancelled one step before `send_command`
removes it, and a frame may arrive in between.

### Properties and the run `tool`

| Property | Kind | Says |
| --- | --- | --- |
| `TypeOK` | invariant, proved | besides the types, that `feed` keeps only what more bytes can complete (`Stalled`) |
| `IntactFramesGetThrough` | invariant, proved | an answer that arrives in full is cut out at once, whatever was lost before it; without loss nothing else is (`NothingElseIsCut`) |
| `AnswerIsOwn` | invariant, proved as far as frames are own | a value in the report is that battery's answer to that command |
| `LinksAreReleased` | invariant, proved | when the next battery is queried or the tool ends, the only links left are those whose disconnect failed |
| `GivesUp` | invariant, proved | a battery out of reach costs at most the allowed number of failures |
| `QueriesGetShorter` | action property, proved | no step of the queries puts the end of the run off |
| `EveryTargetReported` | liveness; `TargetsReported` at the end proved | every run ends, with all targets in the report if all were found |

The instance has two batteries and three commands whose payloads are a start byte, something that
looks like the beginning of a frame, and one that its parser rejects; one chunk of a run is lost and
up to fourteen bytes are on the way, so that a late answer meets the next one (118 thousand states).
`IntactFramesGetThrough` excuses one case: if the XOR lets a frame pass that was pieced together
around a loss, later bytes may go with it. A payload that contains a complete valid frame is cut when
it is fragmented, which `tests/test_protocol_properties.py` excludes too (114-115); no payload of the
instance does, and none of its answers ends as one begins, which `MCStandaloneTool` has TLC evaluate
(`NothingHides`, `NothingOverlaps`). Fairness: every await has a time limit or is answered by the proxy.

Without targets the scan always takes its whole time, since its event is only set for targets; with
the same label given twice it does as well. Neither violates anything stated here.

## 11. Proofs

All theorems hold for every value of the constants that satisfies the named assumptions.

**Transport** (`BleDeviceProofs`): any sets of tasks, clients and bytes, any number of attempts and
every combination of faults. `TypeCorrect`, `LocksAreExclusive` and `RequestStaysPending` follow
from `Invariance`: `Spec => []IInv`, where `IInv` is `TypeOK /\ LockDiscipline /\ RequestIsPending
/\ CommandKnown`. `RequestIsPending` is not inductive alone: that no second sender overwrites the
request follows from `LockDiscipline`, and that the answer of the device has the type of a command
follows from `CommandKnown`. The proof divides by what a step can disturb: `SenderEffect` states
once what any step of the sender that holds the operation lock does to the locks, the request and
the other tasks, `SenderEffects` shows it of every such action, and `EffectKeepsInvariant` derives
the invariant from it; `OtherTaskEffect` does the same for timers and `disconnect()`.
`ClientStaysLive` is a separate induction on top of it: every step that takes a link down runs the
callback that forgets the client. `CallsNeverGoBack` is `CallsGetShorter` in every environment: the
places of `send_command` are numbered from its end, a retry takes an attempt, and each action of a call
is shown to lower the number, or to leave the call where it is. It is what `CallsEnd` has without
fairness.

**Links** (`BleDeviceProofs`, second part). `OneLink` is not inductive: `_ensure_connected` may connect
because `_client` is None. `LinkInv` says what is missing: every link is the client's, or held by a
cleanup that will close it, and nobody has a client while a sender connects. `LinkEffect` lists the
four things a step may do to a link, and every action is shown to do one of them. Which steps of a
fault can break this is named by three actions: `Leaks` (the disconnect of a connection that failed
raises or is cancelled), `Forgets` (a task ends with its connection still up) and `Deafens` (a
connection stays up without its subscription, or the flag is set for one that has gone). In every
environment, cancellation and failing disconnects included, `SecondLinkNeedsLeak`,
`UnwatchedLinkNeedsFault` and `DeafLinkNeedsFault` prove the property as long as those steps do not
happen; `LinkIsUnique`, `LinksAreWatched` and `RequestsAreHeard` prove that with the faults switched off
they cannot happen, so that the property holds as the runs check it.

**Refinement** (`BleRefinementProofs`): `Refinement` is `Spec => ImplementsChannel`. Initial states
map to initial states, and each action of `BleDevice` to one of `CommandChannel` or to a stutter;
the liveness of the channel is left to `CallsEnd`. `WrongAnswerNeedsALateOne` says how far the finding
of `ble_correlation` goes: as long as no call ends with a response of the battery still in the air
(`LeavesAnswer`), no call succeeds on another one's. What is invariant then is `AirIsClear`: there is no
response in the air between two calls, nor before the battery has answered the call being served.

**Coordinators** (`PollProofs`): any number of batteries and of waiting polls, any backoff table
with at least one level above the baseline, any bounds of the intervals with the largest fast one
at most the largest medium one (60 and 300 in `const.py`). `IInv` adds two facts to the types and
`WindowMatchesLevel`: `LockHeld`, the lock's holder is the poll that runs, and `CountKnowsGap`, the
counter is within its cycle and no behind the observer. `OnePollAtATime` follows from the first and
`MediumKeepsUp` from the second, neither of which is inductive. `LockStep` is the one lemma about
the lock that every action uses. `MediumNotHurried` (`MediumOnTime`) needs the converse of
`CountKnowsGap`: `CountStaysNear`, that the counter is at most one ahead of the observer, by the group of
the first poll. `Cadence` is an induction of its own over `CeilingBounds`, that
`math.ceil` as an integer division is the least sufficient cycle. (`math.ceil` of a float quotient
of integers in these ranges is exact.)

**Config entry** (`LifecycleProofs`): any number of setups, `TypeOK` included. `IInv` adds
`StoredFollowsEntry`, which ties the three references and the subscription to the state of the entry.
`SecondSenderIsAReplacedOne` bounds the finding of `entry_serial`: with any number of retries and reloads,
commands are serialized unless a coordinator that is not in use any more starts a command
(`ReplacedPolls`), or one is still in flight when a new coordinator takes its sender's place
(`ReplacedInFlight`). `OneSends` is the inductive part: only the coordinator in use sends.

**Config flow** (end of `LifecycleProofs`, which instantiates `ConfigFlow` as `Flow`): any batteries,
addresses and names, any number of open flows. `FlowInv` says that a unique ID belongs to one flow or to
one entry, which gives `AddressesGetOneEntry` and `CardsStayNew`. `SecondEntryNeedsTwoOffers` bounds the
failure of `OneEntryPerName`: unless two flows offer the same name at the same time (`OfferedOnce`), no flow
offers a name that has an entry, and names have one entry each.

**Decoding** (`ProductDataProofs`): any frames whose length fits the length byte
(`FramesAssumption`), two products (`ProductsDiffer`), and any number of notifications. The first half
is about the tables and has no induction: the provers get the rows themselves. A field has one place in
a packet (`PlacesAreDefinite`), names of a Venus differ (`VenusNamesDiffer`), an older name of a Jupiter
is entered with the field it reads (`JupiterNamedAlike`; `warning_code`, entered by two other fields, is
right because all three come in one packet of fixed length), all measurements of a battery come in the
one packet that is accepted whole (`MeasurementsComeTogether`), and for each command and each length
the sources that apply are the slices that `MarstekProtocol` cuts (`FramesReadAlike`). `LayoutsMakeSense`
collects this. The second half carries it over to sequences. `RejectedFramesLeaveNoTrace` needs nothing
of the tables: `Shapes` says that no frame is told of before it has come, so a frame without a listener
round was not accepted and has nothing to write. `TimeStampsFollowValues` and
`DerivedInputsStayTogether` follow because a notification gives the fields it marks its own number and
leaves the others alone (`StoredFrame`, `StoredOther`). `DropInForever` adds `StoredBytes`: a field named
once gets the bytes that its update says, so equal readings of one frame make equal data (`Twins`).

**Entities** (`ProductEntitiesProofs`): any sets of entities, platforms and commands, any number of
packs and any reported counts. `IInv` is `TypeOK` and `ShownIsPresent` with two more
parts: `Bookkeeping`, that the keys of the managers are exactly the entities scheduled or added, that
each of those was made once, and that only an added entity has written a state; and `Covered`, that
the keys cover every populated slot. `MadeOnce` is not inductive alone: that a sync makes nothing a
second time follows from the keys. `ShownIsPresent` holds because every step that changes the count
is a round that writes the state of all added entities.

**Controls** (`ControlProofs`): any controls, frames and tables of read-backs, any length of the
queue, any number of attempts and of notifications in the air. `IInv` adds to the types and
`AssumedIsTrue`: `AirOK`, that what is in the air is a command and a value; `AttemptLeft`, that a
head which is not being tried has an attempt left; and `TakenHolds`, that the battery holds the
head's value if it took its write and nobody wrote since. The last one carries the
argument: when the call returns, what it has assumed is what the battery holds.
`SettledControlsStay` (`SettledStays`) is the half of `Converges` that needs no fairness: from a settled
state, every step but a user's or the app's leads to a settled one. The reading at hand and the readings
in the air agree with the battery, so a listener round writes what is shown already, the one that a status
brings included, and a call of another control cannot write what this one shows.

**Tool** (`StandaloneProofs`): any batteries, targets, commands and answers, any limits, and any way
the bytes are split, lost or late. `BuiltFrames` and `FeedCutsFrames` are about `feed` alone: a built
frame is accepted and read back as it was built, and whatever the bytes are, only frames that
`parse_frame` accepts are cut out and what is kept is stalled. What a recursive function computes cannot
be shown with the library's induction theorems, which take an operator; the proofs take the least
number of bytes for which the claim fails instead (`WFMin`), and the case of that number contradicts it.
`LinksReleased` (with disconnects that fail), `SessionGivesUp` and `EndedRunsReport` have an induction
each. `LosslessStreams` rests
on `Lossless`: buffer and wire together are the rest of the answers on the way, in order, so the first
frame that `feed` finds is the first answer that is complete. It assumes `NothingHides`. `IntactAnswersGetThrough` is the other half of
`IntactFramesGetThrough`, for sessions that lose bytes. Its lemma `AnswersSurvive` is about `feed`
alone: wherever an answer lies in the buffer, whole or with its last bytes still to come, a pass of the
loop either cuts it out or leaves it where it is, whether the pass cuts out another answer, drops a
byte, or skips to a later frame; and `Awaits` says that the decoder has all that has arrived of the
answer on the way. Besides `NothingHides` it assumes `NothingOverlaps`, no answer ending in bytes that
one begins with, and needs it: an answer whose checksum is the start byte and whose last byte is
lost is completed by the first byte of the next one, a right frame is cut out, and the next answer is
spoilt. `RunsGetShorter` (`QueriesGetShorter`) counts the steps of the commands and batteries
that are left; its induction is `Querying`, that nothing is to be queried before or after the queries.
`ValuesAreOwn`
is `AnswerIsOwn` as long as `OwnFrames` holds, that is, as long as the checksum rejects what was pieced
together around a loss; `LosslessAnswersAreOwn` needs no such hypothesis in a session without loss.

Only model-checked:

* Liveness (`CallsEnd`, `LinkIsReleased`, `PollsGoOn`, `StaleGoesUnavailable`, `Converges`, `EveryTargetReported`
  and the liveness of the channel), which is out of the prover's reach. What a step may not undo on the
  way is proved for three of them: `CallsGetShorter` for `CallsEnd`, `SettledStays` for `Converges`,
  `QueriesGetShorter` and `EndedRunsReport` for `EveryTargetReported`.
* `AnswerIsOwn` for the losses in which a wrong frame passes the XOR, which the run's payloads exclude.

`AnswersThisCall`, `CommandsAreSerialized` and `OneEntryPerName` fail; what is proved of them is which
step each violation needs (`WrongAnswerNeedsALateOne`, `SecondSenderIsAReplacedOne`,
`SecondEntryNeedsTwoOffers`).

The types of `EntryLifecycle`, `ConfigFlow`, `ProductData`, `ProductEntities` and `ControlEntities` are
proved and in no run; those of the other modules are proved and checked.

## 12. Not modelled

* In `config_flow.py`: devices without a name or with another prefix, which are filtered before anything
  is kept, ignored discoveries, and the product that is chosen by the name.
* `diagnostics.py` reads; translations and packaging have no behaviour.
* Converters of values (scaling, signs, bits, text), names and descriptions of entities, and the
  sensor specs of products without a runtime.
* In the tool: the parsers of single payloads, the summary table, arguments and log. They change no
  state; that a parser may raise is modelled.
* `_expected_disconnect` of the transport, which selects a log level: it stays True when the callback
  has run before, so that a later, unexpected loss is logged as expected.
