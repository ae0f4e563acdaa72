# A verification of dali2mqtt

dali2mqtt is the firmware of an ESP32 that sits between a DALI lighting bus and
an MQTT broker. It polls the lamps, listens to the frames other bus masters
send, serves commands that arrive over MQTT, and keeps the state of every lamp
and group retained at the broker. Several FreeRTOS tasks share its caches, and
most operations are a chain of short critical sections with bus traffic in
between. That is where its correctness is hard to see and hard to test, and
what the modules in this directory are about.

Paths below are relative to `src/DaliMQTT/` of the repository.

## 1. Inventory

| Component | State | Operations | Talks to |
|---|---|---|---|
| Poll scheduler (`dali/DaliDeviceController.cxx` 302-433, 510-521) | deferred requests, priority queue and its set, round robin index | `requestDeviceSync`, `requestBroadcastSync`, the loop of `daliSyncTask` | called by the event handler and the MQTT commands; calls `pollSingleDevice` |
| Device state cache (same file 48-147, 523-555, 724-764; `DaliSnifferFrameHandler.cxx`) | `m_devices`: level, last level, status byte, availability | polls, `updateDeviceState`, `SnifferProcessFrame`, publication | bus, MQTT client, groups |
| Light commands (`mqtt/MQTTCommandHandler.cxx` 16-243) | none of its own | `light/.../set` for one lamp, a group, everybody | bus, device cache, group state |
| Device map (`DaliDeviceController.cxx` 15-46, 202-252, 681-723, 766-844; `DaliAddressMap.cxx`) | `m_devices`, `m_short_to_long_map`, the copy in NVS, `m_nvs_dirty` | load, validate, scan, static data, autosave | bus, NVS, scans from MQTT and the web |
| Group state (`DaliGroupManagement.cxx` 273-385, `DaliDeviceController.cxx` 368-412) | level and last level of 16 groups | update, restore, step, group sync at the wrap of the round robin | event handler, commands, MQTT client |
| Group assignments (`DaliGroupManagement.cxx` 13-270) | which lamp is in which group: RAM, NVS, lamps, broker | set, set all, refresh from the bus | bus, configuration, MQTT, web |
| DALI adapter (`DaliAdapter.cxx`) | bus mutex, event queue of 32 frames | queries, commands, sniffer task | driver, event handler |
| DALI driver (`dali/driver/DaliDriver.cxx` 60-600) | bus state, receive and transmit buffers shared with a timer interrupt | tx, rx, waits for replies | adapter |
| Commissioning (`dali/driver/DaliDriver.cxx` 600-926) | search address, addresses already given | binary search and assignment of short addresses | bus |
| Scenes, input device events | none | two commands per lamp; one publication per event | bus, MQTT |
| MQTT client and connection (`mqtt/MQTTClient.cxx`, `system/AppController.cxx`) | client handle, status | init, reload, connected, disconnected, publish | every publisher |
| MQTT command queue (`mqtt/MQTTCommandProcess.cxx`) | ring buffer | enqueue with 10 ms patience, dispatch | MQTT task, command task |
| Configuration (`system/ConfigManager.cxx`) | cache and NVS, configured flag | load, save parts, update from JSON, reset | web, MQTT, groups |
| Application life cycle, Wi-Fi (`system/AppController.cxx`, `wifi/Wifi.cxx`) | network status, retries | provisioning, reconnect, deep sleep | MQTT client |
| Updates (`system/AppUpdateManager.cxx`, `webui/api/OtaController.cxx`) | busy flag, partitions | firmware and web file system updates | web, MQTT |
| Web interface, HA discovery, syslog, frontend | none that the others read | requests, formatting | everything above |

Behaviours that are hard here:

- Three tasks (sync, event handler, MQTT commands) write the same cache, each
  on the strength of something it read or sent earlier without a lock.
- Two scans can run at once: MQTT and the web interface each guard against a
  second scan of their own and do not know of the other.
- A lost reply, a lamp without mains and a reply of MASK (255) look alike.
- QoS 0 state published without a connection is gone, and nothing repeats it.
- The NVS copies are written outside the lock that protects what they copy.
- A reboot can come between any two steps, and the bus may be another one after.

What makes each component correct:

- **Poll scheduler**: every request is followed by a poll; at most one queue
  entry per address; urgent requests before the sweep; the sweep returns.
- **Device state**: the cache comes back to the lamp, the broker to the cache;
  an outage is noticed; `ON` lights the lamps it is sent to.
- **Device map**: the lookup never leads outside the map and is its inverse, default
  devices entered by the sniffer or not; an exchanged lamp is noticed at boot; what
  was found and learnt is saved.
- **Group state**: the broker has the cached level; the level to restore is the
  level the group has; overtaken updates are repaired.
- **Group assignments**: RAM, NVS, lamps and broker agree after each operation.
- **Driver**: a reply is the answer to the frame sent; a frame is not repeated
  after it went out; a call returns; frames of other masters are heard.
- **Commissioning**: every device gets an address of its own, and the count says
  how many; the process ends.
- **Configuration**: names and groups survive updates of the settings; what the
  cache shows is what a restart loads; a configured device has a network and a
  broker; what was saved comes into force.
- **Connection**: a bridge with a session is subscribed and `online`; no destroyed
  client is left in the handle; a network that stays leads to a session.
- **Updates**: a failure leaves something that boots.

Every hazard, with its line and the properties aimed at it, is in
`PROJECT.json` under `hazards`.

## 2. Modules

| Module | What it models |
|---|---|
| `PendingPolls` | what the scheduler promises: a request is remembered until a poll of its address, one poll at a time, none waits for ever |
| `PollScheduler`, `MCPollScheduler`, `PollSchedulerProofs` | the scheduler as coded; implements `PendingPolls` |
| `DeviceState`, `MCDeviceState`, `DeviceStateProofs` | lamps, cache, broker and everybody who writes the cache; its polls are scheduled by `PendingPolls` |
| `DeviceMap`, `MCDeviceMap`, `DeviceMapProofs` | map, lookup, NVS copy, boots, scans, autosave |
| `GroupState`, `MCGroupState`, `GroupStateProofs` | one group's state and the three tasks that update it |
| `GroupAssignments`, `MCGroupAssignments`, `GroupAssignmentsProofs` | which lamp is in which group: lamps, table, NVS, broker, and the operations that change them |
| `Commissioning`, `MCCommissioning`, `DaliDriverProofs` | the search for random addresses and the assignment of short ones, for gear and for input devices |
| `BusCalls` | what the driver promises `DaliAdapter`: one call at a time, a result for every frame, no reply to a frame that has not gone out |
| `DaliDriver`, `MCDaliDriver`, `DaliDriverProofs` | the timer interrupt against a calling task and the sniffer task; implements `BusCalls` |
| `ConfigStore`, `MCConfigStore`, `ConfigStoreProofs` | cache and NVS of the configuration, two updaters, names and groups, the BOOT button, restarts |
| `Connection`, `MCConnection`, `ConnectionProofs` | Wi-Fi, the client and its reload, the broker's session and retained availability |

`Commissioning` and `DaliDriver` model the two halves of `DaliDriver.cxx`. They share
one module of proofs, which is why the second names its parts `DriverInit`,
`DriverNext`, `DriverTypeOK`.

The `map` of `PROJECT.json` gives the lines behind each definition.

**PollScheduler.** `deferred`, `queue`, `prio`, `rr` are the members of the
same meaning; a deferred request holds the ticks it has left instead of a
timestamp. `mode` is where `daliSyncTask` is. The walk over the deferred
requests is one action per iteration (`DueRequest`, `EarlyRequest`) with
`m_queue_mutex` held, which is why clients cannot act in it.
`requestBroadcastSync` takes the queue mutex once per device, so a broadcast is
a begin and one action per device, during which no poll can end (it needs
`m_devices_mutex`).

**DeviceState.** A step is one exchange on the bus or one critical section of
`m_devices_mutex`, which in this code also covers the publication. So a poll is
`PollQuery` (level on the bus), `PollAvailability` (cache), `PollStatus` (bus),
`PollUpdate` (cache and publication), and other tasks act between them. A light
command is `CmdTake` (the level to restore is read), `CmdSend`, one `CmdApply`
per lamp. A sniffed frame is queued, then taken, then applied lamp by lamp.
The lamps, the broker and the other bus masters are external; they do what the
code relies on: a lamp without mains is silent, DACP MASK changes nothing.
Two history variables: `lost`, the last state published was dropped, and `masked`,
the lamps that were sent a DACP MASK.

**DeviceMap.** `scan` holds a local map and lookup per scanner, filled address
by address and swapped in one critical section, which also saves. The autosave
copies in one step and writes in another. Gear is entered under its short
address, an input device under its short address with a bit set by a scan, and
*without* it by a load, as in the code. Commissioning appears by its effect: new
devices get addresses, those that had one keep it. `SniffRecall` is the `operator[]`
of `SnifferProcessFrame` (lines 146 and 158), which enters a default gear, here a
*phantom*: it knows no address, so a save writes it with the long address 0, a load
takes the first such record, and at boot a query to it is a broadcast.

**GroupState.** Each of the three tasks decides on a level, updates the state
(`Update`, the critical section of `updateGroupState`), reads it again without
the lock (`Read`) and publishes (`Publish`). The sync task reads assignments and
devices in two steps first. Assignments, cache and connection change freely.
`lost` and `raced` are history variables: the last publication was dropped; the
last update was made while another task was between update and publication.

**GroupAssignments.** `table` is `m_assignments`, `nvs` what `saveToConfig` has
written, `broker` the retained `light/.../groups`. `task` says where each task
is and what it carries: the MQTT command task in `setGroupMembership`, the web
server in `setAllAssignments`, any number of scans in
`refreshAssignmentsFromBus`. A critical section of `m_mutex`, a frame, a write to
NVS and a publication are steps of their own. Three history variables say what a
property excuses: `doubt`, the lamps for which a frame, an answer or a task was
lost, or at which two tasks met; `crossed`, the lamps whose entry changed while
`setGroupMembership` was about to publish it; `unsaved`, that two saves met
between copy and write or that a write failed. An operation that sets a lamp
right again takes it out of `doubt`: a refresh that heard it does.

**Commissioning.** `pc` is where `commission` (gear) or `commission_id` (input
devices) is; `adr`, `addsub`, `last` are `find_addr`'s variables, `tries` and
`final` where it is in `compare`. The two functions are written out twice in the
code; here `variant` says which runs, and they differ in `StartGear` and
`StartInput` and in `CompareGear` and `CompareInput` (which replies count). A
search address is three digits to a base, of which only those that change are
sent, so a device that misses a frame keeps a mixture. Each frame may be missed by
any set of devices, each reply may be lost, and overlapping replies arrive as a
garbled frame or as some byte. Devices may be left in initialisation mode by an
earlier process.

**DaliDriver.** `busstate`, `rxstate`, `rxdata`, `idlecnt`, `txcollision` are the
driver's fields. The interrupt acts when a frame ends or collides (`RxComplete`,
`TxEnd`, `Collide`, `CollisionEnd`), other stations when they start
(`ForeignStart`, `ReplyStart`), and the interrupt can act between any two accesses of
`tx` (`TxCheck`, `TxClear`, `TxStart`) and between the two reads of `tx_state`
(`TxCollision`, `TxState`). `call` is a task in `tx_wait` or
`tx_wait_rx` with `bus_mutex`; the operations of `DaliAdapter` differ in
whether they wait for a reply, delay afterwards, or send twice. A tick is about
5 ms; the waiting loops sleep to the next FreeRTOS tick. `sent` counts how often
each frame went out whole, `heard` says what became of each foreign frame.

**ConfigStore.** The settings are grouped by what a change of them leads to:
Wi-Fi (restart), MQTT (the client is reloaded), the rest (restart). A save writes
keys one by one and may end after any of them. An update is `BeginUpdate` (copy
and edit), `SaveUpdate` (the copy replaces the cache and is written, unless NVS
cannot be opened) and
`StartReload` or `RestartForUpdate`, in the web server and in the MQTT command
task. `StartReload` creates a task, or fails to, which nobody notices; the task
copies the configuration (`CopyForReload`) and later stops, destroys and creates the
client from the copy (`InitReload`), so that reloads overlap as in `Connection`, whose
model of them has the client's steps instead of the settings. Beside it names and
groups are saved, in both modes, the button resets the flag, and the power can fail.
`newest` is a history variable: the reload that copied last while it runs, or that the
last word was not the newest (`"missed"`).

**Connection.** `clients` are the library's clients, of which `handle` is the one
the bridge knows; `status` is `MQTTClient`'s. `GotIp` and `ConnectAfterGotIp` are
`onNetworkConnected`; `ReadConfig`, `Disconnect`, `DestroyClient`, `ClearHandle`,
`InitAgain`, `ConnectAgain` the statements of the reload. The broker keeps one
session (all clients have one id), its subscriptions, and the retained
availability under each base topic. A call with the handle of a destroyed client
does nothing or restarts the device (`Panic`).

## 3. Runs

Passing runs:

| Run | Shows | Bounds |
|---|---|---|
| `poll_scheduler` | the set mirrors the queue; nothing due waits for the sweep; implements `PendingPolls` with its liveness; the sweep returns when requests stop | 3 addresses, 2 lamps (one without a short address, which the code skips), delays 0-2, 2 deferred requests |
| `device_state` | `ON` lights a lamp that has had no MASK; the broker follows the cache | one lamp; one frame, one command, one scan and one fault, at any time; foreign frames to a group, commands to a single lamp (`FramesByGroup`), queue of 1, levels 0, 254, MASK |
| `device_state_live` | the cache comes back to the lamp; an outage is noticed; the broker follows | the same with single addressing and without scans |
| `device_map` | the lookup leads into the map; what the map holds is saved, being saved, or marked | 2 addresses, 2 long addresses, gear and input devices, two scanners (alike but for the name: symmetry), two scans, a reboot, and a fault or a RECALL for a device that is not in the map |
| `device_map_gear` | lookup and map are inverse; an exchanged lamp is noticed; what is learnt is saved | 2 addresses, 3 long addresses, a scan, a reboot, such a RECALL, no faults |
| `group_state` | restored level; the broker has the cache; the group converges, and stays where it settled | 2 lamps, levels 0-2 and MASK, one request, two changes of members, cache or connection |
| `group_assignments` | the lamps follow the table; NVS follows it when all is done; so does the broker | one lamp, one group, the three kinds of tasks, three calls, a scan or lost connection, a fault |
| `commissioning` | the search ends at the smallest random address; addresses apart; the count is true; every step gets on; the process ends | 2 devices, old or new or left over, 3-bit search addresses of which 0, 1, 4 and 7 are drawn, 2 short addresses, a missed frame and a lost reply |
| `dali_driver` | a reply is the answer to the frame; a frame goes out once; foreign frames are heard; a call returns; implements `BusCalls`, so no frame goes out after its call is over but for a timeout | two frames of the bridge, one of another master, every kind of call, an idle time of 2 ticks, a timeout of 6 |
| `config_store` | names and groups survive; the cache is what is stored; a configured device is complete; a change not in force is awaited; settings come into force | a default and one other value per setting (two for MQTT), names and groups, two updaters, three updates, two reload tasks, one failed save per start, any number of restarts |
| `connection` | `online` and subscribed with a session; no destroyed client in the handle; the client of the handle runs; comes online | 2 attempts before deep sleep, 2 base topics, 2 reloading tasks, 3 clients between two starts, one loss |

Why these bounds are enough: the interesting cases need two writers whose steps
interleave and one disturbance. A poll runs all the time and is not bounded, so one
frame and one command give three concurrent writers of one lamp. (`device_state`
passes as well with frames and commands of both ways of addressing, 3.3 million
states; what it checks is proved for every way, broadcasts too.) Lamps share nothing
but the order in which updates are applied, so more of them repeat the case; the
proofs cover any number. Two scans that overlap need two scanners and two scans. A
walk over two deferred requests has a first, a next and an end, which is what
erasing while iterating can get wrong. In `group_state` the sync task is always
there, so one request already gives two updates in flight. In `group_assignments`
three calls let every pair of operations overlap, with a third before or after.
Lamps meet only in the order in which they are asked; what a second lamp adds is
covered by the proofs, which are about any number. A search over three bits has a
first, a middle and a last step and the correction after the loop, and its addresses
include both ends; two devices are enough to collide, to be told apart and to share
an address. In `dali_driver` one foreign frame can meet each phase of a call, and
the second frame of the bridge can meet its leftovers; with two foreign frames
(`MaxForeign = 2`) the run passes as well but takes several times as long. In `config_store`
two values tell an old copy from a new one, the third MQTT value tells the two
updaters apart, and three updates are enough for two reloads that overlap and a save
between their copies; `device_map` has one disturbance at a time (`OneDisturbance`);
the theorems about it are for any number of them. In `connection` three clients are
the one of the first GOT_IP and those of two overlapping reloads, or of a second
GOT_IP and a reload.

The type invariants (`TypeOK`, `DriverTypeOK`) and the bound on the queue
(`QueueBounded`) were checked before they were proved; being proved, they are not
repeated in the runs.

One run, `config_reset`, is expected to fail; it shows where the code departs from
what the repository says of it. Section 5 describes it.

`CHECK_DEADLOCK FALSE` is set where all bounds can be used up and nothing is
left to do; the scheduler never stops and is checked for deadlock.

## 4. Fairness

- Tasks of the firmware go on: FreeRTOS runs a ready task, and the loops have no
  exit. This is `WF` on each task's steps.
- `SF` where a task waits for a mutex that others keep taking (`PollEnd`,
  `BroadcastNext`): FreeRTOS mutexes queue their waiters by priority and time.
  `SF(Tick)`: time passes even though no tick falls into a walk.
- In `DeviceState` every known address is polled again and again:
  `SF(PollQuery(g))`. `PollScheduler` shows this for a scheduler whose requests
  stop (`SweepsWhenQuiet`), and the premises of the properties (a bounded number
  of frames and commands) are that case.
- The MQTT client keeps connecting (`Connecting`, `Connect`): esp-mqtt reconnects
  by itself. The connection can still be lost, up to the bound.
- Nothing makes other masters send, faults happen or lamps get mains back.
- In `DeviceMap` the autosave is due again and again until it is done
  (`SF(AutosaveCopy)`): its condition is a flag and a clock. `FetchBegin` is not
  fair; saving is about what has been learnt.
- `Commissioning` is one task that waits for nobody: `WF` of its next step.
- In `DaliDriver` the interrupt, the clock, gear that owes a reply, the sniffer and
  a call under way go on. Nobody has to start a frame or a call.
- In `ConfigStore` a task goes on with the update it has begun, a reload task that
  was created runs and a restart that is due takes place. Nobody has to request
  anything.
- In `Connection` the event task (which includes that the network comes back once it
  may), the reload tasks and the clients' tasks go on; the broker gives up a silent
  client (keep-alive) and a client notices that its connection is gone. Wi-Fi need
  not stay: `ComesOnline` has that as its premise.

## 5. Where the code departs from what is expected of it

`config_reset`: a comment says that holding the BOOT button resets the
configuration and returns to provisioning. `resetConfiguredFlag` saves through
`processConfigUpdate`, whose last act is to set the flag again, so the device
starts in normal mode.

Further configurations, not among the routine runs, each exhibit one departure;
`tlc -config <cfg> <module>` gives the trace.

| Configuration, module | Observation |
|---|---|
| `DeviceStateOnDiverges.cfg`, `MCDeviceState` | A DACP with MASK on the bus is taken as level 255 and becomes `last_level`. A later `ON` sends it as DACP 255, which gear ignores: the lamp stays dark. |
| `DeviceStateLostState.cfg`, `MCDeviceState` | A lamp polled for the first time before the connection is up is published into nothing, and `initial_sync_needed` is cleared. Until its level changes the broker has no state for it. |
| `DeviceMapEvents.cfg`, `MCDeviceMap` | After a reboot input devices are in the lookup without their bit, so their events lose the long address, and gear at the same short address can be shadowed. |
| `DeviceMapStale.cfg`, `MCDeviceMap` | An autosave that has copied the map before a scan swaps and saves it writes the older map over the newer one, and nothing is dirty. |
| `GroupAssignmentsSave.cfg`, `MCGroupAssignments` | Saving all assignments sends the differences from the table. A lamp that differs from the table, because it brought groups along or missed a command, is not written, however often one saves; a refresh from the bus is what shows it. |

The properties of the passing runs excuse the following by name, each in the
premise of a property or in a history variable.

*Device state.* A lamp that was sent a DACP MASK may have MASK as the level to restore
(`masked`; `DeviceStateOnDiverges.cfg` checks the property without the excuse). `ON` is
about lamps with mains and a frame that got out.

*Commissioning* (`dali/driver/DaliDriver.cxx`). The random address 0 cannot be
found: the search never compares below 1, finds 1 instead, programs nobody and
goes on until the short addresses are used up (`Findable`). Devices with equal
random addresses share a short one. An old device whose QUERY STATUS reply is lost
shares its address with a new one (`missed`). One lost reply to COMPARE is made up
for by the second try; a second is not.

*Driver.* `idlecnt` is not reset when reception begins, and the loop that waits for
an idle bus looks at `busstate` only (416-420), so the settling time before a frame
is not always kept; other masters that do keep it, and polls that start within 10
ms, are what `ReplyIsOwn` relies on. Reception that begins between the check and
`busstate = TX` is overwritten. A collision that the interrupt finds between
`tx_state`'s reads of `txcollision` (232) and `busstate` (236) is taken for a frame
that has gone out: the call returns success, or waits for a reply to a frame nobody
heard, and the frame is not sent again. After a timeout a frame that `tx` has
started may still go out when its call is over (`BusCalls`). A foreign frame that
ends while a call holds `bus_mutex` is dropped (`heard` = "excused").

*Configuration* (`system/ConfigManager.cxx`). A save that fails has replaced the
cache already; it is answered "Settings saved.", and the same request once more
finds nothing changed (`failed`). When the flag cannot be written the cache says
that it is, and it is not written again until a restart. Names or groups saved in
provisioning mode (both routes are registered there, `webui/WebUI.cxx` 40-43) mark
the device as configured without a network (`early`). Of two reloads that overlap
the one that copied first may create the client last: its older settings stay in
force until the next reload or restart, and so do they when the reload task cannot
be created (`newest` = "missed"). After a failed first save and a loss of power, a
request that changes MQTT settings only is hot-reloaded and the device stays in
access point mode. The save of a whole copy can revert names in the cache (NVS keeps
them) and lose the settings of another update. `http.md` and `configuration.md` say
that a change of MQTT settings reboots; it reloads the client.

*Connection* (`mqtt/MQTTClient.cxx`). A second GOT_IP creates a second client with
the same id, and so can a reload before the first GOT_IP or two overlapping reloads:
the two keep taking the session from each other, and the old client's callback
publishes through the new one's handle (`Settled`). Between destroying the client
and clearing the handle other tasks use a destroyed client (`Panic`). `connect` on a
running client leaves the status at CONNECTING, and those who ask for the status
(`DaliDeviceController.cxx` 264, `DaliGroupManagement.cxx` 242) then publish
nothing (`doubled`). After a reload to another base topic the old one keeps its
retained `online`, and after one to the same it is `online` while the new client
connects, although the README says "`online`: Bridge is connected to MQTT.".
`config/input_device/...` and `config/discovery/publish` are handled but never
subscribed.

Seen while modelling, without a run: boot and scans mark lamps available while no
client is connected (`DaliDeviceController.cxx` 239 and 808), polls publish changes
of availability only, and so `online` is never published for a lamp that simply
works. `handleGroupCommand` publishes `success` also when `setGroupMembership`
refused a lamp. `SnifferProcessFrame` looks a single affected lamp up with
`operator[]` for RECALL MAX/MIN (lines 146 and 158), which creates a default device
when the assignments, or a lookup before a scan's swap, name one that is not in the
map (`SniffTake` and `SniffRecall` model it). It is neither marked for the autosave
nor a device that was found, and `NothingForgotten` does not count it; a save for
another reason writes it, and the broadcast it leads to at the next boot can start a
scan. `performInitialGroupSync` cannot run, because the update before it clears the
flag it tests. DT8 features are never queried, because `device_type` is set together
with the flag that stops the query. The roll-back in `setGroupMembership` cannot
run, because `sendCommand` always reports success. The DT8 commands are sent without
the flag that marks them as special commands (`DaliAdapter.cxx` 406-431). A command
for the long address of an input device goes to the gear with the same short
address. The web update erases the file system before it downloads the new one
(`AppUpdateManager.cxx` 126). `MQTTCommandProcess.cxx` 31 compares the result of
`xRingbufferSendAcquire`, a FreeRTOS boolean, with `ESP_OK`.

## 6. Proofs

For every value of the constants that meets the stated assumptions (`ASSUME`s
in the modules: sizes are naturals, long addresses are numbers other than 0 and below
those made up for input devices, levels contain 0 and 254):

| Theorems | Statement |
|---|---|
| `PollSchedulerProofs` `TypeCorrect`, `QueueCorrect`, `QueueNeverOverfull`, `UrgentBeforeSweep` | the run's safety properties, for any bus, delays and device list |
| `ImplementsPendingPolls` | every step is a step of `PendingPolls` or a stutter |
| `DeviceStateProofs` `TypeCorrect`, `OnAlwaysLights`, `BrokerInStep` | for any number of lamps, frames, commands, scans, faults |
| `DeviceMapProofs` `TypeCorrect`, `LookupClosed`, `SavingForgetsNothing`, `BootFindsExchangedGear` (no faults), `LookupInverse` (no input devices) | through any number of concurrent scans, phantoms and reboots |
| `GroupStateProofs` `TypeCorrect`, `RestoreIsLevel`, `PublishedUnlessOvertaken`, `SettledStays` | for any lamps, step size and number of requests |
| `GroupAssignmentsProofs` `TypeCorrect`, `LampsInStep`, `SavedInStep`, `BrokerInStep` | for any lamps, groups, number of refreshing tasks, calls and faults |
| `ConfigStoreProofs` `TypeCorrect`, `DaliKeysSurvive`, `CacheIsStored`, `NormalModeIsUsable`, `ChangesAreAwaited` | for any values, updates and reload tasks, and whatever fails |
| `DaliDriverProofs` `TypeCorrect`, `SearchFindsSmallest`, `AddressesStayApart`, `CountIsTrue`, `CommissioningGetsOn` | (commissioning) for any number of devices and short addresses and any base of the search address |
| `DaliDriverProofs` `DriverTypeCorrect`, `ReplyBelongsToFrame`, `FrameSentOnce`, `ForeignFramesHeard` | (driver) for any number of frames of the bridge and of other masters and any timeout, provided the times fit together (`TimingAssumption`) |
| `ImplementsBusCalls` | every step of the driver is a step of `BusCalls` or a stutter |
| `ConnectionProofs` `TypeCorrect`, `HandleStaysAlive`, `AnnouncedWhenConnected`, `ClientKeepsRunning` | for any number of reload tasks, base topics, clients and losses |

The inductive invariants:

- *PollScheduler*: `TypeOK`, `QueueMatchesSet`, `PollingInPoll` (needed to see
  that a pop starts a poll only when none runs) and `WalkedEarly` (requests
  behind the cursor are not due, without which `UrgentFirst` does not follow at
  the end of the walk). The bound on the queue follows from `QueueMatchesSet`: a
  queue without repetitions is no longer than its set.
- *DeviceState*: `TypeOK`, `LastLevelKept` (there is a level above 0 to restore, and
  a light that is on has its own), `BrokerFollowsCache` are inductive together.
  `OnLights` needs `Masks` besides: MASK is the level of a lamp, in the cache, in a
  queued frame, or in what the event handler, a command or a poll carries, only if
  the lamp was sent it. All writers of the cache go through `UpdateDeviceState`,
  about which lemmas are stated once; the rest is that nobody else touches cache or
  broker.
- *DeviceMap*: `MapClosed` speaks of the maps being built too, which is what
  makes it inductive. `LookupInverse` adds that a scan's lookup covers exactly
  the addresses it has passed; it needs distinct long addresses (`Bus`), which
  is what commissioning provides. `BootFindsExchangedGear` adds that a boot's
  scan agrees with the bus address by address. `NothingForgotten` is a property of
  steps; it needs to know that NVS and the maps of scans hold nothing that was
  asked in vain (`DataInv`), or a poll without an answer would change what a save
  writes without marking it, and that a boot ends with what it loaded or scanned
  before the sync task starts (`BootInv`). That a phantom changes nothing of what is
  secured (`RecallSecured`) rests on what a save makes of it: one record, under a long
  address no device has.
- *GroupState*: `Published` needs `Carried`, that a publication under way carries
  the state unless it was overtaken. `StaysSettled` is a property of steps, from the
  type alone: `Settled` is chosen so that the tasks under way belong to it.
- *GroupAssignments*: `IInv` has a part for each of the three places. `LampInv`
  adds that the commands still to be sent are those the table asks for and that
  no two tasks have commands for one lamp, unless the lamp is in doubt, and that
  what a refresh holds of a lamp is what the lamp still has. `SaveInv` adds that
  a copy about to be written is the table, `BrokerInv` the same of an entry about
  to be published. `LampInv` needs `SavedWhenDone` for the reboot only.
- *ConfigStore*: `PendingIsComplete` says that a copy waiting to be saved names a
  network and a broker, `StoredIsComplete` that NVS does once the device is
  configured *or was when it started*: the second half is needed because any save
  sets the flag again after it was cleared. Everything that saves goes through one
  lemma (`Saving`) about the prefixes a failure may leave. `ChangesAwaited` needs
  that an update which will only lead to a reload carries the network in use, unless
  a restart is due anyway (`WifiAwaited`): it may replace a newer cache. For the
  MQTT settings (`MqttAwaited`) it needs to know of the reload that copied last
  whether it still runs and with which copy (`newest`), and that every save of
  others leads to a reload behind it.
- *Commissioning*: three layers, each resting on the one before. `CInv` is the
  type, the room the search has left (so that `adr` stays in range) and the count.
  `FindInv` says that the registers hold the address meant, that the smallest
  address left lies in the interval not yet searched, and that a second try means
  the one lost reply has been used. `IInv` says who takes part, that the given
  addresses are those of the devices withdrawn and the one selected, and that
  those are apart. That `FirstUnused` is free uses that `<` is well-founded.
  `GetsOn` needs the first layer only: the pair of addresses left and search left
  (`Unused`, `Ahead`) gets smaller lexicographically with every step, which is why
  the process ends; that a well-founded measure ends is the step the prover does
  not do.
- *DaliDriver*: `BusOK` ties `busstate`, which `tx` and the interrupt write, to what
  is on the line. `SentInv` follows one frame through its retries: it is on the
  line, or collided, or has gone out, and `txcollision` says which before `tx_wait`
  decides to send again. `HeardInv` says that while a foreign frame waits for the
  sniffer the bus is idle and nobody has touched the buffer. `ReplyInv` needs the
  clock (`ClockOK`): the task looks at FreeRTOS ticks, so between the end of its
  frame and its first look `idlecnt` is at most a tick behind; another master keeps
  the bus idle first, so that its frame ends no earlier than four ticks into the
  wait and the answer to that no earlier than seven, while the wait ends at six;
  where a collision was taken for a sent frame (`Struck`) the others are two ticks
  later still, and the wait ends at seven. `AnswerInv` adds what the refinement
  needs: every frame but the one under way has its result, a reply anywhere on its
  way comes from a frame that has gone out, and a frame with a result other than a
  timeout is not in the transmitter. `TimingAssumption` says that gear answers
  within the time for which masters leave the bus idle, and that a FreeRTOS tick is
  no longer than a reply.
- *Connection*: `Announced` says what a session has been told after each step of
  the event handler. A base topic changed meanwhile is harmless because a reload
  is still to come (`Pending`), and a client that is left over stays left over, so
  that the premise `Settled`, once false for that reason, stays so. For `ClientRuns`,
  `Driven` says who will repair an empty handle or a client that does nothing: the
  task that cleared it, or another one that comes behind it.

Only model-checked: liveness under fairness (`SweepsWhenQuiet`, the liveness part
of `RefinesPendingPolls`, `CacheConverges`, `OutageNoticed`, `BrokerConverges`,
`EventuallySaved`, `GroupConverges`, `Terminates`, `CallReturns`, `ComeIntoForce`,
`ComesOnline`), which the prover does not do, and the configurations of section 5.
For five of these the theorems have the part that is about single steps or states:
`GetsOn` (`Terminates`), `StaysSettled` (`GroupConverges`), `ChangesAwaited`
(`ComeIntoForce`), `ClientRuns` (`ComesOnline`), `NothingForgotten`
(`EventuallySaved`). All other properties of the passing runs are proved.

## 7. Abstractions

- Levels are a small set with 0, the highest level and MASK. Minimum and maximum
  levels of a lamp are the defaults (1 and 254). The status byte is its lamp-on
  bit. Colour (DT8) is left out: no code path enables it at present (section 5).
- Long addresses on the bus are distinct (commissioning draws them at random);
  two lamps with one long address are not modelled.
- In `PollScheduler` time is counted in ticks and the deferred requests are
  bounded; the code leaves them unbounded.
- The sniffer hears nothing while the firmware is down; `Init`, a power cut and
  `Reboot` of `DeviceMap` stand for what happened meanwhile.
- In `GroupAssignments` the two queries for a lamp's groups are one exchange, and
  the delays between frames are left out. `DevicesChange` replaces the known and
  the available lamps at any time, which is more than scans and polls do.
- In `GroupState` the firmware does not restart: group states live in RAM only.
- In `Commissioning` a frame that is sent twice to be obeyed (INITIALISE,
  RANDOMISE) is one frame, missed if either is. Other masters are silent.
  Whether input devices answer the 16-bit QUERY STATUS of `commission_id` is not
  something the source decides; the model lets them.
- `DaliDriver` has no half bits: a frame has a start and an end, and is whole or not.
  The buffer sizes and the Manchester decoding are left out.
- `ConfigStore` keeps one value per group of settings. `save` and `setConfig`, which
  nobody calls, are left out. The steps of a reload after the copy are one; `Connection`
  has them one by one.
- `Connection` leaves the ring buffer and the handlers of the messages out, and the
  locks of the library: whether publishing under `m_mutex`
  (`DaliGroupManagement.cxx` 270) or `m_devices_mutex`
  (`DaliDeviceController.cxx` 142) can block for ever depends on the library's own
  lock, which is not in the repository.

Not modelled because there is nothing to decide: HTTP authentication, HA
discovery, syslog and the frontend (formatting and I/O).
Scenes are two commands per lamp and keep no state. The MQTT command queue is a
first-in first-out buffer between two tasks; it appears in that commands are
taken one at a time. The updates are one routine behind a busy flag, and what is
hard in them is ESP-IDF's.

## 8. Plan

Done: `PendingPolls`, `PollScheduler`, `DeviceState`, `DeviceMap`, `GroupState`,
`GroupAssignments`, `Commissioning`, `BusCalls`, `DaliDriver`, `ConfigStore`,
`Connection`.

Every invariant and every action property the runs check is proved.

Next, in this order:

1. `Update`: the busy flag, and what is left when the web update fails after the
   erasure.
2. The MQTT command queue with its patience of 10 ms and the dispatch.
3. Compositions: group commands through `GroupState` and `DeviceState` at once.
4. A safety property behind `CallReturns`: a bound on the ticks for which a call
   holds `bus_mutex`, as a function of the timeout and the idle time.
