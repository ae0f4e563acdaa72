----------------------------- MODULE DeviceState -----------------------------
(***************************************************************************)
(* The state of the lights as DaliDeviceController caches it and as the    *)
(* MQTT broker retains it, with everybody who changes it:                  *)
(*   - the sync task polls the lamps (pollSingleDevice);                   *)
(*   - the event handler applies frames of other bus masters               *)
(*     (SnifferProcessFrame);                                              *)
(*   - the command task serves light/.../set (handleLightCommand);         *)
(*   - a bus scan replaces the map of devices, a reboot loads it again.    *)
(* Each of them works in steps between which it holds no lock: a step here *)
(* is one exchange on the bus (bus_mutex) or one critical section of       *)
(* m_devices_mutex, which also covers the publication.                     *)
(*                                                                         *)
(* Levels are data: a small set stands for 0 .. 254.  The status byte is   *)
(* its lamp-on bit.  Colour is not modelled here.  The scheduler of the    *)
(* polls is PendingPolls, which PollScheduler implements.                  *)
(***************************************************************************)
EXTENDS Naturals, Sequences, FiniteSets

CONSTANTS
  Gear,         \* long addresses of the lamps on the bus
  Group,        \* the lamps assigned to the group of the model
  Via,          \* the ways of addressing in use: "short", "group", "broadcast"
  Level,        \* the levels of a lamp, with 0 and 254 among them
  QueueSize,    \* length of m_dali_event_queue (32 in the code)
  MaxFrames,    \* bound: frames other masters send
  MaxCommands,  \* bound: light/.../set messages
  MaxScans,     \* bound: bus scans
  MaxFaults     \* bound: lost frames and replies, power cuts, reboots ...

Mask == 255     \* DALI's MASK: "no change" in DACP, "unknown" in a reply
None == 256     \* an empty std::optional
NoGear == 0     \* no poll is running
MinLevel == 1
MaxLevel == 254

ASSUME GearAssumption == Gear \subseteq Nat \ {NoGear} /\ Group \subseteq Gear
ASSUME ViaAssumption == Via \subseteq {"short", "group", "broadcast"}
ASSUME LevelAssumption == Level \subseteq 0 .. 254 /\ {0, MaxLevel} \subseteq Level
ASSUME BoundAssumption ==
  {QueueSize, MaxFrames, MaxCommands, MaxScans, MaxFaults} \subseteq Nat

KnownLevel == Level \cup {Mask}    \* what current_level can hold
StatusByte == {0, 4}
LampOn(l) == IF l > 0 THEN 4 ELSE 0

\* ControlGear, as far as it changes at run time.
ControlGear ==
  [current : KnownLevel, last : KnownLevel, status : StatusByte,
   available : BOOLEAN, initial : BOOLEAN]
NewGear(isAvailable) ==
  [current |-> 0, last |-> MaxLevel, status |-> 0,
   available |-> isAvailable, initial |-> TRUE]

\* A forward frame: DACP or OFF ("level"), RECALL MAX/MIN LEVEL ("recall"),
\* ON AND STEP UP ("onstep"), the relative commands and scenes ("move").
Kind == {"level", "recall", "onstep", "move"}
Frame == [via : Via, to : SUBSET Gear,
          kind : Kind, level : KnownLevel]

VARIABLES
  lamp, powered,          \* the lamps: their level, whether they have mains
  masked,                 \* history: lamps sent a DACP MASK since the boot
  running,                \* the firmware has started its tasks
  mapped,                 \* keys of m_devices
  phantom,                \* those of them that have no short address
  dev,                    \* m_devices
  link,                   \* the MQTT client: "none", "down" or "up"
  brokerState,            \* retained light/.../state: the brightness
  brokerStatus,           \* retained light/.../status
  outbox,                 \* the MQTT client's outbox of QoS 1 messages
  lost,                   \* history: the last state published was dropped
  events,                 \* m_dali_event_queue
  sniff,                  \* daliEventHandlerTask: updates and polls to do
  cmd,                    \* mqtt_cmd_task: the light command in hand
  scan,                   \* discoverAndMapDevices: who has answered
  pending, polling,       \* the poll scheduler (PendingPolls)
  poll,                   \* pollSingleDevice: how far it is, what it heard
  used                    \* how much of each bound is used up

busVars == <<lamp, powered, masked>>
mapVars == <<mapped, phantom>>
linkVars == <<link, outbox>>
publishVars == <<dev, brokerState, lost>>
pollVars == <<pending, polling, poll>>
vars == <<busVars, running, mapVars, linkVars, publishVars, brokerStatus,
          events, sniff, cmd, scan, pollVars, used>>

Polls == INSTANCE PendingPolls WITH Addr <- Gear, NoAddr <- NoGear

SniffIdle == [plan |-> {}, ask |-> {}]
CmdIdle == [pc |-> "idle", on |-> FALSE, level |-> 0, via |-> "short", to |-> {},
            plan |-> {}]
ScanIdle == [on |-> FALSE, heard |-> {}]
PollIdle == [pc |-> "idle", level |-> None, status |-> None]

\* Devices with an entry in m_short_to_long_map.
Addressed == mapped \ phantom

Use(what) == used' = [used EXCEPT ![what] = @ + 1]
Fault == used.faults < MaxFaults /\ Use("faults")
NoFault == UNCHANGED used

Init ==
  /\ lamp \in [Gear -> Level]
  /\ powered = [g \in Gear |-> TRUE]
  /\ masked = {}
  /\ running = FALSE
  /\ mapped = {} /\ phantom = {}
  /\ dev = [g \in Gear |-> NewGear(FALSE)]
  /\ link = "none" /\ outbox = <<>>
  /\ brokerState = [g \in Gear |-> None]
  /\ brokerStatus = [g \in Gear |-> "none"]
  /\ lost = [g \in Gear |-> FALSE]
  /\ events = <<>>
  /\ sniff = SniffIdle /\ cmd = CmdIdle /\ scan = ScanIdle
  /\ Polls!Init /\ poll = PollIdle
  /\ used = [frames |-> 0, commands |-> 0, scans |-> 0, faults |-> 0]

-----------------------------------------------------------------------------
(* The cache and what is published from it.                                *)

\* Mutants: a level of 0 taken for no level; "off" kept as a level to restore;
\* publication only of the first state; publication only of changes.
LevelIfLit(old, level) == IF level \in {None, 0} THEN old ELSE level
LastWithOff(old, level) == IF level = None THEN old ELSE level
PublishFirst(old, new) == old.initial /\ new.current # Mask
PublishChange(old, new) ==
  /\ new.current # old.current \/ new.status # old.status
  /\ new.current # Mask

\* What updateDeviceState makes of a level it is given.
NewLevel(old, level) == IF level = None THEN old ELSE level
NewLast(old, level) == IF level \in {None, 0} THEN old ELSE level

\* A change or a first state is published, but for a level that is unknown.
Publishes(old, new) ==
  /\ \/ new.current # old.current
     \/ new.status # old.status
     \/ old.initial
  /\ new.current # Mask

\* updateDeviceState and the publishState it calls, in one critical section.
\* QoS 0: what is published without a connection is gone.
UpdateDeviceState(g, level, status) ==
  IF g \notin mapped
    THEN UNCHANGED publishVars
    ELSE LET old == dev[g]
             new == [old EXCEPT
                       !.current = NewLevel(@, level),
                       !.last = NewLast(@, level),
                       !.status = IF status = None THEN @ ELSE status,
                       !.initial = FALSE]
             publish == Publishes(old, new)
         IN  /\ dev' = [dev EXCEPT ![g] = new]
             /\ brokerState' = IF publish /\ link = "up"
                                 THEN [brokerState EXCEPT ![g] = new.current]
                                 ELSE brokerState
             /\ lost' = IF publish THEN [lost EXCEPT ![g] = link # "up"] ELSE lost

Status == {"none", "online", "offline"}

\* publishAvailability.  QoS 1: the client keeps it while the broker is away,
\* if there is a client.
StatusText(isAvailable) == IF isAvailable THEN "online" ELSE "offline"
PublishAvailability(g, isAvailable) ==
  /\ brokerStatus' = IF link = "up"
                       THEN [brokerStatus EXCEPT ![g] = StatusText(isAvailable)]
                       ELSE brokerStatus
  /\ outbox' = IF link = "down"
                 THEN Append(outbox, [gear |-> g, text |-> StatusText(isAvailable)])
                 ELSE outbox
  /\ UNCHANGED link

\* The level a lamp may have after a frame, when it was at l.
LevelsAfter(f, l) ==
  CASE f.kind = "level"  -> {IF f.level = Mask THEN l ELSE f.level}
    [] f.kind = "recall" -> {f.level}
    [] f.kind = "onstep" -> Level \ {0}
    [] f.kind = "move"   -> Level

\* A frame on the bus reaches every lamp it addresses that has mains.
OnBus(f) ==
  /\ lamp' \in [Gear -> Level]
  /\ \A g \in Gear : lamp'[g] \in IF g \in f.to /\ powered[g]
                                    THEN LevelsAfter(f, lamp[g])
                                    ELSE {lamp[g]}
  /\ masked' = IF f.kind = "level" /\ f.level = Mask THEN masked \cup f.to ELSE masked
  /\ UNCHANGED powered

-----------------------------------------------------------------------------
(* Other bus masters and the event handler.                                *)

\* Frames that reach a lamp.  A group frame addresses the assigned lamps.
Sendable(f) ==
  /\ f.to \in CASE f.via = "short" -> {{g} : g \in Gear}
                [] f.via = "group" -> {Group}
                [] f.via = "broadcast" -> {Gear}
  /\ f.level \in CASE f.kind = "level" -> KnownLevel
                   [] f.kind = "recall" -> {MinLevel, MaxLevel} \cap Level
                   [] OTHER -> {0}

\* xQueueSend without waiting: a full queue drops the frame.
Queue(f) == IF Len(events) < QueueSize THEN Append(events, f) ELSE events

\* What other masters send while the firmware is down is not heard: Init, and
\* the lamps' level after a power cut, stand for it.
\* dali_sniffer_task queues the frame.
\* A fault is a frame the receiver did not decode.
ForeignFrame(f) ==
  /\ running /\ used.frames < MaxFrames
  /\ Sendable(f)
  /\ OnBus(f)
  /\ \/ /\ events' = Queue(f)
        /\ Use("frames")
     \/ /\ used.faults < MaxFaults
        /\ used' = [used EXCEPT !.frames = @ + 1, !.faults = @ + 1]
        /\ UNCHANGED events
  /\ UNCHANGED <<running, mapVars, linkVars, publishVars, brokerStatus, sniff,
                 cmd, scan, pollVars>>

\* SnifferProcessFrame: affected_devices.
Affected(f) ==
  CASE f.via = "short"     -> f.to \cap Addressed
    [] f.via = "group"     -> f.to
    [] f.via = "broadcast" -> mapped

\* ... and what it will do to them.  A RECALL for one device looks it up with
\* operator[], which creates it when it is not there.
SniffTake ==
  /\ running /\ events # <<>> /\ sniff = SniffIdle
  /\ events' = Tail(events)
  /\ LET f == Head(events)
         affected == Affected(f)
         known == affected \cap mapped
         dark == {g \in known : dev[g].current = 0}
         created == IF f.kind = "recall" /\ Cardinality(affected) = 1
                      THEN affected \ mapped ELSE {}
     IN  /\ sniff' =
              CASE f.kind \in {"level", "recall"} ->
                     [plan |-> {[gear |-> g, level |-> f.level] : g \in affected},
                      ask |-> {}]
                [] f.kind = "onstep" ->
                     [plan |-> {[gear |-> g, level |-> dev[g].last] : g \in dark},
                      ask |-> IF known = dark THEN {} ELSE affected]
                [] f.kind = "move" -> [plan |-> {}, ask |-> affected]
         /\ mapped' = mapped \cup created
         /\ phantom' = phantom \cup created
         /\ dev' = [g \in Gear |-> IF g \in created THEN NewGear(FALSE) ELSE dev[g]]
  /\ UNCHANGED <<busVars, running, linkVars, brokerState, lost, brokerStatus,
                 cmd, scan, pollVars, used>>

SniffApply ==
  /\ \E update \in sniff.plan :
       /\ \A other \in sniff.plan : update.gear <= other.gear
       /\ UpdateDeviceState(update.gear, update.level, None)
       /\ sniff' = [sniff EXCEPT !.plan = @ \ {update}]
  /\ UNCHANGED <<busVars, running, mapVars, linkVars, brokerStatus, events, cmd,
                 scan, pollVars, used>>

\* requestDeviceSync for every affected device that has a short address.
SniffAsk ==
  /\ sniff.plan = {} /\ sniff.ask # {}
  /\ pending' = pending \cup (sniff.ask \cap Addressed)
  /\ sniff' = SniffIdle
  /\ UNCHANGED <<busVars, running, mapVars, linkVars, publishVars, brokerStatus,
                 events, cmd, scan, polling, poll, used>>

-----------------------------------------------------------------------------
(* light/.../set: handleLightCommand and publishLightState.                *)

CommandKind == {"off", "on", "level"}

\* What the command sends.  "ON" for one light restores its last level; for a
\* group or a broadcast it is RECALL MAX LEVEL.  The short address of a
\* phantom is 0xFF, which addresses every lamp and maps to no device.
CommandFrame(kind, via, to, level) ==
  LET single == via = "short" /\ to \cap phantom = {}
      whole == IF to \cap phantom = {} THEN to ELSE Gear
      restored == IF single THEN dev[CHOOSE g \in to : TRUE].last ELSE MaxLevel
  IN [via |-> via, to |-> IF via = "short" THEN whole ELSE to,
      kind |-> IF kind = "on" /\ ~single THEN "recall" ELSE "level",
      level |-> CASE kind = "off" -> 0
                  [] kind = "on" -> restored
                  [] kind = "level" -> level]

CmdTake(kind, via, to, level) ==
  /\ running /\ cmd.pc = "idle"
  /\ used.commands < MaxCommands /\ Use("commands")
  /\ level = 0 <=> kind # "level"
  /\ to \in CASE via = "short" -> {{g} : g \in Gear}
              [] via = "group" -> {Group}
              [] via = "broadcast" -> {Gear}
  /\ via = "short" => to \subseteq mapped
  /\ LET f == CommandFrame(kind, via, to, level)
     IN cmd' = [pc |-> "send", on |-> kind = "on", level |-> f.level, via |-> via,
                to |-> f.to, plan |-> IF f.to = to THEN to ELSE {}]
  /\ UNCHANGED <<busVars, running, mapVars, linkVars, publishVars, brokerStatus,
                 events, sniff, scan, pollVars>>

\* The frame goes out.  A fault: the driver gives up (bus busy, collision), of
\* which sendDACP and sendCommand tell nothing.
CmdSend ==
  /\ cmd.pc = "send"
  /\ \/ /\ OnBus([via |-> cmd.via, to |-> cmd.to, level |-> cmd.level,
                  kind |-> IF cmd.on /\ cmd.via # "short" THEN "recall" ELSE "level"])
        /\ NoFault
     \/ Fault /\ UNCHANGED busVars
  /\ LET told == CASE cmd.via = "short" -> cmd.plan \cap Addressed
                   [] cmd.via = "group" -> cmd.plan
                   [] cmd.via = "broadcast" -> {g \in mapped : dev[g].available}
     IN cmd' = IF told = {} THEN CmdIdle
                            ELSE [cmd EXCEPT !.pc = "apply", !.plan = told]
  /\ UNCHANGED <<running, mapVars, linkVars, publishVars, brokerStatus, events,
                 sniff, scan, pollVars>>

\* The cache and the broker are told, one device after the other.
CmdApply ==
  /\ cmd.pc = "apply"
  /\ \E g \in cmd.plan :
       /\ \A h \in cmd.plan : g <= h
       /\ UpdateDeviceState(g, cmd.level, None)
       /\ cmd' = IF cmd.plan = {g} THEN CmdIdle
                                   ELSE [cmd EXCEPT !.plan = @ \ {g}]
  /\ UNCHANGED <<busVars, running, mapVars, linkVars, brokerStatus, events, sniff,
                 scan, pollVars, used>>

-----------------------------------------------------------------------------
(* The sync task: pollSingleDevice.                                        *)

\* QUERY ACTUAL LEVEL.  A lamp without mains does not answer.  Faults: the
\* reply is lost, or the lamp is starting up and says MASK.
PollQuery(g) ==
  /\ running /\ g \in Addressed
  /\ Polls!Serve(g) \/ Polls!Sweep(g)
  /\ \/ /\ poll' = [PollIdle EXCEPT !.pc = "level",
                                    !.level = IF powered[g] THEN lamp[g] ELSE None]
        /\ NoFault
     \/ /\ powered[g] /\ Fault
        /\ \E reply \in {None, Mask} :
             poll' = [PollIdle EXCEPT !.pc = "level", !.level = reply]
  /\ UNCHANGED <<busVars, running, mapVars, linkVars, publishVars, brokerStatus,
                 events, sniff, cmd, scan>>

PollDone ==
  /\ Polls!Done
  /\ poll' = PollIdle

\* Mutant: only MASK counts as no answer.
RespondsUnlessMask(reply) == reply # Mask

Responds(reply) == reply # None

\* Availability, under the lock.  A device that left the map in the meantime
\* ends the poll, so does no answer; MASK stands for the cached level.
PollAvailability ==
  /\ poll.pc = "level"
  /\ LET g == polling
         responding == Responds(poll.level)
     IN IF g \notin mapped
          THEN PollDone /\ UNCHANGED <<dev, brokerStatus, linkVars>>
          ELSE /\ dev' = [dev EXCEPT ![g].available = responding]
               /\ IF dev[g].available # responding
                    THEN PublishAvailability(g, responding)
                    ELSE UNCHANGED <<brokerStatus, linkVars>>
               /\ IF responding
                    THEN /\ poll' = [poll EXCEPT
                              !.pc = "status",
                              !.level = IF @ = Mask THEN dev[g].current ELSE @]
                         /\ UNCHANGED <<pending, polling>>
                    ELSE PollDone
  /\ UNCHANGED <<busVars, running, mapVars, brokerState, lost, events, sniff, cmd,
                 scan, used>>

\* getDeviceStatus.
PollStatus ==
  /\ poll.pc = "status"
  /\ IF polling \notin mapped
       THEN PollDone /\ NoFault
       ELSE /\ \/ /\ poll' = [poll EXCEPT
                       !.pc = "update",
                       !.status = IF powered[polling] THEN LampOn(lamp[polling])
                                                      ELSE None]
                  /\ NoFault
               \/ /\ powered[polling] /\ Fault
                  /\ poll' = [poll EXCEPT !.pc = "update"]
            /\ UNCHANGED <<pending, polling>>
  /\ UNCHANGED <<busVars, running, mapVars, linkVars, publishVars, brokerStatus,
                 events, sniff, cmd, scan>>

PollUpdate ==
  /\ poll.pc = "update"
  /\ UpdateDeviceState(polling, poll.level, poll.status)
  /\ PollDone
  /\ UNCHANGED <<busVars, running, mapVars, linkVars, brokerStatus, events, sniff,
                 cmd, scan, used>>

-----------------------------------------------------------------------------
(* Scans, boots, the MQTT connection and the mains.                        *)

ScanBegin ==
  /\ running /\ ~scan.on
  /\ used.scans < MaxScans /\ Use("scans")
  /\ scan' = [on |-> TRUE, heard |-> {}]
  /\ UNCHANGED <<busVars, running, mapVars, linkVars, publishVars, brokerStatus,
                 events, sniff, cmd, pollVars>>

ScanHear(g) ==
  /\ scan.on /\ powered[g] /\ g \notin scan.heard
  /\ scan' = [scan EXCEPT !.heard = @ \cup {g}]
  /\ UNCHANGED <<busVars, running, mapVars, linkVars, publishVars, brokerStatus,
                 events, sniff, cmd, pollVars, used>>

\* A fresh map takes the place of the old one.  Nothing is published.
Discovered(found) ==
  /\ mapped' = found
  /\ phantom' = {}
  /\ dev' = [g \in Gear |-> NewGear(g \in found)]

ScanSwap ==
  /\ scan.on
  /\ Discovered(scan.heard)
  /\ scan' = ScanIdle
  /\ UNCHANGED <<busVars, running, linkVars, brokerState, lost, brokerStatus,
                 events, sniff, cmd, pollVars, used>>

\* init(): with a map in NVS, those that answer are marked available (their
\* publication finds no MQTT client yet); without one, the bus is scanned.  A
\* lamp with mains that does not answer is a fault.  start() then runs the tasks;
\* the first thing the sync task does is requestBroadcastSync.
Boot(answered) ==
  /\ ~running
  /\ \A g \in answered : powered[g]
  /\ IF \A g \in Gear \ answered : ~powered[g] THEN NoFault ELSE Fault
  /\ running' = TRUE
  /\ IF mapped = {}
       THEN Discovered(answered)
       ELSE /\ dev' = [g \in Gear |-> NewGear(g \in answered \cap mapped)]
            /\ UNCHANGED mapVars
  /\ pending' = mapped'
  /\ UNCHANGED <<busVars, linkVars, brokerState, lost, brokerStatus, events, sniff,
                 cmd, scan, polling, poll>>

\* The network is up for the first time: MQTTClient::init.
NetworkUp ==
  /\ running /\ link = "none"
  /\ link' = "down"
  /\ UNCHANGED <<busVars, running, mapVars, outbox, publishVars, brokerStatus,
                 events, sniff, cmd, scan, pollVars, used>>

\* onMqttConnected publishes no state of a light.  The client sends what is in
\* its outbox, but for the oldest messages that have expired.
Delivered(messages, g, text) ==
  LET mine == {i \in DOMAIN messages : messages[i].gear = g}
  IN IF mine = {}
       THEN text = brokerStatus[g]
       ELSE \E i \in mine : (\A j \in mine : j <= i) /\ text = messages[i].text
MqttConnected ==
  /\ link = "down"
  /\ link' = "up"
  /\ \E kept \in 1 .. Len(outbox) + 1 :
       /\ brokerStatus' \in [Gear -> Status]
       /\ \A g \in Gear :
            Delivered(SubSeq(outbox, kept, Len(outbox)), g, brokerStatus'[g])
  /\ outbox' = <<>>
  /\ UNCHANGED <<busVars, running, mapVars, publishVars, events, sniff, cmd, scan,
                 pollVars, used>>

MqttLost ==
  /\ link = "up" /\ Fault
  /\ link' = "down"
  /\ UNCHANGED <<busVars, running, mapVars, outbox, publishVars, brokerStatus,
                 events, sniff, cmd, scan, pollVars>>

\* What is in RAM is gone.
Reboot ==
  /\ running /\ Fault
  /\ running' = FALSE
  /\ mapped' = Addressed /\ phantom' = {}
  /\ dev' = [g \in Gear |-> NewGear(FALSE)]
  /\ link' = "none" /\ outbox' = <<>>
  /\ events' = <<>>
  /\ sniff' = SniffIdle /\ cmd' = CmdIdle /\ scan' = ScanIdle
  /\ pending' = {} /\ polling' = NoGear /\ poll' = PollIdle
  /\ masked' = {}
  /\ UNCHANGED <<lamp, powered, brokerState, lost, brokerStatus>>

PowerCut(g) ==
  /\ powered[g] /\ Fault
  /\ powered' = [powered EXCEPT ![g] = FALSE]
  /\ lamp' = [lamp EXCEPT ![g] = 0]
  /\ UNCHANGED <<masked, running, mapVars, linkVars, publishVars, brokerStatus, events,
                 sniff, cmd, scan, pollVars>>

\* The lamp comes back at its power-on level.
PowerReturn(g) ==
  /\ ~powered[g]
  /\ powered' = [powered EXCEPT ![g] = TRUE]
  /\ lamp' = [lamp EXCEPT ![g] = MaxLevel]
  /\ UNCHANGED <<masked, running, mapVars, linkVars, publishVars, brokerStatus, events,
                 sniff, cmd, scan, pollVars, used>>

EventHandler == SniffTake \/ SniffApply \/ SniffAsk
CommandTask == CmdSend \/ CmdApply
PollSteps == PollAvailability \/ PollStatus \/ PollUpdate
Connecting == NetworkUp \/ MqttConnected

Next ==
  \/ \E f \in Frame : ForeignFrame(f)
  \/ EventHandler
  \/ \E kind \in CommandKind, via \in Via,
        to \in SUBSET Gear, level \in Level : CmdTake(kind, via, to, level)
  \/ CommandTask
  \/ \E g \in Gear : PollQuery(g)
  \/ PollSteps
  \/ ScanBegin \/ (\E g \in Gear : ScanHear(g)) \/ ScanSwap
  \/ \E answered \in SUBSET Gear : Boot(answered)
  \/ Connecting \/ MqttLost \/ Reboot
  \/ \E g \in Gear : PowerCut(g) \/ PowerReturn(g)

SafeSpec == Init /\ [][Next]_vars

\* The tasks run, the client keeps connecting, and the scheduler polls every
\* address again and again (PollScheduler's SweepsWhenQuiet).
Fairness ==
  /\ WF_vars(EventHandler) /\ WF_vars(CommandTask) /\ WF_vars(PollSteps)
  /\ WF_vars(Connecting) /\ WF_vars(ScanSwap)
  /\ WF_vars(\E answered \in SUBSET Gear : Boot(answered))
  /\ \A g \in Gear : SF_vars(PollQuery(g))

Spec == SafeSpec /\ Fairness

-----------------------------------------------------------------------------
TypeOK ==
  /\ lamp \in [Gear -> Level] /\ powered \in [Gear -> BOOLEAN]
  /\ masked \in SUBSET Gear
  /\ running \in BOOLEAN
  /\ mapped \in SUBSET Gear /\ phantom \in SUBSET mapped
  /\ dev \in [Gear -> ControlGear]
  /\ link \in {"none", "down", "up"}
  /\ brokerState \in [Gear -> Level \cup {None}]
  /\ brokerStatus \in [Gear -> Status]
  /\ outbox \in Seq([gear : Gear, text : {"online", "offline"}])
  /\ lost \in [Gear -> BOOLEAN]
  /\ events \in Seq(Frame) /\ Len(events) <= QueueSize
  /\ sniff \in [plan : SUBSET [gear : Gear, level : KnownLevel], ask : SUBSET Gear]
  /\ cmd \in [pc : {"idle", "send", "apply"}, on : BOOLEAN, level : KnownLevel,
              via : {"short", "group", "broadcast"}, to : SUBSET Gear,
              plan : SUBSET Gear]
  /\ scan \in [on : BOOLEAN, heard : SUBSET Gear]
  /\ pending \in SUBSET Gear /\ polling \in Gear \cup {NoGear}
  /\ poll \in [pc : {"idle", "level", "status", "update"},
               level : KnownLevel \cup {None}, status : StatusByte \cup {None}]
  /\ used \in [{"frames", "commands", "scans", "faults"} -> Nat]

\* A command "ON" whose frame is on the bus lights every lamp it addresses that
\* has mains: whatever polls, sniffed frames, commands, scans and boots left as
\* the level to restore, it is one that lights, unless the lamp was sent MASK.
OnLights ==
  [][cmd.pc = "send" /\ cmd.on /\ cmd'.pc # "send" /\ used' = used =>
       \A g \in cmd.to \ masked : powered[g] => lamp'[g] > 0]_vars

\* Whoever wrote the cache last - poll, sniffed frame or command - the broker
\* retains what the cache says, unless that publication was dropped.
BrokerFollowsCache ==
  \A g \in mapped : ~lost[g] /\ ~dev[g].initial /\ dev[g].current # Mask
                      => brokerState[g] = dev[g].current

\* Once the bus is quiet the cache agrees with a lamp it knows, in spite of
\* polls that were overtaken by commands, dropped frames and lost replies.
Settled(g) == running /\ g \in Addressed /\ powered[g] /\ ~scan.on
CacheConverges ==
  \A g \in Gear :
    <>[]Settled(g) => <>[](dev[g].available /\ dev[g].current = lamp[g])

\* A lamp that has lost its mains is noticed.
OutageNoticed ==
  \A g \in Gear :
    <>[](running /\ g \in Addressed /\ ~powered[g]) => <>[](~dev[g].available)

\* The broker agrees with the lamp too, if the last publication got through.
BrokerConverges ==
  \A g \in Gear :
    <>[](Settled(g) /\ ~lost[g]) => <>[](brokerState[g] = lamp[g])

\* README: the bridge "sends the updated state to MQTT, ensuring full
\* synchronization", and polls found devices "to send states to MQTT".
StateReachesBroker ==
  \A g \in Gear :
    <>[](Settled(g) /\ link = "up") => <>[](brokerState[g] = lamp[g])

\* docs/api/mqtt.md: "state": "ON" turns the light on.  Stated of a command
\* whose frame is on the bus, with no lamp excepted.
OnMeansLit ==
  [][cmd.pc = "send" /\ cmd.on /\ cmd'.pc = "apply" /\ used' = used =>
       \A g \in cmd.to : powered[g] => lamp'[g] > 0]_vars

=============================================================================
