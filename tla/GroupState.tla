------------------------------ MODULE GroupState ------------------------------
(***************************************************************************)
(* The state of one group as DaliGroupManagement caches it and as the MQTT *)
(* broker retains it (groups share nothing but m_mutex), with everybody    *)
(* who changes it:                                                         *)
(*   - the event handler, for group frames of other bus masters;           *)
(*   - the command task, for light/group/.../set;                          *)
(*   - the sync task, which each time the round robin wraps computes the   *)
(*     group's level from the cached levels of its members.                *)
(* Each of them decides on a level, then updates the state in a critical   *)
(* section of m_mutex (updateGroupState), then reads it again without the  *)
(* lock, then publishes what it has read: four steps that interleave.      *)
(* Colour is not modelled.                                                 *)
(***************************************************************************)
EXTENDS Naturals, FiniteSets

CONSTANTS
  Gear,         \* the lamps m_devices knows
  MaxLevel,     \* the highest level (254 in the code)
  StepSize,     \* STEP_SIZE (10 in the code)
  MaxRequests,  \* bound: group frames of other masters and .../set messages
  MaxChanges    \* bound: changes of members, their cached levels, the connection

Mask == MaxLevel + 1
MinLevel == 1
KnownLevel == 0 .. Mask
None == Mask + 1    \* the broker retains nothing
Task == {"sniff", "cmd", "sync"}

ASSUME LevelAssumption == MaxLevel \in Nat \ {0} /\ StepSize \in Nat \ {0}
ASSUME BoundAssumption == {MaxRequests, MaxChanges} \subseteq Nat

VARIABLES
  members,   \* m_assignments: the lamps in the group
  device,    \* m_devices, as far as the sync task reads it
  group,     \* m_group_states of the group
  link,      \* the connection to the broker
  broker,    \* retained light/group/{id}/state: the brightness
  task,      \* how far each task is, and the level it carries
  taken,     \* the sync task's copy of the assignments
  lost,      \* history: the last publication was dropped
  raced,     \* history: the last update met a publication under way
  used       \* how much of each bound is used up

envVars == <<members, device, link>>
vars == <<members, device, group, link, broker, task, taken, lost, raced, used>>

Idle == [pc |-> "idle", level |-> 0]
Use(what) == used' = [used EXCEPT ![what] = @ + 1]

Init ==
  /\ members \in SUBSET Gear
  /\ device \in [Gear -> [level : {0}, available : BOOLEAN]]
  /\ group = [current |-> 0, last |-> MaxLevel]
  /\ link = "down"
  /\ broker \in {0, None}
  /\ task = [t \in Task |-> Idle]
  /\ taken = {}
  /\ lost = TRUE /\ raced = FALSE
  /\ used = [requests |-> 0, changes |-> 0]

-----------------------------------------------------------------------------
(* The level a task decides on.                                            *)

StepUp(level) == IF level + StepSize > MaxLevel THEN MaxLevel ELSE level + StepSize
StepDown(level) == IF level < MinLevel + StepSize THEN MinLevel ELSE level - StepSize

\* The task t goes on to updateGroupState with the level.
GoesOn(t, level) == task' = [task EXCEPT ![t] = [pc |-> "update", level |-> level]]

\* stepGroupLevel reads the level in one critical section and calls
\* updateGroupState after it.  A dark group is not stepped.
StepTo(level) ==
  IF group.current \in {0, level} THEN UNCHANGED task ELSE GoesOn("sniff", level)

\* SnifferProcessFrame, the part about the group: DACP, OFF and RECALL name a
\* level; ON AND STEP UP restores the last one (restoreGroupLevel).
SniffFrame ==
  /\ task["sniff"] = Idle
  /\ used.requests < MaxRequests /\ Use("requests")
  /\ \/ \E level \in KnownLevel : GoesOn("sniff", level)
     \/ GoesOn("sniff", group.last)
     \/ StepTo(StepUp(group.current))
     \/ StepTo(StepDown(group.current))
  /\ UNCHANGED <<envVars, group, broker, taken, lost, raced>>

\* publishLightState for a group: OFF, a level, or ON, for which
\* handleLightCommand asks for the highest; a message with nothing but a
\* colour takes the last level.
Command ==
  /\ task["cmd"] = Idle
  /\ used.requests < MaxRequests /\ Use("requests")
  /\ \/ \E level \in 0 .. MaxLevel : GoesOn("cmd", level)
     \/ GoesOn("cmd", group.last)
  /\ UNCHANGED <<envVars, group, broker, taken, lost, raced>>

\* The sync task copies the assignments ...
SyncAssignments ==
  /\ task["sync"] = Idle
  /\ taken' = members
  /\ task' = [task EXCEPT !["sync"].pc = "assigned"]
  /\ UNCHANGED <<envVars, group, broker, lost, raced, used>>

\* Mutant: members that do not answer count as well.
HighestOfAll(level) ==
  \E g \in taken : /\ level = device[g].level
                   /\ \A h \in taken : device[h].level <= level

\* ... then the devices: the highest level of the available members.
Highest(level) ==
  \E g \in taken : /\ device[g].available /\ level = device[g].level
                   /\ \A h \in taken : device[h].available => device[h].level <= level
SyncDevices ==
  /\ task["sync"].pc = "assigned"
  /\ \/ \E level \in KnownLevel : Highest(level) /\ GoesOn("sync", level)
     \/ /\ \A level \in KnownLevel : ~Highest(level)
        /\ task' = [task EXCEPT !["sync"] = Idle]
  /\ taken' = {}
  /\ UNCHANGED <<envVars, group, broker, lost, raced, used>>

-----------------------------------------------------------------------------
(* updateGroupState and publishGroupState.                                 *)

\* Mutant: the last level is kept only when the group is switched on.
NewLastWhenDark(old, level) == IF level > 0 /\ old.current = 0 THEN level ELSE old.last

NewLast(old, level) == IF level > 0 THEN level ELSE old.last

InFlight(u) == task[u].pc \in {"read", "publish"}

\* Mutant: what has not changed is not published.
UpdateIfChanged(t) ==
  /\ task[t].pc = "update"
  /\ group' = [current |-> task[t].level, last |-> NewLast(group, task[t].level)]
  /\ task' = IF group.current = task[t].level
               THEN [task EXCEPT ![t] = Idle]
               ELSE [task EXCEPT ![t] = [pc |-> "read", level |-> 0]]
  /\ raced' = \E u \in Task \ {t} : InFlight(u)
  /\ UNCHANGED <<envVars, broker, taken, lost, used>>

Update(t) ==
  /\ task[t].pc = "update"
  /\ group' = [current |-> task[t].level, last |-> NewLast(group, task[t].level)]
  /\ task' = [task EXCEPT ![t] = [pc |-> "read", level |-> 0]]
  /\ raced' = \E u \in Task \ {t} : InFlight(u)
  /\ UNCHANGED <<envVars, broker, taken, lost, used>>

\* Mutant: the level to restore is published.
ReadLast(t) ==
  /\ task[t].pc = "read"
  /\ task' = [task EXCEPT ![t] = [pc |-> "publish", level |-> group.last]]
  /\ UNCHANGED <<envVars, group, broker, taken, lost, raced, used>>

\* The arguments of publishGroupState are read without m_mutex.
Read(t) ==
  /\ task[t].pc = "read"
  /\ task' = [task EXCEPT ![t] = [pc |-> "publish", level |-> group.current]]
  /\ UNCHANGED <<envVars, group, broker, taken, lost, raced, used>>

\* QoS 0: what is published without a connection is gone.
Publish(t) ==
  /\ task[t].pc = "publish"
  /\ broker' = IF link = "up" THEN task[t].level ELSE broker
  /\ lost' = (link # "up")
  /\ task' = [task EXCEPT ![t] = Idle]
  /\ UNCHANGED <<envVars, group, taken, raced, used>>

-----------------------------------------------------------------------------
(* What the group's state depends on: DaliGroupManagement's assignments,   *)
(* the cache of DaliDeviceController, the MQTT client.                     *)

Change ==
  /\ used.changes < MaxChanges /\ Use("changes")
  /\ UNCHANGED <<group, broker, task, taken, lost, raced>>

MembersChange ==
  /\ Change
  /\ members' \in SUBSET Gear
  /\ UNCHANGED <<device, link>>

\* A poll, a sniffed frame or a command has written the cache.
DeviceChange(g) ==
  /\ Change
  /\ \E level \in KnownLevel, available \in BOOLEAN :
       device' = [device EXCEPT ![g] = [level |-> level, available |-> available]]
  /\ UNCHANGED <<members, link>>

Disconnect ==
  /\ Change
  /\ link = "up" /\ link' = "down"
  /\ UNCHANGED <<members, device>>

\* onMqttConnected does not publish the states of groups.
Connect ==
  /\ link = "down" /\ link' = "up"
  /\ UNCHANGED <<members, device, group, broker, task, taken, lost, raced, used>>

SyncWrap == SyncAssignments \/ SyncDevices
GroupUpdate(t) == Update(t) \/ Read(t) \/ Publish(t)

Next ==
  \/ SniffFrame \/ Command \/ SyncWrap
  \/ \E t \in Task : GroupUpdate(t)
  \/ MembersChange \/ (\E g \in Gear : DeviceChange(g)) \/ Disconnect \/ Connect

SafeSpec == Init /\ [][Next]_vars

\* The tasks run, the round robin wraps again and again (PollScheduler's
\* SweepsWhenQuiet), the client keeps connecting.
Spec ==
  /\ SafeSpec
  /\ WF_vars(SyncWrap) /\ (\A t \in Task : WF_vars(GroupUpdate(t)))
  /\ WF_vars(Connect)

-----------------------------------------------------------------------------
TypeOK ==
  /\ members \in SUBSET Gear /\ taken \in SUBSET Gear
  /\ device \in [Gear -> [level : KnownLevel, available : BOOLEAN]]
  /\ group \in [current : KnownLevel, last : KnownLevel \ {0}]
  /\ link \in {"up", "down"}
  /\ broker \in KnownLevel \cup {None}
  /\ task \in [Task -> [pc : {"idle", "assigned", "update", "read", "publish"},
                        level : KnownLevel]]
  /\ lost \in BOOLEAN /\ raced \in BOOLEAN
  /\ used \in [{"requests", "changes"} -> Nat]

\* The level ON AND STEP UP and a colour command bring back is the one the
\* group has, when it has one.
RestoresLevel == group.current > 0 => group.last = group.current

\* The broker retains what the cache says, although the publication is not in
\* the critical section: unless the last update met another task's
\* publication half way, or the last publication was dropped.
Published ==
  (\A t \in Task : ~InFlight(t)) /\ ~raced /\ ~lost => broker = group.current

\* A publication under way carries the state, unless it was overtaken.
Carried == ~raced => \A t \in Task : task[t].pc = "publish" => task[t].level = group.current

\* What the steps preserve together.
IInv == TypeOK /\ RestoresLevel /\ Carried /\ Published

\* The highest level of the members that are available, as the sync task
\* computes it.
GroupLevel(level) ==
  \E g \in members : /\ device[g].available /\ level = device[g].level
                     /\ \A h \in members : device[h].available => device[h].level <= level

\* Cache, broker, members and every task that still carries something agree.
Settled(level) ==
  /\ GroupLevel(level) /\ link = "up"
  /\ group.current = level /\ broker = level
  /\ \A t \in Task : task[t].pc \in {"update", "publish"} => task[t].level = level
  /\ task["sync"].pc = "assigned" => taken = members

\* A frame, a command, or a change of what the group depends on.
Disturbed == used' # used

\* The sync task updates and publishes the group again each time the round
\* robin wraps, from a copy of the assignments and a later look at the
\* devices: once all agree, it and the tasks that are still under way never
\* move the group or the broker away, until something new happens.
StaysSettled ==
  [][\A level \in KnownLevel : Settled(level) => Settled(level)' \/ Disturbed]_vars

\* Overtaken publications, steps taken from a level that is no longer there
\* and states lost with the connection are all repaired: while a member is
\* available, the broker comes to show the highest level of its members.
GroupConverges ==
  \A level \in KnownLevel :
    <>[](GroupLevel(level) /\ link = "up")
      => <>[](broker = level /\ group.current = level)

=============================================================================
