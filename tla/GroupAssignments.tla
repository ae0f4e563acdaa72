--------------------------- MODULE GroupAssignments ---------------------------
(***************************************************************************)
(* Which lamp is in which group, in the four places that know it: the      *)
(* lamps themselves, m_assignments of DaliGroupManagement, its copy in NVS *)
(* and the retained topics light/.../groups.  Three kinds of tasks change  *)
(* it, each in steps between which it holds no lock:                       *)
(*   - the MQTT command task adds a lamp to a group or removes it          *)
(*     (setGroupMembership);                                               *)
(*   - the web server sets all assignments at once (setAllAssignments);    *)
(*   - a scan or refresh task, of the web interface or of MQTT, asks the   *)
(*     lamps (refreshAssignmentsFromBus).                                  *)
(* A step is a critical section of m_mutex, one exchange on the bus, one   *)
(* write to NVS or one publication.                                        *)
(***************************************************************************)
EXTENDS Naturals, FiniteSets

CONSTANTS
  Gear,        \* long addresses of the lamps on the bus
  Group,       \* group numbers (0 .. 15 in the code)
  Refresher,   \* tasks that run refreshAssignmentsFromBus
  MaxCalls,    \* bound: calls of the three operations
  MaxChanges,  \* bound: lamps that come or go, connections lost
  MaxFaults    \* bound: lost frames and replies, failed writes, reboots

ASSUME GearAssumption == Gear \subseteq Nat
ASSUME RefresherAssumption == Refresher \cap {"cmd", "web"} = {}
ASSUME BoundAssumption == {MaxCalls, MaxChanges, MaxFaults} \subseteq Nat

Task == {"cmd", "web"} \cup Refresher

\* GroupAssignments: a lamp without an entry has no groups.
Table == [listed : SUBSET Gear, groups : [Gear -> SUBSET Group]]
NoTable == [listed |-> {}, groups |-> [g \in Gear |-> {}]]
Tables == {t \in Table : \A g \in Gear \ t.listed : t.groups[g] = {}}

\* ADD TO GROUP and REMOVE FROM GROUP, assigned or not in the code.
Op == {"add", "remove"}
BusCommand == [gear : Gear, group : Group, op : Op]

\* What brings the group k to what these groups say.
Wanted(k, groups) == IF k \in groups THEN "add" ELSE "remove"

VARIABLES
  lamp,       \* the groups each lamp has
  table,      \* m_assignments
  nvs,        \* "dali_groups"
  broker,     \* retained light/.../groups: {} or what is retained
  link,       \* the connection to the broker
  greet,      \* onMqttConnected has not reached publishAllGroups yet
  mapped,     \* lamps with an entry in m_devices
  online,     \* those of them that are available
  task,       \* how far each task is, and what it carries
  doubt,      \* history: lamps a frame, reply or task was lost or crossed for
  crossed,    \* history: lamps whose entry changed under a publication
  unsaved,    \* history: the last copy for NVS met another, or its write failed
  used        \* how much of each bound is used up

linkVars == <<broker, link, greet>>
deviceVars == <<mapped, online>>
historyVars == <<doubt, crossed, unsaved>>
vars == <<lamp, table, nvs, linkVars, deviceVars, task, historyVars, used>>

Idle == [pc |-> "idle", plan |-> {}, gear |-> {}, todo |-> {}, fresh |-> {},
         copy |-> NoTable]

Use(what) == used' = [used EXCEPT ![what] = @ + 1]
Fault == used.faults < MaxFaults /\ Use("faults")
NoFault == UNCHANGED used
Call == used.calls < MaxCalls /\ Use("calls")

\* Whether another task than t still has commands to send to the lamp.
Pending(t, g) == \E u \in Task \ {t} : \E c \in task[u].plan : c.gear = g
\* setGroupMembership is about to publish what it has read of the lamp's entry.
Publishing(g) == task["cmd"].pc = "publish" /\ g \in task["cmd"].gear

Init ==
  /\ lamp \in [Gear -> SUBSET Group]
  /\ table = NoTable /\ nvs = NoTable
  /\ broker = [g \in Gear |-> {}]
  /\ link = "down" /\ greet = FALSE
  /\ mapped \in SUBSET Gear /\ online \in SUBSET mapped
  /\ task = [t \in Task |-> Idle]
  /\ doubt = {g \in Gear : lamp[g] # {}}
  /\ crossed = {} /\ unsaved = FALSE
  /\ used = [calls |-> 0, changes |-> 0, faults |-> 0]

-----------------------------------------------------------------------------
(* m_assignments.                                                          *)

With(groups, k, op) == IF op = "add" THEN groups \cup {k} ELSE groups \ {k}

\* The task t enters a new table: what is said of the lamps it changes.
Enter(new) ==
  /\ table' = new
  /\ crossed' = {g \in crossed : new.groups[g] = table.groups[g]}
                  \cup {g \in Gear : new.groups[g] # table.groups[g] /\ Publishing(g)}

\* setGroupMembership, up to the first critical section.  A lamp that is not
\* in m_devices is refused.
SetMembership(g, k, op) ==
  /\ task["cmd"] = Idle
  /\ Call
  /\ IF g \in mapped
       THEN /\ Enter([listed |-> table.listed \cup {g},
                      groups |-> [table.groups EXCEPT ![g] = With(@, k, op)]])
            /\ task' = [task EXCEPT !["cmd"] =
                 [Idle EXCEPT !.pc = "send", !.gear = {g},
                    !.plan = {[gear |-> g, group |-> k, op |-> op]}]]
            /\ doubt' = IF Pending("cmd", g) THEN doubt \cup {g} ELSE doubt
       ELSE UNCHANGED <<table, task, doubt, crossed>>
  /\ UNCHANGED <<lamp, nvs, linkVars, deviceVars, unsaved>>

\* Mutant: the lamps without an entry in the new table are forgotten.
DifferencesListed(old, new) ==
  {c \in BusCommand : /\ c.gear \in mapped \cap new.listed
                      /\ c.op = Wanted(c.group, new.groups[c.gear])
                      /\ c.op # Wanted(c.group, old.groups[c.gear])}

\* The commands that turn one table into another, for the lamps in m_devices.
Differences(old, new) ==
  {c \in BusCommand : /\ c.gear \in mapped
                      /\ c.op = Wanted(c.group, new.groups[c.gear])
                      /\ c.op # Wanted(c.group, old.groups[c.gear])}

\* setAllAssignments, its critical section.
SetAll(new) ==
  /\ task["web"] = Idle
  /\ Call
  /\ Enter(new)
  /\ task' = [task EXCEPT !["web"] =
                [Idle EXCEPT !.pc = "send", !.plan = Differences(table, new)]]
  /\ doubt' = doubt \cup {g \in Gear : /\ new.groups[g] # table.groups[g]
                                       /\ g \notin mapped \/ Pending("web", g)}
  /\ UNCHANGED <<lamp, nvs, linkVars, deviceVars, unsaved>>

-----------------------------------------------------------------------------
(* The lamps.                                                              *)

\* assignToGroup, removeFromGroup.  A fault: the lamp does not get the
\* command, of which sendCommand tells nothing.  setAllAssignments sends its
\* commands in the order of the addresses; no two are about the same bit.
Send(t) ==
  /\ task[t].pc = "send"
  /\ \E c \in task[t].plan :
       \/ /\ lamp' = [lamp EXCEPT ![c.gear] = With(@, c.group, c.op)]
          /\ task' = [u \in Task |->
                        [task[u] EXCEPT !.fresh = @ \ {c.gear},
                                        !.plan = IF u = t THEN @ \ {c} ELSE @]]
          /\ NoFault /\ UNCHANGED doubt
       \/ /\ Fault
          /\ task' = [task EXCEPT ![t].plan = @ \ {c}]
          /\ doubt' = doubt \cup {c.gear}
          /\ UNCHANGED lamp
  /\ UNCHANGED <<table, nvs, linkVars, deviceVars, crossed, unsaved>>

\* Mutant: setGroupMembership does not save.
SentUnsaved(t) ==
  /\ task[t].pc = "send" /\ task[t].plan = {}
  /\ task' = [task EXCEPT ![t].pc = IF t = "cmd" THEN "read" ELSE "publishAll"]
  /\ UNCHANGED <<lamp, table, nvs, linkVars, deviceVars, historyVars, used>>

\* All commands are sent.
Sent(t) ==
  /\ task[t].pc = "send" /\ task[t].plan = {}
  /\ task' = [task EXCEPT ![t].pc = IF t = "cmd" THEN "save" ELSE "publishAll"]
  /\ UNCHANGED <<lamp, table, nvs, linkVars, deviceVars, historyVars, used>>

\* refreshAssignmentsFromBus takes a snapshot of m_devices.  With an empty one
\* it returns at once.
RefreshBegin(t) ==
  /\ task[t] = Idle
  /\ Call
  /\ mapped # {}
  /\ task' = [task EXCEPT ![t] = [Idle EXCEPT !.pc = "hear", !.todo = online]]
  /\ UNCHANGED <<lamp, table, nvs, linkVars, deviceVars, historyVars>>

\* getDeviceGroups, its two queries taken as one exchange.  A fault: no reply.
RefreshHear(t) ==
  /\ task[t].pc = "hear"
  /\ \E g \in task[t].todo :
       /\ \A h \in task[t].todo : g <= h
       /\ \/ /\ task' = [task EXCEPT
                  ![t].todo = @ \ {g}, ![t].fresh = @ \cup {g},
                  ![t].copy = [listed |-> @.listed \cup {g},
                               groups |-> [@.groups EXCEPT ![g] = lamp[g]]]]
             /\ NoFault
          \/ /\ Fault
             /\ task' = [task EXCEPT ![t].todo = @ \ {g}]
  /\ UNCHANGED <<lamp, table, nvs, linkVars, deviceVars, historyVars>>

\* What was heard replaces the table: a lamp that was not loses its entry.
RefreshSwap(t) ==
  /\ task[t].pc = "hear" /\ task[t].todo = {}
  /\ Enter(task[t].copy)
  /\ doubt' = {g \in Gear : g \notin task[t].fresh \/ Pending(t, g)}
  /\ task' = [task EXCEPT ![t] = [Idle EXCEPT !.pc = "publishAll"]]
  /\ UNCHANGED <<lamp, nvs, linkVars, deviceVars, unsaved, used>>

-----------------------------------------------------------------------------
(* NVS and the broker.                                                     *)

\* publishDeviceGroupState publishes only with a connection; QoS 1.
Published(entries) ==
  broker' = IF link = "up"
              THEN [g \in Gear |-> IF g \in entries.listed THEN {entries.groups[g]}
                                                           ELSE broker[g]]
              ELSE broker

\* publishAllGroups, under m_mutex.
PublishAll(t) ==
  /\ task[t].pc = "publishAll"
  /\ Published(table)
  /\ task' = [task EXCEPT ![t].pc = "save"]
  /\ UNCHANGED <<lamp, table, nvs, link, greet, deviceVars, historyVars, used>>

\* saveToConfig copies the table under m_mutex ...
SaveCopy(t) ==
  /\ task[t].pc = "save"
  /\ task' = [task EXCEPT ![t].pc = "write", ![t].copy = table]
  /\ unsaved' = \E u \in Task \ {t} : task[u].pc = "write"
  /\ UNCHANGED <<lamp, table, nvs, linkVars, deviceVars, doubt, crossed, used>>

\* ... and writes the copy after m_mutex is released.  Nobody looks at a failure.
SaveWrite(t) ==
  /\ task[t].pc = "write"
  /\ \/ nvs' = task[t].copy /\ NoFault /\ UNCHANGED unsaved
     \/ Fault /\ unsaved' = TRUE /\ UNCHANGED nvs
  /\ task' = [task EXCEPT ![t] = IF t = "cmd" THEN [@ EXCEPT !.pc = "read", !.copy = NoTable]
                                              ELSE Idle]
  /\ UNCHANGED <<lamp, table, linkVars, deviceVars, doubt, crossed>>

\* setGroupMembership reads the lamp's entry again, which brings it back when
\* it has gone in the meantime, and publishes what it has read.
ReadEntry ==
  /\ task["cmd"].pc = "read"
  /\ table' = [table EXCEPT !.listed = @ \cup task["cmd"].gear]
  /\ task' = [task EXCEPT !["cmd"].pc = "publish",
                          !["cmd"].copy = [listed |-> task["cmd"].gear,
                                           groups |-> table.groups]]
  /\ UNCHANGED <<lamp, nvs, linkVars, deviceVars, historyVars, used>>

PublishEntry ==
  /\ task["cmd"].pc = "publish"
  /\ Published(task["cmd"].copy)
  /\ task' = [task EXCEPT !["cmd"] = Idle]
  /\ UNCHANGED <<lamp, table, nvs, link, greet, deviceVars, historyVars, used>>

-----------------------------------------------------------------------------
(* The connection, the map of devices, reboots.                            *)

Change ==
  /\ used.changes < MaxChanges /\ Use("changes")
  /\ UNCHANGED <<lamp, table, nvs, broker, task, historyVars>>

\* Scans and polls.
DevicesChange ==
  /\ Change
  /\ mapped' \in SUBSET Gear /\ online' \in SUBSET mapped'
  /\ UNCHANGED <<link, greet>>

\* The MQTT task is in onMqttConnected until it has published all groups.
Disconnect ==
  /\ Change
  /\ link = "up" /\ ~greet /\ link' = "down"
  /\ UNCHANGED <<greet, deviceVars>>

Connect ==
  /\ link = "down" /\ link' = "up" /\ greet' = TRUE
  /\ UNCHANGED <<lamp, table, nvs, broker, deviceVars, task, historyVars, used>>

\* Mutant: onMqttConnected does not publish the groups.
GreetOnly ==
  /\ greet /\ greet' = FALSE
  /\ UNCHANGED <<broker, lamp, table, nvs, link, deviceVars, task, historyVars, used>>

Greet ==
  /\ greet /\ greet' = FALSE
  /\ Published(table)
  /\ UNCHANGED <<lamp, table, nvs, link, deviceVars, task, historyVars, used>>

\* The task has not saved yet what it has entered.
SaveDue(t) == task[t].pc \in {"send", "publishAll", "save", "write"}
Stored == ~unsaved /\ \A t \in Task : ~SaveDue(t)

\* loadFromConfig.  A table that had not reached NVS is gone.
Reboot ==
  /\ Fault
  /\ table' = nvs
  /\ task' = [t \in Task |-> Idle]
  /\ link' = "down" /\ greet' = FALSE
  /\ mapped' \in SUBSET Gear /\ online' \in SUBSET mapped'
  /\ doubt' = IF Stored THEN doubt ELSE Gear
  /\ crossed' = {} /\ unsaved' = FALSE
  /\ UNCHANGED <<lamp, nvs, broker>>

Saving(t) == SaveCopy(t) \/ SaveWrite(t)
Refreshing(t) == RefreshHear(t) \/ RefreshSwap(t)

Next ==
  \/ \E g \in Gear, k \in Group, op \in Op : SetMembership(g, k, op)
  \/ \E new \in Tables : SetAll(new)
  \/ \E t \in Refresher : RefreshBegin(t) \/ Refreshing(t)
  \/ \E t \in {"cmd", "web"} : Send(t) \/ Sent(t)
  \/ \E t \in Task : PublishAll(t) \/ Saving(t)
  \/ ReadEntry \/ PublishEntry
  \/ Connect \/ Greet \/ Disconnect \/ DevicesChange \/ Reboot

Spec == Init /\ [][Next]_vars

-----------------------------------------------------------------------------
Step == {"idle", "send", "hear", "publishAll", "save", "write", "read", "publish"}

TypeOK ==
  /\ lamp \in [Gear -> SUBSET Group]
  /\ table \in Tables /\ nvs \in Tables
  /\ broker \in [Gear -> SUBSET SUBSET Group]
  /\ link \in {"up", "down"} /\ greet \in BOOLEAN
  /\ mapped \in SUBSET Gear /\ online \in SUBSET mapped
  /\ task \in [Task -> [pc : Step, plan : SUBSET BusCommand, gear : SUBSET Gear,
                        todo : SUBSET Gear, fresh : SUBSET Gear, copy : Table]]
  /\ doubt \in SUBSET Gear /\ crossed \in SUBSET Gear /\ unsaved \in BOOLEAN
  /\ used \in [{"calls", "changes", "faults"} -> Nat]

\* The lamps have the groups the table says, or a task is about to send what
\* makes them: through any interleaving of the three operations, except for
\* lamps that missed a command or an answer, or that two tasks met at.
Agreed(g, k) ==
  \/ k \in lamp[g] <=> k \in table.groups[g]
  \/ \E t \in Task : [gear |-> g, group |-> k, op |-> Wanted(k, table.groups[g])]
                        \in task[t].plan
LampsFollowTable == \A g \in Gear \ doubt, k \in Group : Agreed(g, k)

\* What is in NVS is what a reboot brings back: the groups of the table, once
\* no operation is under way, unless two saves met or a write failed.
SavedWhenDone == Stored => nvs.groups = table.groups

\* The broker retains the groups of every lamp in the table, once connected
\* and when no operation is under way.
PublicationDue(g) ==
  \/ \E t \in Task \ {"cmd"} : task[t].pc \in {"send", "publishAll"}
  \/ task["cmd"].pc # "idle" /\ g \in task["cmd"].gear
BrokerFollowsTable ==
  link = "up" /\ ~greet =>
    \A g \in table.listed \ crossed : ~PublicationDue(g) => broker[g] = {table.groups[g]}

\* What the commands, answers and copies on their way are worth.
CopiesWhole == \A t \in Task : task[t].pc \in {"hear", "write"} => task[t].copy \in Tables
PlansWaitInSend == \A t \in Task : task[t].plan # {} => task[t].pc = "send"
PlansTrue ==
  \A t \in Task : \A c \in task[t].plan :
    c.gear \in doubt \/ c.op = Wanted(c.group, table.groups[c.gear])
OneTaskPerLamp ==
  \A t \in Task : \A c \in task[t].plan : Pending(t, c.gear) => c.gear \in doubt
FreshTrue ==
  \A t \in Task : \A g \in task[t].fresh :
    task[t].pc = "hear" /\ task[t].copy.groups[g] = lamp[g]
CopiesTrue ==
  ~unsaved /\ (\A t \in Task : task[t].pc \notin {"send", "publishAll", "save"})
    => \A t \in Task : task[t].pc = "write" => task[t].copy.groups = table.groups
EntryTrue ==
  task["cmd"].pc = "publish" =>
    /\ task["cmd"].copy.listed = task["cmd"].gear
    /\ \A g \in task["cmd"].gear \ crossed :
         task["cmd"].copy.groups[g] = table.groups[g]

\* What the steps preserve together.
LampInv ==
  PlansWaitInSend /\ PlansTrue /\ OneTaskPerLamp /\ FreshTrue /\ LampsFollowTable
SaveInv == CopiesTrue /\ SavedWhenDone
BrokerInv == EntryTrue /\ BrokerFollowsTable
IInv == TypeOK /\ CopiesWhole /\ LampInv /\ SaveInv /\ BrokerInv

\* docs/guide/dali-setup.md: "Click **Save Changes** to write configuration to
\* the actual DALI ballasts."  Stated of lamps that are known and that no
\* other task is changing: what they lack is sent.
SaveChangesWrites ==
  [][task["web"] = Idle /\ task'["web"] # Idle =>
       \A g \in mapped : (\A t \in Task : task[t] = Idle) =>
         \A k \in Group : (k \in lamp[g] <=> k \in table'.groups[g])
                            \/ [gear |-> g, group |-> k,
                                op |-> Wanted(k, table'.groups[g])] \in task'["web"].plan]_vars

=============================================================================
