------------------------ MODULE GroupAssignmentsProofs ------------------------
(* Proofs about GroupAssignments for every set of lamps, groups and        *)
(* refreshing tasks and every bound.  IInv is preserved part by part:      *)
(* types, what is said of the lamps, of NVS and of the broker.             *)
EXTENDS GroupAssignments, TLAPS

\* The kinds of steps, as the proofs below take them.
LEMMA NextCases ==
  ASSUME Next
  PROVE  \/ \E g \in Gear, k \in Group, op \in Op : SetMembership(g, k, op)
         \/ \E new \in Tables : SetAll(new)
         \/ \E t \in Refresher : RefreshBegin(t)
         \/ \E t \in Refresher : RefreshHear(t)
         \/ \E t \in Refresher : RefreshSwap(t)
         \/ \E t \in {"cmd", "web"} : Send(t)
         \/ \E t \in {"cmd", "web"} : Sent(t)
         \/ \E t \in Task : PublishAll(t)
         \/ \E t \in Task : SaveCopy(t)
         \/ \E t \in Task : SaveWrite(t)
         \/ ReadEntry \/ PublishEntry
         \/ Connect \/ Greet \/ Disconnect \/ DevicesChange \/ Reboot
BY DEF Next, Refreshing, Saving

\* The bounds are counted up.
LEMMA Counted ==
  ASSUME TypeOK, NEW what \in {"calls", "changes", "faults"}, Use(what)
  PROVE  used' \in [{"calls", "changes", "faults"} -> Nat]
BY DEF TypeOK, Use

\* What a task carries.
Progress == [pc : Step, plan : SUBSET BusCommand, gear : SUBSET Gear,
             todo : SUBSET Gear, fresh : SUBSET Gear, copy : Table]

LEMMA IdleTyped ==
  /\ NoTable \in Tables /\ NoTable \in Table
  /\ Idle \in Progress
  /\ Idle.pc = "idle" /\ Idle.plan = {} /\ Idle.gear = {} /\ Idle.fresh = {}
<1>1. NoTable \in Table BY DEF NoTable, Table
<1>2. NoTable \in Tables BY <1>1 DEF NoTable, Tables
<1> QED BY <1>1, <1>2 DEF Idle, Step, Progress

\* A task goes on to another step.
LEMMA StepTyped ==
  ASSUME TypeOK, NEW t \in Task, NEW step \in Step
  PROVE  [task EXCEPT ![t].pc = step] \in [Task -> Progress]
<1>1. [task[t] EXCEPT !.pc = step] \in Progress
  BY DEF TypeOK, Progress
<1>2. task \in [Task -> Progress] BY DEF TypeOK, Progress
<1> QED BY <1>1, <1>2

\* What the table becomes by setGroupMembership is a table.
LEMMA MembershipTyped ==
  ASSUME TypeOK, NEW g \in Gear, NEW k \in Group, NEW op \in Op
  PROVE  [listed |-> table.listed \cup {g},
          groups |-> [table.groups EXCEPT ![g] = With(@, k, op)]] \in Tables
<1> DEFINE new == [listed |-> table.listed \cup {g},
                   groups |-> [table.groups EXCEPT ![g] = With(@, k, op)]]
<1>1. table.listed \in SUBSET Gear /\ table.groups \in [Gear -> SUBSET Group]
      /\ \A h \in Gear \ table.listed : table.groups[h] = {}
  BY DEF TypeOK, Tables, Table
<1>2. new.groups \in [Gear -> SUBSET Group]
  BY <1>1 DEF With
<1>3. new \in Table BY <1>1, <1>2 DEF Table
<1>4. \A h \in Gear \ new.listed : new.groups[h] = {} BY <1>1
<1> QED BY <1>3, <1>4 DEF Tables

\* What a publication leaves at the broker is retained groups.
LEMMA PublishedTyped ==
  ASSUME TypeOK, NEW entries \in Table, Published(entries)
  PROVE  broker' \in [Gear -> SUBSET SUBSET Group]
BY DEF TypeOK, Table, Published

LEMMA EnterTyped ==
  ASSUME TypeOK, NEW new \in Tables, Enter(new)
  PROVE  table' \in Tables /\ crossed' \in SUBSET Gear
BY DEF TypeOK, Enter

\* The three operations enter a table and start, or refuse.
LEMMA CallsTyped ==
  ASSUME TypeOK,
         \/ \E g \in Gear, k \in Group, op \in Op : SetMembership(g, k, op)
         \/ \E new \in Tables : SetAll(new)
         \/ \E t \in Refresher : RefreshBegin(t)
  PROVE  TypeOK'
<1>1. ASSUME NEW g \in Gear, NEW k \in Group, NEW op \in Op, SetMembership(g, k, op)
      PROVE  TypeOK'
  <2>1. used' \in [{"calls", "changes", "faults"} -> Nat]
    BY <1>1, Counted DEF SetMembership, Call
  <2>2. CASE g \in mapped
    <3>1. table' \in Tables /\ crossed' \in SUBSET Gear
      BY <1>1, <2>2, MembershipTyped, EnterTyped DEF SetMembership
    <3>2. [Idle EXCEPT !.pc = "send", !.gear = {g},
             !.plan = {[gear |-> g, group |-> k, op |-> op]}] \in Progress
      <4>1. {[gear |-> g, group |-> k, op |-> op]} \in SUBSET BusCommand
        BY DEF BusCommand
      <4> QED BY IdleTyped, <4>1 DEF Progress, Step
    <3>3. task' \in [Task -> Progress]
      BY <1>1, <2>2, <3>2 DEF SetMembership, TypeOK, Progress
    <3>4. doubt' \in SUBSET Gear BY <1>1, <2>2 DEF SetMembership, TypeOK
    <3> QED
      BY <1>1, <2>1, <3>1, <3>3, <3>4
      DEF SetMembership, TypeOK, Progress, linkVars, deviceVars
  <2>3. CASE g \notin mapped
    BY <1>1, <2>1, <2>3 DEF SetMembership, TypeOK, linkVars, deviceVars
  <2> QED BY <2>2, <2>3
<1>2. ASSUME NEW new \in Tables, SetAll(new) PROVE TypeOK'
  <2>1. used' \in [{"calls", "changes", "faults"} -> Nat]
    BY <1>2, Counted DEF SetAll, Call
  <2>2. table' \in Tables /\ crossed' \in SUBSET Gear
    BY <1>2, EnterTyped DEF SetAll
  <2>3. Differences(table, new) \in SUBSET BusCommand BY DEF Differences
  <2>4. [Idle EXCEPT !.pc = "send", !.plan = Differences(table, new)] \in Progress
    BY IdleTyped, <2>3 DEF Progress, Step
  <2>5. task' \in [Task -> Progress] BY <1>2, <2>4 DEF SetAll, TypeOK, Progress
  <2>6. doubt' \in SUBSET Gear BY <1>2 DEF SetAll, TypeOK
  <2> QED
    BY <1>2, <2>1, <2>2, <2>5, <2>6
    DEF SetAll, TypeOK, Progress, linkVars, deviceVars
<1>3. ASSUME NEW t \in Refresher, RefreshBegin(t) PROVE TypeOK'
  <2>1. used' \in [{"calls", "changes", "faults"} -> Nat]
    BY <1>3, Counted DEF RefreshBegin, Call
  <2>2. [Idle EXCEPT !.pc = "hear", !.todo = online] \in Progress
    BY IdleTyped DEF Progress, Step, TypeOK
  <2>3. task' \in [Task -> Progress]
    BY <1>3, <2>2 DEF RefreshBegin, TypeOK, Progress
  <2> QED
    BY <1>3, <2>1, <2>3
    DEF RefreshBegin, TypeOK, Progress, linkVars, deviceVars, historyVars
<1> QED BY <1>1, <1>2, <1>3

\* The frames to the lamps and their answers.
LEMMA BusTyped ==
  ASSUME TypeOK,
         \/ \E t \in {"cmd", "web"} : Send(t) \/ Sent(t)
         \/ \E t \in Refresher : RefreshHear(t)
  PROVE  TypeOK'
<1>1. ASSUME NEW t \in {"cmd", "web"}, Send(t) PROVE TypeOK'
  <2>1. used' \in [{"calls", "changes", "faults"} -> Nat]
    BY <1>1, Counted DEF Send, Fault, NoFault, TypeOK
  <2>2. PICK c \in task[t].plan :
      \/ /\ lamp' = [lamp EXCEPT ![c.gear] = With(@, c.group, c.op)]
         /\ task' = [u \in Task |->
                       [task[u] EXCEPT !.fresh = @ \ {c.gear},
                                       !.plan = IF u = t THEN @ \ {c} ELSE @]]
         /\ UNCHANGED doubt
      \/ /\ task' = [task EXCEPT ![t].plan = @ \ {c}]
         /\ doubt' = doubt \cup {c.gear}
         /\ UNCHANGED lamp
    BY <1>1 DEF Send
  <2>3. t \in Task BY DEF Task
  <2>4. c \in BusCommand BY <2>2, <2>3 DEF TypeOK
  <2>5. c.gear \in Gear /\ c.group \in Group BY <2>4 DEF BusCommand
  <2>6. lamp' \in [Gear -> SUBSET Group]
    <3>1. \A h \in Gear : With(lamp[h], c.group, c.op) \in SUBSET Group
      BY <2>5 DEF TypeOK, With
    <3>2. lamp \in [Gear -> SUBSET Group] BY DEF TypeOK
    <3> QED BY <2>2, <2>5, <3>1, <3>2
  <2>7. \A u \in Task : task[u] \in Progress BY DEF TypeOK, Progress
  <2>8. task' \in [Task -> Progress]
    <3>1. \A u \in Task : /\ [task[u] EXCEPT !.plan = @ \ {c}] \in Progress
                          /\ [task[u] EXCEPT !.fresh = @ \ {c.gear},
                                !.plan = IF u = t THEN @ \ {c} ELSE @] \in Progress
      BY <2>7 DEF Progress
    <3>2. task \in [Task -> Progress] BY DEF TypeOK, Progress
    <3>3. CASE task' = [u \in Task |->
                       [task[u] EXCEPT !.fresh = @ \ {c.gear},
                                       !.plan = IF u = t THEN @ \ {c} ELSE @]]
      BY <3>1, <3>3
    <3>4. CASE task' = [task EXCEPT ![t].plan = @ \ {c}]
      BY <2>3, <3>1, <3>2, <3>4
    <3> QED BY <2>2, <3>3, <3>4
  <2>9. doubt' \in SUBSET Gear BY <2>2, <2>5 DEF TypeOK
  <2> QED
    BY <1>1, <2>1, <2>6, <2>8, <2>9
    DEF Send, TypeOK, Progress, linkVars, deviceVars
<1>2. ASSUME NEW t \in {"cmd", "web"}, Sent(t) PROVE TypeOK'
  <2>1. (IF t = "cmd" THEN "save" ELSE "publishAll") \in Step BY DEF Step
  <2>2. t \in Task BY DEF Task
  <2>3. task' \in [Task -> Progress]
    BY <1>2, <2>1, <2>2, StepTyped DEF Sent
  <2> QED
    BY <1>2, <2>3 DEF Sent, TypeOK, Progress, linkVars, deviceVars, historyVars
<1>3. ASSUME NEW t \in Refresher, RefreshHear(t) PROVE TypeOK'
  <2>1. used' \in [{"calls", "changes", "faults"} -> Nat]
    BY <1>3, Counted DEF RefreshHear, Fault, NoFault, TypeOK
  <2>2. PICK g \in task[t].todo :
      \/ task' = [task EXCEPT
           ![t].todo = @ \ {g}, ![t].fresh = @ \cup {g},
           ![t].copy = [listed |-> @.listed \cup {g},
                        groups |-> [@.groups EXCEPT ![g] = lamp[g]]]]
      \/ task' = [task EXCEPT ![t].todo = @ \ {g}]
    BY <1>3 DEF RefreshHear
  <2>3. t \in Task /\ task[t] \in Progress BY DEF Task, TypeOK, Progress
  <2>4. g \in Gear BY <2>2, <2>3 DEF Progress
  <2>5. [listed |-> task[t].copy.listed \cup {g},
         groups |-> [task[t].copy.groups EXCEPT ![g] = lamp[g]]] \in Table
    BY <2>3, <2>4 DEF Progress, Table, TypeOK
  <2>6. task' \in [Task -> Progress]
    BY <2>2, <2>3, <2>4, <2>5 DEF Progress, TypeOK
  <2> QED
    BY <1>3, <2>1, <2>6
    DEF RefreshHear, TypeOK, Progress, linkVars, deviceVars, historyVars
<1> QED BY <1>1, <1>2, <1>3

\* The table heard, and every table that waits to be written, is a table.
LEMMA SavingTyped ==
  ASSUME TypeOK, CopiesWhole,
         \/ \E t \in Refresher : RefreshSwap(t)
         \/ \E t \in Task : PublishAll(t) \/ SaveCopy(t) \/ SaveWrite(t)
         \/ ReadEntry \/ PublishEntry
  PROVE  TypeOK'
<1>0. table \in Table /\ task \in [Task -> Progress] /\ "cmd" \in Task
  BY DEF TypeOK, Tables, Task, Progress
<1>1. ASSUME NEW t \in Refresher, RefreshSwap(t) PROVE TypeOK'
  <2>1. t \in Task /\ task[t].copy \in Tables
    BY <1>1 DEF RefreshSwap, CopiesWhole, Task
  <2>2. table' \in Tables /\ crossed' \in SUBSET Gear
    BY <1>1, <2>1, EnterTyped DEF RefreshSwap
  <2>3. [Idle EXCEPT !.pc = "publishAll"] \in Progress
    BY IdleTyped DEF Progress, Step
  <2>4. task' \in [Task -> Progress] BY <1>0, <1>1, <2>3 DEF RefreshSwap
  <2>5. doubt' \in SUBSET Gear BY <1>1 DEF RefreshSwap
  <2> QED
    BY <1>1, <2>2, <2>4, <2>5
    DEF RefreshSwap, TypeOK, Progress, linkVars, deviceVars
<1>2. ASSUME NEW t \in Task, PublishAll(t) PROVE TypeOK'
  <2>1. broker' \in [Gear -> SUBSET SUBSET Group]
    BY <1>0, <1>2, PublishedTyped DEF PublishAll
  <2>2. task' \in [Task -> Progress]
    BY <1>2, StepTyped DEF PublishAll, Step
  <2> QED
    BY <1>2, <2>1, <2>2
    DEF PublishAll, TypeOK, Progress, deviceVars, historyVars
<1>3. ASSUME NEW t \in Task, SaveCopy(t) PROVE TypeOK'
  <2>1. [task[t] EXCEPT !.pc = "write", !.copy = table] \in Progress
    BY <1>0 DEF Progress, Step
  <2>2. task' \in [Task -> Progress] BY <1>0, <1>3, <2>1 DEF SaveCopy
  <2>3. unsaved' \in BOOLEAN BY <1>3 DEF SaveCopy
  <2> QED
    BY <1>3, <2>2, <2>3 DEF SaveCopy, TypeOK, Progress, linkVars, deviceVars
<1>4. ASSUME NEW t \in Task, SaveWrite(t) PROVE TypeOK'
  <2>1. used' \in [{"calls", "changes", "faults"} -> Nat]
    BY <1>4, Counted DEF SaveWrite, Fault, NoFault, TypeOK
  <2>2. nvs' \in Tables /\ unsaved' \in BOOLEAN
    BY <1>4 DEF SaveWrite, CopiesWhole, TypeOK
  <2>3. [task[t] EXCEPT !.pc = "read", !.copy = NoTable] \in Progress
    BY <1>0, IdleTyped DEF Progress, Step
  <2>4. task' \in [Task -> Progress]
    BY <1>0, <1>4, <2>3, IdleTyped DEF SaveWrite
  <2> QED
    BY <1>4, <2>1, <2>2, <2>4
    DEF SaveWrite, TypeOK, Progress, linkVars, deviceVars
<1>5. CASE ReadEntry
  <2>1. table' \in Tables
    <3>1. task["cmd"].gear \in SUBSET Gear BY <1>0 DEF Progress
    <3>2. table' = [table EXCEPT !.listed = @ \cup task["cmd"].gear]
      BY <1>5 DEF ReadEntry
    <3>3. table \in Table /\ \A g \in Gear \ table.listed : table.groups[g] = {}
      BY DEF TypeOK, Tables
    <3>4. table' \in Table BY <3>1, <3>2, <3>3 DEF Table
    <3>5. \A g \in Gear \ table'.listed : table'.groups[g] = {}
      BY <3>2, <3>3 DEF Table
    <3> QED BY <3>4, <3>5 DEF Tables
  <2>2. [listed |-> task["cmd"].gear, groups |-> table.groups] \in Table
    BY <1>0 DEF Progress, Table
  <2>3. [task["cmd"] EXCEPT !.pc = "publish",
           !.copy = [listed |-> task["cmd"].gear, groups |-> table.groups]] \in Progress
    BY <1>0, <2>2 DEF Progress, Step
  <2>4. task' \in [Task -> Progress] BY <1>0, <1>5, <2>3 DEF ReadEntry
  <2> QED
    BY <1>5, <2>1, <2>4
    DEF ReadEntry, TypeOK, Progress, linkVars, deviceVars, historyVars
<1>6. CASE PublishEntry
  <2>1. task["cmd"].copy \in Table BY <1>0 DEF Progress
  <2>2. broker' \in [Gear -> SUBSET SUBSET Group]
    BY <1>6, <2>1, PublishedTyped DEF PublishEntry
  <2>3. task' \in [Task -> Progress] BY <1>0, <1>6, IdleTyped DEF PublishEntry
  <2> QED
    BY <1>6, <2>2, <2>3 DEF PublishEntry, TypeOK, Progress, deviceVars, historyVars
<1> QED BY <1>1, <1>2, <1>3, <1>4, <1>5, <1>6

\* The connection, the devices and a reboot.
LEMMA EnvironmentTyped ==
  ASSUME TypeOK, Connect \/ Greet \/ Disconnect \/ DevicesChange \/ Reboot
  PROVE  TypeOK'
<1>1. CASE Connect
  BY <1>1 DEF Connect, TypeOK, deviceVars, historyVars
<1>2. CASE Greet
  <2>1. table \in Table BY DEF TypeOK, Tables
  <2>2. broker' \in [Gear -> SUBSET SUBSET Group]
    BY <1>2, <2>1, PublishedTyped DEF Greet
  <2> QED BY <1>2, <2>2 DEF Greet, TypeOK, deviceVars, historyVars
<1>3. CASE Disconnect \/ DevicesChange
  <2>1. used' \in [{"calls", "changes", "faults"} -> Nat]
    BY <1>3, Counted DEF Disconnect, DevicesChange, Change
  <2> QED
    BY <1>3, <2>1 DEF Disconnect, DevicesChange, Change, TypeOK, deviceVars, historyVars
<1>4. CASE Reboot
  <2>1. used' \in [{"calls", "changes", "faults"} -> Nat]
    BY <1>4, Counted DEF Reboot, Fault
  <2>2. task' \in [Task -> Progress] BY <1>4, IdleTyped DEF Reboot
  <2> QED BY <1>4, <2>1, <2>2 DEF Reboot, TypeOK, Progress
<1> QED BY <1>1, <1>2, <1>3, <1>4

LEMMA NextTyped == TypeOK /\ CopiesWhole /\ Next => TypeOK'
BY NextCases, CallsTyped, BusTyped, SavingTyped, EnvironmentTyped

-----------------------------------------------------------------------------
(* What the tasks carry, after each step.                                  *)

LEMMA TaskFunction ==
  ASSUME TypeOK
  PROVE  /\ task \in [Task -> Progress] /\ table \in Table /\ "cmd" \in Task
         /\ "web" \in Task /\ Refresher \subseteq Task /\ "cmd" \notin Refresher
         /\ \A t \in Task : task[t].plan \subseteq BusCommand
         /\ \A c \in BusCommand : c.gear \in Gear /\ c.group \in Group /\ c.op \in Op
BY RefresherAssumption DEF TypeOK, Task, Tables, Progress, BusCommand

\* Sending leaves a task's step, copy and lamps alone.
LEMMA SendFrame ==
  ASSUME TypeOK, NEW t \in {"cmd", "web"}, Send(t)
  PROVE  \A u \in Task : /\ task'[u].pc = task[u].pc /\ task'[u].copy = task[u].copy
                         /\ task'[u].gear = task[u].gear
<1> USE TaskFunction
<1>1. PICK c \in task[t].plan :
    \/ task' = [u \in Task |->
                  [task[u] EXCEPT !.fresh = @ \ {c.gear},
                                  !.plan = IF u = t THEN @ \ {c} ELSE @]]
    \/ task' = [task EXCEPT ![t].plan = @ \ {c}]
  BY DEF Send
<1>2. CASE task' = [u \in Task |->
                  [task[u] EXCEPT !.fresh = @ \ {c.gear},
                                  !.plan = IF u = t THEN @ \ {c} ELSE @]]
  BY <1>2 DEF Progress
<1>3. CASE task' = [task EXCEPT ![t].plan = @ \ {c}] BY <1>3 DEF Progress
<1> QED BY <1>1, <1>2, <1>3

LEMMA WholeKept ==
  ASSUME TypeOK, CopiesWhole, Next
  PROVE  CopiesWhole'
<1> USE TaskFunction
<1>1. ASSUME NEW g \in Gear, NEW k \in Group, NEW op \in Op, SetMembership(g, k, op)
      PROVE  CopiesWhole'
  BY <1>1 DEF SetMembership, CopiesWhole, Idle
<1>2. ASSUME NEW new \in Tables, SetAll(new) PROVE CopiesWhole'
  BY <1>2 DEF SetAll, CopiesWhole, Idle
<1>3. ASSUME NEW t \in Refresher, RefreshBegin(t) PROVE CopiesWhole'
  BY <1>3, IdleTyped DEF RefreshBegin, CopiesWhole, Idle
<1>4. ASSUME NEW t \in Refresher, RefreshHear(t) PROVE CopiesWhole'
  <2>1. t \in Task /\ task[t].pc = "hear" /\ task[t].copy \in Tables
    BY <1>4 DEF RefreshHear, CopiesWhole
  <2>2. PICK g \in task[t].todo :
      \/ task' = [task EXCEPT
           ![t].todo = @ \ {g}, ![t].fresh = @ \cup {g},
           ![t].copy = [listed |-> @.listed \cup {g},
                        groups |-> [@.groups EXCEPT ![g] = lamp[g]]]]
      \/ task' = [task EXCEPT ![t].todo = @ \ {g}]
    BY <1>4 DEF RefreshHear
  <2>3. g \in Gear BY <2>1, <2>2 DEF Progress
  <2>4. [listed |-> task[t].copy.listed \cup {g},
         groups |-> [task[t].copy.groups EXCEPT ![g] = lamp[g]]] \in Tables
    <3>1. task[t].copy \in Table
          /\ \A h \in Gear \ task[t].copy.listed : task[t].copy.groups[h] = {}
      BY <2>1 DEF Tables
    <3>2. lamp[g] \in SUBSET Group BY <2>3 DEF TypeOK
    <3> QED BY <2>3, <3>1, <3>2 DEF Tables, Table
  <2>5. task'[t].copy \in Tables /\ \A u \in Task \ {t} : task'[u] = task[u]
    <3>1. CASE task' = [task EXCEPT ![t].todo = @ \ {g}] BY <2>1, <3>1
    <3>2. CASE task' = [task EXCEPT
           ![t].todo = @ \ {g}, ![t].fresh = @ \cup {g},
           ![t].copy = [listed |-> @.listed \cup {g},
                        groups |-> [@.groups EXCEPT ![g] = lamp[g]]]]
      BY <2>1, <2>4, <3>2
    <3> QED BY <2>2, <3>1, <3>2
  <2> QED BY <2>1, <2>5 DEF CopiesWhole
<1>5. ASSUME NEW t \in Refresher, RefreshSwap(t) PROVE CopiesWhole'
  BY <1>5 DEF RefreshSwap, CopiesWhole, Idle
<1>6. ASSUME NEW t \in {"cmd", "web"}, Send(t) PROVE CopiesWhole'
  BY <1>6, SendFrame DEF CopiesWhole
<1>7. ASSUME NEW t \in {"cmd", "web"}, Sent(t) PROVE CopiesWhole'
  BY <1>7 DEF Sent, CopiesWhole
<1>8. ASSUME NEW t \in Task, PublishAll(t) PROVE CopiesWhole'
  BY <1>8 DEF PublishAll, CopiesWhole
<1>9. ASSUME NEW t \in Task, SaveCopy(t) PROVE CopiesWhole'
  BY <1>9 DEF SaveCopy, CopiesWhole, TypeOK
<1>10. ASSUME NEW t \in Task, SaveWrite(t) PROVE CopiesWhole'
  BY <1>10 DEF SaveWrite, CopiesWhole, Idle
<1>11. CASE ReadEntry BY <1>11 DEF ReadEntry, CopiesWhole
<1>12. CASE PublishEntry BY <1>12 DEF PublishEntry, CopiesWhole, Idle
<1>13. CASE Connect \/ Greet \/ Disconnect \/ DevicesChange
  BY <1>13 DEF Connect, Greet, Disconnect, DevicesChange, Change, CopiesWhole
<1>14. CASE Reboot BY <1>14 DEF Reboot, CopiesWhole, Idle
<1> QED
  BY <1>1, <1>2, <1>3, <1>4, <1>5, <1>6, <1>7, <1>8, <1>9, <1>10, <1>11, <1>12,
     <1>13, <1>14, NextCases

-----------------------------------------------------------------------------
(* The lamps.                                                              *)

\* A step that sends, enters and hears nothing changes nothing for the lamps.
LEMMA LampsUntouched ==
  ASSUME LampInv, UNCHANGED <<lamp, doubt>>, table'.groups = table.groups,
         \A u \in Task :
           /\ task'[u].plan = task[u].plan
           /\ task[u].plan = {} \/ task'[u].pc = task[u].pc
           /\ \/ task'[u].fresh = {}
              \/ /\ task'[u].fresh = task[u].fresh
                 /\ task'[u].pc = task[u].pc /\ task'[u].copy = task[u].copy
  PROVE  LampInv'
<1> USE DEF LampInv
<1>1. PlansWaitInSend' BY DEF PlansWaitInSend
<1>2. PlansTrue' BY DEF PlansTrue
<1>3. OneTaskPerLamp' BY DEF OneTaskPerLamp, Pending
<1>4. FreshTrue' BY DEF FreshTrue
<1>5. LampsFollowTable' BY DEF LampsFollowTable, Agreed
<1> QED BY <1>1, <1>2, <1>3, <1>4, <1>5

LEMMA OtherLampSteps ==
  ASSUME TypeOK, LampInv,
         \/ \E t \in Refresher : RefreshBegin(t)
         \/ \E t \in {"cmd", "web"} : Sent(t)
         \/ \E t \in Task : PublishAll(t) \/ SaveCopy(t) \/ SaveWrite(t)
         \/ ReadEntry \/ PublishEntry
         \/ Connect \/ Greet \/ Disconnect \/ DevicesChange
  PROVE  LampInv'
<1> USE TaskFunction
<1>1. \A u \in Task : (task[u].pc # "send" => task[u].plan = {})
                      /\ (task[u].pc # "hear" => task[u].fresh = {})
  BY DEF LampInv, PlansWaitInSend, FreshTrue
<1>2. Idle.plan = {} /\ Idle.fresh = {} /\ Idle.pc = "idle" BY IdleTyped
<1>3. ASSUME NEW t \in Refresher, RefreshBegin(t) PROVE LampInv'
  BY <1>1, <1>2, <1>3, LampsUntouched DEF RefreshBegin, historyVars
<1>4. ASSUME NEW t \in {"cmd", "web"}, Sent(t) PROVE LampInv'
  BY <1>1, <1>4, LampsUntouched DEF Sent, historyVars
<1>5. ASSUME NEW t \in Task, PublishAll(t) PROVE LampInv'
  BY <1>1, <1>5, LampsUntouched DEF PublishAll, historyVars
<1>6. ASSUME NEW t \in Task, SaveCopy(t) PROVE LampInv'
  BY <1>1, <1>6, LampsUntouched DEF SaveCopy
<1>7. ASSUME NEW t \in Task, SaveWrite(t) PROVE LampInv'
  <2>1. task[t].plan = {} /\ task[t].fresh = {} BY <1>1, <1>7 DEF SaveWrite
  <2>2. \A u \in Task \ {t} : task'[u] = task[u] BY <1>7 DEF SaveWrite
  <2>3. task'[t].plan = {} /\ task'[t].fresh = {}
    BY <1>2, <1>7, <2>1 DEF SaveWrite, Progress
  <2>4. UNCHANGED <<lamp, doubt>> /\ table'.groups = table.groups
    BY <1>7 DEF SaveWrite
  <2> QED BY <2>1, <2>2, <2>3, <2>4, LampsUntouched
<1>8. CASE ReadEntry
  <2>1. table'.groups = table.groups BY <1>8 DEF ReadEntry, Table
  <2> QED BY <1>1, <1>8, <2>1, LampsUntouched DEF ReadEntry, historyVars
<1>9. CASE PublishEntry
  BY <1>1, <1>2, <1>9, LampsUntouched DEF PublishEntry, historyVars
<1>10. CASE Connect \/ Greet \/ Disconnect \/ DevicesChange
  BY <1>10, LampsUntouched
  DEF Connect, Greet, Disconnect, DevicesChange, Change, historyVars
<1> QED BY <1>3, <1>4, <1>5, <1>6, <1>7, <1>8, <1>9, <1>10

\* A task that had no commands has some now, and the table changed.  A lamp
\* whose groups it changed is told so, or is in doubt.
LEMMA Entered ==
  ASSUME TypeOK, LampInv, NEW t \in Task, NEW p,
         task[t].plan = {}, task'[t].pc = "send", task'[t].plan = p,
         task'[t].fresh = {}, p \subseteq BusCommand,
         \A u \in Task \ {t} : task'[u] = task[u],
         lamp' = lamp, table' \in Table,
         doubt \subseteq doubt', doubt' \subseteq Gear,
         \A g \in Gear : table'.groups[g] # table.groups[g] /\ Pending(t, g) => g \in doubt',
         \A c \in p : /\ c.op = Wanted(c.group, table'.groups[c.gear])
                      /\ Pending(t, c.gear) => c.gear \in doubt',
         \A g \in Gear \ doubt', k \in Group :
           Wanted(k, table'.groups[g]) # Wanted(k, table.groups[g])
             => [gear |-> g, group |-> k, op |-> Wanted(k, table'.groups[g])] \in p
  PROVE  LampInv'
<1> USE TaskFunction
<1>1. PlansWaitInSend' BY DEF LampInv, PlansWaitInSend
<1>2. \A u \in Task \ {t} : \A c \in task[u].plan : Pending(t, c.gear)
  BY DEF Pending
<1>3. PlansTrue'
  <2> SUFFICES ASSUME NEW u \in Task, NEW c \in task'[u].plan, c.gear \notin doubt'
               PROVE  c.op = Wanted(c.group, table'.groups[c.gear])
    BY DEF PlansTrue
  <2>1. CASE u = t BY <2>1
  <2>2. CASE u # t
    <3>1. c \in task[u].plan /\ c \in BusCommand BY <2>2
    <3>2. table'.groups[c.gear] = table.groups[c.gear] BY <1>2, <2>2, <3>1
    <3> QED BY <3>1, <3>2 DEF LampInv, PlansTrue
  <2> QED BY <2>1, <2>2
<1>4. OneTaskPerLamp'
  <2> SUFFICES ASSUME NEW u \in Task, NEW c \in task'[u].plan,
                      NEW v \in Task \ {u}, NEW d \in task'[v].plan, d.gear = c.gear
               PROVE  c.gear \in doubt'
    BY DEF OneTaskPerLamp, Pending
  <2>1. CASE u = t
    <3>1. Pending(t, c.gear) BY <2>1 DEF Pending
    <3> QED BY <2>1, <3>1
  <2>2. CASE v = t
    <3>1. Pending(t, d.gear) BY <2>2 DEF Pending
    <3> QED BY <2>2, <3>1
  <2>3. CASE u # t /\ v # t
    BY <2>3 DEF LampInv, OneTaskPerLamp, Pending
  <2> QED BY <2>1, <2>2, <2>3
<1>5. FreshTrue' BY DEF LampInv, FreshTrue
<1>6. LampsFollowTable'
  <2> SUFFICES ASSUME NEW g \in Gear \ doubt', NEW k \in Group
               PROVE  Agreed(g, k)'
    BY DEF LampsFollowTable
  <2>1. Agreed(g, k) BY DEF LampInv, LampsFollowTable
  <2>2. CASE Wanted(k, table'.groups[g]) # Wanted(k, table.groups[g])
    BY <2>2 DEF Agreed
  <2>3. CASE Wanted(k, table'.groups[g]) = Wanted(k, table.groups[g])
    <3>1. k \in table'.groups[g] <=> k \in table.groups[g] BY <2>3 DEF Wanted
    <3> QED BY <2>1, <2>3, <3>1 DEF Agreed
  <2> QED BY <2>2, <2>3
<1> QED BY <1>1, <1>3, <1>4, <1>5, <1>6 DEF LampInv

LEMMA EnteringLampSteps ==
  ASSUME TypeOK, LampInv,
         \/ \E g \in Gear, k \in Group, op \in Op : SetMembership(g, k, op)
         \/ \E new \in Tables : SetAll(new)
  PROVE  LampInv'
<1> USE TaskFunction, IdleTyped
<1>1. ASSUME NEW g \in Gear, NEW k \in Group, NEW op \in Op, SetMembership(g, k, op)
      PROVE  LampInv'
  <2>1. CASE g \notin mapped
    BY <1>1, <2>1, LampsUntouched DEF SetMembership
  <2>2. CASE g \in mapped
    <3> DEFINE p == {[gear |-> g, group |-> k, op |-> op]}
    <3>0. /\ task["cmd"] = Idle
          /\ task' = [task EXCEPT !["cmd"] = [Idle EXCEPT !.pc = "send", !.gear = {g},
                        !.plan = {[gear |-> g, group |-> k, op |-> op]}]]
          /\ table' = [listed |-> table.listed \cup {g},
                       groups |-> [table.groups EXCEPT ![g] = With(@, k, op)]]
      BY <1>1, <2>2 DEF SetMembership, Enter
    <3>1. /\ task["cmd"].plan = {} /\ task'["cmd"].pc = "send" /\ task'["cmd"].plan = p
          /\ task'["cmd"].fresh = {} /\ \A u \in Task \ {"cmd"} : task'[u] = task[u]
      BY <3>0 DEF Idle
    <3>2. p \subseteq BusCommand BY DEF BusCommand
    <3>3. table'.groups = [table.groups EXCEPT ![g] = With(@, k, op)]
          /\ table.groups \in [Gear -> SUBSET Group]
      BY <3>0 DEF Table
    <3>4. table' \in Table
      BY <3>0, MembershipTyped DEF Tables
    <3>5. /\ lamp' = lamp /\ doubt \subseteq doubt' /\ doubt' \subseteq Gear
          /\ Pending("cmd", g) => g \in doubt'
      BY <1>1, <2>2 DEF SetMembership, TypeOK
    <3>6. Wanted(k, table'.groups[g]) = op BY <3>3 DEF Wanted, With, Op
    <3>7. \A h \in Gear, j \in Group :
            h # g \/ j # k => Wanted(j, table'.groups[h]) = Wanted(j, table.groups[h])
      BY <3>3 DEF Wanted, With
    <3>8. \A h \in Gear : table'.groups[h] # table.groups[h] => h = g BY <3>3
    <3>9. \A c \in p : c.gear = g /\ c.group = k /\ c.op = op OBVIOUS
    <3>10. \A h \in Gear \ doubt', j \in Group :
             Wanted(j, table'.groups[h]) # Wanted(j, table.groups[h])
               => [gear |-> h, group |-> j, op |-> Wanted(j, table'.groups[h])] \in p
      BY <3>6, <3>7
    <3> HIDE DEF p
    <3> QED BY <3>1, <3>2, <3>4, <3>5, <3>6, <3>8, <3>9, <3>10, Entered
  <2> QED BY <2>1, <2>2
<1>2. ASSUME NEW new \in Tables, SetAll(new) PROVE LampInv'
  <2> DEFINE p == Differences(table, new)
  <2>1. /\ task["web"].plan = {} /\ task'["web"].pc = "send" /\ task'["web"].plan = p
        /\ task'["web"].fresh = {} /\ \A u \in Task \ {"web"} : task'[u] = task[u]
    BY <1>2 DEF SetAll, Progress, Idle
  <2>2. p \subseteq BusCommand BY DEF Differences
  <2>3. lamp' = lamp /\ table' = new /\ table' \in Table
    BY <1>2 DEF SetAll, Enter, Tables
  <2>4. doubt' = doubt \cup {g \in Gear : /\ new.groups[g] # table.groups[g]
                                          /\ g \notin mapped \/ Pending("web", g)}
    BY <1>2 DEF SetAll
  <2>5. doubt \subseteq doubt' /\ doubt' \subseteq Gear BY <2>4 DEF TypeOK
  <2>6. \A g \in Gear : table'.groups[g] # table.groups[g] /\ Pending("web", g)
                          => g \in doubt'
    BY <2>3, <2>4
  <2>7. \A c \in p : /\ c.op = Wanted(c.group, table'.groups[c.gear])
                     /\ Pending("web", c.gear) => c.gear \in doubt'
    <3> SUFFICES ASSUME NEW c \in p
                 PROVE  /\ c.op = Wanted(c.group, table'.groups[c.gear])
                        /\ Pending("web", c.gear) => c.gear \in doubt'
      OBVIOUS
    <3>1. /\ c.op = Wanted(c.group, new.groups[c.gear])
          /\ c.op # Wanted(c.group, table.groups[c.gear])
      BY DEF Differences
    <3>2. new.groups[c.gear] # table.groups[c.gear] BY <3>1
    <3> QED BY <2>2, <2>3, <2>6, <3>1, <3>2
  <2>8. ASSUME NEW g \in Gear \ doubt', NEW k \in Group,
               Wanted(k, table'.groups[g]) # Wanted(k, table.groups[g])
        PROVE  [gear |-> g, group |-> k, op |-> Wanted(k, table'.groups[g])] \in p
    <3>1. table'.groups[g] # table.groups[g] BY <2>8
    <3>2. g \in mapped BY <2>3, <2>4, <3>1
    <3>3. Wanted(k, table'.groups[g]) \in Op BY DEF Wanted, Op
    <3> QED BY <2>3, <2>8, <3>2, <3>3 DEF Differences, BusCommand
  <2> HIDE DEF p
  <2> QED BY <2>1, <2>2, <2>3, <2>5, <2>6, <2>7, <2>8, Entered
<1> QED BY <1>1, <1>2

\* A command that gets through makes the lamp agree, one that does not puts it
\* in doubt.
LEMMA SendLampSteps ==
  ASSUME TypeOK, LampInv, NEW t \in {"cmd", "web"}, Send(t)
  PROVE  LampInv'
<1> USE TaskFunction
<1>0. t \in Task BY DEF Task
<1>1. PICK c \in task[t].plan :
    \/ /\ lamp' = [lamp EXCEPT ![c.gear] = With(@, c.group, c.op)]
       /\ task' = [u \in Task |->
                     [task[u] EXCEPT !.fresh = @ \ {c.gear},
                                     !.plan = IF u = t THEN @ \ {c} ELSE @]]
       /\ UNCHANGED doubt
    \/ /\ task' = [task EXCEPT ![t].plan = @ \ {c}]
       /\ doubt' = doubt \cup {c.gear}
       /\ UNCHANGED lamp
  BY DEF Send
<1>2. c \in BusCommand /\ c.gear \in Gear /\ c.group \in Group /\ c.op \in Op
  BY <1>0
<1>3. /\ \A u \in Task : /\ task'[u].pc = task[u].pc /\ task'[u].copy = task[u].copy
                         /\ task'[u].plan = IF u = t THEN task[u].plan \ {c} ELSE task[u].plan
                         /\ task'[u].fresh \subseteq task[u].fresh
                         /\ lamp' = lamp \/ c.gear \notin task'[u].fresh
      /\ table' = table /\ doubt \subseteq doubt'
  <2>1. CASE task' = [u \in Task |->
                       [task[u] EXCEPT !.fresh = @ \ {c.gear},
                                       !.plan = IF u = t THEN @ \ {c} ELSE @]]
             /\ UNCHANGED doubt
    <3>1. \A u \in Task : task'[u] = [task[u] EXCEPT !.fresh = @ \ {c.gear},
                                 !.plan = IF u = t THEN @ \ {c} ELSE @]
      BY <2>1
    <3>2. \A u \in Task : task[u] \in Progress OBVIOUS
    <3>3. table' = table /\ doubt \subseteq doubt' BY <2>1 DEF Send
    <3>4. \A u \in Task :
            /\ task'[u].pc = task[u].pc /\ task'[u].copy = task[u].copy
            /\ task'[u].fresh = task[u].fresh \ {c.gear}
            /\ task'[u].plan = IF u = t THEN task[u].plan \ {c} ELSE task[u].plan
      BY <3>1, <3>2 DEF Progress
    <3> QED BY <3>3, <3>4
  <2>2. CASE task' = [task EXCEPT ![t].plan = @ \ {c}] /\ doubt' = doubt \cup {c.gear}
             /\ UNCHANGED lamp
    <3>1. /\ \A u \in Task \ {t} : task'[u] = task[u]
          /\ task'[t] = [task[t] EXCEPT !.plan = @ \ {c}]
      BY <1>0, <2>2
    <3>2. \A u \in Task : task[u] \in Progress OBVIOUS
    <3>3. table' = table /\ doubt \subseteq doubt' BY <2>2 DEF Send
    <3>4. /\ task'[t].pc = task[t].pc /\ task'[t].copy = task[t].copy
          /\ task'[t].plan = task[t].plan \ {c} /\ task'[t].fresh = task[t].fresh
      BY <1>0, <3>1, <3>2 DEF Progress
    <3> QED BY <1>0, <2>2, <3>1, <3>3, <3>4
  <2> QED BY <1>1, <2>1, <2>2
<1>4. \A u \in Task : task'[u].plan \subseteq task[u].plan BY <1>3
<1>5. PlansWaitInSend' BY <1>3, <1>4 DEF LampInv, PlansWaitInSend
<1>6. PlansTrue' BY <1>3, <1>4 DEF LampInv, PlansTrue
<1>7. OneTaskPerLamp' BY <1>3, <1>4 DEF LampInv, OneTaskPerLamp, Pending
<1>8. \A g \in Gear : g # c.gear => lamp'[g] = lamp[g] BY <1>1, <1>2 DEF TypeOK
<1>9. FreshTrue'
  <2> SUFFICES ASSUME NEW u \in Task, NEW g \in task'[u].fresh
               PROVE  task'[u].pc = "hear" /\ task'[u].copy.groups[g] = lamp'[g]
    BY DEF FreshTrue
  <2>1. task[u].pc = "hear" /\ task[u].copy.groups[g] = lamp[g]
    BY <1>3 DEF LampInv, FreshTrue
  <2>2. g \in Gear BY <1>3 DEF Progress
  <2> QED BY <1>3, <1>8, <2>1, <2>2
<1>10. LampsFollowTable'
  <2> SUFFICES ASSUME NEW g \in Gear \ doubt', NEW k \in Group
               PROVE  Agreed(g, k)'
    BY DEF LampsFollowTable
  <2>1. Agreed(g, k) BY <1>3 DEF LampInv, LampsFollowTable
  <2>2. CASE c.gear = g /\ c.group = k
    <3>1. lamp' = [lamp EXCEPT ![c.gear] = With(@, c.group, c.op)]
      BY <1>1, <2>2
    <3>2. c.op = Wanted(k, table.groups[g])
      BY <1>0, <1>3, <2>2 DEF LampInv, PlansTrue
    <3>3. k \in lamp'[g] <=> k \in table.groups[g]
      BY <2>2, <3>1, <3>2 DEF With, Wanted, TypeOK
    <3> QED BY <1>3, <3>3 DEF Agreed
  <2>3. CASE ~(c.gear = g /\ c.group = k)
    <3>1. k \in lamp'[g] <=> k \in lamp[g]
      <4>1. CASE lamp' = lamp BY <4>1
      <4>2. CASE lamp' = [lamp EXCEPT ![c.gear] = With(@, c.group, c.op)]
        BY <1>2, <2>3, <4>2 DEF With, TypeOK
      <4> QED BY <1>1, <4>1, <4>2
    <3>2. [gear |-> g, group |-> k, op |-> Wanted(k, table.groups[g])] # c
      BY <2>3
    <3>3. \A u \in Task :
            [gear |-> g, group |-> k, op |-> Wanted(k, table.groups[g])] \in task[u].plan
              => [gear |-> g, group |-> k, op |-> Wanted(k, table.groups[g])] \in task'[u].plan
      BY <1>3, <3>2
    <3> QED BY <1>3, <2>1, <3>1, <3>3 DEF Agreed
  <2> QED BY <2>2, <2>3
<1> QED BY <1>5, <1>6, <1>7, <1>9, <1>10 DEF LampInv

\* A lamp heard is copied, a table heard replaces the other one, a reboot
\* brings back the saved one.
LEMMA HearLampSteps ==
  ASSUME TypeOK, LampInv, NEW t \in Refresher, RefreshHear(t)
  PROVE  LampInv'
<1> USE TaskFunction
<1>1. PICK g \in task[t].todo :
    \/ task' = [task EXCEPT
         ![t].todo = @ \ {g}, ![t].fresh = @ \cup {g},
         ![t].copy = [listed |-> @.listed \cup {g},
                      groups |-> [@.groups EXCEPT ![g] = lamp[g]]]]
    \/ task' = [task EXCEPT ![t].todo = @ \ {g}]
  BY DEF RefreshHear
<1>2. /\ g \in Gear /\ task[t] \in Progress /\ task[t].copy.groups \in [Gear -> SUBSET Group]
      /\ task[t].pc = "hear"
  BY <1>1 DEF Progress, Table, RefreshHear
<1>3. \A u \in Task \ {t} : task'[u] = task[u] BY <1>1
<1>4. /\ task'[t].pc = "hear" /\ task'[t].plan = task[t].plan
      /\ \A h \in task'[t].fresh :
           \/ h \in task[t].fresh /\ task'[t].copy.groups[h] = task[t].copy.groups[h]
           \/ task'[t].copy.groups[h] = lamp[h]
  <2>1. CASE task' = [task EXCEPT ![t].todo = @ \ {g}]
    BY <1>2, <2>1 DEF Progress
  <2>2. CASE task' = [task EXCEPT
         ![t].todo = @ \ {g}, ![t].fresh = @ \cup {g},
         ![t].copy = [listed |-> @.listed \cup {g},
                      groups |-> [@.groups EXCEPT ![g] = lamp[g]]]]
    <3>1. /\ task'[t].pc = "hear" /\ task'[t].plan = task[t].plan
          /\ task'[t].fresh = task[t].fresh \cup {g}
          /\ task'[t].copy.groups = [task[t].copy.groups EXCEPT ![g] = lamp[g]]
      BY <1>2, <2>2 DEF Progress
    <3> QED BY <1>2, <3>1 DEF Progress
  <2> QED BY <1>1, <2>1, <2>2
<1>5. UNCHANGED <<lamp, table, doubt>> BY DEF RefreshHear, historyVars
<1>6. \A u \in Task : task'[u].plan = task[u].plan /\ task'[u].pc = task[u].pc
  BY <1>2, <1>3, <1>4
<1>7. PlansWaitInSend' /\ PlansTrue' /\ OneTaskPerLamp' /\ LampsFollowTable'
  <2>1. PlansWaitInSend' BY <1>6 DEF LampInv, PlansWaitInSend
  <2>2. PlansTrue' BY <1>5, <1>6 DEF LampInv, PlansTrue
  <2>3. OneTaskPerLamp' BY <1>5, <1>6 DEF LampInv, OneTaskPerLamp, Pending
  <2>4. LampsFollowTable' BY <1>5, <1>6 DEF LampInv, LampsFollowTable, Agreed
  <2> QED BY <2>1, <2>2, <2>3, <2>4
<1>8. FreshTrue'
  <2> SUFFICES ASSUME NEW u \in Task, NEW h \in task'[u].fresh
               PROVE  task'[u].pc = "hear" /\ task'[u].copy.groups[h] = lamp'[h]
    BY DEF FreshTrue
  <2>1. CASE u = t BY <1>4, <1>5, <2>1 DEF LampInv, FreshTrue
  <2>2. CASE u # t BY <1>3, <1>5, <2>2 DEF LampInv, FreshTrue
  <2> QED BY <2>1, <2>2
<1> QED BY <1>7, <1>8 DEF LampInv

LEMMA SwapLampSteps ==
  ASSUME TypeOK, LampInv, NEW t \in Refresher, RefreshSwap(t)
  PROVE  LampInv'
<1> USE TaskFunction
<1>1. /\ \A u \in Task \ {t} : task'[u] = task[u]
      /\ task'[t].pc = "publishAll" /\ task'[t].plan = {} /\ task'[t].fresh = {}
  BY IdleTyped DEF RefreshSwap, Idle
<1>2. /\ lamp' = lamp /\ table' = task[t].copy
      /\ doubt' = {g \in Gear : g \notin task[t].fresh \/ Pending(t, g)}
  BY DEF RefreshSwap, Enter
<1>3. \A u \in Task : \A c \in task'[u].plan :
        /\ u # t /\ c \in task[u].plan /\ c.gear \in Gear
        /\ Pending(t, c.gear)
  BY <1>1 DEF Pending
<1>4. \A u \in Task : \A c \in task'[u].plan : c.gear \in doubt' BY <1>2, <1>3
<1>5. PlansWaitInSend' BY <1>1 DEF LampInv, PlansWaitInSend
<1>6. PlansTrue' /\ OneTaskPerLamp' BY <1>4 DEF PlansTrue, OneTaskPerLamp
<1>7. FreshTrue' BY <1>1, <1>2 DEF LampInv, FreshTrue
<1>8. LampsFollowTable'
  BY <1>2 DEF LampInv, FreshTrue, LampsFollowTable, Agreed
<1> QED BY <1>5, <1>6, <1>7, <1>8 DEF LampInv

LEMMA RebootLampSteps ==
  ASSUME TypeOK, LampInv, SaveInv, Reboot
  PROVE  LampInv'
<1> USE TaskFunction
<1>1. /\ \A u \in Task : task'[u].plan = {} /\ task'[u].fresh = {}
      /\ lamp' = lamp /\ table' = nvs
      /\ doubt' = IF Stored THEN doubt ELSE Gear
  BY IdleTyped DEF Reboot
<1>2. PlansWaitInSend' /\ PlansTrue' /\ OneTaskPerLamp' /\ FreshTrue'
  BY <1>1 DEF PlansWaitInSend, PlansTrue, OneTaskPerLamp, FreshTrue
<1>3. LampsFollowTable'
  <2>1. CASE Stored
    <3>1. \A u \in Task : task[u].plan = {}
      BY <2>1 DEF Stored, SaveDue, LampInv, PlansWaitInSend
    <3>2. table'.groups = table.groups
      BY <1>1, <2>1 DEF SaveInv, SavedWhenDone
    <3> QED
      BY <1>1, <2>1, <3>1, <3>2 DEF LampInv, LampsFollowTable, Agreed
  <2>2. CASE ~Stored BY <1>1, <2>2 DEF LampsFollowTable
  <2> QED BY <2>1, <2>2
<1> QED BY <1>2, <1>3 DEF LampInv

LEMMA LampsKept ==
  TypeOK /\ LampInv /\ SaveInv /\ Next => LampInv'
BY NextCases, OtherLampSteps, EnteringLampSteps, SendLampSteps, HearLampSteps,
   SwapLampSteps, RebootLampSteps

-----------------------------------------------------------------------------
(* NVS.                                                                    *)

Unsaved == {"send", "publishAll", "save"}

\* Nothing is promised about NVS while a task has still to copy the table.
LEMMA CopyDue ==
  ASSUME NEW t \in Task, task'[t].pc \in Unsaved
  PROVE  SaveInv'
BY DEF SaveInv, CopiesTrue, SavedWhenDone, Stored, SaveDue, Unsaved

\* A step of no consequence for NVS.
LEMMA SavesUntouched ==
  ASSUME SaveInv, UNCHANGED <<nvs, unsaved>>, table'.groups = table.groups,
         \A u \in Task :
           \/ task'[u].pc = task[u].pc /\ task'[u].copy = task[u].copy
           \/ /\ task[u].pc \notin Unsaved \cup {"write"}
              /\ task'[u].pc \notin Unsaved \cup {"write"}
  PROVE  SaveInv'
BY DEF SaveInv, CopiesTrue, SavedWhenDone, Stored, SaveDue, Unsaved

LEMMA SavesKept ==
  ASSUME TypeOK, SaveInv, Next
  PROVE  SaveInv'
<1> USE TaskFunction, IdleTyped
<1>1. ASSUME NEW g \in Gear, NEW k \in Group, NEW op \in Op, SetMembership(g, k, op)
      PROVE  SaveInv'
  <2>1. CASE g \in mapped
    <3>1. task'["cmd"].pc = "send" BY <1>1, <2>1 DEF SetMembership, Idle
    <3> QED BY <3>1, CopyDue DEF Unsaved
  <2>2. CASE g \notin mapped BY <1>1, <2>2, SavesUntouched DEF SetMembership
  <2> QED BY <2>1, <2>2
<1>2. ASSUME NEW new \in Tables, SetAll(new) PROVE SaveInv'
  <2>1. task'["web"].pc = "send" BY <1>2 DEF SetAll, Idle
  <2> QED BY <2>1, CopyDue DEF Unsaved
<1>3. ASSUME NEW t \in Refresher, RefreshBegin(t) PROVE SaveInv'
  <2>1. /\ \A u \in Task \ {t} : task'[u] = task[u]
        /\ task[t].pc = "idle" /\ task'[t].pc = "hear"
    BY <1>3 DEF RefreshBegin, Idle
  <2>2. UNCHANGED <<nvs, unsaved, table>> BY <1>3 DEF RefreshBegin, historyVars
  <2> QED BY <2>1, <2>2, SavesUntouched DEF Unsaved
<1>4. ASSUME NEW t \in Refresher, RefreshHear(t) PROVE SaveInv'
  <2>1. /\ \A u \in Task \ {t} : task'[u] = task[u]
        /\ task[t].pc = "hear" /\ task'[t].pc = "hear"
    BY <1>4 DEF RefreshHear, Progress
  <2>2. UNCHANGED <<nvs, unsaved, table>> BY <1>4 DEF RefreshHear, historyVars
  <2> QED BY <2>1, <2>2, SavesUntouched DEF Unsaved
<1>5. ASSUME NEW t \in Refresher, RefreshSwap(t) PROVE SaveInv'
  <2>1. task'[t].pc = "publishAll" BY <1>5 DEF RefreshSwap, Idle
  <2> QED BY <2>1, CopyDue DEF Unsaved
<1>6. ASSUME NEW t \in {"cmd", "web"}, Send(t) PROVE SaveInv'
  <2>1. task'[t].pc = "send"
    <3>1. task[t].pc = "send" BY <1>6 DEF Send
    <3>2. t \in Task BY DEF Task
    <3> QED BY <1>6, <3>1, <3>2, SendFrame
  <2> QED BY <2>1, CopyDue DEF Unsaved
<1>7. ASSUME NEW t \in {"cmd", "web"}, Sent(t) PROVE SaveInv'
  <2>1. task'[t].pc \in Unsaved BY <1>7 DEF Sent, Unsaved, Progress
  <2> QED BY <2>1, CopyDue
<1>8. ASSUME NEW t \in Task, PublishAll(t) PROVE SaveInv'
  <2>1. task'[t].pc = "save" BY <1>8 DEF PublishAll, Progress
  <2> QED BY <2>1, CopyDue DEF Unsaved
<1>9. ASSUME NEW t \in Task, SaveCopy(t) PROVE SaveInv'
  <2>1. /\ \A u \in Task \ {t} : task'[u] = task[u]
        /\ task'[t].pc = "write" /\ task'[t].copy = table
        /\ table' = table
    BY <1>9 DEF SaveCopy, Progress
  <2>2. unsaved' \/ \A u \in Task \ {t} : task[u].pc # "write"
    BY <1>9 DEF SaveCopy
  <2>3. CopiesTrue' BY <2>1, <2>2 DEF CopiesTrue
  <2>4. SavedWhenDone' BY <2>1 DEF SavedWhenDone, Stored, SaveDue
  <2> QED BY <2>3, <2>4 DEF SaveInv
<1>10. ASSUME NEW t \in Task, SaveWrite(t) PROVE SaveInv'
  <2>1. /\ \A u \in Task \ {t} : task'[u] = task[u]
        /\ task[t].pc = "write" /\ task'[t].pc \in {"read", "idle"}
        /\ table' = table
    BY <1>10 DEF SaveWrite, Progress
  <2>2. CASE unsaved' BY <2>2 DEF SaveInv, CopiesTrue, SavedWhenDone, Stored
  <2>3. CASE nvs' = task[t].copy /\ unsaved' = unsaved
    <3>1. CopiesTrue' BY <2>1, <2>3 DEF SaveInv, CopiesTrue
    <3>2. SavedWhenDone'
      BY <2>1, <2>3 DEF SaveInv, CopiesTrue, SavedWhenDone, Stored, SaveDue
    <3> QED BY <3>1, <3>2 DEF SaveInv
  <2> QED BY <1>10, <2>2, <2>3 DEF SaveWrite
<1>11. CASE ReadEntry
  <2>1. /\ \A u \in Task \ {"cmd"} : task'[u] = task[u]
        /\ task["cmd"].pc = "read" /\ task'["cmd"].pc = "publish"
        /\ table'.groups = table.groups /\ UNCHANGED <<nvs, unsaved>>
    BY <1>11 DEF ReadEntry, Progress, Table, historyVars
  <2> QED BY <2>1, SavesUntouched DEF Unsaved
<1>12. CASE PublishEntry
  <2>1. /\ \A u \in Task \ {"cmd"} : task'[u] = task[u]
        /\ task["cmd"].pc = "publish" /\ task'["cmd"].pc = "idle"
        /\ UNCHANGED <<table, nvs, unsaved>>
    BY <1>12 DEF PublishEntry, historyVars
  <2> QED BY <2>1, SavesUntouched DEF Unsaved
<1>13. CASE Connect \/ Greet \/ Disconnect \/ DevicesChange
  BY <1>13, SavesUntouched
  DEF Connect, Greet, Disconnect, DevicesChange, Change, historyVars
<1>14. CASE Reboot
  BY <1>14 DEF Reboot, SaveInv, CopiesTrue, SavedWhenDone
<1> QED
  BY <1>1, <1>2, <1>3, <1>4, <1>5, <1>6, <1>7, <1>8, <1>9, <1>10, <1>11, <1>12,
     <1>13, <1>14, NextCases

-----------------------------------------------------------------------------
(* The broker.                                                             *)

\* A step of no consequence for the broker.
LEMMA BrokerUntouched ==
  ASSUME BrokerInv, UNCHANGED <<table, broker, crossed>>,
         link' = "up" /\ ~greet' => link = "up" /\ ~greet,
         \A g \in Gear : PublicationDue(g) => PublicationDue(g)',
         \/ task'["cmd"].pc # "publish"
         \/ task'["cmd"].pc = task["cmd"].pc /\ task'["cmd"].gear = task["cmd"].gear
              /\ task'["cmd"].copy = task["cmd"].copy,
         table.listed \subseteq Gear
  PROVE  BrokerInv'
<1>1. EntryTrue' BY DEF BrokerInv, EntryTrue
<1>2. BrokerFollowsTable' BY DEF BrokerInv, BrokerFollowsTable
<1> QED BY <1>1, <1>2 DEF BrokerInv

\* Tasks that go on to a step after which the same lamps are to be published.
LEMMA SameDue ==
  ASSUME \A u \in Task : task'[u].pc = task[u].pc /\ task'[u].gear = task[u].gear,
         "cmd" \in Task
  PROVE  \A g \in Gear : PublicationDue(g) => PublicationDue(g)'
BY DEF PublicationDue

\* A table entered by a task that is going to publish all of it.
LEMMA EnteredForAll ==
  ASSUME TypeOK, BrokerInv, NEW new, Enter(new), NEW t \in Task \ {"cmd"},
         task'[t].pc \in {"send", "publishAll"}, task'["cmd"] = task["cmd"]
  PROVE  BrokerInv'
<1> USE TaskFunction
<1>1. BrokerFollowsTable' BY DEF BrokerFollowsTable, PublicationDue
<1>2. EntryTrue'
  <2> SUFFICES ASSUME task["cmd"].pc = "publish"
               PROVE  /\ task["cmd"].copy.listed = task["cmd"].gear
                      /\ \A g \in task["cmd"].gear \ crossed' :
                           task["cmd"].copy.groups[g] = new.groups[g]
    BY DEF EntryTrue, Enter
  <2>1. task["cmd"].copy.listed = task["cmd"].gear BY DEF BrokerInv, EntryTrue
  <2>2. ASSUME NEW g \in task["cmd"].gear \ crossed'
        PROVE  task["cmd"].copy.groups[g] = new.groups[g]
    <3>1. g \in Gear BY DEF Progress
    <3>2. new.groups[g] = table.groups[g] BY <3>1 DEF Enter, Publishing
    <3>3. g \notin crossed BY <3>2 DEF Enter
    <3> QED BY <3>2, <3>3 DEF BrokerInv, EntryTrue
  <2> QED BY <2>1, <2>2
<1> QED BY <1>1, <1>2 DEF BrokerInv

LEMMA BrokerKept ==
  ASSUME TypeOK, BrokerInv, Next
  PROVE  BrokerInv'
<1> USE TaskFunction, IdleTyped
<1>0. table.listed \subseteq Gear BY DEF Table
<1>1. ASSUME NEW g \in Gear, NEW k \in Group, NEW op \in Op, SetMembership(g, k, op)
      PROVE  BrokerInv'
  <2>1. CASE g \notin mapped
    BY <1>0, <1>1, <2>1, SameDue, BrokerUntouched DEF SetMembership, linkVars
  <2>2. CASE g \in mapped
    <3>1. /\ task["cmd"].pc = "idle" /\ task'["cmd"].pc = "send" /\ task'["cmd"].gear = {g}
          /\ \A u \in Task \ {"cmd"} : task'[u] = task[u]
          /\ UNCHANGED <<broker, link, greet>>
      <4> DEFINE plan == {[gear |-> g, group |-> k, op |-> op]}
                 sending == [Idle EXCEPT !.pc = "send", !.gear = {g}, !.plan = plan]
      <4>1. /\ task["cmd"] = Idle /\ task' = [task EXCEPT !["cmd"] = sending]
            /\ UNCHANGED <<broker, link, greet>>
        BY <1>1, <2>2 DEF SetMembership, linkVars
      <4> HIDE DEF plan
      <4>2. Idle.pc = "idle" /\ sending.pc = "send" /\ sending.gear = {g} BY DEF Idle
      <4> HIDE DEF sending
      <4> QED BY <4>1, <4>2
    <3>2. /\ table'.listed = table.listed \cup {g}
          /\ \A h \in Gear \ {g} : table'.groups[h] = table.groups[h]
          /\ \A h \in Gear \ crossed' : table'.groups[h] = table.groups[h] => h \notin crossed
      BY <1>1, <2>2 DEF SetMembership, Enter, Table
    <3>3. EntryTrue' BY <3>1 DEF EntryTrue
    <3>4. BrokerFollowsTable'
      <4> SUFFICES ASSUME link = "up", ~greet,
                          NEW h \in table'.listed \ crossed', ~PublicationDue(h)'
                   PROVE  broker[h] = {table'.groups[h]}
        BY <3>1 DEF BrokerFollowsTable
      <4>1. h # g BY <3>1 DEF PublicationDue
      <4>2. h \in table.listed \ crossed /\ table'.groups[h] = table.groups[h]
        BY <1>0, <3>2, <4>1
      <4>3. ~PublicationDue(h) BY <3>1 DEF PublicationDue
      <4> QED BY <4>2, <4>3 DEF BrokerInv, BrokerFollowsTable
    <3> QED BY <3>3, <3>4 DEF BrokerInv
  <2> QED BY <2>1, <2>2
<1>2. ASSUME NEW new \in Tables, SetAll(new) PROVE BrokerInv'
  <2>1. /\ Enter(new) /\ "web" \in Task \ {"cmd"} /\ task'["web"].pc = "send"
        /\ task'["cmd"] = task["cmd"]
    BY <1>2 DEF SetAll, Idle
  <2> QED BY <2>1, EnteredForAll
<1>3. ASSUME NEW t \in Refresher, RefreshBegin(t) \/ RefreshHear(t) PROVE BrokerInv'
  <2>1. /\ \A u \in Task \ {t} : task'[u] = task[u]
        /\ task[t].pc \in {"idle", "hear"} /\ t \in Task \ {"cmd"}
    BY <1>3 DEF RefreshBegin, RefreshHear, Idle
  <2>2. UNCHANGED <<table, broker, link, greet, crossed>>
    BY <1>3 DEF RefreshBegin, RefreshHear, linkVars, historyVars
  <2>3. \A g \in Gear : PublicationDue(g) => PublicationDue(g)'
    BY <2>1 DEF PublicationDue
  <2> QED BY <1>0, <2>1, <2>2, <2>3, BrokerUntouched
<1>4. ASSUME NEW t \in Refresher, RefreshSwap(t) PROVE BrokerInv'
  <2>1. /\ Enter(task[t].copy) /\ t \in Task \ {"cmd"} /\ task'[t].pc = "publishAll"
        /\ task'["cmd"] = task["cmd"]
    BY <1>4 DEF RefreshSwap, Idle
  <2> QED BY <2>1, EnteredForAll
<1>5. ASSUME NEW t \in {"cmd", "web"}, Send(t) PROVE BrokerInv'
  <2>1. UNCHANGED <<table, broker, link, greet, crossed>>
    BY <1>5 DEF Send, linkVars
  <2> QED BY <1>0, <1>5, <2>1, SendFrame, SameDue, BrokerUntouched
<1>6. ASSUME NEW t \in {"cmd", "web"}, Sent(t) PROVE BrokerInv'
  <2>1. /\ \A u \in Task \ {t} : task'[u] = task[u]
        /\ task[t].pc = "send" /\ task'[t].gear = task[t].gear
        /\ task'[t].pc = IF t = "cmd" THEN "save" ELSE "publishAll"
        /\ t \in Task
    BY <1>6 DEF Sent, Progress
  <2>2. UNCHANGED <<table, broker, link, greet, crossed>>
    BY <1>6 DEF Sent, linkVars, historyVars
  <2>3. \A g \in Gear : PublicationDue(g) => PublicationDue(g)'
    BY <2>1 DEF PublicationDue
  <2>4. task'["cmd"].pc # "publish" \/ task'["cmd"] = task["cmd"] BY <2>1
  <2> QED BY <1>0, <2>2, <2>3, <2>4, BrokerUntouched
<1>7. ASSUME NEW t \in Task, PublishAll(t) PROVE BrokerInv'
  <2>1. /\ task'["cmd"].pc # "publish" \/ task'["cmd"] = task["cmd"]
        /\ UNCHANGED <<table, link, crossed>>
    BY <1>7 DEF PublishAll, Progress, historyVars
  <2>2. EntryTrue' BY <2>1 DEF BrokerInv, EntryTrue
  <2>3. BrokerFollowsTable'
    BY <1>0, <1>7, <2>1 DEF PublishAll, Published, BrokerFollowsTable
  <2> QED BY <2>2, <2>3 DEF BrokerInv
<1>8. ASSUME NEW t \in Task, SaveCopy(t) PROVE BrokerInv'
  <2>1. /\ \A u \in Task \ {t} : task'[u] = task[u]
        /\ task[t].pc = "save" /\ task'[t].pc = "write" /\ task'[t].gear = task[t].gear
    BY <1>8 DEF SaveCopy, Progress
  <2>2. UNCHANGED <<table, broker, link, greet, crossed>>
    BY <1>8 DEF SaveCopy, linkVars
  <2>3. \A g \in Gear : PublicationDue(g) => PublicationDue(g)'
    BY <2>1 DEF PublicationDue
  <2> QED BY <1>0, <2>1, <2>2, <2>3, BrokerUntouched
<1>9. ASSUME NEW t \in Task, SaveWrite(t) PROVE BrokerInv'
  <2>1. /\ \A u \in Task \ {t} : task'[u] = task[u]
        /\ task[t].pc = "write" /\ task'[t].pc # "publish"
        /\ t = "cmd" => task'[t].pc = "read" /\ task'[t].gear = task[t].gear
    BY <1>9 DEF SaveWrite, Progress
  <2>2. UNCHANGED <<table, broker, link, greet, crossed>>
    BY <1>9 DEF SaveWrite, linkVars
  <2>3. \A g \in Gear : PublicationDue(g) => PublicationDue(g)'
    BY <2>1 DEF PublicationDue
  <2> QED BY <1>0, <2>1, <2>2, <2>3, BrokerUntouched
<1>10. CASE ReadEntry
  <2>1. /\ \A u \in Task \ {"cmd"} : task'[u] = task[u]
        /\ task["cmd"].pc = "read" /\ task'["cmd"].pc = "publish"
        /\ task'["cmd"].gear = task["cmd"].gear
        /\ task'["cmd"].copy.listed = task["cmd"].gear
        /\ task'["cmd"].copy.groups = table.groups
    BY <1>10 DEF ReadEntry, Progress
  <2>2. /\ table'.groups = table.groups
        /\ table'.listed = table.listed \cup task["cmd"].gear
        /\ UNCHANGED <<broker, link, greet, crossed>>
    BY <1>10 DEF ReadEntry, Table, linkVars, historyVars
  <2>3. EntryTrue' BY <2>1, <2>2 DEF EntryTrue
  <2>4. BrokerFollowsTable'
    BY <2>1, <2>2 DEF BrokerInv, BrokerFollowsTable, PublicationDue
  <2> QED BY <2>3, <2>4 DEF BrokerInv
<1>11. CASE PublishEntry
  <2>1. /\ \A u \in Task \ {"cmd"} : task'[u] = task[u]
        /\ task["cmd"].pc = "publish" /\ task'["cmd"].pc = "idle"
        /\ UNCHANGED <<table, link, greet, crossed>>
        /\ Published(task["cmd"].copy)
    BY <1>11 DEF PublishEntry, historyVars
  <2>2. EntryTrue' BY <2>1 DEF EntryTrue
  <2>3. BrokerFollowsTable'
    <3> SUFFICES ASSUME link = "up", ~greet,
                        NEW g \in table.listed \ crossed, ~PublicationDue(g)'
                 PROVE  broker'[g] = {table.groups[g]}
      BY <2>1 DEF BrokerFollowsTable
    <3>1. broker'[g] = IF g \in task["cmd"].gear THEN {task["cmd"].copy.groups[g]}
                                                  ELSE broker[g]
      BY <1>0, <2>1 DEF Published, BrokerInv, EntryTrue
    <3>2. CASE g \in task["cmd"].gear
      BY <2>1, <3>1, <3>2 DEF BrokerInv, EntryTrue
    <3>3. CASE g \notin task["cmd"].gear
      <4>1. ~PublicationDue(g) BY <2>1, <3>3 DEF PublicationDue
      <4> QED BY <3>1, <3>3, <4>1 DEF BrokerInv, BrokerFollowsTable
    <3> QED BY <3>2, <3>3
  <2> QED BY <2>2, <2>3 DEF BrokerInv
<1>12. CASE Greet
  <2>1. /\ UNCHANGED <<task, table, link, crossed>> /\ Published(table)
    BY <1>12 DEF Greet, historyVars
  <2>2. EntryTrue' BY <2>1 DEF BrokerInv, EntryTrue
  <2>3. BrokerFollowsTable' BY <1>0, <2>1 DEF Published, BrokerFollowsTable
  <2> QED BY <2>2, <2>3 DEF BrokerInv
<1>13. CASE Connect \/ Disconnect \/ DevicesChange
  <2>1. /\ UNCHANGED <<task, table, broker, crossed>>
        /\ link' = "up" /\ ~greet' => link = "up" /\ ~greet
    BY <1>13 DEF Connect, Disconnect, DevicesChange, Change, historyVars
  <2> QED BY <1>0, <2>1, SameDue, BrokerUntouched
<1>14. CASE Reboot
  BY <1>14 DEF Reboot, BrokerInv, EntryTrue, BrokerFollowsTable
<1> QED
  BY <1>1, <1>2, <1>3, <1>4, <1>5, <1>6, <1>7, <1>8, <1>9, <1>10, <1>11, <1>12,
     <1>13, <1>14, NextCases

-----------------------------------------------------------------------------
LEMMA InitInv == Init => IInv
<1> SUFFICES ASSUME Init PROVE IInv OBVIOUS
<1>1. TypeOK
  <2>1. task \in [Task -> Progress] BY IdleTyped DEF Init
  <2>2. /\ table \in Tables /\ nvs \in Tables /\ broker \in [Gear -> SUBSET SUBSET Group]
        /\ used \in [{"calls", "changes", "faults"} -> Nat]
    BY IdleTyped DEF Init
  <2> QED BY <2>1, <2>2 DEF Init, TypeOK, Progress
<1>2. \A t \in Task : task[t] = Idle BY DEF Init
<1>3. /\ CopiesWhole /\ PlansWaitInSend /\ PlansTrue /\ OneTaskPerLamp /\ FreshTrue
      /\ CopiesTrue /\ EntryTrue
  BY <1>2, IdleTyped
  DEF CopiesWhole, PlansWaitInSend, PlansTrue, OneTaskPerLamp, FreshTrue, CopiesTrue,
      EntryTrue, Task
<1>4. LampsFollowTable BY DEF Init, NoTable, LampsFollowTable, Agreed
<1>5. SavedWhenDone /\ BrokerFollowsTable
  BY DEF Init, SavedWhenDone, BrokerFollowsTable
<1> QED BY <1>1, <1>3, <1>4, <1>5 DEF IInv, LampInv, SaveInv, BrokerInv

LEMMA NextInv == IInv /\ [Next]_vars => IInv'
<1> SUFFICES ASSUME IInv, [Next]_vars PROVE IInv' OBVIOUS
<1>1. CASE Next
  BY <1>1, NextTyped, WholeKept, LampsKept, SavesKept, BrokerKept DEF IInv
<1>2. CASE UNCHANGED vars
  <2>1. UNCHANGED <<lamp, table, nvs, broker, link, greet, mapped, online, task,
                    doubt, crossed, unsaved, used>>
    BY <1>2 DEF vars, linkVars, deviceVars, historyVars
  <2>2. TypeOK' /\ CopiesWhole' BY <2>1 DEF IInv, TypeOK, CopiesWhole
  <2>3. LampInv'
    BY <2>1, LampsUntouched DEF IInv
  <2>4. SaveInv' BY <2>1, SavesUntouched DEF IInv
  <2>5. BrokerInv'
    BY <2>1 DEF IInv, BrokerInv, EntryTrue, BrokerFollowsTable, PublicationDue
  <2> QED BY <2>2, <2>3, <2>4, <2>5 DEF IInv
<1> QED BY <1>1, <1>2

THEOREM Invariance == Spec => []IInv
BY InitInv, NextInv, PTL DEF Spec

\* The table, its copies, what is retained and what each task carries are well
\* typed: no lamp has groups without an entry (DaliGroupManagement, m_assignments).
THEOREM TypeCorrect == Spec => []TypeOK
<1>1. IInv => TypeOK BY DEF IInv
<1> QED BY <1>1, Invariance, PTL

\* Whatever way setGroupMembership, setAllAssignments and refreshes interleave,
\* a lamp has the groups of the table or is about to be sent the difference,
\* unless a frame, an answer or a reboot was lost for it or two tasks met at it.
THEOREM LampsInStep == Spec => []LampsFollowTable
<1>1. IInv => LampsFollowTable BY DEF IInv, LampInv
<1> QED BY <1>1, Invariance, PTL

\* When every operation has saved, NVS has the table's groups, unless two saves
\* met between copy and write (saveToConfig) or a write failed.
THEOREM SavedInStep == Spec => []SavedWhenDone
<1>1. IInv => SavedWhenDone BY DEF IInv, SaveInv
<1> QED BY <1>1, Invariance, PTL

\* Connected and greeted, the broker retains the table's groups of every lamp
\* whose publication is not under way and did not cross another change.
THEOREM BrokerInStep == Spec => []BrokerFollowsTable
<1>1. IInv => BrokerFollowsTable BY DEF IInv, BrokerInv
<1> QED BY <1>1, Invariance, PTL
=============================================================================
