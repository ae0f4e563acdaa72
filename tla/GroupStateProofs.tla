--------------------------- MODULE GroupStateProofs ---------------------------
(* Proofs about GroupState for every set of gear, every MaxLevel and       *)
(* StepSize and every bound: the level to restore is the group's level,    *)
(* what the broker retains is the cache unless a publication was lost or   *)
(* overtaken, and a group in which all agree stays so.                     *)
EXTENDS GroupState, TLAPS

USE DEF KnownLevel, Mask, None, MinLevel, Task

\* The levels a step ends at are levels of gear: no wrap around, never off.
LEMMA StepsStayInRange ==
  ASSUME NEW level \in KnownLevel
  PROVE  StepUp(level) \in 1 .. MaxLevel /\ (level > 0 => StepDown(level) \in 1 .. Mask)
BY LevelAssumption DEF StepUp, StepDown

\* A step that leaves the cache, the broker and the publications alone, but
\* lets tasks go on to an update, preserves what is said about publications.
LEMMA NothingPublished ==
  ASSUME Carried /\ Published /\ TypeOK,
         UNCHANGED <<group, broker, lost, raced>>,
         \A t \in Task : task'[t] = task[t] \/ (~InFlight(t) /\ ~InFlight(t)')
  PROVE  Carried' /\ Published'
BY DEF Carried, Published, InFlight

LEMMA InitInv == Init => IInv
<1> SUFFICES ASSUME Init PROVE IInv OBVIOUS
<1>1. TypeOK
  <2>1. device \in [Gear -> [level : KnownLevel, available : BOOLEAN]]
    <3>1. [level : {0}, available : BOOLEAN] \subseteq [level : KnownLevel, available : BOOLEAN]
      BY LevelAssumption
    <3> QED BY <3>1 DEF Init
  <2>2. /\ group \in [current : KnownLevel, last : KnownLevel \ {0}]
        /\ Idle \in [pc : {"idle", "assigned", "update", "read", "publish"},
                    level : KnownLevel]
        /\ broker \in KnownLevel \cup {None}
    BY LevelAssumption DEF Init, Idle
  <2>3. task \in [Task -> [pc : {"idle", "assigned", "update", "read", "publish"},
                           level : KnownLevel]]
    BY <2>2 DEF Init
  <2>4. used \in [{"requests", "changes"} -> Nat] BY DEF Init
  <2>5. /\ members \in SUBSET Gear /\ taken \in SUBSET Gear
        /\ link \in {"up", "down"} /\ lost \in BOOLEAN /\ raced \in BOOLEAN
    BY DEF Init
  <2> QED BY <2>1, <2>2, <2>3, <2>4, <2>5 DEF TypeOK
<1>2. RestoresLevel BY DEF Init, RestoresLevel
<1>3. Carried BY DEF Init, Carried, Idle
<1>4. Published BY DEF Init, Published
<1> QED BY <1>1, <1>2, <1>3, <1>4 DEF IInv

\* The frames, the commands and the sync task decide on a level.
LEMMA DecidingKeeps ==
  ASSUME IInv, SniffFrame \/ Command \/ SyncWrap
  PROVE  IInv'
<1> USE DEF IInv
<1>1. CASE SniffFrame
  <2>1. task["sniff"].pc = "idle" /\ used' \in [{"requests", "changes"} -> Nat]
    BY <1>1 DEF SniffFrame, Idle, Use, TypeOK
  <2>2. \/ task' = task
        \/ \E level \in KnownLevel : GoesOn("sniff", level)
    <3>1. CASE \E level \in KnownLevel : GoesOn("sniff", level) BY <3>1
    <3>2. CASE GoesOn("sniff", group.last) BY <3>2 DEF TypeOK
    <3>3. CASE StepTo(StepUp(group.current))
      BY <3>3, StepsStayInRange, LevelAssumption DEF StepTo, TypeOK
    <3>4. CASE StepTo(StepDown(group.current))
      <4>1. CASE group.current = 0 BY <3>4, <4>1 DEF StepTo
      <4>2. CASE group.current # 0
        BY <3>4, <4>2, StepsStayInRange, LevelAssumption DEF StepTo, TypeOK
      <4> QED BY <4>1, <4>2
    <3> QED BY <1>1, <3>1, <3>2, <3>3, <3>4 DEF SniffFrame
  <2>3. TypeOK'
    BY <1>1, <2>1, <2>2 DEF SniffFrame, TypeOK, GoesOn, envVars
  <2>4. RestoresLevel' BY <1>1 DEF SniffFrame, RestoresLevel
  <2>5. \A t \in Task : task'[t] = task[t] \/ (~InFlight(t) /\ ~InFlight(t)')
    BY <2>1, <2>2 DEF InFlight, GoesOn, TypeOK
  <2>6. Carried' /\ Published' BY <1>1, <2>5, NothingPublished DEF SniffFrame
  <2> QED BY <2>3, <2>4, <2>6
<1>2. CASE Command
  <2>1. task["cmd"].pc = "idle" /\ used' \in [{"requests", "changes"} -> Nat]
    BY <1>2 DEF Command, Idle, Use, TypeOK
  <2>2. \E level \in KnownLevel : GoesOn("cmd", level)
    BY <1>2, LevelAssumption DEF Command, TypeOK
  <2>3. TypeOK'
    BY <1>2, <2>1, <2>2 DEF Command, TypeOK, GoesOn, envVars
  <2>4. RestoresLevel' BY <1>2 DEF Command, RestoresLevel
  <2>5. \A t \in Task : task'[t] = task[t] \/ (~InFlight(t) /\ ~InFlight(t)')
    BY <2>1, <2>2 DEF InFlight, GoesOn, TypeOK
  <2>6. Carried' /\ Published' BY <1>2, <2>5, NothingPublished DEF Command
  <2> QED BY <2>3, <2>4, <2>6
<1>3. CASE SyncAssignments
  <2>1. task["sync"].pc = "idle" BY <1>3 DEF SyncAssignments, Idle
  <2>2. TypeOK' BY <1>3 DEF SyncAssignments, TypeOK, envVars
  <2>3. RestoresLevel' BY <1>3 DEF SyncAssignments, RestoresLevel
  <2>4. \A t \in Task : task'[t] = task[t] \/ (~InFlight(t) /\ ~InFlight(t)')
    BY <1>3, <2>1 DEF SyncAssignments, InFlight, TypeOK
  <2>5. Carried' /\ Published'
    BY <1>3, <2>4, NothingPublished DEF SyncAssignments
  <2> QED BY <2>2, <2>3, <2>5
<1>4. CASE SyncDevices
  <2>1. task["sync"].pc = "assigned" BY <1>4 DEF SyncDevices
  <2>2. \/ \E level \in KnownLevel : GoesOn("sync", level)
        \/ task' = [task EXCEPT !["sync"] = Idle]
    BY <1>4 DEF SyncDevices
  <2>3. TypeOK'
    BY <1>4, <2>2, LevelAssumption DEF SyncDevices, TypeOK, GoesOn, Idle, envVars
  <2>4. RestoresLevel' BY <1>4 DEF SyncDevices, RestoresLevel
  <2>5. \A t \in Task : task'[t] = task[t] \/ (~InFlight(t) /\ ~InFlight(t)')
    BY <2>1, <2>2 DEF InFlight, GoesOn, Idle, TypeOK
  <2>6. Carried' /\ Published' BY <1>4, <2>5, NothingPublished DEF SyncDevices
  <2> QED BY <2>3, <2>4, <2>6
<1> QED BY <1>1, <1>2, <1>3, <1>4 DEF SyncWrap

\* updateGroupState and publishGroupState, step by step.
LEMMA UpdatingKeeps ==
  ASSUME IInv, NEW t \in Task, GroupUpdate(t)
  PROVE  IInv'
<1> USE DEF IInv
<1>1. CASE Update(t)
  <2>1. task[t].level \in KnownLevel /\ group.current \in KnownLevel
        /\ group.last \in KnownLevel \ {0}
    BY DEF TypeOK
  <2>2. /\ group'.current = task[t].level
        /\ group'.last = IF task[t].level > 0 THEN task[t].level ELSE group.last
        /\ group' \in [current : KnownLevel, last : KnownLevel \ {0}]
    BY <1>1, <2>1 DEF Update, NewLast
  <2>3. TypeOK'
    <3>1. [pc |-> "read", level |-> 0] \in
            [pc : {"idle", "assigned", "update", "read", "publish"}, level : KnownLevel]
      BY LevelAssumption
    <3> QED BY <1>1, <2>2, <3>1 DEF Update, TypeOK, envVars
  <2>4. RestoresLevel' BY <2>2 DEF RestoresLevel
  <2>5. InFlight(t)' /\ task'[t].pc = "read"
        /\ \A u \in Task \ {t} : task'[u] = task[u]
    BY <1>1 DEF Update, InFlight, TypeOK
  <2>6. Published' BY <2>5 DEF Published
  <2>7. ASSUME ~raced', NEW u \in Task, task'[u].pc = "publish" PROVE FALSE
    BY <1>1, <2>5, <2>7 DEF Update, InFlight
  <2>8. Carried' BY <2>7 DEF Carried
  <2> QED BY <2>3, <2>4, <2>6, <2>8
<1>2. CASE Read(t)
  <2>1. TypeOK' BY <1>2 DEF Read, TypeOK, envVars
  <2>2. RestoresLevel' BY <1>2 DEF Read, RestoresLevel
  <2>3. InFlight(t)' /\ task'[t] = [pc |-> "publish", level |-> group.current]
        /\ \A u \in Task \ {t} : task'[u] = task[u]
    BY <1>2 DEF Read, InFlight, TypeOK
  <2>4. Published' BY <2>3 DEF Published
  <2>5. Carried' BY <1>2, <2>3 DEF Read, Carried
  <2> QED BY <2>1, <2>2, <2>4, <2>5
<1>3. CASE Publish(t)
  <2>1. TypeOK'
    <3>1. task[t].level \in KnownLevel BY DEF TypeOK
    <3>2. broker' \in KnownLevel \cup {None} BY <1>3, <3>1 DEF Publish, TypeOK
    <3>3. task' \in [Task -> [pc : {"idle", "assigned", "update", "read", "publish"},
                              level : KnownLevel]]
      BY <1>3, LevelAssumption DEF Publish, TypeOK, Idle
    <3> QED BY <1>3, <3>2, <3>3 DEF Publish, TypeOK, envVars
  <2>2. RestoresLevel' BY <1>3 DEF Publish, RestoresLevel
  <2>3. task'[t].pc = "idle" /\ \A u \in Task \ {t} : task'[u] = task[u]
    BY <1>3 DEF Publish, Idle, TypeOK
  <2>4. Carried' BY <1>3, <2>3 DEF Publish, Carried
  <2>5. Published'
    <3> SUFFICES ASSUME ~raced', ~lost' PROVE broker' = group'.current
      BY DEF Published
    <3>1. task[t].level = group.current BY <1>3 DEF Publish, Carried
    <3> QED BY <1>3, <3>1 DEF Publish
  <2> QED BY <2>1, <2>2, <2>4, <2>5
<1> QED BY <1>1, <1>2, <1>3 DEF GroupUpdate

\* What the group's state depends on changes without touching it.
LEMMA ChangesKeep ==
  ASSUME IInv,
         MembersChange \/ (\E g \in Gear : DeviceChange(g)) \/ Disconnect \/ Connect
  PROVE  IInv'
<1> USE DEF IInv
<1>1. UNCHANGED <<group, broker, task, taken, lost, raced>>
  BY DEF MembersChange, DeviceChange, Disconnect, Connect, Change
<1>2. used' \in [{"requests", "changes"} -> Nat]
  BY DEF MembersChange, DeviceChange, Disconnect, Connect, Change, Use, TypeOK
<1>3. members' \in SUBSET Gear /\ link' \in {"up", "down"}
  BY DEF MembersChange, DeviceChange, Disconnect, Connect, Change, TypeOK
<1>4. device' \in [Gear -> [level : KnownLevel, available : BOOLEAN]]
  <2>1. CASE \E g \in Gear : DeviceChange(g) BY <2>1 DEF DeviceChange, TypeOK
  <2>2. CASE MembersChange \/ Disconnect \/ Connect
    BY <2>2 DEF MembersChange, Disconnect, Connect, TypeOK
  <2> QED BY <2>1, <2>2
<1>5. TypeOK' BY <1>1, <1>2, <1>3, <1>4 DEF TypeOK
<1>6. RestoresLevel' BY <1>1 DEF RestoresLevel
<1>7. Carried' /\ Published' BY <1>1, NothingPublished
<1> QED BY <1>5, <1>6, <1>7

LEMMA NextInv == IInv /\ [Next]_vars => IInv'
<1> SUFFICES ASSUME IInv, [Next]_vars PROVE IInv' OBVIOUS
<1>1. CASE SniffFrame \/ Command \/ SyncWrap BY <1>1, DecidingKeeps
<1>2. CASE \E t \in Task : GroupUpdate(t) BY <1>2, UpdatingKeeps
<1>3. CASE MembersChange \/ (\E g \in Gear : DeviceChange(g)) \/ Disconnect \/ Connect
  BY <1>3, ChangesKeep
<1>4. CASE UNCHANGED vars
  <2>1. TypeOK' BY <1>4 DEF vars, envVars, TypeOK, IInv
  <2>2. RestoresLevel' BY <1>4 DEF vars, RestoresLevel, IInv
  <2>3. Carried' /\ Published'
    BY <1>4 DEF vars, Carried, Published, InFlight, IInv
  <2> QED BY <2>1, <2>2, <2>3 DEF IInv
<1> QED BY <1>1, <1>2, <1>3, <1>4 DEF Next

LEMMA Invariance == Spec => []IInv
<1>1. Init => IInv BY InitInv
<1>2. IInv /\ [Next]_vars => IInv' BY NextInv
<1> QED BY <1>1, <1>2, PTL DEF Spec, SafeSpec

\* Levels of groups are levels of gear or MASK; a level to restore is not 0.
THEOREM TypeCorrect == Spec => []TypeOK
<1>1. IInv => TypeOK BY DEF IInv
<1> QED BY <1>1, Invariance, PTL

\* restoreGroupLevel and a colour command bring back the level that was on,
\* whichever of the tasks set it.
THEOREM RestoreIsLevel == Spec => []RestoresLevel
<1>1. IInv => RestoresLevel BY DEF IInv
<1> QED BY <1>1, Invariance, PTL

\* updateGroupState publishes the cache it has written unless it is overtaken.
THEOREM PublishedUnlessOvertaken == Spec => []Published
<1>1. IInv => Published BY DEF IInv
<1> QED BY <1>1, Invariance, PTL

-----------------------------------------------------------------------------
(* A settled group stays settled.                                          *)

\* Whoever asks for something or changes something uses a bound up.
LEMMA DisturbingSteps ==
  ASSUME TypeOK,
         \/ SniffFrame \/ Command
         \/ MembersChange \/ (\E g \in Gear : DeviceChange(g)) \/ Disconnect
  PROVE  Disturbed
<1>1. PICK what \in {"requests", "changes"} : Use(what)
  BY DEF SniffFrame, Command, MembersChange, DeviceChange, Disconnect, Change
<1>2. used'[what] = used[what] + 1 /\ used[what] \in Nat
  BY <1>1 DEF Use, TypeOK
<1> QED BY <1>2 DEF Disturbed

\* The sync task computes the level the group has, because the members it has
\* copied are the members still.
LEMMA SettledSync ==
  ASSUME TypeOK, NEW level \in KnownLevel, Settled(level), SyncWrap
  PROVE  Settled(level)'
<1>1. /\ UNCHANGED <<envVars, group, broker>>
      /\ GroupLevel(level)' /\ link' = "up"
      /\ group'.current = level /\ broker' = level
  BY DEF SyncWrap, SyncAssignments, SyncDevices, Settled, GroupLevel, envVars
<1>2. CASE SyncAssignments
  <2>1. \A t \in Task : task'[t].pc \in {"update", "publish"} => task'[t] = task[t]
    BY <1>2 DEF SyncAssignments, TypeOK
  <2>2. taken' = members' BY <1>1, <1>2 DEF SyncAssignments, envVars
  <2> QED BY <1>1, <2>1, <2>2 DEF Settled
<1>3. CASE SyncDevices
  <2>1. taken = members BY <1>3 DEF SyncDevices, Settled
  <2>2. Highest(level) BY <2>1 DEF Settled, GroupLevel, Highest
  <2>3. ASSUME NEW l \in KnownLevel, Highest(l) PROVE l = level
    <3>1. PICK g \in taken : /\ device[g].available /\ l = device[g].level
                             /\ \A h \in taken : device[h].available => device[h].level <= l
      BY <2>3 DEF Highest
    <3>2. PICK f \in taken : /\ device[f].available /\ level = device[f].level
                             /\ \A h \in taken : device[h].available => device[h].level <= level
      BY <2>2 DEF Highest
    <3>3. l <= level /\ level <= l BY <3>1, <3>2
    <3> QED BY <3>3, LevelAssumption
  <2>4. GoesOn("sync", level) BY <1>3, <2>2, <2>3 DEF SyncDevices
  <2>5. /\ task'["sync"] = [pc |-> "update", level |-> level]
        /\ \A t \in Task \ {"sync"} : task'[t] = task[t]
    BY <2>4 DEF GoesOn, TypeOK
  <2> QED BY <1>1, <2>5 DEF Settled
<1> QED BY <1>2, <1>3 DEF SyncWrap

\* An update writes the level that is there, a publication repeats it.
LEMMA SettledUpdate ==
  ASSUME TypeOK, NEW level \in KnownLevel, Settled(level),
         NEW t \in Task, GroupUpdate(t)
  PROVE  Settled(level)'
<1>1. /\ GroupLevel(level)' /\ link' = "up"
      /\ \A u \in Task \ {t} : task'[u] = task[u]
      /\ members' = members /\ taken' = taken
  BY DEF GroupUpdate, Update, Read, Publish, Settled, GroupLevel, envVars, TypeOK
<1>2. /\ group'.current = level /\ broker' = level
      /\ task'[t].pc \in {"idle", "read", "publish"}
      /\ task'[t].pc = "publish" => task'[t].level = level
  <2>1. /\ task[t].pc \in {"update", "publish"} => task[t].level = level
        /\ group.current = level /\ broker = level
    BY DEF Settled
  <2>2. CASE Update(t) BY <2>1, <2>2 DEF Update, TypeOK
  <2>3. CASE Read(t) BY <2>1, <2>3 DEF Read, TypeOK
  <2>4. CASE Publish(t) BY <2>1, <2>4 DEF Publish, TypeOK, Idle
  <2> QED BY <2>2, <2>3, <2>4 DEF GroupUpdate
<1> QED BY <1>1, <1>2 DEF Settled

LEMMA SettledStep ==
  ASSUME TypeOK, [Next]_vars, NEW level \in KnownLevel, Settled(level)
  PROVE  Settled(level)' \/ Disturbed
<1>1. CASE SniffFrame \/ Command BY <1>1, DisturbingSteps
<1>2. CASE SyncWrap BY <1>2, SettledSync
<1>3. CASE \E t \in Task : GroupUpdate(t) BY <1>3, SettledUpdate
<1>4. CASE MembersChange \/ (\E g \in Gear : DeviceChange(g)) \/ Disconnect
  BY <1>4, DisturbingSteps
<1>5. CASE Connect BY <1>5 DEF Connect, Settled
<1>6. CASE UNCHANGED vars
  BY <1>6 DEF vars, envVars, Settled, GroupLevel
<1> QED BY <1>1, <1>2, <1>3, <1>4, <1>5, <1>6 DEF Next

\* The safety half of GroupConverges: once the cache, the broker, the members
\* and the tasks under way agree on the group's level, only a frame, a command
\* or a change takes the group away from it.
THEOREM SettledStays == Spec => StaysSettled
<1>1. TypeOK /\ [Next]_vars
        => [\A level \in KnownLevel : Settled(level) => Settled(level)' \/ Disturbed]_vars
  BY SettledStep
<1> QED BY <1>1, TypeCorrect, PTL DEF Spec, SafeSpec, StaysSettled

=============================================================================
