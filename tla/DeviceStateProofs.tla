-------------------------- MODULE DeviceStateProofs --------------------------
(***************************************************************************)
(* Proofs about DeviceState, for every set of lamps and levels and every   *)
(* bound.                                                                  *)
(***************************************************************************)
EXTENDS DeviceState, SequenceTheorems, TLAPS

(***************************************************************************)
(* The inductive invariant, by the components of the state.  Each part     *)
(* names few variables, so that a step has to be followed in the parts it  *)
(* touches only.                                                           *)
(***************************************************************************)

BusOK ==
  /\ lamp \in [Gear -> Level] /\ powered \in [Gear -> BOOLEAN]
  /\ masked \in SUBSET Gear /\ running \in BOOLEAN
MapOK == mapped \in SUBSET Gear /\ phantom \in SUBSET mapped
DevOK == dev \in [Gear -> ControlGear]
BrokerOK ==
  /\ link \in {"none", "down", "up"}
  /\ brokerState \in [Gear -> Level \cup {None}]
  /\ lost \in [Gear -> BOOLEAN]
StatusOK ==
  /\ brokerStatus \in [Gear -> Status]
  /\ outbox \in Seq([gear : Gear, text : {"online", "offline"}])
EventsOK == events \in Seq(Frame) /\ Len(events) <= QueueSize
SniffOK ==
  sniff \in [plan : SUBSET [gear : Gear, level : KnownLevel], ask : SUBSET Gear]
CmdOK ==
  cmd \in [pc : {"idle", "send", "apply"}, on : BOOLEAN, level : KnownLevel,
           via : {"short", "group", "broadcast"}, to : SUBSET Gear,
           plan : SUBSET Gear]
ScanOK == scan \in [on : BOOLEAN, heard : SUBSET Gear]
PollOK ==
  /\ pending \in SUBSET Gear /\ polling \in Gear \cup {NoGear}
  /\ poll \in [pc : {"idle", "level", "status", "update"},
               level : KnownLevel \cup {None}, status : StatusByte \cup {None}]
UsedOK == used \in [{"frames", "commands", "scans", "faults"} -> Nat]

LEMMA TypeParts ==
  TypeOK <=> /\ BusOK /\ MapOK /\ DevOK /\ BrokerOK /\ StatusOK /\ EventsOK
             /\ SniffOK /\ CmdOK /\ ScanOK /\ PollOK /\ UsedOK
BY DEF TypeOK, BusOK, MapOK, DevOK, BrokerOK, StatusOK, EventsOK, SniffOK, CmdOK,
  ScanOK, PollOK, UsedOK

\* A light that is on has its level as the one to come back to; 0 is none.
Restorable(d) == d.last > 0 /\ (d.current > 0 => d.last = d.current)
LastLevelKept ==
  \A g \in Gear : /\ dev[g].last > 0
                  /\ dev[g].current > 0 => dev[g].last = dev[g].current

IInv == TypeOK /\ LastLevelKept /\ BrokerFollowsCache

(***************************************************************************)
(* Data.                                                                   *)
(***************************************************************************)

LEMMA LevelFacts ==
  /\ 0 \in Level /\ MaxLevel \in Level /\ Level \subseteq KnownLevel
  /\ Mask \in KnownLevel /\ None \notin KnownLevel
  /\ \A l \in KnownLevel : l \in Nat /\ l <= 255
BY LevelAssumption DEF MaxLevel, KnownLevel, Mask, None

LEMMA NewGearFacts ==
  ASSUME NEW b \in BOOLEAN
  PROVE  /\ NewGear(b) \in ControlGear
         /\ NewGear(b).initial
         /\ Restorable(NewGear(b))
BY LevelFacts DEF NewGear, ControlGear, StatusByte, MaxLevel, Restorable

LEMMA LevelsAfterFacts ==
  ASSUME NEW f, f.kind \in Kind, f.level \in KnownLevel, NEW l \in Level
  PROVE  LevelsAfter(f, l) \subseteq KnownLevel
BY LevelFacts DEF LevelsAfter, Kind

LEMMA InitInv == Init => IInv
<1> SUFFICES ASSUME Init PROVE IInv
  OBVIOUS
<1>1. used \in [{"frames", "commands", "scans", "faults"} -> Nat]
  BY DEF Init
<1>2. DevOK /\ \A g \in Gear : dev[g] = NewGear(FALSE)
  BY NewGearFacts DEF Init, DevOK
<1>3. CmdOK /\ SniffOK /\ ScanOK
  BY LevelFacts DEF Init, CmdOK, SniffOK, ScanOK, CmdIdle, SniffIdle, ScanIdle
<1>4. PollOK
  BY DEF Init, PollOK, PollIdle, Polls!Init
<1>5. EventsOK /\ StatusOK
  BY BoundAssumption DEF Init, EventsOK, StatusOK, Status
<1>6. BusOK /\ MapOK /\ BrokerOK
  BY DEF Init, BusOK, MapOK, BrokerOK
<1>7. LastLevelKept
  BY <1>2, NewGearFacts DEF LastLevelKept, Restorable
<1>8. BrokerFollowsCache
  BY DEF Init, BrokerFollowsCache
<1> QED
  BY <1>1, <1>2, <1>3, <1>4, <1>5, <1>6, <1>7, <1>8, TypeParts DEF IInv, UsedOK

(***************************************************************************)
(* updateDeviceState.                                                      *)
(***************************************************************************)

\* What the cache holds after updateDeviceState can be restored, and the broker
\* has it unless it was dropped.
LEMMA UpdateFacts ==
  ASSUME DevOK, BrokerOK, MapOK, LastLevelKept, BrokerFollowsCache,
         NEW g \in Gear, NEW level \in KnownLevel \cup {None},
         NEW status \in StatusByte \cup {None},
         UpdateDeviceState(g, level, status), UNCHANGED <<mapped, link>>
  PROVE  DevOK' /\ BrokerOK' /\ LastLevelKept' /\ BrokerFollowsCache'
<1>1. CASE g \notin mapped
  <2>1. UNCHANGED <<dev, brokerState, lost, link, mapped>>
    BY <1>1 DEF UpdateDeviceState, publishVars
  <2> QED
    BY <2>1 DEF DevOK, BrokerOK, LastLevelKept, BrokerFollowsCache
<1>2. CASE g \in mapped
  <2> DEFINE old == dev[g]
             current == NewLevel(old.current, level)
             last == NewLast(old.last, level)
             stat == IF status = None THEN old.status ELSE status
             new == [old EXCEPT !.current = current, !.last = last,
                                !.status = stat, !.initial = FALSE]
             publish == Publishes(old, new)
  <2>1. /\ dev' = [dev EXCEPT ![g] = new]
        /\ brokerState' = IF publish /\ link = "up"
                            THEN [brokerState EXCEPT ![g] = new.current]
                            ELSE brokerState
        /\ lost' = IF publish THEN [lost EXCEPT ![g] = link # "up"] ELSE lost
    BY <1>2 DEF UpdateDeviceState
  <2>2. old \in ControlGear /\ Restorable(old)
    BY DEF DevOK, LastLevelKept, Restorable
  <2>3. current \in KnownLevel /\ last \in KnownLevel /\ stat \in StatusByte
    BY <2>2 DEF ControlGear, NewLevel, NewLast
  <2>4. last > 0 /\ (current > 0 => last = current)
    BY <2>2, LevelFacts DEF ControlGear, NewLevel, NewLast, Restorable
  <2> HIDE DEF current, last, stat
  <2>5. /\ new \in ControlGear
        /\ new.current = current /\ new.last = last /\ new.status = stat
        /\ new.initial = FALSE
    BY <2>2, <2>3 DEF ControlGear
  <2>6. Restorable(new)
    BY <2>4, <2>5 DEF Restorable
  <2>7. publish => new.current \in Level
    BY <2>3, <2>5 DEF Publishes, KnownLevel
  <2>8. ~publish => \/ new.current = Mask
                    \/ new.current = old.current /\ ~old.initial
    BY DEF Publishes
  <2> HIDE DEF new, publish
  <2>9. DevOK' /\ \A h \in Gear : dev'[h] = IF h = g THEN new ELSE dev[h]
    BY <2>1, <2>5 DEF DevOK
  <2>10. LastLevelKept'
    BY <2>6, <2>9 DEF LastLevelKept, Restorable
  <2>11. BrokerOK'
    BY <2>1, <2>7 DEF BrokerOK
  <2>12. BrokerFollowsCache'
    <3> SUFFICES ASSUME NEW h \in mapped, ~lost'[h], ~dev'[h].initial,
                        dev'[h].current # Mask
                 PROVE  brokerState'[h] = dev'[h].current
      BY DEF BrokerFollowsCache
    <3>1. h \in Gear
      BY DEF MapOK
    <3>2. CASE h # g
      <4>1. dev'[h] = dev[h] /\ lost'[h] = lost[h] /\ brokerState'[h] = brokerState[h]
        BY <2>1, <2>9, <3>1, <3>2 DEF BrokerOK
      <4> QED
        BY <4>1 DEF BrokerFollowsCache
    <3>3. CASE h = g /\ publish
      <4>1. lost'[g] = (link # "up")
        BY <2>1, <3>3 DEF BrokerOK
      <4>2. brokerState'[g] = new.current
        BY <2>1, <3>3, <4>1 DEF BrokerOK
      <4> QED
        BY <2>9, <3>3, <4>2
    <3>4. CASE h = g /\ ~publish
      <4>1. lost'[g] = lost[g] /\ brokerState'[g] = brokerState[g] /\ dev'[g] = new
        BY <2>1, <2>9, <3>4
      <4>2. new.current = old.current /\ ~old.initial
        BY <2>8, <3>4, <4>1
      <4> QED
        BY <1>2, <3>4, <4>1, <4>2 DEF BrokerFollowsCache
    <3> QED
      BY <3>2, <3>3, <3>4
  <2> QED
    BY <2>9, <2>10, <2>11, <2>12
<1> QED
  BY <1>1, <1>2

(***************************************************************************)
(* Steps.                                                                  *)
(***************************************************************************)

Parts == /\ BusOK /\ MapOK /\ DevOK /\ BrokerOK /\ StatusOK /\ EventsOK
         /\ SniffOK /\ CmdOK /\ ScanOK /\ PollOK /\ UsedOK

LEMMA PartsInv == IInv <=> Parts /\ LastLevelKept /\ BrokerFollowsCache
BY TypeParts DEF IInv, Parts

LEMMA PartsInvNext == IInv' <=> Parts' /\ LastLevelKept' /\ BrokerFollowsCache'
BY PartsInv DEF IInv, Parts, TypeOK, BusOK, MapOK, DevOK, BrokerOK, StatusOK,
  EventsOK, SniffOK, CmdOK, ScanOK, PollOK, UsedOK

\* A step that leaves cache and broker alone.
LEMMA CacheKept ==
  ASSUME IInv, UNCHANGED <<mapVars, linkVars, publishVars, brokerStatus>>
  PROVE  /\ MapOK' /\ DevOK' /\ BrokerOK' /\ StatusOK'
         /\ LastLevelKept' /\ BrokerFollowsCache'
BY PartsInv
DEF Parts, mapVars, linkVars, publishVars, MapOK, DevOK, BrokerOK, StatusOK,
  LastLevelKept, BrokerFollowsCache

LEMMA UseFacts ==
  ASSUME UsedOK, NEW what \in {"frames", "commands", "scans", "faults"}, Use(what)
  PROVE  UsedOK'
BY DEF Use, UsedOK

LEMMA FaultFacts ==
  ASSUME UsedOK, Fault \/ NoFault
  PROVE  UsedOK'
BY UseFacts DEF Fault, NoFault, UsedOK

LEMMA OnBusFacts ==
  ASSUME BusOK, NEW f, f.to \subseteq Gear, OnBus(f), UNCHANGED running
  PROVE  BusOK'
BY DEF OnBus, BusOK

LEMMA ForeignInv ==
  ASSUME IInv, NEW f \in Frame, ForeignFrame(f)
  PROVE  IInv'
<1>1. Parts
  BY PartsInv
<1>2. EventsOK'
  <2>1. Append(events, f) \in Seq(Frame) /\ Len(Append(events, f)) = Len(events) + 1
    BY <1>1 DEF Parts, EventsOK
  <2>2. events' = events \/ (Len(events) < QueueSize /\ events' = Append(events, f))
    BY DEF ForeignFrame, Queue
  <2>3. Len(events) \in Nat
    BY <1>1 DEF Parts, EventsOK
  <2> QED
    BY <1>1, <2>1, <2>2, <2>3, BoundAssumption DEF Parts, EventsOK
<1>3. UsedOK'
  <2>1. \/ Use("frames")
        \/ used' = [used EXCEPT !.frames = @ + 1, !.faults = @ + 1]
    BY DEF ForeignFrame
  <2>2. used.frames + 1 \in Nat /\ used.faults + 1 \in Nat
    BY <1>1 DEF Parts, UsedOK
  <2> QED
    BY <1>1, <2>1, <2>2, UseFacts DEF Parts, UsedOK
<1>4. BusOK'
  BY <1>1, OnBusFacts DEF ForeignFrame, Frame, Parts
<1>5. SniffOK' /\ CmdOK' /\ ScanOK' /\ PollOK'
  BY <1>1 DEF ForeignFrame, Parts, SniffOK, CmdOK, ScanOK, PollOK, pollVars
<1> QED
  BY <1>2, <1>3, <1>4, <1>5, CacheKept, PartsInvNext DEF Parts, ForeignFrame

LEMMA SniffTakeInv ==
  ASSUME IInv, SniffTake
  PROVE  IInv'
<1>1. Parts /\ LastLevelKept /\ BrokerFollowsCache
  BY PartsInv
<1> DEFINE f == Head(events)
           affected == Affected(f)
           known == affected \cap mapped
           dark == {g \in known : dev[g].current = 0}
           created == IF f.kind = "recall" /\ Cardinality(affected) = 1
                        THEN affected \ mapped ELSE {}
<1>2. /\ events # <<>> /\ events' = Tail(events)
      /\ sniff' =
           CASE f.kind \in {"level", "recall"} ->
                  [plan |-> {[gear |-> g, level |-> f.level] : g \in affected},
                   ask |-> {}]
             [] f.kind = "onstep" ->
                  [plan |-> {[gear |-> g, level |-> dev[g].last] : g \in dark},
                   ask |-> IF known = dark THEN {} ELSE affected]
             [] f.kind = "move" -> [plan |-> {}, ask |-> affected]
      /\ mapped' = mapped \cup created
      /\ phantom' = phantom \cup created
      /\ dev' = [g \in Gear |-> IF g \in created THEN NewGear(FALSE) ELSE dev[g]]
  BY DEF SniffTake
<1>3. UNCHANGED <<lamp, powered, masked, running, link, outbox, brokerState, lost,
                  brokerStatus, cmd, scan, pending, polling, poll, used>>
  BY DEF SniffTake, busVars, linkVars, pollVars
<1>4. f \in Frame /\ EventsOK'
  <2>1. events \in Seq(Frame) /\ events # <<>> /\ Len(events) <= QueueSize
    BY <1>1, <1>2 DEF Parts, EventsOK
  <2>2. Head(events) \in Frame /\ Tail(events) \in Seq(Frame)
        /\ Len(Tail(events)) = Len(events) - 1 /\ Len(events) \in Nat
    BY <2>1
  <2> QED
    BY <1>2, <2>1, <2>2, BoundAssumption DEF EventsOK
<1>5. affected \subseteq Gear
  <2>1. f.to \subseteq Gear /\ f.via \in {"short", "group", "broadcast"}
    BY <1>4, ViaAssumption DEF Frame
  <2>2. mapped \subseteq Gear
    BY <1>1 DEF Parts, MapOK
  <2> HIDE DEF f
  <2> QED
    BY <2>1, <2>2 DEF Affected, Addressed
<1>6. f.kind \in Kind /\ f.level \in KnownLevel
  BY <1>4 DEF Frame
<1> HIDE DEF f, affected
<1>7. SniffOK'
  <2>1. \A g \in dark : g \in Gear /\ dev[g].last \in KnownLevel
    BY <1>1, <1>5 DEF Parts, DevOK, ControlGear
  <2>2. CASE f.kind \in {"level", "recall"}
    <3>1. sniff' = [plan |-> {[gear |-> g, level |-> f.level] : g \in affected},
                    ask |-> {}]
      BY <1>2, <2>2
    <3>2. {[gear |-> g, level |-> f.level] : g \in affected}
            \in SUBSET [gear : Gear, level : KnownLevel]
      BY <1>5, <1>6
    <3> QED
      BY <3>1, <3>2 DEF SniffOK
  <2>3. CASE f.kind = "onstep"
    <3>1. sniff' = [plan |-> {[gear |-> g, level |-> dev[g].last] : g \in dark},
                    ask |-> IF known = dark THEN {} ELSE affected]
      BY <1>2, <2>3
    <3>2. {[gear |-> g, level |-> dev[g].last] : g \in dark}
            \in SUBSET [gear : Gear, level : KnownLevel]
      BY <2>1
    <3> QED
      BY <1>5, <3>1, <3>2 DEF SniffOK
  <2>4. CASE f.kind = "move"
    <3>1. sniff' = [plan |-> {}, ask |-> affected]
      BY <1>2, <2>4
    <3> QED
      BY <1>5, <3>1 DEF SniffOK
  <2> QED
    BY <1>6, <2>2, <2>3, <2>4 DEF Kind
<1>8. MapOK' /\ created \cap mapped = {}
  BY <1>1, <1>2, <1>5 DEF Parts, MapOK
<1> HIDE DEF created
<1>9. /\ \A g \in Gear : dev'[g] = IF g \in created THEN NewGear(FALSE) ELSE dev[g]
      /\ DevOK'
  BY <1>1, <1>2, NewGearFacts DEF Parts, DevOK
<1>10. LastLevelKept'
  BY <1>1, <1>9, NewGearFacts DEF LastLevelKept, Restorable
<1>11. BrokerFollowsCache'
  <2> SUFFICES ASSUME NEW g \in mapped', ~lost'[g], ~dev'[g].initial,
                      dev'[g].current # Mask
               PROVE  brokerState'[g] = dev'[g].current
    BY DEF BrokerFollowsCache
  <2>1. g \in Gear
    BY <1>8 DEF MapOK
  <2>2. g \notin created /\ dev'[g] = dev[g]
    BY <1>9, <2>1, NewGearFacts
  <2> QED
    BY <1>1, <1>2, <1>3, <2>2 DEF BrokerFollowsCache
<1>12. BusOK' /\ BrokerOK' /\ StatusOK' /\ CmdOK' /\ ScanOK' /\ PollOK' /\ UsedOK'
  BY <1>1, <1>3 DEF Parts, BusOK, BrokerOK, StatusOK, CmdOK, ScanOK, PollOK, UsedOK
<1> QED
  BY <1>4, <1>7, <1>8, <1>9, <1>10, <1>11, <1>12, PartsInvNext DEF Parts

LEMMA SniffApplyInv ==
  ASSUME IInv, SniffApply
  PROVE  IInv'
<1>1. Parts /\ LastLevelKept /\ BrokerFollowsCache
  BY PartsInv
<1>2. PICK update \in sniff.plan :
        /\ UpdateDeviceState(update.gear, update.level, None)
        /\ sniff' = [sniff EXCEPT !.plan = @ \ {update}]
  BY DEF SniffApply
<1>3. UNCHANGED <<lamp, powered, masked, running, mapped, phantom, link, outbox, brokerStatus,
                  events, cmd, scan, pending, polling, poll, used>>
  BY DEF SniffApply, busVars, mapVars, linkVars, pollVars
<1>4. update.gear \in Gear /\ update.level \in KnownLevel
  BY <1>1, <1>2 DEF Parts, SniffOK
<1>5. SniffOK'
  BY <1>1, <1>2 DEF Parts, SniffOK
<1>6. DevOK' /\ BrokerOK' /\ LastLevelKept' /\ BrokerFollowsCache'
  BY <1>1, <1>2, <1>3, <1>4, UpdateFacts DEF Parts
<1>7. /\ BusOK' /\ MapOK' /\ StatusOK' /\ EventsOK' /\ CmdOK' /\ ScanOK' /\ PollOK'
      /\ UsedOK'
  BY <1>1, <1>3
  DEF Parts, BusOK, MapOK, StatusOK, EventsOK, CmdOK, ScanOK, PollOK, UsedOK
<1> QED
  BY <1>5, <1>6, <1>7, PartsInvNext DEF Parts

LEMMA SniffAskInv ==
  ASSUME IInv, SniffAsk
  PROVE  IInv'
<1>1. Parts
  BY PartsInv
<1>2. PollOK'
  BY <1>1 DEF SniffAsk, Parts, PollOK, MapOK, Addressed
<1>3. SniffOK'
  BY DEF SniffAsk, SniffIdle, SniffOK
<1>4. BusOK' /\ EventsOK' /\ CmdOK' /\ ScanOK' /\ UsedOK'
  BY <1>1 DEF SniffAsk, busVars, Parts, BusOK, EventsOK, CmdOK, ScanOK, UsedOK
<1> QED
  BY <1>2, <1>3, <1>4, CacheKept, PartsInvNext DEF Parts, SniffAsk

LEMMA CmdTakeInv ==
  ASSUME IInv, NEW kind \in CommandKind, NEW via \in Via, NEW to \in SUBSET Gear,
         NEW level \in Level, CmdTake(kind, via, to, level)
  PROVE  IInv'
<1>1. Parts
  BY PartsInv
<1> DEFINE f == CommandFrame(kind, via, to, level)
<1>2. cmd' = [pc |-> "send", on |-> kind = "on", level |-> f.level, via |-> via,
              to |-> f.to, plan |-> IF f.to = to THEN to ELSE {}]
  BY DEF CmdTake
<1>3. f.to \subseteq Gear
  BY DEF CommandFrame
<1>4. f.level \in KnownLevel
  <2> DEFINE single == via = "short" /\ to \cap phantom = {}
             restored == IF single THEN dev[CHOOSE g \in to : TRUE].last ELSE MaxLevel
  <2>1. restored \in KnownLevel
    <3>1. CASE single
      <4>1. \E g \in Gear : to = {g}
        BY <3>1 DEF CmdTake
      <4>2. (CHOOSE g \in to : TRUE) \in Gear
        BY <4>1
      <4> QED
        BY <1>1, <3>1, <4>2 DEF Parts, DevOK, ControlGear
    <3>2. CASE ~single
      BY <3>2, LevelFacts
    <3> QED
      BY <3>1, <3>2
  <2>2. f.level = CASE kind = "off" -> 0
                    [] kind = "on" -> restored
                    [] kind = "level" -> level
    BY DEF CommandFrame
  <2> HIDE DEF f, restored
  <2> QED
    BY <2>1, <2>2, LevelFacts DEF CommandKind
<1> HIDE DEF f
<1>5. CmdOK'
  BY <1>2, <1>3, <1>4, ViaAssumption DEF CmdOK
<1>6. UsedOK'
  BY <1>1, UseFacts DEF CmdTake, Parts
<1>7. BusOK' /\ EventsOK' /\ SniffOK' /\ ScanOK' /\ PollOK'
  BY <1>1
  DEF CmdTake, busVars, pollVars, Parts, BusOK, EventsOK, SniffOK, ScanOK, PollOK
<1> QED
  BY <1>5, <1>6, <1>7, CacheKept, PartsInvNext DEF Parts, CmdTake

LEMMA CmdIdleFacts == CmdIdle \in
  [pc : {"idle", "send", "apply"}, on : BOOLEAN, level : KnownLevel,
   via : {"short", "group", "broadcast"}, to : SUBSET Gear, plan : SUBSET Gear]
BY LevelFacts DEF CmdIdle

LEMMA CmdSendInv ==
  ASSUME IInv, CmdSend
  PROVE  IInv'
<1>1. Parts
  BY PartsInv
<1>2. BusOK' /\ UsedOK'
  <2>1. PICK kind : \/ /\ OnBus([via |-> cmd.via, to |-> cmd.to, level |-> cmd.level,
                                 kind |-> kind])
                       /\ NoFault
                    \/ Fault /\ UNCHANGED busVars
    BY DEF CmdSend
  <2>2. cmd.to \subseteq Gear /\ UNCHANGED running
    BY <1>1 DEF CmdSend, Parts, CmdOK
  <2>3. BusOK'
    BY <1>1, <2>1, <2>2, OnBusFacts DEF Parts, busVars, BusOK
  <2> QED
    BY <1>1, <2>1, <2>3, FaultFacts DEF Parts
<1>3. CmdOK'
  <2> DEFINE told == CASE cmd.via = "short" -> cmd.plan \cap Addressed
                       [] cmd.via = "group" -> cmd.plan
                       [] cmd.via = "broadcast" -> {g \in mapped : dev[g].available}
  <2>1. cmd' = CmdIdle \/ cmd' = [cmd EXCEPT !.pc = "apply", !.plan = told]
    BY DEF CmdSend
  <2>2. told \subseteq Gear
    BY <1>1 DEF Parts, CmdOK, MapOK
  <2> HIDE DEF told
  <2> QED
    BY <1>1, <2>1, <2>2, CmdIdleFacts DEF Parts, CmdOK
<1>4. EventsOK' /\ SniffOK' /\ ScanOK' /\ PollOK'
  BY <1>1 DEF CmdSend, pollVars, Parts, EventsOK, SniffOK, ScanOK, PollOK
<1> QED
  BY <1>2, <1>3, <1>4, CacheKept, PartsInvNext DEF Parts, CmdSend

LEMMA CmdApplyInv ==
  ASSUME IInv, CmdApply
  PROVE  IInv'
<1>1. Parts /\ LastLevelKept /\ BrokerFollowsCache
  BY PartsInv
<1>2. PICK g \in cmd.plan :
        /\ UpdateDeviceState(g, cmd.level, None)
        /\ cmd' = IF cmd.plan = {g} THEN CmdIdle ELSE [cmd EXCEPT !.plan = @ \ {g}]
  BY DEF CmdApply
<1>3. UNCHANGED <<lamp, powered, masked, running, mapped, phantom, link, outbox, brokerStatus,
                  events, sniff, scan, pending, polling, poll, used>>
  BY DEF CmdApply, busVars, mapVars, linkVars, pollVars
<1>4. g \in Gear /\ cmd.level \in KnownLevel
  BY <1>1 DEF Parts, CmdOK
<1>5. CmdOK'
  BY <1>1, <1>2, CmdIdleFacts DEF Parts, CmdOK
<1>6. DevOK' /\ BrokerOK' /\ LastLevelKept' /\ BrokerFollowsCache'
  BY <1>1, <1>2, <1>3, <1>4, UpdateFacts DEF Parts
<1>7. /\ BusOK' /\ MapOK' /\ StatusOK' /\ EventsOK' /\ SniffOK' /\ ScanOK' /\ PollOK'
      /\ UsedOK'
  BY <1>1, <1>3
  DEF Parts, BusOK, MapOK, StatusOK, EventsOK, SniffOK, ScanOK, PollOK, UsedOK
<1> QED
  BY <1>5, <1>6, <1>7, PartsInvNext DEF Parts

LEMMA PollQueryInv ==
  ASSUME IInv, NEW g \in Gear, PollQuery(g)
  PROVE  IInv'
<1>1. Parts
  BY PartsInv
<1>2. PollOK'
  <2>1. pending' \in SUBSET Gear /\ polling' \in Gear \cup {NoGear}
    BY <1>1 DEF PollQuery, Polls!Serve, Polls!Sweep, Parts, PollOK
  <2>2. PICK reply \in KnownLevel \cup {None} :
          poll' = [PollIdle EXCEPT !.pc = "level", !.level = reply]
    BY <1>1, LevelFacts DEF PollQuery, Parts, BusOK
  <2> QED
    BY <2>1, <2>2 DEF PollOK, PollIdle
<1>3. UsedOK'
  BY <1>1, FaultFacts DEF PollQuery, Parts
<1>4. BusOK' /\ EventsOK' /\ SniffOK' /\ CmdOK' /\ ScanOK'
  BY <1>1 DEF PollQuery, busVars, Parts, BusOK, EventsOK, SniffOK, CmdOK, ScanOK
<1> QED
  BY <1>2, <1>3, <1>4, CacheKept, PartsInvNext DEF Parts, PollQuery

LEMMA PollDoneFacts ==
  ASSUME PollOK, PollDone
  PROVE  PollOK'
BY DEF PollDone, PollIdle, Polls!Done, PollOK

LEMMA PublishAvailabilityFacts ==
  ASSUME StatusOK, BrokerOK, NEW g \in Gear, NEW b \in BOOLEAN, PublishAvailability(g, b)
  PROVE  StatusOK' /\ UNCHANGED link
<1>1. StatusText(b) \in {"online", "offline"}
  BY DEF StatusText
<1>2. brokerStatus' \in [Gear -> Status]
  BY <1>1 DEF PublishAvailability, StatusOK, Status
<1>3. Append(outbox, [gear |-> g, text |-> StatusText(b)])
        \in Seq([gear : Gear, text : {"online", "offline"}])
  BY <1>1 DEF StatusOK
<1> QED
  BY <1>2, <1>3 DEF PublishAvailability, StatusOK

LEMMA PollAvailabilityInv ==
  ASSUME IInv, PollAvailability
  PROVE  IInv'
<1>1. Parts /\ LastLevelKept /\ BrokerFollowsCache
  BY PartsInv
<1> DEFINE g == polling
           responding == Responds(poll.level)
<1>2. UNCHANGED <<lamp, powered, masked, running, mapped, phantom, brokerState, lost, events,
                  sniff, cmd, scan, used>>
  BY DEF PollAvailability, busVars, mapVars
<1>3. BusOK' /\ MapOK' /\ EventsOK' /\ SniffOK' /\ CmdOK' /\ ScanOK' /\ UsedOK'
  BY <1>1, <1>2
  DEF Parts, BusOK, MapOK, EventsOK, SniffOK, CmdOK, ScanOK, UsedOK
<1>4. CASE g \notin mapped
  <2>1. PollDone /\ UNCHANGED <<dev, brokerStatus, link, outbox>>
    BY <1>4 DEF PollAvailability, linkVars
  <2>2. PollOK'
    BY <1>1, <2>1, PollDoneFacts DEF Parts
  <2> QED
    BY <1>2, <1>3, <2>1, <2>2, CacheKept, PartsInvNext
    DEF Parts, mapVars, linkVars, publishVars
<1>5. CASE g \in mapped
  <2>1. /\ dev' = [dev EXCEPT ![g].available = responding]
        /\ PublishAvailability(g, responding) \/ UNCHANGED <<brokerStatus, link, outbox>>
        /\ \/ /\ responding
              /\ poll' = [poll EXCEPT
                            !.pc = "status",
                            !.level = IF @ = Mask THEN dev[g].current ELSE @]
              /\ UNCHANGED <<pending, polling>>
           \/ PollDone
    BY <1>5 DEF PollAvailability, linkVars
  <2>2. responding \in BOOLEAN
    BY DEF Responds
  <2> HIDE DEF responding
  <2>3. g \in Gear /\ dev[g] \in ControlGear
    BY <1>1, <1>5 DEF Parts, DevOK, MapOK
  <2>4. StatusOK' /\ UNCHANGED link
    BY <1>1, <2>1, <2>2, <2>3, PublishAvailabilityFacts DEF Parts, StatusOK
  <2>5. PollOK'
    BY <1>1, <2>1, <2>3, PollDoneFacts DEF Parts, PollOK, ControlGear
  <2>6. /\ [dev[g] EXCEPT !.available = responding] \in ControlGear
        /\ [dev[g] EXCEPT !.available = responding].current = dev[g].current
        /\ [dev[g] EXCEPT !.available = responding].last = dev[g].last
        /\ [dev[g] EXCEPT !.available = responding].initial = dev[g].initial
    BY <2>2, <2>3 DEF ControlGear
  <2>7. \A h \in Gear : dev'[h] = IF h = g THEN [dev[g] EXCEPT !.available = responding]
                                           ELSE dev[h]
    BY <1>1, <2>1 DEF Parts, DevOK
  <2>8. /\ DevOK'
        /\ \A h \in Gear : /\ dev'[h].current = dev[h].current
                           /\ dev'[h].last = dev[h].last
                           /\ dev'[h].initial = dev[h].initial
    BY <1>1, <2>1, <2>6, <2>7 DEF Parts, DevOK
  <2>9. LastLevelKept'
    BY <1>1, <2>8 DEF LastLevelKept
  <2>10. BrokerFollowsCache'
    BY <1>1, <1>2, <2>8 DEF BrokerFollowsCache, Parts, MapOK
  <2>11. BrokerOK'
    BY <1>1, <1>2, <2>4 DEF Parts, BrokerOK
  <2> QED
    BY <1>3, <2>4, <2>5, <2>8, <2>9, <2>10, <2>11, PartsInvNext DEF Parts
<1> QED
  BY <1>4, <1>5

LEMMA PollStatusInv ==
  ASSUME IInv, PollStatus
  PROVE  IInv'
<1>1. Parts
  BY PartsInv
<1>2. PollOK'
  <2>1. CASE PollDone
    BY <1>1, <2>1, PollDoneFacts DEF Parts
  <2>2. CASE ~PollDone
    <3>1. /\ UNCHANGED <<pending, polling>>
          /\ \E status \in StatusByte \cup {None} :
               \/ poll' = [poll EXCEPT !.pc = "update", !.status = status]
               \/ poll' = [poll EXCEPT !.pc = "update"]
      BY <2>2 DEF PollStatus, LampOn, StatusByte
    <3> QED
      BY <1>1, <3>1 DEF Parts, PollOK
  <2> QED
    BY <2>1, <2>2
<1>3. UsedOK'
  BY <1>1, FaultFacts DEF PollStatus, Parts
<1>4. BusOK' /\ EventsOK' /\ SniffOK' /\ CmdOK' /\ ScanOK'
  BY <1>1 DEF PollStatus, busVars, Parts, BusOK, EventsOK, SniffOK, CmdOK, ScanOK
<1> QED
  BY <1>2, <1>3, <1>4, CacheKept, PartsInvNext DEF Parts, PollStatus

LEMMA PollUpdateInv ==
  ASSUME IInv, PollUpdate
  PROVE  IInv'
<1>1. Parts /\ LastLevelKept /\ BrokerFollowsCache
  BY PartsInv
<1>2. /\ UpdateDeviceState(polling, poll.level, poll.status)
      /\ PollDone
      /\ UNCHANGED <<lamp, powered, masked, running, mapped, phantom, link, outbox,
                     brokerStatus, events, sniff, cmd, scan, used>>
  BY DEF PollUpdate, busVars, mapVars, linkVars
<1>3. PollOK' /\ polling \in Gear /\ poll.level \in KnownLevel \cup {None}
      /\ poll.status \in StatusByte \cup {None}
  BY <1>1, <1>2, PollDoneFacts DEF Parts, PollOK, PollDone, Polls!Done
<1>4. DevOK' /\ BrokerOK' /\ LastLevelKept' /\ BrokerFollowsCache'
  BY <1>1, <1>2, <1>3, UpdateFacts DEF Parts
<1>5. /\ BusOK' /\ MapOK' /\ StatusOK' /\ EventsOK' /\ SniffOK' /\ CmdOK' /\ ScanOK'
      /\ UsedOK'
  BY <1>1, <1>2
  DEF Parts, BusOK, MapOK, StatusOK, EventsOK, SniffOK, CmdOK, ScanOK, UsedOK
<1> QED
  BY <1>3, <1>4, <1>5, PartsInvNext DEF Parts

\* A device as a scan or a boot leaves it, not published yet.
LEMMA FreshFacts ==
  ASSUME NEW found \in SUBSET Gear,
         dev' = [g \in Gear |-> NewGear(g \in found)]
  PROVE  DevOK' /\ \A g \in Gear : dev'[g].initial /\ Restorable(dev'[g])
<1>1. \A g \in Gear : dev'[g] = NewGear(g \in found) /\ (g \in found) \in BOOLEAN
  OBVIOUS
<1>2. \A g \in Gear : dev'[g] \in ControlGear /\ dev'[g].initial /\ Restorable(dev'[g])
  BY <1>1, NewGearFacts
<1> QED
  BY <1>2 DEF DevOK

LEMMA FreshInv ==
  ASSUME NEW found \in SUBSET Gear, MapOK',
         dev' = [g \in Gear |-> NewGear(g \in found)]
  PROVE  DevOK' /\ LastLevelKept' /\ BrokerFollowsCache'
<1>1. LastLevelKept'
  BY FreshFacts DEF LastLevelKept, Restorable
<1>2. BrokerFollowsCache'
  BY FreshFacts DEF BrokerFollowsCache, MapOK
<1> QED
  BY <1>1, <1>2, FreshFacts

LEMMA ScanInv ==
  ASSUME IInv, ScanBegin \/ \E g \in Gear : ScanHear(g)
  PROVE  IInv'
<1>1. Parts
  BY PartsInv
<1>2. ScanOK'
  <2>1. CASE ScanBegin
    BY <2>1 DEF ScanBegin, ScanOK
  <2>2. ASSUME NEW g \in Gear, ScanHear(g) PROVE ScanOK'
    <3>1. scan' = [scan EXCEPT !.heard = @ \cup {g}]
      BY <2>2 DEF ScanHear
    <3> QED
      BY <1>1, <3>1 DEF Parts, ScanOK
  <2> QED
    BY <2>1, <2>2
<1>3. UsedOK'
  BY <1>1, UseFacts DEF ScanBegin, ScanHear, Parts, UsedOK
<1>4. BusOK' /\ EventsOK' /\ SniffOK' /\ CmdOK' /\ PollOK'
  BY <1>1
  DEF ScanBegin, ScanHear, busVars, pollVars, Parts, BusOK, EventsOK, SniffOK, CmdOK,
      PollOK
<1>5. UNCHANGED <<mapVars, linkVars, publishVars, brokerStatus>>
  BY DEF ScanBegin, ScanHear
<1> QED
  BY <1>2, <1>3, <1>4, <1>5, CacheKept, PartsInvNext DEF Parts

LEMMA ScanSwapInv ==
  ASSUME IInv, ScanSwap
  PROVE  IInv'
<1>1. Parts
  BY PartsInv
<1>2. /\ mapped' = scan.heard /\ phantom' = {}
      /\ dev' = [g \in Gear |-> NewGear(g \in scan.heard)]
      /\ scan' = ScanIdle
  BY DEF ScanSwap, Discovered
<1>3. scan.heard \in SUBSET Gear
  BY <1>1 DEF Parts, ScanOK
<1>4. MapOK' /\ ScanOK'
  BY <1>2, <1>3 DEF MapOK, ScanOK, ScanIdle
<1>5. DevOK' /\ LastLevelKept' /\ BrokerFollowsCache'
  BY <1>2, <1>3, <1>4, FreshInv
<1>6. /\ BusOK' /\ BrokerOK' /\ StatusOK' /\ EventsOK' /\ SniffOK' /\ CmdOK' /\ PollOK'
      /\ UsedOK'
  BY <1>1
  DEF ScanSwap, busVars, linkVars, pollVars, Parts, BusOK, BrokerOK, StatusOK,
      EventsOK, SniffOK, CmdOK, PollOK, UsedOK
<1> QED
  BY <1>4, <1>5, <1>6, PartsInvNext DEF Parts

LEMMA BootInv ==
  ASSUME IInv, NEW answered \in SUBSET Gear, Boot(answered)
  PROVE  IInv'
<1>1. Parts
  BY PartsInv
<1>2. MapOK' /\ \E found \in SUBSET Gear : dev' = [g \in Gear |-> NewGear(g \in found)]
  <2>1. CASE mapped = {}
    BY <2>1 DEF Boot, Discovered, MapOK
  <2>2. CASE mapped # {}
    <3>1. /\ dev' = [g \in Gear |-> NewGear(g \in answered \cap mapped)]
          /\ UNCHANGED <<mapped, phantom>>
      BY <2>2 DEF Boot, mapVars
    <3> QED
      BY <1>1, <3>1 DEF Parts, MapOK
  <2> QED
    BY <2>1, <2>2
<1>3. DevOK' /\ LastLevelKept' /\ BrokerFollowsCache'
  BY <1>2, FreshInv
<1>4. PollOK'
  BY <1>1, <1>2 DEF Boot, Parts, PollOK, MapOK
<1>5. UsedOK'
  BY <1>1, FaultFacts DEF Boot, Parts
<1>6. BusOK'
  BY <1>1 DEF Boot, busVars, Parts, BusOK
<1>7. BrokerOK' /\ StatusOK' /\ EventsOK' /\ SniffOK' /\ CmdOK' /\ ScanOK'
  BY <1>1
  DEF Boot, linkVars, Parts, BrokerOK, StatusOK, EventsOK, SniffOK, CmdOK, ScanOK
<1> QED
  BY <1>2, <1>3, <1>4, <1>5, <1>6, <1>7, PartsInvNext DEF Parts

LEMMA EmptyOutbox == <<>> \in Seq([gear : Gear, text : {"online", "offline"}])
OBVIOUS

LEMMA LinkInv ==
  ASSUME IInv, Connecting \/ MqttLost
  PROVE  IInv'
<1>1. Parts /\ LastLevelKept /\ BrokerFollowsCache
  BY PartsInv
<1>2. /\ link' \in {"none", "down", "up"}
      /\ outbox' = outbox \/ outbox' = <<>>
      /\ brokerStatus' = brokerStatus \/ brokerStatus' \in [Gear -> Status]
      /\ UNCHANGED <<lamp, powered, masked, running, mapped, phantom, dev, brokerState, lost,
                     events, sniff, cmd, scan, pending, polling, poll>>
      /\ Fault \/ NoFault
  BY DEF Connecting, NetworkUp, MqttConnected, MqttLost, busVars, mapVars, publishVars,
     pollVars, NoFault
<1>3. UsedOK'
  BY <1>1, <1>2, FaultFacts DEF Parts
<1>4. BrokerOK' /\ StatusOK'
  BY <1>1, <1>2, EmptyOutbox DEF Parts, BrokerOK, StatusOK
<1>5. /\ BusOK' /\ MapOK' /\ DevOK' /\ EventsOK' /\ SniffOK' /\ CmdOK' /\ ScanOK'
      /\ PollOK'
  BY <1>1, <1>2
  DEF Parts, BusOK, MapOK, DevOK, EventsOK, SniffOK, CmdOK, ScanOK, PollOK
<1>6. LastLevelKept' /\ BrokerFollowsCache'
  BY <1>1, <1>2 DEF LastLevelKept, BrokerFollowsCache
<1> QED
  BY <1>3, <1>4, <1>5, <1>6, PartsInvNext DEF Parts

LEMMA RebootInv ==
  ASSUME IInv, Reboot
  PROVE  IInv'
<1>1. Parts
  BY PartsInv
<1>2. MapOK'
  BY <1>1 DEF Reboot, Addressed, Parts, MapOK
<1>3. DevOK' /\ \A g \in Gear : dev'[g].initial /\ Restorable(dev'[g])
  BY NewGearFacts DEF Reboot, DevOK
<1>4. LastLevelKept' /\ BrokerFollowsCache'
  BY <1>2, <1>3 DEF LastLevelKept, Restorable, BrokerFollowsCache, MapOK
<1>5. EventsOK' /\ SniffOK' /\ CmdOK' /\ ScanOK' /\ PollOK'
  BY BoundAssumption, CmdIdleFacts
  DEF Reboot, EventsOK, SniffOK, CmdOK, ScanOK, PollOK, SniffIdle, ScanIdle, PollIdle
<1>6. UsedOK'
  BY <1>1, FaultFacts DEF Reboot, Parts
<1>7. BusOK' /\ BrokerOK' /\ StatusOK'
  BY <1>1, EmptyOutbox DEF Reboot, busVars, Parts, BusOK, BrokerOK, StatusOK
<1> QED
  BY <1>2, <1>3, <1>4, <1>5, <1>6, <1>7, PartsInvNext DEF Parts

LEMMA PowerInv ==
  ASSUME IInv, NEW g \in Gear, PowerCut(g) \/ PowerReturn(g)
  PROVE  IInv'
<1>1. Parts
  BY PartsInv
<1>2. BusOK'
  BY <1>1, LevelFacts DEF PowerCut, PowerReturn, Parts, BusOK
<1>3. UsedOK'
  BY <1>1, FaultFacts DEF PowerCut, PowerReturn, Parts, NoFault
<1>4. EventsOK' /\ SniffOK' /\ CmdOK' /\ ScanOK' /\ PollOK'
  BY <1>1
  DEF PowerCut, PowerReturn, pollVars, Parts, EventsOK, SniffOK, CmdOK, ScanOK, PollOK
<1>5. UNCHANGED <<mapVars, linkVars, publishVars, brokerStatus>>
  BY DEF PowerCut, PowerReturn
<1> QED
  BY <1>2, <1>3, <1>4, <1>5, CacheKept, PartsInvNext DEF Parts

LEMMA StepInv == IInv /\ [Next]_vars => IInv'
<1> SUFFICES ASSUME IInv, [Next]_vars PROVE IInv'
  OBVIOUS
<1>1. CASE UNCHANGED vars
  <2>1. UNCHANGED <<lamp, powered, masked, running, mapped, phantom, dev, link, brokerState,
                    brokerStatus, outbox, lost, events, sniff, cmd, scan, pending,
                    polling, poll, used>>
    BY <1>1 DEF vars, busVars, mapVars, linkVars, publishVars, pollVars
  <2> QED
    BY <2>1 DEF IInv, TypeOK, LastLevelKept, BrokerFollowsCache
<1>2. CASE EventHandler
  BY <1>2, SniffTakeInv, SniffApplyInv, SniffAskInv DEF EventHandler
<1>3. CASE CommandTask
  BY <1>3, CmdSendInv, CmdApplyInv DEF CommandTask
<1>4. CASE PollSteps
  BY <1>4, PollAvailabilityInv, PollStatusInv, PollUpdateInv DEF PollSteps
<1>5. CASE \E f \in Frame : ForeignFrame(f)
  BY <1>5, ForeignInv
<1>6. CASE \E kind \in CommandKind, via \in Via, to \in SUBSET Gear, level \in Level :
             CmdTake(kind, via, to, level)
  BY <1>6, CmdTakeInv
<1> QED
  BY <1>1, <1>2, <1>3, <1>4, <1>5, <1>6, PollQueryInv, ScanInv, ScanSwapInv, BootInv,
     LinkInv, RebootInv, PowerInv
  DEF Next

(***************************************************************************)
(* Where MASK can be: a level to restore that is MASK was heard of in a    *)
(* frame, on its way from the receiver through the event handler, the      *)
(* cache, a command or a poll.  So "ON" sends a level that lights, unless  *)
(* MASK.                                                                   *)
(***************************************************************************)

DevMask == \A g \in Gear : dev[g].last = Mask => g \in masked
FrameMask(f, heard) ==
  f.level = Mask => f.to \subseteq heard /\ (f.via = "broadcast" => f.to = Gear)
EventsMask == \A i \in DOMAIN events : FrameMask(events[i], masked)
SniffMask == \A update \in sniff.plan : update.level = Mask => update.gear \in masked
CmdMask ==
  /\ cmd.level = Mask => cmd.via = "short" /\ cmd.to \cup cmd.plan \subseteq masked
  /\ cmd.pc = "send" /\ cmd.on => cmd.level > 0
PollMask == poll.pc \in {"status", "update"} /\ poll.level = Mask => polling \in masked
Masks == DevMask /\ EventsMask /\ SniffMask /\ CmdMask /\ PollMask

LEMMA MaskInit == Init => Masks
<1> SUFFICES ASSUME Init PROVE Masks
  OBVIOUS
<1>1. events = <<>> /\ sniff = SniffIdle /\ cmd = CmdIdle /\ poll = PollIdle
      /\ \A g \in Gear : dev[g] = NewGear(FALSE)
  BY DEF Init
<1> QED
  BY <1>1 DEF Masks, DevMask, EventsMask, SniffMask, CmdMask, PollMask, SniffIdle, CmdIdle,
     PollIdle, NewGear, MaxLevel, Mask

LEMMA UpdateMask ==
  ASSUME DevOK, DevMask, NEW g \in Gear, NEW level \in KnownLevel \cup {None},
         NEW status, UpdateDeviceState(g, level, status), level = Mask => g \in masked,
         UNCHANGED masked
  PROVE  DevMask'
<1>1. CASE g \notin mapped
  BY <1>1 DEF UpdateDeviceState, publishVars, DevMask
<1>2. CASE g \in mapped
  <2> DEFINE new == [dev[g] EXCEPT
                       !.current = NewLevel(@, level),
                       !.last = NewLast(@, level),
                       !.status = IF status = None THEN @ ELSE status,
                       !.initial = FALSE]
  <2>1. dev' = [dev EXCEPT ![g] = new]
    BY <1>2 DEF UpdateDeviceState
  <2>2. new.last = NewLast(dev[g].last, level)
    BY DEF DevOK, ControlGear
  <2> HIDE DEF new
  <2>3. \A h \in Gear : dev'[h] = IF h = g THEN new ELSE dev[h]
    BY <2>1 DEF DevOK
  <2> QED
    BY <2>2, <2>3 DEF DevMask, NewLast
<1> QED
  BY <1>1, <1>2

\* The steps that leave alone what MASK passes through.
LEMMA MasksKept ==
  ASSUME Masks, masked \subseteq masked', masked' \subseteq Gear,
         UNCHANGED <<dev, events, sniff, cmd, poll, polling>>
  PROVE  Masks'
BY DEF Masks, DevMask, EventsMask, FrameMask, SniffMask, CmdMask, PollMask

LEMMA ForeignMasks ==
  ASSUME IInv, IInv', Masks, NEW f \in Frame, ForeignFrame(f)
  PROVE  Masks'
<1>1. /\ masked' = IF f.kind = "level" /\ f.level = Mask THEN masked \cup f.to ELSE masked
      /\ f.level = Mask => f.kind = "level"
      /\ f.via = "broadcast" => f.to = Gear
      /\ events' = events \/ events' = Append(events, f)
      /\ UNCHANGED <<dev, sniff, cmd, poll, polling>>
  <2>1. f.level = Mask => f.kind = "level"
    BY DEF ForeignFrame, Sendable, Frame, Kind, Mask, MinLevel, MaxLevel
  <2>2. f.via = "broadcast" => f.to = Gear
    BY DEF ForeignFrame, Sendable
  <2> QED
    BY <2>1, <2>2 DEF ForeignFrame, OnBus, Queue, publishVars, pollVars
<1>2. masked \subseteq masked' /\ FrameMask(f, masked')
  BY <1>1 DEF FrameMask
<1>3. \A i \in DOMAIN events : FrameMask(events[i], masked')
  BY <1>2 DEF Masks, EventsMask, FrameMask
<1>4. EventsMask'
  <2>1. CASE events' = events
    BY <1>3, <2>1 DEF EventsMask
  <2>2. CASE events' = Append(events, f)
    <3> SUFFICES ASSUME NEW i \in DOMAIN events' PROVE FrameMask(events'[i], masked')
      BY DEF EventsMask
    <3>1. events \in Seq(Frame)
      BY DEF IInv, TypeOK
    <3>2. i \in DOMAIN events \/ i = Len(events) + 1
      BY <2>2, <3>1
    <3>3. CASE i \in DOMAIN events
      <4>1. events'[i] = events[i]
        BY <2>2, <3>1, <3>3
      <4> QED
        BY <1>3, <3>3, <4>1
    <3>4. CASE i = Len(events) + 1
      <4>1. events'[i] = f
        BY <2>2, <3>1, <3>4
      <4> QED
        BY <1>2, <4>1
    <3> QED
      BY <3>2, <3>3, <3>4
  <2> QED
    BY <1>1, <2>1, <2>2
<1>5. DevMask' /\ SniffMask' /\ CmdMask' /\ PollMask'
  BY <1>1, <1>2 DEF Masks, DevMask, SniffMask, CmdMask, PollMask
<1> QED
  BY <1>4, <1>5 DEF Masks

LEMMA SniffTakeMasks ==
  ASSUME IInv, IInv', Masks, SniffTake
  PROVE  Masks'
<1> DEFINE f == Head(events)
           affected == Affected(f)
           dark == {g \in affected \cap mapped : dev[g].current = 0}
<1>1. /\ events # <<>> /\ events' = Tail(events)
      /\ sniff'.plan \in {{[gear |-> g, level |-> f.level] : g \in affected},
                          {[gear |-> g, level |-> dev[g].last] : g \in dark}, {}}
      /\ \A g \in Gear : dev'[g] \in {dev[g], NewGear(FALSE)}
      /\ UNCHANGED <<masked, cmd, poll, polling>>
  <2>1. f \in Frame
    BY DEF SniffTake, IInv, TypeOK
  <2>2. f.kind \in Kind
    BY <2>1 DEF Frame
  <2> HIDE DEF f
  <2>3. sniff' =
          CASE f.kind \in {"level", "recall"} ->
                 [plan |-> {[gear |-> g, level |-> f.level] : g \in affected},
                  ask |-> {}]
            [] f.kind = "onstep" ->
                 [plan |-> {[gear |-> g, level |-> dev[g].last] : g \in dark},
                  ask |-> IF affected \cap mapped = dark THEN {} ELSE affected]
            [] f.kind = "move" -> [plan |-> {}, ask |-> affected]
    BY DEF SniffTake, f
  <2>4. sniff'.plan \in {{[gear |-> g, level |-> f.level] : g \in affected},
                         {[gear |-> g, level |-> dev[g].last] : g \in dark}, {}}
    <3> HIDE DEF affected, dark
    <3> QED
      BY <2>2, <2>3 DEF Kind
  <2> QED
    BY <2>4 DEF SniffTake, f, busVars, pollVars
<1>2. events \in Seq(Frame) /\ mapped \subseteq Gear /\ phantom \subseteq mapped
  BY DEF IInv, TypeOK
<1>3. f \in Frame /\ FrameMask(f, masked)
  BY <1>1, <1>2 DEF Masks, EventsMask
<1>4. EventsMask'
  <2> SUFFICES ASSUME NEW i \in DOMAIN events' PROVE FrameMask(events'[i], masked)
    BY <1>1 DEF EventsMask
  <2>1. i + 1 \in DOMAIN events /\ events'[i] = events[i + 1]
    BY <1>1, <1>2
  <2> QED
    BY <2>1 DEF Masks, EventsMask
<1>5. DevMask'
  BY <1>1 DEF Masks, DevMask, NewGear, MaxLevel, Mask
<1>6. f.level = Mask => affected \subseteq masked
  <2> HIDE DEF f
  <2> QED
    BY <1>2, <1>3, ViaAssumption DEF FrameMask, Affected, Frame
<1>7. SniffMask'
  <2> SUFFICES ASSUME NEW update \in sniff'.plan, update.level = Mask
               PROVE  update.gear \in masked
    BY <1>1 DEF SniffMask
  <2>1. CASE \E g \in affected : update = [gear |-> g, level |-> f.level]
    <3> HIDE DEF f, affected
    <3> QED
      BY <1>6, <2>1
  <2>2. CASE \E g \in dark : update = [gear |-> g, level |-> dev[g].last]
    BY <1>2, <2>2 DEF Masks, DevMask
  <2> QED
    BY <1>1, <2>1, <2>2
<1>8. CmdMask' /\ PollMask'
  BY <1>1 DEF Masks, CmdMask, PollMask
<1> QED
  BY <1>4, <1>5, <1>7, <1>8 DEF Masks

LEMMA SniffMasks ==
  ASSUME IInv, Masks, SniffApply \/ SniffAsk
  PROVE  Masks'
<1>1. UNCHANGED <<masked, events, cmd, poll, polling>> /\ sniff'.plan \subseteq sniff.plan
  BY DEF IInv, TypeOK, SniffApply, SniffAsk, SniffIdle, busVars, pollVars
<1>2. DevMask'
  <2>1. CASE SniffApply
    <3>1. PICK update \in sniff.plan : UpdateDeviceState(update.gear, update.level, None)
      BY <2>1 DEF SniffApply
    <3>2. update.gear \in Gear /\ update.level \in KnownLevel
      BY DEF IInv, TypeOK
    <3> QED
      BY <1>1, <3>1, <3>2, PartsInv, UpdateMask DEF Parts, Masks, SniffMask
  <2>2. CASE SniffAsk
    BY <1>1, <2>2 DEF SniffAsk, publishVars, Masks, DevMask
  <2> QED
    BY <2>1, <2>2
<1> QED
  BY <1>1, <1>2 DEF Masks, EventsMask, FrameMask, SniffMask, CmdMask, PollMask

LEMMA CmdTakeMasks ==
  ASSUME IInv, Masks, NEW kind \in CommandKind, NEW via \in Via,
         NEW to \in SUBSET Gear, NEW level \in Level, CmdTake(kind, via, to, level)
  PROVE  Masks'
<1> DEFINE f == CommandFrame(kind, via, to, level)
           g == CHOOSE h \in to : TRUE
           single == via = "short" /\ to \cap phantom = {}
           restored == IF single THEN dev[g].last ELSE MaxLevel
<1>1. /\ UNCHANGED <<masked, dev, events, sniff, poll, polling>>
      /\ cmd' = [pc |-> "send", on |-> kind = "on", level |-> f.level, via |-> via,
                 to |-> f.to, plan |-> IF f.to = to THEN to ELSE {}]
  BY DEF CmdTake, busVars, publishVars, pollVars
<1>2. single => g \in Gear /\ to = {g}
  BY DEF CmdTake
<1>3. f.level = CASE kind = "off" -> 0
                  [] kind = "on" -> restored
                  [] kind = "level" -> level
  BY DEF CommandFrame
<1>4. single => f.to = to
  BY DEF CommandFrame
<1> HIDE DEF f, g, restored
<1>5. restored > 0 /\ (restored = Mask => single /\ g \in masked)
  <2>1. single => dev[g].last > 0 /\ (dev[g].last = Mask => g \in masked)
    BY <1>2 DEF IInv, LastLevelKept, Masks, DevMask
  <2>2. MaxLevel > 0 /\ MaxLevel # Mask
    BY DEF MaxLevel, Mask
  <2> QED
    BY <2>1, <2>2 DEF restored
<1>6. level # Mask /\ 0 # Mask
  BY LevelAssumption DEF Mask
<1>7. CmdMask'
  <2>1. kind = "on" => f.level > 0
    BY <1>3, <1>5
  <2>2. f.level = Mask => kind = "on"
    BY <1>3, <1>6 DEF CommandKind
  <2>3. f.level = Mask => restored = Mask
    BY <1>3, <2>2
  <2>4. f.level = Mask => via = "short" /\ f.to = to /\ to \subseteq masked
    BY <1>2, <1>4, <1>5, <2>3
  <2>5. /\ cmd'.level = f.level /\ cmd'.via = via /\ cmd'.to = f.to
        /\ cmd'.plan \subseteq to /\ cmd'.on = (kind = "on")
    BY <1>1
  <2> QED
    BY <1>1, <2>1, <2>4, <2>5 DEF CmdMask
<1> QED
  BY <1>1, <1>7 DEF Masks, DevMask, EventsMask, FrameMask, SniffMask, PollMask

LEMMA CmdIdleMask == CmdIdle.level = 0 /\ CmdIdle.pc = "idle"
BY DEF CmdIdle

LEMMA CmdSendMasks ==
  ASSUME IInv, IInv', Masks, CmdSend
  PROVE  Masks'
<1> DEFINE told == CASE cmd.via = "short" -> cmd.plan \cap Addressed
                     [] cmd.via = "group" -> cmd.plan
                     [] cmd.via = "broadcast" -> {g \in mapped : dev[g].available}
<1>1. /\ UNCHANGED <<dev, events, sniff, poll, polling>>
      /\ cmd' = CmdIdle \/ cmd' = [cmd EXCEPT !.pc = "apply", !.plan = told]
  BY DEF CmdSend, publishVars, pollVars
<1>2. masked \subseteq masked'
  <2>1. PICK f : OnBus(f) \/ UNCHANGED busVars
    BY DEF CmdSend
  <2> QED
    BY <2>1 DEF OnBus, busVars
<1>3. cmd.level = Mask => told \subseteq masked
  BY DEF Masks, CmdMask
<1> HIDE DEF told
<1>4. CmdMask'
  <2>1. CASE cmd' = CmdIdle
    BY <2>1, CmdIdleMask DEF CmdMask, Mask
  <2>2. CASE cmd' = [cmd EXCEPT !.pc = "apply", !.plan = told]
    <3>1. /\ cmd'.level = cmd.level /\ cmd'.via = cmd.via /\ cmd'.to = cmd.to
          /\ cmd'.plan = told /\ cmd'.pc = "apply"
      BY <2>2 DEF IInv, TypeOK
    <3> QED
      BY <1>2, <1>3, <3>1 DEF Masks, CmdMask
  <2> QED
    BY <1>1, <2>1, <2>2
<1> QED
  BY <1>1, <1>2, <1>4
  DEF Masks, DevMask, EventsMask, FrameMask, SniffMask, PollMask

LEMMA CmdApplyMasks ==
  ASSUME IInv, Masks, CmdApply
  PROVE  Masks'
<1>1. PICK g \in cmd.plan :
        /\ UpdateDeviceState(g, cmd.level, None)
        /\ cmd' = IF cmd.plan = {g} THEN CmdIdle ELSE [cmd EXCEPT !.plan = @ \ {g}]
  BY DEF CmdApply
<1>2. UNCHANGED <<masked, events, sniff, poll, polling>> /\ cmd.pc = "apply"
  BY DEF CmdApply, busVars, pollVars
<1>3. g \in Gear /\ cmd.level \in KnownLevel
  BY DEF IInv, TypeOK
<1>4. DevMask'
  BY <1>1, <1>2, <1>3, PartsInv, UpdateMask DEF Parts, Masks, CmdMask
<1>5. CmdMask'
  <2>1. CASE cmd' = CmdIdle
    BY <2>1, CmdIdleMask DEF CmdMask, Mask
  <2>2. CASE cmd' = [cmd EXCEPT !.plan = @ \ {g}]
    <3>1. /\ cmd'.level = cmd.level /\ cmd'.via = cmd.via /\ cmd'.to = cmd.to
          /\ cmd'.plan \subseteq cmd.plan /\ cmd'.pc = "apply"
      BY <1>2, <2>2 DEF IInv, TypeOK
    <3> QED
      BY <1>2, <3>1 DEF Masks, CmdMask
  <2> QED
    BY <1>1, <2>1, <2>2
<1> QED
  BY <1>2, <1>4, <1>5 DEF Masks, EventsMask, FrameMask, SniffMask, PollMask

LEMMA PollMasks ==
  ASSUME IInv, Masks, PollSteps \/ \E g \in Gear : PollQuery(g)
  PROVE  Masks'
<1>1. UNCHANGED <<masked, events, sniff, cmd>>
  BY DEF PollSteps, PollAvailability, PollStatus, PollUpdate, PollQuery, busVars
<1>2. poll \in [pc : {"idle", "level", "status", "update"},
               level : KnownLevel \cup {None}, status : StatusByte \cup {None}]
  BY DEF IInv, TypeOK
<1>3. DevMask'
  <2>1. CASE PollUpdate
    <3>1. polling \in Gear
      BY <2>1 DEF PollUpdate, PollDone, Polls!Done, IInv, TypeOK
    <3> QED
      BY <1>1, <1>2, <2>1, <3>1, PartsInv, UpdateMask
      DEF PollUpdate, Parts, Masks, PollMask
  <2>2. CASE ~PollUpdate
    <3>1. dev' = dev \/ \E b : dev' = [dev EXCEPT ![polling].available = b]
      BY <2>2 DEF PollSteps, PollAvailability, PollStatus, PollQuery, publishVars
    <3>2. \A g \in Gear : dev'[g].last = dev[g].last
      BY <3>1 DEF IInv, TypeOK, ControlGear
    <3> QED
      BY <1>1, <3>2 DEF Masks, DevMask
  <2> QED
    BY <2>1, <2>2
<1>4. PollMask'
  <2>1. CASE PollDone \/ \E g \in Gear : PollQuery(g)
    <3>1. poll'.pc \in {"idle", "level"}
      <4>1. CASE PollDone
        BY <4>1 DEF PollDone, PollIdle
      <4>2. ASSUME NEW g \in Gear, PollQuery(g) PROVE poll'.pc = "level"
        <5>1. \E reply : poll' = [PollIdle EXCEPT !.pc = "level", !.level = reply]
          BY <4>2 DEF PollQuery
        <5> QED
          BY <5>1 DEF PollIdle
      <4> QED
        BY <2>1, <4>1, <4>2
    <3> QED
      BY <3>1 DEF PollMask
  <2>2. CASE PollAvailability /\ ~PollDone
    <3>1. /\ poll' = [poll EXCEPT !.pc = "status",
                                  !.level = IF @ = Mask THEN dev[polling].current ELSE @]
          /\ UNCHANGED polling /\ polling \in mapped /\ mapped \subseteq Gear
      BY <2>2 DEF PollAvailability, IInv, TypeOK
    <3>2. poll'.level = IF poll.level = Mask THEN dev[polling].current ELSE poll.level
      BY <1>2, <3>1
    <3>3. dev[polling].current = Mask => dev[polling].last = Mask
      BY <3>1 DEF IInv, LastLevelKept, Mask
    <3> QED
      BY <1>1, <3>1, <3>2, <3>3 DEF Masks, DevMask, PollMask
  <2>3. CASE PollStatus /\ ~PollDone
    <3>1. poll'.level = poll.level /\ poll.pc = "status" /\ UNCHANGED polling
      BY <1>2, <2>3 DEF PollStatus
    <3> QED
      BY <1>1, <3>1 DEF Masks, PollMask
  <2> QED
    BY <2>1, <2>2, <2>3 DEF PollSteps, PollUpdate
<1> QED
  BY <1>1, <1>3, <1>4 DEF Masks, EventsMask, FrameMask, SniffMask, CmdMask

\* Devices that a scan or a boot enters, and a bridge that starts again.
LEMMA FreshMasks ==
  ASSUME Masks, ScanSwap \/ Reboot \/ \E answered \in SUBSET Gear : Boot(answered)
  PROVE  Masks'
<1>1. \A g \in Gear : dev'[g].last = MaxLevel
  BY DEF ScanSwap, Boot, Reboot, Discovered, NewGear
<1>2. DevMask'
  BY <1>1 DEF DevMask, MaxLevel, Mask
<1>3. CASE Reboot
  <2>1. events' = <<>> /\ sniff' = SniffIdle /\ cmd' = CmdIdle /\ poll' = PollIdle
    BY <1>3 DEF Reboot
  <2> QED
    BY <1>2, <2>1 DEF Masks, EventsMask, SniffMask, CmdMask, PollMask, SniffIdle,
       CmdIdle, PollIdle, Mask
<1>4. CASE ~Reboot
  <2>1. UNCHANGED <<masked, events, sniff, cmd, poll, polling>>
    BY <1>4 DEF ScanSwap, Boot, busVars, pollVars
  <2> QED
    BY <1>2, <2>1 DEF Masks, EventsMask, FrameMask, SniffMask, CmdMask, PollMask
<1> QED
  BY <1>3, <1>4

LEMMA MaskStep == IInv /\ IInv' /\ Masks /\ [Next]_vars => Masks'
<1> SUFFICES ASSUME IInv, IInv', Masks, [Next]_vars PROVE Masks'
  OBVIOUS
<1>1. masked \subseteq Gear /\ masked' \subseteq Gear
  BY DEF IInv, TypeOK
<1>2. CASE UNCHANGED vars
  BY <1>1, <1>2, MasksKept DEF vars, busVars, publishVars, pollVars
<1>3. CASE EventHandler
  BY <1>3, SniffTakeMasks, SniffMasks DEF EventHandler
<1>4. CASE CommandTask
  BY <1>4, CmdSendMasks, CmdApplyMasks DEF CommandTask
<1>5. CASE ScanBegin \/ \E g \in Gear : ScanHear(g)
  BY <1>1, <1>5, MasksKept DEF ScanBegin, ScanHear, busVars, publishVars, pollVars
<1>6. CASE Connecting \/ MqttLost
  BY <1>1, <1>6, MasksKept
  DEF Connecting, NetworkUp, MqttConnected, MqttLost, busVars, publishVars, pollVars
<1>7. CASE \E g \in Gear : PowerCut(g) \/ PowerReturn(g)
  BY <1>1, <1>7, MasksKept DEF PowerCut, PowerReturn, publishVars, pollVars
<1>8. CASE \E f \in Frame : ForeignFrame(f)
  BY <1>8, ForeignMasks
<1>9. CASE \E kind \in CommandKind, via \in Via, to \in SUBSET Gear, level \in Level :
             CmdTake(kind, via, to, level)
  BY <1>9, CmdTakeMasks
<1> QED
  BY <1>2, <1>3, <1>4, <1>5, <1>6, <1>7, <1>8, <1>9, PollMasks, FreshMasks DEF Next

\* The frame of an "ON" command carries a level that lights, or MASK for lamps
\* that were sent MASK.
Lit ==
  cmd.pc = "send" /\ cmd.on /\ cmd'.pc # "send" /\ used' = used =>
    \A g \in cmd.to \ masked : powered[g] => lamp'[g] > 0

LEMMA OnStep == IInv /\ Masks /\ [Next]_vars => Lit
<1> SUFFICES ASSUME IInv, Masks, [Next]_vars,
                    cmd.pc = "send", cmd.on, cmd'.pc # "send", used' = used,
                    NEW g \in cmd.to, g \notin masked, powered[g]
             PROVE  lamp'[g] > 0
  BY DEF Lit
<1>1. cmd' # cmd /\ g \in Gear /\ cmd.level > 0 /\ cmd.level # Mask
  BY DEF IInv, TypeOK, Masks, CmdMask
<1>2. ~Fault
  BY DEF Fault, Use, IInv, TypeOK
<1>3. CmdSend
  BY <1>1, <1>2
  DEF Next, vars, EventHandler, CommandTask, PollSteps, Connecting, ForeignFrame,
      SniffTake, SniffApply, SniffAsk, CmdTake, CmdApply, PollQuery, PollAvailability,
      PollStatus, PollUpdate, ScanBegin, ScanHear, ScanSwap, Boot, NetworkUp,
      MqttConnected, MqttLost, Reboot, PowerCut, PowerReturn
<1>4. PICK kind \in {"recall", "level"} :
        OnBus([via |-> cmd.via, to |-> cmd.to, level |-> cmd.level, kind |-> kind])
  BY <1>2, <1>3 DEF CmdSend
<1>5. lamp'[g] = cmd.level
  BY <1>1, <1>4 DEF OnBus, LevelsAfter
<1> QED
  BY <1>1, <1>5

\* The types are right in every reachable state.
THEOREM TypeCorrect == SafeSpec => []TypeOK
<1>1. IInv => TypeOK
  BY DEF IInv
<1> QED
  BY InitInv, StepInv, <1>1, PTL DEF SafeSpec

\* However polls, sniffed frames, commands, scans and reboots mix, an "ON" whose
\* frame goes out lights every lamp it addresses, unless the lamp was sent MASK.
THEOREM OnAlwaysLights == SafeSpec => OnLights
<1>1. Init => IInv /\ Masks
  BY InitInv, MaskInit
<1>2. (IInv /\ Masks) /\ [Next]_vars => (IInv /\ Masks)'
  BY StepInv, MaskStep
<1>3. (IInv /\ Masks) /\ [Next]_vars => [Lit]_vars
  BY OnStep
<1>4. SafeSpec => [][Lit]_vars
  BY <1>1, <1>2, <1>3, PTL DEF SafeSpec
<1> QED
  BY <1>4 DEF OnLights, Lit

\* The broker retains what the cache says of a light, but for publications
\* that were dropped.
THEOREM BrokerInStep == SafeSpec => []BrokerFollowsCache
<1>1. IInv => BrokerFollowsCache
  BY DEF IInv
<1> QED
  BY InitInv, StepInv, <1>1, PTL DEF SafeSpec

=============================================================================
