---------------------------- MODULE PollScheduler ----------------------------
(***************************************************************************)
(* The poll scheduler of DaliDeviceController: requestDeviceSync and       *)
(* requestBroadcastSync, called from any task, and the loop of             *)
(* daliSyncTask that serves them.                                          *)
(*                                                                         *)
(* The code keeps absolute millisecond timestamps.  A deferred request     *)
(* here holds the ticks it still has to wait: `left = 0` is                *)
(* `now >= execute_at_ts`.  The loop reads `now` once, before it walks the *)
(* deferred requests, so no tick falls inside the walk.                    *)
(***************************************************************************)
EXTENDS Naturals, Sequences, SequencesExt, FiniteSets

CONSTANTS
  NumAddr,       \* short addresses on the bus (64 in the code)
  Unassigned,    \* a short address outside 0 .. NumAddr-1 (0xFF in the code)
  GearList,      \* short addresses of the control gear of m_devices, in map order
  MaxDelay,      \* longest delay_ms or base_delay_ms of a request, in ticks
  Stagger,       \* stagger_ms of requestBroadcastSync, in ticks
  MaxDeferred    \* bound on m_deferred_requests, which the code leaves unbounded

Addr == 0 .. NumAddr - 1
ShortAddress == Addr \cup {Unassigned}
NoAddr == NumAddr
Delay == 0 .. MaxDelay

ASSUME NumAddrAssumption == NumAddr \in Nat \ {0}
ASSUME UnassignedAssumption == Unassigned \in Nat /\ Unassigned > NumAddr
ASSUME GearListAssumption == GearList \in Seq(ShortAddress)
ASSUME DelayAssumption ==
  /\ MaxDelay \in Nat /\ Stagger \in Nat
  /\ MaxDeferred \in Nat

Request == [sa : Addr, left : Nat]

VARIABLES
  deferred,   \* m_deferred_requests
  queue,      \* m_priority_queue
  prio,       \* m_priority_set
  rr,         \* m_round_robin_index
  mode,       \* where daliSyncTask is: "top", "deferred" (it holds
              \* m_queue_mutex), "priority" or "cycle" (a poll runs)
  cursor,     \* the deferred request daliSyncTask looks at
  polling,    \* the address pollSingleDevice was called with
  bcast,      \* devices a requestBroadcastSync still has to ask for
  bdelay      \* its current_delay

schedVars == <<deferred, queue, prio>>
taskVars == <<rr, mode, cursor, polling>>
bcastVars == <<bcast, bdelay>>
vars == <<deferred, queue, prio, rr, mode, cursor, polling, bcast, bdelay>>

Init ==
  /\ deferred = <<>>
  /\ queue = <<>>
  /\ prio = {}
  /\ rr = 0
  /\ mode = "top"
  /\ cursor = 1
  /\ polling = NoAddr
  /\ bcast = <<>>
  /\ bdelay = 0

-----------------------------------------------------------------------------
(* Clients.                                                                *)

\* Mutant: the check for a queued address is forgotten.
PushUnchecked(sa) ==
  /\ queue' = Append(queue, sa)
  /\ prio' = prio \cup {sa}

\* `if (!m_priority_set.contains(sa))` push and insert.
PushPriority(sa) ==
  IF sa \in prio
    THEN UNCHANGED <<queue, prio>>
    ELSE /\ queue' = Append(queue, sa)
         /\ prio' = prio \cup {sa}

\* requestDeviceSync(sa, delay_ms), all of it under m_queue_mutex.
RequestDeviceSync(sa, d) ==
  /\ mode # "deferred"
  /\ \/ /\ sa \notin Addr
        /\ UNCHANGED schedVars
     \/ /\ sa \in Addr /\ d = 0
        /\ PushPriority(sa)
        /\ UNCHANGED deferred
     \/ /\ sa \in Addr /\ d > 0
        /\ deferred' = Append(deferred, [sa |-> sa, left |-> d])
        /\ UNCHANGED <<queue, prio>>

\* The bound: a call that would grow m_deferred_requests beyond MaxDeferred is
\* not made.  A broadcast that has begun is never held back.
RoomFor(n) == Len(deferred) + Len(bcast) + n <= MaxDeferred

\* Any task asks for one device.
ClientRequest(sa, d) ==
  /\ d > 0 => RoomFor(1)
  /\ RequestDeviceSync(sa, d)
  /\ UNCHANGED <<taskVars, bcastVars>>

\* requestBroadcastSync takes m_devices_mutex and keeps it to its end; the
\* m_queue_mutex it takes and releases once per device.
BroadcastBegin(base) ==
  /\ bcast = <<>>
  /\ RoomFor(Len(GearList))
  /\ bcast' = GearList
  /\ bdelay' = IF GearList = <<>> THEN 0 ELSE base
  /\ UNCHANGED <<schedVars, taskVars>>

BroadcastNext ==
  /\ bcast # <<>>
  /\ RequestDeviceSync(Head(bcast), bdelay)
  /\ bcast' = Tail(bcast)
  /\ bdelay' = IF Len(bcast) > 1 THEN bdelay + Stagger ELSE 0
  /\ UNCHANGED taskVars

-----------------------------------------------------------------------------
(* daliSyncTask.                                                           *)

\* The top of the loop: `now` is read, m_queue_mutex is taken.
LoopBegin ==
  /\ mode = "top"
  /\ mode' = "deferred"
  /\ cursor' = 1
  /\ UNCHANGED <<schedVars, rr, polling, bcastVars>>

\* Mutant: a due request is erased before it is queued.
DueForgotten ==
  /\ mode = "deferred"
  /\ cursor <= Len(deferred)
  /\ deferred[cursor].left = 0
  /\ deferred' = RemoveAt(deferred, cursor)
  /\ UNCHANGED <<queue, prio, taskVars, bcastVars>>

\* One iteration over m_deferred_requests.
DueRequest ==
  /\ mode = "deferred"
  /\ cursor <= Len(deferred)
  /\ deferred[cursor].left = 0
  /\ PushPriority(deferred[cursor].sa)
  /\ deferred' = RemoveAt(deferred, cursor)
  /\ UNCHANGED <<taskVars, bcastVars>>

\* Mutant: passing an early request steps the iterator past the next one, too.
EarlySkipsNext ==
  /\ mode = "deferred"
  /\ cursor <= Len(deferred)
  /\ deferred[cursor].left > 0
  /\ cursor' = cursor + 2
  /\ UNCHANGED <<schedVars, rr, mode, polling, bcastVars>>

EarlyRequest ==
  /\ mode = "deferred"
  /\ cursor <= Len(deferred)
  /\ deferred[cursor].left > 0
  /\ cursor' = cursor + 1
  /\ UNCHANGED <<schedVars, rr, mode, polling, bcastVars>>

\* The mutex is released with the front of the priority queue taken; its
\* poll starts.
PopPriority ==
  /\ mode = "deferred"
  /\ cursor > Len(deferred)
  /\ queue # <<>>
  /\ polling' = Head(queue)
  /\ queue' = Tail(queue)
  /\ prio' = prio \ {Head(queue)}
  /\ mode' = "priority"
  /\ cursor' = 1
  /\ UNCHANGED <<deferred, rr, bcastVars>>

\* Nothing is urgent: the round robin polls its next address.
PopRoundRobin ==
  /\ mode = "deferred"
  /\ cursor > Len(deferred)
  /\ queue = <<>>
  /\ polling' = rr
  /\ mode' = "cycle"
  /\ cursor' = 1
  /\ UNCHANGED <<schedVars, rr, bcastVars>>

\* Mutant: the wrap comes one address early.
WrapEarly(a) == IF a + 1 >= NumAddr - 1 THEN 0 ELSE a + 1

\* The round robin wraps at the last address.
NextAddress(a) == IF a + 1 >= NumAddr THEN 0 ELSE a + 1

\* pollSingleDevice returns (it needs m_devices_mutex, which a broadcast
\* request holds); the round robin moves on.
PollEnd ==
  /\ mode \in {"priority", "cycle"}
  /\ bcast = <<>>
  /\ polling' = NoAddr
  /\ rr' = IF mode = "cycle" THEN NextAddress(rr) ELSE rr
  /\ mode' = "top"
  /\ UNCHANGED <<schedVars, cursor, bcastVars>>

-----------------------------------------------------------------------------
\* A millisecond tick of esp_timer_get_time.
Tick ==
  /\ mode # "deferred"
  /\ \E i \in DOMAIN deferred : deferred[i].left > 0
  /\ deferred' = [i \in DOMAIN deferred |->
                    [deferred[i] EXCEPT !.left = IF @ > 0 THEN @ - 1 ELSE 0]]
  /\ UNCHANGED <<queue, prio, taskVars, bcastVars>>

SyncTask ==
  \/ LoopBegin
  \/ DueRequest
  \/ EarlyRequest
  \/ PopPriority
  \/ PopRoundRobin
  \/ PollEnd

Next ==
  \/ \E sa \in ShortAddress, d \in Delay : ClientRequest(sa, d)
  \/ \E base \in Delay : BroadcastBegin(base)
  \/ BroadcastNext
  \/ SyncTask
  \/ Tick

SafeSpec == Init /\ [][Next]_vars

\* FreeRTOS runs a ready task and hands a mutex to the task that waits for
\* it: the sync task goes on, its poll gets m_devices_mutex and a broadcast
\* gets m_queue_mutex although others keep taking them.  Time passes: that
\* no tick falls inside a walk is how the one reading of the clock is
\* modelled, it does not hold the clock back.
Spec ==
  /\ SafeSpec
  /\ WF_vars(SyncTask)
  /\ SF_vars(PollEnd)
  /\ SF_vars(BroadcastNext)
  /\ SF_vars(Tick)

-----------------------------------------------------------------------------
TypeOK ==
  /\ deferred \in Seq(Request)
  /\ queue \in Seq(Addr)
  /\ prio \in SUBSET Addr
  /\ rr \in Addr
  /\ mode \in {"top", "deferred", "priority", "cycle"}
  /\ cursor \in Nat \ {0}
  /\ polling \in Addr \cup {NoAddr}
  /\ bcast \in Seq(ShortAddress)
  /\ bdelay \in Nat

\* m_priority_set mirrors m_priority_queue: the set is what the code asks
\* before it pushes, so an address in one and not in the other would be
\* polled twice or never again.
QueueMatchesSet ==
  /\ prio = {queue[i] : i \in DOMAIN queue}
  /\ Len(queue) = Cardinality(prio)

\* An address is being polled exactly while daliSyncTask is in a poll.
PollingInPoll == polling = NoAddr <=> mode \in {"top", "deferred"}

\* The deferred requests the walk has gone past were all too early: erasing
\* one does not make it skip the next.
WalkedEarly ==
  mode = "deferred" =>
    \A i \in DOMAIN deferred : i < cursor => deferred[i].left > 0

\* What the steps preserve together.
IInv == TypeOK /\ QueueMatchesSet /\ PollingInPoll /\ WalkedEarly

\* However many clients ask, the priority queue never holds more entries
\* than the bus has short addresses.
QueueBounded == Len(queue) <= NumAddr

\* The round robin polls only when nothing urgent is left: no queued request
\* and no deferred one whose time has come.
UrgentFirst ==
  [][mode' = "cycle" /\ mode # "cycle" =>
       /\ queue = <<>>
       /\ \A i \in DOMAIN deferred : deferred[i].left > 0]_vars

\* The scheduler keeps the promise of PendingPolls: a request is pending
\* while it is deferred or queued, every request is followed by a poll.
Requested == prio \cup {deferred[i].sa : i \in DOMAIN deferred}
Abstract == INSTANCE PendingPolls WITH pending <- Requested
RefinesPendingPolls == Abstract!Spec

\* Once clients stop asking, the round robin polls every address again and
\* again.
SweepsWhenQuiet ==
  <>[](Requested = {}) => \A a \in Addr : []<>(polling = a)

=============================================================================
