------------------------- MODULE PollSchedulerProofs -------------------------
(***************************************************************************)
(* Proofs about PollScheduler, for every number of addresses, every list   *)
(* of gear and every delay.                                                *)
(***************************************************************************)
EXTENDS PollScheduler, SequenceTheorems, FiniteSetTheorems, TLAPS

(***************************************************************************)
(* Sequences.                                                              *)
(***************************************************************************)

\* What erasing one element of a vector leaves.
LEMMA RemoveAtFacts ==
  ASSUME NEW S, NEW s \in Seq(S), NEW i \in 1 .. Len(s)
  PROVE  /\ RemoveAt(s, i) \in Seq(S)
         /\ Len(RemoveAt(s, i)) = Len(s) - 1
         /\ \A j \in 1 .. Len(s) - 1 :
              RemoveAt(s, i)[j] = IF j < i THEN s[j] ELSE s[j + 1]
<1> DEFINE front == SubSeq(s, 1, i - 1)
           back == SubSeq(s, i + 1, Len(s))
<1>1. /\ front \in Seq(S)
      /\ Len(front) = i - 1
      /\ \A j \in 1 .. i - 1 : front[j] = s[j]
  <2>1. \A j \in 1 .. i - 1 : s[j] \in S
    OBVIOUS
  <2> QED
    BY <2>1, SubSeqProperties, Z3
<1>2. /\ back \in Seq(S)
      /\ Len(back) = Len(s) - i
      /\ \A j \in 1 .. Len(s) - i : back[j] = s[i + j]
  <2>1. \A j \in i + 1 .. Len(s) : s[j] \in S
    OBVIOUS
  <2> QED
    BY <2>1, SubSeqProperties, Z3
<1>3. /\ front \o back \in Seq(S)
      /\ Len(front \o back) = Len(front) + Len(back)
      /\ \A j \in 1 .. Len(front) + Len(back) : (front \o back)[j] =
           IF j <= Len(front) THEN front[j] ELSE back[j - Len(front)]
  BY <1>1, <1>2, ConcatProperties
<1>4. RemoveAt(s, i) = front \o back
  BY DEF RemoveAt
<1> HIDE DEF front, back
<1>5. Len(front) + Len(back) = Len(s) - 1
  BY <1>1, <1>2, Z3
<1>6. ASSUME NEW j \in 1 .. Len(s) - 1
      PROVE  (front \o back)[j] = IF j < i THEN s[j] ELSE s[j + 1]
  <2>1. CASE j < i
    BY <2>1, <1>1, <1>3, <1>5
  <2>2. CASE ~(j < i)
    <3>1. /\ j - (i - 1) \in 1 .. Len(s) - i
          /\ i + (j - (i - 1)) = j + 1
          /\ ~(j <= i - 1)
      BY <2>2, LenProperties, Z3
    <3>2. (front \o back)[j] = back[j - (i - 1)]
      BY <3>1, <1>1, <1>3, <1>5
    <3> QED
      BY <2>2, <3>1, <3>2, <1>2
  <2> QED
    BY <2>1, <2>2
<1> QED
  BY <1>3, <1>4, <1>5, <1>6

\* The elements after an Append.
LEMMA AppendFacts ==
  ASSUME NEW S, NEW s \in Seq(S), NEW e \in S
  PROVE  /\ Append(s, e) \in Seq(S)
         /\ Len(Append(s, e)) = Len(s) + 1
         /\ DOMAIN Append(s, e) = DOMAIN s \cup {Len(s) + 1}
         /\ \A j \in DOMAIN s : Append(s, e)[j] = s[j]
         /\ Append(s, e)[Len(s) + 1] = e
OBVIOUS

-----------------------------------------------------------------------------
(***************************************************************************)
(* The priority queue and its set.                                         *)
(***************************************************************************)

LEMMA AddrFinite ==
  /\ IsFiniteSet(Addr)
  /\ Cardinality(Addr) = NumAddr
BY NumAddrAssumption, FS_Interval DEF Addr

\* A push keeps the queue and the set together, whatever was there before.
LEMMA PushKeepsMatch ==
  ASSUME queue \in Seq(Addr), prio \in SUBSET Addr, QueueMatchesSet,
         NEW sa \in Addr, PushPriority(sa)
  PROVE  /\ queue' \in Seq(Addr)
         /\ prio' = prio \cup {sa}
         /\ QueueMatchesSet'
<1>1. CASE sa \in prio
  BY <1>1 DEF PushPriority, QueueMatchesSet
<1>2. CASE sa \notin prio
  <2>1. queue' = Append(queue, sa) /\ prio' = prio \cup {sa}
    BY <1>2 DEF PushPriority
  <2>2. /\ queue' \in Seq(Addr)
        /\ Len(queue') = Len(queue) + 1
        /\ DOMAIN queue' = DOMAIN queue \cup {Len(queue) + 1}
        /\ \A j \in DOMAIN queue : queue'[j] = queue[j]
        /\ queue'[Len(queue) + 1] = sa
    BY <2>1, AppendFacts
  <2>3. {queue'[i] : i \in DOMAIN queue'} = prio'
    <3>1. \A i \in DOMAIN queue' : queue'[i] \in prio'
      BY <2>1, <2>2 DEF QueueMatchesSet
    <3>2. \A a \in prio' : \E i \in DOMAIN queue' : queue'[i] = a
      BY <2>1, <2>2 DEF QueueMatchesSet
    <3> QED
      BY <3>1, <3>2
  <2>4. Cardinality(prio') = Cardinality(prio) + 1
    BY <1>2, <2>1, AddrFinite, FS_Subset, FS_AddElement
  <2> QED
    BY <2>1, <2>2, <2>3, <2>4 DEF QueueMatchesSet
<1> QED
  BY <1>1, <1>2

\* So does a pop: the head occurs nowhere else, the queue being as long as the
\* set is large.
LEMMA PopKeepsMatch ==
  ASSUME queue \in Seq(Addr), prio \in SUBSET Addr, QueueMatchesSet,
         queue # <<>>, queue' = Tail(queue), prio' = prio \ {Head(queue)}
  PROVE  /\ queue' \in Seq(Addr)
         /\ Head(queue) \in prio
         /\ QueueMatchesSet'
<1> DEFINE rest == {queue'[i] : i \in DOMAIN queue'}
<1>1. /\ queue' \in Seq(Addr)
      /\ Len(queue') = Len(queue) - 1
      /\ DOMAIN queue' = 1 .. Len(queue) - 1
      /\ \A i \in DOMAIN queue' : queue'[i] = queue[i + 1]
      /\ Head(queue) = queue[1]
      /\ DOMAIN queue = 1 .. Len(queue)
      /\ Len(queue) \in Nat \ {0}
  BY HeadTailProperties, LenProperties, EmptySeq
<1>2. prio = rest \cup {Head(queue)}
  <2>1. \A i \in DOMAIN queue : i = 1 \/ i - 1 \in DOMAIN queue'
    BY <1>1
  <2>2. \A i \in DOMAIN queue : i # 1 => queue[i] = queue'[i - 1]
    BY <1>1, <2>1
  <2>3. \A i \in DOMAIN queue' : i + 1 \in DOMAIN queue
    BY <1>1
  <2>4. 1 \in DOMAIN queue
    BY <1>1
  <2>5. \A i \in DOMAIN queue : queue[i] \in rest \cup {Head(queue)}
    BY <1>1, <2>1, <2>2
  <2>6. \A i \in DOMAIN queue' : queue'[i] \in prio
    BY <1>1, <2>3 DEF QueueMatchesSet
  <2>7. Head(queue) \in prio
    BY <1>1, <2>4 DEF QueueMatchesSet
  <2> QED
    BY <2>5, <2>6, <2>7 DEF QueueMatchesSet
<1>3. Head(queue) \notin rest
  <2> SUFFICES ASSUME Head(queue) \in rest PROVE FALSE
    OBVIOUS
  <2>1. prio = rest
    BY <1>2
  <2>2. Cardinality(prio) <= Len(queue) - 1
    <3>1. queue' \in Surjection(1 .. Len(queue) - 1, rest)
      <4>1. queue' \in [1 .. Len(queue) - 1 -> rest]
        <5>1. queue' \in [1 .. Len(queue) - 1 -> Addr]
          BY <1>1, LenProperties
        <5>2. \A i \in 1 .. Len(queue) - 1 : queue'[i] \in rest
          BY <1>1
        <5> QED
          BY <5>1, <5>2
      <4>2. \A a \in rest : \E i \in 1 .. Len(queue) - 1 : queue'[i] = a
        BY <1>1
      <4> QED
        BY <4>1, <4>2 DEF Surjection
    <3>2. /\ IsFiniteSet(1 .. Len(queue) - 1)
          /\ Cardinality(1 .. Len(queue) - 1) = Len(queue) - 1
      BY <1>1, FS_Interval
    <3>3. Cardinality(rest) <= Cardinality(1 .. Len(queue) - 1)
      BY <3>1, <3>2, FS_Surjection
    <3> QED
      BY <2>1, <3>2, <3>3
  <2> QED
    BY <1>1, <2>2, AddrFinite, FS_Subset, FS_CardinalityType DEF QueueMatchesSet
<1>4. prio' = rest
  BY <1>2, <1>3
<1>5. Cardinality(prio') = Cardinality(prio) - 1
  BY <1>2, AddrFinite, FS_Subset, FS_RemoveElement
<1> QED
  BY <1>1, <1>2, <1>4, <1>5 DEF QueueMatchesSet

-----------------------------------------------------------------------------
(***************************************************************************)
(* The invariant.                                                          *)
(***************************************************************************)

LEMMA InitInv == Init => IInv
<1> SUFFICES ASSUME Init PROVE IInv
  OBVIOUS
<1>1. TypeOK
  BY NumAddrAssumption, DelayAssumption DEF Init, TypeOK, Addr, NoAddr
<1>2. QueueMatchesSet
  BY FS_EmptySet DEF Init, QueueMatchesSet
<1>3. PollingInPoll
  BY DEF Init, PollingInPoll
<1>4. WalkedEarly
  BY DEF Init, WalkedEarly
<1> QED
  BY <1>1, <1>2, <1>3, <1>4 DEF IInv

\* A request changes deferred, queue and prio only, and keeps their types and
\* the match of queue and set; what it asked for is remembered.
LEMMA RequestFacts ==
  ASSUME IInv, NEW sa \in ShortAddress, NEW d \in Nat, RequestDeviceSync(sa, d)
  PROVE  /\ deferred' \in Seq(Request)
         /\ queue' \in Seq(Addr)
         /\ prio' \in SUBSET Addr
         /\ QueueMatchesSet'
         /\ \/ Requested' = Requested
            \/ sa \in Addr /\ Requested' = Requested \cup {sa}
<1> USE DEF IInv
<1>1. CASE UNCHANGED schedVars
  BY <1>1 DEF schedVars, TypeOK, QueueMatchesSet, Requested
<1>2. CASE sa \in Addr /\ d = 0 /\ PushPriority(sa) /\ UNCHANGED deferred
  BY <1>2, PushKeepsMatch DEF TypeOK, Requested
<1>3. CASE /\ sa \in Addr /\ d > 0
           /\ deferred' = Append(deferred, [sa |-> sa, left |-> d])
           /\ UNCHANGED <<queue, prio>>
  <2>1. [sa |-> sa, left |-> d] \in Request
    BY <1>3 DEF Request
  <2> DEFINE r == [sa |-> sa, left |-> d]
  <2>2. /\ deferred' \in Seq(Request)
        /\ DOMAIN deferred' = DOMAIN deferred \cup {Len(deferred) + 1}
        /\ \A j \in DOMAIN deferred : deferred'[j] = deferred[j]
        /\ deferred'[Len(deferred) + 1] = r
    BY <1>3, <2>1, AppendFacts DEF TypeOK
  <2>3. r.sa = sa
    OBVIOUS
  <2> HIDE DEF r
  <2>4. {deferred'[i].sa : i \in DOMAIN deferred'} =
          {deferred[i].sa : i \in DOMAIN deferred} \cup {sa}
    <3>1. \A i \in DOMAIN deferred' :
            deferred'[i].sa \in {deferred[j].sa : j \in DOMAIN deferred} \cup {sa}
      BY <2>2, <2>3
    <3>2. \A j \in DOMAIN deferred : deferred[j].sa = deferred'[j].sa /\ j \in DOMAIN deferred'
      BY <2>2
    <3>3. Len(deferred) + 1 \in DOMAIN deferred' /\ deferred'[Len(deferred) + 1].sa = sa
      BY <2>2, <2>3
    <3> QED
      BY <3>1, <3>2, <3>3
  <2> QED
    BY <1>3, <2>2, <2>4 DEF TypeOK, QueueMatchesSet, Requested
<1> QED
  BY <1>1, <1>2, <1>3 DEF RequestDeviceSync, schedVars

\* What DueRequest does to the deferred requests.
LEMMA DueFacts ==
  ASSUME TypeOK, DueRequest
  PROVE  /\ cursor \in 1 .. Len(deferred)
         /\ deferred' \in Seq(Request)
         /\ DOMAIN deferred' = 1 .. Len(deferred) - 1
         /\ \A j \in 1 .. Len(deferred) - 1 :
              deferred'[j] = IF j < cursor THEN deferred[j] ELSE deferred[j + 1]
<1>1. deferred \in Seq(Request) /\ cursor \in 1 .. Len(deferred)
  BY DEF TypeOK, DueRequest
<1>2. deferred' = RemoveAt(deferred, cursor)
  BY DEF DueRequest
<1>3. /\ deferred' \in Seq(Request)
      /\ Len(deferred') = Len(deferred) - 1
      /\ \A j \in 1 .. Len(deferred) - 1 :
           deferred'[j] = IF j < cursor THEN deferred[j] ELSE deferred[j + 1]
  <2>1. /\ RemoveAt(deferred, cursor) \in Seq(Request)
        /\ Len(RemoveAt(deferred, cursor)) = Len(deferred) - 1
        /\ \A j \in 1 .. Len(deferred) - 1 :
             RemoveAt(deferred, cursor)[j] =
               IF j < cursor THEN deferred[j] ELSE deferred[j + 1]
    BY <1>1, RemoveAtFacts
  <2> QED
    BY <1>2, <2>1
<1>4. DOMAIN deferred' = 1 .. Len(deferred')
  BY <1>3
<1> QED
  BY <1>1, <1>3, <1>4

LEMMA StepInv == IInv /\ [Next]_vars => IInv'
<1> SUFFICES ASSUME IInv, [Next]_vars PROVE IInv'
  OBVIOUS
<1> USE DEF IInv
<1>1. ASSUME NEW sa \in ShortAddress, NEW d \in Delay, ClientRequest(sa, d)
      PROVE  IInv'
  <2>1. d \in Nat
    BY DelayAssumption DEF Delay
  <2>2. RequestDeviceSync(sa, d) /\ UNCHANGED <<rr, mode, cursor, polling, bcast, bdelay>>
    BY <1>1 DEF ClientRequest, taskVars, bcastVars
  <2>3. mode # "deferred"
    BY <2>2 DEF RequestDeviceSync
  <2> QED
    BY <2>1, <2>2, <2>3, RequestFacts DEF TypeOK, PollingInPoll, WalkedEarly
<1>2. ASSUME NEW base \in Delay, BroadcastBegin(base) PROVE IInv'
  <2>1. /\ bcast' = GearList /\ bdelay' \in Nat
        /\ UNCHANGED <<deferred, queue, prio, rr, mode, cursor, polling>>
    BY <1>2, DelayAssumption DEF BroadcastBegin, schedVars, taskVars, Delay
  <2> QED
    BY <2>1, GearListAssumption
    DEF TypeOK, PollingInPoll, QueueMatchesSet, WalkedEarly
<1>3. CASE BroadcastNext
  <2>1. /\ bcast # <<>>
        /\ RequestDeviceSync(Head(bcast), bdelay)
        /\ bcast' = Tail(bcast)
        /\ UNCHANGED <<rr, mode, cursor, polling>>
    BY <1>3 DEF BroadcastNext, taskVars
  <2>2. Head(bcast) \in ShortAddress /\ bcast' \in Seq(ShortAddress)
    BY <2>1, HeadTailProperties, EmptySeq DEF TypeOK
  <2>3. bdelay' \in Nat
    BY <1>3, DelayAssumption DEF BroadcastNext, TypeOK
  <2>4. bdelay \in Nat
    BY DEF TypeOK
  <2>5. mode # "deferred"
    BY <2>1 DEF RequestDeviceSync
  <2> QED
    BY <2>1, <2>2, <2>3, <2>4, <2>5, RequestFacts
    DEF TypeOK, PollingInPoll, WalkedEarly
<1>4. CASE LoopBegin
  BY <1>4 DEF LoopBegin, schedVars, bcastVars, TypeOK, PollingInPoll, QueueMatchesSet,
      WalkedEarly
<1>5. CASE DueRequest
  <2>1. cursor \in 1 .. Len(deferred)
    BY <1>5, DueFacts
  <2>2. deferred[cursor].sa \in Addr
    <3>1. deferred[cursor] \in Request
      BY <2>1 DEF TypeOK
    <3> QED
      BY <3>1 DEF Request
  <2>3. deferred' \in Seq(Request)
    BY <1>5, DueFacts
  <2>4. /\ PushPriority(deferred[cursor].sa)
        /\ UNCHANGED <<rr, mode, cursor, polling, bcast, bdelay>>
    BY <1>5 DEF DueRequest, taskVars, bcastVars
  <2>5. queue' \in Seq(Addr) /\ prio' \in SUBSET Addr /\ QueueMatchesSet'
    BY <2>2, <2>4, PushKeepsMatch DEF TypeOK
  <2>6. WalkedEarly'
    <3>1. /\ DOMAIN deferred' = 1 .. Len(deferred) - 1
          /\ \A j \in 1 .. Len(deferred) - 1 : j < cursor => deferred'[j] = deferred[j]
      BY <1>5, <2>1, DueFacts
    <3> QED
      BY <2>4, <3>1 DEF WalkedEarly, TypeOK
  <2> QED
    BY <2>3, <2>4, <2>5, <2>6 DEF TypeOK, PollingInPoll
<1>6. CASE EarlyRequest
  BY <1>6 DEF EarlyRequest, schedVars, bcastVars, TypeOK, PollingInPoll, QueueMatchesSet,
      WalkedEarly
<1>7. CASE PopPriority
  <2>1. /\ queue # <<>> /\ queue' = Tail(queue) /\ prio' = prio \ {Head(queue)}
        /\ polling' = Head(queue) /\ mode' = "priority" /\ cursor' = 1
        /\ UNCHANGED <<deferred, rr, bcast, bdelay>>
    BY <1>7 DEF PopPriority, bcastVars
  <2>2. queue' \in Seq(Addr) /\ Head(queue) \in prio /\ QueueMatchesSet'
    BY <2>1, PopKeepsMatch DEF TypeOK
  <2>3. Head(queue) \in Addr /\ Head(queue) # NoAddr
    <3>1. NoAddr \notin Addr
      BY NumAddrAssumption DEF Addr, NoAddr
    <3> QED
      BY <2>2, <3>1 DEF TypeOK
  <2> QED
    BY <2>1, <2>2, <2>3 DEF TypeOK, PollingInPoll, WalkedEarly
<1>8. CASE PopRoundRobin
  <2>1. rr # NoAddr
    BY NumAddrAssumption DEF TypeOK, Addr, NoAddr
  <2> QED
    BY <1>8, <2>1
    DEF PopRoundRobin, schedVars, bcastVars, TypeOK, PollingInPoll, QueueMatchesSet,
      WalkedEarly
<1>9. CASE PollEnd
  <2>1. rr' \in Addr
    BY <1>9, NumAddrAssumption DEF PollEnd, NextAddress, TypeOK, Addr
  <2> QED
    BY <1>9, <2>1
    DEF PollEnd, NextAddress, schedVars, bcastVars, TypeOK, PollingInPoll, QueueMatchesSet,
      WalkedEarly
<1>10. CASE Tick
  <2>1. \A i \in DOMAIN deferred : deferred[i] \in Request
    BY DEF TypeOK
  <2>2. \A i \in DOMAIN deferred :
          [deferred[i] EXCEPT !.left = IF @ > 0 THEN @ - 1 ELSE 0] \in Request
    BY <2>1 DEF Request
  <2>3. deferred' \in Seq(Request)
    <3>1. Len(deferred) \in Nat /\ DOMAIN deferred = 1 .. Len(deferred)
      BY DEF TypeOK
    <3>2. deferred' \in [1 .. Len(deferred) -> Request]
      BY <1>10, <2>2, <3>1 DEF Tick
    <3> QED
      BY <3>1, <3>2, SeqDef
  <2> QED
    BY <1>10, <2>3 DEF Tick, taskVars, bcastVars, TypeOK, PollingInPoll, QueueMatchesSet,
      WalkedEarly
<1>11. CASE UNCHANGED vars
  BY <1>11 DEF vars, TypeOK, PollingInPoll, QueueMatchesSet, WalkedEarly
<1> QED
  BY <1>1, <1>2, <1>3, <1>4, <1>5, <1>6, <1>7, <1>8, <1>9, <1>10, <1>11
  DEF Next, SyncTask

\* The types are right in every reachable state.
THEOREM TypeCorrect == SafeSpec => []TypeOK
<1>1. IInv => TypeOK
  BY DEF IInv
<1> QED
  BY InitInv, StepInv, <1>1, PTL DEF SafeSpec

\* Queue and set agree in every reachable state, so no address is queued twice
\* and none is in the set without being in the queue, which would keep it
\* from ever being queued again.
THEOREM QueueCorrect == SafeSpec => []QueueMatchesSet
<1>1. IInv => QueueMatchesSet
  BY DEF IInv
<1> QED
  BY InitInv, StepInv, <1>1, PTL DEF SafeSpec

\* m_priority_queue has at most NumAddr entries, however many clients ask.
THEOREM QueueNeverOverfull == SafeSpec => []QueueBounded
<1>1. IInv => QueueBounded
  <2> SUFFICES ASSUME IInv PROVE QueueBounded
    OBVIOUS
  <2>1. Cardinality(prio) <= Cardinality(Addr)
    BY AddrFinite, FS_Subset DEF IInv, TypeOK
  <2> QED
    BY <2>1, AddrFinite DEF IInv, QueueMatchesSet, QueueBounded
<1> QED
  BY InitInv, StepInv, <1>1, PTL DEF SafeSpec

\* No step of the round robin overtakes a request that is queued or due.
THEOREM UrgentBeforeSweep == SafeSpec => UrgentFirst
<1> DEFINE Urgent == mode' = "cycle" /\ mode # "cycle" =>
                       /\ queue = <<>>
                       /\ \A i \in DOMAIN deferred : deferred[i].left > 0
<1>1. IInv /\ [Next]_vars => [Urgent]_vars
  <2> SUFFICES ASSUME IInv, Next, mode' = "cycle", mode # "cycle"
               PROVE  /\ queue = <<>>
                      /\ \A i \in DOMAIN deferred : deferred[i].left > 0
    BY DEF vars
  <2>1. PopRoundRobin
    BY DEF Next, SyncTask, ClientRequest, BroadcastBegin, BroadcastNext, LoopBegin,
           DueRequest, EarlyRequest, PopPriority, PollEnd, Tick, taskVars
  <2>2. /\ mode = "deferred" /\ queue = <<>>
        /\ \A i \in DOMAIN deferred : i < cursor
    BY <2>1 DEF PopRoundRobin, IInv, TypeOK
  <2> QED
    BY <2>2 DEF IInv, WalkedEarly
<1> QED
  BY InitInv, StepInv, <1>1, PTL DEF SafeSpec, UrgentFirst

-----------------------------------------------------------------------------
(***************************************************************************)
(* The scheduler implements PendingPolls.                                  *)
(***************************************************************************)

\* Moving a due request to the queue forgets nothing.
LEMMA DueKeepsRequested ==
  ASSUME IInv, DueRequest
  PROVE  Requested' = Requested
<1> DEFINE sa == deferred[cursor].sa
<1>1. /\ deferred \in Seq(Request)
      /\ cursor \in 1 .. Len(deferred)
      /\ DOMAIN deferred = 1 .. Len(deferred)
      /\ Len(deferred) \in Nat
  BY DEF IInv, TypeOK, DueRequest
<1>2. sa \in Addr
  <2>1. deferred[cursor] \in Request
    BY <1>1
  <2> QED
    BY <2>1 DEF Request
<1>3. prio' = prio \cup {sa}
  BY <1>2, PushKeepsMatch DEF IInv, TypeOK, DueRequest
<1>4. /\ DOMAIN deferred' = 1 .. Len(deferred) - 1
      /\ \A j \in 1 .. Len(deferred) - 1 :
           deferred'[j] = IF j < cursor THEN deferred[j] ELSE deferred[j + 1]
  BY DueFacts DEF IInv
<1>5. \A j \in DOMAIN deferred' : \E i \in DOMAIN deferred : deferred'[j].sa = deferred[i].sa
  BY <1>1, <1>4
<1>6. ASSUME NEW i \in DOMAIN deferred, i # cursor
      PROVE  \E j \in DOMAIN deferred' : deferred'[j].sa = deferred[i].sa
  <2>1. CASE i < cursor
    BY <2>1, <1>1, <1>4
  <2>2. CASE i > cursor
    <3>1. i - 1 \in DOMAIN deferred' /\ deferred'[i - 1] = deferred[i]
      BY <2>2, <1>1, <1>4
    <3> QED
      BY <3>1
  <2> QED
    BY <2>1, <2>2, <1>1, <1>6
<1>7. sa \in {deferred[i].sa : i \in DOMAIN deferred}
  BY <1>1
<1> QED
  BY <1>3, <1>5, <1>6, <1>7 DEF Requested

LEMMA StepRefines == IInv /\ [Next]_vars => [Abstract!Next]_(Abstract!vars)
<1> SUFFICES ASSUME IInv, [Next]_vars PROVE [Abstract!Next]_(Abstract!vars)
  OBVIOUS
<1> USE DEF Abstract!vars
<1>1. ASSUME NEW sa \in ShortAddress, NEW d \in Nat, RequestDeviceSync(sa, d),
             polling' = polling
      PROVE  [Abstract!Next]_(Abstract!vars)
  BY <1>1, RequestFacts DEF Abstract!Next, Abstract!Ask
<1>2. ASSUME NEW sa \in ShortAddress, NEW d \in Delay, ClientRequest(sa, d)
      PROVE  [Abstract!Next]_(Abstract!vars)
  BY <1>2, <1>1, DelayAssumption DEF ClientRequest, taskVars, Delay
<1>3. CASE BroadcastNext
  <2>1. Head(bcast) \in ShortAddress
    BY <1>3, HeadTailProperties, EmptySeq DEF BroadcastNext, IInv, TypeOK
  <2> QED
    BY <1>3, <2>1, <1>1 DEF BroadcastNext, taskVars, IInv, TypeOK
<1>4. CASE DueRequest
  BY <1>4, DueKeepsRequested DEF DueRequest, taskVars
<1>5. CASE PopPriority
  <2>1. Head(queue) \in prio /\ Head(queue) \in Addr
    BY <1>5, PopKeepsMatch DEF PopPriority, IInv, TypeOK
  <2>2. /\ polling = NoAddr /\ polling' = Head(queue)
        /\ prio' = prio \ {Head(queue)} /\ deferred' = deferred
    BY <1>5 DEF PopPriority, IInv, PollingInPoll
  <2>3. Head(queue) \in Requested
    BY <2>1 DEF Requested
  <2>4. Requested' = Requested \/ Requested' = Requested \ {Head(queue)}
    BY <2>1, <2>2 DEF Requested
  <2> QED
    BY <2>1, <2>2, <2>3, <2>4 DEF Abstract!Next, Abstract!Serve, Abstract!Sweep
<1>6. CASE PopRoundRobin
  BY <1>6 DEF PopRoundRobin, schedVars, IInv, TypeOK, PollingInPoll, Requested,
              Abstract!Next, Abstract!Sweep
<1>7. CASE PollEnd
  BY <1>7 DEF PollEnd, schedVars, IInv, PollingInPoll, Requested,
              Abstract!Next, Abstract!Done
<1>8. CASE Tick
  <2>1. /\ DOMAIN deferred' = DOMAIN deferred
        /\ \A i \in DOMAIN deferred : deferred'[i].sa = deferred[i].sa
    <3>1. \A i \in DOMAIN deferred : deferred[i] \in Request
      BY DEF IInv, TypeOK
    <3> QED
      BY <1>8, <3>1 DEF Tick, Request
  <2>2. Requested' = Requested
    BY <1>8, <2>1 DEF Tick, Requested
  <2> QED
    BY <1>8, <2>2 DEF Tick, taskVars
<1>9. CASE LoopBegin \/ EarlyRequest \/ UNCHANGED vars
  BY <1>9 DEF LoopBegin, EarlyRequest, vars, schedVars, Requested
<1>10. ASSUME NEW base \in Delay, BroadcastBegin(base)
       PROVE  [Abstract!Next]_(Abstract!vars)
  BY <1>10 DEF BroadcastBegin, schedVars, taskVars, Requested
<1> QED
  BY <1>2, <1>3, <1>4, <1>5, <1>6, <1>7, <1>8, <1>9, <1>10 DEF Next, SyncTask

\* What any client may rely on: requests are remembered until a poll of their
\* address has begun, and only one poll runs at a time.  (That the poll does
\* come is RefinesPendingPolls, which is checked by TLC.)
THEOREM ImplementsPendingPolls == SafeSpec => Abstract!SafeSpec
<1>1. Init => Abstract!Init
  BY DEF Init, Abstract!Init, Requested
<1> QED
  BY <1>1, InitInv, StepInv, StepRefines, PTL DEF SafeSpec, Abstract!SafeSpec

=============================================================================
