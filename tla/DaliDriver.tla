------------------------------ MODULE DaliDriver ------------------------------
(***************************************************************************)
(* The DALI driver with the tasks that use it: the timer interrupt that    *)
(* samples and drives the bus, a task that makes calls of DaliAdapter      *)
(* (tx_wait, tx_wait_rx), the sniffer task, and the other stations on the  *)
(* bus.  The interrupt and the tasks share busstate, rxstate, rxdata,      *)
(* idlecnt and txcollision without a lock, so the accesses of tx and rx    *)
(* are separate steps.                                                     *)
(*                                                                         *)
(* Time advances in ticks of about 5 ms.  A forward frame lasts three of   *)
(* them, a backward frame two; a reply starts one or two ticks after the   *)
(* frame it answers.  Half bits and samples are not modelled: a frame has  *)
(* a start, an end, and is whole or garbled.                               *)
(*                                                                         *)
(* The initial states, steps and specification are called Driver..., so    *)
(* that DaliDriverProofs can extend this module together with              *)
(* Commissioning, the other model of DaliDriver.cxx.                       *)
(***************************************************************************)
EXTENDS Integers

CONSTANTS
  IdleTicks,     \* BEFORE_CMD_IDLE_TICKS
  TxTimeout,     \* timeout_ms of tx_wait
  OsTick,        \* ticks between two FreeRTOS ticks, when vTaskDelay(1) ends
  MaxFrames,     \* bound: frames of the bridge
  MaxForeign     \* bound: frames of other masters

ForwardTicks == 3
BackwardTicks == 2
ReplyMin == 1
ReplyMax == 2
IdleCap == IdleTicks + 1    \* where idlecnt stops; other masters wait as long
RxTimeout == 2      \* rx_timeout_ms: 10 ms for the start of a reply,
RxExtended == 5     \* 25 ms once something is being received

ASSUME TimingAssumption ==
  /\ {TxTimeout, MaxFrames, MaxForeign} \subseteq Nat
  /\ IdleTicks \in Nat /\ IdleTicks >= ReplyMax
  /\ OsTick \in 1 .. BackwardTicks

VARIABLES
  busstate, rxstate, rxdata, idlecnt, txcollision,   \* the driver's fields
  tx,        \* the transmission: which frame, the ticks until its last half
             \* bit is out, and whether nobody else has sent meanwhile
  line,      \* the frame of another station on the bus
  owed,      \* the reply some gear is about to give
  mutex,     \* bus_mutex
  call,      \* the task that makes calls: where it is and what it carries
  phase,     \* ticks since the last FreeRTOS tick
  sniffer,   \* the sniffer task
  frames,    \* frames of the bridge so far; the present one has this number
  foreign,   \* frames of other masters so far
  notified,  \* the sniffer's notification
  result,    \* history: what the last call has returned
  sent,      \* history: how often each frame of the bridge went out whole
  heard      \* history: what became of each frame of other masters

rxVars == <<rxstate, rxdata, notified>>
driverVars == <<busstate, rxstate, rxdata, idlecnt, txcollision, tx,
          line, owed, mutex, call, phase, sniffer, frames, foreign, notified,
          result,
          sent, heard>>

Frame == 1 .. MaxFrames
Other == 1 .. MaxForeign
Quiet == [kind |-> "none", of |-> 0, left |-> 0, whole |-> TRUE]
Nothing == [kind |-> "none", of |-> 0]
NoReplyOwed == [of |-> 0, age |-> 0, due |-> FALSE]
Garbled == [kind |-> "garbled", of |-> 0]

\* Where the calling task is: in tx_wait (hold, check, clear, start, sending,
\* state), in tx_wait_rx (reply, decode), in the delay after the call (gap).
Waiting == {"hold", "check", "sending", "reply"}
Idle == [pc |-> "idle", wait |-> FALSE, gap |-> FALSE, again |-> FALSE,
         t |-> 0, asleep |-> FALSE, extended |-> FALSE]

\* What foreign frames and replies are numbered by: frames of the bridge are
\* positive, those of other masters negative.
DriverInit ==
  /\ busstate = "IDLE" /\ rxstate = "EMPTY" /\ rxdata = Nothing
  /\ idlecnt = 0 /\ txcollision = FALSE
  /\ tx = [of |-> 0, left |-> 0, whole |-> TRUE]
  /\ line = Quiet /\ owed = NoReplyOwed
  /\ mutex = "free" /\ call = Idle /\ phase = 0 /\ sniffer = "wait"
  /\ frames = 0 /\ foreign = 0 /\ notified = FALSE
  /\ result = [frame |-> 0, kind |-> "none", of |-> 0]
  /\ sent = [f \in Frame |-> 0]
  /\ heard = [f \in Other |-> "no"]

-------------------------------------------------------------------------------
(* The timer interrupt.                                                    *)

\* The bus is released: idle, or receiving if somebody is pulling it low.
SetBusstateIdle ==
  /\ idlecnt' = 0
  /\ IF line.kind = "none"
     THEN busstate' = "IDLE" /\ UNCHANGED <<rxstate, rxdata, line>>
     ELSE /\ busstate' = "RX" /\ rxstate' = "RECEIVING" /\ rxdata' = Garbled
          /\ line' = [line EXCEPT !.whole = FALSE]

\* A station starts to send.  The interrupt sees the bus go low: what is in
\* rxdata is overwritten from here on.
Seize(kind, of, ticks) ==
  /\ line' = [kind |-> kind, of |-> of, left |-> ticks,
              whole |-> busstate = "IDLE"]
  /\ IF busstate = "IDLE"
     THEN busstate' = "RX" /\ rxstate' = "RECEIVING" /\ rxdata' = Garbled
     ELSE UNCHANGED <<busstate, rxstate, rxdata>>
  /\ tx' = [tx EXCEPT !.whole = @ /\ busstate # "TX"]

\* Another master starts: it waits out replies, and sees the bridge's frame
\* unless both start together.
ForeignStart ==
  /\ foreign < MaxForeign /\ line.kind = "none" /\ ~owed.due
  /\ \/ busstate = "IDLE" /\ idlecnt = IdleCap
     \/ busstate = "TX" /\ tx.left = ForwardTicks
  /\ foreign' = foreign + 1
  /\ Seize("forward", -(foreign + 1), ForwardTicks)
  /\ UNCHANGED <<idlecnt, txcollision, owed, mutex, call, sniffer, frames,
                 phase, notified, result, sent, heard>>

ReplyStart ==
  /\ owed.due /\ owed.age >= ReplyMin /\ line.kind = "none"
  /\ owed' = NoReplyOwed
  /\ Seize("backward", owed.of, BackwardTicks)
  /\ UNCHANGED <<idlecnt, txcollision, mutex, call, sniffer, frames, foreign,
                 phase, notified, result, sent, heard>>

\* Some gear will answer the frame, or none.
MayOwe(of) == owed' \in {NoReplyOwed, [of |-> of, age |-> 0, due |-> TRUE]}

\* Mutant: the receive callback is not called.
RxCompleteSilent ==
  /\ line.kind # "none" /\ line.left = 0
  /\ line' = Quiet
  /\ IF busstate = "RX"
     THEN /\ busstate' = "IDLE" /\ idlecnt' = 0
          /\ rxstate' = "COMPLETED" /\ notified' = notified
          /\ rxdata' = IF line.whole THEN [kind |-> line.kind, of |-> line.of]
                       ELSE Garbled
     ELSE UNCHANGED <<busstate, idlecnt, rxstate, notified, rxdata>>
  /\ IF line.kind = "forward" /\ line.whole
     THEN /\ MayOwe(line.of)
          /\ heard' = [heard EXCEPT ![-line.of] =
                         IF busstate = "RX" /\ mutex = "free" THEN "open"
                         ELSE "excused"]
     ELSE UNCHANGED <<owed, heard>>
  /\ UNCHANGED <<txcollision, tx, mutex, call, sniffer, frames, foreign, phase,
                 result, sent>>

\* Two stop bits have been received: RX ends and the sniffer is notified.
RxComplete ==
  /\ line.kind # "none" /\ line.left = 0
  /\ line' = Quiet
  /\ IF busstate = "RX"
     THEN /\ busstate' = "IDLE" /\ idlecnt' = 0
          /\ rxstate' = "COMPLETED" /\ notified' = TRUE
          /\ rxdata' = IF line.whole THEN [kind |-> line.kind, of |-> line.of]
                       ELSE Garbled
     ELSE UNCHANGED <<busstate, idlecnt, rxstate, notified, rxdata>>
  /\ IF line.kind = "forward" /\ line.whole
     THEN /\ MayOwe(line.of)
          /\ heard' = [heard EXCEPT ![-line.of] =
                         IF busstate = "RX" /\ mutex = "free" THEN "open"
                         ELSE "excused"]
     ELSE UNCHANGED <<owed, heard>>
  /\ UNCHANGED <<txcollision, tx, mutex, call, sniffer, frames, foreign, phase,
                 result, sent>>

\* The bridge sends high and reads low: a break, and the transmission is over.
Collide ==
  /\ busstate = "TX" /\ line.kind # "none"
  /\ busstate' = "COLLISION_TX" /\ txcollision' = TRUE
  /\ line' = [line EXCEPT !.whole = FALSE]
  /\ UNCHANGED <<rxVars, idlecnt, tx, owed, mutex, call, sniffer, frames,
                 foreign, phase, result, sent, heard>>

CollisionEnd ==
  /\ busstate = "COLLISION_TX"
  /\ SetBusstateIdle
  /\ UNCHANGED <<txcollision, tx, owed, mutex, call, sniffer, frames, foreign,
                 phase, notified, result, sent, heard>>

TxEnd ==
  /\ busstate = "TX" /\ tx.left = 0
  /\ SetBusstateIdle
  /\ IF tx.whole
     THEN sent' = [sent EXCEPT ![tx.of] = @ + 1] /\ MayOwe(tx.of)
     ELSE UNCHANGED <<sent, owed>>
  /\ UNCHANGED <<txcollision, tx, mutex, call, sniffer, frames, foreign, phase,
                 notified, result, heard>>

-------------------------------------------------------------------------------
(* The calling task: one call of DaliAdapter after another.                *)

\* What DaliAdapter's operations ask of the driver: a reply, the delay after
\* the call, a second frame.
SendDACP == [wait |-> TRUE, gap |-> FALSE, again |-> FALSE]
SendCommand == {[wait |-> FALSE, gap |-> TRUE, again |-> a] : a \in BOOLEAN}
SendQuery == [wait |-> TRUE, gap |-> TRUE, again |-> FALSE]
SendRaw == {[wait |-> w, gap |-> TRUE, again |-> FALSE] : w \in BOOLEAN}
Operation == {SendDACP, SendQuery} \cup SendCommand \cup SendRaw

callVars == <<txcollision, tx, owed, mutex, sniffer, frames, foreign, phase,
              notified, result, sent, heard>>

Goto(pc) == call' = [call EXCEPT !.pc = pc]

StartCall ==
  /\ call.pc = "idle" /\ mutex = "free"
  /\ \E op \in Operation :
       /\ frames + (IF op.again THEN 2 ELSE 1) <= MaxFrames
       /\ call' = [Idle EXCEPT !.pc = "hold", !.wait = op.wait, !.gap = op.gap,
                               !.again = op.again]
  /\ mutex' = "call" /\ frames' = frames + 1
  /\ heard' = [f \in Other |->
                 IF heard[f] = "open" THEN "excused" ELSE heard[f]]
  /\ UNCHANGED <<busstate, rxVars, idlecnt, txcollision, tx, line, owed,
                 sniffer, foreign, phase, result, sent>>

\* A frame is done: the second one of a command sent twice, the delay after
\* the call, or the end of it.
Return(kind, of) ==
  /\ result' = [frame |-> frames, kind |-> kind, of |-> of]
  /\ IF call.again
     THEN /\ call' = [Idle EXCEPT !.pc = "hold", !.wait = call.wait,
                                  !.gap = call.gap]
          /\ frames' = frames + 1 /\ UNCHANGED mutex
     ELSE /\ call' = IF call.gap THEN [Idle EXCEPT !.pc = "gap"] ELSE Idle
          /\ mutex' = IF call.gap THEN mutex ELSE "free"
          /\ UNCHANGED frames

TimedOut == call.t > TxTimeout
GiveUp ==
  /\ TimedOut /\ Return("timeout", 0)
  /\ UNCHANGED <<busstate, rxVars, idlecnt, txcollision, tx, line, owed,
                 sniffer, foreign, phase, sent, heard>>
Advance(pc) ==
  /\ Goto(pc)
  /\ UNCHANGED <<busstate, rxVars, idlecnt, line>> /\ UNCHANGED callVars
Sleep ==
  /\ call' = [call EXCEPT !.asleep = TRUE]
  /\ UNCHANGED <<busstate, rxVars, idlecnt, line>> /\ UNCHANGED callVars
PollAgain == GiveUp \/ (~TimedOut /\ Sleep)

\* tx_wait waits for an idle bus, once for each attempt that is not refused.
HoldOff ==
  /\ call.pc = "hold" /\ ~call.asleep
  /\ \/ idlecnt >= IdleTicks /\ Advance("check")
     \/ idlecnt < IdleTicks /\ PollAgain

\* tx: the bus is looked at; a busy bus is looked at again, and only that.
TxCheck ==
  /\ call.pc = "check" /\ ~call.asleep
  /\ \/ busstate = "IDLE" /\ Advance("clear")
     \/ busstate # "IDLE" /\ PollAgain

\* Mutant: what was received before is not dropped.
TxClearKeepsReceived ==
  /\ call.pc = "clear"
  /\ txcollision' = FALSE
  /\ tx' = [tx EXCEPT !.of = frames, !.left = ForwardTicks]
  /\ Goto("start")
  /\ UNCHANGED <<busstate, rxstate, rxdata, idlecnt, line, owed, mutex, sniffer, frames,
                 foreign, phase, notified, result, sent, heard>>

\* The transmit buffer is filled; what was received and not read is dropped.
TxClear ==
  /\ call.pc = "clear"
  /\ txcollision' = FALSE
  /\ tx' = [tx EXCEPT !.of = frames, !.left = ForwardTicks]
  /\ rxstate' = "EMPTY"
  /\ Goto("start")
  /\ UNCHANGED <<busstate, rxdata, idlecnt, line, owed, mutex, sniffer, frames,
                 foreign, phase, notified, result, sent, heard>>

\* busstate is written whatever the interrupt has made of it since.
TxStart ==
  /\ call.pc = "start"
  /\ busstate' = "TX"
  /\ tx' = [tx EXCEPT !.whole = line.kind = "none"]
  /\ line' = [line EXCEPT !.whole = @ /\ line.kind = "none"]
  /\ Goto("sending")
  /\ UNCHANGED <<rxVars, idlecnt, txcollision, owed, mutex, sniffer, frames,
                 foreign, phase, result, sent, heard>>

\* tx_state: a collision is reported once, and the frame sent again; without
\* one the state of the bus is read.
TxCollision ==
  /\ call.pc = "sending" /\ ~call.asleep
  /\ \/ /\ txcollision
        /\ txcollision' = FALSE /\ Goto("hold")
        /\ UNCHANGED <<busstate, rxVars, idlecnt, line, tx, owed, mutex,
                       sniffer, frames, foreign, phase, result, sent, heard>>
     \/ ~txcollision /\ Advance("state")

AwaitReply ==
  /\ call.wait /\ call' = [call EXCEPT !.pc = "reply", !.t = 0]
  /\ UNCHANGED <<busstate, rxVars, idlecnt, line>> /\ UNCHANGED callVars
ReturnOk ==
  /\ ~call.wait /\ Return("ok", 0)
  /\ UNCHANGED <<busstate, rxVars, idlecnt, txcollision, tx, line, owed,
                 sniffer, foreign, phase, sent, heard>>
StillSending ==
  \/ GiveUp
  \/ /\ ~TimedOut /\ call' = [call EXCEPT !.pc = "sending", !.asleep = TRUE]
     /\ UNCHANGED <<busstate, rxVars, idlecnt, line>> /\ UNCHANGED callVars

\* Mutants: a bus that is not idle after the frame counts as a collision; a
\* frame without a reply is left to the interrupt.
TxStateRetry ==
  /\ call.pc = "state"
  /\ \/ busstate = "TX" /\ StillSending
     \/ busstate = "RX" /\ Advance("hold")
     \/ busstate \notin {"TX", "RX"} /\ (AwaitReply \/ ReturnOk)
TxStateEager ==
  /\ call.pc = "state"
  /\ \/ busstate = "TX" /\ call.wait /\ StillSending
     \/ busstate = "TX" /\ ReturnOk
     \/ busstate # "TX" /\ (AwaitReply \/ ReturnOk)

\* A frame whose collision the interrupt finds between the two reads is taken
\* for one that has gone out.
TxState ==
  /\ call.pc = "state"
  /\ \/ busstate = "TX" /\ StillSending
     \/ busstate # "TX" /\ (AwaitReply \/ ReturnOk)

\* Mutant: the wait for a reply has no end.
ReplyTimeoutNever == TxTimeout + RxExtended

\* rx in tx_wait_rx.  The time is looked at after the receiver.
ReplyTimeout == IF rxstate = "RECEIVING" \/ call.extended THEN RxExtended
                ELSE RxTimeout
WaitReply ==
  /\ call.pc = "reply" /\ ~call.asleep /\ rxstate # "COMPLETED"
  /\ IF call.t > ReplyTimeout
     THEN /\ Return("no reply", 0)
          /\ UNCHANGED <<busstate, rxVars, idlecnt, txcollision, tx, line,
                         owed, sniffer, foreign, phase, sent, heard>>
     ELSE /\ call' = [call EXCEPT !.asleep = TRUE,
                        !.extended = @ \/ rxstate = "RECEIVING"]
          /\ UNCHANGED <<busstate, rxVars, idlecnt, line>>
          /\ UNCHANGED callVars

ReadReply ==
  /\ call.pc = "reply" /\ ~call.asleep /\ rxstate = "COMPLETED"
  /\ rxstate' = "EMPTY" /\ Goto("decode")
  /\ UNCHANGED <<busstate, rxdata, idlecnt, line>> /\ UNCHANGED callVars

\* Eight bits are the reply, other lengths and collisions are errors.
Verdict(data) == CASE data.kind = "backward" -> "reply"
                   [] data.kind = "forward" -> "invalid"
                   [] OTHER -> "collision"
DecodeReply ==
  /\ call.pc = "decode"
  /\ Return(Verdict(rxdata), rxdata.of)
  /\ UNCHANGED <<busstate, rxVars, idlecnt, txcollision, tx, line, owed,
                 sniffer, foreign, phase, sent, heard>>

\* The delay after the call, with bus_mutex held.
EndCall ==
  /\ call.pc = "gap"
  /\ call' = Idle /\ mutex' = "free"
  /\ UNCHANGED <<busstate, rxVars, idlecnt, txcollision, tx, line, owed,
                 sniffer, frames, foreign, phase, result, sent, heard>>

-------------------------------------------------------------------------------
(* The sniffer task.                                                       *)

SnifferWake ==
  /\ sniffer = "wait" /\ notified
  /\ notified' = FALSE /\ sniffer' = "lock"
  /\ UNCHANGED <<busstate, rxstate, rxdata, idlecnt, txcollision, tx, line,
                 owed, mutex, call, frames, foreign, phase, result, sent,
                 heard>>

SnifferRx ==
  /\ sniffer = "lock" /\ mutex = "free"
  /\ IF rxstate = "COMPLETED"
     THEN rxstate' = "EMPTY" /\ sniffer' = "decode" /\ mutex' = "sniffer"
     ELSE sniffer' = "wait" /\ UNCHANGED <<rxstate, mutex>>
  /\ UNCHANGED <<busstate, rxdata, idlecnt, txcollision, tx, line, owed, call,
                 frames, foreign, phase, notified, result, sent, heard>>

SnifferDecode ==
  /\ sniffer = "decode"
  /\ sniffer' = "wait" /\ mutex' = "free"
  /\ heard' = IF rxdata.kind = "forward"
              THEN [heard EXCEPT ![-rxdata.of] = "delivered"] ELSE heard
  /\ UNCHANGED <<busstate, rxVars, idlecnt, txcollision, tx, line, owed, call,
                 frames, foreign, phase, result, sent>>

-------------------------------------------------------------------------------
(* Time.                                                                   *)

\* What happens before the next tick: frames end, breaks are short, gear
\* answers in time, a waiting loop takes a turn, the steps of tx and rx are
\* short, the sniffer has a high priority.
Due ==
  \/ line.kind # "none" /\ line.left = 0
  \/ owed.due /\ owed.age = ReplyMax
  \/ busstate = "TX" /\ tx.left = 0
  \/ busstate = "COLLISION_TX"
  \/ call.pc \in Waiting /\ ~call.asleep
  \/ call.pc \in {"clear", "start", "state", "decode"}
  \/ sniffer = "wait" /\ notified
  \/ sniffer = "lock" /\ mutex = "free"
  \/ sniffer = "decode"

Tick ==
  /\ ~Due
  /\ idlecnt' = IF busstate = "IDLE" /\ idlecnt < IdleCap THEN idlecnt + 1
                ELSE idlecnt
  /\ line' = [line EXCEPT !.left = IF line.kind = "none" THEN 0 ELSE @ - 1]
  /\ owed' = [owed EXCEPT !.age = IF owed.due THEN @ + 1 ELSE 0]
  /\ tx' = [tx EXCEPT !.left = IF busstate = "TX" THEN @ - 1 ELSE @]
  /\ phase' = (phase + 1) % OsTick
  /\ call' = IF call.pc \in {"idle", "gap"} THEN call
             ELSE [call EXCEPT !.asleep = @ /\ phase' # 0,
                     !.t = IF @ > TxTimeout /\ @ > RxExtended + OsTick THEN @ ELSE @ + 1]
  /\ UNCHANGED <<busstate, rxVars, txcollision, mutex, sniffer, frames,
                 foreign, result, sent, heard>>

Isr == RxComplete \/ Collide \/ CollisionEnd \/ TxEnd
Caller == \/ StartCall \/ HoldOff \/ TxCheck \/ TxClear \/ TxStart \/ TxCollision \/ TxState
          \/ WaitReply \/ ReadReply \/ DecodeReply \/ EndCall
Sniffer == SnifferWake \/ SnifferRx \/ SnifferDecode

DriverNext == Isr \/ ForeignStart \/ ReplyStart \/ Caller \/ Sniffer \/ Tick

\* The interrupt, the clock, the tasks and the gear go on; nobody has to start
\* a call or a frame.
DriverSpec ==
  /\ DriverInit /\ [][DriverNext]_driverVars
  /\ WF_driverVars(RxComplete) /\ WF_driverVars(CollisionEnd) /\ WF_driverVars(TxEnd)
  /\ WF_driverVars(ReplyStart) /\ WF_driverVars(Tick) /\ WF_driverVars(Sniffer)
  /\ WF_driverVars(Caller /\ call.pc # "idle")

-------------------------------------------------------------------------------
(* What has to hold.                                                       *)

Received == [kind : {"none", "forward", "backward", "garbled"},
             of : -MaxForeign .. MaxFrames]

DriverTypeOK ==
  /\ busstate \in {"IDLE", "RX", "TX", "COLLISION_TX"}
  /\ rxstate \in {"EMPTY", "RECEIVING", "COMPLETED"}
  /\ rxdata \in Received /\ idlecnt \in 0 .. IdleCap
  /\ txcollision \in BOOLEAN /\ notified \in BOOLEAN
  /\ tx \in [of : 0 .. MaxFrames, left : 0 .. ForwardTicks, whole : BOOLEAN]
  /\ line \in [kind : {"none", "forward", "backward"}, whole : BOOLEAN,
               of : -MaxForeign .. MaxFrames, left : 0 .. ForwardTicks]
  /\ owed \in [of : -MaxForeign .. MaxFrames, age : 0 .. ReplyMax,
               due : BOOLEAN]
  /\ mutex \in {"free", "call", "sniffer"}
  /\ call \in [pc : Waiting \cup {"idle", "clear", "start", "state", "decode", "gap"},
               wait : BOOLEAN, gap : BOOLEAN, again : BOOLEAN,
               t : Nat, asleep : BOOLEAN, extended : BOOLEAN]
  /\ phase \in 0 .. OsTick - 1 /\ sniffer \in {"wait", "lock", "decode"}
  /\ frames \in 0 .. MaxFrames /\ foreign \in 0 .. MaxForeign
  /\ result \in [frame : 0 .. MaxFrames, of : -MaxForeign .. MaxFrames,
                 kind : {"none", "ok", "timeout", "no reply", "reply",
                         "invalid", "collision"}]
  /\ sent \in [Frame -> Nat]
  /\ heard \in [Other -> {"no", "open", "excused", "delivered"}]

\* A byte that a query returns was the answer to that query: not a reply left
\* over from an earlier frame, nor one to another master's query.
ReplyIsOwn == result.kind = "reply" => result.of = result.frame

\* The retries of tx_wait repeat no frame that went out whole: gear sees a
\* command once (a step command twice would dim twice).
SentOnce == \A f \in Frame : sent[f] <= 1

\* A frame of another master that was received whole reaches the sniffer, unless
\* a call took the bus before the sniffer could read it.
HeardWhenFree ==
  \A f \in Other : heard[f] = "open" =>
    /\ rxdata = [kind |-> "forward", of |-> -f]
    /\ \/ rxstate = "COMPLETED" /\ (notified \/ sniffer = "lock")
       \/ sniffer = "decode"

\* A call returns: a busy bus, collisions and replies that do not come or do
\* not end are all waited for with a timeout.
CallReturns == (mutex = "call") ~> (mutex = "free")

\* The driver keeps the promise of BusCalls: but for a timeout, no call is over
\* while its frame may still go out.
Calls == INSTANCE BusCalls WITH busy <- mutex = "call"
RefinesBusCalls == Calls!Spec

=============================================================================
