---------------------------- MODULE PendingPolls ----------------------------
(***************************************************************************)
(* What the poll scheduler of DaliDeviceController promises to the rest of *)
(* the firmware, without saying how: a request for a short address is      *)
(* remembered until a poll of that address has begun, one poll runs at a   *)
(* time, and no request waits for ever.  PollScheduler implements it.      *)
(***************************************************************************)
EXTENDS Naturals

CONSTANTS
  Addr,     \* the short addresses that can be polled
  NoAddr    \* no poll is running; not a short address

VARIABLES
  pending,  \* addresses with a request that no poll has answered yet
  polling   \* the address being polled, or NoAddr

vars == <<pending, polling>>

Init ==
  /\ pending = {}
  /\ polling = NoAddr

\* A client asks for a poll of a.
Ask(a) ==
  /\ pending' = pending \cup {a}
  /\ UNCHANGED polling

\* A poll of a begins and answers every request for a made so far.
Serve(a) ==
  /\ polling = NoAddr
  /\ a \in pending
  /\ polling' = a
  /\ pending' = pending \ {a}

\* A poll of a begins and leaves the requests as they are: the background
\* sweep, or the first of several requests for a.
Sweep(a) ==
  /\ polling = NoAddr
  /\ polling' = a
  /\ UNCHANGED pending

Done ==
  /\ polling # NoAddr
  /\ polling' = NoAddr
  /\ UNCHANGED pending

Next ==
  \/ \E a \in Addr : Ask(a) \/ Serve(a) \/ Sweep(a)
  \/ Done

\* Every request is followed by a poll of its address.
EveryRequestPolled == \A a \in Addr : (a \in pending) ~> (polling = a)

SafeSpec == Init /\ [][Next]_vars

Spec == SafeSpec /\ EveryRequestPolled
=============================================================================
