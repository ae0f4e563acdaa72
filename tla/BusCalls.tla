------------------------------- MODULE BusCalls -------------------------------
(***************************************************************************)
(* What the DALI driver promises to the calls of DaliAdapter, without the  *)
(* bus, the interrupt and the clock: one call at a time, for one frame or  *)
(* two; a frame goes out at most once, and not any more when it has been   *)
(* answered for, except with a timeout; every frame is answered for        *)
(* exactly once before the call is over; and a reply that is returned      *)
(* belongs to the frame, which has gone out.  DaliDriver implements it.    *)
(***************************************************************************)
EXTENDS Naturals

CONSTANT Frame    \* frames are numbered from 1 in the order of the calls

VARIABLES
  busy,     \* a call is under way
  frames,   \* the number of the present, or the last, frame
  sent,     \* how often each frame has gone out
  result    \* what was returned last, and for which frame

vars == <<busy, frames, sent, result>>

Init ==
  /\ busy = FALSE /\ frames = 0
  /\ sent = [f \in Frame |-> 0]
  /\ result = [frame |-> 0, kind |-> "none", of |-> 0]

Begin ==
  /\ ~busy
  /\ busy' = TRUE /\ frames' = frames + 1
  /\ UNCHANGED <<sent, result>>

\* A frame goes out before its result.  The one of a call that has given up may
\* do so later, and until it has, the next calls can only give up as well.
GoOut(f) ==
  /\ f <= frames /\ sent[f] = 0
  /\ result.frame < f \/ result.kind = "timeout"
  /\ sent' = [sent EXCEPT ![f] = 1]
  /\ UNCHANGED <<busy, frames, result>>

\* A result for the present frame.  Then a second frame follows, the call is
\* over, or it stays in the delay at its end.
Answer ==
  /\ busy /\ result.frame < frames
  /\ result'.frame = frames
  /\ result'.kind = "reply" => result'.of = frames /\ sent[frames] = 1
  /\ \/ frames' = frames + 1 /\ busy' = TRUE
     \/ frames' = frames /\ busy' \in BOOLEAN
  /\ UNCHANGED sent

\* The delay is over.
End ==
  /\ busy /\ result.frame = frames
  /\ busy' = FALSE
  /\ UNCHANGED <<frames, sent, result>>

Next == Begin \/ (\E f \in Frame : GoOut(f)) \/ Answer \/ End

Spec == Init /\ [][Next]_vars
=============================================================================
