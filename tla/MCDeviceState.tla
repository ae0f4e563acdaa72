---------------------------- MODULE MCDeviceState ----------------------------
(* Instances of DeviceState for TLC.                                       *)
EXTENDS DeviceState

\* Bound: foreign frames go to the group, whose members need not be in the map,
\* commands to a single lamp, whose last level ON restores.
FramesByGroup ==
  /\ \A i \in DOMAIN events : events[i].via = "group"
  /\ cmd.via = "short"

=============================================================================
