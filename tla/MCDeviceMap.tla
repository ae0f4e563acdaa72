----------------------------- MODULE MCDeviceMap -----------------------------
(* Instances of DeviceMap for TLC.                                         *)
EXTENDS DeviceMap, TLC

\* The scanners differ in name only.
ScannersAlike == Permutations(Scanner)
\* Bound: a fault or a RECALL for a device that is not in the map, not both.
OneDisturbance == used.faults + used.recalls <= 1
=============================================================================
