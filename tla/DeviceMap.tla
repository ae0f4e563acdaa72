------------------------------ MODULE DeviceMap ------------------------------
(***************************************************************************)
(* The map of devices: m_devices by long address, m_short_to_long_map, and *)
(* its copy in NVS.  It is loaded and validated at boot (init), replaced   *)
(* by a scan (discoverAndMapDevices), which the boot, the MQTT command     *)
(* task and the web interface can start independently, completed by the    *)
(* sync task's polls (initialStaticDataFetch) and autosaved by the sync    *)
(* task.  The bus changes while the bridge is off and by commissioning.    *)
(* The sniffer enters a default device for a long address that the map has *)
(* not got.                                                                *)
(***************************************************************************)
EXTENDS Naturals, FiniteSets

CONSTANTS
  NumAddr,      \* short addresses of each address space (64 in the code)
  LongAddr,     \* long addresses devices can have
  FirstPseudo,  \* the first of those made up for input devices (0xFE0000)
  Inputs,       \* whether there are input devices on the bus
  Scanner,      \* who may scan while the bridge runs
  MaxScans,     \* bound: scans that they start
  MaxFaults,    \* bound: lost replies and failed NVS writes
  MaxReboots,   \* bound: reboots, with or without a change on the bus
  MaxRecalls    \* bound: RECALL frames for a device that is not in the map

ASSUME SizeAssumption ==
  {NumAddr, MaxScans, MaxFaults, MaxReboots, MaxRecalls} \subseteq Nat
ASSUME LongAddrAssumption ==
  /\ LongAddr \subseteq Nat \ {0} /\ FirstPseudo \in Nat \ {0}
  /\ \A l \in LongAddr : l < FirstPseudo
ASSUME InputsAssumption == Inputs \in BOOLEAN
ASSUME ScannerAssumption == "boot" \notin Scanner

NoLong == 0
SA == 0 .. NumAddr - 1
\* Keys of m_short_to_long_map: gear by its short address, an input device by
\* its short address with a bit set (`sa | 0x80`).
InputKey(sa) == NumAddr + sa
Key == 0 .. 2 * NumAddr - 1
\* The short address of a device that was never told one (0xFF).
NoShort == 2 * NumAddr

\* An input device that does not tell its long address gets one made from its
\* short address (0xFE0000 | sa).
Pseudo(sa) == FirstPseudo + sa
Long == LongAddr \cup {Pseudo(sa) : sa \in SA}
\* Keys of m_devices; a default device has the long address 0.
MapKey == Long \cup {NoLong}

\* static_data_loaded is set when the static data were asked for, answered or
\* not; what is saved is the answers, and a boot takes the flag from them.
Data == {"missing", "asked", "known"}
Absent == [kind |-> "none", sa |-> NoShort, data |-> "missing"]
\* What operator[] enters: gear, without addresses or static data.
Phantom == [kind |-> "gear", sa |-> NoShort, data |-> "missing"]
Device == [kind : {"gear", "input"}, sa : SA, data : Data]
            \cup [kind : {"gear"}, sa : {NoShort}, data : Data] \cup {Absent}
Map == [MapKey -> Device]
Phantoms(m) == {l \in MapKey : m[l].kind = "gear" /\ m[l].sa = NoShort}

\* A device is saved under the long address it knows.  Records of phantoms have
\* the same one; a load takes the first.
Answers(d) == IF d.data = "asked" THEN [d EXCEPT !.data = "missing"] ELSE d
FirstPhantom(m) == CHOOSE l \in Phantoms(m) : \A n \in Phantoms(m) : l <= n
Saved(m) ==
  [l \in MapKey |->
     IF l # NoLong THEN IF l \in Phantoms(m) THEN Absent ELSE Answers(m[l])
     ELSE IF Phantoms(m) = {} THEN Absent ELSE Answers(m[FirstPhantom(m)])]
EmptyMap == [l \in MapKey |-> Absent]
Lookup == [Key -> MapKey]
EmptyLookup == [k \in Key |-> NoLong]

VARIABLES
  gear, input,   \* the bus: the long address at each short address
  devices,       \* m_devices: what is there, where, its static data
  s2l,           \* m_short_to_long_map
  nvs,           \* the map saved in NVS
  dirty,         \* m_nvs_dirty
  main,          \* app_main: "load", "validate", "scan" or "run"
  scan,          \* the scans: next address, new_devices, new_short_to_long_map
  sync,          \* daliSyncTask: "idle", "fetch" or "write"
  used           \* how much of each bound is used up

busVars == <<gear, input>>
mapVars == <<devices, s2l>>
vars == <<gear, input, devices, s2l, nvs, dirty, main, scan, sync, used>>

Use(what) == used' = [used EXCEPT ![what] = @ + 1]
Fault == used.faults < MaxFaults /\ Use("faults")

\* Long addresses are random and commissioning makes them distinct.
Bus(g, i) ==
  /\ g \in [SA -> LongAddr \cup {NoLong}]
  /\ i \in [SA -> IF Inputs THEN LongAddr \cup {NoLong} ELSE {NoLong}]
  /\ \A a, b \in SA : /\ g[a] # NoLong => g[a] # i[b]
                      /\ a # b /\ g[a] # NoLong => g[a] # g[b]
                      /\ a # b /\ i[a] # NoLong => i[a] # i[b]

ScanIdle == [on |-> FALSE, sa |-> 0, devices |-> EmptyMap, s2l |-> EmptyLookup]
ScanNew == [ScanIdle EXCEPT !.on = TRUE]
SyncIdle == [pc |-> "idle", sa |-> 0, long |-> NoLong, copy |-> EmptyMap]

Init ==
  /\ gear \in [SA -> LongAddr \cup {NoLong}]
  /\ input \in [SA -> LongAddr \cup {NoLong}]
  /\ Bus(gear, input)
  /\ devices = EmptyMap /\ s2l = EmptyLookup
  /\ nvs = EmptyMap
  /\ dirty = FALSE
  /\ main = "load"
  /\ scan = [s \in Scanner \cup {"boot"} |-> ScanIdle]
  /\ sync = SyncIdle
  /\ used = [scans |-> 0, faults |-> 0, reboots |-> 0, recalls |-> 0]

-----------------------------------------------------------------------------
(* Boot: init, DaliAddressMap::load, validateAddressMap.                   *)

\* The saved records are in the order of their long addresses.  Every record
\* is entered under its short address, whatever kind of device it is.
Entered(k, l) ==
  LET at == {m \in Long : nvs[m] # Absent /\ nvs[m].sa = k}
  IN IF at = {} THEN l = NoLong ELSE l \in at /\ \A m \in at : m <= l

\* Without a saved map, or with an empty one, the bus is scanned.
Load ==
  /\ main = "load"
  /\ IF nvs = EmptyMap
       THEN /\ main' = "scan"
            /\ scan' = [scan EXCEPT !["boot"] = ScanNew]
            /\ UNCHANGED mapVars
       ELSE /\ main' = "validate"
            /\ devices' = nvs
            /\ s2l' \in Lookup /\ \A k \in Key : Entered(k, s2l'[k])
            /\ UNCHANGED scan
  /\ UNCHANGED <<busVars, nvs, dirty, sync, used>>

\* Mutant: it is enough that the gear is in the map, at any short address.
UnknownGear(heard) ==
  \E l \in Long : /\ devices[l] # Absent
                  /\ devices[l].sa \in heard
                  /\ gear[devices[l].sa] # NoLong
                  /\ devices[gear[devices[l].sa]] = Absent

\* QUERY STATUS, then the long address, of the gear at each device's short
\* address: silence is "offline", another long address is a conflict.  A
\* fault: some of the replies are lost.  For a phantom the short address 0xFF
\* makes it a broadcast, which gear without an address answers as well: with one
\* long address, with none, or with a garbled one.
Conflicts(heard) ==
  \E l \in Long : /\ devices[l] # Absent
                  /\ devices[l].sa \in heard
                  /\ gear[devices[l].sa] \notin {NoLong, l}
Validate ==
  /\ main = "validate"
  /\ \E heard \in SUBSET SA, broadcastHeard \in BOOLEAN :
       /\ IF heard = SA THEN UNCHANGED used ELSE Fault
       /\ broadcastHeard => Phantoms(devices) # {}
       /\ IF Conflicts(heard) \/ broadcastHeard
            THEN /\ main' = "scan"
                 /\ scan' = [scan EXCEPT !["boot"] = ScanNew]
            ELSE main' = "run" /\ UNCHANGED scan
  /\ UNCHANGED <<busVars, mapVars, nvs, dirty, sync>>

-----------------------------------------------------------------------------
(* discoverAndMapDevices.                                                  *)

\* MQTT config/bus/scan or /initialize, or the web interface: each of them
\* keeps itself from a second scan, and does not know of the other.
ScanBegin(s) ==
  /\ main = "run" /\ ~scan[s].on
  /\ used.scans < MaxScans /\ Use("scans")
  /\ scan' = [scan EXCEPT ![s] = ScanNew]
  /\ UNCHANGED <<busVars, mapVars, nvs, dirty, main, sync>>

\* config/bus/initialize, and its like in the web interface: commissioning
\* gives short addresses to devices that had none, then the bus is scanned.
InitializeBegin(s) ==
  /\ main = "run" /\ ~scan[s].on
  /\ used.scans < MaxScans /\ Use("scans")
  /\ gear' \in [SA -> LongAddr \cup {NoLong}]
  /\ input' \in [SA -> LongAddr \cup {NoLong}]
  /\ Bus(gear', input')
  /\ \A sa \in SA : /\ gear[sa] # NoLong => gear'[sa] = gear[sa]
                    /\ input[sa] # NoLong => input'[sa] = input[sa]
  /\ scan' = [scan EXCEPT ![s] = ScanNew]
  /\ UNCHANGED <<mapVars, nvs, dirty, main, sync>>

\* emplace keeps the first device with a long address; the lookup is
\* overwritten.
Emplace(m, l, d) == IF m[l] = Absent THEN [m EXCEPT ![l] = d] ELSE m

\* One round of the loop.  A fault: the replies of the gear are lost, or
\* those of an input device, or those that tell its long address.
Found(p, sa, heardGear, heardInput) ==
  LET new(kind) == [kind |-> kind, sa |-> sa, data |-> "missing"]
      g == gear[sa]
      afterGear ==
        IF ~heardGear \/ g = NoLong THEN p
        ELSE [p EXCEPT !.devices = Emplace(@, g, new("gear")), !.s2l[sa] = g]
      i == IF heardInput = "status" THEN Pseudo(sa) ELSE input[sa]
  IN IF input[sa] = NoLong \/ heardInput = "nothing"
       THEN afterGear
       ELSE [afterGear EXCEPT !.devices = Emplace(@, i, new("input")),
                              !.s2l[InputKey(sa)] = i]

ScanAddress(s) ==
  /\ scan[s].on /\ scan[s].sa \in SA
  /\ \E heardGear \in BOOLEAN, heardInput \in {"nothing", "status", "all"} :
       /\ IF heardGear /\ heardInput = "all" THEN UNCHANGED used ELSE Fault
       /\ scan' = [scan EXCEPT ![s] =
                     [Found(scan[s], scan[s].sa, heardGear, heardInput) EXCEPT
                        !.sa = @ + 1]]
  /\ UNCHANGED <<busVars, mapVars, nvs, dirty, main, sync>>

\* Mutant: the lookup keeps what it was.
SwapDevicesOnly(s) ==
  /\ scan[s].on /\ scan[s].sa = NumAddr
  /\ devices' = scan[s].devices
  /\ \/ nvs' = Saved(devices') /\ UNCHANGED used
     \/ Fault /\ UNCHANGED nvs
  /\ dirty' = FALSE
  /\ scan' = [scan EXCEPT ![s] = ScanIdle]
  /\ main' = IF s = "boot" THEN "run" ELSE main
  /\ UNCHANGED <<busVars, s2l, sync>>

\* Mutant: the saving is left to the autosave, but the map is taken for clean.
SwapUnsaved(s) ==
  /\ scan[s].on /\ scan[s].sa = NumAddr
  /\ devices' = scan[s].devices
  /\ s2l' = scan[s].s2l
  /\ dirty' = FALSE
  /\ scan' = [scan EXCEPT ![s] = ScanIdle]
  /\ main' = IF s = "boot" THEN "run" ELSE main
  /\ UNCHANGED <<busVars, nvs, sync, used>>

\* The critical section at the end: swap, save, and the map is clean.
ScanSwap(s) ==
  /\ scan[s].on /\ scan[s].sa = NumAddr
  /\ devices' = scan[s].devices
  /\ s2l' = scan[s].s2l
  /\ \/ nvs' = Saved(devices') /\ UNCHANGED used
     \/ Fault /\ UNCHANGED nvs
  /\ dirty' = FALSE
  /\ scan' = [scan EXCEPT ![s] = ScanIdle]
  /\ main' = IF s = "boot" THEN "run" ELSE main
  /\ UNCHANGED <<busVars, sync>>

-----------------------------------------------------------------------------
(* The sync task.                                                          *)

\* A poll of control gear whose static data are missing asks for them ...
FetchBegin(sa) ==
  /\ main = "run" /\ sync.pc = "idle"
  /\ s2l[sa] # NoLong /\ gear[sa] # NoLong
  /\ devices[s2l[sa]].kind = "gear" /\ devices[s2l[sa]].data = "missing"
  /\ sync' = [SyncIdle EXCEPT !.pc = "fetch", !.sa = sa, !.long = s2l[sa]]
  /\ UNCHANGED <<busVars, mapVars, nvs, dirty, main, scan, used>>

\* Mutant: the map is not marked for saving.
FetchUnmarked ==
  /\ sync.pc = "fetch"
  /\ devices[sync.long].kind = "gear"
  /\ devices' = [devices EXCEPT ![sync.long].data = "known"]
  /\ sync' = SyncIdle
  /\ UNCHANGED <<busVars, s2l, nvs, dirty, main, scan, used>>

\* ... and enters them if the device is still in the map.  A fault: no query
\* is answered, which leaves nothing to save.
FetchEnd ==
  /\ sync.pc = "fetch"
  /\ \E answered \in BOOLEAN :
       /\ IF answered THEN UNCHANGED used ELSE Fault
       /\ IF devices[sync.long].kind = "gear"
            THEN /\ devices' = [devices EXCEPT ![sync.long].data =
                                  IF answered THEN "known" ELSE "asked"]
                 /\ dirty' = (dirty \/ answered)
            ELSE UNCHANGED <<devices, dirty>>
  /\ sync' = SyncIdle
  /\ UNCHANGED <<busVars, s2l, nvs, main, scan>>

\* The autosave, a minute after the last change: the copy is taken under the
\* lock, which is released before NVS is written.
AutosaveCopy ==
  /\ main = "run" /\ sync.pc = "idle" /\ dirty
  /\ sync' = [SyncIdle EXCEPT !.pc = "write", !.copy = devices]
  /\ dirty' = FALSE
  /\ UNCHANGED <<busVars, mapVars, nvs, main, scan, used>>

AutosaveWrite ==
  /\ sync.pc = "write"
  /\ \/ nvs' = Saved(sync.copy) /\ UNCHANGED used
     \/ Fault /\ UNCHANGED nvs
  /\ sync' = SyncIdle
  /\ UNCHANGED <<busVars, mapVars, dirty, main, scan>>

\* RECALL MAX or MIN LEVEL of another master.  The long address was looked up
\* before, or comes from the group assignments; m_devices[] enters a device
\* when it is not in the map, and nothing is marked for saving.
SniffRecall(l) ==
  /\ main = "run" /\ devices[l] = Absent
  /\ used.recalls < MaxRecalls /\ Use("recalls")
  /\ devices' = [devices EXCEPT ![l] = Phantom]
  /\ UNCHANGED <<busVars, s2l, nvs, dirty, main, scan, sync>>

\* Only NVS survives.  The bus may be another one when the bridge comes back.
Reboot ==
  /\ used.reboots < MaxReboots /\ Use("reboots")
  /\ gear' \in [SA -> LongAddr \cup {NoLong}]
  /\ input' \in [SA -> LongAddr \cup {NoLong}]
  /\ Bus(gear', input')
  /\ devices' = EmptyMap /\ s2l' = EmptyLookup
  /\ dirty' = FALSE
  /\ main' = "load"
  /\ scan' = [s \in Scanner \cup {"boot"} |-> ScanIdle]
  /\ sync' = SyncIdle
  /\ UNCHANGED nvs

BootSteps == Load \/ Validate \/ ScanAddress("boot") \/ ScanSwap("boot")
SyncSteps == (\E sa \in SA : FetchBegin(sa)) \/ FetchEnd \/ AutosaveCopy \/ AutosaveWrite
ScanSteps(s) == ScanAddress(s) \/ ScanSwap(s)

Next ==
  \/ BootSteps
  \/ \E s \in Scanner : ScanBegin(s) \/ InitializeBegin(s) \/ ScanSteps(s)
  \/ SyncSteps
  \/ \E l \in MapKey : SniffRecall(l)
  \/ Reboot

SafeSpec == Init /\ [][Next]_vars

\* The tasks run; the autosave is due again and again until it is done.
Spec ==
  /\ SafeSpec
  /\ WF_vars(BootSteps)
  /\ WF_vars(FetchEnd \/ AutosaveWrite) /\ SF_vars(AutosaveCopy)
  /\ \A s \in Scanner : WF_vars(ScanSteps(s))

-----------------------------------------------------------------------------
Scans == [on : BOOLEAN, sa : 0 .. NumAddr, devices : Map, s2l : Lookup]

TypeOK ==
  /\ gear \in [SA -> LongAddr \cup {NoLong}]
  /\ input \in [SA -> LongAddr \cup {NoLong}]
  /\ devices \in Map /\ s2l \in Lookup /\ nvs \in Map
  /\ dirty \in BOOLEAN
  /\ main \in {"load", "validate", "scan", "run"}
  /\ scan \in [Scanner \cup {"boot"} -> Scans]
  /\ sync \in [pc : {"idle", "fetch", "write"}, sa : SA \cup {0},
               long : MapKey, copy : Map]
  /\ used \in [{"scans", "faults", "reboots", "recalls"} -> Nat]

\* What the lookup says is in the map: pollSingleDevice and the event handler
\* go from one to the other in two critical sections, and m_devices_mutex is
\* all that keeps the two together.  Holds of the map a scan is building, too.
Closed(m, lookup) == \A k \in Key : lookup[k] # NoLong => m[lookup[k]] # Absent
MapClosed ==
  /\ Closed(devices, s2l)
  /\ \A s \in DOMAIN scan : Closed(scan[s].devices, scan[s].s2l)

\* A gear exchanged for another while the bridge was off is noticed at boot:
\* the map the tasks start with does not give its short address another long
\* address.  (Runs without faults: the gear that is there has answered.)
BootMapTrue ==
  [][main # "run" /\ main' = "run" =>
       \A l \in Long, sa \in SA :
         devices'[l].kind = "gear" /\ devices'[l].sa = sa =>
           gear[sa] \in {NoLong, l}]_vars

\* The lookup by short address and the long address's own
\* short address are inverses of each other, through scans and reboots.
\* (Runs without input devices.)
LookupExact ==
  \A l \in Long, sa \in SA :
    devices[l].kind = "gear" => (devices[l].sa = sa <=> s2l[sa] = l)

\* What the map holds is in NVS, or the autosave knows that it is not.  A write
\* under way counts for what it will leave there.  A phantom is no device that
\* was found; nobody marks it for saving, and whether the record that stands for
\* all of them (NoLong) is in NVS is left open.
Agree(m, n) == \A l \in Long : m[l] = n[l]
Secured ==
  \/ dirty
  \/ sync.pc = "write" /\ Agree(Saved(sync.copy), Saved(devices))
  \/ sync.pc # "write" /\ Agree(nvs, Saved(devices))

ScanEnds == \E s \in DOMAIN scan : scan[s].on /\ ~scan'[s].on
\* Neither the autosave nor the scan looks at the result of save.
WriteFailed ==
  used' # used /\ (ScanEnds \/ (sync.pc = "write" /\ sync'.pc = "idle"))
\* A scan swaps and saves its map between the autosave's copy and its write.
Overtaken == sync.pc = "write" /\ ScanEnds

\* The dirty flag is cleared before the autosave writes, and by scans that know
\* nothing of a poll or an autosave half way; still nothing is forgotten that
\* a save could write, but by a failed write or a scan that overtakes one.
NothingForgotten ==
  [][main' = "run" /\ (main = "run" => Secured)
       => Secured' \/ WriteFailed \/ Overtaken]_vars

\* What the polls learn about the devices is saved in the end, as long as no
\* scan runs beside them (FoundIsSaved is about those) and no write fails.
EventuallySaved ==
  [](used.scans = 0 /\ used.faults = 0) /\ <>[](main = "run")
    => []<>Agree(nvs, Saved(devices))

\* docs/api/mqtt.md: an event's address type is "`long` (if mapped)".  Stated
\* of ProcessInputDeviceFrame's lookup for input devices the map knows.
InputEventsByLong ==
  main = "run" =>
    \A l \in Long : devices[l].kind = "input" => s2l[InputKey(devices[l].sa)] = l

\* README: "Found devices will be automatically saved".
FoundIsSaved ==
  main = "run" /\ ~dirty /\ sync.pc # "write" =>
    \A l \in Long : nvs[l].kind = devices[l].kind

=============================================================================
