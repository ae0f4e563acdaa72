--------------------------- MODULE DeviceMapProofs ---------------------------
(***************************************************************************)
(* Proofs about DeviceMap, for every number of addresses, every set of     *)
(* long addresses and every bound.                                         *)
(***************************************************************************)
EXTENDS DeviceMap, WellFoundedInduction, TLAPS

(***************************************************************************)
(* The operators of a scan.                                                *)
(***************************************************************************)

NewDevice(kind, sa) == [kind |-> kind, sa |-> sa, data |-> "missing"]

LEMMA NewDeviceFacts ==
  ASSUME NEW kind \in {"gear", "input"}, NEW sa \in SA
  PROVE  /\ NewDevice(kind, sa) \in Device
         /\ NewDevice(kind, sa) # Absent
         /\ NewDevice(kind, sa).kind = kind
         /\ NewDevice(kind, sa).sa = sa
BY DEF NewDevice, Device, Data, Absent

LEMMA LongFacts ==
  /\ LongAddr \subseteq Long /\ Long \subseteq MapKey
  /\ \A sa \in SA : Pseudo(sa) \in Long
  /\ NoLong \notin Long
<1>1. \A sa \in SA : Pseudo(sa) # NoLong
  BY LongAddrAssumption, SizeAssumption DEF SA, Pseudo, NoLong
<1>2. NoLong \notin LongAddr
  BY LongAddrAssumption DEF NoLong
<1> QED
  BY <1>1, <1>2 DEF Long, MapKey

\* A phantom is not at a short address.
LEMMA NoShortFacts == NoShort \notin SA /\ NoShort \notin Key
BY SizeAssumption DEF NoShort, SA, Key

\* emplace enters a device where there is none, and leaves the others alone.
LEMMA EmplaceFacts ==
  ASSUME NEW m \in Map, NEW l \in Long, NEW d \in Device, d # Absent
  PROVE  /\ Emplace(m, l, d) \in Map
         /\ Emplace(m, l, d)[l] # Absent
         /\ \A k \in Long : m[k] # Absent => Emplace(m, l, d)[k] = m[k]
         /\ \A k \in Long : k # l => Emplace(m, l, d)[k] = m[k]
         /\ m[l] = Absent => Emplace(m, l, d)[l] = d
BY LongFacts DEF Emplace, Map

\* One device entered in both maps keeps them closed.
Enter(p, key, l, d) == [p EXCEPT !.devices = Emplace(@, l, d), !.s2l[key] = l]

LEMMA EnterFacts ==
  ASSUME NEW p \in Scans, NEW l \in Long, NEW d \in Device, d # Absent,
         NEW key, Closed(p.devices, p.s2l)
  PROVE  LET q == Enter(p, key, l, d)
         IN q \in Scans /\ q.sa = p.sa /\ q.on = p.on /\ Closed(q.devices, q.s2l)
<1> DEFINE m == Emplace(p.devices, l, d)
           t == [p.s2l EXCEPT ![key] = l]
<1>1. p.devices \in Map /\ p.s2l \in Lookup /\ p.on \in BOOLEAN /\ p.sa \in 0 .. NumAddr
  BY DEF Scans
<1>2. m \in Map /\ m[l] # Absent /\ \A k \in Long : p.devices[k] # Absent => m[k] = p.devices[k]
  BY <1>1, EmplaceFacts
<1>3. t \in Lookup /\ \A k \in Key : t[k] = IF k = key THEN l ELSE p.s2l[k]
  BY <1>1, LongFacts DEF Lookup
<1>4. Enter(p, key, l, d) = [on |-> p.on, sa |-> p.sa, devices |-> m, s2l |-> t]
  <2>1. p = [on |-> p.on, sa |-> p.sa, devices |-> p.devices, s2l |-> p.s2l]
    BY DEF Scans
  <2>2. Enter(p, key, l, d) = [[p EXCEPT !.devices = m] EXCEPT !.s2l = t]
    BY <2>1, Zenon DEF Enter
  <2> HIDE DEF m, t
  <2> QED
    BY <2>1, <2>2
<1> HIDE DEF m, t
<1>5. Closed(m, t)
  <2> SUFFICES ASSUME NEW k \in Key, t[k] # NoLong
               PROVE  m[t[k]] # Absent
    BY DEF Closed
  <2>1. CASE k = key
    BY <2>1, <1>2, <1>3
  <2>2. CASE k # key
    <3>1. t[k] = p.s2l[k] /\ p.s2l[k] \in Long
      BY <2>2, <1>1, <1>3 DEF Lookup, MapKey
    <3>2. p.devices[p.s2l[k]] # Absent
      BY <3>1 DEF Closed
    <3> QED
      BY <3>1, <3>2, <1>2
  <2> QED
    BY <2>1, <2>2
<1> DEFINE r == [on |-> p.on, sa |-> p.sa, devices |-> m, s2l |-> t]
<1>6. r \in Scans
  BY <1>1, <1>2, <1>3 DEF Scans
<1>7. r.sa = p.sa /\ r.on = p.on /\ r.devices = m /\ r.s2l = t
  OBVIOUS
<1> HIDE DEF r
<1> QED
  BY <1>4, <1>5, <1>6, <1>7 DEF r

\* So does a round of the scan.
LEMMA FoundFacts ==
  ASSUME NEW p \in Scans, NEW sa \in SA, NEW heardGear \in BOOLEAN, NEW heardInput,
         gear \in [SA -> LongAddr \cup {NoLong}],
         input \in [SA -> LongAddr \cup {NoLong}],
         Closed(p.devices, p.s2l)
  PROVE  LET q == Found(p, sa, heardGear, heardInput)
         IN q \in Scans /\ q.sa = p.sa /\ q.on = p.on /\ Closed(q.devices, q.s2l)
<1> DEFINE g == gear[sa]
           i == IF heardInput = "status" THEN Pseudo(sa) ELSE input[sa]
           after == IF ~heardGear \/ g = NoLong THEN p
                    ELSE Enter(p, sa, g, NewDevice("gear", sa))
           both == Enter(after, InputKey(sa), i, NewDevice("input", sa))
           q == IF input[sa] = NoLong \/ heardInput = "nothing" THEN after ELSE both
<1>1. Found(p, sa, heardGear, heardInput) = q
  BY DEF Found, NewDevice, Enter
<1>2. g # NoLong => g \in Long
  BY LongFacts
<1>3. input[sa] # NoLong => i \in Long
  BY LongFacts
<1>4. after \in Scans /\ after.sa = p.sa /\ after.on = p.on /\ Closed(after.devices, after.s2l)
  <2> HIDE DEF g
  <2> QED
    BY <1>2, NewDeviceFacts, EnterFacts
<1>5. q \in Scans /\ q.sa = p.sa /\ q.on = p.on /\ Closed(q.devices, q.s2l)
  <2> HIDE DEF i, after
  <2> QED
    BY <1>3, <1>4, NewDeviceFacts, EnterFacts
<1> QED
  BY <1>1, <1>5

LEMMA EmptyFacts ==
  /\ EmptyMap \in Map /\ EmptyLookup \in Lookup
  /\ Closed(EmptyMap, EmptyLookup)
  /\ ScanIdle \in Scans /\ ScanNew \in Scans
  /\ Closed(ScanIdle.devices, ScanIdle.s2l)
  /\ Closed(ScanNew.devices, ScanNew.s2l)
  /\ SyncIdle \in [pc : {"idle", "fetch", "write"}, sa : SA \cup {0},
                   long : MapKey, copy : Map]
<1>1. EmptyMap \in Map /\ EmptyLookup \in Lookup /\ Closed(EmptyMap, EmptyLookup)
  BY DEF EmptyMap, EmptyLookup, Map, Lookup, Device, Closed, MapKey
<1>2. 0 \in 0 .. NumAddr
  BY SizeAssumption
<1>3. NoLong \in MapKey
  BY DEF MapKey
<1> HIDE DEF EmptyMap, EmptyLookup, Map, Lookup
<1> QED
  BY <1>1, <1>2, <1>3 DEF ScanIdle, ScanNew, SyncIdle, Scans

LEMMA SmallestOf ==
  ASSUME NEW S \in SUBSET Nat, S # {}
  PROVE  \E n \in S : \A k \in S : n <= k
<1>1. \E n \in S : \A k \in S : ~ (<<k, n>> \in OpToRel(<, Nat))
  BY NatLessThanWellFounded, WFMin
<1>2. PICK n \in S : \A k \in S : ~ (<<k, n>> \in OpToRel(<, Nat))
  BY <1>1
<1>3. \A a \in Nat, b \in Nat : b < a => <<b, a>> \in OpToRel(<, Nat)
  BY DEF OpToRel
<1>4. ASSUME NEW k \in S PROVE n <= k
  <2>1. n \in Nat /\ k \in Nat
    OBVIOUS
  <2>2. ~ (k < n)
    BY <1>2, <1>3, <2>1
  <2> QED
    BY <2>1, <2>2
<1> QED
  BY <1>4

LEMMA AnswersFacts ==
  ASSUME NEW d \in Device
  PROVE  /\ Answers(d) \in Device /\ Answers(d).data # "asked"
         /\ Answers(d).kind = d.kind /\ Answers(d).sa = d.sa
         /\ d = Absent <=> Answers(d) = Absent
         /\ d.data # "asked" => Answers(d) = d
BY DEF Answers, Device, Data, Absent

\* What a save writes of a device that has a long address: nothing of a phantom.
LEMMA SavedFacts ==
  ASSUME NEW m \in Map
  PROVE  /\ Saved(m) \in Map
         /\ \A l \in Long : Saved(m)[l] = IF m[l].kind = "gear" /\ m[l].sa = NoShort
                                            THEN Absent ELSE Answers(m[l])
<1>1. \A l \in Long : Saved(m)[l] = IF m[l].kind = "gear" /\ m[l].sa = NoShort
                                      THEN Absent ELSE Answers(m[l])
  BY LongFacts DEF Saved, Phantoms
<1>2. \A l \in MapKey : m[l] \in Device
  BY DEF Map
<1>3. \A l \in Long : Saved(m)[l] \in Device
  BY <1>1, <1>2, LongFacts, AnswersFacts DEF Device
<1>4. Saved(m)[NoLong] \in Device
  <2>1. CASE Phantoms(m) = {}
    <3>1. Saved(m)[NoLong] = Absent
      BY <2>1 DEF Saved, MapKey
    <3> QED
      BY <3>1 DEF Device
  <2>2. CASE Phantoms(m) # {}
    <3>1. Saved(m)[NoLong] = Answers(m[FirstPhantom(m)])
      BY <2>2 DEF Saved, MapKey
    <3>2. FirstPhantom(m) \in Phantoms(m)
      <4>1. Phantoms(m) \subseteq Nat
        <5>1. \A sa \in SA : Pseudo(sa) \in Nat
          BY LongAddrAssumption, SizeAssumption DEF Pseudo, SA
        <5>2. Long \subseteq Nat
          BY <5>1, LongAddrAssumption DEF Long
        <5>3. MapKey \subseteq Nat
          BY <5>2 DEF MapKey, NoLong
        <5> QED
          BY <5>3, Zenon DEF Phantoms
      <4>2. PICK n \in Phantoms(m) : \A k \in Phantoms(m) : n <= k
        BY <2>2, <4>1, SmallestOf
      <4> QED
        BY <4>2 DEF FirstPhantom
    <3>3. FirstPhantom(m) \in MapKey
      BY <3>2 DEF Phantoms
    <3> QED
      BY <3>1, <3>3, <1>2, AnswersFacts
  <2> QED
    BY <2>1, <2>2
<1>5. Saved(m) = [l \in MapKey |-> Saved(m)[l]]
  BY DEF Saved
<1>6. \A l \in MapKey : Saved(m)[l] \in Device
  BY <1>3, <1>4 DEF MapKey
<1> QED
  BY <1>1, <1>5, <1>6 DEF Map

(***************************************************************************)
(* Types, and the lookup closed in the map.                                *)
(***************************************************************************)

IInv == TypeOK /\ MapClosed

LEMMA InitInv == Init => IInv
<1> SUFFICES ASSUME Init PROVE IInv
  OBVIOUS
<1>1. TypeOK
  <2>1. used \in [{"scans", "faults", "reboots", "recalls"} -> Nat]
    BY DEF Init
  <2> QED
    BY <2>1, EmptyFacts DEF Init, TypeOK
<1>2. MapClosed
  BY EmptyFacts DEF Init, MapClosed
<1> QED
  BY <1>1, <1>2 DEF IInv

\* A bound used up stays a count.
LEMMA UseFacts ==
  ASSUME used \in [{"scans", "faults", "reboots", "recalls"} -> Nat],
         NEW what \in {"scans", "faults", "reboots", "recalls"}, Use(what)
  PROVE  used' \in [{"scans", "faults", "reboots", "recalls"} -> Nat]
BY DEF Use

LEMMA FaultFacts ==
  ASSUME used \in [{"scans", "faults", "reboots", "recalls"} -> Nat],
         Fault \/ UNCHANGED used
  PROVE  used' \in [{"scans", "faults", "reboots", "recalls"} -> Nat]
BY UseFacts DEF Fault

\* A scan starts.
LEMMA BeginFacts ==
  ASSUME IInv, NEW s \in Scanner \cup {"boot"},
         scan' = [scan EXCEPT ![s] = ScanNew] \/ scan' = [scan EXCEPT ![s] = ScanIdle]
  PROVE  /\ scan' \in [Scanner \cup {"boot"} -> Scans]
         /\ \A t \in DOMAIN scan' : Closed(scan'[t].devices, scan'[t].s2l)
<1>1. scan \in [Scanner \cup {"boot"} -> Scans]
  BY DEF IInv, TypeOK
<1>2. \A t \in DOMAIN scan : Closed(scan[t].devices, scan[t].s2l)
  BY DEF IInv, MapClosed
<1> QED
  BY <1>1, <1>2, EmptyFacts

LEMMA LoadInv == IInv /\ Load => IInv'
<1> SUFFICES ASSUME IInv, Load PROVE IInv'
  OBVIOUS
<1>1. TypeOK /\ MapClosed
  BY DEF IInv
<1>2. CASE nvs = EmptyMap
  <2>1. scan' = [scan EXCEPT !["boot"] = ScanNew] /\ main' = "scan"
        /\ UNCHANGED <<gear, input, devices, s2l, nvs, dirty, sync, used>>
    BY <1>2 DEF Load, mapVars, busVars
  <2> QED
    BY <1>1, <2>1, BeginFacts DEF IInv, TypeOK, MapClosed
<1>3. CASE nvs # EmptyMap
  <2>1. /\ main' = "validate" /\ devices' = nvs /\ s2l' \in Lookup
        /\ \A k \in Key : Entered(k, s2l'[k])
        /\ UNCHANGED <<gear, input, nvs, dirty, sync, scan, used>>
    BY <1>3 DEF Load, busVars
  <2>2. Closed(devices', s2l')
    <3> SUFFICES ASSUME NEW k \in Key, s2l'[k] # NoLong
                 PROVE  nvs[s2l'[k]] # Absent
      BY <2>1 DEF Closed
    <3> QED
      BY <2>1 DEF Entered
  <2> QED
    BY <1>1, <2>1, <2>2 DEF IInv, TypeOK, MapClosed
<1> QED
  BY <1>2, <1>3

LEMMA ValidateInv == IInv /\ Validate => IInv'
<1> SUFFICES ASSUME IInv, Validate PROVE IInv'
  OBVIOUS
<1>1. TypeOK /\ MapClosed
  BY DEF IInv
<1>2. /\ main' \in {"scan", "run"}
      /\ UNCHANGED scan \/ scan' = [scan EXCEPT !["boot"] = ScanNew]
      /\ Fault \/ UNCHANGED used
      /\ UNCHANGED <<gear, input, devices, s2l, nvs, dirty, sync>>
  BY DEF Validate, busVars, mapVars
<1>3. used' \in [{"scans", "faults", "reboots", "recalls"} -> Nat]
  BY <1>1, <1>2, FaultFacts DEF TypeOK
<1>4. /\ scan' \in [Scanner \cup {"boot"} -> Scans]
      /\ \A t \in DOMAIN scan' : Closed(scan'[t].devices, scan'[t].s2l)
  BY <1>1, <1>2, BeginFacts DEF TypeOK, MapClosed
<1> QED
  BY <1>1, <1>2, <1>3, <1>4 DEF IInv, TypeOK, MapClosed

LEMMA ScanBeginInv ==
  ASSUME IInv, NEW s \in Scanner, ScanBegin(s) \/ InitializeBegin(s)
  PROVE  IInv'
<1>1. TypeOK /\ MapClosed
  BY DEF IInv
<1>2. /\ gear' \in [SA -> LongAddr \cup {NoLong}]
      /\ input' \in [SA -> LongAddr \cup {NoLong}]
      /\ Use("scans")
      /\ scan' = [scan EXCEPT ![s] = ScanNew]
      /\ UNCHANGED <<devices, s2l, nvs, dirty, main, sync>>
  BY <1>1 DEF ScanBegin, InitializeBegin, busVars, mapVars, TypeOK
<1>3. used' \in [{"scans", "faults", "reboots", "recalls"} -> Nat]
  BY <1>1, <1>2, UseFacts DEF TypeOK
<1>4. /\ scan' \in [Scanner \cup {"boot"} -> Scans]
      /\ \A t \in DOMAIN scan' : Closed(scan'[t].devices, scan'[t].s2l)
  BY <1>2, BeginFacts
<1> QED
  BY <1>1, <1>2, <1>3, <1>4 DEF IInv, TypeOK, MapClosed

LEMMA ScanAddressInv ==
  ASSUME IInv, NEW s \in Scanner \cup {"boot"}, ScanAddress(s)
  PROVE  IInv'
<1>1. TypeOK /\ MapClosed
  BY DEF IInv
<1>2. PICK heardGear \in BOOLEAN, heardInput \in {"nothing", "status", "all"} :
        /\ Fault \/ UNCHANGED used
        /\ scan' = [scan EXCEPT ![s] =
             [Found(scan[s], scan[s].sa, heardGear, heardInput) EXCEPT !.sa = @ + 1]]
  BY DEF ScanAddress
<1>3. scan[s] \in Scans /\ scan[s].sa \in SA /\ Closed(scan[s].devices, scan[s].s2l)
  BY <1>1 DEF TypeOK, MapClosed, ScanAddress
<1> DEFINE q == Found(scan[s], scan[s].sa, heardGear, heardInput)
           r == [q EXCEPT !.sa = @ + 1]
<1>4. q \in Scans /\ q.sa \in SA /\ Closed(q.devices, q.s2l)
  BY <1>1, <1>3, FoundFacts DEF TypeOK
<1>5. scan' = [scan EXCEPT ![s] = r]
  BY <1>2
<1> HIDE DEF q
<1>6. r \in Scans /\ Closed(r.devices, r.s2l)
  <2>1. q.sa + 1 \in 0 .. NumAddr
    BY <1>4, SizeAssumption DEF SA
  <2>2. r.devices = q.devices /\ r.s2l = q.s2l /\ r \in Scans
    BY <1>4, <2>1 DEF Scans
  <2> QED
    BY <1>4, <2>2
<1> HIDE DEF r
<1>7. /\ scan' \in [Scanner \cup {"boot"} -> Scans]
      /\ \A t \in DOMAIN scan' : Closed(scan'[t].devices, scan'[t].s2l)
  BY <1>1, <1>5, <1>6 DEF TypeOK, MapClosed
<1>8. used' \in [{"scans", "faults", "reboots", "recalls"} -> Nat]
  BY <1>1, <1>2, FaultFacts DEF TypeOK
<1>9. UNCHANGED <<gear, input, devices, s2l, nvs, dirty, main, sync>>
  BY DEF ScanAddress, busVars, mapVars
<1> QED
  BY <1>1, <1>7, <1>8, <1>9 DEF IInv, TypeOK, MapClosed

LEMMA ScanSwapInv ==
  ASSUME IInv, NEW s \in Scanner \cup {"boot"}, ScanSwap(s)
  PROVE  IInv'
<1>1. TypeOK /\ MapClosed
  BY DEF IInv
<1>2. /\ devices' = scan[s].devices /\ s2l' = scan[s].s2l
      /\ nvs' = Saved(devices') \/ UNCHANGED nvs
      /\ Fault \/ UNCHANGED used
      /\ dirty' = FALSE /\ scan' = [scan EXCEPT ![s] = ScanIdle]
      /\ main' = IF s = "boot" THEN "run" ELSE main
      /\ UNCHANGED <<gear, input, sync>>
  BY DEF ScanSwap, busVars
<1>3. devices' \in Map /\ s2l' \in Lookup /\ Closed(devices', s2l')
  BY <1>1, <1>2 DEF TypeOK, MapClosed, Scans
<1>4. nvs' \in Map
  BY <1>1, <1>2, <1>3, SavedFacts DEF TypeOK
<1>5. used' \in [{"scans", "faults", "reboots", "recalls"} -> Nat]
  BY <1>1, <1>2, FaultFacts DEF TypeOK
<1>6. /\ scan' \in [Scanner \cup {"boot"} -> Scans]
      /\ \A t \in DOMAIN scan' : Closed(scan'[t].devices, scan'[t].s2l)
  BY <1>2, BeginFacts
<1> QED
  BY <1>1, <1>2, <1>3, <1>4, <1>5, <1>6 DEF IInv, TypeOK, MapClosed

LEMMA SyncInv == IInv /\ SyncSteps => IInv'
<1> SUFFICES ASSUME IInv, SyncSteps PROVE IInv'
  OBVIOUS
<1>1. TypeOK /\ MapClosed
  BY DEF IInv
<1> DEFINE Sync == [pc : {"idle", "fetch", "write"}, sa : SA \cup {0},
                    long : MapKey, copy : Map]
<1>2. ASSUME NEW sa \in SA, FetchBegin(sa) PROVE IInv'
  <2>1. /\ sync' = [SyncIdle EXCEPT !.pc = "fetch", !.sa = sa, !.long = s2l[sa]]
        /\ UNCHANGED <<gear, input, devices, s2l, nvs, dirty, main, scan, used>>
    BY <1>2 DEF FetchBegin, busVars, mapVars
  <2>2. s2l[sa] \in MapKey
    <3>1. sa \in Key
      BY SizeAssumption DEF SA, Key
    <3> QED
      BY <1>1, <3>1 DEF TypeOK, Lookup
  <2>3. sync' \in Sync
    BY <2>1, <2>2, EmptyFacts DEF SyncIdle
  <2> QED
    BY <1>1, <2>1, <2>3 DEF IInv, TypeOK, MapClosed
<1>3. CASE FetchEnd
  <2>1. PICK answered \in BOOLEAN :
          /\ Fault \/ UNCHANGED used
          /\ \/ /\ devices[sync.long].kind = "gear"
                /\ devices' = [devices EXCEPT ![sync.long].data =
                                 IF answered THEN "known" ELSE "asked"]
                /\ dirty' = (dirty \/ answered)
             \/ UNCHANGED <<devices, dirty>>
          /\ sync' = SyncIdle
          /\ UNCHANGED <<gear, input, s2l, nvs, main, scan>>
    BY <1>3 DEF FetchEnd, busVars
  <2>2. devices' \in Map /\ \A l \in MapKey : devices[l] # Absent => devices'[l] # Absent
    <3>1. CASE UNCHANGED devices
      BY <1>1, <3>1 DEF TypeOK
    <3>2. CASE /\ devices[sync.long].kind = "gear"
               /\ devices' = [devices EXCEPT ![sync.long].data =
                                IF answered THEN "known" ELSE "asked"]
      <4>1. devices \in Map
        BY <1>1 DEF TypeOK
      <4>2. \A l \in MapKey : devices[l] \in Device
        BY <4>1 DEF Map
      <4>3. \A l \in MapKey : l = sync.long =>
              devices'[l] = [devices[l] EXCEPT !.data =
                               IF answered THEN "known" ELSE "asked"]
        BY <3>2, <4>1 DEF Map
      <4>4. \A l \in MapKey : l # sync.long => devices'[l] = devices[l]
        BY <3>2, <4>1 DEF Map
      <4>5. \A l \in MapKey : l = sync.long =>
              devices'[l] \in Device /\ devices'[l] # Absent
        BY <3>2, <4>2, <4>3 DEF Device, Absent, Data
      <4>6. devices' = [l \in MapKey |-> devices'[l]]
        BY <3>2, <4>1 DEF Map
      <4> QED
        BY <4>2, <4>4, <4>5, <4>6 DEF Map
    <3> QED
      BY <2>1, <3>1, <3>2
  <2>3. Closed(devices', s2l')
    BY <1>1, <2>1, <2>2 DEF MapClosed, Closed, TypeOK, Lookup
  <2>4. used' \in [{"scans", "faults", "reboots", "recalls"} -> Nat]
    BY <1>1, <2>1, FaultFacts DEF TypeOK
  <2>5. dirty' \in BOOLEAN
    BY <1>1, <2>1 DEF TypeOK
  <2> QED
    BY <1>1, <2>1, <2>2, <2>3, <2>4, <2>5, EmptyFacts DEF IInv, TypeOK, MapClosed
<1>4. CASE AutosaveCopy
  <2>1. /\ sync' = [SyncIdle EXCEPT !.pc = "write", !.copy = devices]
        /\ dirty' = FALSE
        /\ UNCHANGED <<gear, input, devices, s2l, nvs, main, scan, used>>
    BY <1>4 DEF AutosaveCopy, busVars, mapVars
  <2>2. sync' \in Sync
    BY <1>1, <2>1, EmptyFacts DEF SyncIdle, TypeOK
  <2> QED
    BY <1>1, <2>1, <2>2 DEF IInv, TypeOK, MapClosed
<1>5. CASE AutosaveWrite
  <2>1. /\ nvs' = Saved(sync.copy) \/ UNCHANGED nvs
        /\ Fault \/ UNCHANGED used
        /\ sync' = SyncIdle
        /\ UNCHANGED <<gear, input, devices, s2l, dirty, main, scan>>
    BY <1>5 DEF AutosaveWrite, busVars, mapVars
  <2>2. sync.copy \in Map
    BY <1>1 DEF TypeOK
  <2>3. nvs' \in Map
    BY <1>1, <2>1, <2>2, SavedFacts DEF TypeOK
  <2>4. used' \in [{"scans", "faults", "reboots", "recalls"} -> Nat]
    BY <1>1, <2>1, FaultFacts DEF TypeOK
  <2> QED
    BY <1>1, <2>1, <2>3, <2>4, EmptyFacts DEF IInv, TypeOK, MapClosed
<1> QED
  BY <1>2, <1>3, <1>4, <1>5 DEF SyncSteps

LEMMA RecallFacts ==
  ASSUME TypeOK, NEW l \in MapKey, SniffRecall(l)
  PROVE  /\ devices[l] = Absent /\ devices'[l] = Phantom /\ main = "run"
         /\ \A k \in MapKey : k # l => devices'[k] = devices[k]
         /\ devices' \in Map
         /\ used' \in [{"scans", "faults", "reboots", "recalls"} -> Nat]
         /\ UNCHANGED <<gear, input, s2l, nvs, dirty, main, scan, sync>>
<1>1. Phantom \in Device
  BY DEF Phantom, Device, Data
<1>2. devices \in Map
  BY DEF TypeOK
<1>3. used' \in [{"scans", "faults", "reboots", "recalls"} -> Nat]
  BY UseFacts DEF SniffRecall, TypeOK
<1> QED
  BY <1>1, <1>2, <1>3 DEF SniffRecall, Map, busVars

LEMMA RecallInv ==
  ASSUME IInv, NEW l \in MapKey, SniffRecall(l)
  PROVE  IInv'
<1>1. TypeOK /\ MapClosed
  BY DEF IInv
<1>2. \A k \in MapKey : devices[k] # Absent => devices'[k] # Absent
  BY <1>1, RecallFacts
<1>3. Closed(devices', s2l')
  BY <1>1, <1>2, RecallFacts DEF MapClosed, Closed, TypeOK, Lookup
<1> QED
  BY <1>1, <1>3, RecallFacts DEF IInv, TypeOK, MapClosed

LEMMA RebootInv == IInv /\ Reboot => IInv'
<1> SUFFICES ASSUME IInv, Reboot PROVE IInv'
  OBVIOUS
<1>1. TypeOK
  BY DEF IInv
<1>2. used' \in [{"scans", "faults", "reboots", "recalls"} -> Nat]
  BY <1>1, UseFacts DEF Reboot, TypeOK
<1>3. TypeOK'
  BY <1>1, <1>2, EmptyFacts DEF Reboot, TypeOK
<1>4. MapClosed'
  BY EmptyFacts DEF Reboot, MapClosed
<1> QED
  BY <1>3, <1>4 DEF IInv

LEMMA StepInv == IInv /\ [Next]_vars => IInv'
<1> SUFFICES ASSUME IInv, [Next]_vars PROVE IInv'
  OBVIOUS
<1>1. CASE UNCHANGED vars
  BY <1>1 DEF vars, IInv, TypeOK, MapClosed
<1>2. CASE BootSteps
  BY <1>2, LoadInv, ValidateInv, ScanAddressInv, ScanSwapInv DEF BootSteps
<1>3. ASSUME NEW s \in Scanner, ScanBegin(s) \/ InitializeBegin(s) \/ ScanSteps(s)
      PROVE  IInv'
  BY <1>3, ScanBeginInv, ScanAddressInv, ScanSwapInv DEF ScanSteps
<1> QED
  BY <1>1, <1>2, <1>3, SyncInv, RecallInv, RebootInv DEF Next

\* The types are right in every reachable state.
THEOREM TypeCorrect == SafeSpec => []TypeOK
<1>1. IInv => TypeOK
  BY DEF IInv
<1> QED
  BY InitInv, StepInv, <1>1, PTL DEF SafeSpec

\* Whoever scans, polls, loses replies or fails to write, the long address the
\* lookup gives is in the map, so that pollSingleDevice and the event handler
\* find the device.
THEOREM LookupClosed == SafeSpec => []MapClosed
<1>1. IInv => MapClosed
  BY DEF IInv
<1> QED
  BY InitInv, StepInv, <1>1, PTL DEF SafeSpec

(***************************************************************************)
(* The gear a scan has found is the gear on the bus, and the map the boot  *)
(* ends with says so, provided that no reply is lost.                      *)
(***************************************************************************)

OnTheBus(m, g) ==
  \A l \in Long : m[l].kind = "gear" =>
    l \in LongAddr /\ m[l].sa \in SA /\ g[m[l].sa] = l

ScansTrue == \A s \in Scanner \cup {"boot"} : OnTheBus(scan[s].devices, gear)

LEMMA EmptyOnTheBus ==
  ASSUME NEW g
  PROVE  OnTheBus(ScanIdle.devices, g) /\ OnTheBus(ScanNew.devices, g)
BY LongFacts DEF OnTheBus, ScanIdle, ScanNew, EmptyMap, Absent

\* A device entered is on the bus if it is an input device or the gear there.
LEMMA EnterOnTheBus ==
  ASSUME NEW p \in Scans, NEW l \in Long, NEW kind \in {"gear", "input"},
         NEW sa \in SA, NEW key, NEW g, OnTheBus(p.devices, g),
         kind = "gear" => l \in LongAddr /\ g[sa] = l
  PROVE  OnTheBus(Enter(p, key, l, NewDevice(kind, sa)).devices, g)
<1> DEFINE d == NewDevice(kind, sa)
           m == Emplace(p.devices, l, d)
<1>1. p.devices \in Map
  BY DEF Scans
<1>2. d \in Device /\ d # Absent /\ d.kind = kind /\ d.sa = sa
  BY NewDeviceFacts
<1>3. Enter(p, key, l, d).devices = m
  <2>1. p = [on |-> p.on, sa |-> p.sa, devices |-> p.devices, s2l |-> p.s2l]
    BY DEF Scans
  <2> QED
    BY <2>1 DEF Enter
<1> HIDE DEF d
<1>4. CASE p.devices[l] = Absent
  <2>1. m[l] = d /\ \A k \in Long : k # l => m[k] = p.devices[k]
    BY <1>1, <1>2, <1>4, EmplaceFacts
  <2> HIDE DEF m
  <2>2. OnTheBus(m, g)
    BY <1>2, <2>1 DEF OnTheBus
  <2> QED
    BY <1>3, <2>2 DEF d
<1>5. CASE p.devices[l] # Absent
  BY <1>3, <1>5 DEF d, Emplace
<1> QED
  BY <1>4, <1>5

LEMMA FoundOnTheBus ==
  ASSUME NEW p \in Scans, NEW sa \in SA, NEW heardGear \in BOOLEAN, NEW heardInput,
         gear \in [SA -> LongAddr \cup {NoLong}],
         input \in [SA -> LongAddr \cup {NoLong}],
         Closed(p.devices, p.s2l), OnTheBus(p.devices, gear)
  PROVE  OnTheBus(Found(p, sa, heardGear, heardInput).devices, gear)
<1> DEFINE g == gear[sa]
           i == IF heardInput = "status" THEN Pseudo(sa) ELSE input[sa]
           after == IF ~heardGear \/ g = NoLong THEN p
                    ELSE Enter(p, sa, g, NewDevice("gear", sa))
           both == Enter(after, InputKey(sa), i, NewDevice("input", sa))
           q == IF input[sa] = NoLong \/ heardInput = "nothing" THEN after ELSE both
<1>1. Found(p, sa, heardGear, heardInput) = q
  BY DEF Found, NewDevice, Enter
<1>2. g # NoLong => g \in Long /\ g \in LongAddr
  BY LongFacts
<1>3. input[sa] # NoLong => i \in Long
  BY LongFacts
<1>4. after \in Scans /\ OnTheBus(after.devices, gear)
  <2>1. CASE ~heardGear \/ g = NoLong
    BY <2>1
  <2>2. CASE ~(~heardGear \/ g = NoLong)
    <3>1. after = Enter(p, sa, g, NewDevice("gear", sa)) /\ g \in Long
          /\ g \in LongAddr /\ gear[sa] = g
      BY <2>2, <1>2
    <3> HIDE DEF g, after
    <3>2. after \in Scans
      BY <3>1, NewDeviceFacts, EnterFacts
    <3>3. OnTheBus(after.devices, gear)
      BY <3>1, EnterOnTheBus
    <3> QED
      BY <3>2, <3>3
  <2> QED
    BY <2>1, <2>2
<1>5. OnTheBus(q.devices, gear)
  <2> HIDE DEF i, after
  <2> QED
    BY <1>3, <1>4, EnterOnTheBus
<1> QED
  BY <1>1, <1>5

\* The result of a step on one scan, or none.
LEMMA ScansTrueStep == IInv /\ ScansTrue /\ [Next]_vars => ScansTrue'
<1> SUFFICES ASSUME IInv, ScansTrue, [Next]_vars PROVE ScansTrue'
  OBVIOUS
<1>1. TypeOK /\ MapClosed
  BY DEF IInv
<1>2. scan \in [Scanner \cup {"boot"} -> Scans]
  BY <1>1 DEF TypeOK
<1>3. ASSUME UNCHANGED scan, UNCHANGED gear
      PROVE  ScansTrue'
  BY <1>3 DEF ScansTrue
<1>4. ASSUME NEW s \in Scanner \cup {"boot"}, UNCHANGED gear,
             scan' = [scan EXCEPT ![s] = ScanNew] \/ scan' = [scan EXCEPT ![s] = ScanIdle]
      PROVE  ScansTrue'
  BY <1>2, <1>4, EmptyOnTheBus DEF ScansTrue
<1>5. CASE Load
  BY <1>3, <1>4, <1>5 DEF Load, busVars
<1>6. CASE Validate
  BY <1>3, <1>4, <1>6 DEF Validate, busVars
<1>7. ASSUME NEW s \in Scanner, ScanBegin(s)
      PROVE  ScansTrue'
  BY <1>4, <1>7 DEF ScanBegin, busVars
<1>8. ASSUME NEW s \in Scanner, InitializeBegin(s)
      PROVE  ScansTrue'
  <2>1. /\ scan' = [scan EXCEPT ![s] = ScanNew]
        /\ \A sa \in SA : gear[sa] # NoLong => gear'[sa] = gear[sa]
    BY <1>8 DEF InitializeBegin
  <2>2. ASSUME NEW t \in Scanner \cup {"boot"} PROVE OnTheBus(scan[t].devices, gear')
    <3> SUFFICES ASSUME NEW l \in Long, scan[t].devices[l].kind = "gear"
                 PROVE  /\ l \in LongAddr /\ scan[t].devices[l].sa \in SA
                        /\ gear'[scan[t].devices[l].sa] = l
      BY DEF OnTheBus
    <3>1. /\ l \in LongAddr /\ scan[t].devices[l].sa \in SA
          /\ gear[scan[t].devices[l].sa] = l
      BY DEF ScansTrue, OnTheBus
    <3>2. l # NoLong
      BY <3>1, LongAddrAssumption DEF NoLong
    <3> QED
      BY <2>1, <3>1, <3>2
  <2> QED
    BY <1>2, <2>1, <2>2, EmptyOnTheBus DEF ScansTrue
<1>9. ASSUME NEW s \in Scanner \cup {"boot"}, ScanAddress(s)
      PROVE  ScansTrue'
  <2>1. PICK heardGear \in BOOLEAN, heardInput \in {"nothing", "status", "all"} :
          scan' = [scan EXCEPT ![s] =
             [Found(scan[s], scan[s].sa, heardGear, heardInput) EXCEPT !.sa = @ + 1]]
    BY <1>9 DEF ScanAddress
  <2> DEFINE q == Found(scan[s], scan[s].sa, heardGear, heardInput)
             r == [q EXCEPT !.sa = @ + 1]
  <2>2. scan[s] \in Scans /\ scan[s].sa \in SA /\ Closed(scan[s].devices, scan[s].s2l)
        /\ OnTheBus(scan[s].devices, gear)
    BY <1>1, <1>9 DEF TypeOK, MapClosed, ScanAddress, ScansTrue
  <2>3. q \in Scans /\ OnTheBus(q.devices, gear)
    BY <1>1, <2>2, FoundFacts, FoundOnTheBus DEF TypeOK
  <2>4. UNCHANGED gear
    BY <1>9 DEF ScanAddress, busVars
  <2>5. scan' = [scan EXCEPT ![s] = r]
    BY <2>1
  <2> HIDE DEF q
  <2>6. r.devices = q.devices
    BY <2>3 DEF Scans
  <2> HIDE DEF r
  <2> QED
    BY <1>2, <2>3, <2>4, <2>5, <2>6 DEF ScansTrue
<1>10. ASSUME NEW s \in Scanner \cup {"boot"}, ScanSwap(s)
       PROVE  ScansTrue'
  BY <1>4, <1>10 DEF ScanSwap, busVars
<1>11. CASE SyncSteps
  BY <1>3, <1>11 DEF SyncSteps, FetchBegin, FetchEnd, AutosaveCopy, AutosaveWrite, busVars
<1>12. CASE Reboot
  BY <1>12, EmptyOnTheBus DEF Reboot, ScansTrue
<1>14. ASSUME NEW l \in MapKey, SniffRecall(l)
       PROVE  ScansTrue'
  BY <1>3, <1>14 DEF SniffRecall, busVars
<1>13. CASE UNCHANGED vars
  BY <1>3, <1>13 DEF vars
<1> QED
  BY <1>5, <1>6, <1>7, <1>8, <1>9, <1>10, <1>11, <1>12, <1>13, <1>14
  DEF Next, BootSteps, ScanSteps

\* Without lost replies, a boot ends with a map that gives no short address the
\* long address of a gear that is not there.
THEOREM BootFindsExchangedGear == MaxFaults = 0 => (SafeSpec => BootMapTrue)
<1> SUFFICES ASSUME MaxFaults = 0 PROVE SafeSpec => BootMapTrue
  OBVIOUS
<1>1. Init => ScansTrue
  BY EmptyOnTheBus DEF Init, ScansTrue
<1> DEFINE StepTrue ==
      main # "run" /\ main' = "run" =>
        \A l \in Long, sa \in SA :
          devices'[l].kind = "gear" /\ devices'[l].sa = sa => gear[sa] \in {NoLong, l}
<1>2. IInv /\ ScansTrue /\ [Next]_vars => [StepTrue]_vars
  <2> SUFFICES ASSUME IInv, ScansTrue, Next, main # "run", main' = "run",
                      NEW l \in Long, devices'[l].kind = "gear", devices'[l].sa \in SA
               PROVE  gear[devices'[l].sa] \in {NoLong, l}
    OBVIOUS
  <2>1. TypeOK
    BY DEF IInv
  <2>2. CASE Validate
    <3>1. ~Fault
      BY <2>1, SizeAssumption DEF Fault, TypeOK
    <3>2. ~Conflicts(SA) /\ UNCHANGED devices
      BY <2>2, <3>1 DEF Validate, mapVars
    <3>4. devices[l] # Absent /\ devices[l].sa \in SA
      BY <3>2 DEF Absent
    <3> QED
      BY <3>2, <3>4 DEF Conflicts
  <2>3. ASSUME NEW s \in Scanner \cup {"boot"}, ScanSwap(s)
        PROVE  gear[devices'[l].sa] = l
    BY <2>3 DEF ScanSwap, ScansTrue, OnTheBus
  <2>4. CASE Load
    BY <2>4 DEF Load
  <2>5. ASSUME NEW s \in Scanner \cup {"boot"},
               ScanBegin(s) \/ InitializeBegin(s) \/ ScanAddress(s)
        PROVE  FALSE
    BY <2>5 DEF ScanBegin, InitializeBegin, ScanAddress
  <2>6. CASE SyncSteps
    BY <2>6 DEF SyncSteps, FetchBegin, FetchEnd, AutosaveCopy, AutosaveWrite
  <2>7. (\E k \in MapKey : SniffRecall(k)) \/ Reboot => FALSE
    BY DEF Reboot, SniffRecall
  <2> QED
    BY <2>2, <2>3, <2>4, <2>5, <2>6, <2>7 DEF Next, BootSteps, ScanSteps
<1>3. BootMapTrue <=> [][StepTrue]_vars
  BY DEF BootMapTrue
<1> QED
  BY InitInv, StepInv, ScansTrueStep, <1>1, <1>2, <1>3, PTL DEF SafeSpec

(***************************************************************************)
(* Without input devices on the bus, the lookup and the short addresses of *)
(* the map are inverses of each other.                                     *)
(***************************************************************************)

\* Only gear is in the map; the lookup is its inverse.
OnlyGear(m) == \A l \in Long : m[l] = Absent \/ m[l].kind = "gear"
Exact(m, t) ==
  \A l \in Long, sa \in SA : m[l].kind = "gear" => (m[l].sa = sa <=> t[sa] = l)
Injective(m) ==
  \A l, k \in Long :
    m[l].kind = "gear" /\ m[k].kind = "gear" /\ m[l].sa = m[k].sa /\ m[l].sa \in SA
      => l = k

\* Maps that differ in their static data only.
SameGear(m, n) ==
  \A l \in Long : /\ m[l].kind = n[l].kind
                  /\ m[l].sa = n[l].sa
                  /\ m[l] = Absent <=> n[l] = Absent

LEMMA SameGearFacts ==
  ASSUME NEW m, NEW n, SameGear(m, n)
  PROVE  /\ OnlyGear(m) => OnlyGear(n)
         /\ Injective(m) => Injective(n)
         /\ \A t : Exact(m, t) => Exact(n, t)
<1>1. OnlyGear(m) => OnlyGear(n)
  BY DEF SameGear, OnlyGear
<1>2. Injective(m) => Injective(n)
  BY DEF SameGear, Injective
<1>3. \A t : Exact(m, t) => Exact(n, t)
  BY DEF SameGear, Exact
<1> QED
  BY <1>1, <1>2, <1>3

\* A save adds no device.
LEMMA SavedGear ==
  ASSUME NEW m \in Map, OnlyGear(m), Injective(m)
  PROVE  OnlyGear(Saved(m)) /\ Injective(Saved(m))
<1>1. \A l \in Long : \/ Saved(m)[l] = Absent
                      \/ Saved(m)[l].kind = m[l].kind /\ Saved(m)[l].sa = m[l].sa
  <2> SUFFICES ASSUME NEW l \in Long
               PROVE  \/ Saved(m)[l] = Absent
                      \/ Saved(m)[l].kind = m[l].kind /\ Saved(m)[l].sa = m[l].sa
    OBVIOUS
  <2>1. m[l] \in Device
    BY LongFacts DEF Map
  <2> QED
    BY <2>1, SavedFacts, AnswersFacts
<1>2. \A l \in Long : Saved(m)[l] = Absent => Saved(m)[l].kind # "gear"
  BY DEF Absent
<1>3. \A l \in Long : m[l] = Absent => m[l].kind # "gear" /\ Saved(m)[l] = Absent
  BY SavedFacts DEF Absent, Answers
<1>4. OnlyGear(Saved(m))
  BY <1>1, <1>3 DEF OnlyGear
<1>5. Injective(Saved(m))
  BY <1>1, <1>2 DEF Injective
<1> QED
  BY <1>4, <1>5

LEMMA ExactInjective ==
  ASSUME NEW m \in Map, NEW t, Exact(m, t)
  PROVE  Injective(m)
<1> SUFFICES ASSUME NEW l \in Long, NEW k \in Long,
                    m[l].kind = "gear", m[k].kind = "gear", m[l].sa = m[k].sa,
                    m[l].sa \in SA
             PROVE  l = k
  BY DEF Injective
<1> QED
  BY DEF Exact

LEMMA EmptyExact ==
  /\ OnlyGear(EmptyMap) /\ Exact(EmptyMap, EmptyLookup) /\ Injective(EmptyMap)
BY LongFacts DEF OnlyGear, Exact, Injective, EmptyMap, Absent

ScanExact(p) == OnlyGear(p.devices) /\ Exact(p.devices, p.s2l)

ExactInv ==
  /\ Bus(gear, input)
  /\ OnlyGear(devices) /\ Exact(devices, s2l)
  /\ \A s \in Scanner \cup {"boot"} : ScanExact(scan[s])
  /\ OnlyGear(nvs) /\ Injective(nvs)
  /\ OnlyGear(sync.copy) /\ Injective(sync.copy)

\* A gear found on a bus without doubles is entered exactly.
LEMMA EnterExact ==
  ASSUME NEW p \in Scans, Closed(p.devices, p.s2l), ScanExact(p),
         OnTheBus(p.devices, gear), NEW sa \in SA, NEW g \in LongAddr,
         gear \in [SA -> LongAddr \cup {NoLong}], gear[sa] = g,
         \A a, b \in SA : a # b /\ gear[a] # NoLong => gear[a] # gear[b]
  PROVE  ScanExact(Enter(p, sa, g, NewDevice("gear", sa)))
<1> DEFINE d == NewDevice("gear", sa)
           m == Emplace(p.devices, g, d)
           t == [p.s2l EXCEPT ![sa] = g]
<1>1. p.devices \in Map /\ p.s2l \in Lookup
  BY DEF Scans
<1>2. d \in Device /\ d # Absent /\ d.kind = "gear" /\ d.sa = sa
  BY NewDeviceFacts
<1>3. g \in Long /\ g # NoLong
  BY LongFacts, LongAddrAssumption DEF NoLong
<1>4. /\ Enter(p, sa, g, d).devices = m
      /\ Enter(p, sa, g, d).s2l = t
  <2>1. p = [on |-> p.on, sa |-> p.sa, devices |-> p.devices, s2l |-> p.s2l]
    BY DEF Scans
  <2> QED
    BY <2>1 DEF Enter
<1> HIDE DEF d
<1>5. /\ m[g] = d \/ (m[g] = p.devices[g] /\ p.devices[g] # Absent)
      /\ \A k \in Long : k # g => m[k] = p.devices[k]
  BY <1>1, <1>2, <1>3, EmplaceFacts
<1>6. sa \in Key /\ SA \subseteq Key
  BY SizeAssumption DEF SA, Key
<1>7. \A k \in SA : t[k] = IF k = sa THEN g ELSE p.s2l[k]
  BY <1>1, <1>6 DEF Lookup
<1>8. OnlyGear(m)
  BY <1>2, <1>3, <1>5 DEF OnlyGear, ScanExact
<1>9. \A l \in Long : p.devices[l].kind = "gear" =>
         p.devices[l].sa \in SA /\ gear[p.devices[l].sa] = l /\ l # NoLong
  <2> SUFFICES ASSUME NEW l \in Long, p.devices[l].kind = "gear"
               PROVE  p.devices[l].sa \in SA /\ gear[p.devices[l].sa] = l /\ l # NoLong
    OBVIOUS
  <2> QED
    BY LongFacts DEF OnTheBus
<1>10. m[g].kind = "gear" /\ m[g].sa = sa
  <2>1. CASE m[g] = d
    BY <2>1, <1>2
  <2>2. CASE m[g] = p.devices[g] /\ p.devices[g] # Absent
    <3>1. p.devices[g].kind = "gear"
      BY <2>2, <1>3 DEF ScanExact, OnlyGear
    <3> QED
      BY <2>2, <3>1, <1>3, <1>9
  <2> QED
    BY <1>5, <2>1, <2>2
<1> HIDE DEF m, t
<1>11. \A k \in SA : p.s2l[k] = g => k = sa
  <2> SUFFICES ASSUME NEW k \in SA, p.s2l[k] = g PROVE k = sa
    OBVIOUS
  <2>1. p.devices[g] # Absent
    BY <1>3, <1>6 DEF Closed
  <2>2. p.devices[g].kind = "gear"
    BY <2>1, <1>3 DEF ScanExact, OnlyGear
  <2>3. p.devices[g].sa = k
    BY <2>2, <1>3 DEF ScanExact, Exact
  <2> QED
    BY <2>2, <2>3, <1>3, <1>9
<1>12. Exact(m, t)
  <2> SUFFICES ASSUME NEW l \in Long, NEW k \in SA, m[l].kind = "gear"
               PROVE  m[l].sa = k <=> t[k] = l
    BY DEF Exact
  <2>1. CASE l = g
    BY <2>1, <1>7, <1>10, <1>11
  <2>2. CASE l # g
    <3>1. m[l] = p.devices[l] /\ gear[m[l].sa] = l
      BY <2>2, <1>5, <1>9
    <3>2. m[l].sa # sa
      BY <2>2, <3>1
    <3>3. m[l].sa = k <=> p.s2l[k] = l
      BY <3>1 DEF ScanExact, Exact
    <3> QED
      BY <2>2, <3>2, <3>3, <1>7
  <2> QED
    BY <2>1, <2>2
<1> QED
  BY <1>4, <1>8, <1>12 DEF ScanExact, d

LEMMA ExactStep ==
  ~Inputs /\ IInv /\ ScansTrue /\ ExactInv /\ [Next]_vars => ExactInv'
<1> SUFFICES ASSUME ~Inputs, IInv, ScansTrue, ExactInv, [Next]_vars PROVE ExactInv'
  OBVIOUS
<1>1. TypeOK /\ MapClosed
  BY DEF IInv
<1>2. scan \in [Scanner \cup {"boot"} -> Scans] /\ devices \in Map /\ nvs \in Map
      /\ sync.copy \in Map
  BY <1>1 DEF TypeOK
<1>3. Injective(devices)
  BY <1>2, ExactInjective DEF ExactInv
<1>4. ScanExact(ScanIdle) /\ ScanExact(ScanNew)
  BY EmptyExact DEF ScanExact, ScanIdle, ScanNew
<1>5. OnlyGear(SyncIdle.copy) /\ Injective(SyncIdle.copy)
  BY EmptyExact DEF SyncIdle
<1>6. CASE Load
  <2>1. CASE nvs = EmptyMap
    BY <1>2, <1>4, <1>6, <2>1 DEF Load, mapVars, busVars, ExactInv
  <2>2. CASE nvs # EmptyMap
    <3>1. /\ devices' = nvs /\ s2l' \in Lookup /\ \A k \in Key : Entered(k, s2l'[k])
          /\ UNCHANGED <<gear, input, nvs, sync, scan>>
      BY <1>6, <2>2 DEF Load, busVars
    <3>2. Exact(nvs, s2l')
      <4> SUFFICES ASSUME NEW l \in Long, NEW sa \in SA, nvs[l].kind = "gear"
                   PROVE  nvs[l].sa = sa <=> s2l'[sa] = l
        BY DEF Exact
      <4> DEFINE at == {m \in Long : nvs[m] # Absent /\ nvs[m].sa = sa}
      <4>1. sa \in Key
        BY SizeAssumption DEF SA, Key
      <4>2. IF at = {} THEN s2l'[sa] = NoLong ELSE s2l'[sa] \in at
        BY <3>1, <4>1 DEF Entered
      <4>3. nvs[l] # Absent
        BY DEF Absent
      <4>4. l # NoLong
        BY LongFacts
      <4>5. ASSUME nvs[l].sa = sa PROVE s2l'[sa] = l
        <5>1. s2l'[sa] \in at
          BY <4>2, <4>3, <4>5
        <5>2. nvs[s2l'[sa]].kind = "gear"
          BY <5>1 DEF ExactInv, OnlyGear
        <5> QED
          BY <4>5, <5>1, <5>2 DEF ExactInv, Injective
      <4>6. ASSUME s2l'[sa] = l PROVE nvs[l].sa = sa
        BY <4>2, <4>4, <4>6
      <4> QED
        BY <4>5, <4>6
    <3> QED
      BY <3>1, <3>2 DEF ExactInv
  <2> QED
    BY <2>1, <2>2
<1>7. CASE Validate
  BY <1>2, <1>4, <1>7 DEF Validate, busVars, mapVars, ExactInv
<1>8. ASSUME NEW s \in Scanner, ScanBegin(s)
      PROVE  ExactInv'
  BY <1>2, <1>4, <1>8 DEF ScanBegin, busVars, mapVars, ExactInv
<1>9. ASSUME NEW s \in Scanner, InitializeBegin(s)
      PROVE  ExactInv'
  BY <1>2, <1>4, <1>9 DEF InitializeBegin, mapVars, ExactInv
<1>10. ASSUME NEW s \in Scanner \cup {"boot"}, ScanAddress(s)
       PROVE  ExactInv'
  <2>1. PICK heardGear \in BOOLEAN, heardInput \in {"nothing", "status", "all"} :
          scan' = [scan EXCEPT ![s] =
             [Found(scan[s], scan[s].sa, heardGear, heardInput) EXCEPT !.sa = @ + 1]]
    BY <1>10 DEF ScanAddress
  <2> DEFINE p == scan[s]
             q == Found(p, p.sa, heardGear, heardInput)
             r == [q EXCEPT !.sa = @ + 1]
  <2>2. /\ p \in Scans /\ p.sa \in SA /\ Closed(p.devices, p.s2l)
        /\ OnTheBus(p.devices, gear) /\ ScanExact(p)
        /\ gear \in [SA -> LongAddr \cup {NoLong}]
        /\ input \in [SA -> LongAddr \cup {NoLong}]
    BY <1>1, <1>10 DEF TypeOK, MapClosed, ScanAddress, ScansTrue, ExactInv
  <2>3. /\ input[p.sa] = NoLong
        /\ \A a, b \in SA : a # b /\ gear[a] # NoLong => gear[a] # gear[b]
    BY <2>2 DEF ExactInv, Bus
  <2>4. scan' = [scan EXCEPT ![s] = r]
    BY <2>1
  <2>5. q \in Scans
    BY <2>2, FoundFacts
  <2>6. ScanExact(q)
    <3> HIDE DEF p
    <3>1. CASE ~heardGear \/ gear[p.sa] = NoLong
      BY <2>2, <2>3, <3>1 DEF Found
    <3>2. CASE heardGear /\ gear[p.sa] # NoLong
      <4>1. q = Enter(p, p.sa, gear[p.sa], NewDevice("gear", p.sa))
        BY <2>3, <3>2 DEF Found, Enter, NewDevice
      <4>2. gear[p.sa] \in LongAddr
        BY <2>2, <3>2
      <4> QED
        BY <2>2, <2>3, <4>1, <4>2, EnterExact
    <3> QED
      BY <3>1, <3>2
  <2> HIDE DEF q
  <2>7. ScanExact(r)
    BY <2>5, <2>6 DEF Scans, ScanExact
  <2>8. UNCHANGED <<gear, input, devices, s2l, nvs, sync>>
    BY <1>10 DEF ScanAddress, busVars, mapVars
  <2> HIDE DEF r, p
  <2> QED
    BY <1>2, <2>4, <2>7, <2>8 DEF ExactInv
<1>11. ASSUME NEW s \in Scanner \cup {"boot"}, ScanSwap(s)
       PROVE  ExactInv'
  <2>1. /\ devices' = scan[s].devices /\ s2l' = scan[s].s2l
        /\ nvs' = Saved(devices') \/ UNCHANGED nvs
        /\ scan' = [scan EXCEPT ![s] = ScanIdle]
        /\ UNCHANGED <<gear, input, sync>>
    BY <1>11 DEF ScanSwap, busVars
  <2>2. devices' \in Map /\ OnlyGear(devices') /\ Exact(devices', s2l')
    BY <1>2, <2>1 DEF ExactInv, ScanExact, Scans
  <2>4. OnlyGear(Saved(devices')) /\ Injective(Saved(devices'))
    BY <2>2, SavedGear, ExactInjective
  <2> QED
    BY <1>2, <1>4, <2>1, <2>2, <2>4 DEF ExactInv
<1>12. ASSUME NEW sa \in SA, FetchBegin(sa)
       PROVE  ExactInv'
  <2>1. sync'.copy = SyncIdle.copy
    BY <1>12 DEF FetchBegin, SyncIdle
  <2> QED
    BY <1>5, <1>12, <2>1 DEF FetchBegin, busVars, mapVars, ExactInv
<1>13. CASE FetchEnd
  <2>1. PICK answered \in BOOLEAN :
          /\ \/ /\ devices[sync.long].kind = "gear"
                /\ devices' = [devices EXCEPT ![sync.long].data =
                                 IF answered THEN "known" ELSE "asked"]
             \/ UNCHANGED devices
          /\ sync' = SyncIdle
          /\ UNCHANGED <<gear, input, s2l, nvs, scan>>
    BY <1>13 DEF FetchEnd, busVars
  <2>2. SameGear(devices, devices')
    <3>1. CASE UNCHANGED devices
      BY <3>1 DEF SameGear
    <3>2. CASE /\ devices[sync.long].kind = "gear"
               /\ devices' = [devices EXCEPT ![sync.long].data =
                                IF answered THEN "known" ELSE "asked"]
      <4>1. \A l \in Long : devices[l] \in Device
        BY <1>2, LongFacts DEF Map
      <4>2. \A l \in Long : devices'[l] =
              IF l = sync.long
                THEN [devices[l] EXCEPT !.data = IF answered THEN "known" ELSE "asked"]
                ELSE devices[l]
        BY <1>2, <3>2, LongFacts DEF Map
      <4>3. ASSUME NEW l \in Long, l = sync.long
            PROVE  /\ devices'[l].kind = devices[l].kind
                   /\ devices'[l].sa = devices[l].sa
                   /\ devices[l] # Absent /\ devices'[l] # Absent
        BY <3>2, <4>1, <4>2, <4>3 DEF Device, Absent
      <4> QED
        BY <4>2, <4>3 DEF SameGear
    <3> QED
      BY <2>1, <3>1, <3>2
  <2> QED
    BY <1>5, <2>1, <2>2, SameGearFacts DEF ExactInv
<1>14. CASE AutosaveCopy
  <2>1. sync'.copy = devices
    BY <1>14 DEF AutosaveCopy, SyncIdle
  <2> QED
    BY <1>3, <1>14, <2>1 DEF AutosaveCopy, busVars, mapVars, ExactInv
<1>15. CASE AutosaveWrite
  <2>2. OnlyGear(Saved(sync.copy)) /\ Injective(Saved(sync.copy))
    BY <1>2, SavedGear DEF ExactInv
  <2> QED
    BY <1>5, <1>15, <2>2 DEF AutosaveWrite, busVars, mapVars, ExactInv
<1>16. CASE Reboot
  BY <1>2, <1>4, <1>5, <1>16, EmptyExact DEF Reboot, ExactInv
<1>17. CASE UNCHANGED vars
  BY <1>17 DEF vars, ExactInv
<1>18. ASSUME NEW k \in MapKey, SniffRecall(k)
       PROVE  ExactInv'
  <2>1. /\ devices[k] = Absent /\ devices'[k] = Phantom
        /\ \A l \in MapKey : l # k => devices'[l] = devices[l]
        /\ UNCHANGED <<gear, input, s2l, nvs, scan, sync>>
    BY <1>1, <1>18, RecallFacts
  <2>2. OnlyGear(devices')
    BY <2>1, LongFacts DEF ExactInv, OnlyGear, Phantom
  <2>3. Exact(devices', s2l')
    <3> SUFFICES ASSUME NEW l \in Long, NEW sa \in SA, devices'[l].kind = "gear"
                 PROVE  devices'[l].sa = sa <=> s2l[sa] = l
      BY <2>1 DEF Exact
    <3>1. CASE l # k
      BY <2>1, <3>1, LongFacts DEF ExactInv, Exact
    <3>2. CASE l = k
      <4>1. s2l[sa] # l
        <5>1. sa \in Key
          BY SizeAssumption DEF SA, Key
        <5> QED
          BY <1>1, <2>1, <3>2, <5>1, LongFacts DEF MapClosed, Closed
      <4> QED
        BY <2>1, <3>2, <4>1, NoShortFacts DEF Phantom
    <3> QED
      BY <3>1, <3>2
  <2> QED
    BY <2>1, <2>2, <2>3 DEF ExactInv
<1> QED
  BY <1>6, <1>7, <1>8, <1>9, <1>10, <1>11, <1>12, <1>13, <1>14, <1>15, <1>16, <1>17,
    <1>18
  DEF Next, BootSteps, ScanSteps, SyncSteps

\* Without input devices, whatever is lost, exchanged or commissioned, the
\* lookup sends every short address to the gear that has it, and no other.
THEOREM LookupInverse == ~Inputs => (SafeSpec => []LookupExact)
<1> SUFFICES ASSUME ~Inputs PROVE SafeSpec => []LookupExact
  OBVIOUS
<1>1. Init => ScansTrue
  BY EmptyOnTheBus DEF Init, ScansTrue
<1>2. Init => ExactInv
  BY EmptyExact DEF Init, ExactInv, ScanExact, ScanIdle, SyncIdle
<1>3. ExactInv => LookupExact
  BY DEF ExactInv, Exact, LookupExact
<1>4. IInv /\ ScansTrue /\ ExactInv /\ [Next]_vars => ExactInv'
  BY ExactStep
<1> QED
  BY InitInv, StepInv, ScansTrueStep, <1>1, <1>2, <1>3, <1>4, PTL DEF SafeSpec

(***************************************************************************)
(* What the map holds is saved, or known not to be.                        *)
(***************************************************************************)

\* NVS has answers only, and no phantom under an address of its own.
Plain(m) ==
  \A l \in Long : m[l].data # "asked" /\ ~(m[l].kind = "gear" /\ m[l].sa = NoShort)

\* What a save writes does not change when it is saved again.
LEMMA SavedAgain ==
  ASSUME NEW m \in Map
  PROVE  Plain(Saved(m)) /\ (Plain(m) => Agree(m, Saved(m)))
<1>1. \A l \in Long : m[l] \in Device
  BY LongFacts DEF Map
<1>2. ASSUME NEW l \in Long
      PROVE  /\ Saved(m)[l].data # "asked"
             /\ ~(Saved(m)[l].kind = "gear" /\ Saved(m)[l].sa = NoShort)
  <2>1. CASE m[l].kind = "gear" /\ m[l].sa = NoShort
    BY <2>1, SavedFacts DEF Absent
  <2>2. CASE ~(m[l].kind = "gear" /\ m[l].sa = NoShort)
    <3>1. Saved(m)[l] = Answers(m[l])
      BY <2>2, SavedFacts
    <3> QED
      BY <1>1, <2>2, <3>1, AnswersFacts
  <2> QED
    BY <2>1, <2>2
<1>3. Plain(m) => Agree(m, Saved(m))
  BY <1>1, SavedFacts, AnswersFacts DEF Plain, Agree
<1> QED
  BY <1>2, <1>3 DEF Plain

\* A device that was asked and did not answer is saved as one not asked.
LEMMA SavedUnanswered ==
  ASSUME NEW m \in Map, NEW k \in Long, m[k].kind = "gear", m[k].data = "missing"
  PROVE  Agree(Saved(m), Saved([m EXCEPT ![k].data = "asked"]))
<1> DEFINE n == [m EXCEPT ![k].data = "asked"]
<1>1. \A l \in Long : m[l] \in Device
  BY LongFacts DEF Map
<1>2. \A l \in Long : n[l] = IF l = k THEN [m[l] EXCEPT !.data = "asked"] ELSE m[l]
  BY LongFacts DEF Map
<1>3. ASSUME NEW l \in Long
      PROVE  /\ Answers(n[l]) = Answers(m[l])
             /\ n[l].kind = m[l].kind /\ n[l].sa = m[l].sa
  <2>1. CASE l # k
    BY <1>2, <2>1
  <2>2. CASE l = k
    <3>1. n[l] = [m[l] EXCEPT !.data = "asked"] /\ m[l].data = "missing"
      BY <1>2, <2>2
    <3> HIDE DEF n
    <3> QED
      BY <1>1, <3>1 DEF Answers, Device, Absent
  <2> QED
    BY <2>1, <2>2
<1>4. n \in Map
  <2>1. [m[k] EXCEPT !.data = "asked"] \in Device
    BY <1>1 DEF Device, Data, Absent
  <2> QED
    BY <2>1, LongFacts DEF Map
<1> HIDE DEF n
<1>5. Agree(Saved(m), Saved(n))
  BY <1>3, <1>4, SavedFacts DEF Agree
<1> QED
  BY <1>5 DEF n

\* A scan starts with nothing learnt about the devices, and learns nothing.
Fresh(m) == \A l \in Long : m[l].data = "missing"

LEMMA EnterFresh ==
  ASSUME NEW p \in Scans, NEW key, NEW l \in Long, NEW d \in Device,
         d.data = "missing", Fresh(p.devices)
  PROVE  Fresh(Enter(p, key, l, d).devices)
<1> DEFINE m == Emplace(p.devices, l, d)
<1>1. p.devices \in Map
  BY DEF Scans
<1>2. Fresh(m)
  BY <1>1 DEF Emplace, Fresh, Map
<1> HIDE DEF m
<1>3. Enter(p, key, l, d).devices = m
  <2>1. p = [on |-> p.on, sa |-> p.sa, devices |-> p.devices, s2l |-> p.s2l]
    BY DEF Scans
  <2>2. Enter(p, key, l, d) = [[p EXCEPT !.devices = m] EXCEPT !.s2l[key] = l]
    BY Zenon DEF Enter, m
  <2> QED
    BY <2>1, <2>2
<1> QED
  BY <1>2, <1>3

LEMMA FoundFresh ==
  ASSUME NEW p \in Scans, NEW sa \in SA, NEW heardGear \in BOOLEAN, NEW heardInput,
         gear \in [SA -> LongAddr \cup {NoLong}],
         input \in [SA -> LongAddr \cup {NoLong}],
         Closed(p.devices, p.s2l), Fresh(p.devices)
  PROVE  Fresh(Found(p, sa, heardGear, heardInput).devices)
<1> DEFINE g == gear[sa]
           i == IF heardInput = "status" THEN Pseudo(sa) ELSE input[sa]
           after == IF ~heardGear \/ g = NoLong THEN p
                    ELSE Enter(p, sa, g, NewDevice("gear", sa))
           both == Enter(after, InputKey(sa), i, NewDevice("input", sa))
           q == IF input[sa] = NoLong \/ heardInput = "nothing" THEN after ELSE both
<1>1. Found(p, sa, heardGear, heardInput) = q
  BY DEF Found, NewDevice, Enter
<1>2. g # NoLong => g \in Long
  BY LongFacts
<1>3. input[sa] # NoLong => i \in Long
  BY LongFacts
<1>4. \A kind \in {"gear", "input"} :
        /\ NewDevice(kind, sa) \in Device /\ NewDevice(kind, sa) # Absent
        /\ NewDevice(kind, sa).data = "missing"
  BY NewDeviceFacts DEF NewDevice
<1>5. after \in Scans /\ Fresh(after.devices)
  <2> HIDE DEF g
  <2> QED
    BY <1>2, <1>4, EnterFacts, EnterFresh
<1>6. Fresh(q.devices)
  <2> HIDE DEF i, after
  <2> QED
    BY <1>3, <1>4, <1>5, EnterFresh
<1> QED
  BY <1>1, <1>6

LEMMA EmptyFresh == Fresh(EmptyMap) /\ Fresh(ScanIdle.devices) /\ Fresh(ScanNew.devices)
<1>1. Fresh(EmptyMap)
  BY DEF Fresh, EmptyMap, Absent, MapKey
<1> HIDE DEF EmptyMap
<1> QED
  BY <1>1 DEF ScanIdle, ScanNew

\* The sync task waits for the boot, which starts with what was saved, and no
\* scan is left from before it.
BootInv ==
  /\ main # "run" => sync.pc = "idle"
  /\ main \in {"load", "validate"} => \A s \in DOMAIN scan : ~scan[s].on
  /\ main = "validate" => devices = nvs
\* NVS has answers only; scans have none; the device asked has none yet.
DataInv ==
  /\ Plain(nvs)
  /\ \A s \in DOMAIN scan : Fresh(scan[s].devices)
  /\ sync.pc = "fetch" => sync.long \in Long /\ devices[sync.long].data = "missing"
SavedInv == IInv /\ BootInv /\ DataInv

\* What a step has to do: keep what SavedInv adds, and forget nothing.
StaysSecured ==
  main' = "run" /\ (main = "run" => Secured) => Secured' \/ WriteFailed \/ Overtaken

LEMMA FaultUses ==
  ASSUME TypeOK, Fault
  PROVE  used' # used
<1>1. used'["faults"] = used["faults"] + 1 /\ used["faults"] \in Nat
  BY DEF Fault, Use, TypeOK
<1> QED
  BY <1>1

LEMMA BootSecured ==
  ASSUME SavedInv, Load \/ Validate
  PROVE  BootInv' /\ DataInv' /\ StaysSecured
<1>1. /\ TypeOK /\ sync.pc = "idle" /\ \A s \in DOMAIN scan : ~scan[s].on
      /\ main = "validate" => devices = nvs
  BY DEF SavedInv, BootInv, IInv, Load, Validate
<1>2. /\ scan \in [Scanner \cup {"boot"} -> Scans] /\ nvs \in Map
      /\ \A s \in DOMAIN scan : Fresh(scan[s].devices)
      /\ Plain(nvs)
  BY <1>1 DEF SavedInv, DataInv, TypeOK
<1>3. /\ \/ UNCHANGED scan
         \/ main' = "scan" /\ scan' = [scan EXCEPT !["boot"] = ScanNew]
      /\ main' \in {"scan", "validate", "run"}
      /\ main' = "validate" => UNCHANGED scan /\ devices' = nvs
      /\ main' = "run" => main = "validate" /\ UNCHANGED <<devices, scan>>
      /\ UNCHANGED <<nvs, dirty, sync>>
  <2>1. CASE Load
    BY <2>1 DEF Load, mapVars
  <2>2. CASE Validate
    <3>1. PICK heard \in SUBSET SA, broadcastHeard \in BOOLEAN :
            IF Conflicts(heard) \/ broadcastHeard
              THEN main' = "scan" /\ scan' = [scan EXCEPT !["boot"] = ScanNew]
              ELSE main' = "run" /\ UNCHANGED scan
      BY <2>2, Zenon DEF Validate
    <3> QED
      BY <2>2, <3>1 DEF Validate, mapVars
  <2> QED
    BY <2>1, <2>2
<1>4. \A s \in DOMAIN scan' : Fresh(scan'[s].devices)
  BY <1>2, <1>3, EmptyFresh
<1>5. BootInv'
  BY <1>1, <1>3 DEF BootInv
<1>6. DataInv'
  BY <1>1, <1>2, <1>3, <1>4 DEF DataInv
<1>7. main' = "run" => Secured'
  <2>1. Agree(nvs, Saved(nvs))
    BY <1>2, SavedAgain
  <2> QED
    BY <1>1, <1>3, <2>1 DEF Secured
<1> QED
  BY <1>5, <1>6, <1>7 DEF StaysSecured

LEMMA BeginSecured ==
  ASSUME SavedInv, NEW s \in Scanner, ScanBegin(s) \/ InitializeBegin(s)
  PROVE  BootInv' /\ DataInv' /\ StaysSecured
<1>1. /\ main = "run" /\ scan' = [scan EXCEPT ![s] = ScanNew]
      /\ UNCHANGED <<devices, nvs, dirty, main, sync>>
  BY DEF ScanBegin, InitializeBegin, mapVars
<1>2. /\ scan \in [Scanner \cup {"boot"} -> Scans]
      /\ \A t \in DOMAIN scan : Fresh(scan[t].devices)
  BY DEF SavedInv, IInv, DataInv, TypeOK
<1>3. \A t \in DOMAIN scan' : Fresh(scan'[t].devices)
  BY <1>1, <1>2, EmptyFresh
<1>4. BootInv'
  BY <1>1 DEF BootInv
<1>5. DataInv'
  BY <1>1, <1>3 DEF SavedInv, DataInv
<1>6. StaysSecured
  BY <1>1 DEF StaysSecured, Secured
<1> QED
  BY <1>4, <1>5, <1>6

LEMMA AddressSecured ==
  ASSUME SavedInv, NEW s \in Scanner \cup {"boot"}, ScanAddress(s)
  PROVE  BootInv' /\ DataInv' /\ StaysSecured
<1>1. PICK heardGear \in BOOLEAN, heardInput \in {"nothing", "status", "all"} :
        scan' = [scan EXCEPT ![s] =
          [Found(scan[s], scan[s].sa, heardGear, heardInput) EXCEPT !.sa = @ + 1]]
  BY DEF ScanAddress
<1>2. /\ scan[s].on /\ UNCHANGED <<devices, nvs, dirty, main, sync>>
      /\ scan \in [Scanner \cup {"boot"} -> Scans]
      /\ scan[s] \in Scans /\ scan[s].sa \in SA
      /\ Closed(scan[s].devices, scan[s].s2l) /\ Fresh(scan[s].devices)
      /\ gear \in [SA -> LongAddr \cup {NoLong}]
      /\ input \in [SA -> LongAddr \cup {NoLong}]
  BY DEF ScanAddress, SavedInv, IInv, TypeOK, MapClosed, DataInv, mapVars
<1> DEFINE q == Found(scan[s], scan[s].sa, heardGear, heardInput)
           r == [q EXCEPT !.sa = @ + 1]
<1>3. q \in Scans /\ Fresh(q.devices)
  BY <1>2, FoundFacts, FoundFresh
<1>4. scan' = [scan EXCEPT ![s] = r]
  BY <1>1
<1> HIDE DEF q
<1>5. Fresh(r.devices)
  <2>1. r.devices = q.devices
    BY <1>3 DEF Scans
  <2> QED
    BY <1>3, <2>1
<1> HIDE DEF r
<1>6. \A t \in DOMAIN scan' : Fresh(scan'[t].devices)
  BY <1>2, <1>4, <1>5 DEF SavedInv, DataInv
<1>7. BootInv'
  BY <1>2 DEF SavedInv, BootInv
<1>8. DataInv'
  BY <1>2, <1>6 DEF SavedInv, DataInv
<1>9. StaysSecured
  BY <1>2 DEF StaysSecured, Secured
<1> QED
  BY <1>7, <1>8, <1>9

LEMMA SwapSecured ==
  ASSUME SavedInv, NEW s \in Scanner \cup {"boot"}, ScanSwap(s)
  PROVE  BootInv' /\ DataInv' /\ StaysSecured
<1>1. /\ scan[s].on /\ devices' = scan[s].devices
      /\ nvs' = Saved(devices') \/ (Fault /\ UNCHANGED nvs)
      /\ scan' = [scan EXCEPT ![s] = ScanIdle]
      /\ main' = IF s = "boot" THEN "run" ELSE main
      /\ UNCHANGED sync
  BY Zenon DEF ScanSwap
<1>2. /\ TypeOK /\ scan \in [Scanner \cup {"boot"} -> Scans]
      /\ devices' \in Map /\ Fresh(devices')
      /\ main \notin {"load", "validate"}
  BY <1>1 DEF SavedInv, IInv, BootInv, DataInv, TypeOK, Scans
<1>3. BootInv'
  BY <1>1, <1>2 DEF SavedInv, BootInv
<1>4. DataInv'
  <2>1. Plain(nvs)'
    <3>1. Plain(nvs')
      BY <1>1, <1>2, SavedAgain DEF SavedInv, DataInv
    <3> QED
      BY <3>1 DEF Plain
  <2>2. \A t \in DOMAIN scan' : Fresh(scan'[t].devices)
    BY <1>1, <1>2, EmptyFresh DEF SavedInv, DataInv
  <2>3. sync'.pc = "fetch" => sync'.long \in Long /\ devices'[sync'.long].data = "missing"
    BY <1>1, <1>2 DEF SavedInv, DataInv, Fresh
  <2> QED
    BY <2>1, <2>2, <2>3 DEF DataInv
<1>5. ScanEnds
  <2>1. s \in DOMAIN scan /\ ~scan'[s].on
    BY <1>1, <1>2 DEF ScanIdle
  <2> QED
    BY <1>1, <2>1 DEF ScanEnds
<1>6. Secured' \/ WriteFailed \/ Overtaken
  <2>1. CASE sync.pc = "write"
    BY <1>5, <2>1 DEF Overtaken
  <2>2. CASE sync.pc # "write" /\ nvs' = Saved(devices')
    <3>1. Agree(nvs', Saved(devices'))
      BY <2>2 DEF Agree
    <3> QED
      BY <1>1, <2>2, <3>1 DEF Secured
  <2>3. CASE Fault
    BY <1>2, <1>5, <2>3, FaultUses DEF WriteFailed
  <2> QED
    BY <1>1, <2>1, <2>2, <2>3
<1> QED
  BY <1>3, <1>4, <1>6 DEF StaysSecured

LEMMA FetchSecured ==
  ASSUME SavedInv, (\E sa \in SA : FetchBegin(sa)) \/ FetchEnd
  PROVE  BootInv' /\ DataInv' /\ StaysSecured
<1>1. TypeOK
  BY DEF SavedInv, IInv
<1>2. ASSUME NEW sa \in SA, FetchBegin(sa) PROVE BootInv' /\ DataInv' /\ StaysSecured
  <2>1. /\ main = "run" /\ sync.pc = "idle"
        /\ s2l[sa] # NoLong /\ devices[s2l[sa]].data = "missing"
        /\ sync' = [SyncIdle EXCEPT !.pc = "fetch", !.sa = sa, !.long = s2l[sa]]
        /\ UNCHANGED <<devices, nvs, dirty, main, scan>>
    BY <1>2 DEF FetchBegin, mapVars
  <2>2. s2l[sa] \in Long
    <3>1. sa \in Key
      BY SizeAssumption DEF SA, Key
    <3> QED
      BY <1>1, <2>1, <3>1 DEF TypeOK, Lookup, MapKey
  <2>3. sync'.pc = "fetch" /\ sync'.long = s2l[sa]
    BY <2>1 DEF SyncIdle
  <2>4. BootInv' /\ DataInv'
    BY <2>1, <2>2, <2>3 DEF SavedInv, BootInv, DataInv
  <2>5. StaysSecured
    BY <2>1, <2>3 DEF StaysSecured, Secured
  <2> QED
    BY <2>4, <2>5
<1>3. CASE FetchEnd
  <2>1. PICK answered \in BOOLEAN :
          /\ \/ /\ devices[sync.long].kind = "gear"
                /\ devices' = [devices EXCEPT ![sync.long].data =
                                 IF answered THEN "known" ELSE "asked"]
                /\ dirty' = (dirty \/ answered)
             \/ UNCHANGED <<devices, dirty>>
          /\ sync.pc = "fetch" /\ sync' = SyncIdle
          /\ UNCHANGED <<nvs, main, scan>>
    BY <1>3 DEF FetchEnd
  <2>2. /\ sync.long \in Long /\ devices[sync.long].data = "missing"
        /\ main = "run" /\ devices \in Map
    BY <1>1, <2>1 DEF SavedInv, BootInv, DataInv, TypeOK
  <2>3. sync'.pc = "idle"
    BY <2>1 DEF SyncIdle
  <2>4. BootInv' /\ DataInv'
    BY <2>1, <2>2, <2>3 DEF SavedInv, BootInv, DataInv
  <2>5. dirty' \/ (dirty' = dirty /\ Agree(Saved(devices), Saved(devices')))
    <3>1. CASE UNCHANGED <<devices, dirty>>
      <4>1. Agree(Saved(devices), Saved(devices'))
        BY <3>1 DEF Agree
      <4> QED
        BY <3>1, <4>1
    <3>2. CASE /\ devices[sync.long].kind = "gear"
               /\ devices' = [devices EXCEPT ![sync.long].data =
                                 IF answered THEN "known" ELSE "asked"]
               /\ dirty' = (dirty \/ answered)
      <4>1. CASE answered
        BY <3>2, <4>1
      <4>2. CASE ~answered
        <5>1. devices' = [devices EXCEPT ![sync.long].data = "asked"]
          BY <3>2, <4>2
        <5>2. Agree(Saved(devices), Saved(devices'))
          BY <2>2, <3>2, <5>1, SavedUnanswered
        <5>3. dirty' = dirty
          BY <1>1, <3>2, <4>2 DEF TypeOK
        <5> QED
          BY <5>2, <5>3
      <4> QED
        BY <4>1, <4>2
    <3> QED
      BY <2>1, <3>1, <3>2
  <2>6. Secured => Secured'
    BY <2>1, <2>3, <2>5 DEF Secured, Agree
  <2> QED
    BY <2>2, <2>4, <2>6 DEF StaysSecured
<1> QED
  BY <1>2, <1>3

LEMMA AutosaveSecured ==
  ASSUME SavedInv, AutosaveCopy \/ AutosaveWrite
  PROVE  BootInv' /\ DataInv' /\ StaysSecured
<1>1. TypeOK
  BY DEF SavedInv, IInv
<1>2. CASE AutosaveCopy
  <2>1. /\ main = "run" /\ sync' = [SyncIdle EXCEPT !.pc = "write", !.copy = devices]
        /\ UNCHANGED <<devices, nvs, main, scan>>
    BY <1>2 DEF AutosaveCopy, mapVars
  <2>2. sync'.pc = "write" /\ sync'.copy = devices
    BY <2>1 DEF SyncIdle
  <2>3. BootInv' /\ DataInv'
    BY <2>1, <2>2 DEF SavedInv, BootInv, DataInv
  <2>4. Agree(Saved(sync'.copy), Saved(devices'))
    BY <2>1, <2>2 DEF Agree
  <2>5. Secured'
    BY <2>2, <2>4 DEF Secured
  <2> QED
    BY <2>3, <2>5 DEF StaysSecured
<1>3. CASE AutosaveWrite
  <2>1. /\ sync.pc = "write"
        /\ nvs' = Saved(sync.copy) \/ (Fault /\ UNCHANGED nvs)
        /\ sync' = SyncIdle
        /\ UNCHANGED <<devices, dirty, main, scan>>
    BY <1>3, Zenon DEF AutosaveWrite, mapVars
  <2>2. main = "run" /\ sync.copy \in Map /\ sync'.pc = "idle"
    BY <1>1, <2>1 DEF SavedInv, BootInv, TypeOK, SyncIdle
  <2>3. Plain(nvs)'
    <3>1. Plain(nvs')
      BY <2>1, <2>2, SavedAgain DEF SavedInv, DataInv
    <3> QED
      BY <3>1 DEF Plain
  <2>4. BootInv' /\ DataInv'
    BY <2>1, <2>2, <2>3 DEF SavedInv, BootInv, DataInv
  <2>5. CASE nvs' = Saved(sync.copy)
    <3>1. Saved(devices') = Saved(devices)
      BY <2>1
    <3>2. Secured => Secured'
      BY <2>1, <2>2, <2>5, <3>1 DEF Secured, Agree
    <3> QED
      BY <2>2, <2>4, <3>2 DEF StaysSecured
  <2>6. CASE Fault
    BY <1>1, <2>1, <2>2, <2>4, <2>6, FaultUses DEF StaysSecured, WriteFailed
  <2> QED
    BY <2>1, <2>5, <2>6
<1> QED
  BY <1>2, <1>3

\* A phantom is entered where nothing was, and is nothing to save.
LEMMA RecallSecured ==
  ASSUME SavedInv, NEW k \in MapKey, SniffRecall(k)
  PROVE  BootInv' /\ DataInv' /\ StaysSecured
<1>1. TypeOK
  BY DEF SavedInv, IInv
<1>2. /\ devices[k] = Absent /\ devices'[k] = Phantom /\ main = "run"
      /\ \A l \in MapKey : l # k => devices'[l] = devices[l]
      /\ devices' \in Map
      /\ UNCHANGED <<nvs, dirty, main, scan, sync>>
  BY <1>1, RecallFacts
<1>3. devices \in Map
  BY <1>1 DEF TypeOK
<1>4. Agree(Saved(devices), Saved(devices'))
  <2> SUFFICES ASSUME NEW l \in Long PROVE Saved(devices)[l] = Saved(devices')[l]
    BY DEF Agree
  <2>1. CASE l # k
    <3>1. devices'[l] = devices[l]
      BY <1>2, <2>1, LongFacts
    <3> QED
      BY <1>2, <1>3, <3>1, SavedFacts
  <2>2. CASE l = k
    <3>1. Saved(devices')[l] = Absent
      BY <1>2, <2>2, SavedFacts DEF Phantom
    <3>2. Saved(devices)[l] = Absent
      BY <1>2, <1>3, <2>2, SavedFacts DEF Absent, Answers
    <3> QED
      BY <3>1, <3>2
  <2> QED
    BY <2>1, <2>2
<1>5. BootInv'
  BY <1>2 DEF BootInv
<1>6. DataInv'
  <2>1. \A l \in Long : devices[l].data = "missing" => devices'[l].data = "missing"
    BY <1>2, LongFacts DEF Phantom
  <2> QED
    BY <1>2, <2>1 DEF SavedInv, DataInv
<1>7. Secured => Secured'
  BY <1>2, <1>4 DEF Secured, Agree
<1> QED
  BY <1>2, <1>5, <1>6, <1>7 DEF StaysSecured

LEMMA RebootSecured ==
  ASSUME SavedInv, Reboot
  PROVE  BootInv' /\ DataInv' /\ StaysSecured
<1>1. /\ main' = "load" /\ sync' = SyncIdle /\ UNCHANGED nvs
      /\ scan' = [s \in Scanner \cup {"boot"} |-> ScanIdle]
  BY DEF Reboot
<1>2. sync'.pc = "idle" /\ \A s \in DOMAIN scan' : ~scan'[s].on
  BY <1>1 DEF SyncIdle, ScanIdle
<1>3. BootInv'
  BY <1>1, <1>2 DEF BootInv
<1>4. DataInv'
  BY <1>1, <1>2, EmptyFresh DEF SavedInv, DataInv
<1> QED
  BY <1>1, <1>3, <1>4 DEF StaysSecured

LEMMA SecuredStep ==
  ASSUME SavedInv, [Next]_vars
  PROVE  SavedInv' /\ (Next => StaysSecured)
<1>1. IInv'
  BY StepInv DEF SavedInv
<1>2. CASE UNCHANGED vars
  <2>1. BootInv' /\ DataInv'
    BY <1>2 DEF vars, SavedInv, BootInv, DataInv
  <2>2. StaysSecured
    BY <1>2 DEF vars, StaysSecured, Secured
  <2> QED
    BY <1>1, <2>1, <2>2 DEF SavedInv
<1>3. ASSUME Next PROVE BootInv' /\ DataInv' /\ StaysSecured
  <2>1. CASE BootSteps
    BY <2>1, BootSecured, AddressSecured, SwapSecured DEF BootSteps
  <2>2. ASSUME NEW s \in Scanner, ScanBegin(s) \/ InitializeBegin(s) \/ ScanSteps(s)
        PROVE  BootInv' /\ DataInv' /\ StaysSecured
    BY <2>2, BeginSecured, AddressSecured, SwapSecured DEF ScanSteps
  <2>3. CASE SyncSteps
    BY <2>3, FetchSecured, AutosaveSecured DEF SyncSteps
  <2> QED
    BY <1>3, <2>1, <2>2, <2>3, RecallSecured, RebootSecured DEF Next
<1> QED
  BY <1>1, <1>2, <1>3 DEF SavedInv

\* Polls, scans, autosaves, boots and phantoms in any order: what the map holds of
\* devices with an address is in NVS, being written or marked for the autosave,
\* until a write fails or a scan saves between an autosave's copy and its write.
THEOREM SavingForgetsNothing == SafeSpec => NothingForgotten
<1>1. Init => SavedInv
  <2>1. Init => BootInv
    BY DEF Init, BootInv, SyncIdle, ScanIdle
  <2>2. Init => DataInv
    <3> SUFFICES ASSUME Init PROVE DataInv
      OBVIOUS
    <3>1. sync.pc = "idle" /\ nvs = EmptyMap
          /\ scan = [s \in Scanner \cup {"boot"} |-> ScanIdle]
      BY DEF Init, SyncIdle
    <3>2. Plain(nvs)
      BY <3>1, LongFacts DEF Plain, EmptyMap, Absent
    <3>3. \A s \in DOMAIN scan : Fresh(scan[s].devices)
      BY <3>1, EmptyFresh
    <3> QED
      BY <3>1, <3>2, <3>3 DEF DataInv
  <2> QED
    BY <2>1, <2>2, InitInv DEF SavedInv
<1>2. SavedInv /\ [Next]_vars => SavedInv'
  BY SecuredStep
<1>3. SavedInv /\ [Next]_vars
        => [main' = "run" /\ (main = "run" => Secured)
              => Secured' \/ WriteFailed \/ Overtaken]_vars
  BY SecuredStep DEF StaysSecured
<1> QED
  BY <1>1, <1>2, <1>3, PTL DEF SafeSpec, NothingForgotten

=============================================================================
