----------------------------- MODULE Commissioning -----------------------------
(***************************************************************************)
(* Dali::commission (16 bit frames, control gear) and Dali::commission_id  *)
(* (24 bit frames, input devices) with the devices on the bus.  The two    *)
(* run the same search; where they differ there are two definitions, and   *)
(* variant says which is running.  bus_mutex is held throughout, so        *)
(* nothing of the bridge interleaves; what varies is the bus: every frame  *)
(* may be missed by some devices, every reply may be lost, within bounds.  *)
(*                                                                         *)
(* A search address is three bytes, as in the code, of Base values each    *)
(* (256 in the code).                                                      *)
(***************************************************************************)
EXTENDS Integers, FiniteSets

CONSTANTS
  Device,          \* control gear or input devices on the bus
  Base,            \* values of a byte of the search address (256 in the code)
  Half,            \* the values addsub runs through
  NumShort,        \* short addresses (64 in the code)
  RandomAddr,      \* random addresses a device may draw
  MaxLostFrames,   \* bound: frames some device misses
  MaxLostReplies   \* bound: replies the bridge does not recognise

Top == Base * Base * Base           \* 0x1000000
NoShort == NumShort
ShortAddr == 0 .. NumShort - 1
InitialAdr == Top \div 2            \* 0x800000
InitialAddsub == Top \div 4         \* 0x400000

ASSUME BaseAssumption == Base \in Nat \ {0} /\ Top % 2 = 0
ASSUME HalfAssumption ==
  /\ Half \subseteq Nat \ {0} /\ 2 * InitialAddsub = InitialAdr
  /\ InitialAddsub \in Half
  /\ \A s \in Half : s = 1 \/ (s \div 2 \in Half /\ 2 * (s \div 2) = s)
ASSUME AddressAssumption ==
  NumShort \in Nat /\ RandomAddr \subseteq 0 .. Top - 1 /\ IsFiniteSet(Device)
ASSUME BoundAssumption == {MaxLostFrames, MaxLostReplies} \subseteq Nat

VARIABLES
  variant,   \* "gear": commission, "input": commission_id
  pc,        \* the next thing it does
  adr, addsub, last,   \* find_addr's adr, addsub and adr_last
  tries,     \* compare's retry
  final,     \* the comparison under way is the one after the loop
  arr,       \* the short addresses marked as used
  cnt,       \* devices counted as addressed
  dev,       \* the devices: initialisation mode, random, search, short address
  given,     \* history: the devices that have stored an address
  entered,   \* history: the devices that take part
  lost,      \* history: frames missed, replies not recognised
  missed     \* history: addresses whose QUERY STATUS was not answered

search == <<adr, addsub, last, tries, final>>
vars == <<variant, pc, adr, addsub, last, tries, final, arr, cnt, dev, given,
          entered, lost, missed>>

-------------------------------------------------------------------------------
(* Search addresses.                                                       *)

Byte(a) == [i \in 1 .. 3 |->
  CASE i = 1 -> (a \div (Base * Base)) % Base
    [] i = 2 -> (a \div Base) % Base
    [] i = 3 -> a % Base]

Value(b) == (b[1] * Base + b[2]) * Base + b[3]

-------------------------------------------------------------------------------
(* The bus.                                                                *)

\* Who may miss the frames of a step: frame |-> the devices that do.
Misses(frames) ==
  {m \in [frames -> SUBSET Device] :
     Cardinality({f \in frames : m[f] # {}}) <= MaxLostFrames - lost.frames}

Missed(m) == lost' = [lost EXCEPT !.frames =
                        @ + Cardinality({f \in DOMAIN m : m[f] # {}})]

\* Devices in the process, devices that still answer COMPARE, and those a
\* command to the selected device reaches.
Initialised == {d \in Device : dev[d].mode # "off"}
Active == {d \in Device : dev[d].mode = "init"}
Selected == {d \in Initialised : dev[d].random = Value(dev[d].search)}

\* Frames SEARCHADDRH, M and L, as many as are sent; the others keep theirs.
SearchFrames(sent, m, a) ==
  dev' = [d \in Device |-> [dev[d] EXCEPT !.search =
            [i \in 1 .. 3 |->
               IF i \in sent /\ d \in Initialised \ m[i]
               THEN Byte(a)[i] ELSE @[i]]]]

\* What the bridge makes of the replies of some devices: nothing arrives, the
\* byte 0xFF, a garbled frame, or, when replies overlap badly, another byte.
Replies(from) ==
  IF from = {} THEN {"none"}
  ELSE {"none"} \cup (IF Cardinality(from) = 1 THEN {"yes"}
                      ELSE {"garbled", "byte"})

-------------------------------------------------------------------------------
(* The start: INITIALISE (all without a short address) and RANDOMISE, each *)
(* twice, which a device obeys when it hears both.                         *)

Fresh == [mode : {"off", "init"}, random : {Top - 1}, search : {Byte(Top - 1)},
          short : ShortAddr \cup {NoShort}]

Init ==
  /\ variant \in {"gear", "input"} /\ pc = "start"
  /\ adr = 0 /\ addsub = 0 /\ last = 0 /\ tries = 0 /\ final = FALSE
  /\ arr = {} /\ cnt = 0
  /\ dev \in [Device -> Fresh]
  /\ given = {} /\ entered = {}
  /\ lost = [frames |-> 0, replies |-> 0]
  /\ missed = {}

\* A device's mode after the frames it has heard, and its random address.
ModeAfter(d, m) ==
  IF dev[d].short = NoShort /\ d \notin m["initialise"] THEN "init"
  ELSE IF "terminate" \in DOMAIN m /\ d \notin m["terminate"] THEN "off"
  ELSE dev[d].mode

Started(m) ==
  \E random \in [Device -> RandomAddr] :
    /\ dev' = [d \in Device |->
      LET mode == ModeAfter(d, m) IN
      [dev[d] EXCEPT !.mode = mode,
         !.random = IF mode = "off" \/ d \in m["randomise"] THEN @
                    ELSE random[d]]]
    /\ entered' = {d \in Device : ModeAfter(d, m) # "off"}

StartGear ==
  /\ variant = "gear" /\ pc = "start"
  /\ \E m \in Misses({"initialise", "randomise"}) : Started(m) /\ Missed(m)
  /\ pc' = "status"
  /\ UNCHANGED <<variant, search, arr, cnt, given, missed>>

\* A process that was cut off by a restart is ended first.
StartInput ==
  /\ variant = "input" /\ pc = "start"
  /\ \E m \in Misses({"terminate", "initialise", "randomise"}) :
       Started(m) /\ Missed(m)
  /\ pc' = "status"
  /\ UNCHANGED <<variant, search, arr, cnt, given, missed>>

\* QUERY STATUS to each address in turn.  Two devices at one address may or may
\* not add up to a byte.
QueryStatus ==
  /\ pc = "status"
  /\ LET at(a) == {d \in Device : dev[d].short = a}
         taken == {a \in ShortAddr : at(a) # {}}
     IN \E answered \in SUBSET taken :
          LET unheard == {a \in taken \ answered : Cardinality(at(a)) = 1} IN
          /\ lost.replies + Cardinality(unheard) <= MaxLostReplies
          /\ lost' = [lost EXCEPT !.replies = @ + Cardinality(unheard)]
          /\ arr' = answered
          /\ missed' = taken \ answered
  /\ pc' = "set"
  /\ UNCHANGED <<variant, search, cnt, dev, given, entered>>

-------------------------------------------------------------------------------
(* The search for the smallest random address.                             *)

SetSearchAddr ==
  /\ pc = "set"
  /\ adr' = InitialAdr /\ last' = InitialAdr /\ addsub' = InitialAddsub
  /\ \E m \in Misses(1 .. 3) : SearchFrames(1 .. 3, m, InitialAdr) /\ Missed(m)
  /\ pc' = "diff"
  /\ UNCHANGED <<variant, tries, final, arr, cnt, given, entered, missed>>

\* Only the bytes that change are sent.
SetSearchAddrDiff(a) ==
  LET sent == {i \in 1 .. 3 : Byte(a)[i] # Byte(last)[i]}
  IN \E m \in Misses(sent) : SearchFrames(sent, m, a) /\ Missed(m)

NextSearchAddr ==
  /\ pc = "diff"
  /\ SetSearchAddrDiff(adr)
  /\ last' = adr /\ tries' = 2 /\ final' = (addsub = 0)
  /\ pc' = "compare"
  /\ UNCHANGED <<variant, adr, addsub, arr, cnt, given, entered, missed>>

\* Which replies count: commission wants a collision, a frame that is not eight
\* bits long, or 0xFF; commission_id takes any byte.
CompareGear(reply) == reply \in {"garbled", "yes"}
CompareInput(reply) == reply # "none"
\* Mutant: a garbled reply is a no.
RecognisedByte(reply) == reply = "yes"
Recognised(reply) ==
  IF variant = "gear" THEN CompareGear(reply) ELSE CompareInput(reply)
\* A reply was sent and the bridge takes it for none.
Unheard(reply) == reply = "none" \/ (variant = "gear" /\ reply = "byte")
\* Mutant: retry is not counted down.
RetryForgotten == UNCHANGED tries
Retry == tries' = tries - 1

\* Mutant: addsub >>= 1 is missing.
StepWithoutHalving(yes) ==
  IF final
  THEN pc' = (IF yes THEN "found" ELSE "bump") /\ UNCHANGED <<adr, addsub>>
  ELSE /\ adr' = IF yes THEN adr - addsub ELSE adr + addsub
       /\ pc' = "diff" /\ UNCHANGED addsub

Step(yes) ==
  IF final
  THEN /\ pc' = IF yes THEN "found" ELSE "bump"
       /\ UNCHANGED <<adr, addsub>>
  ELSE /\ adr' = IF yes THEN adr - addsub ELSE adr + addsub
       /\ addsub' = addsub \div 2
       /\ pc' = "diff"

\* Only two comparisons without an answer are a no.
Compare ==
  /\ pc = "compare"
  /\ \E m \in Misses({"compare"}) :
       LET from == {d \in Active \ m["compare"] :
                      dev[d].random <= Value(dev[d].search)}
       IN \E reply \in Replies(from) :
            LET unheard == IF from # {} /\ Unheard(reply) THEN 1 ELSE 0
            IN /\ lost.replies + unheard <= MaxLostReplies
               /\ lost' = [frames |-> lost.frames
                                      + IF m["compare"] = {} THEN 0 ELSE 1,
                           replies |-> lost.replies + unheard]
               /\ IF Recognised(reply) \/ tries = 1
                  THEN Step(Recognised(reply)) /\ UNCHANGED tries
                  ELSE Retry /\ UNCHANGED <<pc, adr, addsub>>
  /\ UNCHANGED <<variant, last, final, arr, cnt, dev, given, entered, missed>>

Bump ==
  /\ pc = "bump"
  /\ adr' = adr + 1
  /\ SetSearchAddrDiff(adr + 1)
  /\ pc' = "found"
  /\ UNCHANGED <<variant, addsub, last, tries, final, arr, cnt, given, entered,
                 missed>>

\* find_addr and find_addr_id.
FindAddr == SetSearchAddr \/ NextSearchAddr \/ Compare \/ Bump

-------------------------------------------------------------------------------
(* The device found gets the first unused short address and leaves.        *)

\* Mutant: off by one.
ExhaustedLate == adr > Top \/ arr = ShortAddr
Exhausted == adr > Top - 1 \/ arr = ShortAddr
\* Mutant: arr is not looked at.
FirstShort == CHOOSE a \in ShortAddr : TRUE
FirstUnused == CHOOSE a \in ShortAddr \ arr : \A b \in ShortAddr \ arr : a <= b

Program ==
  /\ pc = "found" /\ ~Exhausted
  /\ arr' = arr \cup {FirstUnused} /\ cnt' = cnt + 1
  /\ \E m \in Misses({"program"}) :
       /\ dev' = [d \in Device |-> IF d \in Selected \ m["program"]
                    THEN [dev[d] EXCEPT !.short = FirstUnused] ELSE dev[d]]
       /\ given' = given \cup (Selected \ m["program"])
       /\ Missed(m)
  /\ pc' = "withdraw"
  /\ UNCHANGED <<variant, search, entered, missed>>

Withdraw ==
  /\ pc = "withdraw"
  /\ \E m \in Misses({"withdraw"}) :
       /\ dev' = [d \in Device |-> IF d \in Selected \ m["withdraw"]
                    THEN [dev[d] EXCEPT !.mode = "withdrawn"] ELSE dev[d]]
       /\ Missed(m)
  /\ pc' = "set"
  /\ UNCHANGED <<variant, search, arr, cnt, given, entered, missed>>

Terminate ==
  /\ pc = "found" /\ Exhausted
  /\ \E m \in Misses({"terminate"}) :
       /\ dev' = [d \in Device |-> IF d \in m["terminate"] THEN dev[d]
                    ELSE [dev[d] EXCEPT !.mode = "off"]]
       /\ Missed(m)
  /\ pc' = "done"
  /\ UNCHANGED <<variant, search, arr, cnt, given, entered, missed>>

Next ==
  \/ StartGear \/ StartInput \/ QueryStatus
  \/ FindAddr
  \/ Program \/ Withdraw \/ Terminate

SafeSpec == Init /\ [][Next]_vars

\* One task runs the whole process and waits for nobody.
Spec == SafeSpec /\ WF_vars(Next)

-------------------------------------------------------------------------------
(* What has to hold.                                                       *)

TypeOK ==
  /\ variant \in {"gear", "input"}
  /\ pc \in {"start", "status", "set", "diff", "compare", "bump", "found",
             "withdraw", "done"}
  /\ adr \in 0 .. Top /\ last \in 0 .. Top /\ addsub \in Half \cup {0}
  /\ tries \in 0 .. 2 /\ final \in BOOLEAN
  /\ arr \subseteq ShortAddr /\ missed \subseteq ShortAddr
  /\ cnt \in 0 .. NumShort
  /\ dev \in [Device -> [mode : {"off", "init", "withdrawn"},
                         random : 0 .. Top - 1,
                         search : [1 .. 3 -> 0 .. Base - 1],
                         short : ShortAddr \cup {NoShort}]]
  /\ given \subseteq Device /\ entered \subseteq Device
  /\ lost \in [frames : 0 .. MaxLostFrames, replies : 0 .. MaxLostReplies]

\* The search cannot see the random address 0: it never compares below 1.
Findable == \A d \in Active : dev[d].random # 0

\* A single lost reply misleads no search, because compare asks twice: find_addr
\* (find_addr_id) ends at the smallest random address still in the process, with
\* that address in the devices' registers, or beyond the last address when the
\* process is empty.
FindsSmallest ==
  (pc = "found" /\ lost.frames = 0 /\ lost.replies <= 1 /\ Findable) =>
    IF Active = {} THEN adr = Top
    ELSE /\ \A d \in Active : adr <= dev[d].random /\ Value(dev[d].search) = adr
         /\ \E d \in Active : adr = dev[d].random

\* The circumstances under which the process promises something.
Calm ==
  /\ lost.frames = 0 /\ lost.replies <= 1
  /\ \A d, e \in entered : d # e => dev[d].random # dev[e].random
  /\ \A d \in entered : dev[d].random # 0

\* A finished process has given every new device an address of its own while
\* there were free ones; it shares one with an old device only where that
\* device's status query went unanswered.
AddressesApart ==
  (pc = "done" /\ Calm) =>
    /\ (\E d \in entered : dev[d].short = NoShort) => arr = ShortAddr
    /\ \A d \in given, e \in Device :
         (d # e /\ dev[d].short = dev[e].short)
           => e \notin given /\ dev[e].short \in missed

\* The number commission returns, and the log and the interface report, is the
\* number of devices that have got an address.
CountTrue ==
  (pc = "done" /\ Calm) =>
    cnt = Cardinality(given)

\* What still lies ahead: first the short addresses that are not given away,
\* then, within one of them, the rest of the search.  A comparison counts
\* four for each address it may still step over.
Unused == Cardinality(ShortAddr \ arr)
Ahead ==
  LET round == 4 * InitialAddsub + 7 IN
  CASE pc = "start"    -> round + 3
    [] pc = "status"   -> round + 2
    [] pc = "withdraw" -> round + 1
    [] pc = "set"      -> round
    [] pc = "diff"     -> 4 * addsub + 6
    [] pc = "compare"  -> 4 * addsub + 3 + tries
    [] pc = "bump"     -> 2
    [] pc = "found"    -> 1
    [] pc = "done"     -> 0

\* Every frame sent brings the process nearer to its end: no device that never
\* withdraws, no reply that is always lost and no reply that comes from nobody
\* makes commission or find_addr go round for ever.
GetsOn ==
  [][Unused' < Unused \/ (Unused' = Unused /\ Ahead' < Ahead)]_vars

\* The process ends, whatever is lost: it leaves the loop at the latest when all
\* short addresses are given away.
Terminates == <>(pc = "done")

=============================================================================
