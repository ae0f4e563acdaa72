--------------------------- MODULE DaliDriverProofs ---------------------------
(***************************************************************************)
(* Proofs about the two models of DaliDriver.cxx.  First Commissioning,    *)
(* for any number of devices and addresses, any base of the search         *)
(* address, and whatever frames and replies are lost.  Then DaliDriver,    *)
(* for any number of frames of the bridge and of other masters, any time   *)
(* that is waited for an idle bus and any timeout of a transmission, up to *)
(* the refinement of BusCalls.                                             *)
(***************************************************************************)
EXTENDS Commissioning, DaliDriver, FiniteSetTheorems, WellFoundedInduction, TLAPS

(***************************************************************************)
(* Arithmetic.                                                             *)
(***************************************************************************)

LEMMA DivMod ==
  ASSUME NEW b \in Nat \ {0}, NEW a \in Nat
  PROVE  /\ a \div b \in Nat /\ a % b \in 0 .. b - 1
         /\ a = (a \div b) * b + (a % b)
OBVIOUS

LEMMA DivLess ==
  ASSUME NEW b \in Nat \ {0}, NEW c \in Nat, NEW a \in Nat, a < c * b
  PROVE  a \div b < c
<1>1. a \div b \in Nat /\ a % b \in 0 .. b - 1 /\ a = (a \div b) * b + (a % b)
  BY DivMod
<1>2. SUFFICES ASSUME a \div b >= c PROVE FALSE
  BY <1>1
<1>3. (a \div b) * b >= c * b
  BY <1>1, <1>2
<1> QED BY <1>1, <1>3

LEMMA ModSmall ==
  ASSUME NEW b \in Nat \ {0}, NEW a \in 0 .. b - 1
  PROVE  a % b = a
OBVIOUS

LEMMA DivDiv ==
  ASSUME NEW b \in Nat \ {0}, NEW a \in Nat
  PROVE  a \div (b * b) = (a \div b) \div b
OBVIOUS

LEMMA TopFacts ==
  /\ Top \in Nat /\ Top >= 4
  /\ InitialAdr \in Nat /\ 2 * InitialAdr = Top
  /\ InitialAddsub \in Half /\ InitialAddsub \in Nat /\ 2 * InitialAddsub = InitialAdr
  /\ \A s \in Half : /\ s \in Nat /\ s >= 1
                     /\ \/ s = 1 /\ s \div 2 = 0
                        \/ s \div 2 \in Half /\ 2 * (s \div 2) = s
<1>1. Top \in Nat
  BY BaseAssumption DEF Top
<1>2. 2 * InitialAdr = Top /\ InitialAdr \in Nat
  BY <1>1, BaseAssumption DEF InitialAdr
<1>3. InitialAddsub \in Half /\ 2 * InitialAddsub = InitialAdr
  BY HalfAssumption
<1>4. \A s \in Half : s \in Nat /\ s >= 1
  BY HalfAssumption
<1>5. InitialAddsub \in Nat /\ InitialAddsub >= 1
  BY <1>3, <1>4
<1>6. \A s \in Half : \/ s = 1 /\ s \div 2 = 0
                      \/ s \div 2 \in Half /\ 2 * (s \div 2) = s
  BY HalfAssumption
<1> QED BY <1>1, <1>2, <1>3, <1>4, <1>5, <1>6

(***************************************************************************)
(* Search addresses.                                                       *)
(***************************************************************************)

LEMMA ByteType ==
  ASSUME NEW a \in Nat
  PROVE  Byte(a) \in [1 .. 3 -> 0 .. Base - 1]
<1>1. Base \in Nat \ {0} /\ Base * Base \in Nat \ {0}
  BY BaseAssumption
<1>2. a \div (Base * Base) \in Nat /\ a \div Base \in Nat
  BY <1>1, DivMod
<1>3. /\ (a \div (Base * Base)) % Base \in 0 .. Base - 1
      /\ (a \div Base) % Base \in 0 .. Base - 1
      /\ a % Base \in 0 .. Base - 1
  BY <1>1, <1>2, DivMod
<1>4. \A i \in 1 .. 3 : i = 1 \/ i = 2 \/ i = 3
  OBVIOUS
<1> HIDE DEF Byte
<1>5. /\ Byte(a)[1] = (a \div (Base * Base)) % Base
      /\ Byte(a)[2] = (a \div Base) % Base
      /\ Byte(a)[3] = a % Base
      /\ Byte(a) = [i \in 1 .. 3 |-> Byte(a)[i]]
  BY DEF Byte
<1> QED BY <1>3, <1>4, <1>5

LEMMA ValueByte ==
  ASSUME NEW a \in 0 .. Top - 1
  PROVE  Value(Byte(a)) = a
<1> DEFINE b == a \div Base
           c == b \div Base
<1>1. Base \in Nat \ {0} /\ a \in Nat /\ a < (Base * Base) * Base
  BY BaseAssumption DEF Top
<1>2. b \in Nat /\ a % Base \in 0 .. Base - 1 /\ a = b * Base + (a % Base)
  BY <1>1, DivMod, Zenon
<1>3. b < Base * Base
  BY <1>1, DivLess
<1>4. c \in Nat /\ b % Base \in 0 .. Base - 1 /\ b = c * Base + (b % Base)
  BY <1>1, <1>2, DivMod, Zenon
<1>5. c < Base
  BY <1>1, <1>2, <1>3, DivLess
<1>6. c % Base = c
  <2>1. c \in 0 .. Base - 1
    BY <1>1, <1>4, <1>5
  <2> HIDE DEF c
  <2> QED BY <1>1, <2>1, ModSmall
<1>7. a \div (Base * Base) = c
  BY <1>1, DivDiv
<1>8. a % Base \in Int /\ b % Base \in Int
  BY <1>1, <1>2, <1>4
<1>9. Byte(a)[1] = c /\ Byte(a)[2] = b % Base /\ Byte(a)[3] = a % Base
  BY <1>6, <1>7 DEF Byte
<1> HIDE DEF b, c
<1> QED BY <1>1, <1>2, <1>4, <1>8, <1>9 DEF Value

LEMMA FirstUnusedIsFree ==
  ASSUME arr \subseteq ShortAddr, arr # ShortAddr
  PROVE  FirstUnused \in ShortAddr \ arr
<1> DEFINE Free == ShortAddr \ arr
<1>1. Free \subseteq Nat /\ Free # {}
  <2>1. ShortAddr \subseteq Nat
    BY AddressAssumption DEF ShortAddr
  <2> QED BY <2>1
<1>2. \E a \in Free : \A b \in Free : ~ (<<b, a>> \in OpToRel(<, Nat))
  BY <1>1, NatLessThanWellFounded, WFMin
<1>3. \A a \in Nat, b \in Nat : b < a => <<b, a>> \in OpToRel(<, Nat)
  BY DEF OpToRel
<1>4. \E a \in Free : \A b \in Free : a <= b
  <2>1. PICK a \in Free : \A b \in Free : ~ (<<b, a>> \in OpToRel(<, Nat))
    BY <1>2
  <2>2. ASSUME NEW b \in Free PROVE a <= b
    <3>1. a \in Nat /\ b \in Nat
      BY <1>1
    <3>2. ~ (b < a)
      BY <2>1, <1>3, <3>1
    <3> QED BY <3>1, <3>2
  <2> QED BY <2>2
<1> QED BY <1>4 DEF FirstUnused

(***************************************************************************)
(* The bus.                                                                *)
(***************************************************************************)

LostOK == lost \in [frames : 0 .. MaxLostFrames, replies : 0 .. MaxLostReplies]
DevOK == dev \in [Device -> [mode : {"off", "init", "withdrawn"},
                            random : 0 .. Top - 1,
                            search : [1 .. 3 -> 0 .. Base - 1],
                            short : ShortAddr \cup {NoShort}]]

\* Frames that are missed are counted, and none was when none are.
LEMMA MissedCounted ==
  ASSUME NEW tried, IsFiniteSet(tried), NEW m \in Misses(tried),
         LostOK, Missed(m)
  PROVE  /\ LostOK' /\ lost'.replies = lost.replies
         /\ m \in [tried -> SUBSET Device]
         /\ lost'.frames = 0 => lost.frames = 0 /\ \A f \in tried : m[f] = {}
<1> DEFINE hit == {f \in tried : m[f] # {}}
<1>1. m \in [tried -> SUBSET Device] /\ DOMAIN m = tried
      /\ Cardinality(hit) <= MaxLostFrames - lost.frames
  BY DEF Misses
<1>2. IsFiniteSet(hit) /\ Cardinality(hit) \in Nat
  BY FS_Subset, FS_CardinalityType
<1>3. Cardinality(hit) = 0 => hit = {}
  BY <1>2, FS_EmptySet
<1>4. lost' = [lost EXCEPT !.frames = lost.frames + Cardinality(hit)]
  BY <1>1 DEF Missed
<1> HIDE DEF hit
<1>5. /\ lost'.frames = lost.frames + Cardinality(hit)
      /\ lost'.replies = lost.replies
      /\ lost' \in [frames : Nat, replies : 0 .. MaxLostReplies]
  BY <1>2, <1>4, BoundAssumption DEF LostOK
<1>6. LostOK'
  BY <1>1, <1>2, <1>5, BoundAssumption DEF LostOK
<1>7. lost'.frames = 0 => lost.frames = 0 /\ Cardinality(hit) = 0
  BY <1>2, <1>5, BoundAssumption DEF LostOK
<1> QED BY <1>1, <1>3, <1>5, <1>6, <1>7 DEF hit

\* The frames of a search address leave everything but the registers, which
\* hold the address when nothing was missed and the rest was right before.
LEMMA SearchFramesSent ==
  ASSUME NEW which \in SUBSET (1 .. 3), NEW m \in [which -> SUBSET Device],
         NEW a \in Nat, DevOK, SearchFrames(which, m, a)
  PROVE  /\ DevOK'
         /\ \A d \in Device : /\ dev'[d].mode = dev[d].mode
                               /\ dev'[d].random = dev[d].random
                               /\ dev'[d].short = dev[d].short
         /\ (\A i \in which : m[i] = {}) =>
              \A d \in Initialised :
                (\A i \in (1 .. 3) \ which : dev[d].search[i] = Byte(a)[i])
                  => dev'[d].search = Byte(a)
<1> DEFINE S(d) == [i \in 1 .. 3 |-> IF i \in which /\ d \in Initialised \ m[i]
                                    THEN Byte(a)[i] ELSE dev[d].search[i]]
<1>1. dev' = [d \in Device |-> [dev[d] EXCEPT !.search = S(d)]]
  BY DEF SearchFrames
<1>2. Byte(a) \in [1 .. 3 -> 0 .. Base - 1]
  BY ByteType
<1>3. \A d \in Device : S(d) \in [1 .. 3 -> 0 .. Base - 1]
  BY <1>2 DEF DevOK
<1>4. ASSUME \A i \in which : m[i] = {}, NEW d \in Initialised,
             \A i \in (1 .. 3) \ which : dev[d].search[i] = Byte(a)[i]
      PROVE  S(d) = Byte(a)
  BY <1>2, <1>4
<1> HIDE DEF S
<1>5. DevOK'
  BY <1>1, <1>3 DEF DevOK
<1>6. \A d \in Device : /\ dev'[d].mode = dev[d].mode
                        /\ dev'[d].random = dev[d].random
                        /\ dev'[d].short = dev[d].short
                        /\ dev'[d].search = S(d)
  BY <1>1 DEF DevOK
<1>7. Initialised \subseteq Device
  BY DEF Initialised
<1> QED BY <1>4, <1>5, <1>6, <1>7

(***************************************************************************)
(* Types, and the room the search has: adr moves by addsub to either side, *)
(* and stays among the addresses because the interval that is left does.   *)
(***************************************************************************)

CtlOK ==
  /\ variant \in {"gear", "input"}
  /\ pc \in {"start", "status", "set", "diff", "compare", "bump", "found",
             "withdraw", "done"}
  /\ adr \in 0 .. Top /\ last \in 0 .. Top /\ addsub \in Half \cup {0}
  /\ tries \in 0 .. 2 /\ final \in BOOLEAN
SetsOK ==
  /\ arr \subseteq ShortAddr /\ missed \subseteq ShortAddr
  /\ cnt \in 0 .. NumShort
  /\ given \subseteq Device /\ entered \subseteq Device

LEMMA TypeParts ==
  /\ TypeOK <=> CtlOK /\ SetsOK /\ DevOK /\ LostOK
  /\ TypeOK' <=> CtlOK' /\ SetsOK' /\ DevOK' /\ LostOK'
BY DEF TypeOK, CtlOK, SetsOK, DevOK, LostOK

\* How far the interval that is left reaches to either side of adr.
Width == IF addsub = 0 THEN 1 ELSE 2 * addsub

SearchOK ==
  /\ pc \in {"diff", "compare"} => Width <= adr /\ adr + Width <= Top
  /\ pc = "compare" => tries \in 1 .. 2 /\ final = (addsub = 0)
  /\ pc = "bump" => adr < Top
  /\ pc \in {"compare", "bump"} => last = adr
CountOK ==
  /\ pc \in {"start", "status"} => cnt = 0 /\ given = {} /\ arr = {}
  /\ cnt <= Cardinality(arr)

CInv == TypeOK /\ SearchOK /\ CountOK

LEMMA FiniteSubset ==
  ASSUME NEW A \in SUBSET ShortAddr
  PROVE  /\ IsFiniteSet(A) /\ Cardinality(A) \in Nat
         /\ Cardinality(A) <= NumShort
<1>1. IsFiniteSet(ShortAddr) /\ Cardinality(ShortAddr) = NumShort
  <2>1. IsFiniteSet(0 .. NumShort - 1)
        /\ Cardinality(0 .. NumShort - 1) = IF 0 > NumShort - 1 THEN 0
                                            ELSE NumShort - 1 - 0 + 1
    BY AddressAssumption, FS_Interval
  <2> QED BY <2>1, AddressAssumption DEF ShortAddr
<1> QED BY <1>1, FS_Subset, FS_CardinalityType

\* Frames of a command without address bytes: one, two or three.
LEMMA FewFrames ==
  /\ IsFiniteSet({"initialise", "randomise"})
  /\ IsFiniteSet({"terminate", "initialise", "randomise"})
  /\ IsFiniteSet({"program"}) /\ IsFiniteSet({"withdraw"})
  /\ IsFiniteSet({"terminate"}) /\ IsFiniteSet({"compare"})
  /\ IsFiniteSet(1 .. 3) /\ \A which \in SUBSET (1 .. 3) : IsFiniteSet(which)
<1>1. \A a : IsFiniteSet({a})
  BY FS_EmptySet, FS_AddElement
<1>2. \A a, b : IsFiniteSet({a, b})
  <2> SUFFICES ASSUME NEW a, NEW b PROVE IsFiniteSet({a, b})
    OBVIOUS
  <2>1. IsFiniteSet({a} \cup {b})
    BY <1>1, FS_AddElement
  <2>2. {a, b} = {a} \cup {b}
    OBVIOUS
  <2> QED BY <2>1, <2>2
<1>3. \A a, b, c : IsFiniteSet({a, b, c})
  <2> SUFFICES ASSUME NEW a, NEW b, NEW c PROVE IsFiniteSet({a, b, c})
    OBVIOUS
  <2>1. IsFiniteSet({a, b} \cup {c})
    BY <1>2, FS_AddElement
  <2>2. {a, b, c} = {a, b} \cup {c}
    OBVIOUS
  <2> QED BY <2>1, <2>2
<1>4. IsFiniteSet(1 .. 3)
  <2>1. 1 \in Int /\ 3 \in Int
    OBVIOUS
  <2> QED BY <2>1, FS_Interval
<1>5. \A which \in SUBSET (1 .. 3) : IsFiniteSet(which)
  BY <1>4, FS_Subset
<1> QED BY <1>1, <1>2, <1>3, <1>4, <1>5

\* The devices after INITIALISE and RANDOMISE: those that take part, and only
\* those, are in initialisation mode.
LEMMA StartedDevices ==
  ASSUME NEW m, DevOK, Started(m)
  PROVE  /\ DevOK' /\ entered' \subseteq Device
         /\ entered' = {d \in Device : dev'[d].mode # "off"}
         /\ \A d \in Device : dev'[d].mode = ModeAfter(d, m)
                              /\ dev'[d].short = dev[d].short
<1>1. PICK random \in [Device -> RandomAddr] :
        dev' = [d \in Device |->
          [dev[d] EXCEPT !.mode = ModeAfter(d, m),
             !.random = IF ModeAfter(d, m) = "off" \/ d \in m["randomise"]
                        THEN @ ELSE random[d]]]
  BY DEF Started
<1>2. entered' = {d \in Device : ModeAfter(d, m) # "off"}
  BY DEF Started
<1>3. \A d \in Device : ModeAfter(d, m) \in {"off", "init", "withdrawn"}
  BY DEF DevOK, ModeAfter
<1>4. \A d \in Device : random[d] \in 0 .. Top - 1
  BY AddressAssumption
<1>5. \A d \in Device : /\ dev'[d].mode = ModeAfter(d, m)
                        /\ dev'[d].short = dev[d].short
  BY <1>1 DEF DevOK
<1>6. DevOK'
  BY <1>1, <1>3, <1>4 DEF DevOK
<1> QED BY <1>2, <1>5, <1>6

LEMMA CInvInit == Init => CInv
<1> SUFFICES ASSUME Init PROVE CInv
  OBVIOUS
<1>1. Byte(Top - 1) \in [1 .. 3 -> 0 .. Base - 1]
  <2>1. Top - 1 \in Nat
    BY TopFacts
  <2> QED BY <2>1, ByteType
<1>2. DevOK
  BY <1>1, TopFacts DEF Init, DevOK, Fresh
<1>3. CtlOK
  <2>1. 0 \in 0 .. Top
    BY TopFacts
  <2>2. adr \in 0 .. Top /\ last \in 0 .. Top /\ addsub \in Half \cup {0}
        /\ tries \in 0 .. 2
    BY <2>1 DEF Init
  <2>3. final \in BOOLEAN /\ variant \in {"gear", "input"} /\ pc = "start"
    BY DEF Init
  <2> QED BY <2>2, <2>3 DEF CtlOK
<1>4. SetsOK
  BY AddressAssumption DEF Init, SetsOK
<1>5. LostOK
  BY BoundAssumption DEF Init, LostOK
<1>6. SearchOK /\ CountOK
  BY FS_EmptySet DEF Init, SearchOK, CountOK
<1> QED BY <1>2, <1>3, <1>4, <1>5, <1>6, TypeParts DEF CInv

LEMMA StartStep ==
  ASSUME CInv, StartGear \/ StartInput
  PROVE  CInv'
<1>1. PICK tried, m : /\ m \in Misses(tried) /\ IsFiniteSet(tried)
                        /\ Started(m) /\ Missed(m)
  BY FewFrames DEF StartGear, StartInput
<1>2. DevOK' /\ entered' \subseteq Device
  BY <1>1, TypeParts, StartedDevices DEF CInv
<1>3. LostOK'
  BY <1>1, TypeParts, MissedCounted DEF CInv
<1>4. /\ pc = "start" /\ pc' = "status"
      /\ UNCHANGED <<variant, adr, addsub, last, tries, final, arr, cnt, given,
                     missed>>
  BY DEF StartGear, StartInput, search
<1>5. CtlOK' /\ SetsOK'
  BY <1>2, <1>4, TypeParts DEF CInv, CtlOK, SetsOK
<1>6. SearchOK' /\ CountOK'
  BY <1>4 DEF CInv, SearchOK, CountOK
<1> QED BY <1>2, <1>3, <1>5, <1>6, TypeParts DEF CInv

LEMMA ShortAddrFinite == IsFiniteSet(ShortAddr)
<1>1. 0 \in Int /\ NumShort - 1 \in Int
  BY AddressAssumption
<1>2. IsFiniteSet(0 .. NumShort - 1)
  BY <1>1, FS_Interval
<1> QED BY <1>2 DEF ShortAddr

LEMMA QueryStatusStep ==
  ASSUME CInv, QueryStatus
  PROVE  CInv'
<1> DEFINE at(a) == {d \in Device : dev[d].short = a}
           taken == {a \in ShortAddr : at(a) # {}}
           unheard(answered) ==
             {a \in taken \ answered : Cardinality(at(a)) = 1}
<1>1. PICK answered \in SUBSET taken :
        /\ lost.replies + Cardinality(unheard(answered)) <= MaxLostReplies
        /\ lost' = [lost EXCEPT !.replies =
                      @ + Cardinality(unheard(answered))]
        /\ arr' = answered /\ missed' = taken \ answered
  BY DEF QueryStatus
<1>2. arr' \subseteq ShortAddr /\ missed' \subseteq ShortAddr
  BY <1>1
<1>3. Cardinality(unheard(answered)) \in Nat
  <2>1. unheard(answered) \subseteq ShortAddr
    OBVIOUS
  <2> QED BY <2>1, ShortAddrFinite, FS_Subset, FS_CardinalityType
<1> HIDE DEF at, taken, unheard
<1>4. LostOK'
  BY <1>1, <1>3, TypeParts, BoundAssumption DEF CInv, LostOK
<1>5. /\ pc = "status" /\ pc' = "set"
      /\ UNCHANGED <<variant, adr, addsub, last, tries, final, cnt, dev, given,
                     entered>>
  BY DEF QueryStatus, search
<1>6. CtlOK' /\ SetsOK' /\ DevOK'
  BY <1>2, <1>5, TypeParts DEF CInv, CtlOK, SetsOK, DevOK
<1>7. SearchOK' /\ CountOK'
  <2>1. cnt' = 0
    BY <1>5 DEF CInv, CountOK
  <2>2. arr' \subseteq ShortAddr
    BY <1>2
  <2>3. Cardinality(arr') \in Nat
    BY <2>2, ShortAddrFinite, FS_Subset, FS_CardinalityType
  <2> QED BY <1>5, <2>1, <2>3 DEF SearchOK, CountOK
<1> QED BY <1>4, <1>6, <1>7, TypeParts DEF CInv

LEMMA SetStep ==
  ASSUME CInv, SetSearchAddr
  PROVE  CInv'
<1>1. PICK m \in Misses(1 .. 3) : SearchFrames(1 .. 3, m, InitialAdr) /\ Missed(m)
  BY DEF SetSearchAddr
<1>2. LostOK' /\ m \in [1 .. 3 -> SUBSET Device]
  BY <1>1, TypeParts, MissedCounted, FewFrames DEF CInv
<1>3. DevOK'
  BY <1>1, <1>2, TypeParts, TopFacts, SearchFramesSent DEF CInv
<1>4. /\ pc = "set" /\ pc' = "diff"
      /\ adr' = InitialAdr /\ last' = InitialAdr /\ addsub' = InitialAddsub
      /\ UNCHANGED <<variant, tries, final, arr, cnt, given, entered, missed>>
  BY DEF SetSearchAddr
<1>5. CtlOK' /\ SetsOK'
  BY <1>4, TypeParts, TopFacts DEF CInv, CtlOK, SetsOK
<1>6. SearchOK' /\ CountOK'
  BY <1>4, TopFacts DEF CInv, SearchOK, CountOK, Width
<1> QED BY <1>2, <1>3, <1>5, <1>6, TypeParts DEF CInv

\* Only the bytes that differ are sent, and the registers follow.
LEMMA DiffSent ==
  ASSUME DevOK, LostOK, NEW a \in Nat, last \in Nat, SetSearchAddrDiff(a)
  PROVE  /\ DevOK' /\ LostOK' /\ lost'.replies = lost.replies
         /\ \A d \in Device : /\ dev'[d].mode = dev[d].mode
                               /\ dev'[d].random = dev[d].random
                               /\ dev'[d].short = dev[d].short
         /\ lost'.frames = 0 =>
              /\ lost.frames = 0
              /\ \A d \in Initialised :
                   dev[d].search = Byte(last) => dev'[d].search = Byte(a)
<1> DEFINE which == {i \in 1 .. 3 : Byte(a)[i] # Byte(last)[i]}
<1>1. PICK m \in Misses(which) : SearchFrames(which, m, a) /\ Missed(m)
  BY DEF SetSearchAddrDiff
<1>2. which \in SUBSET (1 .. 3) /\ IsFiniteSet(which)
  BY FewFrames
<1>3. \A i \in (1 .. 3) \ which : Byte(last)[i] = Byte(a)[i]
  OBVIOUS
<1> HIDE DEF which
<1>4. /\ LostOK' /\ lost'.replies = lost.replies
      /\ m \in [which -> SUBSET Device]
      /\ lost'.frames = 0 => lost.frames = 0 /\ \A i \in which : m[i] = {}
  BY <1>1, <1>2, MissedCounted
<1>5. /\ DevOK'
      /\ \A d \in Device : /\ dev'[d].mode = dev[d].mode
                            /\ dev'[d].random = dev[d].random
                            /\ dev'[d].short = dev[d].short
      /\ (\A i \in which : m[i] = {}) =>
           \A d \in Initialised :
             (\A i \in (1 .. 3) \ which : dev[d].search[i] = Byte(a)[i])
               => dev'[d].search = Byte(a)
  BY <1>1, <1>2, <1>4, SearchFramesSent
<1> QED BY <1>3, <1>4, <1>5

LEMMA DiffStep ==
  ASSUME CInv, NextSearchAddr
  PROVE  CInv'
<1>1. adr \in Nat /\ last \in Nat
  BY TypeParts, TopFacts DEF CInv, CtlOK
<1>2. DevOK' /\ LostOK'
  BY <1>1, TypeParts, DiffSent DEF CInv, NextSearchAddr
<1>3. /\ pc = "diff" /\ pc' = "compare"
      /\ last' = adr /\ tries' = 2 /\ final' = (addsub = 0)
      /\ UNCHANGED <<variant, adr, addsub, arr, cnt, given, entered, missed>>
  BY DEF NextSearchAddr
<1>4. CtlOK' /\ SetsOK'
  BY <1>3, TypeParts DEF CInv, CtlOK, SetsOK
<1>5. SearchOK' /\ CountOK'
  BY <1>3 DEF CInv, SearchOK, CountOK, Width
<1> QED BY <1>2, <1>4, <1>5, TypeParts DEF CInv

LEMMA CompareStep ==
  ASSUME CInv, Compare
  PROVE  CInv'
<1> DEFINE From(m) == {d \in Active \ m["compare"] :
                         dev[d].random <= Value(dev[d].search)}
           Lost(from, reply) ==
             IF from # {} /\ Unheard(reply) THEN 1 ELSE 0
           Heard(m, reply) ==
             /\ lost.replies + Lost(From(m), reply) <= MaxLostReplies
             /\ lost' = [frames |-> lost.frames + IF m["compare"] = {} THEN 0 ELSE 1,
                         replies |-> lost.replies + Lost(From(m), reply)]
             /\ \/ Step(Recognised(reply)) /\ UNCHANGED tries
                \/ tries # 1 /\ Retry /\ UNCHANGED <<pc, adr, addsub>>
<1>1. PICK m \in Misses({"compare"}) : \E reply \in Replies(From(m)) : Heard(m, reply)
  BY DEF Compare
<1>2. PICK reply \in Replies(From(m)) : Heard(m, reply)
  BY <1>1
<1>3. /\ \E unheard \in {0, 1} :
           /\ lost.replies + unheard <= MaxLostReplies
           /\ lost' = [frames |-> lost.frames + IF m["compare"] = {} THEN 0 ELSE 1,
                       replies |-> lost.replies + unheard]
      /\ \/ Step(Recognised(reply)) /\ UNCHANGED tries
         \/ tries # 1 /\ Retry /\ UNCHANGED <<pc, adr, addsub>>
  <2>1. Lost(From(m), reply) \in {0, 1}
    OBVIOUS
  <2> HIDE DEF Lost
  <2> QED BY <1>2, <2>1
<1> HIDE DEF Heard
<1>4. LostOK'
  <2>1. /\ lost.frames \in 0 .. MaxLostFrames
        /\ lost.replies \in 0 .. MaxLostReplies
    BY TypeParts DEF CInv, LostOK
  <2>2. m["compare"] # {} => 1 <= MaxLostFrames - lost.frames
    <3> SUFFICES ASSUME m["compare"] # {} PROVE 1 <= MaxLostFrames - lost.frames
      OBVIOUS
    <3>1. {f \in {"compare"} : m[f] # {}} = {"compare"}
      OBVIOUS
    <3>2. Cardinality({"compare"}) = 1
      BY FS_Singleton, Zenon
    <3> QED BY <3>1, <3>2 DEF Misses
  <2> QED BY <1>3, <2>1, <2>2, BoundAssumption DEF LostOK
<1>5. /\ pc = "compare"
      /\ UNCHANGED <<variant, last, final, arr, cnt, dev, given, entered, missed>>
  BY DEF Compare
<1>6. /\ adr \in 0 .. Top /\ addsub \in Half \cup {0} /\ tries \in 1 .. 2
      /\ final = (addsub = 0) /\ last = adr
      /\ Width <= adr /\ adr + Width <= Top
  BY <1>5, TypeParts DEF CInv, CtlOK, SearchOK
<1>7. CASE Step(Recognised(reply)) /\ UNCHANGED tries
  <2>1. CASE final
    <3>1. pc' \in {"found", "bump"} /\ UNCHANGED <<adr, addsub>> /\ adr < Top
      <4>1. Width = 1 /\ adr \in Nat /\ Top \in Nat
        <5>1. addsub = 0
          BY <1>6, <2>1, Zenon
        <5>2. Width = 1
          BY <5>1 DEF Width
        <5> QED BY <1>6, <5>2, TopFacts
      <4>2. adr < Top
        BY <1>6, <4>1
      <4>3. pc' \in {"found", "bump"} /\ UNCHANGED <<adr, addsub>>
        BY <1>7, <2>1, Zenon DEF Step
      <4> QED BY <4>2, <4>3
    <3> QED BY <1>4, <1>5, <1>6, <1>7, <3>1, TypeParts
            DEF CInv, CtlOK, SetsOK, DevOK, SearchOK, CountOK
  <2>2. CASE ~final
    <3>1. /\ pc' = "diff" /\ addsub' = addsub \div 2
          /\ adr' = adr - addsub \/ adr' = adr + addsub
      BY <1>7, <2>2 DEF Step
    <3>2. addsub \in Half /\ addsub \in Nat /\ addsub >= 1 /\ Width = 2 * addsub
      BY <1>6, <2>2, TopFacts DEF Width
    <3>3. addsub' \in Half \cup {0} /\ Width' = addsub
      BY <3>1, <3>2, TopFacts DEF Width
    <3>4. adr' \in 0 .. Top /\ addsub <= adr' /\ adr' + addsub <= Top
      BY <1>6, <3>1, <3>2, TopFacts
    <3> QED BY <1>4, <1>5, <1>7, <3>1, <3>3, <3>4, TypeParts
            DEF CInv, CtlOK, SetsOK, DevOK, SearchOK, CountOK
  <2> QED BY <1>6, <2>1, <2>2
<1>8. CASE tries # 1 /\ Retry /\ UNCHANGED <<pc, adr, addsub>>
  <2>1. tries' = 1
    BY <1>6, <1>8 DEF Retry
  <2> QED BY <1>4, <1>5, <1>8, <2>1, TypeParts
          DEF CInv, CtlOK, SetsOK, DevOK, SearchOK, CountOK, Width
<1> QED BY <1>3, <1>7, <1>8

LEMMA BumpStep ==
  ASSUME CInv, Bump
  PROVE  CInv'
<1>1. adr \in Nat /\ adr + 1 \in 0 .. Top /\ last \in Nat
  BY TypeParts, TopFacts DEF CInv, CtlOK, SearchOK, Bump
<1>2. DevOK' /\ LostOK'
  BY <1>1, TypeParts, DiffSent DEF CInv, Bump
<1>3. /\ pc' = "found" /\ adr' = adr + 1
      /\ UNCHANGED <<variant, addsub, last, tries, final, arr, cnt, given,
                     entered, missed>>
  BY DEF Bump
<1>4. CtlOK' /\ SetsOK'
  BY <1>1, <1>3, TypeParts DEF CInv, CtlOK, SetsOK
<1>5. SearchOK' /\ CountOK'
  BY <1>3 DEF CInv, SearchOK, CountOK
<1> QED BY <1>2, <1>4, <1>5, TypeParts DEF CInv

LEMMA ProgramStep ==
  ASSUME CInv, Program
  PROVE  CInv'
<1>1. PICK m \in Misses({"program"}) :
        /\ dev' = [d \in Device |-> IF d \in Selected \ m["program"]
                    THEN [dev[d] EXCEPT !.short = FirstUnused] ELSE dev[d]]
        /\ given' = given \cup (Selected \ m["program"])
        /\ Missed(m)
  BY DEF Program
<1>2. LostOK'
  BY <1>1, TypeParts, MissedCounted, FewFrames DEF CInv
<1>3. /\ pc = "found" /\ pc' = "withdraw"
      /\ arr' = arr \cup {FirstUnused} /\ cnt' = cnt + 1
      /\ UNCHANGED <<variant, adr, addsub, last, tries, final, entered, missed>>
  BY DEF Program, search
<1>4. arr \subseteq ShortAddr /\ FirstUnused \in ShortAddr \ arr
  BY TypeParts, FirstUnusedIsFree DEF CInv, SetsOK, Program, Exhausted
<1>5. DevOK'
  <2>1. \A d \in Device : dev[d] \in [mode : {"off", "init", "withdrawn"},
                         random : 0 .. Top - 1,
                         search : [1 .. 3 -> 0 .. Base - 1],
                         short : ShortAddr \cup {NoShort}]
    BY TypeParts DEF CInv, DevOK
  <2> QED BY <1>1, <1>4, <2>1 DEF DevOK
<1>6. /\ arr' \subseteq ShortAddr
      /\ Cardinality(arr') = Cardinality(arr) + 1
      /\ Cardinality(arr') <= NumShort
      /\ cnt \in Nat /\ cnt' <= Cardinality(arr')
  <2>1. arr' \subseteq ShortAddr
    BY <1>3, <1>4
  <2>2. Cardinality(arr') = Cardinality(arr) + 1 /\ Cardinality(arr) \in Nat
    BY <1>3, <1>4, FiniteSubset, FS_AddElement
  <2>3. Cardinality(arr') <= NumShort
    BY <2>1, FiniteSubset
  <2>4. cnt \in Nat /\ cnt <= Cardinality(arr)
    BY TypeParts, AddressAssumption DEF CInv, SetsOK, CountOK
  <2> QED BY <1>3, <2>1, <2>2, <2>3, <2>4
<1>7. CtlOK' /\ SetsOK'
  <2>1. given' \subseteq Device
    BY <1>1, TypeParts DEF CInv, SetsOK, Selected, Initialised
  <2>2. cnt' \in 0 .. NumShort
    BY <1>3, <1>4, <1>6, FiniteSubset, AddressAssumption
  <2> QED BY <1>3, <1>6, <2>1, <2>2, TypeParts DEF CInv, CtlOK, SetsOK
<1>8. SearchOK' /\ CountOK'
  BY <1>3, <1>6 DEF SearchOK, CountOK
<1> QED BY <1>2, <1>5, <1>7, <1>8, TypeParts DEF CInv

LEMMA WithdrawStep ==
  ASSUME CInv, Withdraw
  PROVE  CInv'
<1>1. PICK m \in Misses({"withdraw"}) :
        /\ dev' = [d \in Device |-> IF d \in Selected \ m["withdraw"]
                    THEN [dev[d] EXCEPT !.mode = "withdrawn"] ELSE dev[d]]
        /\ Missed(m)
  BY DEF Withdraw
<1>2. LostOK'
  BY <1>1, TypeParts, MissedCounted, FewFrames DEF CInv
<1>3. DevOK'
  BY <1>1, TypeParts DEF CInv, DevOK
<1>4. /\ pc = "withdraw" /\ pc' = "set"
      /\ UNCHANGED <<variant, adr, addsub, last, tries, final, arr, cnt, given,
                     entered, missed>>
  BY DEF Withdraw, search
<1>5. CtlOK' /\ SetsOK' /\ SearchOK' /\ CountOK'
  BY <1>4, TypeParts DEF CInv, CtlOK, SetsOK, SearchOK, CountOK
<1> QED BY <1>2, <1>3, <1>5, TypeParts DEF CInv

LEMMA TerminateStep ==
  ASSUME CInv, Terminate
  PROVE  CInv'
<1>1. PICK m \in Misses({"terminate"}) :
        /\ dev' = [d \in Device |-> IF d \in m["terminate"] THEN dev[d]
                                    ELSE [dev[d] EXCEPT !.mode = "off"]]
        /\ Missed(m)
  BY DEF Terminate
<1>2. LostOK'
  BY <1>1, TypeParts, MissedCounted, FewFrames DEF CInv
<1>3. DevOK'
  BY <1>1, TypeParts DEF CInv, DevOK
<1>4. /\ pc = "found" /\ pc' = "done"
      /\ UNCHANGED <<variant, adr, addsub, last, tries, final, arr, cnt, given,
                     entered, missed>>
  BY DEF Terminate, search
<1>5. CtlOK' /\ SetsOK' /\ SearchOK' /\ CountOK'
  BY <1>4, TypeParts DEF CInv, CtlOK, SetsOK, SearchOK, CountOK
<1> QED BY <1>2, <1>3, <1>5, TypeParts DEF CInv

LEMMA CInvNext == CInv /\ [Next]_vars => CInv'
<1>1. ASSUME CInv, UNCHANGED vars PROVE CInv'
  BY <1>1 DEF vars, CInv, TypeOK, SearchOK, CountOK, Width
<1> QED BY <1>1, StartStep, QueryStatusStep, SetStep, DiffStep, CompareStep,
       BumpStep, ProgramStep, WithdrawStep, TerminateStep DEF Next, FindAddr

THEOREM ControlInvariant == Spec => []CInv
BY CInvInit, CInvNext, PTL DEF Spec, SafeSpec

\* What the process remembers and what the devices remember stay well typed;
\* the search address never leaves the addresses, and no more devices are
\* counted than there are short addresses.
THEOREM TypeCorrect == Spec => []TypeOK
<1>1. CInv => TypeOK
  BY DEF CInv
<1> QED BY <1>1, ControlInvariant, PTL

(***************************************************************************)
(* The end of the process.                                                 *)
(***************************************************************************)

LEMMA UnusedCounted ==
  ASSUME CInv
  PROVE  Unused \in Nat
BY FiniteSubset DEF Unused

LEMMA GetsOnSearch ==
  ASSUME CInv, FindAddr
  PROVE  Unused' = Unused /\ Ahead' < Ahead
<1>1. Unused' = Unused
  BY DEF FindAddr, SetSearchAddr, NextSearchAddr, Compare, Bump, Unused
<1>2. CASE SetSearchAddr
  BY <1>1, <1>2, TopFacts DEF SetSearchAddr, Ahead
<1>3. CASE NextSearchAddr
  <2>1. pc = "diff" /\ pc' = "compare" /\ tries' = 2 /\ addsub' = addsub
    BY <1>3 DEF NextSearchAddr
  <2>2. addsub \in Half \cup {0}
    BY TypeParts DEF CInv, CtlOK
  <2>3. addsub \in Nat
    BY <2>2, TopFacts
  <2> QED BY <1>1, <2>1, <2>3 DEF Ahead
<1>4. CASE Compare
  <2>1. \E reply : \/ Step(Recognised(reply)) /\ UNCHANGED tries
                   \/ Retry /\ UNCHANGED <<pc, adr, addsub>>
    <3>1. PICK m \in Misses({"compare"}) :
            \E reply \in Replies({d \in Active \ m["compare"] :
                                    dev[d].random <= Value(dev[d].search)}) :
              IF Recognised(reply) \/ tries = 1
              THEN Step(Recognised(reply)) /\ UNCHANGED tries
              ELSE Retry /\ UNCHANGED <<pc, adr, addsub>>
      BY <1>4, Zenon DEF Compare
    <3>2. PICK reply :
            IF Recognised(reply) \/ tries = 1
            THEN Step(Recognised(reply)) /\ UNCHANGED tries
            ELSE Retry /\ UNCHANGED <<pc, adr, addsub>>
      BY <3>1, Zenon
    <3> QED BY <3>2, Zenon
  <2>2. PICK reply : \/ Step(Recognised(reply)) /\ UNCHANGED tries
                     \/ Retry /\ UNCHANGED <<pc, adr, addsub>>
    BY <2>1
  <2>3. pc = "compare"
    BY <1>4 DEF Compare
  <2>4. /\ tries \in 1 .. 2 /\ (~final => addsub # 0)
        /\ addsub \in Half \cup {0}
    BY <2>3, TypeParts DEF CInv, CtlOK, SearchOK
  <2>5. addsub \in Nat
    BY <2>4, TopFacts
  <2>6. ~final => addsub \div 2 \in Nat /\ addsub \div 2 <= addsub - 1
    BY <2>4, <2>5, TopFacts
  <2>7. CASE Retry /\ UNCHANGED <<pc, adr, addsub>>
    BY <1>1, <2>3, <2>4, <2>5, <2>7 DEF Retry, Ahead
  <2>8. CASE Step(Recognised(reply)) /\ UNCHANGED tries
    <3>1. \/ pc' \in {"found", "bump"}
          \/ ~final /\ pc' = "diff" /\ addsub' = addsub \div 2
      BY <2>8 DEF Step
    <3>2. Ahead = 4 * addsub + 3 + tries
      BY <2>3 DEF Ahead
    <3>3. CASE pc' \in {"found", "bump"}
      <4>1. Ahead' = 1 \/ Ahead' = 2
        BY <3>3 DEF Ahead
      <4> QED BY <1>1, <2>4, <2>5, <3>2, <4>1
    <3>4. CASE ~final /\ pc' = "diff" /\ addsub' = addsub \div 2
      <4>1. Ahead' = 4 * (addsub \div 2) + 6
        BY <3>4 DEF Ahead
      <4> QED BY <1>1, <2>4, <2>5, <2>6, <3>2, <3>4, <4>1
    <3> QED BY <3>1, <3>3, <3>4
  <2> QED BY <2>2, <2>7, <2>8
<1>5. CASE Bump
  BY <1>1, <1>5 DEF Bump, Ahead
<1> QED BY <1>2, <1>3, <1>4, <1>5, <1>1 DEF FindAddr

LEMMA GetsOnStep ==
  ASSUME CInv, Next
  PROVE  Unused' < Unused \/ (Unused' = Unused /\ Ahead' < Ahead)
<1>1. CASE StartGear \/ StartInput
  <2>1. pc = "start" /\ pc' = "status" /\ arr' = arr
    BY <1>1 DEF StartGear, StartInput
  <2> QED BY <2>1, TopFacts DEF Unused, Ahead
<1>2. CASE QueryStatus
  <2>1. arr = {} /\ arr' \subseteq ShortAddr /\ pc = "status" /\ pc' = "set"
    BY <1>2 DEF QueryStatus, CInv, CountOK
  <2>2. Unused' <= Unused /\ Unused \in Nat /\ Unused' \in Nat
    BY <2>1, ShortAddrFinite, FS_Subset, FS_CardinalityType, FiniteSubset DEF Unused
  <2> QED BY <2>1, <2>2, TopFacts DEF Ahead
<1>3. CASE FindAddr
  BY <1>3, GetsOnSearch
<1>4. CASE Program
  <2>1. arr' = arr \cup {FirstUnused}
    BY <1>4 DEF Program
  <2>2. FirstUnused \in ShortAddr \ arr
    BY <1>4, TypeParts, FirstUnusedIsFree DEF CInv, SetsOK, Program, Exhausted
  <2>3. ShortAddr \ arr' = (ShortAddr \ arr) \ {FirstUnused}
    BY <2>1
  <2>4. Unused' = Unused - 1
    BY <2>2, <2>3, FiniteSubset, FS_RemoveElement DEF Unused
  <2> QED BY <2>4, UnusedCounted
<1>5. CASE Withdraw \/ Terminate
  <2>1. /\ arr' = arr
        /\ \/ pc = "withdraw" /\ pc' = "set"
           \/ pc = "found" /\ pc' = "done"
    BY <1>5 DEF Withdraw, Terminate
  <2> QED BY <2>1, TopFacts DEF Unused, Ahead
<1> QED BY <1>1, <1>2, <1>3, <1>4, <1>5 DEF Next

\* For any number of devices, whatever they miss and whatever is heard of them:
\* each step gives an address away or shortens what is left of the search, so
\* that commission takes no more steps than these two numbers allow.
THEOREM CommissioningGetsOn == Spec => GetsOn
<1>1. CInv /\ [Next]_vars =>
        [Unused' < Unused \/ (Unused' = Unused /\ Ahead' < Ahead)]_vars
  BY GetsOnStep
<1> QED BY <1>1, ControlInvariant, PTL DEF Spec, SafeSpec, GetsOn

(***************************************************************************)
(* The search.  What is left of the addresses is an interval: no device    *)
(* still in the process is at or below its lower end, and some is at or    *)
(* below its upper end, unless that is beyond the last address.            *)
(***************************************************************************)

Below(a) == \E d \in Active : dev[d].random <= a
Between(lo, hi) ==
  (\A d \in Active : lo < dev[d].random) /\ (hi = Top \/ Below(hi))

\* Without a missed frame every device compares with the address meant.
RegistersOK ==
  lost.frames = 0 =>
    /\ pc \in {"diff", "compare", "bump"} =>
         \A d \in Initialised : dev[d].search = Byte(last)
    /\ pc = "found" => \A d \in Initialised : dev[d].search = Byte(adr)

\* The second try of a comparison with a device to answer it has seen a reply
\* get lost.
LeftOK ==
  lost.frames = 0 /\ lost.replies <= 1 /\ Findable =>
    /\ pc \in {"diff", "compare"} => Between(adr - Width, adr + Width)
    /\ pc = "bump" => Between(adr, adr + 1)
    /\ pc = "found" => Between(adr - 1, adr)
    /\ pc = "compare" /\ tries = 1 /\ Below(adr) => lost.replies = 1

FindInv == CInv /\ RegistersOK /\ LeftOK

LEMMA SameDevices ==
  ASSUME \A d \in Device : /\ dev'[d].mode = dev[d].mode
                           /\ dev'[d].random = dev[d].random
  PROVE  /\ Active' = Active /\ Initialised' = Initialised
         /\ Findable' = Findable
         /\ \A d \in Active : dev'[d].random = dev[d].random
         /\ \A a : Below(a)' = Below(a)
         /\ \A lo, hi : Between(lo, hi)' = Between(lo, hi)
<1>1. Active' = Active /\ Initialised' = Initialised
  BY DEF Active, Initialised
<1>2. \A d \in Active : dev'[d].random = dev[d].random
  BY DEF Active
<1>3. Findable' = Findable
  BY <1>1, <1>2 DEF Findable
<1>4. \A a : Below(a)' = Below(a)
  BY <1>1, <1>2 DEF Below
<1>5. \A lo, hi : Between(lo, hi)' = Between(lo, hi)
  BY <1>1, <1>2, <1>4 DEF Between
<1> QED BY <1>1, <1>2, <1>3, <1>4, <1>5

LEMMA ActiveDevices ==
  ASSUME DevOK
  PROVE  /\ Active \subseteq Initialised /\ Initialised \subseteq Device
         /\ \A d \in Device : dev[d].random \in 0 .. Top - 1
BY DEF DevOK, Active, Initialised

LEMMA AtCompare ==
  ASSUME CInv, pc = "compare"
  PROVE  /\ adr \in Nat /\ adr < Top /\ last = adr /\ final = (addsub = 0)
         /\ addsub \in Half \cup {0} /\ addsub \in Nat
         /\ tries \in 1 .. 2 /\ variant \in {"gear", "input"}
<1>1. /\ adr \in 0 .. Top /\ last = adr /\ final = (addsub = 0)
      /\ addsub \in Half \cup {0} /\ adr + Width <= Top
      /\ tries \in 1 .. 2 /\ variant \in {"gear", "input"}
  BY TypeParts DEF CInv, CtlOK, SearchOK
<1>2. \A s \in Half : s \in Nat /\ s >= 1
  BY TopFacts
<1>3. addsub \in Nat
  BY <1>1, <1>2
<1>4. Width \in Nat /\ Width >= 1
  BY <1>3 DEF Width
<1>5. adr \in Nat /\ adr < Top
  BY <1>1, <1>4, TopFacts
<1> QED BY <1>1, <1>3, <1>5

LEMMA FindSet ==
  ASSUME FindInv, SetSearchAddr
  PROVE  RegistersOK' /\ LeftOK'
<1>1. PICK m \in Misses(1 .. 3) : SearchFrames(1 .. 3, m, InitialAdr) /\ Missed(m)
  BY DEF SetSearchAddr
<1>2. DevOK /\ LostOK /\ CInv'
  BY TypeParts, SetStep DEF FindInv, CInv
<1>3. /\ m \in [1 .. 3 -> SUBSET Device]
      /\ lost'.frames = 0 => \A f \in 1 .. 3 : m[f] = {}
  BY <1>1, <1>2, MissedCounted, FewFrames
<1>4. /\ \A d \in Device : /\ dev'[d].mode = dev[d].mode
                            /\ dev'[d].random = dev[d].random
      /\ (\A i \in 1 .. 3 : m[i] = {}) =>
           \A d \in Initialised : dev'[d].search = Byte(InitialAdr)
  <2>1. InitialAdr \in Nat /\ (1 .. 3) \ (1 .. 3) = {}
    BY TopFacts
  <2> QED BY <1>1, <1>2, <1>3, <2>1, SearchFramesSent
<1>5. /\ pc' = "diff" /\ adr' = InitialAdr /\ last' = InitialAdr
      /\ addsub' = InitialAddsub
  BY DEF SetSearchAddr
<1>6. RegistersOK'
  BY <1>3, <1>4, <1>5, SameDevices DEF RegistersOK
<1>7. Width' = InitialAdr /\ InitialAdr - InitialAdr = 0
      /\ InitialAdr + InitialAdr = Top
  BY <1>5, TopFacts DEF Width
<1>8. Findable => Between(0, Top)
  BY <1>2, ActiveDevices DEF Findable, Between
<1>9. LeftOK'
  BY <1>4, <1>5, <1>7, <1>8, SameDevices DEF LeftOK
<1> QED BY <1>6, <1>9

LEMMA FindDiff ==
  ASSUME FindInv, NextSearchAddr
  PROVE  RegistersOK' /\ LeftOK'
<1>1. DevOK /\ LostOK /\ adr \in Nat /\ last \in Nat
  BY TypeParts, TopFacts DEF FindInv, CInv, CtlOK
<1>2. /\ pc = "diff" /\ pc' = "compare" /\ last' = adr /\ tries' = 2
      /\ UNCHANGED <<adr, addsub>>
  BY DEF NextSearchAddr
<1>3. /\ lost'.replies = lost.replies
      /\ \A d \in Device : /\ dev'[d].mode = dev[d].mode
                            /\ dev'[d].random = dev[d].random
      /\ lost'.frames = 0 =>
           /\ lost.frames = 0
           /\ \A d \in Initialised :
                dev[d].search = Byte(last) => dev'[d].search = Byte(adr)
  BY <1>1, DiffSent DEF NextSearchAddr
<1>4. RegistersOK'
  BY <1>2, <1>3, SameDevices DEF FindInv, RegistersOK
<1>5. Width' = Width
  BY <1>2 DEF Width
<1>6. LeftOK'
  <2> SUFFICES ASSUME lost'.frames = 0, lost'.replies <= 1, Findable'
               PROVE  Between(adr - Width, adr + Width)'
    BY <1>2 DEF LeftOK
  <2>1. Between(adr - Width, adr + Width)
    BY <1>2, <1>3, SameDevices DEF FindInv, LeftOK
  <2>2. Between(adr - Width, adr + Width)' = Between(adr - Width, adr + Width)
    BY <1>2, <1>3, <1>5, SameDevices
  <2> QED BY <2>1, <2>2
<1> QED BY <1>4, <1>6

LEMMA FindBump ==
  ASSUME FindInv, Bump
  PROVE  RegistersOK' /\ LeftOK'
<1>1. DevOK /\ LostOK /\ adr \in Nat /\ adr + 1 \in Nat /\ last \in Nat
  BY TypeParts, TopFacts DEF FindInv, CInv, CtlOK
<1>2. pc = "bump" /\ pc' = "found" /\ adr' = adr + 1
  BY DEF Bump
<1>3. /\ lost'.replies = lost.replies
      /\ \A d \in Device : /\ dev'[d].mode = dev[d].mode
                            /\ dev'[d].random = dev[d].random
      /\ lost'.frames = 0 =>
           /\ lost.frames = 0
           /\ \A d \in Initialised :
                dev[d].search = Byte(last) => dev'[d].search = Byte(adr + 1)
  BY <1>1, DiffSent DEF Bump
<1>4. RegistersOK'
  BY <1>2, <1>3, SameDevices DEF FindInv, RegistersOK
<1>5. adr' - 1 = adr
  BY <1>1, <1>2
<1>6. LeftOK'
  BY <1>2, <1>3, <1>5, SameDevices DEF FindInv, LeftOK
<1> QED BY <1>4, <1>6

\* What a comparison says while nothing but one reply was lost: yes when a
\* device is at or below adr, no, or once more.
LEMMA CompareRight ==
  ASSUME FindInv, Compare, lost'.frames = 0, lost'.replies <= 1, Findable
  PROVE  /\ lost.frames = 0 /\ lost.replies <= 1
         /\ \/ Step(TRUE) /\ Below(adr)
            \/ Step(FALSE) /\ ~Below(adr)
            \/ /\ UNCHANGED <<pc, adr, addsub>> /\ tries' = 1
               /\ Below(adr) => lost'.replies = 1
<1> DEFINE From(m) == {d \in Active \ m["compare"] :
                         dev[d].random <= Value(dev[d].search)}
           Lost(from, reply) ==
             IF from # {} /\ Unheard(reply) THEN 1 ELSE 0
<1>1. PICK m \in Misses({"compare"}) :
        \E reply \in Replies(From(m)) :
          /\ lost' = [frames |-> lost.frames + IF m["compare"] = {} THEN 0 ELSE 1,
                      replies |-> lost.replies + Lost(From(m), reply)]
          /\ IF Recognised(reply) \/ tries = 1
             THEN Step(Recognised(reply)) /\ UNCHANGED tries
             ELSE Retry /\ UNCHANGED <<pc, adr, addsub>>
  BY DEF Compare
<1>2. PICK reply \in Replies(From(m)) :
        /\ lost' = [frames |-> lost.frames + IF m["compare"] = {} THEN 0 ELSE 1,
                    replies |-> lost.replies + Lost(From(m), reply)]
        /\ IF Recognised(reply) \/ tries = 1
           THEN Step(Recognised(reply)) /\ UNCHANGED tries
           ELSE Retry /\ UNCHANGED <<pc, adr, addsub>>
  BY <1>1
<1>3. /\ DevOK /\ pc = "compare" /\ last = adr /\ adr \in Nat /\ adr < Top
      /\ tries \in 1 .. 2 /\ variant \in {"gear", "input"}
      /\ lost.frames \in Nat /\ lost.replies \in Nat
  <2>1. DevOK /\ lost.frames \in Nat /\ lost.replies \in Nat
    BY TypeParts, BoundAssumption DEF FindInv, CInv, LostOK
  <2> QED BY <2>1, AtCompare DEF FindInv, Compare
<1>4. lost.frames = 0 /\ m["compare"] = {}
  BY <1>2, <1>3
<1>5. From(m) # {} <=> Below(adr)
  <2>1. \A d \in Active : dev[d].search = Byte(adr)
    BY <1>3, <1>4, ActiveDevices DEF FindInv, RegistersOK
  <2>2. Value(Byte(adr)) = adr
    BY <1>3, ValueByte, TopFacts
  <2> QED BY <1>4, <2>1, <2>2 DEF Below
<1>6. /\ Recognised(reply) => From(m) # {}
      /\ From(m) # {} /\ ~Recognised(reply) => Unheard(reply)
  <2>1. From(m) = {} => reply = "none"
    BY DEF Replies
  <2>2. ~Recognised("none")
    BY DEF Recognised, CompareGear, CompareInput
  <2>3. reply \in {"none", "yes", "garbled", "byte"}
    BY DEF Replies
  <2> HIDE DEF From
  <2>4. ~Recognised(reply) => Unheard(reply)
    BY <1>3, <2>3 DEF Recognised, CompareGear, CompareInput, Unheard
  <2> QED BY <2>1, <2>2, <2>4
<1> HIDE DEF From
<1>7. lost.replies <= 1 /\ lost'.replies = lost.replies + Lost(From(m), reply)
  BY <1>2, <1>3
<1>8. CASE Recognised(reply)
  <2>1. Recognised(reply) = TRUE
    BY <1>8 DEF Recognised, CompareGear, CompareInput
  <2> QED BY <1>2, <1>4, <1>5, <1>6, <1>7, <1>8, <2>1
<1>9. CASE ~Recognised(reply) /\ tries = 1
  <2>1. Recognised(reply) = FALSE
    BY <1>9 DEF Recognised, CompareGear, CompareInput
  <2>2. ~Below(adr)
    <3> SUFFICES ASSUME Below(adr) PROVE FALSE
      OBVIOUS
    <3>1. lost.replies = 1
      BY <1>3, <1>4, <1>7, <1>9 DEF FindInv, LeftOK
    <3>2. lost'.replies = 2
      BY <1>5, <1>6, <1>7, <1>9, <3>1
    <3> QED BY <3>2
  <2> QED BY <1>2, <1>4, <1>7, <1>9, <2>1, <2>2
<1>10. CASE ~Recognised(reply) /\ tries # 1
  <2>1. tries' = 1 /\ UNCHANGED <<pc, adr, addsub>>
    BY <1>2, <1>3, <1>10 DEF Retry
  <2>2. Below(adr) => lost'.replies = 1
    BY <1>3, <1>5, <1>6, <1>7, <1>10
  <2> QED BY <1>4, <1>7, <2>1, <2>2
<1> QED BY <1>8, <1>9, <1>10

LEMMA FindCompare ==
  ASSUME FindInv, Compare
  PROVE  RegistersOK' /\ LeftOK'
<1>1. /\ pc = "compare" /\ UNCHANGED <<last, final, dev>>
      /\ lost'.frames = 0 => lost.frames = 0
  <2>1. lost.frames \in Nat
    BY TypeParts, BoundAssumption DEF FindInv, CInv, LostOK
  <2>2. PICK m \in Misses({"compare"}) :
          lost'.frames = lost.frames + IF m["compare"] = {} THEN 0 ELSE 1
    BY DEF Compare
  <2> QED BY <2>1, <2>2 DEF Compare
<1>2. /\ adr \in Nat /\ last = adr /\ final = (addsub = 0)
      /\ addsub \in Nat /\ addsub \in Half \cup {0}
  BY <1>1, AtCompare DEF FindInv
<1>3. /\ Findable' = Findable /\ Initialised' = Initialised
      /\ \A a : Below(a)' = Below(a)
      /\ \A lo, hi : Between(lo, hi)' = Between(lo, hi)
  BY <1>1, SameDevices
<1>4. pc' \in {"compare", "diff", "bump"} \/ (pc' = "found" /\ adr' = adr)
  BY <1>1 DEF Compare, Step
<1>5. RegistersOK'
  BY <1>1, <1>2, <1>3, <1>4 DEF FindInv, RegistersOK
<1>6. LeftOK'
  <2> SUFFICES ASSUME lost'.frames = 0, lost'.replies <= 1, Findable
               PROVE  /\ pc' \in {"diff", "compare"} =>
                           Between(adr' - Width', adr' + Width')
                      /\ pc' = "bump" => Between(adr', adr' + 1)
                      /\ pc' = "found" => Between(adr' - 1, adr')
                      /\ pc' = "compare" /\ tries' = 1 /\ Below(adr')
                           => lost'.replies = 1
    BY <1>3 DEF LeftOK
  <2>1. /\ lost.frames = 0 /\ lost.replies <= 1
        /\ \/ Step(TRUE) /\ Below(adr)
           \/ Step(FALSE) /\ ~Below(adr)
           \/ /\ UNCHANGED <<pc, adr, addsub>> /\ tries' = 1
              /\ Below(adr) => lost'.replies = 1
    BY CompareRight
  <2>2. Between(adr - Width, adr + Width)
    BY <1>1, <2>1 DEF FindInv, LeftOK
  <2>3. /\ Below(adr) => Between(adr - Width, adr)
        /\ ~Below(adr) => Between(adr, adr + Width)
    <3>1. \A d \in Active : dev[d].random \in Nat
      BY ActiveDevices, TypeParts, TopFacts DEF FindInv, CInv
    <3> QED BY <1>2, <2>2, <3>1 DEF Between, Below
  <2>4. CASE final
    <3>1. Width = 1
      BY <1>2, <2>4 DEF Width
    <3>2. CASE Step(TRUE) /\ Below(adr)
      BY <2>3, <2>4, <3>1, <3>2 DEF Step
    <3>3. CASE Step(FALSE) /\ ~Below(adr)
      BY <2>3, <2>4, <3>1, <3>3 DEF Step
    <3>4. CASE /\ UNCHANGED <<pc, adr, addsub>> /\ tries' = 1
               /\ Below(adr) => lost'.replies = 1
      BY <1>1, <2>2, <3>4 DEF Width
    <3> QED BY <2>1, <3>2, <3>3, <3>4
  <2>5. CASE ~final
    <3>1. /\ addsub \in Half /\ addsub >= 1 /\ Width = 2 * addsub
      BY <1>2, <2>5, TopFacts DEF Width
    <3>2. pc' = "diff" /\ addsub' = addsub \div 2 => Width' = addsub
      BY <1>2, <3>1, TopFacts DEF Width
    <3>3. CASE Step(TRUE) /\ Below(adr)
      <4>1. pc' = "diff" /\ adr' = adr - addsub /\ Width' = addsub
        BY <2>5, <3>2, <3>3 DEF Step
      <4>2. adr' - Width' = adr - Width /\ adr' + Width' = adr
        BY <1>2, <3>1, <4>1
      <4> QED BY <2>3, <3>3, <4>1, <4>2
    <3>4. CASE Step(FALSE) /\ ~Below(adr)
      <4>1. pc' = "diff" /\ adr' = adr + addsub /\ Width' = addsub
        BY <2>5, <3>2, <3>4 DEF Step
      <4>2. adr' - Width' = adr /\ adr' + Width' = adr + Width
        BY <1>2, <3>1, <4>1
      <4> QED BY <2>3, <3>4, <4>1, <4>2
    <3>5. CASE /\ UNCHANGED <<pc, adr, addsub>> /\ tries' = 1
               /\ Below(adr) => lost'.replies = 1
      BY <1>1, <2>2, <3>5 DEF Width
    <3> QED BY <2>1, <3>3, <3>4, <3>5
  <2> QED BY <2>4, <2>5
<1> QED BY <1>5, <1>6

LEMMA FindInvInit == Init => FindInv
BY CInvInit DEF Init, FindInv, RegistersOK, LeftOK

LEMMA FindInvNext == FindInv /\ [Next]_vars => FindInv'
<1> SUFFICES ASSUME FindInv, [Next]_vars PROVE RegistersOK' /\ LeftOK'
  BY CInvNext DEF FindInv
<1>1. CASE StartGear \/ StartInput \/ QueryStatus \/ Program \/ Withdraw
           \/ Terminate
  <2>1. pc' \notin {"diff", "compare", "bump", "found"}
    BY <1>1 DEF StartGear, StartInput, QueryStatus, Program, Withdraw, Terminate
  <2> QED BY <2>1 DEF RegistersOK, LeftOK
<1>2. CASE FindAddr
  BY <1>2, FindSet, FindDiff, FindCompare, FindBump DEF FindAddr
<1>3. CASE UNCHANGED vars
  BY <1>3 DEF vars, FindInv, RegistersOK, LeftOK, Findable, Between, Below,
    Width, Active, Initialised
<1> QED BY <1>1, <1>2, <1>3 DEF Next

LEMMA SmallestFound == FindInv => FindsSmallest
<1> SUFFICES ASSUME FindInv, pc = "found", lost.frames = 0, lost.replies <= 1,
                    Findable
             PROVE  IF Active = {} THEN adr = Top
                    ELSE /\ \A d \in Active : /\ adr <= dev[d].random
                                              /\ Value(dev[d].search) = adr
                         /\ \E d \in Active : adr = dev[d].random
  BY DEF FindsSmallest
<1>1. Between(adr - 1, adr) /\ \A d \in Initialised : dev[d].search = Byte(adr)
  BY DEF FindInv, LeftOK, RegistersOK
<1>2. adr \in 0 .. Top /\ Top \in Nat
  BY TypeParts, TopFacts DEF FindInv, CInv, CtlOK
<1>3. /\ Active \subseteq Initialised
      /\ \A d \in Active : dev[d].random \in 0 .. Top - 1
  BY ActiveDevices, TypeParts DEF FindInv, CInv
<1>4. CASE Active = {}
  BY <1>1, <1>4 DEF Between, Below
<1>5. CASE Active # {}
  <2>1. \A d \in Active : adr <= dev[d].random
    BY <1>1, <1>2, <1>3 DEF Between
  <2>2. adr \in 0 .. Top - 1
    BY <1>2, <1>3, <1>5, <2>1
  <2>3. \E d \in Active : adr = dev[d].random
    BY <1>1, <1>2, <1>3, <2>1, <2>2 DEF Between, Below
  <2>4. \A d \in Active : Value(dev[d].search) = adr
    BY <1>1, <1>3, <2>2, ValueByte
  <2> QED BY <1>5, <2>1, <2>3, <2>4
<1> QED BY <1>4, <1>5

THEOREM SearchInvariant == Spec => []FindInv
BY FindInvInit, FindInvNext, PTL DEF Spec, SafeSpec

\* Whatever the number of devices and the width of an address, one lost reply
\* misleads no search: it ends at the smallest random address.
THEOREM SearchFindsSmallest == Spec => []FindsSmallest
BY SmallestFound, SearchInvariant, PTL

(***************************************************************************)
(* The addresses.  While the process runs, the devices that have got an    *)
(* address are those that have left the search, and the one selected.      *)
(***************************************************************************)

Withdrawn == {d \in Device : dev[d].mode = "withdrawn"}
Running == pc \notin {"start", "done"}

TakingPart ==
  /\ Running => entered = Initialised
  /\ pc = "start" => Withdrawn = {}

\* An address in use is marked, or its device was not heard.
OldKnown ==
  pc \notin {"start", "status"} =>
    \A d \in Device : dev[d].short \in arr \cup missed \cup {NoShort}

Apart ==
  /\ \A d \in given : dev[d].short \in arr
  /\ \A d \in given, e \in Device :
       (d # e /\ dev[d].short = dev[e].short)
         => e \notin given /\ dev[e].short \in missed

GivenOK ==
  Running /\ Calm =>
    /\ given = Withdrawn \cup (IF pc = "withdraw" THEN Selected ELSE {})
    /\ Apart
    /\ cnt = Cardinality(given)

IInv == /\ FindInv /\ TakingPart /\ OldKnown /\ GivenOK
        /\ AddressesApart /\ CountTrue

\* What every step after the start leaves alone.
LEMMA CalmBefore ==
  ASSUME entered \subseteq Device, entered' = entered,
         \A d \in Device : dev'[d].random = dev[d].random,
         lost'.frames = 0 => lost.frames = 0,
         lost'.replies <= 1 => lost.replies <= 1
  PROVE  Calm' => Calm
BY DEF Calm

LEMMA CalmIsFindable ==
  ASSUME entered = Initialised, Calm
  PROVE  Findable
BY DEF Calm, Findable, Active, Initialised

LEMMA FindAddrKeeps ==
  ASSUME CInv, FindAddr
  PROVE  /\ \A d \in Device : /\ dev'[d].mode = dev[d].mode
                              /\ dev'[d].random = dev[d].random
                              /\ dev'[d].short = dev[d].short
         /\ UNCHANGED <<arr, cnt, given, entered, missed>>
         /\ lost'.frames = 0 => lost.frames = 0
         /\ lost'.replies <= 1 => lost.replies <= 1
         /\ pc \in {"set", "diff", "compare", "bump"}
         /\ pc' \in {"diff", "compare", "bump", "found"}
<1>1. DevOK /\ LostOK /\ adr \in Nat /\ adr + 1 \in Nat /\ last \in Nat
  BY TypeParts, TopFacts DEF CInv, CtlOK
<1>2. lost.frames \in Nat /\ lost.replies \in Nat
  BY <1>1, BoundAssumption DEF LostOK
<1>3. CASE SetSearchAddr
  <2>1. PICK m \in Misses(1 .. 3) :
          SearchFrames(1 .. 3, m, InitialAdr) /\ Missed(m)
    BY <1>3 DEF SetSearchAddr
  <2>2. /\ m \in [1 .. 3 -> SUBSET Device] /\ lost'.replies = lost.replies
        /\ lost'.frames = 0 => lost.frames = 0
    BY <1>1, <2>1, MissedCounted, FewFrames
  <2>3. \A d \in Device : /\ dev'[d].mode = dev[d].mode
                          /\ dev'[d].random = dev[d].random
                          /\ dev'[d].short = dev[d].short
    BY <1>1, <2>1, <2>2, TopFacts, SearchFramesSent
  <2> QED BY <1>3, <2>2, <2>3 DEF SetSearchAddr
<1>4. CASE NextSearchAddr
  <2>1. SetSearchAddrDiff(adr)
    BY <1>4 DEF NextSearchAddr
  <2>2. /\ lost'.replies = lost.replies
        /\ lost'.frames = 0 => lost.frames = 0
        /\ \A d \in Device : /\ dev'[d].mode = dev[d].mode
                              /\ dev'[d].random = dev[d].random
                              /\ dev'[d].short = dev[d].short
    BY <1>1, <2>1, DiffSent
  <2> QED BY <1>4, <2>2 DEF NextSearchAddr
<1>5. CASE Compare
  <2>1. PICK miss \in {0, 1}, unheard \in {0, 1} :
          lost' = [frames |-> lost.frames + miss, replies |-> lost.replies + unheard]
    <3>1. PICK m \in Misses({"compare"}), unheard \in {0, 1} :
            lost' = [frames |-> lost.frames + IF m["compare"] = {} THEN 0 ELSE 1,
                     replies |-> lost.replies + unheard]
      BY <1>5 DEF Compare
    <3> QED BY <3>1
  <2>2. pc = "compare" /\ pc' \in {"diff", "compare", "bump", "found"}
    BY <1>5 DEF Compare, Step
  <2> QED BY <1>2, <1>5, <2>1, <2>2 DEF Compare
<1>6. CASE Bump
  <2>1. SetSearchAddrDiff(adr + 1)
    BY <1>6 DEF Bump
  <2>2. /\ lost'.replies = lost.replies
        /\ lost'.frames = 0 => lost.frames = 0
        /\ \A d \in Device : /\ dev'[d].mode = dev[d].mode
                              /\ dev'[d].random = dev[d].random
                              /\ dev'[d].short = dev[d].short
    BY <1>1, <2>1, DiffSent
  <2> QED BY <1>6, <2>2 DEF Bump
<1> QED BY <1>3, <1>4, <1>5, <1>6 DEF FindAddr

LEMMA AddressStart ==
  ASSUME IInv, StartGear \/ StartInput
  PROVE  TakingPart' /\ OldKnown' /\ GivenOK' /\ AddressesApart' /\ CountTrue'
<1>1. PICK m : Started(m)
  BY DEF StartGear, StartInput
<1>2. /\ pc = "start" /\ pc' = "status" /\ UNCHANGED <<cnt, given>>
  BY DEF StartGear, StartInput
<1>3. entered' = Initialised'
      /\ \A d \in Device : dev'[d].mode = ModeAfter(d, m)
  BY <1>1, TypeParts, StartedDevices DEF IInv, FindInv, CInv, Initialised
<1>4. Withdrawn' = {}
  <2>1. \A d \in Device : dev[d].mode # "withdrawn"
    BY <1>2 DEF IInv, TakingPart, Withdrawn
  <2>2. \A d \in Device : ModeAfter(d, m) # "withdrawn"
    BY <2>1 DEF ModeAfter
  <2> QED BY <1>3, <2>2 DEF Withdrawn
<1>5. given' = {} /\ cnt' = 0
  BY <1>2 DEF IInv, FindInv, CInv, CountOK
<1>6. GivenOK'
  BY <1>2, <1>4, <1>5, FS_EmptySet DEF GivenOK, Apart
<1> QED BY <1>2, <1>3, <1>6 DEF TakingPart, OldKnown, AddressesApart, CountTrue,
      Running

LEMMA AddressQuery ==
  ASSUME IInv, QueryStatus
  PROVE  TakingPart' /\ OldKnown' /\ GivenOK' /\ AddressesApart' /\ CountTrue'
<1>1. /\ pc = "status" /\ pc' = "set" /\ UNCHANGED <<cnt, dev, given, entered>>
  BY DEF QueryStatus
<1>2. Initialised' = Initialised /\ Withdrawn' = Withdrawn
  BY <1>1 DEF Initialised, Withdrawn
<1>3. TakingPart'
  BY <1>1, <1>2 DEF IInv, TakingPart, Running
<1>4. OldKnown'
  <2>1. \A d \in Device : dev[d].short \in ShortAddr =>
          dev[d].short \in arr' \cup missed'
    BY DEF QueryStatus
  <2>2. \A d \in Device : dev[d].short \in ShortAddr \cup {NoShort}
    BY TypeParts DEF IInv, FindInv, CInv, DevOK
  <2> QED BY <1>1, <2>1, <2>2 DEF OldKnown
<1>5. Calm' => Calm
  <2>1. lost'.frames = lost.frames
        /\ (lost'.replies <= 1 => lost.replies <= 1)
    <3> DEFINE at(a) == {d \in Device : dev[d].short = a}
               taken == {a \in ShortAddr : at(a) # {}}
               unheard(answered) ==
                 {a \in taken \ answered : Cardinality(at(a)) = 1}
    <3>1. PICK answered \in SUBSET taken :
            lost' = [lost EXCEPT !.replies = @ + Cardinality(unheard(answered))]
      BY DEF QueryStatus
    <3>2. Cardinality(unheard(answered)) \in Nat
      <4>1. unheard(answered) \in SUBSET ShortAddr
        OBVIOUS
      <4> QED BY <4>1, FiniteSubset
    <3> HIDE DEF unheard
    <3>3. lost.replies \in Nat /\ LostOK
      BY TypeParts, BoundAssumption DEF IInv, FindInv, CInv, LostOK
    <3> QED BY <3>1, <3>2, <3>3 DEF LostOK
  <2>2. entered \subseteq Device
    BY TypeParts DEF IInv, FindInv, CInv, SetsOK
  <2> QED BY <1>1, <2>1, <2>2, CalmBefore
<1>6. given' = {} /\ cnt' = 0
  BY <1>1 DEF IInv, FindInv, CInv, CountOK
<1>7. GivenOK'
  <2> SUFFICES ASSUME Calm PROVE Withdrawn = {}
    BY <1>1, <1>2, <1>5, <1>6, FS_EmptySet DEF GivenOK, Apart
  <2> QED BY <1>1, <1>6 DEF IInv, GivenOK, Running
<1> QED BY <1>1, <1>3, <1>4, <1>7 DEF AddressesApart, CountTrue

LEMMA AddressFind ==
  ASSUME IInv, FindAddr
  PROVE  TakingPart' /\ OldKnown' /\ GivenOK' /\ AddressesApart' /\ CountTrue'
<1>1. /\ \A d \in Device : /\ dev'[d].mode = dev[d].mode
                           /\ dev'[d].random = dev[d].random
                           /\ dev'[d].short = dev[d].short
      /\ UNCHANGED <<arr, cnt, given, entered, missed>>
      /\ lost'.frames = 0 => lost.frames = 0
      /\ lost'.replies <= 1 => lost.replies <= 1
      /\ pc \in {"set", "diff", "compare", "bump"}
      /\ pc' \in {"diff", "compare", "bump", "found"}
  BY FindAddrKeeps DEF IInv, FindInv
<1>2. Initialised' = Initialised /\ Withdrawn' = Withdrawn
  BY <1>1 DEF Initialised, Withdrawn
<1>3. TakingPart' /\ OldKnown'
  BY <1>1, <1>2 DEF IInv, TakingPart, OldKnown, Running
<1>4. given \subseteq Device /\ entered \subseteq Device
  BY TypeParts DEF IInv, FindInv, CInv, SetsOK
<1>5. Calm' => Calm
  BY <1>1, <1>4, CalmBefore
<1>6. Apart => Apart'
  BY <1>1, <1>4 DEF Apart
<1>7. GivenOK'
  BY <1>1, <1>2, <1>5, <1>6 DEF IInv, GivenOK, Running
<1> QED BY <1>1, <1>3, <1>7 DEF AddressesApart, CountTrue

\* The address found selects one device, which is still in the search.
LEMMA SelectedOne ==
  ASSUME IInv, pc = "found", adr <= Top - 1, Calm
  PROVE  \E x \in Active : Selected = {x}
<1>1. entered = Initialised /\ Active \subseteq Initialised
      /\ adr \in 0 .. Top - 1
  BY TypeParts, ActiveDevices, TopFacts
  DEF IInv, FindInv, CInv, CtlOK, TakingPart, Running
<1>2. Findable /\ lost.frames = 0 /\ lost.replies <= 1
  BY <1>1, CalmIsFindable DEF Calm
<1>3. PICK x \in Active : adr = dev[x].random
  <2>1. IF Active = {} THEN adr = Top ELSE \E d \in Active : adr = dev[d].random
    BY <1>2, SmallestFound DEF IInv, FindsSmallest
  <2> QED BY <1>1, <2>1, TopFacts
<1>4. \A d \in Initialised : Value(dev[d].search) = adr
  BY <1>1, <1>2, ValueByte DEF IInv, FindInv, RegistersOK
<1>5. Selected = {d \in Initialised : dev[d].random = adr}
  BY <1>4 DEF Selected
<1>6. \A d \in Initialised : dev[d].random = adr => d = x
  BY <1>1, <1>3 DEF Calm
<1> QED BY <1>1, <1>3, <1>5, <1>6

LEMMA AddressProgram ==
  ASSUME IInv, Program
  PROVE  TakingPart' /\ OldKnown' /\ GivenOK' /\ AddressesApart' /\ CountTrue'
<1>1. PICK m \in Misses({"program"}) :
        /\ dev' = [d \in Device |-> IF d \in Selected \ m["program"]
                    THEN [dev[d] EXCEPT !.short = FirstUnused] ELSE dev[d]]
        /\ given' = given \cup (Selected \ m["program"])
        /\ Missed(m)
  BY DEF Program
<1>2. /\ lost'.replies = lost.replies
      /\ lost'.frames = 0 => lost.frames = 0 /\ m["program"] = {}
  <2>1. LostOK
    BY TypeParts DEF IInv, FindInv, CInv
  <2> QED BY <1>1, <2>1, MissedCounted, FewFrames
<1>3. /\ pc = "found" /\ pc' = "withdraw" /\ adr <= Top - 1
      /\ arr' = arr \cup {FirstUnused} /\ cnt' = cnt + 1
      /\ UNCHANGED <<entered, missed>>
  <2>1. adr \in Int /\ Top \in Int
    BY TypeParts, TopFacts DEF IInv, FindInv, CInv, CtlOK
  <2> QED BY <2>1 DEF Program, Exhausted
<1>4. /\ arr \subseteq ShortAddr /\ FirstUnused \in ShortAddr \ arr
      /\ given \subseteq Device /\ entered \subseteq Device /\ DevOK
  BY TypeParts, FirstUnusedIsFree
  DEF IInv, FindInv, CInv, SetsOK, Program, Exhausted
<1>5. \A d \in Device :
        /\ dev'[d].mode = dev[d].mode /\ dev'[d].random = dev[d].random
        /\ dev'[d].search = dev[d].search
        /\ dev'[d].short = IF d \in Selected \ m["program"] THEN FirstUnused
                           ELSE dev[d].short
  BY <1>1, <1>4 DEF DevOK
<1>6. /\ Initialised' = Initialised /\ Withdrawn' = Withdrawn
      /\ Selected' = Selected /\ Selected \subseteq Device
  <2>1. Initialised' = Initialised /\ Withdrawn' = Withdrawn
    BY <1>5 DEF Initialised, Withdrawn
  <2>2. Initialised \subseteq Device
    BY DEF Initialised
  <2>3. Selected' = {d \in Initialised : dev'[d].random = Value(dev'[d].search)}
    BY <2>1 DEF Selected
  <2> QED BY <1>5, <2>1, <2>2, <2>3 DEF Selected
<1>7. TakingPart'
  BY <1>3, <1>6 DEF IInv, TakingPart, Running
<1>8. OldKnown'
  BY <1>3, <1>5 DEF IInv, OldKnown
<1>9. Calm' => Calm
  BY <1>2, <1>3, <1>4, <1>5, CalmBefore
<1>10. GivenOK'
  <2> SUFFICES ASSUME Calm'
               PROVE  /\ given' = Withdrawn \cup Selected
                      /\ Apart'
                      /\ cnt' = Cardinality(given')
    BY <1>3, <1>6 DEF GivenOK
  <2>1. Calm /\ m["program"] = {}
    BY <1>2, <1>9 DEF Calm
  <2>2. given = Withdrawn /\ Apart /\ cnt = Cardinality(given)
    BY <1>3, <2>1 DEF IInv, GivenOK, Running
  <2>3. PICK x \in Active : Selected = {x}
    BY <1>3, <2>1, SelectedOne
  <2>4. x \in Device /\ x \notin given
    BY <2>2, <2>3 DEF Active, Withdrawn
  <2>5. given' = given \cup {x}
    BY <1>1, <2>1, <2>3
  <2>6. \A d \in Device : dev'[d].short = IF d = x THEN FirstUnused
                                         ELSE dev[d].short
    BY <1>5, <2>1, <2>3
  <2>7. \A d \in given : d \in Device /\ d # x /\ dev[d].short # FirstUnused
    BY <1>4, <2>2, <2>4 DEF Apart
  <2>8. \A d \in given' : dev'[d].short \in arr'
    BY <1>3, <2>2, <2>4, <2>5, <2>6, <2>7 DEF Apart
  <2>9. ASSUME NEW d \in given', NEW e \in Device, d # e,
               dev'[d].short = dev'[e].short
        PROVE  e \notin given' /\ dev'[e].short \in missed
    <3>1. CASE d = x
      <4>1. dev[e].short = FirstUnused /\ dev'[e].short = FirstUnused
        BY <2>4, <2>6, <2>9, <3>1
      <4>2. e \notin given'
        BY <2>5, <2>7, <2>9, <3>1, <4>1
      <4>3. FirstUnused \in missed
        <5>1. FirstUnused # NoShort
          BY <1>4, AddressAssumption DEF ShortAddr, NoShort
        <5> QED BY <1>3, <1>4, <4>1, <5>1 DEF IInv, OldKnown
      <4> QED BY <4>1, <4>2, <4>3
    <3>2. CASE d # x
      <4>1. d \in given /\ dev'[d].short = dev[d].short
        BY <2>5, <2>6, <2>7, <3>2
      <4>2. e # x
        BY <2>4, <2>6, <2>7, <2>9, <4>1
      <4>3. dev'[e].short = dev[e].short
        BY <2>6, <4>2
      <4> QED BY <2>2, <2>5, <2>9, <4>1, <4>2, <4>3 DEF Apart
    <3> QED BY <3>1, <3>2
  <2>10. Apart'
    BY <1>3, <2>8, <2>9 DEF Apart
  <2>11. cnt' = Cardinality(given')
    <3>1. IsFiniteSet(given)
      BY <1>4, FS_Subset, AddressAssumption
    <3> QED BY <1>3, <2>2, <2>4, <2>5, <3>1, FS_AddElement
  <2> QED BY <2>2, <2>3, <2>5, <2>10, <2>11
<1> QED BY <1>3, <1>7, <1>8, <1>10 DEF AddressesApart, CountTrue

LEMMA AddressWithdraw ==
  ASSUME IInv, Withdraw
  PROVE  TakingPart' /\ OldKnown' /\ GivenOK' /\ AddressesApart' /\ CountTrue'
<1>1. PICK m \in Misses({"withdraw"}) :
        /\ dev' = [d \in Device |-> IF d \in Selected \ m["withdraw"]
                    THEN [dev[d] EXCEPT !.mode = "withdrawn"] ELSE dev[d]]
        /\ Missed(m)
  BY DEF Withdraw
<1>2. /\ lost'.replies = lost.replies
      /\ lost'.frames = 0 => lost.frames = 0 /\ m["withdraw"] = {}
  <2>1. LostOK
    BY TypeParts DEF IInv, FindInv, CInv
  <2> QED BY <1>1, <2>1, MissedCounted, FewFrames
<1>3. /\ pc = "withdraw" /\ pc' = "set"
      /\ UNCHANGED <<arr, cnt, given, entered, missed>>
  BY DEF Withdraw
<1>4. given \subseteq Device /\ entered \subseteq Device /\ DevOK
  BY TypeParts DEF IInv, FindInv, CInv, SetsOK
<1>5. \A d \in Device :
        /\ dev'[d].mode = IF d \in Selected \ m["withdraw"] THEN "withdrawn"
                          ELSE dev[d].mode
        /\ dev'[d].random = dev[d].random /\ dev'[d].short = dev[d].short
  BY <1>1, <1>4 DEF DevOK
<1>6. Initialised' = Initialised
  BY <1>5 DEF Initialised, Selected
<1>7. TakingPart'
  BY <1>3, <1>6 DEF IInv, TakingPart, Running
<1>8. OldKnown'
  BY <1>3, <1>5 DEF IInv, OldKnown
<1>9. Calm' => Calm
  BY <1>2, <1>3, <1>4, <1>5, CalmBefore
<1>10. Apart => Apart'
  BY <1>3, <1>4, <1>5 DEF Apart
<1>11. GivenOK'
  <2> SUFFICES ASSUME Calm' PROVE Withdrawn' = Withdrawn \cup Selected
    BY <1>3, <1>9, <1>10 DEF IInv, GivenOK, Running
  <2>1. m["withdraw"] = {}
    BY <1>2 DEF Calm
  <2>2. Selected \subseteq Device
    BY DEF Selected, Initialised
  <2> QED BY <1>5, <2>1, <2>2 DEF Withdrawn
<1> QED BY <1>3, <1>7, <1>8, <1>11 DEF AddressesApart, CountTrue

LEMMA AddressTerminate ==
  ASSUME IInv, Terminate
  PROVE  TakingPart' /\ OldKnown' /\ GivenOK' /\ AddressesApart' /\ CountTrue'
<1>1. PICK m \in Misses({"terminate"}) :
        /\ dev' = [d \in Device |-> IF d \in m["terminate"] THEN dev[d]
                                    ELSE [dev[d] EXCEPT !.mode = "off"]]
        /\ Missed(m)
  BY DEF Terminate
<1>2. /\ lost'.replies = lost.replies
      /\ lost'.frames = 0 => lost.frames = 0
  <2>1. LostOK
    BY TypeParts DEF IInv, FindInv, CInv
  <2> QED BY <1>1, <2>1, MissedCounted, FewFrames
<1>3. /\ pc = "found" /\ pc' = "done" /\ (adr > Top - 1 \/ arr = ShortAddr)
      /\ UNCHANGED <<arr, cnt, given, entered, missed>>
  BY DEF Terminate, Exhausted
<1>4. /\ given \subseteq Device /\ entered \subseteq Device /\ DevOK
      /\ arr \subseteq ShortAddr /\ entered = Initialised
  BY <1>3, TypeParts DEF IInv, FindInv, CInv, SetsOK, TakingPart, Running
<1>5. \A d \in Device : /\ dev'[d].random = dev[d].random
                        /\ dev'[d].short = dev[d].short
  BY <1>1, <1>4 DEF DevOK
<1>6. OldKnown'
  BY <1>3, <1>5 DEF IInv, OldKnown
<1>7. Calm' => Calm
  BY <1>2, <1>3, <1>4, <1>5, CalmBefore
<1>8. Calm => given = Withdrawn /\ Apart /\ cnt = Cardinality(given)
  BY <1>3 DEF IInv, GivenOK, Running
<1>9. ASSUME Calm, NEW d \in entered, dev[d].short = NoShort
      PROVE  arr = ShortAddr
  <2>1. d \notin given
    <3>1. NoShort \notin arr
      BY <1>4, AddressAssumption DEF ShortAddr, NoShort
    <3> QED BY <1>8, <1>9, <3>1 DEF Apart
  <2>2. d \in Active
    BY <1>4, <1>8, <1>9, <2>1 DEF Active, Initialised, Withdrawn, DevOK
  <2>3. Findable /\ lost.frames = 0 /\ lost.replies <= 1
    BY <1>4, <1>9, CalmIsFindable DEF Calm
  <2>4. \A e \in Active : adr <= dev[e].random
    BY <1>3, <2>2, <2>3, SmallestFound DEF IInv, FindsSmallest
  <2>5. dev[d].random \in 0 .. Top - 1 /\ adr \in Int /\ Top \in Int
    BY <1>4, <2>2, ActiveDevices, TypeParts, TopFacts
    DEF IInv, FindInv, CInv, CtlOK
  <2>6. adr <= Top - 1
    BY <2>2, <2>4, <2>5
  <2> QED BY <1>3, <2>5, <2>6
<1>10. AddressesApart'
  <2> SUFFICES ASSUME Calm'
               PROVE  /\ (\E d \in entered : dev'[d].short = NoShort)
                            => arr = ShortAddr
                      /\ \A d \in given, e \in Device :
                           (d # e /\ dev'[d].short = dev'[e].short)
                             => e \notin given /\ dev'[e].short \in missed
    BY <1>3 DEF AddressesApart
  <2>1. Calm /\ Apart
    BY <1>7, <1>8
  <2>2. (\E d \in entered : dev'[d].short = NoShort) => arr = ShortAddr
    BY <1>4, <1>5, <1>9, <2>1
  <2> QED BY <1>4, <1>5, <2>1, <2>2 DEF Apart
<1>11. CountTrue'
  BY <1>3, <1>7, <1>8 DEF CountTrue
<1> QED BY <1>3, <1>6, <1>10, <1>11 DEF TakingPart, GivenOK, Running

LEMMA IInvInit == Init => IInv
<1> SUFFICES ASSUME Init PROVE IInv
  OBVIOUS
<1>1. FindInv
  BY FindInvInit
<1>2. Withdrawn = {}
  BY DEF Init, Withdrawn, Fresh
<1> QED BY <1>1, <1>2 DEF Init, IInv, TakingPart, OldKnown, GivenOK,
      AddressesApart, CountTrue, Running

LEMMA IInvNext == IInv /\ [Next]_vars => IInv'
<1> SUFFICES ASSUME IInv, [Next]_vars
             PROVE  TakingPart' /\ OldKnown' /\ GivenOK' /\ AddressesApart'
                    /\ CountTrue'
  BY FindInvNext DEF IInv
<1>1. CASE UNCHANGED vars
  <2>1. Calm' = Calm /\ Selected' = Selected /\ Withdrawn' = Withdrawn
        /\ Initialised' = Initialised /\ Apart' = Apart
    BY <1>1 DEF vars, Calm, Selected, Withdrawn, Initialised, Apart
  <2> QED BY <1>1, <2>1 DEF vars, IInv, TakingPart, OldKnown, GivenOK,
          AddressesApart, CountTrue, Running
<1> QED BY <1>1, AddressStart, AddressQuery, AddressFind, AddressProgram,
       AddressWithdraw, AddressTerminate DEF Next

THEOREM AddressInvariant == Spec => []IInv
BY IInvInit, IInvNext, PTL DEF Spec, SafeSpec

\* For any number of devices and of short addresses: a process that lost no
\* frame and at most one reply leaves no device without an address while there
\* are free ones, and shares none but that of an old device it did not hear.
THEOREM AddressesStayApart == Spec => []AddressesApart
<1>1. IInv => AddressesApart
  BY DEF IInv
<1> QED BY <1>1, AddressInvariant, PTL

\* Under the same circumstances the number returned is that of the devices which
\* have got an address.
THEOREM CountIsTrue == Spec => []CountTrue
<1>1. IInv => CountTrue
  BY DEF IInv
<1> QED BY <1>1, AddressInvariant, PTL

-------------------------------------------------------------------------------
(***************************************************************************)
(* DaliDriver: types.                                                      *)
(***************************************************************************)

USE DEF ForwardTicks, BackwardTicks, ReplyMin, ReplyMax

\* The type invariant in parts, with the ranges that keep it: foreign frames
\* have negative numbers, a second frame still fits, the mutex says who acts.
NumOK == frames \in 0 .. MaxFrames /\ foreign \in 0 .. MaxForeign
RxOK ==
  /\ rxstate \in {"EMPTY", "RECEIVING", "COMPLETED"} /\ notified \in BOOLEAN
  /\ rxdata \in Received
  /\ rxdata.kind = "forward" => rxdata.of \in -foreign .. -1
BitOK == busstate \in {"IDLE", "RX", "TX", "COLLISION_TX"}
         /\ idlecnt \in 0 .. IdleCap /\ txcollision \in BOOLEAN
TxOK == tx \in [of : 0 .. MaxFrames, left : 0 .. ForwardTicks, whole : BOOLEAN]
LineOK ==
  /\ line \in [kind : {"none", "forward", "backward"}, whole : BOOLEAN,
               of : -MaxForeign .. MaxFrames, left : 0 .. ForwardTicks]
  /\ line.kind = "forward" => line.of \in -foreign .. -1
OwedOK == owed \in [of : -MaxForeign .. MaxFrames, age : 0 .. ReplyMax,
                    due : BOOLEAN]
CallType ==
  [pc : Waiting \cup {"idle", "clear", "start", "state", "decode", "gap"},
   wait : BOOLEAN, gap : BOOLEAN, again : BOOLEAN,
   t : Nat, asleep : BOOLEAN, extended : BOOLEAN]
CallOK ==
  /\ call \in CallType
  /\ call.again => frames < MaxFrames
  /\ call.pc # "idle" => frames >= 1
MutexOK ==
  /\ mutex \in {"free", "call", "sniffer"}
  /\ phase \in 0 .. OsTick - 1 /\ sniffer \in {"wait", "lock", "decode"}
  /\ mutex = "call" <=> call.pc # "idle"
  /\ mutex = "sniffer" <=> sniffer = "decode"
ResultOK ==
  result \in [frame : 0 .. MaxFrames, of : -MaxForeign .. MaxFrames,
              kind : {"none", "ok", "timeout", "no reply", "reply",
                      "invalid", "collision"}]
CountsOK == sent \in [Frame -> Nat]
HeardOK == heard \in [Other -> {"no", "open", "excused", "delivered"}]

TInv == /\ NumOK /\ RxOK /\ BitOK /\ TxOK /\ LineOK /\ OwedOK /\ CallOK
        /\ MutexOK /\ ResultOK /\ CountsOK /\ HeardOK

LEMMA DriverTypeParts == TInv => DriverTypeOK
BY DEF TInv, DriverTypeOK, NumOK, RxOK, BitOK, TxOK, LineOK, OwedOK, CallOK,
       CallType, MutexOK, ResultOK, CountsOK, HeardOK

LEMMA Bounds ==
  /\ TxTimeout \in Nat /\ MaxFrames \in Nat /\ MaxForeign \in Nat
  /\ IdleTicks \in Nat /\ IdleTicks >= 2 /\ OsTick \in {1, 2}
  /\ IdleCap \in Nat /\ IdleCap >= 3
  /\ 0 \in -MaxForeign .. MaxFrames
BY TimingAssumption DEF IdleCap

LEMMA TypeInit == DriverInit => TInv
<1> SUFFICES ASSUME DriverInit PROVE TInv
  OBVIOUS
<1> USE Bounds DEF DriverInit
<1>1. NumOK
  BY DEF NumOK
<1>2. RxOK
  BY DEF RxOK, Nothing, Received
<1>3. BitOK
  <2>1. idlecnt \in 0 .. IdleCap
    OBVIOUS
  <2>2. txcollision \in BOOLEAN
    OBVIOUS
  <2> QED BY <2>1, <2>2 DEF BitOK
<1>4. TxOK
  BY DEF TxOK
<1>5. LineOK
  BY DEF LineOK, Quiet
<1>6. OwedOK
  BY DEF OwedOK, NoReplyOwed
<1>7. CallOK /\ MutexOK
  BY DEF CallOK, CallType, MutexOK, Idle, Waiting
<1>8. ResultOK /\ CountsOK /\ HeardOK
  BY DEF ResultOK, CountsOK, HeardOK
<1> QED BY <1>1, <1>2, <1>3, <1>4, <1>5, <1>6, <1>7, <1>8 DEF TInv


\* What a step leaves alone stays well typed.
LEMMA TypeKept ==
  ASSUME TInv
  PROVE  /\ UNCHANGED <<frames, foreign>> => NumOK'
         /\ UNCHANGED <<rxstate, rxdata, notified, foreign>> => RxOK'
         /\ UNCHANGED <<busstate, idlecnt, txcollision>> => BitOK'
         /\ UNCHANGED tx => TxOK'
         /\ UNCHANGED <<line, foreign>> => LineOK'
         /\ UNCHANGED owed => OwedOK'
         /\ UNCHANGED <<call, frames>> => CallOK'
         /\ UNCHANGED <<mutex, phase, sniffer, call>> => MutexOK'
         /\ UNCHANGED result => ResultOK'
         /\ UNCHANGED sent => CountsOK'
         /\ UNCHANGED heard => HeardOK'
<1> USE DEF TInv
<1>1. UNCHANGED <<frames, foreign>> => NumOK'
  BY DEF NumOK
<1>2. UNCHANGED <<rxstate, rxdata, notified, foreign>> => RxOK'
  BY DEF RxOK
<1>3. UNCHANGED <<busstate, idlecnt, txcollision>> => BitOK'
  BY DEF BitOK
<1>4. /\ UNCHANGED tx => TxOK'
      /\ UNCHANGED <<line, foreign>> => LineOK'
      /\ UNCHANGED owed => OwedOK'
  BY DEF TxOK, LineOK, OwedOK
<1>5. UNCHANGED <<call, frames>> => CallOK'
  BY DEF CallOK, CallType
<1>6. UNCHANGED <<mutex, phase, sniffer, call>> => MutexOK'
  BY DEF MutexOK
<1>7. /\ UNCHANGED result => ResultOK'
      /\ UNCHANGED sent => CountsOK'
      /\ UNCHANGED heard => HeardOK'
  BY DEF ResultOK, CountsOK, HeardOK
<1> QED BY <1>1, <1>2, <1>3, <1>4, <1>5, <1>6, <1>7

LEMMA OwedTyped ==
  ASSUME TInv, NEW of \in -MaxForeign .. MaxFrames, MayOwe(of)
  PROVE  OwedOK'
<1> DEFINE R == [of : -MaxForeign .. MaxFrames, age : 0 .. ReplyMax, due : BOOLEAN]
<1>1. [of |-> of, age |-> 0, due |-> TRUE] \in R
  OBVIOUS
<1>2. [of |-> 0, age |-> 0, due |-> FALSE] \in R
  BY Bounds
<1> HIDE DEF R
<1>3. owed' \in R
  BY <1>1, <1>2 DEF MayOwe, NoReplyOwed
<1> QED BY <1>3 DEF OwedOK, R

LEMMA TypeReleased ==
  ASSUME TInv, SetBusstateIdle, UNCHANGED <<txcollision, notified, foreign>>
  PROVE  RxOK' /\ BitOK' /\ LineOK'
<1> USE Bounds DEF SetBusstateIdle
<1>1. RxOK'
  <2>1. rxdata' \in Received
    BY DEF TInv, RxOK, Garbled, Received
  <2> QED BY <2>1 DEF TInv, RxOK, Garbled
<1>2. BitOK'
  <2>1. idlecnt' \in 0 .. IdleCap
    OBVIOUS
  <2> QED BY <2>1 DEF TInv, BitOK
<1>3. LineOK'
  BY DEF TInv, LineOK
<1> QED BY <1>1, <1>2, <1>3

LEMMA TypeSeized ==
  ASSUME TInv, NEW kind \in {"forward", "backward"}, NEW of \in -MaxForeign .. MaxFrames,
         NEW ticks \in {2, 3}, Seize(kind, of, ticks),
         kind = "forward" => of \in -(foreign') .. -1,
         foreign' \in foreign .. MaxForeign, UNCHANGED <<idlecnt, txcollision, notified>>
  PROVE  RxOK' /\ BitOK' /\ LineOK' /\ TxOK'
<1> USE Bounds DEF Seize
<1>1. RxOK'
  <2>1. rxdata' \in Received
    BY DEF TInv, RxOK, Garbled, Received
  <2>2. rxdata'.kind = "forward" => rxdata'.of \in -(foreign') .. -1
    BY DEF TInv, RxOK, NumOK, Garbled
  <2> QED BY <2>1, <2>2 DEF TInv, RxOK
<1>2. BitOK'
  BY DEF TInv, BitOK
<1>3. LineOK'
  <2>1. (busstate = "IDLE") \in BOOLEAN
    OBVIOUS
  <2>2. line' = [kind |-> kind, of |-> of, left |-> ticks, whole |-> busstate = "IDLE"]
    OBVIOUS
  <2> QED BY <2>1, <2>2 DEF LineOK
<1>4. TxOK'
  BY DEF TInv, TxOK
<1> QED BY <1>1, <1>2, <1>3, <1>4

LEMMA TypeIsr == ASSUME TInv, Isr PROVE TInv'
<1> USE Bounds
<1>1. CASE RxComplete
  <2> USE <1>1 DEF RxComplete
  <2>1. RxOK'
    <3>1. rxdata' \in Received
      BY DEF TInv, RxOK, LineOK, Garbled, Received
    <3>2. rxdata'.kind = "forward" => rxdata'.of \in -foreign' .. -1
      BY DEF TInv, RxOK, LineOK, NumOK, Garbled
    <3> QED BY <3>1, <3>2 DEF TInv, RxOK
  <2>2. BitOK'
    <3>1. idlecnt' \in 0 .. IdleCap
      BY DEF TInv, BitOK
    <3> QED BY <3>1 DEF TInv, BitOK
  <2>3. LineOK'
    BY DEF LineOK, Quiet
  <2>4. OwedOK'
    <3>1. line.of \in -MaxForeign .. MaxFrames
      BY DEF TInv, LineOK
    <3>2. MayOwe(line.of) \/ UNCHANGED owed
      OBVIOUS
    <3> QED BY <3>1, <3>2, OwedTyped, TypeKept
  <2>5. HeardOK'
    BY DEF TInv, HeardOK
  <2> QED BY <2>1, <2>2, <2>3, <2>4, <2>5, TypeKept DEF TInv
<1>2. CASE Collide
  <2> USE <1>2 DEF Collide
  <2>1. BitOK' /\ LineOK'
    BY DEF TInv, BitOK, LineOK
  <2> QED BY <2>1, TypeKept DEF TInv, rxVars
<1>3. CASE CollisionEnd
  BY <1>3, TypeReleased, TypeKept DEF TInv, CollisionEnd
<1>4. CASE TxEnd
  <2> USE <1>4 DEF TxEnd
  <2>1. RxOK' /\ BitOK' /\ LineOK'
    BY TypeReleased
  <2>2. OwedOK'
    <3>1. tx.of \in -MaxForeign .. MaxFrames
      BY DEF TInv, TxOK
    <3>2. MayOwe(tx.of) \/ UNCHANGED owed
      OBVIOUS
    <3> QED BY <3>1, <3>2, OwedTyped, TypeKept
  <2>3. CountsOK'
    BY DEF TInv, CountsOK
  <2> QED BY <2>1, <2>2, <2>3, TypeKept DEF TInv
<1> QED BY <1>1, <1>2, <1>3, <1>4 DEF Isr

LEMMA TypeStations == ASSUME TInv, ForeignStart \/ ReplyStart PROVE TInv'
<1> USE Bounds
<1>1. CASE ForeignStart
  <2>1. foreign' = foreign + 1 /\ foreign < MaxForeign
        /\ Seize("forward", -(foreign + 1), 3)
    BY <1>1 DEF ForeignStart
  <2>2. NumOK' /\ foreign' \in foreign .. MaxForeign
        /\ -(foreign + 1) \in -(foreign') .. -1
        /\ -(foreign + 1) \in -MaxForeign .. MaxFrames
    BY <1>1, <2>1 DEF TInv, NumOK, ForeignStart
  <2>3. RxOK' /\ BitOK' /\ LineOK' /\ TxOK'
    BY <1>1, <2>1, <2>2, TypeSeized DEF ForeignStart
  <2> QED BY <1>1, <2>2, <2>3, TypeKept DEF TInv, ForeignStart
<1>2. CASE ReplyStart
  <2>1. OwedOK'
    BY <1>2 DEF OwedOK, NoReplyOwed, ReplyStart
  <2>2. owed.of \in -MaxForeign .. MaxFrames /\ foreign' \in foreign .. MaxForeign
        /\ Seize("backward", owed.of, 2)
    BY <1>2 DEF TInv, OwedOK, NumOK, ReplyStart
  <2>3. RxOK' /\ BitOK' /\ LineOK' /\ TxOK'
    BY <1>2, <2>2, TypeSeized DEF ReplyStart
  <2> QED BY <1>2, <2>1, <2>3, TypeKept DEF TInv, ReplyStart
<1> QED BY <1>1, <1>2

LEMMA TypeSniffer == ASSUME TInv, Sniffer PROVE TInv'
<1>1. CASE SnifferWake
  <2> USE <1>1 DEF SnifferWake
  <2>1. RxOK'
    BY DEF TInv, RxOK
  <2>2. MutexOK'
    BY DEF TInv, MutexOK
  <2> QED BY <2>1, <2>2, TypeKept DEF TInv
<1>2. CASE SnifferRx
  <2> USE <1>2 DEF SnifferRx
  <2>1. RxOK'
    BY DEF TInv, RxOK
  <2>2. MutexOK'
    BY DEF TInv, MutexOK
  <2> QED BY <2>1, <2>2, TypeKept DEF TInv
<1>3. CASE SnifferDecode
  <2> USE <1>3 DEF SnifferDecode
  <2>1. HeardOK'
    BY DEF TInv, HeardOK
  <2>2. MutexOK'
    BY DEF TInv, MutexOK
  <2> QED BY <2>1, <2>2, TypeKept DEF TInv, rxVars
<1> QED BY <1>1, <1>2, <1>3 DEF Sniffer

LEMMA TypeTick == ASSUME TInv, Tick PROVE TInv'
<1> USE Bounds DEF Tick
<1>1. BitOK'
  <2>1. idlecnt' \in 0 .. IdleCap
    BY DEF TInv, BitOK
  <2> QED BY <2>1 DEF TInv, BitOK
<1>2. LineOK'
  BY DEF TInv, LineOK, Due
<1>3. OwedOK'
  BY DEF TInv, OwedOK, Due
<1>4. TxOK'
  BY DEF TInv, TxOK, BitOK, Due
<1>5. phase' \in 0 .. OsTick - 1
  BY DEF TInv, MutexOK
<1>6. CallOK' /\ call'.pc = call.pc
  <2> DEFINE z == call.asleep /\ phase' # 0
             u == IF call.t > TxTimeout /\ call.t > RxExtended + OsTick THEN call.t
                  ELSE call.t + 1
  <2>1. call \in CallType
    BY DEF TInv, CallOK, CallType
  <2>2. z \in BOOLEAN /\ u \in Nat
    BY <2>1 DEF CallType
  <2>3. call' = call \/ call' = [call EXCEPT !.asleep = z, !.t = u]
    OBVIOUS
  <2> HIDE DEF z, u
  <2>4. call' \in CallType /\ call'.again = call.again /\ call'.pc = call.pc
    BY <2>1, <2>2, <2>3 DEF CallType
  <2> QED BY <2>4 DEF TInv, CallOK, CallType
<1>7. MutexOK'
  BY <1>5, <1>6 DEF TInv, MutexOK
<1> QED BY <1>1, <1>2, <1>3, <1>4, <1>6, <1>7, TypeKept DEF TInv, rxVars

\* The calling task.

LEMMA FirstFrame ==
  ASSUME NEW w \in BOOLEAN, NEW g \in BOOLEAN, NEW a \in BOOLEAN,
         call' = [Idle EXCEPT !.pc = "hold", !.wait = w, !.gap = g, !.again = a]
  PROVE  call' \in CallType /\ call'.pc = "hold" /\ call'.again = a
BY DEF Idle, CallType, Waiting

LEMMA SecondFrame ==
  ASSUME NEW w \in BOOLEAN, NEW g \in BOOLEAN,
         call' = [Idle EXCEPT !.pc = "hold", !.wait = w, !.gap = g]
  PROVE  call' \in CallType /\ call'.pc = "hold" /\ call'.again = FALSE
BY DEF Idle, CallType, Waiting

LEMMA Delay ==
  ASSUME call' = [Idle EXCEPT !.pc = "gap"]
  PROVE  call' \in CallType /\ call'.pc = "gap" /\ call'.again = FALSE
BY DEF Idle, CallType, Waiting

LEMMA IdleTyped ==
  Idle \in CallType /\ Idle.pc = "idle" /\ Idle.again = FALSE
BY DEF Idle, CallType

LEMMA TypeGoto ==
  ASSUME TInv, NEW to \in Waiting \cup {"start", "clear", "state", "decode"},
         call.pc # "idle", Goto(to), UNCHANGED <<frames, mutex, phase, sniffer>>
  PROVE  CallOK' /\ MutexOK'
<1>1. CallOK' /\ call'.pc = to
  BY DEF TInv, CallOK, CallType, Goto
<1> QED BY <1>1 DEF TInv, MutexOK, Waiting

\* Sleeping, and a move within a call.
LEMMA TypePause ==
  ASSUME TInv, call.pc \in Waiting,
         Sleep \/ \E to \in Waiting \cup {"clear", "state"} : Advance(to)
  PROVE  TInv'
<1>1. CASE Sleep
  <2>1. CallOK' /\ call'.pc = call.pc
    BY <1>1 DEF TInv, CallOK, CallType, Sleep, callVars
  <2>2. MutexOK'
    BY <1>1, <2>1 DEF TInv, MutexOK, Sleep, callVars
  <2> QED BY <1>1, <2>1, <2>2, TypeKept DEF TInv, Sleep, callVars, rxVars
<1>2. CASE \E to \in Waiting \cup {"clear", "state"} : Advance(to)
  <2>1. PICK to \in Waiting \cup {"clear", "state"} : Advance(to)
    BY <1>2
  <2>2. CallOK' /\ MutexOK'
    BY <2>1, TypeGoto DEF Advance, callVars, Waiting
  <2> QED BY <2>1, <2>2, TypeKept DEF TInv, Advance, callVars, rxVars
<1> QED BY <1>1, <1>2

\* A second frame fits.
LEMMA OneMore ==
  ASSUME NEW n \in 0 .. MaxFrames, n < MaxFrames
  PROVE  n + 1 \in 0 .. MaxFrames /\ n + 1 >= 1
BY Bounds

\* The end of a frame, with whatever result.
LEMMA TypeReturn ==
  ASSUME TInv, call.pc # "idle",
         NEW kind \in {"none", "ok", "timeout", "no reply", "reply", "invalid",
                       "collision"},
         NEW of \in -MaxForeign .. MaxFrames, Return(kind, of),
         UNCHANGED <<busstate, rxVars, idlecnt, txcollision, tx, line, owed,
                     sniffer, foreign, phase, sent, heard>>
  PROVE  TInv'
<1>1. ResultOK'
  BY DEF TInv, ResultOK, NumOK, Return
<1>2. call.wait \in BOOLEAN /\ call.gap \in BOOLEAN /\ call.again \in BOOLEAN
  BY DEF TInv, CallOK, CallType
<1>3. frames \in 0 .. MaxFrames /\ frames >= 1 /\ foreign \in 0 .. MaxForeign
  BY DEF TInv, NumOK, CallOK
<1>4. mutex = "call" /\ sniffer # "decode" /\ sniffer' = sniffer
      /\ sniffer \in {"wait", "lock", "decode"}
      /\ phase' = phase /\ phase \in 0 .. OsTick - 1
  BY DEF TInv, MutexOK
<1>5. NumOK' /\ CallOK' /\ MutexOK'
  <2>1. CASE call.again
    <3>1. /\ call' = [Idle EXCEPT !.pc = "hold", !.wait = call.wait, !.gap = call.gap]
          /\ frames' = frames + 1 /\ mutex' = mutex
      BY <2>1 DEF Return
    <3>2. call' \in CallType /\ call'.pc = "hold" /\ call'.again = FALSE
      BY <1>2, <3>1, SecondFrame
    <3>3. frames < MaxFrames
      BY <2>1 DEF TInv, CallOK
    <3>4. frames' \in 0 .. MaxFrames /\ frames' >= 1
      BY <1>3, <3>1, <3>3, OneMore, Zenon
    <3>5. NumOK'
      BY <3>4 DEF TInv, NumOK
    <3>6. CallOK'
      BY <3>2, <3>4 DEF CallOK
    <3>7. MutexOK'
      BY <1>4, <3>1, <3>2 DEF MutexOK
    <3> QED BY <3>5, <3>6, <3>7
  <2>2. CASE ~call.again /\ call.gap
    <3>1. /\ call' = [Idle EXCEPT !.pc = "gap"]
          /\ frames' = frames /\ mutex' = mutex
      BY <2>2 DEF Return
    <3>2. call' \in CallType /\ call'.pc = "gap" /\ call'.again = FALSE
      BY <3>1, Delay
    <3>3. NumOK' /\ CallOK'
      BY <1>3, <3>1, <3>2 DEF TInv, NumOK, CallOK
    <3>4. MutexOK'
      BY <1>4, <3>1, <3>2 DEF MutexOK
    <3> QED BY <3>3, <3>4
  <2>3. CASE ~call.again /\ ~call.gap
    <3>1. call' = Idle /\ frames' = frames /\ mutex' = "free"
      BY <2>3 DEF Return
    <3>2. call' \in CallType /\ call'.pc = "idle" /\ call'.again = FALSE
      BY <3>1, IdleTyped
    <3>3. NumOK' /\ CallOK'
      BY <1>3, <3>1, <3>2 DEF TInv, NumOK, CallOK
    <3>4. MutexOK'
      BY <1>4, <3>1, <3>2 DEF MutexOK
    <3> QED BY <3>3, <3>4
  <2> QED BY <1>2, <2>1, <2>2, <2>3
<1> QED BY <1>1, <1>5, TypeKept DEF TInv, rxVars

LEMMA TypeStartCall == ASSUME TInv, StartCall PROVE TInv'
<1> USE Bounds
<1>1. PICK op \in Operation :
        /\ frames + (IF op.again THEN 2 ELSE 1) <= MaxFrames
        /\ call' = [Idle EXCEPT !.pc = "hold", !.wait = op.wait, !.gap = op.gap,
                               !.again = op.again]
  BY DEF StartCall
<1>2. op \in [wait : BOOLEAN, gap : BOOLEAN, again : BOOLEAN]
  <2> DEFINE O == [wait : BOOLEAN, gap : BOOLEAN, again : BOOLEAN]
  <2>1. SendDACP \in O /\ SendQuery \in O
    BY DEF SendDACP, SendQuery
  <2>2. \A a \in BOOLEAN : /\ [wait |-> FALSE, gap |-> TRUE, again |-> a] \in O
                          /\ [wait |-> a, gap |-> TRUE, again |-> FALSE] \in O
    OBVIOUS
  <2> HIDE DEF O
  <2>3. op \in O
    BY <2>1, <2>2 DEF Operation, SendCommand, SendRaw
  <2> QED BY <2>3 DEF O
<1>3. NumOK' /\ frames' = frames + 1
  BY <1>1, <1>2 DEF TInv, NumOK, StartCall
<1>4. CallOK' /\ call'.pc = "hold"
  <2>1. op.wait \in BOOLEAN /\ op.gap \in BOOLEAN /\ op.again \in BOOLEAN
    BY <1>2
  <2>2. call' \in CallType /\ call'.pc = "hold" /\ call'.again = op.again
    BY <1>1, <2>1, FirstFrame
  <2>3. frames' >= 1 /\ (op.again => frames' < MaxFrames)
    BY <1>1, <1>3 DEF TInv, NumOK
  <2> QED BY <2>2, <2>3 DEF CallOK
<1>5. MutexOK'
  BY <1>4 DEF TInv, MutexOK, StartCall
<1>6. HeardOK'
  BY DEF TInv, HeardOK, StartCall
<1> QED BY <1>3, <1>4, <1>5, <1>6, TypeKept DEF TInv, StartCall, rxVars

LEMMA TypeTimeout == ASSUME TInv, call.pc \in Waiting, PollAgain PROVE TInv'
<1>1. CASE GiveUp
  BY <1>1, Bounds, TypeReturn DEF GiveUp, Waiting
<1> QED BY <1>1, TypePause DEF PollAgain

LEMMA TypeTransmit ==
  ASSUME TInv, HoldOff \/ TxCheck \/ TxClear \/ TxStart \/ TxCollision \/ TxState
  PROVE  TInv'
<1> USE Bounds
<1>1. CASE HoldOff
  BY <1>1, TypeTimeout, TypePause DEF HoldOff, Waiting
<1>2. CASE TxCheck
  BY <1>2, TypeTimeout, TypePause DEF TxCheck, Waiting
<1>3. CASE TxClear
  <2> USE <1>3 DEF TxClear
  <2>1. CallOK' /\ MutexOK'
    BY TypeGoto
  <2>2. RxOK'
    BY DEF TInv, RxOK
  <2>3. TxOK'
    <3>1. tx' = [tx EXCEPT !.of = frames, !.left = 3]
      OBVIOUS
    <3>2. frames \in 0 .. MaxFrames
      BY DEF TInv, NumOK
    <3> HIDE DEF TxClear
    <3>3. tx \in [of : 0 .. MaxFrames, left : 0 .. 3, whole : BOOLEAN]
      BY DEF TInv, TxOK
    <3>4. 3 \in 0 .. 3
      OBVIOUS
    <3> QED BY <3>1, <3>2, <3>3, <3>4 DEF TxOK
  <2>4. BitOK'
    BY DEF TInv, BitOK
  <2> QED BY <2>1, <2>2, <2>3, <2>4, TypeKept DEF TInv
<1>4. CASE TxStart
  <2> USE <1>4 DEF TxStart
  <2>1. CallOK' /\ MutexOK'
    BY TypeGoto DEF Waiting
  <2>2. TxOK' /\ BitOK' /\ LineOK'
    BY DEF TInv, LineOK, TxOK, BitOK
  <2> QED BY <2>1, <2>2, TypeKept DEF TInv, rxVars
<1>5. CASE TxCollision
  <2>1. CASE /\ txcollision /\ txcollision' = FALSE /\ Goto("hold")
             /\ UNCHANGED <<busstate, rxVars, idlecnt, line, tx, owed, mutex,
                            sniffer, frames, foreign, phase, result, sent, heard>>
    <3>1. CallOK' /\ MutexOK'
      BY <1>5, <2>1, TypeGoto DEF TxCollision, Waiting
    <3>2. BitOK'
      BY <2>1 DEF TInv, BitOK
    <3> QED BY <2>1, <3>1, <3>2, TypeKept DEF TInv, rxVars
  <2>2. CASE Advance("state")
    BY <1>5, <2>2, TypePause DEF TxCollision, Waiting
  <2> QED BY <1>5, <2>1, <2>2 DEF TxCollision
<1>6. CASE TxState
  <2>1. CASE GiveUp \/ ReturnOk
    BY <1>6, <2>1, TypeReturn DEF TxState, GiveUp, ReturnOk
  <2>2. CASE \/ /\ call' = [call EXCEPT !.pc = "sending", !.asleep = TRUE]
                /\ UNCHANGED <<busstate, rxVars, idlecnt, line>>
                /\ UNCHANGED callVars
             \/ AwaitReply
    <3>1. CallOK' /\ call'.pc # "idle" /\ call.pc # "idle"
      <4>1. call \in CallType /\ call.pc = "state"
        BY <1>6 DEF TInv, CallOK, TxState
      <4>2. /\ call' \in CallType /\ call'.again = call.again
            /\ call'.pc \in {"sending", "reply"}
        <5>1. CASE call' = [call EXCEPT !.pc = "sending", !.asleep = TRUE]
          BY <4>1, <5>1 DEF CallType, Waiting
        <5>2. CASE call' = [call EXCEPT !.pc = "reply", !.t = 0]
          BY <4>1, <5>2 DEF CallType, Waiting
        <5> QED BY <2>2, <5>1, <5>2 DEF AwaitReply
      <4>3. frames' = frames
        BY <2>2 DEF AwaitReply, callVars
      <4> QED BY <4>1, <4>2, <4>3 DEF TInv, CallOK
    <3>2. MutexOK'
      BY <2>2, <3>1 DEF TInv, MutexOK, AwaitReply, callVars
    <3> QED BY <2>2, <3>1, <3>2, TypeKept DEF TInv, AwaitReply, rxVars, callVars
  <2> QED BY <1>6, <2>1, <2>2 DEF TxState, StillSending
<1> QED BY <1>1, <1>2, <1>3, <1>4, <1>5, <1>6

LEMMA TypeReply ==
  ASSUME TInv, WaitReply \/ ReadReply \/ DecodeReply \/ EndCall
  PROVE  TInv'
<1> USE Bounds
<1>1. CASE WaitReply
  <2>1. CASE call.t > ReplyTimeout
    BY <1>1, <2>1, TypeReturn DEF WaitReply
  <2>2. CASE ~(call.t > ReplyTimeout)
    <3>1. /\ call' = [call EXCEPT !.asleep = TRUE,
                        !.extended = @ \/ rxstate = "RECEIVING"]
          /\ UNCHANGED <<busstate, rxVars, idlecnt, line>> /\ UNCHANGED callVars
      BY <1>1, <2>2 DEF WaitReply
    <3>2. CallOK' /\ call'.pc = call.pc
      BY <3>1 DEF TInv, CallOK, CallType, callVars
    <3>3. MutexOK'
      BY <3>1, <3>2 DEF TInv, MutexOK, callVars
    <3> QED BY <3>1, <3>2, <3>3, TypeKept DEF TInv, callVars, rxVars
  <2> QED BY <2>1, <2>2
<1>2. CASE ReadReply
  <2> USE <1>2 DEF ReadReply, callVars
  <2>1. CallOK' /\ MutexOK'
    BY TypeGoto
  <2>2. RxOK'
    BY DEF TInv, RxOK
  <2> QED BY <2>1, <2>2, TypeKept DEF TInv
<1>3. CASE DecodeReply
  <2>1. Verdict(rxdata) \in {"reply", "invalid", "collision"}
    BY DEF Verdict
  <2>2. rxdata.of \in -MaxForeign .. MaxFrames
    BY DEF TInv, RxOK, Received
  <2> QED BY <1>3, <2>1, <2>2, TypeReturn DEF DecodeReply
<1>4. CASE EndCall
  <2> USE <1>4 DEF EndCall
  <2>1. CallOK' /\ call'.pc = "idle"
    BY DEF CallOK, CallType, Idle, Waiting
  <2>2. MutexOK'
    BY <2>1 DEF TInv, MutexOK
  <2> QED BY <2>1, <2>2, TypeKept DEF TInv, rxVars
<1> QED BY <1>1, <1>2, <1>3, <1>4

LEMMA TypeNext == TInv /\ [DriverNext]_driverVars => TInv'
<1> SUFFICES ASSUME TInv, [DriverNext]_driverVars PROVE TInv'
  OBVIOUS
<1>1. CASE Caller
  BY <1>1, TypeStartCall, TypeTransmit, TypeReply DEF Caller
<1>2. CASE UNCHANGED driverVars
  BY <1>2, TypeKept DEF TInv, driverVars
<1> QED BY <1>1, <1>2, TypeIsr, TypeStations, TypeSniffer, TypeTick DEF DriverNext

-------------------------------------------------------------------------------
(* The inductive invariant.                                                *)

\* The bus: what busstate says of the line.  The steps of tx and of the reading
\* of a reply are too short for a frame to end in them.
BusOK ==
  /\ busstate = "IDLE" => line.kind = "none"
  /\ rxstate = "COMPLETED" => busstate # "RX"
  /\ owed.due => line.kind = "none"
  /\ busstate = "TX" =>
       /\ line.kind # "none" => ~line.whole
       /\ tx.whole => line.kind = "none"
       /\ owed.due => owed.age + tx.left >= ForwardTicks
  /\ call.pc \in {"clear", "start", "decode"} =>
       /\ busstate \in {"IDLE", "RX"}
       /\ line.kind # "none" => line.left >= BackwardTicks

\* The frames of the bridge: one is sent again only if it did not go out.
SentInv ==
  /\ SentOnce
  /\ \A f \in Frame : f > frames => sent[f] = 0
  /\ busstate = "TX" =>
       /\ ~txcollision /\ tx.of \in 1 .. frames /\ sent[tx.of] = 0
       /\ call.pc \in {"sending", "state"} => tx.of = frames
       /\ call.pc \in {"hold", "check"} => tx.of # frames
  /\ call.pc \in {"hold", "check", "clear", "start"} => sent[frames] = 0
  /\ call.pc = "sending" /\ txcollision => sent[frames] = 0
  /\ call.pc = "start" => tx.of = frames /\ ~txcollision

\* While a frame waits for the sniffer nothing else has happened on the bus.
HeardInv ==
  /\ HeardWhenFree
  /\ (\E f \in Other : heard[f] = "open") =>
       /\ busstate = "IDLE" /\ idlecnt = 0 /\ mutex # "call"
       /\ owed.due => owed.age = 0

\* The frame of the call is on the bus, or has just been.  A collision that was
\* found between the two reads of tx_state stays in txcollision while a reply is
\* waited for: the bus became idle two ticks later then.
Mine == call.pc \in {"sending", "state"}
Struck == IF txcollision THEN 2 ELSE 0

\* The clocks: a task wakes at a FreeRTOS tick, sees the end of its frame at
\* the next one, and waits for six ticks at most, or seven after a collision.
ClockOK ==
  /\ call.pc = "start" => tx.left = ForwardTicks
  /\ call.pc = "state" => ~call.asleep
  /\ Mine /\ ~call.asleep =>
       phase = 0 \/ txcollision \/ (busstate = "TX" /\ tx.left = ForwardTicks)
  /\ Mine /\ busstate \notin {"TX", "COLLISION_TX"} =>
       idlecnt <= IF call.asleep THEN phase ELSE OsTick
  /\ call.pc = "state" /\ txcollision /\ busstate # "COLLISION_TX" => idlecnt = 0
  /\ call.pc = "reply" /\ ~txcollision =>
       /\ call.t <= 6 /\ (call.asleep => call.t <= 5)
       /\ ~call.asleep => phase = 0
       /\ OsTick = 2 => (phase = 0 <=> call.t \in {0, 2, 4, 6})
  /\ call.pc = "reply" /\ txcollision =>
       /\ call.t <= 7 /\ (call.asleep => call.t <= 5 + phase)
       /\ ~call.asleep => phase = 0 \/ call.t = 0
  /\ call.pc = "reply" /\ busstate # "COLLISION_TX" =>
       idlecnt + Struck <= call.t + 2

\* While a reply is waited for: another master waits out the bus before it
\* sends, so that its frame, and the answer to it, come too late.
ReplyInv ==
  /\ ReplyIsOwn
  /\ call.pc = "start" => rxstate # "COMPLETED"
  /\ Mine \/ call.pc = "reply" =>
       /\ busstate = "COLLISION_TX" => txcollision
       /\ busstate \in {"TX", "COLLISION_TX"} => rxstate # "COMPLETED"
       /\ rxstate = "COMPLETED" /\ rxdata.kind = "backward" => rxdata.of = frames
  /\ Mine /\ busstate # "TX" =>
       /\ line.kind = "forward" => ~line.whole
       /\ line.kind = "backward" /\ line.whole => line.of = frames
       /\ owed.due => owed.of = frames
  /\ call.pc = "reply" =>
       /\ busstate # "TX"
       /\ line.kind = "forward" /\ line.whole => call.t + line.left >= 4 + Struck
       /\ line.kind = "backward" /\ line.whole =>
            line.of = frames \/ call.t + line.left >= 7 + Struck
       /\ owed.due => owed.of = frames \/ call.t >= 4 + owed.age + Struck
  /\ call.pc = "decode" /\ rxdata.kind = "backward" => rxdata.of = frames

\* Every frame is answered for once, a frame on the bus has not been answered for
\* but with a timeout, and a reply on its way to the caller comes from a frame
\* that has gone out.
AnswerInv ==
  /\ call.pc \in {"idle", "gap"} => result.frame = frames
  /\ call.pc \notin {"idle", "gap"} => result.frame < frames
  /\ busstate = "TX" => Mine \/ result.kind = "timeout"
  /\ owed.due /\ owed.of > 0 => sent[owed.of] = 1
  /\ line.kind = "backward" /\ line.of > 0 => sent[line.of] = 1
  /\ rxdata.kind = "backward" /\ rxdata.of > 0 => sent[rxdata.of] = 1

DriverInv == /\ TInv /\ BusOK /\ SentInv /\ HeardInv /\ ClockOK /\ ReplyInv
             /\ AnswerInv

-------------------------------------------------------------------------------
(* What a step of the calling task does, without the records.              *)

rest == <<busstate, rxdata, notified, idlecnt, line, owed, sniffer, foreign,
          phase, sent>>
OthersSame == UNCHANGED rest /\ UNCHANGED <<rxstate, txcollision, tx, heard>>

Pauses ==
  /\ \/ call.pc \in {"hold", "check", "reply"} /\ ~call.asleep /\ call'.pc = call.pc
     \/ call.pc = "state" /\ busstate = "TX" /\ call'.pc = "sending"
  /\ call.pc = "reply" => call.t <= RxExtended
  /\ call'.asleep /\ call'.t = call.t
  /\ UNCHANGED <<frames, mutex, result>> /\ OthersSame
Returns ==
  /\ call.pc \in {"hold", "check", "state", "reply", "decode"}
  /\ call'.pc \in {"hold", "gap", "idle"}
  /\ frames' = IF call'.pc = "hold" THEN frames + 1 ELSE frames
  /\ result'.frame = frames
  /\ result'.kind = "reply" =>
       call.pc = "decode" /\ rxdata.kind = "backward" /\ result'.of = rxdata.of
  /\ \/ call.pc \in {"reply", "decode"} \/ busstate # "TX"
     \/ result'.kind = "timeout"
  /\ OthersSame
Looks ==
  /\ \/ call.pc = "hold" /\ call'.pc = "check"
     \/ call.pc = "check" /\ call'.pc = "clear" /\ busstate = "IDLE"
     \/ /\ call.pc = "sending" /\ call'.pc = "state" /\ ~txcollision
        /\ ~call.asleep /\ ~call'.asleep
  /\ UNCHANGED <<frames, mutex, result>> /\ OthersSame
Retries ==
  /\ call.pc = "sending" /\ txcollision /\ call'.pc = "hold" /\ ~txcollision'
  /\ UNCHANGED <<frames, mutex, result, rxstate, tx, heard>> /\ UNCHANGED rest
Awaits ==
  /\ call.pc = "state" /\ busstate # "TX"
  /\ call'.pc = "reply" /\ call'.asleep = call.asleep /\ call'.t = 0
  /\ UNCHANGED <<frames, mutex, result>> /\ OthersSame
Starts ==
  /\ call.pc = "idle" /\ mutex = "free" /\ mutex' = "call" /\ call'.pc = "hold"
  /\ frames' = frames + 1
  /\ heard' = [f \in Other |->
                 IF heard[f] = "open" THEN "excused" ELSE heard[f]]
  /\ UNCHANGED rest /\ UNCHANGED <<rxstate, txcollision, tx, result>>
Clears ==
  /\ call.pc = "clear" /\ call'.pc = "start"
  /\ ~txcollision' /\ rxstate' = "EMPTY"
  /\ tx'.of = frames /\ tx'.left = ForwardTicks
  /\ UNCHANGED <<frames, mutex, result, heard>> /\ UNCHANGED rest
Transmits ==
  /\ call.pc = "start" /\ call'.pc = "sending" /\ busstate' = "TX"
  /\ tx'.of = tx.of /\ tx'.left = tx.left /\ tx'.whole = (line.kind = "none")
  /\ line'.kind = line.kind /\ line'.left = line.left /\ line'.of = line.of
  /\ line'.whole = (line.whole /\ line.kind = "none")
  /\ UNCHANGED <<rxstate, rxdata, idlecnt, txcollision, owed, mutex, frames,
                 phase, result, sent, heard>>
Reads ==
  /\ call.pc = "reply" /\ call'.pc = "decode" /\ rxstate = "COMPLETED"
  /\ rxstate' = "EMPTY"
  /\ UNCHANGED <<frames, mutex, result, txcollision, tx, heard>>
  /\ UNCHANGED rest
Ends ==
  /\ call.pc = "gap" /\ call'.pc = "idle"
  /\ UNCHANGED <<frames, result>> /\ OthersSame

LEMMA PauseStep ==
  ASSUME TInv, call.pc \in {"hold", "check"}, ~call.asleep, Sleep
  PROVE  Pauses
BY DEF TInv, CallOK, CallType, Sleep, callVars, rxVars, Pauses, OthersSame, rest

LEMMA ReturnStep ==
  ASSUME TInv, call.pc \in {"hold", "check", "state", "reply", "decode"},
         NEW kind, NEW of, Return(kind, of),
         call.pc \in {"reply", "decode"} \/ busstate # "TX" \/ kind = "timeout",
         kind = "reply" => /\ call.pc = "decode" /\ rxdata.kind = "backward"
                           /\ of = rxdata.of,
         UNCHANGED <<busstate, rxVars, idlecnt, txcollision, tx, line, owed,
                     sniffer, foreign, phase, sent, heard>>
  PROVE  Returns
<1>1. /\ call.wait \in BOOLEAN /\ call.gap \in BOOLEAN /\ call.again \in BOOLEAN
  BY DEF TInv, CallOK, CallType
<1>2. /\ call'.pc \in {"hold", "gap", "idle"}
      /\ frames' = IF call'.pc = "hold" THEN frames + 1 ELSE frames
  <2>1. CASE call.again
    BY <1>1, <2>1, SecondFrame DEF Return
  <2>2. CASE ~call.again /\ call.gap
    BY <2>2, Delay DEF Return
  <2>3. CASE ~call.again /\ ~call.gap
    BY <2>3, IdleTyped DEF Return
  <2> QED BY <1>1, <2>1, <2>2, <2>3
<1>3. result' = [frame |-> frames, kind |-> kind, of |-> of]
  BY DEF Return
<1>4. OthersSame
  BY DEF OthersSame, rest, rxVars
<1> QED BY <1>2, <1>3, <1>4 DEF Returns

LEMMA PollStep ==
  ASSUME TInv, call.pc \in {"hold", "check"}, ~call.asleep, PollAgain
  PROVE  Pauses \/ Returns
BY PauseStep, ReturnStep DEF PollAgain, GiveUp

LEMMA LookStep ==
  ASSUME TInv, NEW to \in {"check", "clear", "state"},
         call.pc \in {"hold", "check", "sending"}, Advance(to)
  PROVE  /\ call'.pc = to /\ call'.asleep = call.asleep
         /\ UNCHANGED <<frames, mutex, result>> /\ OthersSame
BY DEF TInv, CallOK, CallType, Advance, Goto, callVars, rxVars, OthersSame, rest

LEMMA CallerStep ==
  ASSUME TInv, Caller
  PROVE  \/ Starts \/ Pauses \/ Returns \/ Looks \/ Clears \/ Transmits
         \/ Retries \/ Awaits \/ Reads \/ Ends
<1> USE DEF OthersSame, rest, rxVars, callVars
<1>1. CASE StartCall
  <2>1. PICK op \in Operation :
          call' = [Idle EXCEPT !.pc = "hold", !.wait = op.wait, !.gap = op.gap,
                               !.again = op.again]
    BY <1>1 DEF StartCall
  <2>2. call'.pc = "hold"
    BY <2>1 DEF Idle
  <2> QED BY <1>1, <2>2 DEF StartCall, Starts
<1>2. CASE HoldOff
  BY <1>2, PollStep, LookStep DEF HoldOff, Looks, Waiting
<1>3. CASE TxCheck
  BY <1>3, PollStep, LookStep DEF TxCheck, Looks, Waiting
<1>4. CASE TxClear
  <2>1. call'.pc = "start" /\ tx'.of = frames /\ tx'.left = ForwardTicks
    BY <1>4 DEF TInv, CallOK, CallType, TxOK, TxClear, Goto
  <2> QED BY <1>4, <2>1 DEF TxClear, Clears
<1>5. CASE TxStart
  <2>1. call'.pc = "sending"
    BY <1>5 DEF TInv, CallOK, CallType, TxStart, Goto
  <2>2. tx'.of = tx.of /\ tx'.left = tx.left /\ tx'.whole = (line.kind = "none")
    BY <1>5 DEF TInv, TxOK, TxStart
  <2>3. /\ line'.kind = line.kind /\ line'.left = line.left /\ line'.of = line.of
        /\ line'.whole = (line.whole /\ line.kind = "none")
    BY <1>5 DEF TInv, LineOK, TxStart
  <2> QED BY <1>5, <2>1, <2>2, <2>3 DEF TxStart, Transmits
<1>6. CASE TxCollision
  <2>1. CASE /\ txcollision /\ txcollision' = FALSE /\ Goto("hold")
             /\ UNCHANGED <<busstate, rxVars, idlecnt, line, tx, owed, mutex,
                            sniffer, frames, foreign, phase, result, sent, heard>>
    <3>1. call'.pc = "hold"
      BY <1>6, <2>1 DEF TInv, CallOK, CallType, Goto
    <3> QED BY <1>6, <2>1, <3>1 DEF TxCollision, Retries
  <2>2. CASE ~txcollision /\ Advance("state")
    BY <1>6, <2>2, LookStep DEF TxCollision, Looks
  <2> QED BY <1>6, <2>1, <2>2 DEF TxCollision
<1>11. CASE TxState
  <2>1. CASE busstate = "TX" /\ GiveUp
    BY <1>11, <2>1, ReturnStep DEF TxState, GiveUp
  <2>2. CASE /\ busstate = "TX"
             /\ call' = [call EXCEPT !.pc = "sending", !.asleep = TRUE]
             /\ UNCHANGED <<busstate, rxVars, idlecnt, line>> /\ UNCHANGED callVars
    <3>1. call'.pc = "sending" /\ call'.asleep /\ call'.t = call.t
      BY <2>2 DEF TInv, CallOK, CallType
    <3> QED BY <1>11, <2>2, <3>1 DEF TxState, Pauses
  <2>3. CASE busstate # "TX" /\ AwaitReply
    <3>1. call'.pc = "reply" /\ call'.asleep = call.asleep /\ call'.t = 0
      BY <2>3 DEF TInv, CallOK, CallType, AwaitReply
    <3> QED BY <1>11, <2>3, <3>1 DEF TxState, AwaitReply, Awaits
  <2>4. CASE busstate # "TX" /\ ReturnOk
    BY <1>11, <2>4, ReturnStep DEF TxState, ReturnOk
  <2> QED BY <1>11, <2>1, <2>2, <2>3, <2>4 DEF TxState, StillSending
<1>7. CASE WaitReply
  <2>1. CASE call.t > ReplyTimeout
    BY <1>7, <2>1, ReturnStep DEF WaitReply
  <2>2. CASE ~(call.t > ReplyTimeout)
    <3>1. call' = [call EXCEPT !.asleep = TRUE,
                        !.extended = @ \/ rxstate = "RECEIVING"]
      BY <1>7, <2>2 DEF WaitReply
    <3>2. call'.pc = call.pc /\ call'.asleep /\ call'.t = call.t
      BY <3>1 DEF TInv, CallOK, CallType
    <3>3. call.t <= RxExtended
      BY <2>2 DEF TInv, CallOK, CallType, ReplyTimeout, RxTimeout, RxExtended
    <3> QED BY <1>7, <2>2, <3>2, <3>3 DEF WaitReply, Pauses
  <2> QED BY <2>1, <2>2
<1>8. CASE ReadReply
  <2>1. call'.pc = "decode"
    BY <1>8 DEF TInv, CallOK, CallType, ReadReply, Goto
  <2> QED BY <1>8, <2>1 DEF ReadReply, Reads
<1>9. CASE DecodeReply
  BY <1>9, ReturnStep DEF DecodeReply, Verdict
<1>10. CASE EndCall
  BY <1>10, IdleTyped DEF EndCall, Ends
<1> QED BY <1>1, <1>2, <1>3, <1>4, <1>5, <1>6, <1>7, <1>8, <1>9, <1>10, <1>11
        DEF Caller

-------------------------------------------------------------------------------
(* Each part of the invariant is kept.                                     *)

\* The fields that the steps of the interrupt and of the clock look at.
LEMMA Fields ==
  ASSUME TInv
  PROVE  /\ line.kind \in {"none", "forward", "backward"} /\ line.left \in 0 .. 3
         /\ line.whole \in BOOLEAN /\ tx.whole \in BOOLEAN /\ owed.due \in BOOLEAN
         /\ tx.left \in 0 .. 3 /\ owed.age \in 0 .. 2
         /\ call.t \in Nat /\ call.asleep \in BOOLEAN /\ idlecnt \in 0 .. IdleCap
         /\ frames \in Nat /\ foreign \in Nat
         /\ phase \in 0 .. OsTick - 1
         /\ busstate \in {"IDLE", "RX", "TX", "COLLISION_TX"}
         /\ txcollision \in BOOLEAN /\ Struck \in {0, 2}
         /\ mutex = "call" <=> call.pc # "idle"
         /\ mutex = "sniffer" <=> sniffer = "decode"
<1> USE Bounds DEF TInv
<1>1. /\ line.kind \in {"none", "forward", "backward"} /\ line.left \in 0 .. 3
      /\ line.whole \in BOOLEAN
  BY DEF LineOK
<1>2. tx.whole \in BOOLEAN /\ tx.left \in 0 .. 3
  BY DEF TxOK
<1>3. owed.due \in BOOLEAN /\ owed.age \in 0 .. 2
  BY DEF OwedOK
<1>4. call.t \in Nat /\ call.asleep \in BOOLEAN
  BY DEF CallOK, CallType
<1>5. frames \in Nat /\ foreign \in Nat
  BY DEF NumOK
<1> QED BY <1>1, <1>2, <1>3, <1>4, <1>5 DEF BitOK, MutexOK, Struck

\* What a step of the clock does, without the records.
Ticks ==
  /\ ~Due
  /\ line'.kind = line.kind /\ line'.of = line.of /\ line'.whole = line.whole
  /\ line.kind # "none" => line'.left = line.left - 1
  /\ owed'.due = owed.due /\ owed'.of = owed.of
  /\ owed'.age = IF owed.due THEN owed.age + 1 ELSE 0
  /\ tx'.of = tx.of /\ tx'.whole = tx.whole
  /\ tx'.left = IF busstate = "TX" THEN tx.left - 1 ELSE tx.left
  /\ call'.pc = call.pc
  /\ call.pc \notin {"idle", "gap"} =>
       /\ call'.asleep = (call.asleep /\ phase' # 0)
       /\ call'.t = IF call.t > TxTimeout /\ call.t > RxExtended + OsTick
                    THEN call.t ELSE call.t + 1
  /\ phase' = (phase + 1) % OsTick
  /\ idlecnt' = IF busstate = "IDLE" /\ idlecnt < IdleCap THEN idlecnt + 1
                ELSE idlecnt
  /\ UNCHANGED <<busstate, rxstate, rxdata, notified, txcollision, mutex, sniffer,
                 frames, foreign, result, sent, heard>>

LEMMA TickStep == ASSUME TInv, Tick PROVE Ticks
<1>1. /\ line'.kind = line.kind /\ line'.of = line.of /\ line'.whole = line.whole
      /\ line.kind # "none" => line'.left = line.left - 1
  BY DEF TInv, LineOK, Tick
<1>2. /\ owed'.due = owed.due /\ owed'.of = owed.of
      /\ owed'.age = IF owed.due THEN owed.age + 1 ELSE 0
  BY DEF TInv, OwedOK, Tick
<1>3. /\ tx'.of = tx.of /\ tx'.whole = tx.whole
      /\ tx'.left = IF busstate = "TX" THEN tx.left - 1 ELSE tx.left
  BY DEF TInv, TxOK, Tick
<1>4. call'.pc = call.pc
  BY DEF TInv, CallOK, CallType, Tick
<1>5. call.pc \notin {"idle", "gap"} =>
        /\ call'.asleep = (call.asleep /\ phase' # 0)
        /\ call'.t = IF call.t > TxTimeout /\ call.t > RxExtended + OsTick
                     THEN call.t ELSE call.t + 1
  BY DEF TInv, CallOK, CallType, Tick
<1> QED BY <1>1, <1>2, <1>3, <1>4, <1>5 DEF Tick, Ticks, rxVars

LEMMA BusReleased ==
  ASSUME TInv, BusOK, busstate \in {"TX", "COLLISION_TX"}, SetBusstateIdle,
         UNCHANGED call,
         UNCHANGED owed \/ (owed'.due => line.kind = "none")
  PROVE  BusOK'
BY Fields DEF TInv, LineOK, BusOK, SetBusstateIdle

LEMMA BusSeized ==
  ASSUME TInv, BusOK, NEW kind \in {"forward", "backward"}, NEW of,
         NEW ticks \in {2, 3}, Seize(kind, of, ticks), UNCHANGED call, ~owed'.due
  PROVE  BusOK'
<1>1. line' = [kind |-> kind, of |-> of, left |-> ticks, whole |-> busstate = "IDLE"]
  BY DEF Seize
<1>2. CASE busstate = "IDLE"
  <2>1. busstate' = "RX" /\ rxstate' = "RECEIVING" /\ line'.left = ticks
    BY <1>1, <1>2 DEF Seize
  <2> QED BY <2>1 DEF BusOK
<1>3. CASE busstate # "IDLE"
  <2>1. UNCHANGED <<busstate, rxstate>>
    BY <1>3 DEF Seize
  <2>2. line'.left = ticks /\ line'.whole = (busstate = "IDLE")
    BY <1>1
  <2>3. ~line'.whole
    BY <1>3, <2>2, Zenon
  <2>4. busstate = "TX" => ~tx'.whole
    BY DEF TInv, TxOK, Seize
  <2> QED BY <1>3, <2>1, <2>2, <2>3, <2>4 DEF BusOK
<1> QED BY <1>2, <1>3

LEMMA BusIsr == ASSUME TInv, BusOK, Isr PROVE BusOK'
<1>1. CASE RxComplete
  BY <1>1, Fields DEF BusOK, RxComplete, Quiet
<1>2. CASE Collide
  <2>1. line'.kind = line.kind
    BY <1>2 DEF TInv, LineOK, Collide
  <2> QED BY <1>2, <2>1, Fields DEF BusOK, Collide
<1>3. CASE CollisionEnd
  BY <1>3, BusReleased DEF CollisionEnd
<1>4. CASE TxEnd
  BY <1>4, BusReleased DEF TxEnd, BusOK, MayOwe
<1> QED BY <1>1, <1>2, <1>3, <1>4 DEF Isr

LEMMA BusStations == ASSUME TInv, BusOK, ForeignStart \/ ReplyStart PROVE BusOK'
BY BusSeized DEF ForeignStart, ReplyStart, NoReplyOwed

LEMMA BusCaller == ASSUME TInv, BusOK, ClockOK, ReplyInv, Caller PROVE BusOK'
<1>1. CASE Starts \/ Pauses \/ Returns \/ Looks \/ Retries \/ Awaits \/ Ends
  BY <1>1 DEF BusOK, Starts, Pauses, Returns, Looks, Retries, Awaits, Ends, OthersSame,
              rest, Waiting
<1>2. CASE Clears
  BY <1>2 DEF BusOK, Clears, rest
<1>3. CASE Transmits
  BY <1>3, Fields DEF BusOK, ClockOK, Transmits
<1>4. CASE Reads
  BY <1>4, Fields DEF BusOK, ReplyInv, Reads, rest
<1> QED BY <1>1, <1>2, <1>3, <1>4, CallerStep

LEMMA BusSniffer == ASSUME BusOK, Sniffer PROVE BusOK'
BY DEF BusOK, Sniffer, SnifferWake, SnifferRx, SnifferDecode, rxVars

LEMMA BusTick == ASSUME TInv, BusOK, Tick PROVE BusOK'
BY TickStep, Fields DEF BusOK, Ticks, Due

\* A frame goes out once.
LEMMA SentIsr == ASSUME TInv, BusOK, SentInv, Isr PROVE SentInv'
<1>1. CASE RxComplete
  BY <1>1 DEF SentInv, SentOnce, RxComplete
<1>2. CASE Collide
  BY <1>2 DEF SentInv, SentOnce, BusOK, Collide
<1>3. CASE CollisionEnd
  BY <1>3 DEF SentInv, SentOnce, BusOK, CollisionEnd, SetBusstateIdle
<1>4. CASE TxEnd
  <2>1. busstate' # "TX" /\ UNCHANGED <<call, frames, txcollision, tx>>
    BY <1>4 DEF TxEnd, SetBusstateIdle
  <2>2. \A f \in Frame : f # tx.of => sent'[f] = sent[f]
    BY <1>4 DEF TInv, CountsOK, TxEnd
  <2>3. tx.of \in Frame /\ tx.of \in 1 .. frames /\ sent[tx.of] = 0
    BY <1>4, Bounds DEF TInv, NumOK, SentInv, TxEnd, Frame
  <2>4. sent'[tx.of] <= 1
    BY <1>4, <2>3 DEF TInv, CountsOK, TxEnd
  <2>5. \A f \in Frame : sent'[f] <= 1 /\ (f > frames => sent'[f] = 0)
    BY <2>2, <2>3, <2>4, Fields DEF SentInv, SentOnce
  <2>6. call.pc \in {"hold", "check"} => sent'[frames] = 0
    <3>1. ASSUME call.pc \in {"hold", "check"} PROVE frames \in Frame /\ frames # tx.of
      BY <1>4, <3>1 DEF TInv, NumOK, CallOK, SentInv, TxEnd, Frame
    <3> QED BY <2>2, <3>1 DEF SentInv
  <2>7. call.pc \notin {"clear", "start"} /\ ~txcollision
    BY <1>4 DEF BusOK, SentInv, TxEnd
  <2> QED BY <2>1, <2>5, <2>6, <2>7 DEF SentInv, SentOnce
<1> QED BY <1>1, <1>2, <1>3, <1>4 DEF Isr

LEMMA SentStations ==
  ASSUME TInv, SentInv, ForeignStart \/ ReplyStart
  PROVE  SentInv'
<1>1. busstate' = "TX" <=> busstate = "TX"
  BY DEF ForeignStart, ReplyStart, Seize
<1>2. tx'.of = tx.of
  BY DEF TInv, TxOK, ForeignStart, ReplyStart, Seize
<1> QED BY <1>1, <1>2 DEF SentInv, SentOnce, ForeignStart, ReplyStart

\* The frame of a new call, or the second one of a command, is new.
LEMMA SentNew ==
  ASSUME TInv, TInv', SentInv, call'.pc = "hold", frames' = frames + 1,
         UNCHANGED <<busstate, tx, txcollision, sent>>
  PROVE  SentInv'
<1>1. frames' \in Frame /\ frames' > frames
  BY Fields DEF TInv, NumOK, Frame
<1>2. sent[frames'] = 0
  BY <1>1 DEF SentInv
<1>3. \A f \in Frame : f > frames' => f > frames
  BY Fields DEF Frame
<1>4. busstate = "TX" => tx.of \in 1 .. frames' /\ tx.of # frames'
  BY Fields DEF SentInv
<1> QED BY <1>2, <1>3, <1>4 DEF SentInv, SentOnce

LEMMA SentCaller == ASSUME TInv, TInv', BusOK, SentInv, Caller PROVE SentInv'
<1>1. CASE Starts
  BY <1>1, SentNew DEF Starts, rest
<1>2. CASE Returns
  <2>1. CASE call'.pc = "hold"
    BY <1>2, <2>1, SentNew DEF Returns, OthersSame, rest
  <2>2. CASE call'.pc # "hold"
    BY <1>2, <2>2 DEF Returns, OthersSame, rest, SentInv, SentOnce
  <2> QED BY <2>1, <2>2
<1>3. CASE Pauses \/ Looks \/ Retries \/ Awaits \/ Ends
  BY <1>3 DEF SentInv, SentOnce, Pauses, Looks, Retries, Awaits, Ends, OthersSame, rest,
              Mine
<1>4. CASE Clears \/ Reads
  BY <1>4 DEF SentInv, SentOnce, BusOK, Clears, Reads, rest
<1>5. CASE Transmits
  <2>1. frames \in 1 .. frames
    BY <1>5, Fields DEF TInv, CallOK, Transmits
  <2> QED BY <1>5, <2>1 DEF SentInv, SentOnce, Transmits
<1> QED BY <1>1, <1>2, <1>3, <1>4, <1>5, CallerStep

LEMMA SentSniffer == ASSUME SentInv, Sniffer PROVE SentInv'
BY DEF SentInv, SentOnce, Sniffer, SnifferWake, SnifferRx, SnifferDecode

LEMMA SentTick == ASSUME TInv, SentInv, Tick PROVE SentInv'
BY TickStep DEF SentInv, SentOnce, Ticks

\* A foreign frame waits for the sniffer.
LEMMA HeardIsr == ASSUME TInv, BusOK, HeardInv, Isr PROVE HeardInv'
<1>1. \A f \in Other : heard[f] # "open"
  BY DEF HeardInv, BusOK, Isr, RxComplete, Collide, CollisionEnd, TxEnd
<1>2. CASE RxComplete
  <2>1. CASE line.kind = "forward" /\ line.whole /\ busstate = "RX" /\ mutex = "free"
    <3>1. /\ busstate' = "IDLE" /\ idlecnt' = 0 /\ rxstate' = "COMPLETED" /\ notified'
          /\ rxdata' = [kind |-> "forward", of |-> line.of] /\ mutex' = "free"
      BY <1>2, <2>1 DEF RxComplete
    <3>2. owed'.due => owed'.age = 0
      BY <1>2, <2>1 DEF RxComplete, MayOwe, NoReplyOwed
    <3>3. line.of \in -foreign .. -1 /\ foreign \in 0 .. MaxForeign
      BY <2>1 DEF TInv, LineOK, NumOK
    <3>4. \A f \in Other : heard'[f] = "open" => line.of = -f
      <4>1. heard' = [heard EXCEPT ![-line.of] = "open"]
        BY <1>2, <2>1 DEF RxComplete
      <4>2. \A f \in Other : f # -line.of => heard'[f] = heard[f]
        BY <4>1 DEF TInv, HeardOK
      <4> QED BY <1>1, <3>3, <4>2, Bounds DEF Other
    <3> QED BY <3>1, <3>2, <3>4 DEF HeardInv, HeardWhenFree
  <2>2. CASE ~(line.kind = "forward" /\ line.whole /\ busstate = "RX" /\ mutex = "free")
    <3>1. heard' = heard \/ heard' = [heard EXCEPT ![-line.of] = "excused"]
      BY <1>2, <2>2 DEF RxComplete
    <3>2. \A f \in Other : heard'[f] # "open"
      BY <1>1, <3>1 DEF TInv, HeardOK
    <3> QED BY <3>2 DEF HeardInv, HeardWhenFree
  <2> QED BY <2>1, <2>2
<1>3. CASE Collide \/ CollisionEnd \/ TxEnd
  <2>1. heard' = heard
    BY <1>3 DEF Collide, CollisionEnd, TxEnd
  <2> QED BY <1>1, <2>1 DEF HeardInv, HeardWhenFree
<1> QED BY <1>2, <1>3 DEF Isr

LEMMA HeardStations ==
  ASSUME TInv, HeardInv, ForeignStart \/ ReplyStart
  PROVE  HeardInv'
<1>1. \A f \in Other : heard[f] # "open"
  BY Bounds, Fields DEF HeardInv, ForeignStart, ReplyStart
<1>2. heard' = heard
  BY DEF ForeignStart, ReplyStart
<1> QED BY <1>1, <1>2 DEF HeardInv, HeardWhenFree

LEMMA HeardCaller == ASSUME TInv, HeardInv, Caller PROVE HeardInv'
<1>1. CASE Starts
  <2>1. \A f \in Other : heard'[f] # "open"
    BY <1>1 DEF Starts, TInv, HeardOK
  <2> QED BY <2>1 DEF HeardInv, HeardWhenFree
<1>2. CASE ~Starts
  <2>1. call.pc # "idle" /\ heard' = heard
    BY <1>2, CallerStep DEF Pauses, Returns, Looks, Clears, Transmits, Retries, Awaits,
                            Reads, Ends, OthersSame, Waiting, Mine
  <2>2. \A f \in Other : heard[f] # "open"
    BY <2>1, Fields DEF HeardInv
  <2> QED BY <2>1, <2>2 DEF HeardInv, HeardWhenFree
<1> QED BY <1>1, <1>2

LEMMA HeardSniffer == ASSUME TInv, HeardInv, Sniffer PROVE HeardInv'
<1>1. CASE SnifferWake
  BY <1>1 DEF HeardInv, HeardWhenFree, SnifferWake
<1>2. CASE SnifferRx
  BY <1>2 DEF HeardInv, HeardWhenFree, SnifferRx
<1>3. CASE SnifferDecode
  <2>1. \A f \in Other : heard'[f] # "open"
    <3>1. SUFFICES ASSUME NEW f \in Other, heard'[f] = "open" PROVE FALSE
      OBVIOUS
    <3>2. heard[f] = "open"
      BY <1>3, <3>1 DEF SnifferDecode, TInv, HeardOK
    <3>3. rxdata.kind = "forward" /\ rxdata.of = -f
      BY <3>2 DEF HeardInv, HeardWhenFree
    <3>4. -rxdata.of = f
      BY <3>3 DEF Other
    <3> QED BY <1>3, <3>1, <3>3, <3>4 DEF SnifferDecode, TInv, HeardOK
  <2> QED BY <2>1 DEF HeardInv, HeardWhenFree
<1> QED BY <1>1, <1>2, <1>3 DEF Sniffer

LEMMA HeardTick == ASSUME TInv, HeardInv, Tick PROVE HeardInv'
<1>1. \A f \in Other : heard[f] # "open"
  BY TickStep DEF HeardInv, HeardWhenFree, Ticks, Due, TInv, MutexOK
<1>2. heard' = heard
  BY DEF Tick
<1> QED BY <1>1, <1>2 DEF HeardInv, HeardWhenFree

\* The clocks.
LEMMA ClockIsr == ASSUME TInv, ClockOK, ReplyInv, Isr PROVE ClockOK'
<1> USE Fields, Bounds DEF ClockOK, Mine, Struck
<1>1. CASE RxComplete
  BY <1>1 DEF RxComplete
<1>2. CASE Collide
  BY <1>2 DEF ReplyInv, Collide
<1>3. CASE CollisionEnd
  BY <1>3 DEF CollisionEnd, SetBusstateIdle
<1>4. CASE TxEnd
  BY <1>4 DEF TxEnd, SetBusstateIdle
<1> QED BY <1>1, <1>2, <1>3, <1>4 DEF Isr

LEMMA ClockStations ==
  ASSUME TInv, ClockOK, ForeignStart \/ ReplyStart
  PROVE  ClockOK'
<1>1. /\ busstate' = "TX" <=> busstate = "TX"
      /\ busstate' = "COLLISION_TX" <=> busstate = "COLLISION_TX"
  BY DEF ForeignStart, ReplyStart, Seize
<1>2. tx'.left = tx.left
  BY DEF TInv, TxOK, ForeignStart, ReplyStart, Seize
<1>3. UNCHANGED <<call, phase, idlecnt, txcollision>>
  BY DEF ForeignStart, ReplyStart
<1> QED BY <1>1, <1>2, <1>3 DEF ClockOK, Mine, Struck

LEMMA ClockCaller == ASSUME TInv, ClockOK, Caller PROVE ClockOK'
<1>1. CASE Starts \/ Returns \/ Retries \/ Reads \/ Ends
  BY <1>1 DEF ClockOK, Mine, Starts, Returns, Retries, Reads, Ends
<1>2. CASE Looks
  BY <1>2 DEF ClockOK, Mine, Looks, OthersSame, rest
<1>3. CASE Pauses
  <2>1. CASE call.pc = "reply"
    <3>1. call.t <= 5
      BY <1>3, <2>1 DEF Pauses, RxExtended
    <3> QED BY <1>3, <2>1, <3>1, Fields, Bounds
            DEF ClockOK, Mine, Struck, Pauses, OthersSame, rest
  <2>2. CASE call.pc # "reply"
    BY <1>3, <2>2 DEF ClockOK, Mine, Pauses, OthersSame, rest
  <2> QED BY <2>1, <2>2
<1>4. CASE Clears \/ Transmits
  BY <1>4 DEF ClockOK, Mine, Clears, Transmits
<1>5. CASE Awaits
  BY <1>5, Fields, Bounds DEF ClockOK, Mine, Struck, Awaits, OthersSame, rest
<1> QED BY <1>1, <1>2, <1>3, <1>4, <1>5, CallerStep

LEMMA ClockSniffer == ASSUME ClockOK, Sniffer PROVE ClockOK'
BY DEF ClockOK, Mine, Struck, Sniffer, SnifferWake, SnifferRx, SnifferDecode

LEMMA ClockTick == ASSUME TInv, ClockOK, Tick PROVE ClockOK'
<1> USE TickStep, Fields, Bounds DEF Ticks
<1>1. phase' = IF phase + 1 = OsTick THEN 0 ELSE phase + 1
  OBVIOUS
<1>2. call.pc \notin {"start", "state"} /\ (call.pc \in {"sending", "reply"} => call.asleep)
      /\ busstate # "COLLISION_TX" /\ call'.pc = call.pc
  BY DEF Due, Waiting
<1>3. call.pc \in {"sending", "reply"} => (call'.asleep <=> phase' # 0)
  <2>1. call.pc \in {"sending", "reply"} => call'.asleep = (call.asleep /\ phase' # 0)
    OBVIOUS
  <2> QED BY <1>2, <2>1, Zenon
<1>4. call.pc = "sending" /\ busstate # "TX" =>
        idlecnt' <= IF call'.asleep THEN phase' ELSE OsTick
  <2>1. call.pc = "sending" /\ busstate # "TX" => idlecnt <= phase
    BY <1>2 DEF ClockOK, Mine
  <2> QED BY <1>1, <1>3, <2>1
<1>5. call.pc = "reply" =>
        /\ call'.t = call.t + 1 /\ call.t <= IF txcollision THEN 5 + phase ELSE 5
        /\ idlecnt' + Struck' <= call'.t + 2
  <2>1. call.pc = "reply" => /\ call.t <= IF txcollision THEN 5 + phase ELSE 5
                             /\ idlecnt + Struck <= call.t + 2
    BY <1>2 DEF ClockOK
  <2>2. Struck' = Struck
    BY DEF Struck
  <2>3. call.pc = "reply" => call'.t = call.t + 1
    BY <2>1 DEF RxExtended
  <2> QED BY <2>1, <2>2, <2>3
<1>6. call.pc = "reply" /\ ~txcollision /\ OsTick = 2 =>
        /\ phase' = 0 <=> call'.t \in {0, 2, 4, 6}
        /\ call'.asleep => call'.t <= 5
  BY <1>1, <1>3, <1>5 DEF ClockOK
<1>7. OsTick = 1 => phase' = 0
  BY <1>1
<1>8. call.pc = "reply" /\ txcollision =>
        call'.t <= 7 /\ (call'.asleep => call'.t <= 5 + phase')
  BY <1>1, <1>3, <1>5
<1>9. UNCHANGED <<busstate, txcollision>>
  OBVIOUS
<1> QED BY <1>2, <1>3, <1>4, <1>5, <1>6, <1>7, <1>8, <1>9 DEF ClockOK, Mine

\* Replies.
LEMMA ReplyIsr ==
  ASSUME TInv, BusOK, SentInv, ClockOK, ReplyInv, Isr
  PROVE  ReplyInv'
<1>1. UNCHANGED <<call, frames, result>> /\ Mine' = Mine
  BY DEF Isr, RxComplete, Collide, CollisionEnd, TxEnd, Mine
<1>2. CASE RxComplete
  <2> USE <1>2 DEF RxComplete
  <2>1. call.pc \notin {"start", "decode"} /\ Struck' = Struck
    BY Fields DEF BusOK, Struck
  <2>2. Mine /\ busstate # "TX" => UNCHANGED owed
    BY DEF ReplyInv
  <2>3. call.pc = "reply" => /\ busstate' # "TX"
                             /\ owed'.due => owed'.of = frames
                                             \/ call.t >= 4 + owed'.age + Struck
    BY Fields DEF ReplyInv, MayOwe, NoReplyOwed
  <2>4. /\ busstate' # "TX" => busstate # "TX"
        /\ busstate' \in {"TX", "COLLISION_TX"} =>
             UNCHANGED <<busstate, rxstate, txcollision>>
    OBVIOUS
  <2>5. (Mine \/ call.pc = "reply") /\ rxstate' = "COMPLETED"
           /\ rxdata'.kind = "backward" => rxdata'.of = frames
    <3>1. CASE busstate = "RX" /\ line.whole
      <4>1. rxdata' = [kind |-> line.kind, of |-> line.of] /\ line.left = 0
        BY <3>1
      <4>2. call.pc = "reply" => call.t < 7 + Struck
        BY Fields DEF ClockOK, Struck
      <4> QED BY <3>1, <4>1, <4>2, Fields DEF ReplyInv
    <3>2. CASE busstate = "RX" /\ ~line.whole
      BY <3>2 DEF Garbled
    <3>3. CASE busstate # "RX"
      BY <3>3 DEF ReplyInv
    <3> QED BY <3>1, <3>2, <3>3
  <2>6. line'.kind = "none"
    BY DEF Quiet
  <2> QED BY <1>1, <2>1, <2>2, <2>3, <2>4, <2>5, <2>6 DEF ReplyInv, ReplyIsOwn
<1>3. CASE Collide
  <2> USE <1>3 DEF Collide
  <2>1. call.pc # "reply" /\ ~owed.due /\ UNCHANGED <<rxstate, rxdata, owed>>
    BY DEF ReplyInv, BusOK, rxVars
  <2>2. ~line'.whole /\ busstate' = "COLLISION_TX" /\ txcollision'
    BY DEF TInv, LineOK
  <2> QED BY <1>1, <2>1, <2>2 DEF ReplyInv, ReplyIsOwn
<1>4. CASE CollisionEnd
  <2> USE <1>4 DEF CollisionEnd, SetBusstateIdle
  <2>1. /\ call.pc \notin {"start", "decode"} /\ Struck' = Struck
        /\ busstate' \in {"IDLE", "RX"} /\ UNCHANGED owed
    BY DEF BusOK, Struck
  <2>2. Mine \/ call.pc = "reply" => rxstate' # "COMPLETED"
    BY DEF ReplyInv
  <2>3. line'.kind = line.kind /\ (line.kind # "none" => ~line'.whole)
    BY DEF TInv, LineOK
  <2> QED BY <1>1, <2>1, <2>2, <2>3, Fields DEF ReplyInv, ReplyIsOwn
<1>5. CASE TxEnd
  <2> USE <1>5 DEF TxEnd, SetBusstateIdle
  <2>1. call.pc \notin {"start", "decode", "reply"}
    BY DEF BusOK, ReplyInv
  <2>2. Mine => /\ busstate' \in {"IDLE", "RX"} /\ rxstate' # "COMPLETED"
                /\ owed'.due => owed'.of = frames
    <3>1. Mine => rxstate # "COMPLETED" /\ tx.of = frames
      BY DEF ReplyInv, SentInv, Mine
    <3>2. ~owed.due
      BY Fields DEF BusOK
    <3> QED BY <3>1, <3>2 DEF MayOwe, NoReplyOwed
  <2>3. line'.kind = line.kind /\ (line.kind # "none" => ~line'.whole)
    BY DEF TInv, LineOK
  <2> QED BY <1>1, <2>1, <2>2, <2>3 DEF ReplyInv, ReplyIsOwn
<1> QED BY <1>2, <1>3, <1>4, <1>5 DEF Isr

LEMMA SeizedBus ==
  ASSUME NEW kind, NEW of, NEW ticks, Seize(kind, of, ticks)
  PROVE  \/ UNCHANGED <<busstate, rxstate, rxdata>>
         \/ /\ busstate = "IDLE" /\ busstate' = "RX" /\ rxstate' = "RECEIVING"
            /\ rxdata' = Garbled
<1>1. CASE busstate = "IDLE"
  BY <1>1 DEF Seize
<1>2. CASE busstate # "IDLE"
  BY <1>2 DEF Seize
<1> QED BY <1>1, <1>2

LEMMA ReplyStations ==
  ASSUME TInv, BusOK, ClockOK, ReplyInv, ForeignStart \/ ReplyStart
  PROVE  ReplyInv'
<1>1. /\ UNCHANGED <<call, frames, result, txcollision>>
      /\ Mine' = Mine /\ Struck' = Struck
  BY DEF ForeignStart, ReplyStart, Mine, Struck
<1>2. /\ \/ UNCHANGED <<busstate, rxstate, rxdata>>
         \/ /\ busstate = "IDLE" /\ busstate' = "RX" /\ rxstate' = "RECEIVING"
            /\ rxdata'.kind = "garbled"
      /\ ~owed'.due
  BY SeizedBus DEF ForeignStart, ReplyStart, NoReplyOwed, Garbled
<1>3. CASE ForeignStart
  <2>1. line'.kind = "forward" /\ line'.left = 3
    BY <1>3 DEF ForeignStart, Seize
  <2>2. Mine => busstate = "TX"
    BY <1>3, Fields, Bounds DEF ClockOK, Mine, ForeignStart
  <2>3. call.pc = "reply" => call.t >= 1 + Struck
    BY <1>3, Fields, Bounds DEF ClockOK, ReplyInv, ForeignStart
  <2> QED BY <1>1, <1>2, <2>1, <2>2, <2>3, Fields DEF ReplyInv, ReplyIsOwn
<1>4. CASE ReplyStart
  <2>1. line'.kind = "backward" /\ line'.left = 2 /\ line'.of = owed.of
        /\ owed.due /\ owed.age >= 1
    BY <1>4 DEF ReplyStart, Seize
  <2>2. Mine /\ busstate # "TX" => owed.of = frames
    BY <2>1 DEF ReplyInv
  <2>3. call.pc = "reply" => owed.of = frames \/ call.t >= 5 + Struck
    BY <2>1, Fields DEF ReplyInv
  <2> QED BY <1>1, <1>2, <2>1, <2>2, <2>3, Fields DEF ReplyInv, ReplyIsOwn
<1> QED BY <1>3, <1>4

LEMMA ReplyCaller == ASSUME TInv, BusOK, SentInv, ReplyInv, Caller PROVE ReplyInv'
<1>1. CASE Starts \/ Retries \/ Ends
  BY <1>1 DEF ReplyInv, ReplyIsOwn, Mine, Starts, Retries, Ends
<1>2. CASE Looks
  BY <1>2 DEF ReplyInv, ReplyIsOwn, Mine, Looks, OthersSame, rest
<1>3. CASE Returns
  <2>1. result'.kind = "reply" => result'.of = result'.frame
    BY <1>3 DEF Returns, ReplyInv
  <2> QED BY <1>3, <2>1 DEF ReplyInv, ReplyIsOwn, Mine, Returns
<1>4. CASE Pauses
  BY <1>4 DEF ReplyInv, ReplyIsOwn, Mine, Struck, Pauses, OthersSame, rest
<1>5. CASE Clears \/ Transmits
  BY <1>5 DEF ReplyInv, ReplyIsOwn, Mine, Clears, Transmits
<1>6. CASE Awaits
  BY <1>6 DEF ReplyInv, ReplyIsOwn, Mine, Awaits, OthersSame, rest
<1>7. CASE Reads
  BY <1>7 DEF ReplyInv, ReplyIsOwn, Mine, Reads, rest
<1> QED BY <1>1, <1>2, <1>3, <1>4, <1>5, <1>6, <1>7, CallerStep

LEMMA ReplySniffer == ASSUME TInv, ReplyInv, Sniffer PROVE ReplyInv'
<1>1. CASE SnifferWake \/ SnifferDecode
  BY <1>1 DEF ReplyInv, ReplyIsOwn, Mine, Struck, SnifferWake, SnifferDecode, rxVars
<1>2. CASE SnifferRx
  <2>1. call.pc = "idle"
    BY <1>2, Fields DEF SnifferRx
  <2> QED BY <1>2, <2>1 DEF ReplyInv, ReplyIsOwn, Mine, SnifferRx
<1> QED BY <1>1, <1>2 DEF Sniffer

LEMMA ReplyTick == ASSUME TInv, ClockOK, ReplyInv, Tick PROVE ReplyInv'
<1> USE TickStep, Fields DEF Ticks
<1>1. call.pc \notin {"start", "decode"} /\ Mine' = Mine /\ Struck' = Struck
  BY DEF Due, Mine, Struck
<1>2. call.pc = "reply" => call'.t = call.t + 1
  BY Bounds DEF ClockOK, Due, Waiting, RxExtended
<1>3. call.pc = "reply" =>
        /\ line.kind # "none" => call'.t + line'.left = call.t + line.left
        /\ owed.due => call'.t - owed'.age = call.t - owed.age
  BY <1>2
<1> QED BY <1>1, <1>2, <1>3 DEF ReplyInv, ReplyIsOwn

\* Answers.
LEMMA AnswerIsr == ASSUME TInv, SentInv, AnswerInv, Isr PROVE AnswerInv'
<1>1. CASE RxComplete
  <2> USE <1>1 DEF RxComplete
  <2>1. owed'.due => UNCHANGED owed \/ owed'.of < 0
    <3>1. line.kind = "forward" => line.of < 0
      BY Fields DEF TInv, LineOK
    <3> QED BY <3>1 DEF MayOwe, NoReplyOwed
  <2>2. rxdata'.kind = "backward" =>
          UNCHANGED rxdata \/ (line.kind = "backward" /\ rxdata'.of = line.of)
    BY DEF Garbled
  <2>3. /\ line'.kind # "backward" /\ UNCHANGED <<call, result, frames, sent>>
        /\ Mine' = Mine /\ (busstate' = "TX" => busstate = "TX")
    BY DEF Quiet, Mine
  <2>4. owed'.of < 0 => ~(owed'.of > 0)
    <3>1. TInv'
      BY TypeIsr
    <3> QED BY <3>1, Bounds DEF TInv, OwedOK
  <2> QED BY <2>1, <2>2, <2>3, <2>4 DEF AnswerInv
<1>2. CASE Collide
  <2>1. line'.kind = line.kind /\ line'.of = line.of
    BY <1>2 DEF TInv, LineOK, Collide
  <2> QED BY <1>2, <2>1 DEF AnswerInv, Collide, rxVars
<1>3. CASE CollisionEnd \/ TxEnd
  <2>1. line'.kind = line.kind /\ line'.of = line.of
    BY <1>3 DEF TInv, LineOK, CollisionEnd, TxEnd, SetBusstateIdle
  <2>2. rxdata'.kind = "backward" => UNCHANGED rxdata
    BY <1>3 DEF CollisionEnd, TxEnd, SetBusstateIdle, Garbled
  <2>3. \A f : sent[f] = 1 => sent'[f] = 1
    <3>1. CASE TxEnd /\ tx.whole
      <4>1. tx.of \in DOMAIN sent /\ sent[tx.of] = 0
        BY <3>1, Bounds DEF TInv, NumOK, CountsOK, SentInv, TxEnd, Frame
      <4>2. sent' = [sent EXCEPT ![tx.of] = 1]
        BY <3>1, <4>1 DEF TxEnd
      <4> QED BY <4>1, <4>2
    <3>2. CASE UNCHANGED sent
      BY <3>2
    <3> QED BY <1>3, <3>1, <3>2 DEF CollisionEnd, TxEnd
  <2>4. owed'.due => UNCHANGED owed \/ sent'[owed'.of] = 1
    <3>1. CASE TxEnd /\ tx.whole
      <4>1. tx.of \in DOMAIN sent /\ sent[tx.of] = 0
        BY <3>1, Bounds DEF TInv, NumOK, CountsOK, SentInv, TxEnd, Frame
      <4>2. sent'[tx.of] = 1
        BY <3>1, <4>1 DEF TxEnd
      <4> QED BY <3>1, <4>2 DEF TxEnd, MayOwe, NoReplyOwed
    <3>2. CASE UNCHANGED owed
      BY <3>2
    <3> QED BY <1>3, <3>1, <3>2 DEF CollisionEnd, TxEnd
  <2>5. UNCHANGED <<call, result, frames>> /\ busstate' # "TX"
    BY <1>3 DEF CollisionEnd, TxEnd, SetBusstateIdle
  <2> QED BY <2>1, <2>2, <2>3, <2>4, <2>5 DEF AnswerInv
<1> QED BY <1>1, <1>2, <1>3 DEF Isr

LEMMA AnswerStations ==
  ASSUME AnswerInv, ForeignStart \/ ReplyStart
  PROVE  AnswerInv'
<1>1. rxdata'.kind = "backward" => UNCHANGED rxdata
  BY SeizedBus DEF ForeignStart, ReplyStart, Garbled
<1>2. /\ ~owed'.due /\ UNCHANGED <<call, result, frames, sent>>
      /\ line'.kind = "backward" => owed.due /\ line'.of = owed.of
      /\ Mine' = Mine /\ (busstate' = "TX" => busstate = "TX")
  BY DEF ForeignStart, ReplyStart, Seize, NoReplyOwed, Mine
<1> QED BY <1>1, <1>2 DEF AnswerInv

LEMMA AnswerCaller ==
  ASSUME TInv, BusOK, SentInv, ReplyInv, AnswerInv, Caller
  PROVE  AnswerInv'
<1>1. CASE Starts \/ Ends
  BY <1>1, Fields DEF AnswerInv, Mine, Starts, Ends, OthersSame, rest
<1>2. CASE Returns
  <2>1. busstate = "TX" => result'.kind = "timeout"
    BY <1>2 DEF Returns, ReplyInv, BusOK
  <2> QED BY <1>2, <2>1, Fields DEF AnswerInv, Returns, OthersSame, rest
<1>3. CASE Pauses \/ Looks
  BY <1>3 DEF AnswerInv, Mine, Pauses, Looks, OthersSame, rest
<1>4. CASE Retries \/ Awaits
  BY <1>4 DEF AnswerInv, SentInv, Retries, Awaits, OthersSame, rest
<1>5. CASE Clears \/ Reads
  BY <1>5 DEF AnswerInv, BusOK, ReplyInv, Clears, Reads, rest
<1>6. CASE Transmits
  BY <1>6 DEF AnswerInv, Mine, Transmits
<1> QED BY <1>1, <1>2, <1>3, <1>4, <1>5, <1>6, CallerStep

LEMMA AnswerSniffer == ASSUME AnswerInv, Sniffer PROVE AnswerInv'
BY DEF AnswerInv, Mine, Sniffer, SnifferWake, SnifferRx, SnifferDecode, rxVars

LEMMA AnswerTick == ASSUME TInv, AnswerInv, Tick PROVE AnswerInv'
BY TickStep DEF AnswerInv, Mine, Ticks

-------------------------------------------------------------------------------

LEMMA InvInit == DriverInit => DriverInv
<1> SUFFICES ASSUME DriverInit PROVE DriverInv
  OBVIOUS
<1> USE DEF DriverInit, Idle, Quiet, NoReplyOwed, Nothing
<1>1. BusOK
  BY DEF BusOK
<1>2. SentInv
  BY Bounds DEF SentInv, SentOnce
<1>3. HeardInv
  BY DEF HeardInv, HeardWhenFree
<1>4. ClockOK /\ ReplyInv /\ AnswerInv
  BY DEF ClockOK, ReplyInv, ReplyIsOwn, Mine, AnswerInv
<1> QED BY TypeInit, <1>1, <1>2, <1>3, <1>4 DEF DriverInv

LEMMA InvNext == DriverInv /\ [DriverNext]_driverVars => DriverInv'
<1> SUFFICES ASSUME DriverInv, [DriverNext]_driverVars PROVE DriverInv'
  OBVIOUS
<1> USE DEF DriverInv
<1>1. TInv'
  BY TypeNext
<1>2. CASE Isr
  BY <1>1, <1>2, BusIsr, SentIsr, HeardIsr, ClockIsr, ReplyIsr,
         AnswerIsr
<1>3. CASE ForeignStart \/ ReplyStart
  BY <1>1, <1>3, BusStations, SentStations, HeardStations, ClockStations, ReplyStations,
         AnswerStations
<1>4. CASE Caller
  BY <1>1, <1>4, BusCaller, SentCaller, HeardCaller, ClockCaller, ReplyCaller,
         AnswerCaller
<1>5. CASE Sniffer
  BY <1>1, <1>5, BusSniffer, SentSniffer, HeardSniffer, ClockSniffer, ReplySniffer,
         AnswerSniffer
<1>6. CASE Tick
  BY <1>1, <1>6, BusTick, SentTick, HeardTick, ClockTick, ReplyTick,
         AnswerTick
<1>7. CASE UNCHANGED driverVars
  BY <1>1, <1>7 DEF driverVars, rxVars, BusOK, SentInv, SentOnce, HeardInv, HeardWhenFree,
                    ClockOK, ReplyInv, ReplyIsOwn, Mine, Struck, AnswerInv
<1> QED BY <1>2, <1>3, <1>4, <1>5, <1>6, <1>7 DEF DriverNext

LEMMA DriverInvariant == DriverSpec => []DriverInv
BY InvInit, InvNext, PTL DEF DriverSpec

\* The fields of the driver, of its callers and of the bus stay well typed, for
\* any number of frames and whatever the timeouts.
THEOREM DriverTypeCorrect == DriverSpec => []DriverTypeOK
<1>1. DriverInv => DriverTypeOK
  BY DriverTypeParts DEF DriverInv
<1> QED BY <1>1, DriverInvariant, PTL

\* tx_wait_rx returns the answer to the caller's own query: foreign frames, late
\* replies and answers to other masters are told apart by the waits alone.
THEOREM ReplyBelongsToFrame == DriverSpec => []ReplyIsOwn
<1>1. DriverInv => ReplyIsOwn
  BY DEF DriverInv, ReplyInv
<1> QED BY <1>1, DriverInvariant, PTL

\* The retries of tx_wait after a collision repeat no frame that got out.
THEOREM FrameSentOnce == DriverSpec => []SentOnce
<1>1. DriverInv => SentOnce
  BY DEF DriverInv, SentInv
<1> QED BY <1>1, DriverInvariant, PTL

\* A frame of another master stays in rxdata until the sniffer has read it,
\* unless a call takes the bus.
THEOREM ForeignFramesHeard == DriverSpec => []HeardWhenFree
<1>1. DriverInv => HeardWhenFree
  BY DEF DriverInv, HeardInv
<1> QED BY <1>1, DriverInvariant, PTL

\* Each step of the driver is a step of BusCalls or leaves its variables alone.
LEMMA StepCalls ==
  ASSUME DriverInv, DriverInv', [DriverNext]_driverVars
  PROVE  [Calls!Next]_(Calls!vars)
<1> USE DEF Calls!vars
<1>1. CASE UNCHANGED <<mutex, frames, sent, result>>
  BY <1>1
<1>2. CASE TxEnd /\ tx.whole
  <2>1. tx.of \in Frame /\ tx.of <= frames /\ sent[tx.of] = 0
    BY <1>2, Bounds DEF DriverInv, TInv, NumOK, SentInv, TxEnd, Frame
  <2>2. sent' = [sent EXCEPT ![tx.of] = 1]
    BY <1>2, <2>1 DEF TxEnd, DriverInv, TInv, CountsOK
  <2>3. result.frame < tx.of \/ result.kind = "timeout"
    BY <1>2 DEF TxEnd, DriverInv, SentInv, AnswerInv, Mine
  <2> QED BY <1>2, <2>1, <2>2, <2>3 DEF TxEnd, Calls!Next, Calls!GoOut
<1>3. CASE Isr /\ ~(TxEnd /\ tx.whole)
  BY <1>1, <1>3 DEF Isr, RxComplete, Collide, CollisionEnd, TxEnd
<1>4. CASE ForeignStart \/ ReplyStart
  BY <1>1, <1>4 DEF ForeignStart, ReplyStart
<1>5. CASE Sniffer
  BY <1>5 DEF Sniffer, SnifferWake, SnifferRx, SnifferDecode, DriverInv, TInv, MutexOK
<1>6. CASE Caller
  <2>1. /\ mutex = "call" <=> call.pc # "idle"
        /\ mutex' = "call" <=> call'.pc # "idle"
    BY DEF DriverInv, TInv, MutexOK
  <2>2. CASE Starts
    BY <2>1, <2>2 DEF Starts, rest, Calls!Next, Calls!Begin
  <2>3. CASE Returns
    <3>1. result'.kind = "reply" => result'.of = frames /\ sent[frames] = 1
      <4>1. call.pc = "decode" => frames >= 1
        BY DEF DriverInv, TInv, CallOK
      <4> QED BY <2>3, <4>1, Fields DEF Returns, DriverInv, ReplyInv, AnswerInv
    <3>2. mutex = "call" /\ result.frame < frames /\ sent' = sent
      BY <2>1, <2>3 DEF Returns, DriverInv, AnswerInv, OthersSame, rest, Waiting
    <3> QED BY <2>1, <2>3, <3>1, <3>2 DEF Returns, Calls!Next, Calls!Answer
  <2>4. CASE Ends
    BY <2>1, <2>4 DEF Ends, OthersSame, rest, DriverInv, AnswerInv, Calls!Next, Calls!End
  <2>5. CASE Pauses \/ Looks \/ Retries \/ Awaits \/ Clears \/ Transmits \/ Reads
    BY <1>1, <2>5 DEF Pauses, Looks, Retries, Awaits, Clears, Transmits, Reads, OthersSame,
                      rest
  <2> QED BY <1>6, <2>2, <2>3, <2>4, <2>5, CallerStep DEF DriverInv
<1>7. CASE Tick
  BY <1>1, <1>7 DEF Tick
<1>8. CASE UNCHANGED driverVars
  BY <1>1, <1>8 DEF driverVars
<1> QED BY <1>2, <1>3, <1>4, <1>5, <1>6, <1>7, <1>8 DEF DriverNext

\* The driver keeps the promise of BusCalls: one call at a time, each frame out
\* at most once and answered for once, a reply only to a frame that was out, and
\* none out after it has been answered for, except with a timeout.
THEOREM ImplementsBusCalls == DriverSpec => RefinesBusCalls
<1>1. DriverInit => Calls!Init
  BY DEF DriverInit, Calls!Init
<1> QED BY <1>1, DriverInvariant, StepCalls, PTL
        DEF DriverSpec, RefinesBusCalls, Calls!Spec

===============================================================================
