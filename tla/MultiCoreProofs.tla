-------------------------- MODULE MultiCoreProofs --------------------------
(***************************************************************************)
(* The safety of the key search for every number of cores, every range and  *)
(* every set of good keys.                                                  *)
(***************************************************************************)
EXTENDS MultiCore, WellFoundedInduction, TLAPS

(* ------------------------- the inductive invariant ---------------------- *)

(* What a core has established about the keys of its range. *)
Rejected(c, limit) == \A k \in KeyStart(c) .. limit - 1 : k \notin good
RangeRejected(c) == \A k \in Range(c) : k \notin good

CoreInv(c) ==
  /\ core[c].found => core[c].key \in good
  /\ core[c].phase = "IDLE" => ~core[c].found /\ core[c].trial = "none"
  /\ core[c].phase = "SEARCH" =>
       /\ core[c].key \in Range(c) /\ Rejected(c, core[c].key)
       /\ core[c].found \/ core[c].trial \in {"prepare", "decrypt"}
  /\ core[c].phase = "DONE" /\ ~stop_flag =>
       core[c].found \/ RangeRejected(c)

ControlInv ==
  /\ stop_flag <=> key_found_flag # 0
  /\ stop_flag /\ ~reset =>
       /\ key_found_flag \in FoundBy /\ LED \subseteq FoundBy
       /\ secret_key = core[key_found_flag].key
  /\ key_found_flag # 0 => secret_key \in good
  /\ reset => /\ \A c \in Core : core[c].phase = "IDLE" /\ ~core[c].found
              /\ edges => ~stop_flag

IInv == TypeOK /\ (\A c \in Core : CoreInv(c)) /\ ControlInv

(* ------------------------------- arithmetic ----------------------------- *)

(* The least element the priority chain picks exists and is one of the set. *)
LEMMA LeastExists ==
  ASSUME NEW S \in SUBSET Nat, S # {}
  PROVE  Least(S) \in S /\ \A d \in S : Least(S) <= d
<1>1. PICK c \in S : \A d \in S : <<d, c>> \notin OpToRel(<, Nat)
  BY WFMin, NatLessThanWellFounded, Zenon
<1>2. \A d \in S : <<d, c>> \in Nat \X Nat /\ <<d, c>>[1] = d /\ <<d, c>>[2] = c
  OBVIOUS
<1>3. \A d \in S : ~(d < c)
  BY <1>1, <1>2 DEF OpToRel
<1>4. \A d \in S : c <= d
  BY <1>3
<1> QED BY <1>4 DEF Least

(* Keys are natural numbers. *)
LEMMA LastKeyNat == LastKey \in Nat
BY MultiCoreAssumption DEF LastKey

(* The first key of a core is a key of the search. *)
LEMMA KeyStartType ==
  ASSUME NEW c \in Core
  PROVE  KeyStart(c) \in 0 .. LastKey /\ KeyStart(c) \in Range(c)
<1> DEFINE K == KeyRange
           M == NumCores - c
<1>1. K \in Nat \ {0} /\ M \in Nat /\ c - 1 \in Nat
  BY MultiCoreAssumption DEF Core
<1>2. NumCores = (c - 1) + 1 + M
  BY MultiCoreAssumption DEF Core
<1>3. (c - 1) * K \in Nat /\ M * K \in Nat
  BY <1>1
<1>4. NumCores * K = (c - 1) * K + K + M * K
  BY <1>1, <1>2, MultiCoreAssumption DEF Core
<1>5. KeyStart(c) = (c - 1) * K /\ LastKey = NumCores * K - 1
  BY DEF KeyStart, LastKey
<1>6. KeyStart(c) \in Nat /\ KeyStart(c) <= LastKey
  BY <1>1, <1>3, <1>4, <1>5
<1> QED BY <1>1, <1>6, LastKeyNat DEF Range

(* Every key of the search is in the range of some core. *)
LEMMA RangesCover ==
  ASSUME NEW k \in 0 .. LastKey
  PROVE  \E c \in Core : k \in Range(c)
<1> DEFINE q == k \div KeyRange
<1>1. KeyRange \in Nat /\ KeyRange > 0 /\ NumCores \in Nat /\ k \in Nat
  BY MultiCoreAssumption, LastKeyNat
<1>2. q \in Nat /\ q * KeyRange <= k /\ k < (q + 1) * KeyRange
  BY <1>1
<1>3. k < NumCores * KeyRange
  BY <1>1 DEF LastKey
<1>4. q < NumCores
  <2>1. SUFFICES ASSUME NumCores <= q PROVE FALSE
    BY <1>1, <1>2
  <2>2. NumCores * KeyRange <= q * KeyRange
    BY <2>1, <1>1, <1>2
  <2> HIDE DEF q
  <2> QED BY <2>2, <1>1, <1>2, <1>3
<1>5. q + 1 \in Core /\ KeyStart(q + 1) = q * KeyRange
  BY <1>1, <1>2, <1>4 DEF Core, KeyStart
<1>6. (q + 1) * KeyRange = q * KeyRange + KeyRange
  BY <1>1, <1>2
<1>7. k \in KeyStart(q + 1) .. KeyStart(q + 1) + KeyRange
  <2> HIDE DEF q
  <2> QED BY <1>1, <1>2, <1>5, <1>6
<1> QED BY <1>5, <1>7, LastKeyNat DEF Range

(* ----------------------------- one core, one edge ----------------------- *)

(* What an edge makes of a core that satisfies the invariant. *)
Stepped(c, p) ==
  Search!After(core[c], KeyStart(c), core[c].key \in good, stop_flag, p)

Sound(c, n) ==
  /\ n \in Search!Cores(0 .. LastKey)
  /\ core[c].found => n.found /\ n.key = core[c].key
  /\ n.found => n.key \in good
  /\ n.phase # "IDLE"
  /\ n.phase = "SEARCH" =>
       /\ n.key \in Range(c) /\ Rejected(c, n.key)
       /\ n.found \/ n.trial \in {"prepare", "decrypt"}
  /\ n.phase = "DONE" => stop_flag \/ n.found \/ RangeRejected(c)

(* A failed trial either moves on to the next key of the range or ends it. *)
LEMMA NextTrialSound ==
  ASSUME TypeOK, NEW c \in Core, CoreInv(c),
         core[c].phase = "SEARCH", ~core[c].found, core[c].key \notin good
  PROVE  Sound(c, Search!NextTrial(core[c], KeyStart(c)))
<1> DEFINE k == core[c].key
           first == KeyStart(c)
           n == Search!NextTrial(core[c], first)
<1>1. core[c] \in Search!Cores(0 .. LastKey)
  BY DEF TypeOK
<1>2. /\ core[c].phase \in {"IDLE", "SEARCH", "DONE"} /\ k \in 0 .. LastKey
      /\ core[c].trial \in {"none", "prepare", "decrypt"}
      /\ core[c].found \in BOOLEAN
  BY <1>1 DEF Search!Cores
<1>3. k \in Range(c) /\ Rejected(c, k) /\ first \in 0 .. LastKey
  BY KeyStartType DEF CoreInv
<1>4. Rejected(c, k + 1)
  BY <1>2, <1>3, LastKeyNat DEF Rejected
<1>5. CASE Search!IsLast(k, first)
  <2>1. n = [phase |-> "DONE", key |-> k, trial |-> "none", found |-> core[c].found]
    BY <1>5 DEF Search!NextTrial, Search!Move
  <2>2. /\ n \in Search!Cores(0 .. LastKey)
        /\ n.phase = "DONE" /\ n.found = core[c].found
    BY <1>2, <2>1 DEF Search!Cores
  <2>3. \A m \in Range(c) : m \in first .. k
    BY <1>2, <1>3, <1>5, LastKeyNat, MultiCoreAssumption
       DEF Search!IsLast, Range
  <2>4. RangeRejected(c)
    BY <2>3, <1>2, <1>3, <1>4, LastKeyNat DEF RangeRejected, Rejected
  <2> QED BY <2>2, <2>4 DEF Sound
<1>6. CASE ~Search!IsLast(k, first)
  <2>1. n = [phase |-> "SEARCH", key |-> k + 1, trial |-> "prepare",
             found |-> core[c].found]
    BY <1>6 DEF Search!NextTrial, Search!Prepare
  <2>2. k + 1 \in Range(c) /\ k + 1 \in 0 .. LastKey
    BY <1>2, <1>3, <1>6, LastKeyNat, MultiCoreAssumption
       DEF Search!IsLast, Range
  <2>3. /\ n \in Search!Cores(0 .. LastKey)
        /\ n.phase = "SEARCH" /\ n.found = core[c].found
        /\ n.key = k + 1 /\ n.trial = "prepare"
    BY <1>2, <2>1, <2>2 DEF Search!Cores
  <2> QED BY <2>2, <2>3, <1>4 DEF Sound
<1> QED BY <1>5, <1>6

(* Every case of After is sound. *)
LEMMA SteppedSound ==
  ASSUME TypeOK, NEW c \in Core, CoreInv(c), NEW p \in BOOLEAN
  PROVE  Sound(c, Stepped(c, p))
<1> DEFINE r == core[c]
           n == Stepped(c, p)
           isGood == r.key \in good
<1>1. r \in Search!Cores(0 .. LastKey) /\ stop_flag \in BOOLEAN
  BY DEF TypeOK
<1>2. /\ r.phase \in {"IDLE", "SEARCH", "DONE"} /\ r.key \in 0 .. LastKey
      /\ r.trial \in {"none", "prepare", "decrypt"} /\ r.found \in BOOLEAN
  BY <1>1 DEF Search!Cores
<1>3. CASE stop_flag \/ r.phase = "DONE"
  <2>1. n = Search!Halt(r, isGood, p)
    BY <1>3 DEF Stepped, Search!After
  <2>2. \/ n = Search!Move(r, "DONE", "none")
        \/ n = Search!Move(r, "DONE", "decrypt")
        \/ isGood /\ n = [phase |-> "DONE", key |-> r.key,
                          trial |-> "none", found |-> TRUE]
    BY <2>1 DEF Search!Halt, Search!Verdict, Search!Move
  <2>3. /\ n \in Search!Cores(0 .. LastKey) /\ n.phase = "DONE" /\ n.key = r.key
        /\ (r.found => n.found) /\ (n.found => r.found \/ isGood)
    <3>1. CASE n = Search!Move(r, "DONE", "none")
      BY <1>2, <3>1 DEF Search!Move, Search!Cores
    <3>2. CASE n = Search!Move(r, "DONE", "decrypt")
      BY <1>2, <3>2 DEF Search!Move, Search!Cores
    <3>3. CASE isGood /\ n = [phase |-> "DONE", key |-> r.key,
                              trial |-> "none", found |-> TRUE]
      BY <1>2, <3>3 DEF Search!Cores
    <3> QED BY <2>2, <3>1, <3>2, <3>3
  <2> QED BY <2>3, <1>3 DEF Sound, CoreInv
<1>4. CASE ~stop_flag /\ r.phase = "IDLE"
  <2>1. n = Search!Prepare(r, KeyStart(c))
    BY <1>4 DEF Stepped, Search!After
  <2>2. /\ n \in Search!Cores(0 .. LastKey)
        /\ n.phase = "SEARCH" /\ n.key = KeyStart(c)
        /\ n.trial = "prepare" /\ n.found = r.found
    BY <1>2, <2>1, KeyStartType DEF Search!Cores, Search!Prepare
  <2>3. Rejected(c, KeyStart(c))
    BY KeyStartType, LastKeyNat DEF Rejected
  <2> QED BY <2>2, <2>3, <1>4, KeyStartType DEF Sound, CoreInv
<1>5. CASE ~stop_flag /\ r.phase = "SEARCH" /\ r.found
  <2>1. n = Search!Move(r, "DONE", r.trial)
    BY <1>5 DEF Stepped, Search!After
  <2>2. /\ n \in Search!Cores(0 .. LastKey)
        /\ n.phase = "DONE" /\ n.key = r.key /\ n.found = r.found
    BY <1>2, <2>1 DEF Search!Cores, Search!Move
  <2> QED BY <2>2, <1>5 DEF Sound, CoreInv
<1>6. CASE ~stop_flag /\ r.phase = "SEARCH" /\ ~r.found
  <2>1. \/ n = r
        \/ n = Search!Move(r, "SEARCH", "decrypt")
        \/ isGood /\ n = [phase |-> r.phase, key |-> r.key,
                          trial |-> "none", found |-> TRUE]
        \/ ~isGood /\ n = Search!NextTrial(r, KeyStart(c))
    BY <1>6 DEF Stepped, Search!After, Search!Verdict
  <2>2. CASE n = r
    BY <2>2, <1>1, <1>6 DEF Sound, CoreInv
  <2>3. CASE n = Search!Move(r, "SEARCH", "decrypt")
    <3>1. /\ n \in Search!Cores(0 .. LastKey)
          /\ n.phase = "SEARCH" /\ n.key = r.key
          /\ n.trial = "decrypt" /\ n.found = r.found
      BY <1>2, <2>3 DEF Search!Cores, Search!Move
    <3> QED BY <3>1, <1>6 DEF Sound, CoreInv
  <2>4. CASE isGood /\ n = [phase |-> r.phase, key |-> r.key,
                            trial |-> "none", found |-> TRUE]
    <3>1. /\ n \in Search!Cores(0 .. LastKey)
          /\ n.phase = "SEARCH" /\ n.key = r.key /\ n.found = TRUE
      BY <1>2, <1>6, <2>4 DEF Search!Cores
    <3> QED BY <3>1, <1>6, <2>4 DEF Sound, CoreInv
  <2>5. CASE ~isGood /\ n = Search!NextTrial(r, KeyStart(c))
    BY <2>5, <1>6, NextTrialSound
  <2> QED BY <2>1, <2>2, <2>3, <2>4, <2>5
<1> QED BY <1>1, <1>2, <1>3, <1>4, <1>5, <1>6

(* ------------------------------- the steps ------------------------------ *)

(* The configured FPGA satisfies the invariant. *)
LEMMA InitInv == Init => IInv
<1> SUFFICES ASSUME Init PROVE IInv
  OBVIOUS
<1>1. \A c \in Core :
        /\ core[c] = Search!Fresh(0)
        /\ core[c].phase = "IDLE" /\ core[c].trial = "none"
        /\ core[c].found = FALSE /\ core[c].key = 0
  BY DEF Init, Search!Fresh
<1>2. TypeOK
  <2>1. 0 \in 0 .. LastKey /\ 0 \in 0 .. NumCores
    BY LastKeyNat, MultiCoreAssumption
  <2>2. Search!Fresh(0) \in Search!Cores(0 .. LastKey)
    BY <2>1 DEF Search!Fresh, Search!Cores
  <2>3. core \in [Core -> Search!Cores(0 .. LastKey)]
    BY <2>2 DEF Init
  <2> QED BY <2>1, <2>3 DEF Init, TypeOK
<1>3. \A c \in Core : CoreInv(c)
  BY <1>1 DEF CoreInv
<1>4. ControlInv
  BY DEF Init, ControlInv
<1> QED BY <1>2, <1>3, <1>4 DEF IInv

(* What the controller shows after an edge. *)
LEMMA ControllerStep ==
  ASSUME IInv, Controller
  PROVE  /\ stop_flag' \in BOOLEAN
         /\ key_found_flag' \in 0 .. NumCores /\ secret_key' \in 0 .. LastKey
         /\ stop_flag' <=> key_found_flag' # 0
         /\ stop_flag' <=> FoundBy # {}
         /\ stop_flag' => /\ key_found_flag' \in FoundBy
                          /\ secret_key' = core[key_found_flag'].key
         /\ key_found_flag' # 0 => secret_key' \in good
<1>1. \A c \in Core : core[c].key \in 0 .. LastKey
  BY DEF IInv, TypeOK, Search!Cores
<1>2. FoundBy \in SUBSET Nat /\ FoundBy \subseteq Core /\ Core \subseteq 1 .. NumCores
  BY MultiCoreAssumption DEF FoundBy, Core
<1>3. CASE FoundBy = {}
  <2>1. 1 \in Core
    BY MultiCoreAssumption DEF Core
  <2>2. /\ key_found_flag' = 0 /\ secret_key' = core[1].key
        /\ stop_flag' = FALSE
    BY <1>3 DEF Controller
  <2>3. 0 \in 0 .. NumCores
    BY MultiCoreAssumption
  <2> QED BY <1>1, <1>3, <2>1, <2>2, <2>3
<1>4. CASE FoundBy # {}
  <2>1. Least(FoundBy) \in FoundBy
    BY <1>2, <1>4, LeastExists
  <2>2. core[Least(FoundBy)].key \in good /\ Least(FoundBy) \in Core
    BY <2>1 DEF FoundBy, IInv, CoreInv
  <2>3. Least(FoundBy) \in 1 .. NumCores
    BY <2>2 DEF Core
  <2>4. /\ key_found_flag' = Least(FoundBy)
        /\ secret_key' = core[Least(FoundBy)].key
        /\ stop_flag' = TRUE
    BY <1>4 DEF Controller
  <2>5. key_found_flag' \in 0 .. NumCores /\ key_found_flag' # 0
    BY <2>3, <2>4, MultiCoreAssumption
  <2> QED BY <1>1, <1>4, <2>1, <2>2, <2>4, <2>5
<1> QED BY <1>3, <1>4

(* What the LEDs show after an edge. *)
LEMMA LEDStep ==
  ASSUME IInv, ShowLEDs
  PROVE  /\ LED' \subseteq Core \cup {7}
         /\ ~reset => LED' \subseteq FoundBy
<1>1. stop_flag => key_found_flag \in Core
  BY MultiCoreAssumption DEF IInv, ControlInv, TypeOK, Core
<1> QED BY <1>1 DEF ShowLEDs, IInv, ControlInv, TypeOK

(* A rising edge keeps the invariant. *)
LEMMA ClockInv ==
  ASSUME IInv, NEW busy \in SUBSET Core, Clock(busy)
  PROVE  IInv'
<1> USE DEF Clock
<1>1. \A c \in Core : core'[c] = Stepped(c, c \in busy)
  BY DEF Advance, Stepped
<1>2. ASSUME NEW c \in Core PROVE Sound(c, core'[c])
  <2>1. (c \in busy) \in BOOLEAN /\ TypeOK /\ CoreInv(c)
    BY DEF IInv
  <2>2. Sound(c, Stepped(c, c \in busy))
    BY <2>1, SteppedSound
  <2> QED BY <1>1, <2>2
<1>3. core' \in [Core -> Search!Cores(0 .. LastKey)]
  <2>1. core' = [c \in Core |-> core'[c]]
    BY DEF Advance
  <2> QED BY <1>2, <2>1 DEF Sound
<1>4. FoundBy \subseteq FoundBy'
  BY <1>2 DEF Sound, FoundBy
<1>5. TypeOK'
  BY <1>3, ControllerStep, LEDStep DEF TypeOK, IInv
<1>6. ASSUME NEW c \in Core PROVE CoreInv(c)'
  <2>1. Sound(c, core'[c]) /\ good' = good
    BY <1>2
  <2>2. stop_flag => stop_flag'
    BY ControllerStep DEF IInv, ControlInv
  <2> QED BY <2>1, <2>2 DEF Sound, CoreInv, Rejected, RangeRejected
<1>7. ControlInv'
  <2>1. stop_flag' => /\ key_found_flag' \in FoundBy
                      /\ secret_key' = core[key_found_flag'].key
    BY ControllerStep
  <2>2. stop_flag' => secret_key' = core'[key_found_flag'].key
    BY <1>2, <2>1 DEF Sound, FoundBy
  <2> QED BY <1>4, <2>2, ControllerStep, LEDStep DEF ControlInv
<1> QED BY <1>5, <1>6, <1>7 DEF IInv

(* So does an edge while the reset button is held. *)
LEMMA ClockInResetInv ==
  ASSUME IInv, ClockInReset
  PROVE  IInv'
<1> USE DEF ClockInReset
<1>1. FoundBy = {} /\ \A c \in Core : core[c].phase = "IDLE" /\ ~core[c].found
  BY DEF IInv, ControlInv, FoundBy
<1>2. TypeOK'
  BY ControllerStep, LEDStep DEF TypeOK, IInv
<1>3. \A c \in Core : CoreInv(c)'
  BY <1>1 DEF IInv, CoreInv
<1>4. ControlInv'
  BY <1>1, ControllerStep DEF ControlInv
<1> QED BY <1>2, <1>3, <1>4 DEF IInv

(* So does pressing reset. *)
LEMMA PressInv ==
  ASSUME IInv, Press
  PROVE  IInv'
<1> USE DEF Press
<1>1. \A c \in Core :
        /\ core'[c] \in Search!Cores(0 .. LastKey)
        /\ core'[c].phase = "IDLE" /\ core'[c].trial = "none"
        /\ core'[c].found = FALSE
  BY KeyStartType DEF Search!Fresh, Search!Cores
<1>2. TypeOK'
  <2>1. core' = [c \in Core |-> core'[c]]
    OBVIOUS
  <2> QED BY <1>1, <2>1 DEF TypeOK, IInv
<1>3. \A c \in Core : CoreInv(c)'
  BY <1>1 DEF CoreInv
<1>4. ControlInv'
  BY <1>1 DEF ControlInv, IInv
<1> QED BY <1>2, <1>3, <1>4 DEF IInv

(* So does releasing it. *)
LEMMA ReleaseInv ==
  ASSUME IInv, Release
  PROVE  IInv'
<1> USE DEF Release
<1>1. TypeOK'
  BY DEF TypeOK, IInv
<1>2. \A c \in Core : CoreInv(c)'
  BY DEF IInv, CoreInv, Rejected, RangeRejected
<1>3. ControlInv'
  BY DEF IInv, ControlInv
<1> QED BY <1>1, <1>2, <1>3 DEF IInv

(* So does every step. *)
LEMMA NextInv == IInv /\ [Next]_vars => IInv'
<1> SUFFICES ASSUME IInv, [Next]_vars PROVE IInv'
  OBVIOUS
<1>1. CASE \E busy \in SUBSET Core : Clock(busy)
  BY <1>1, ClockInv
<1>2. CASE ClockInReset
  BY <1>2, ClockInResetInv
<1>3. CASE Press
  BY <1>3, PressInv
<1>4. CASE Release
  BY <1>4, ReleaseInv
<1>5. CASE UNCHANGED vars
  BY <1>5 DEF vars, IInv, TypeOK, CoreInv, ControlInv, FoundBy, Rejected,
     RangeRejected
<1> QED BY <1>1, <1>2, <1>3, <1>4, <1>5 DEF Next

(* The inductive invariant holds of every reachable state of the search.    *)
THEOREM Invariance == Spec => []IInv
BY InitInv, NextInv, PTL DEF Spec

(* ------------------------------ the theorems ---------------------------- *)

(* The variables keep their types: in particular no core ever leaves the    *)
(* keys of the search, whatever its range (datapath.sv 171-182).             *)
THEOREM TypeCorrect == Spec => []TypeOK
<1>1. IInv => TypeOK
  BY DEF IInv
<1> QED BY <1>1, Invariance, PTL

(* A reported key decrypts the message (multicore_controller.sv 70-95).      *)
THEOREM ReportedKeyCorrect == Spec => []ReportedKeyIsGood
<1>1. IInv => ReportedKeyIsGood
  BY DEF IInv, ControlInv, ReportedKeyIsGood
<1> QED BY <1>1, Invariance, PTL

(* No searching core has passed over a good key (datapath.sv 171-182).       *)
THEOREM NothingSkipped == Spec => []NoKeySkipped
<1>1. IInv => NoKeySkipped
  BY DEF IInv, CoreInv, Rejected, NoKeySkipped
<1> QED BY <1>1, Invariance, PTL

(* A search that ended by itself in every core has tried every key: the     *)
(* ranges of any number of cores, of any width, cover the search.            *)
THEOREM ExhaustionCorrect == Spec => []ExhaustedMeansNone
<1>1. ASSUME IInv, \A c \in Core : Halted(c), ~stop_flag, NEW k \in 0 .. LastKey
      PROVE  k \notin good
  <2>1. PICK c \in Core : k \in Range(c)
    BY RangesCover
  <2>2. RangeRejected(c)
    BY <1>1 DEF IInv, CoreInv, Halted
  <2> QED BY <2>1, <2>2 DEF RangeRejected
<1>2. IInv => ExhaustedMeansNone
  BY <1>1 DEF ExhaustedMeansNone
<1> QED BY <1>2, Invariance, PTL

(* Out of reset, stop_flag is up only while a core holds a found key, so no *)
(* stop of an earlier search reaches the cores (multicore_controller.sv 70). *)
THEOREM StopCorrect == Spec => []StopHasACause
<1>1. IInv => StopHasACause
  BY DEF IInv, ControlInv, StopHasACause
<1> QED BY <1>1, Invariance, PTL

(* While a result is shown, only LEDs of cores that found a key are lit     *)
(* (ksa.sv 82-96).                                                           *)
THEOREM LEDsCorrect == Spec => []LitCoreHasFound
<1>1. IInv => LitCoreHasFound
  BY DEF IInv, ControlInv, LitCoreHasFound
<1> QED BY <1>1, Invariance, PTL

(* A running report is only ever replaced by that of a core of lower number *)
(* (multicore_controller.sv 72-95).                                          *)
THEOREM ReportsMoveDown == Spec => ReportOnlyMovesDown
<1> DEFINE Down == stop_flag /\ ~reset /\ ~reset' =>
             /\ stop_flag'
             /\ key_found_flag' # key_found_flag => key_found_flag' < key_found_flag
             /\ key_found_flag' = key_found_flag => secret_key' = secret_key
<1>1. ASSUME IInv, [Next]_vars PROVE [Down]_vars
  <2> SUFFICES ASSUME stop_flag, ~reset, ~reset', ~(UNCHANGED vars)
               PROVE  /\ stop_flag'
                      /\ key_found_flag' # key_found_flag =>
                           key_found_flag' < key_found_flag
                      /\ key_found_flag' = key_found_flag =>
                           secret_key' = secret_key
    OBVIOUS
  <2>1. PICK busy \in SUBSET Core : Clock(busy)
    BY <1>1 DEF Next, ClockInReset, Press, Release
  <2>2. key_found_flag \in FoundBy /\ secret_key = core[key_found_flag].key
    BY <1>1 DEF IInv, ControlInv
  <2>3. FoundBy \in SUBSET Nat /\ FoundBy # {}
    BY <2>2, MultiCoreAssumption DEF FoundBy, Core
  <2>4. /\ stop_flag' = TRUE /\ key_found_flag' = Least(FoundBy)
        /\ secret_key' = core[Least(FoundBy)].key
    BY <2>1, <2>3 DEF Clock, Controller
  <2>5. Least(FoundBy) \in Nat /\ Least(FoundBy) <= key_found_flag
    BY <2>2, <2>3, LeastExists
  <2>6. key_found_flag \in Nat
    BY <2>2, <2>3
  <2> QED BY <2>2, <2>4, <2>5, <2>6
<1> QED BY <1>1, Invariance, PTL DEF Spec, ReportOnlyMovesDown
=============================================================================
