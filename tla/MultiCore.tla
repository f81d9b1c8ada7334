----------------------------- MODULE MultiCore -----------------------------
(***************************************************************************)
(* multicore_controller.sv with its four decryption cores and the LED and   *)
(* reset wiring of ksa.sv.  Each core is the abstract core of CoreSearch,   *)
(* which Datapath is checked to implement.  One Clock step is one rising    *)
(* edge: all cores, the controller and the LEDs move together, each from    *)
(* the values before the edge.                                              *)
(***************************************************************************)
EXTENDS Naturals, FiniteSets

CONSTANTS
  NumCores,    \* 4
  KeyRange,    \* 24'h100000, the distance between the cores' first keys
  KeySpace,    \* 2^24, the number of values of secret_key
  GoodSets     \* the sets of keys that may decrypt the message

LastKey == NumCores * KeyRange - 1    \* 0x3FFFFF
Keys == 0 .. KeySpace - 1

ASSUME MultiCoreAssumption ==
  /\ NumCores \in Nat \ {0} /\ KeyRange \in Nat \ {0} /\ KeySpace \in Nat
  /\ LastKey < KeySpace
  /\ GoodSets \subseteq SUBSET Keys

VARIABLES
  core,             \* the cores, as records of CoreSearch
  good,             \* the keys that decrypt the message in e_memory
  key_found_flag,   \* the one-hot flag: the core it names, or 0
  secret_key, stop_flag,
  LED,              \* the lit ones among LED[7:1]
  reset,            \* KEY[3] pressed
  edges             \* the reset has lasted a clock edge

vars == <<core, good, key_found_flag, secret_key, stop_flag, LED, reset, edges>>

Search == INSTANCE CoreSearch

Core == 1 .. NumCores

(* key_range_1 .. key_range_4 *)
KeyStart(c) == (c - 1) * KeyRange

(* Mutant: the last core that found a key wins. *)
Least_Greatest(S) == CHOOSE c \in S : \A d \in S : c >= d

Least(S) == CHOOSE c \in S : \A d \in S : c <= d

FoundBy == {c \in Core : core[c].found}

Init ==
  /\ core = [c \in Core |-> Search!Fresh(0)]
  /\ good \in GoodSets
  /\ key_found_flag = 0 /\ secret_key = 0 /\ stop_flag = FALSE
  /\ LED = {} /\ reset = FALSE /\ edges = FALSE

(* Mutant: every branch shows the key of core 1. *)
Controller_FirstKey ==
  /\ secret_key' = core[1].key
  /\ IF FoundBy = {}
       THEN key_found_flag' = 0 /\ stop_flag' = FALSE
       ELSE key_found_flag' = Least(FoundBy) /\ stop_flag' = TRUE

(* Mutant: stop_flag is not lowered. *)
Controller_StickyStop ==
  IF FoundBy = {}
    THEN key_found_flag' = 0 /\ secret_key' = core[1].key /\ UNCHANGED stop_flag
    ELSE /\ key_found_flag' = Least(FoundBy)
         /\ secret_key' = core[Least(FoundBy)].key
         /\ stop_flag' = TRUE

(* The if-else chain over key_found_1 .. key_found_4, which has no reset. *)
Controller ==
  IF FoundBy = {}
    THEN key_found_flag' = 0 /\ secret_key' = core[1].key /\ stop_flag' = FALSE
    ELSE /\ key_found_flag' = Least(FoundBy)
         /\ secret_key' = core[Least(FoundBy)].key
         /\ stop_flag' = TRUE

(* Mutant: the LEDs are not switched off. *)
ShowLEDs_NoClear ==
  LED' = IF ~stop_flag THEN LED
         ELSE LED \cup {IF key_found_flag = 0 THEN 7 ELSE key_found_flag}

(* multicore_done_flag is stop_flag; each branch sets one LED bit. *)
ShowLEDs ==
  LED' = IF ~stop_flag THEN {}
         ELSE LED \cup {IF key_found_flag = 0 THEN 7 ELSE key_found_flag}

(* An edge at which the engines of the cores in busy finish their work. *)
Advance(busy) ==
  core' = [c \in Core |->
             Search!After(core[c], KeyStart(c), core[c].key \in good,
                          stop_flag, c \in busy)]

Clock(busy) ==
  /\ ~reset /\ Advance(busy) /\ Controller /\ ShowLEDs
  /\ UNCHANGED <<good, reset, edges>>

(* While the reset is held the cores stay as it left them. *)
ClockInReset ==
  /\ reset /\ edges' = TRUE /\ Controller /\ ShowLEDs
  /\ UNCHANGED <<core, good, reset>>

Press ==
  /\ ~reset /\ reset' = TRUE /\ edges' = FALSE
  /\ core' = [c \in Core |-> Search!Fresh(KeyStart(c))]
  /\ UNCHANGED <<good, key_found_flag, secret_key, stop_flag, LED>>

(* A finger is slower than the 50 MHz clock. *)
Release ==
  /\ reset /\ edges /\ reset' = FALSE
  /\ UNCHANGED <<core, good, key_found_flag, secret_key, stop_flag, LED, edges>>

Next == (\E busy \in SUBSET Core : Clock(busy)) \/ ClockInReset \/ Press \/ Release

Spec == Init /\ [][Next]_vars

(* The oscillator runs, each engine of each core finishes in the end        *)
(* (Datapath's SearchEnds), and KEY[3] is not held for ever.                 *)
Finishing(c) == \E busy \in SUBSET Core : c \in busy /\ Clock(busy)
FairSpec ==
  /\ Spec /\ WF_vars(ClockInReset) /\ WF_vars(Release)
  /\ \A c \in Core : WF_vars(Finishing(c))

TypeOK ==
  /\ core \in [Core -> Search!Cores(0 .. LastKey)]
  /\ good \in GoodSets
  /\ key_found_flag \in 0 .. NumCores /\ secret_key \in 0 .. LastKey
  /\ stop_flag \in BOOLEAN
  /\ LED \subseteq Core \cup {7}
  /\ reset \in BOOLEAN /\ edges \in BOOLEAN

-----------------------------------------------------------------------------
Range(c) == {k \in KeyStart(c) .. KeyStart(c) + KeyRange : k <= LastKey}
Halted(c) == core[c].phase = "DONE" /\ core[c].trial = "none" /\ ~core[c].found

(* Whatever key the display shows once a core is reported decrypts the      *)
(* message, also when a stopped core finishes a trial of its own later or   *)
(* a reset strikes in between (multicore_controller.sv 70-95).              *)
ReportedKeyIsGood == key_found_flag # 0 => secret_key \in good

(* While the cores are searching none has passed over a good key: every     *)
(* key of its range below the one on trial has failed (datapath.sv 171-182). *)
NoKeySkipped ==
  \A c \in Core : core[c].phase = "SEARCH" =>
    \A k \in KeyStart(c) .. core[c].key - 1 : k \notin good

(* If every core has ended and none was told to stop, no key of the search  *)
(* is good: the ranges leave no gap (multicore_controller.sv 16-19,          *)
(* datapath.sv 125, 173).                                                    *)
ExhaustedMeansNone ==
  (\A c \in Core : Halted(c)) /\ ~stop_flag =>
    \A k \in 0 .. LastKey : k \notin good

(* No core is stopped without a find: stop_flag is up only while the key    *)
(* that raised it is still held by its core, so a reset restarts the search *)
(* and leaves no old stop behind (multicore_controller.sv 61, 70-102).       *)
StopHasACause == stop_flag /\ ~reset => FoundBy # {}

(* While the search is reported done, the LED of a core is lit only if that *)
(* core holds a found key, and LED 7 is not lit: nothing of a report before *)
(* the last reset survives into the next one, although the LEDs lag the     *)
(* controller by an edge and are only ever switched off together            *)
(* (ksa.sv 82-96).                                                           *)
LitCoreHasFound == stop_flag /\ ~reset => LED \subseteq FoundBy

(* After the first report the display changes only to a core of lower       *)
(* number, and never back: the report of a running search is replaced at    *)
(* most NumCores - 1 times (multicore_controller.sv 72-95).                  *)
ReportOnlyMovesDown ==
  [][stop_flag /\ ~reset /\ ~reset' =>
       /\ stop_flag'
       /\ key_found_flag' # key_found_flag => key_found_flag' < key_found_flag
       /\ key_found_flag' = key_found_flag => secret_key' = secret_key]_vars

(* If the search contains a good key and reset does not keep coming, the    *)
(* display ends up showing a good key and lighting the LED of its core, for  *)
(* good, whatever the resets interrupted (README.md 125).                    *)
GoodKeyIsReported ==
  good \cap 0 .. LastKey # {} =>
    \/ []<><<Press>>_vars
    \/ <>[](key_found_flag # 0 /\ key_found_flag \in LED /\ secret_key \in good)

(* ksa.sv 91: "key not found, LED 7", on a board left alone. *)
ExhaustionLightsLED7 ==
  (\A c \in Core : Halted(c)) /\ ~stop_flag ~> 7 \in LED \/ reset

(* README.md 72: "cycling through the entire keyspace"; line 84: "we will   *)
(* assume a key of 24 bits".                                                 *)
WholeKeyspaceSearched ==
  (\A c \in Core : Halted(c)) /\ ~stop_flag => good = {}
=============================================================================
