----------------------------- MODULE SimpleIpod -----------------------------
(***************************************************************************)
(* simple_ipod_solution.v 228-345: the keyboard control and the address     *)
(* counter run on the sample clock clk_44khz_sync, the flash reader on      *)
(* CLK_50M; synchronisers carry a key to the one and a request for a word   *)
(* to the other.  A step is a rising edge of one of the clocks, or a key.   *)
(* The flash, an Avalon slave outside the repository, is modelled by what   *)
(* the design relies on: it accepts one read at a time, answers it within   *)
(* MaxLatency edges, and holds the word it read until the next answer.      *)
(***************************************************************************)
EXTENDS Integers

CONSTANTS
  Words, NoWord,
  MinGap,       \* at least so many edges of CLK_50M between two samples
  MaxLatency    \* at most so many edges of CLK_50M until the flash answers

(* What the divisor of speed_controller.sv gives at the speeds it is meant  *)
(* for (1133 edges at its initial value): a word is read between two        *)
(* samples, and the flash has accepted a second read of it, because          *)
(* read_addr_flag is still up when the first answer comes.                  *)
ASSUME TimingAssumption ==
  /\ Words \in Nat \ {0, 1} /\ NoWord \notin 0 .. Words - 1
  /\ MaxLatency \in Nat \ {0} /\ MinGap \in Nat
  /\ MinGap >= MaxLatency + 5

VARIABLES
  k_state, read_addr_start, dir, reset,                 \* keyboard_control
  key_aq, key_bq, read_keyboard_flag, key_1q,           \* sync_keyboard
  character,                                            \* key2ascii
  current_address, addr_ready_flag, data_even_flag, audio_out,
  req_aq, req_bq, start_read_flag, req_1q,              \* sync_states
  f_state, flash_data,                                  \* read_flash
  pending, waited, readdatavalid, readdata,             \* the flash
  gap                                                   \* edges since a sample

keyboard == <<k_state, read_addr_start, dir, reset>>
keySync == <<key_aq, key_bq, read_keyboard_flag, key_1q>>
counter == <<current_address, addr_ready_flag, data_even_flag, audio_out>>
requestSync == <<req_aq, req_bq, start_read_flag, req_1q>>
reader == <<f_state, flash_data>>
flash == <<pending, waited, readdatavalid, readdata>>
vars == <<keyboard, keySync, character, counter, requestSync, reader, flash, gap>>

keyboard_input == INSTANCE KeyboardControl WITH state <- k_state
sync_keyboard == INSTANCE Synchronizer WITH
  fdc_aq <- key_aq, fdc_bq <- key_bq,
  out_sync_sig <- read_keyboard_flag, fdc_1q <- key_1q
count_addr == INSTANCE AddressCounter
sync_states == INSTANCE Synchronizer WITH
  fdc_aq <- req_aq, fdc_bq <- req_bq,
  out_sync_sig <- start_read_flag, fdc_1q <- req_1q
read_FLASH == INSTANCE ReadFlash WITH
  read_data_flag <- readdatavalid, flash_data_in <- readdata,
  state <- f_state, flash_data_out <- flash_data

Nothing == -2

Init ==
  /\ keyboard_input!Start /\ sync_keyboard!Clear /\ character = "D"
  /\ count_addr!Start /\ sync_states!Clear
  /\ f_state = "IDLE" /\ flash_data = NoWord
  /\ pending = Nothing /\ waited = 0
  /\ readdatavalid = FALSE /\ readdata = NoWord
  /\ gap = 0

(* ------------------------------- the flash ------------------------------ *)
Accept ==
  /\ pending = Nothing /\ read_FLASH!read_addr_flag
  /\ pending' = current_address /\ waited' = 1
  /\ readdatavalid' = FALSE /\ UNCHANGED readdata

Rest ==
  /\ pending = Nothing /\ ~read_FLASH!read_addr_flag
  /\ readdatavalid' = FALSE /\ UNCHANGED <<pending, waited, readdata>>

KeepWaiting ==
  /\ pending # Nothing /\ waited < MaxLatency
  /\ waited' = waited + 1
  /\ readdatavalid' = FALSE /\ UNCHANGED <<pending, readdata>>

Answer ==
  /\ pending # Nothing
  /\ readdata' = pending /\ readdatavalid' = TRUE
  /\ pending' = Nothing /\ waited' = 0

FlashEdge == Accept \/ Rest \/ KeepWaiting \/ Answer

(* ------------------------------- the clocks ----------------------------- *)
Clock50M ==
  /\ FlashEdge /\ read_FLASH!Tick /\ sync_states!OutClock
  /\ gap' = IF gap < MinGap THEN gap + 1 ELSE gap
  /\ UNCHANGED <<keyboard, keySync, character, counter>>

(* addr_ready_flag is sync_states' asynchronous input; it is set after the  *)
(* edge of CLK_50M that raised the sample clock.                            *)
Request ==
  IF addr_ready_flag' /\ ~addr_ready_flag
    THEN sync_states!AsyncEdge ELSE UNCHANGED requestSync

KeyArrives ==
  IF sync_keyboard!OutRises
    THEN keyboard_input!TakeKey(character) ELSE UNCHANGED k_state

SampleClock ==
  /\ gap = MinGap /\ gap' = 0
  /\ keyboard_input!Register /\ count_addr!Sample
  /\ sync_keyboard!OutClock /\ KeyArrives
  /\ Request
  /\ UNCHANGED <<character, reader, flash>>

(* A key arrives: a PS/2 code takes a millisecond, so all traces of the one *)
(* before have gone.                                                         *)
Key(c) ==
  /\ sync_keyboard!Quiet /\ sync_keyboard!AsyncEdge /\ character' = c
  /\ UNCHANGED <<keyboard, counter, requestSync, reader, flash, gap>>

Next ==
  \/ Clock50M
  \/ SampleClock
  \/ \E c \in keyboard_input!Characters : Key(c)

Spec == Init /\ [][Next]_vars

(* Both clocks run freely. *)
FairSpec == Spec /\ WF_vars(Clock50M) /\ WF_vars(SampleClock)

TypeOK ==
  /\ keyboard_input!TypeOK /\ sync_keyboard!TypeOK
  /\ character \in keyboard_input!Characters
  /\ count_addr!TypeOK /\ sync_states!TypeOK
  /\ f_state \in {"IDLE", "READ_ADDR", "READ_DATA"}
  /\ flash_data \in count_addr!Address \cup {NoWord}
  /\ pending \in count_addr!Address \cup {Nothing}
  /\ waited \in 0 .. MaxLatency /\ readdatavalid \in BOOLEAN
  /\ readdata \in count_addr!Address \cup {NoWord}
  /\ gap \in 0 .. MinGap

-----------------------------------------------------------------------------
(* The refinement: a request counts from the moment it is raised.           *)
InFlight ==
  \/ req_aq \/ f_state = "READ_ADDR"
  \/ f_state = "IDLE" /\ (req_bq \/ start_read_flag)

LastRead == IF pending = Nothing THEN readdata ELSE pending

Ideal == INSTANCE Player WITH
  playing <- read_addr_start, forward <- dir, restart <- reset,
  address <- current_address, second <- data_even_flag, out <- audio_out,
  shown <- IF InFlight THEN LastRead ELSE flash_data,
  ahead <- IF InFlight THEN current_address ELSE LastRead

(* Across the two clocks no request is lost, doubled or answered with the   *)
(* wrong word, however long the flash takes and although it is read twice:  *)
(* the halves heard are those of a player that fetches each word at once    *)
(* (simple_ipod_solution.v 262-320).                                        *)
ImplementsPlayer == Ideal!Spec

(* While the song plays on, every half of every word is heard again and     *)
(* again, in either direction: the flash reader never hangs on an answer    *)
(* and the address wraps at both ends (address_counter.sv 40-62).           *)
Playing == read_addr_start /\ ~reset
SongGoesOn ==
  \A w \in count_addr!Address, h \in {"low", "high"} :
    <>[](Playing /\ k_state = "F_E") \/ <>[](Playing /\ k_state = "B_E") =>
      []<>(audio_out = count_addr!Half(w, h))

(* The two halves of a pair are heard of the same word, whatever keys came  *)
(* in between and whenever the flash answered (address_counter.sv 42-61,    *)
(* read_flash.sv 50-53).                                                    *)
HalvesOfOneWord ==
  [][data_even_flag /\ ~data_even_flag' /\ audio_out # count_addr!Silence =>
       audio_out'[1] = audio_out[1]]_vars

(* lab2/README.md 14: "the first 16-bit audio sample is located in the      *)
(* lower-half of the data at address 0": played forward from power-up, it is *)
(* the first sample of the song that is heard.                               *)
NothingHeard == \E h \in {"low", "high"} : audio_out = count_addr!Half(NoWord, h)
SongHeard == \E w \in count_addr!Address, h \in {"low", "high"} :
               audio_out = count_addr!Half(w, h)
FirstSampleFirst ==
  [][NothingHeard /\ SongHeard' /\ dir => audio_out' = count_addr!Half(0, "low")]_vars
=============================================================================
