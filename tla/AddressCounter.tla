--------------------------- MODULE AddressCounter ---------------------------
(***************************************************************************)
(* address_counter.sv: plays the two halves of the word read_flash holds,   *)
(* one at each rising edge of the sample clock, and with the second half    *)
(* moves the address and raises addr_ready_flag to have a word read.        *)
(***************************************************************************)
EXTENDS Integers

CONSTANTS
  Words,     \* words of the song (END + 1, 0x80000)
  NoWord     \* what flash_data holds before the first read

VARIABLES
  dir, read_addr_start, flash_data, reset,   \* inputs
  current_address, addr_ready_flag, data_even_flag, audio_out

START == 0
END == Words - 1
Address == START .. END

Silence == <<>>
Half(word, half) == <<word, half>>

Start ==
  /\ current_address = START
  /\ addr_ready_flag = FALSE /\ data_even_flag = FALSE
  /\ audio_out = Silence

(* Mutant: the last address is left out. *)
Forward_Short(a) == IF a >= END - 1 THEN START ELSE a + 1

Forward(a) == IF a = END THEN START ELSE a + 1

(* Mutant: no wrap at the first address. *)
Backward_NoWrap(a) == a - 1

Backward(a) == IF a = START THEN END ELSE a - 1
Neighbour(a) == IF dir THEN Forward(a) ELSE Backward(a)

(* The halves: forward the upper one first, backward the lower one. *)
HalfPlayed == IF dir = data_even_flag THEN "low" ELSE "high"

(* reset clears the address alone, and clears it as soon as it rises.       *)
MoveTo(a) == current_address' = IF reset' THEN START ELSE a

Restart ==
  /\ reset /\ MoveTo(START)
  /\ UNCHANGED <<addr_ready_flag, data_even_flag, audio_out>>

Mute ==
  /\ ~reset /\ ~read_addr_start
  /\ audio_out' = Silence /\ MoveTo(current_address)
  /\ UNCHANGED <<addr_ready_flag, data_even_flag>>

(* Mutant: the next word is asked for with the first half. *)
Play_EarlyRequest ==
  /\ ~reset /\ read_addr_start
  /\ audio_out' = Half(flash_data, HalfPlayed)
  /\ data_even_flag' = ~data_even_flag /\ addr_ready_flag' = ~data_even_flag
  /\ MoveTo(IF data_even_flag THEN Neighbour(current_address) ELSE current_address)

Play ==
  /\ ~reset /\ read_addr_start
  /\ audio_out' = Half(flash_data, HalfPlayed)
  /\ data_even_flag' = ~data_even_flag /\ addr_ready_flag' = data_even_flag
  /\ MoveTo(IF data_even_flag THEN Neighbour(current_address) ELSE current_address)

(* A rising edge of the sample clock. *)
Sample == Restart \/ Mute \/ Play

Sounds == {Silence} \cup ((Address \cup {NoWord}) \X {"low", "high"})

TypeOK ==
  /\ current_address \in Address /\ addr_ready_flag \in BOOLEAN
  /\ data_even_flag \in BOOLEAN
  /\ audio_out \in Sounds
=============================================================================
