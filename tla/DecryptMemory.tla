--------------------------- MODULE DecryptMemory ---------------------------
(***************************************************************************)
(* decrypt_memory.sv: the FSM that generates the RC4 key stream from the    *)
(* shuffled s_memory, writes the decrypted message to d_memory and judges   *)
(* each character.  One action per FSM state (or per pair of states that do *)
(* the same): what the always_ff block does at one rising edge.             *)
(***************************************************************************)
EXTENDS Naturals

CONSTANTS
  N,              \* values of a byte and cells of s_memory (256)
  MessageLength,  \* characters in the message (END_K_ADDR, 32)
  Letters,        \* the bytes VALIDATE accepts ('a'..'z' and space)
  ByteXor(_, _),      \* the ^ of two bytes
  Garbage         \* the bytes the build may put where the source assigns 8'bx

ASSUME DecryptAssumption ==
  /\ N \in Nat \ {0, 1} /\ MessageLength \in 1 .. N - 1
  /\ Letters \subseteq 0 .. N - 1
  /\ \A a, b \in 0 .. N - 1 : ByteXor(a, b) \in 0 .. N - 1
  /\ Garbage \subseteq 0 .. N - 1 /\ Garbage # {}

VARIABLES
  start_flag, s_data_out, d_data_out, e_data_out,   \* inputs
  state, i_index, j_index, k_index, i_data, j_data, f_value,
  address, s_data_in, d_data_in, key_found_flag

indices == <<i_index, j_index, k_index>>
values == <<i_data, j_data, f_value>>
writeData == <<s_data_in, d_data_in>>
fsm == <<state, indices, values, address, writeData, key_found_flag>>

Byte == 0 .. N - 1
START_K_ADDR == 0

States ==
  {"IDLE", "SET_I_ADDR", "WAIT_I_ADDR", "GET_I_DATA", "SET_J_ADDR",
   "WAIT_J_ADDR", "GET_J_DATA", "SWAP_DATA_I", "WAIT_SWAP_I", "SWAP_DATA_J",
   "WAIT_SWAP_J", "SET_F_ADDR", "WAIT_F_ADDR", "GET_F_VALUE", "SET_K_ADDR",
   "WAIT_K_ADDR", "DECRYPT", "WAIT_DECRYPT", "VALIDATE", "INCREMENT", "DONE"}

(* The output bits of the state codes; bit 1 is not set in SWAP_DATA_J. *)
s_wren == state \in {"SWAP_DATA_I", "WAIT_SWAP_I", "WAIT_SWAP_J"}
d_wren == state \in {"DECRYPT", "WAIT_DECRYPT"}
done_flag == state = "DONE"

(* initial block, and the reset branch *)
Start ==
  /\ state = "IDLE"
  /\ i_index = START_K_ADDR /\ j_index = START_K_ADDR /\ k_index = START_K_ADDR
  /\ i_data \in Garbage /\ j_data \in Garbage /\ f_value \in Garbage
  /\ address \in Garbage /\ s_data_in \in Garbage /\ d_data_in \in Garbage
  /\ key_found_flag = FALSE

(* What reset and IDLE have in common; IDLE leaves key_found_flag alone. *)
Clear ==
  /\ i_index' = START_K_ADDR /\ j_index' = START_K_ADDR
  /\ k_index' = START_K_ADDR
  /\ i_data' \in Garbage /\ j_data' \in Garbage /\ f_value' \in Garbage
  /\ address' \in Garbage /\ s_data_in' \in Garbage /\ d_data_in' \in Garbage

Reset == state' = "IDLE" /\ Clear /\ key_found_flag' = FALSE

Idle ==
  /\ state = "IDLE"
  /\ state' = IF start_flag THEN "SET_I_ADDR" ELSE "IDLE"
  /\ Clear /\ UNCHANGED key_found_flag

SetIAddr ==
  /\ state = "SET_I_ADDR" /\ state' = "WAIT_I_ADDR"
  /\ i_index' = (i_index + 1) % N /\ address' = (i_index + 1) % N
  /\ UNCHANGED <<j_index, k_index, values, writeData, key_found_flag>>

(* The states that only let the memory answer, and the one after DONE. *)
WaitNext ==
  [WAIT_I_ADDR |-> "GET_I_DATA", WAIT_J_ADDR |-> "GET_J_DATA",
   WAIT_F_ADDR |-> "GET_F_VALUE", WAIT_K_ADDR |-> "DECRYPT", DONE |-> "IDLE"]

Wait ==
  /\ state \in DOMAIN WaitNext /\ state' = WaitNext[state]
  /\ UNCHANGED <<indices, values, address, writeData, key_found_flag>>

GetIData ==
  /\ state = "GET_I_DATA" /\ state' = "SET_J_ADDR"
  /\ i_data' = s_data_out /\ address' = i_index
  /\ UNCHANGED <<indices, j_data, f_value, writeData, key_found_flag>>

(* Mutant: non-blocking assignments, as in the other states. *)
SetJAddr_NonBlocking ==
  /\ state = "SET_J_ADDR" /\ state' = "WAIT_J_ADDR"
  /\ j_index' = (j_index + i_data) % N /\ address' = j_index
  /\ UNCHANGED <<i_index, k_index, values, writeData, key_found_flag>>

(* Blocking assignments: address takes the new j_index. *)
SetJAddr ==
  /\ state = "SET_J_ADDR" /\ state' = "WAIT_J_ADDR"
  /\ j_index' = (j_index + i_data) % N /\ address' = (j_index + i_data) % N
  /\ UNCHANGED <<i_index, k_index, values, writeData, key_found_flag>>

GetJData ==
  /\ state = "GET_J_DATA" /\ state' = "SWAP_DATA_I"
  /\ j_data' = s_data_out
  /\ UNCHANGED <<indices, i_data, f_value, address, writeData, key_found_flag>>

(* Present a write to s_memory, then look at q one edge later. *)
Write(here, addr, datum, next) ==
  /\ state = here /\ state' = next /\ address' = addr /\ s_data_in' = datum
  /\ UNCHANGED <<indices, values, d_data_in, key_found_flag>>

(* Mutant: j_data written to both cells. *)
SwapDataJ_Same == Write("SWAP_DATA_J", j_index, j_data, "WAIT_SWAP_J")

SwapDataI == Write("SWAP_DATA_I", i_index, j_data, "WAIT_SWAP_I")
SwapDataJ == Write("SWAP_DATA_J", j_index, i_data, "WAIT_SWAP_J")

Seen(here, shown, datum, next, again) ==
  /\ state = here /\ state' = IF shown = datum THEN next ELSE again
  /\ UNCHANGED <<indices, values, address, writeData, key_found_flag>>

WaitSwapI == Seen("WAIT_SWAP_I", s_data_out, j_data, "SWAP_DATA_J", "SWAP_DATA_I")
WaitSwapJ == Seen("WAIT_SWAP_J", s_data_out, i_data, "SET_F_ADDR", "SWAP_DATA_J")

(* Mutant: a sum wider than a byte. *)
SetFAddr_NoWrap ==
  /\ state = "SET_F_ADDR" /\ state' = "WAIT_F_ADDR"
  /\ address' = i_data + j_data
  /\ UNCHANGED <<indices, values, writeData, key_found_flag>>

SetFAddr ==
  /\ state = "SET_F_ADDR" /\ state' = "WAIT_F_ADDR"
  /\ address' = (i_data + j_data) % N
  /\ UNCHANGED <<indices, values, writeData, key_found_flag>>

GetFValue ==
  /\ state = "GET_F_VALUE" /\ state' = "SET_K_ADDR"
  /\ f_value' = s_data_out
  /\ UNCHANGED <<indices, i_data, j_data, address, writeData, key_found_flag>>

SetKAddr ==
  /\ state = "SET_K_ADDR" /\ state' = "WAIT_K_ADDR" /\ address' = k_index
  /\ UNCHANGED <<indices, values, writeData, key_found_flag>>

Decrypt ==
  /\ state = "DECRYPT" /\ state' = "WAIT_DECRYPT"
  /\ address' = k_index /\ d_data_in' = ByteXor(f_value, e_data_out)
  /\ UNCHANGED <<indices, values, s_data_in, key_found_flag>>

WaitDecrypt == Seen("WAIT_DECRYPT", d_data_out, d_data_in, "VALIDATE", "DECRYPT")

Validate ==
  /\ state = "VALIDATE"
  /\ state' = IF d_data_in \in Letters THEN "INCREMENT" ELSE "DONE"
  /\ key_found_flag' = FALSE
  /\ UNCHANGED <<indices, values, address, writeData>>

(* Mutant: the last character is not looked at. *)
Increment_OneShort ==
  /\ state = "INCREMENT"
  /\ k_index' = (k_index + 1) % N
  /\ IF k_index + 1 = MessageLength - 1
       THEN state' = "DONE" /\ key_found_flag' = TRUE
       ELSE state' = "SET_I_ADDR" /\ UNCHANGED key_found_flag
  /\ UNCHANGED <<i_index, j_index, values, address, writeData>>

Increment ==
  /\ state = "INCREMENT"
  /\ k_index' = (k_index + 1) % N
  /\ IF k_index = MessageLength - 1
       THEN state' = "DONE" /\ key_found_flag' = TRUE
       ELSE state' = "SET_I_ADDR" /\ UNCHANGED key_found_flag
  /\ UNCHANGED <<i_index, j_index, values, address, writeData>>

(* One rising clock edge with reset low. *)
Tick ==
  \/ Idle \/ SetIAddr \/ Wait \/ GetIData \/ SetJAddr \/ GetJData
  \/ SwapDataI \/ WaitSwapI \/ SwapDataJ \/ WaitSwapJ \/ SetFAddr
  \/ GetFValue \/ SetKAddr \/ Decrypt \/ WaitDecrypt \/ Validate \/ Increment

TypeOK ==
  /\ state \in States
  /\ i_index \in Byte /\ j_index \in Byte /\ k_index \in Byte
  /\ i_data \in Byte /\ j_data \in Byte /\ f_value \in Byte
  /\ address \in Byte /\ s_data_in \in Byte /\ d_data_in \in Byte
  /\ key_found_flag \in BOOLEAN
=============================================================================
