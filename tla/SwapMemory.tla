----------------------------- MODULE SwapMemory -----------------------------
(***************************************************************************)
(* swap_memory.sv: the FSM that shuffles s_memory with the secret key (the  *)
(* key-scheduling pass of RC4).  One action per FSM state; each is what the *)
(* always_ff block does at one rising clock edge in that state.  The memory *)
(* is outside: the FSM drives address, data_in and wren and reads data_out. *)
(***************************************************************************)
EXTENDS Naturals

CONSTANTS
  N,        \* cells of s_memory and values of a byte (256 in the source)
  Garbage   \* the bytes the build may put where the source assigns 8'bx

ASSUME NAssumption == N \in Nat \ {0, 1}
ASSUME GarbageAssumption == Garbage \subseteq 0 .. N - 1 /\ Garbage # {}

VARIABLES
  start_flag, secret_key, data_out,    \* inputs, never assigned here
  state, i_index, j_index, i_data, j_data, address, data_in

fsm == <<state, i_index, j_index, i_data, j_data, address, data_in>>

Byte == 0 .. N - 1
START_ADDR == 0
END_ADDR == N - 1
keylength == 3
Key == [0 .. keylength - 1 -> Byte]

States == {"IDLE", "SET_I_ADDR", "WAIT_I_ADDR", "GET_I_DATA", "ADD_SUM_J",
           "SET_J_ADDR", "WAIT_J_ADDR", "GET_J_DATA", "SWAP_DATA_I",
           "SWAP_DATA_J", "INCREMENT", "DONE"}

(* Mutant: the state code of SWAP_DATA_J without its write bit. *)
wren_OnlyI == state = "SWAP_DATA_I"

(* State bits 2 and 4 are the outputs. *)
wren == state \in {"SWAP_DATA_I", "SWAP_DATA_J"}
done_flag == state = "DONE"

(* initial block, and the reset branch of the always_ff block *)
Start ==
  /\ state = "IDLE" /\ i_index = START_ADDR /\ j_index = START_ADDR
  /\ i_data \in Garbage /\ j_data \in Garbage
  /\ address \in Garbage /\ data_in \in Garbage

(* What reset and IDLE have in common. *)
Clear ==
  /\ i_index' = START_ADDR /\ j_index' = START_ADDR
  /\ i_data' \in Garbage /\ j_data' \in Garbage
  /\ address' \in Garbage /\ data_in' \in Garbage

Reset == state' = "IDLE" /\ Clear

Idle ==
  /\ state = "IDLE"
  /\ state' = IF start_flag THEN "SET_I_ADDR" ELSE "IDLE"
  /\ Clear

(* A state that only presents an address and moves on. *)
Present(from, addr, to) ==
  /\ state = from /\ state' = to /\ address' = addr
  /\ UNCHANGED <<i_index, j_index, i_data, j_data, data_in>>

SetIAddr  == Present("SET_I_ADDR", i_index, "WAIT_I_ADDR")
WaitIAddr == Present("WAIT_I_ADDR", i_index, "GET_I_DATA")

GetIData ==
  /\ state = "GET_I_DATA" /\ state' = "ADD_SUM_J"
  /\ i_data' = data_out /\ address' = i_index
  /\ UNCHANGED <<i_index, j_index, j_data, data_in>>

(* Mutant: a sum wider than a byte. *)
AddSumJ_NoWrap ==
  /\ state = "ADD_SUM_J" /\ state' = "SET_J_ADDR"
  /\ j_index' = j_index + i_data + secret_key[i_index % keylength]
  /\ address' = j_index
  /\ UNCHANGED <<i_index, i_data, j_data, data_in>>

(* The address presented next is still the one of the old j_index. *)
AddSumJ ==
  /\ state = "ADD_SUM_J" /\ state' = "SET_J_ADDR"
  /\ j_index' = (j_index + i_data + secret_key[i_index % keylength]) % N
  /\ address' = j_index
  /\ UNCHANGED <<i_index, i_data, j_data, data_in>>

SetJAddr  == Present("SET_J_ADDR", j_index, "WAIT_J_ADDR")
WaitJAddr == Present("WAIT_J_ADDR", j_index, "GET_J_DATA")

GetJData ==
  /\ state = "GET_J_DATA" /\ state' = "SWAP_DATA_I"
  /\ j_data' = data_out /\ address' = j_index
  /\ UNCHANGED <<i_index, j_index, i_data, data_in>>

(* Mutant: the datum is not presented. *)
WriteUntilSeen_NoDatum(here, addr, datum, next) ==
  /\ state = here
  /\ address' = addr
  /\ state' = IF data_out = datum THEN next ELSE here
  /\ UNCHANGED <<i_index, j_index, i_data, j_data, data_in>>

(* Mutant: one edge is thought enough for a write. *)
WriteUntilSeen_OneEdge(here, addr, datum, next) ==
  /\ state = here /\ state' = next
  /\ address' = addr /\ data_in' = datum
  /\ UNCHANGED <<i_index, j_index, i_data, j_data>>

(* Present a write, and stay until the memory shows the datum. *)
WriteUntilSeen(here, addr, datum, next) ==
  /\ state = here
  /\ address' = addr /\ data_in' = datum
  /\ state' = IF data_out = datum THEN next ELSE here
  /\ UNCHANGED <<i_index, j_index, i_data, j_data>>

SwapDataI == WriteUntilSeen("SWAP_DATA_I", i_index, j_data, "SWAP_DATA_J")
SwapDataJ == WriteUntilSeen("SWAP_DATA_J", j_index, i_data, "INCREMENT")

(* Mutant: an END_ADDR that does not fit in a byte. *)
Increment_NoEnd ==
  /\ state = "INCREMENT"
  /\ state' = "SET_I_ADDR" /\ i_index' = (i_index + 1) % N
  /\ UNCHANGED <<j_index, i_data, j_data, address, data_in>>

Increment ==
  /\ state = "INCREMENT"
  /\ IF i_index = END_ADDR
       THEN state' = "DONE" /\ i_index' = i_index
       ELSE state' = "SET_I_ADDR" /\ i_index' = i_index + 1
  /\ UNCHANGED <<j_index, i_data, j_data, address, data_in>>

Done ==
  /\ state = "DONE" /\ state' = "IDLE"
  /\ UNCHANGED <<i_index, j_index, i_data, j_data, address, data_in>>

(* One rising clock edge with reset low. *)
Tick ==
  \/ Idle \/ SetIAddr \/ WaitIAddr \/ GetIData \/ AddSumJ \/ SetJAddr
  \/ WaitJAddr \/ GetJData \/ SwapDataI \/ SwapDataJ \/ Increment \/ Done

TypeOK ==
  /\ state \in States
  /\ i_index \in Byte /\ j_index \in Byte
  /\ i_data \in Byte /\ j_data \in Byte
  /\ address \in Byte /\ data_in \in Byte
=============================================================================
