----------------------------- MODULE KSAEngine -----------------------------
(***************************************************************************)
(* swap_memory.sv wired to s_memory the way datapath.sv wires them while it *)
(* is in S_MEM_SWAP: the memory follows the FSM's address, data and wren,   *)
(* start_flag is high until the edge that ends the FSM's DONE state, and    *)
(* reset may come at any moment.                                            *)
(***************************************************************************)
EXTENDS SwapMemory

CONSTANTS
  NewDataOnWrite,   \* which read-during-write behaviour s_memory has
  Tables            \* what s_memory may hold when a pass is started

ASSUME TablesAssumption == Tables \subseteq [Byte -> Byte] /\ Tables # {}
ASSUME NewDataAssumption == NewDataOnWrite \in BOOLEAN

VARIABLE s_mem

RAM == INSTANCE SyncRAM

vars == <<start_flag, secret_key, s_mem, data_out, fsm>>

Init ==
  /\ Start
  /\ start_flag = FALSE /\ secret_key \in Key
  /\ s_mem \in Tables /\ data_out \in Garbage

(* One rising edge: the FSM, the memory and datapath's start_flag. *)
Clock ==
  /\ Tick
  /\ s_mem' = RAM!CellsAfter(s_mem, wren, address, data_in)
  /\ data_out' = RAM!QAfter(s_mem, wren, address, data_in)
  /\ start_flag' = (start_flag /\ ~done_flag)
  /\ UNCHANGED secret_key

(* datapath enters S_MEM_SWAP with a table prepared and a key to try. *)
Load ==
  /\ ~start_flag /\ state = "IDLE"
  /\ start_flag' = TRUE
  /\ secret_key' \in Key /\ s_mem' \in Tables
  /\ UNCHANGED <<data_out, fsm>>

(* The asynchronous reset, which leaves the cells as they are. *)
ResetEngine ==
  /\ Reset /\ start_flag' = FALSE
  /\ UNCHANGED <<secret_key, s_mem, data_out>>

Next == Clock \/ Load \/ ResetEngine

Spec == Init /\ [][Next]_vars

(* The clock runs: CLOCK_50 is a free-running oscillator. *)
FairSpec == Spec /\ WF_vars(Clock)

EngineTypeOK ==
  /\ TypeOK
  /\ start_flag \in BOOLEAN /\ secret_key \in Key
  /\ s_mem \in [Byte -> Byte] /\ data_out \in Byte

-----------------------------------------------------------------------------
(* The refinement: a round counts from the edge that computes j_index, and  *)
(* until both cells are written the table is read as if they were.          *)
BeforeSwap == {"SET_J_ADDR", "WAIT_J_ADDR", "GET_J_DATA"}
InSwap == {"SWAP_DATA_I", "SWAP_DATA_J"}
RoundCounted == BeforeSwap \cup InSwap \cup {"INCREMENT", "DONE"}

Written(x, y) == [s_mem EXCEPT ![i_index] = x, ![j_index] = y]

TableShown ==
  IF state \in BeforeSwap THEN Written(s_mem[j_index], s_mem[i_index])
  ELSE IF state \in InSwap THEN Written(j_data, i_data)
  ELSE s_mem

IShown == IF state = "IDLE" THEN 0
          ELSE IF state \in RoundCounted THEN i_index + 1 ELSE i_index
JShown == IF state = "IDLE" THEN 0 ELSE j_index

Algorithm == INSTANCE KeySchedule WITH
  running <- start_flag, key <- secret_key,
  s <- TableShown, i <- IShown, j <- JShown

(* The FSM and its memory perform the RC4 key schedule: whatever the write  *)
(* states do to the two cells in between, each index is one exact swap, in   *)
(* order, of the table the pass started with (swap_memory.sv 91-233).        *)
ImplementsKeySchedule == Algorithm!Spec

(* A pass that was started ends, so no write state waits for ever for the   *)
(* datum it wrote (swap_memory.sv 186-214), unless reset keeps coming.       *)
PassEnds == start_flag ~> ~start_flag

(* Once a write state has handed over, the table is a rearrangement of the  *)
(* one the pass started with: no value is lost although SWAP_DATA_I first   *)
(* writes a left-over byte over s[j] (swap_memory.sv 179-199).               *)
IsPermutation(t) == \A v \in Byte : \E a \in Byte : t[a] = v
RoundKeepsPermutation ==
  start_flag /\ state \in {"INCREMENT", "DONE"} => IsPermutation(s_mem)
=============================================================================
