----------------------------- MODULE PRGAEngine -----------------------------
(***************************************************************************)
(* decrypt_memory.sv wired to its three memories the way datapath.sv wires  *)
(* them while it is in S_MEM_DECRYPT: one address for s_memory, d_memory    *)
(* and the message ROM e_memory, start_flag high until the edge that ends   *)
(* the FSM's DONE state, and a reset that may come at any moment.           *)
(***************************************************************************)
EXTENDS DecryptMemory

CONSTANTS
  NewDataOnWrite,   \* which read-during-write behaviour the RAMs have
  Tables,           \* what s_memory may hold when a pass is started
  Messages          \* the contents of e_memory, one per build

ASSUME EngineAssumption ==
  /\ NewDataOnWrite \in BOOLEAN
  /\ Tables \subseteq [Byte -> Byte] /\ Tables # {}
  /\ Messages \subseteq [0 .. MessageLength - 1 -> Byte] /\ Messages # {}

VARIABLES s_mem, d_mem, e_mem

RAM == INSTANCE SyncRAM

memories == <<s_mem, d_mem, e_mem>>
outputs == <<s_data_out, d_data_out, e_data_out>>
vars == <<start_flag, memories, outputs, fsm>>

(* The ROM's cells beyond the message are zero in the .mif files. *)
Rom(a) == IF a < MessageLength THEN e_mem[a] ELSE 0

Init ==
  /\ Start
  /\ start_flag = FALSE /\ s_mem \in Tables /\ e_mem \in Messages
  /\ d_mem = [a \in Byte |-> 0]
  /\ s_data_out \in Garbage /\ d_data_out = 0 /\ e_data_out = Rom(0)

Memories ==
  /\ s_mem' = RAM!CellsAfter(s_mem, s_wren, address, s_data_in)
  /\ s_data_out' = RAM!QAfter(s_mem, s_wren, address, s_data_in)
  /\ d_mem' = RAM!CellsAfter(d_mem, d_wren, address, d_data_in)
  /\ d_data_out' = RAM!QAfter(d_mem, d_wren, address, d_data_in)
  /\ e_data_out' = Rom(address)
  /\ UNCHANGED e_mem

Clock ==
  /\ Tick /\ Memories
  /\ start_flag' = (start_flag /\ ~done_flag)

(* datapath enters S_MEM_DECRYPT with the table shuffled. *)
Load ==
  /\ ~start_flag /\ state = "IDLE"
  /\ start_flag' = TRUE /\ s_mem' \in Tables
  /\ UNCHANGED <<d_mem, e_mem, outputs, fsm>>

ResetEngine ==
  /\ Reset /\ start_flag' = FALSE /\ UNCHANGED <<memories, outputs>>

Next == Clock \/ Load \/ ResetEngine

Spec == Init /\ [][Next]_vars

(* The clock runs. *)
FairSpec == Spec /\ WF_vars(Clock)

EngineTypeOK ==
  /\ TypeOK /\ start_flag \in BOOLEAN
  /\ s_mem \in [Byte -> Byte] /\ d_mem \in [Byte -> Byte]
  /\ e_mem \in Messages
  /\ s_data_out \in Byte /\ d_data_out \in Byte /\ e_data_out \in Byte

-----------------------------------------------------------------------------
(* The refinement: the swap counts from the edge that computes j_index, the *)
(* character from the edge that ends VALIDATE.                               *)
BeforeSwap == {"WAIT_J_ADDR", "GET_J_DATA"}
InSwap == {"SWAP_DATA_I", "WAIT_SWAP_I", "SWAP_DATA_J", "WAIT_SWAP_J"}
AfterSwap == {"SET_F_ADDR", "WAIT_F_ADDR", "GET_F_VALUE", "SET_K_ADDR",
              "WAIT_K_ADDR", "DECRYPT", "WAIT_DECRYPT", "VALIDATE"}

Written(x, y) == [s_mem EXCEPT ![i_index] = x, ![j_index] = y]

TableShown ==
  IF state \in BeforeSwap THEN Written(s_mem[j_index], s_mem[i_index])
  ELSE IF state \in InSwap THEN Written(j_data, i_data)
  ELSE s_mem

IShown == IF state = "IDLE" THEN 0
          ELSE IF state \in {"WAIT_I_ADDR", "GET_I_DATA", "SET_J_ADDR"}
            THEN (i_index + N - 1) % N ELSE i_index
JShown == IF state = "IDLE" THEN 0 ELSE j_index

CharsShown ==
  IF state = "IDLE" THEN 0
  ELSE IF state = "INCREMENT" \/ (state = "DONE" /\ ~key_found_flag)
    THEN k_index + 1 ELSE k_index

Algorithm == INSTANCE MessageDecrypt WITH
  running <- start_flag, msg <- e_mem, s <- TableShown,
  i <- IShown, j <- JShown,
  mixed <- state \in BeforeSwap \cup InSwap \cup AfterSwap,
  out <- [n \in 1 .. CharsShown |-> d_mem[n - 1]],
  found <- key_found_flag

(* The FSM and its memories run RC4's key-stream loop: each character of    *)
(* d_memory is the next key byte xor the next message byte, the pass is cut *)
(* at the first one that is no letter, and key_found_flag rises exactly     *)
(* when the last of them was accepted (decrypt_memory.sv 126-232).          *)
ImplementsMessageDecrypt == Algorithm!Spec

(* A started pass ends: neither RAM keeps a wait state waiting             *)
(* (decrypt_memory.sv 161-178, 205-210).                                    *)
PassEnds == start_flag ~> ~start_flag
=============================================================================
