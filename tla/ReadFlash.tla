----------------------------- MODULE ReadFlash -----------------------------
(***************************************************************************)
(* read_flash.sv: one read of the flash for each start_read_flag.  The word *)
(* goes to flash_data_out as the FSM enters READ_DATA.                      *)
(***************************************************************************)
VARIABLES
  start_read_flag, read_data_flag, flash_data_in,   \* inputs
  state, flash_data_out

(* read_addr_flag is state[0]: up in READ_ADDR and in READ_DATA (3'b011). *)
read_addr_flag == state \in {"READ_ADDR", "READ_DATA"}

Idle ==
  /\ state = "IDLE"
  /\ state' = IF start_read_flag THEN "READ_ADDR" ELSE "IDLE"
  /\ UNCHANGED flash_data_out

(* data_output_flag rises.  The flash may change its output at the same     *)
(* edge, so either word may be caught.                                      *)
ReadAddr ==
  /\ state = "READ_ADDR" /\ state' = "READ_DATA"
  /\ flash_data_out' \in {flash_data_in, flash_data_in'}

ReadData ==
  /\ state = "READ_DATA"
  /\ state' = IF read_data_flag THEN "IDLE" ELSE "READ_DATA"
  /\ UNCHANGED flash_data_out

(* One rising edge of clk50M. *)
Tick == Idle \/ ReadAddr \/ ReadData
=============================================================================
