-------------------------- MODULE KeyboardControl --------------------------
(***************************************************************************)
(* keyboard_control.sv: an FSM that is clocked by the arrival of a key, and *)
(* the three registers that take its outputs to the sample clock.           *)
(***************************************************************************)
VARIABLES state, read_addr_start, dir, reset

control == <<state, read_addr_start, dir, reset>>

Characters == {"B", "D", "E", "F", "R"}
States == {"F_E", "F_D", "B_E", "B_D", "F_R", "B_R"}
ResetStates == {"F_R", "B_R"}

(* Power-up; the registers have no initial value in the source, the FPGA     *)
(* starts them at 0.                                                         *)
Start ==
  state = "F_D" /\ read_addr_start = FALSE /\ dir = FALSE /\ reset = FALSE

(* What each key does; a key that is not listed does nothing. *)
Reaction ==
  [F_E |-> [D |-> "F_D", B |-> "B_E", R |-> "F_R"],
   F_D |-> [E |-> "F_E", B |-> "B_D", R |-> "F_R"],
   B_E |-> [D |-> "B_D", F |-> "F_E", R |-> "B_R"],
   B_D |-> [E |-> "B_E", F |-> "F_D", R |-> "B_R"]]

(* A rising edge of read_keyboard_flag: after a reset any key plays. *)
TakeKey(c) ==
  \/ state = "F_R" /\ state' = "F_E"
  \/ state = "B_R" /\ state' = "B_E"
  \/ /\ state \notin ResetStates
     /\ state' = IF c \in DOMAIN Reaction[state] THEN Reaction[state][c] ELSE state

(* A rising edge of clk: bits 0, 1 and 2 of the state codes. *)
Register ==
  /\ read_addr_start' = (state \notin {"F_D", "B_D"})
  /\ dir' = (state \in {"F_E", "F_D", "F_R"})
  /\ reset' = (state \in ResetStates)

TypeOK == state \in States /\ {read_addr_start, dir, reset} \subseteq BOOLEAN
=============================================================================
