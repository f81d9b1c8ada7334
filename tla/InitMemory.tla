----------------------------- MODULE InitMemory -----------------------------
(***************************************************************************)
(* init_memory.sv: the FSM that writes the value a to each cell a of        *)
(* s_memory.  address and data are both the counter; wren is state bit 0    *)
(* and done_flag state bit 1.                                               *)
(***************************************************************************)
EXTENDS Naturals

CONSTANT N   \* cells of s_memory (256)

VARIABLES start_flag, state, counter

fsm == <<state, counter>>

START_ADDR == 0
END_ADDR == N - 1

wren == state \in {"START", "INCREMENT"}
done_flag == state = "DONE"

Start == state = "IDLE" /\ counter = START_ADDR

Reset == state' = "IDLE" /\ counter' = START_ADDR

Idle ==
  /\ state = "IDLE" /\ counter' = START_ADDR
  /\ state' = IF start_flag THEN "START" ELSE "IDLE"

First == state = "START" /\ counter' = START_ADDR /\ state' = "INCREMENT"

Increment ==
  /\ state = "INCREMENT"
  /\ IF counter = END_ADDR
       THEN state' = "DONE" /\ UNCHANGED counter
       ELSE counter' = counter + 1 /\ UNCHANGED state

Done == state = "DONE" /\ state' = "IDLE" /\ UNCHANGED counter

(* One rising clock edge with reset low. *)
Tick == Idle \/ First \/ Increment \/ Done

TypeOK ==
  state \in {"IDLE", "START", "INCREMENT", "DONE"} /\ counter \in 0 .. N - 1
=============================================================================
