------------------------------ MODULE Datapath ------------------------------
(***************************************************************************)
(* datapath.sv: one decryption core.  The three engines share s_memory      *)
(* through multiplexers selected by the datapath state; everything is       *)
(* clocked by one clock, so a Clock step moves the datapath FSM, the three  *)
(* engines and the three memories together, each from the values before the *)
(* edge.                                                                    *)
(***************************************************************************)
EXTENDS Naturals

CONSTANTS
  N, MessageLength, Letters, ByteXor(_, _), Garbage, NewDataOnWrite,
  KeyStart,    \* key_start_value of this core
  KeyRange,    \* 24'h100000
  LastKey,     \* 0x3FFFFF
  Messages     \* contents of e_memory, one per build

ASSUME DatapathAssumption ==
  /\ N \in Nat \ {0, 1} /\ MessageLength \in 1 .. N - 1
  /\ Letters \subseteq 0 .. N - 1 /\ Garbage \subseteq 0 .. N - 1 /\ Garbage # {}
  /\ \A a, b \in 0 .. N - 1 : ByteXor(a, b) \in 0 .. N - 1
  /\ NewDataOnWrite \in BOOLEAN
ASSUME KeyAssumption ==
  /\ KeyStart \in 0 .. LastKey /\ LastKey \in Nat /\ LastKey < N * N * N
  /\ KeyRange \in 1 .. N * N * N - 1
ASSUME MessagesAssumption == Messages \subseteq [0 .. MessageLength - 1 -> 0 .. N - 1]

VARIABLES
  state, secret_key, stop,
  i_state, counter,                                          \* init_memory
  w_state, w_i, w_j, w_i_data, w_j_data, w_address, w_data,  \* swap_memory
  x_state, x_i, x_j, x_k, x_i_data, x_j_data, f_value,       \* decrypt_memory
  x_address, x_s_data, x_d_data, key_found_flag,
  s_mem, s_q, d_mem, d_q, e_mem, e_q

init == <<i_state, counter>>
swap == <<w_state, w_i, w_j, w_i_data, w_j_data, w_address, w_data>>
decrypt == <<x_state, x_i, x_j, x_k, x_i_data, x_j_data, f_value,
             x_address, x_s_data, x_d_data, key_found_flag>>
memories == <<s_mem, s_q, d_mem, d_q, e_mem, e_q>>
vars == <<state, secret_key, stop, init, swap, decrypt, memories>>

Byte == 0 .. N - 1

Cipher == INSTANCE RC4
RAM == INSTANCE SyncRAM

Init_s_mem == INSTANCE InitMemory WITH
  start_flag <- state = "S_MEM_INIT", state <- i_state

Swap_s_mem == INSTANCE SwapMemory WITH
  start_flag <- state = "S_MEM_SWAP", data_out <- s_q,
  secret_key <- Cipher!KeyBytes(secret_key), state <- w_state,
  i_index <- w_i, j_index <- w_j, i_data <- w_i_data, j_data <- w_j_data,
  address <- w_address, data_in <- w_data

Decrypt_d_mem == INSTANCE DecryptMemory WITH
  start_flag <- state = "S_MEM_DECRYPT",
  s_data_out <- s_q, d_data_out <- d_q, e_data_out <- e_q,
  state <- x_state, i_index <- x_i, j_index <- x_j, k_index <- x_k,
  i_data <- x_i_data, j_data <- x_j_data, address <- x_address,
  s_data_in <- x_s_data, d_data_in <- x_d_data

(* The s_memory multiplexers; decrypt_memory drives it in every other state. *)
Selected(init_memory, swap_memory, decrypt_memory) ==
  IF state = "S_MEM_INIT" THEN init_memory
  ELSE IF state = "S_MEM_SWAP" THEN swap_memory ELSE decrypt_memory

s_mem_addr == Selected(counter, w_address, x_address)
s_mem_data_in == Selected(counter, w_data, x_s_data)
s_mem_write == Selected(Init_s_mem!wren, Swap_s_mem!wren, Decrypt_d_mem!s_wren)

(* Mutant: the last key of the range is left to the next core. *)
key_end_value_Exclusive == (KeyStart + KeyRange - 1) % (N * N * N)

key_end_value == (KeyStart + KeyRange) % (N * N * N)

Rom(a) == IF a < MessageLength THEN e_mem[a] ELSE 0

Init ==
  /\ state = "IDLE" /\ secret_key = 0 /\ stop = FALSE
  /\ Init_s_mem!Start /\ Swap_s_mem!Start /\ Decrypt_d_mem!Start
  /\ s_mem = [a \in Byte |-> 0] /\ s_q = 0
  /\ d_mem = [a \in Byte |-> 0] /\ d_q = 0
  /\ e_mem \in Messages /\ e_q = Rom(0)

(* The datapath FSM; datapath_start_flag is tied high in ksa.sv. *)
Begin ==
  /\ state = "IDLE" /\ state' = "S_MEM_INIT" /\ secret_key' = KeyStart

Initialise ==
  /\ state = "S_MEM_INIT"
  /\ state' = IF Init_s_mem!done_flag THEN "S_MEM_SWAP" ELSE state
  /\ UNCHANGED secret_key

(* Mutant: the hand-over looks at the index instead of done_flag. *)
Shuffle_AtLastIndex ==
  /\ state = "S_MEM_SWAP"
  /\ state' = IF w_i = N - 1 THEN "S_MEM_DECRYPT" ELSE state
  /\ UNCHANGED secret_key

Shuffle ==
  /\ state = "S_MEM_SWAP"
  /\ state' = IF Swap_s_mem!done_flag THEN "S_MEM_DECRYPT" ELSE state
  /\ UNCHANGED secret_key

(* Mutant: no end at the last key of the search. *)
Try_NoLastKey ==
  /\ state = "S_MEM_DECRYPT"
  /\ IF ~Decrypt_d_mem!done_flag THEN UNCHANGED <<state, secret_key>>
     ELSE IF key_found_flag \/ secret_key = key_end_value
       THEN state' = "DONE" /\ UNCHANGED secret_key
       ELSE state' = "S_MEM_INIT" /\ secret_key' = secret_key + 1

(* Mutant: the next trial goes on with the shuffled table. *)
Try_NoInit ==
  /\ state = "S_MEM_DECRYPT"
  /\ IF ~Decrypt_d_mem!done_flag THEN UNCHANGED <<state, secret_key>>
     ELSE IF key_found_flag \/ secret_key \in {key_end_value, LastKey}
       THEN state' = "DONE" /\ UNCHANGED secret_key
       ELSE state' = "S_MEM_SWAP" /\ secret_key' = secret_key + 1

Try ==
  /\ state = "S_MEM_DECRYPT"
  /\ IF ~Decrypt_d_mem!done_flag THEN UNCHANGED <<state, secret_key>>
     ELSE IF key_found_flag \/ secret_key \in {key_end_value, LastKey}
       THEN state' = "DONE" /\ UNCHANGED secret_key
       ELSE state' = "S_MEM_INIT" /\ secret_key' = secret_key + 1

Stay == state = "DONE" /\ UNCHANGED <<state, secret_key>>

(* Mutant: a stopped core shows its first key again. *)
Stop_Rewinds == state' = "DONE" /\ secret_key' = KeyStart

Stop == state' = "DONE" /\ UNCHANGED secret_key

ControlFSM ==
  IF stop THEN Stop ELSE Begin \/ Initialise \/ Shuffle \/ Try \/ Stay

Memories ==
  /\ s_mem' = RAM!CellsAfter(s_mem, s_mem_write, s_mem_addr, s_mem_data_in)
  /\ s_q' = RAM!QAfter(s_mem, s_mem_write, s_mem_addr, s_mem_data_in)
  /\ d_mem' = RAM!CellsAfter(d_mem, Decrypt_d_mem!d_wren, x_address, x_d_data)
  /\ d_q' = RAM!QAfter(d_mem, Decrypt_d_mem!d_wren, x_address, x_d_data)
  /\ e_q' = Rom(x_address)
  /\ UNCHANGED e_mem

(* stop rises one edge after a key is found, here or in another core, and   *)
(* stays up (multicore_controller.sv 70-102).                               *)
StopInput == stop' \in IF stop \/ key_found_flag THEN {TRUE} ELSE BOOLEAN

Clock ==
  /\ ControlFSM /\ Init_s_mem!Tick /\ Swap_s_mem!Tick /\ Decrypt_d_mem!Tick
  /\ Memories /\ StopInput

(* The asynchronous reset, pressed for at least one clock edge: the FSMs    *)
(* are forced, the cells stay, and the controller drops stop.               *)
Reset ==
  /\ state' = "IDLE" /\ secret_key' = KeyStart /\ stop' = FALSE
  /\ Init_s_mem!Reset /\ Swap_s_mem!Reset /\ Decrypt_d_mem!Reset
  /\ UNCHANGED memories

Next == Clock \/ Reset

Spec == Init /\ [][Next]_vars

(* CLOCK_50 is a free-running oscillator; nobody owes the core a stop. *)
ClockAlone == Clock /\ (stop' => stop \/ key_found_flag)
FairSpec == Spec /\ WF_vars(ClockAlone)

TypeOK ==
  /\ state \in {"IDLE", "S_MEM_INIT", "S_MEM_SWAP", "S_MEM_DECRYPT", "DONE"}
  /\ secret_key \in 0 .. LastKey /\ stop \in BOOLEAN
  /\ Init_s_mem!TypeOK /\ Swap_s_mem!TypeOK /\ Decrypt_d_mem!TypeOK
  /\ s_mem \in [Byte -> Byte] /\ d_mem \in [Byte -> Byte]
  /\ s_q \in Byte /\ d_q \in Byte /\ e_q \in Byte

-----------------------------------------------------------------------------
(* Whenever the shuffling engine hands s_memory over to the decrypting one, *)
(* the memory is RC4's table for the key under trial, whatever earlier       *)
(* trials, stops and resets left in it (datapath.sv 118-120, 160-165).       *)
TableIsScheduled ==
  state = "S_MEM_DECRYPT" /\ x_state = "IDLE" =>
    s_mem = Cipher!Shuffled(secret_key)

(* A found key is right: d_memory holds RC4's plain text of the whole       *)
(* message under secret_key and all of it is letters, also when the core    *)
(* was stopped while it was still decrypting (datapath.sv 139-142, 166-170). *)
FoundMessageIsPlain ==
  key_found_flag =>
    /\ Cipher!Decrypts(secret_key, e_mem)
    /\ \A k \in 0 .. MessageLength - 1 :
         d_mem[k] = Cipher!Plain(secret_key, e_mem)[k]

(* No engine but the selected one wants to write s_memory: the multiplexers *)
(* never drop a write of a core that was not stopped (datapath.sv 118-120). *)
NoWriteDropped ==
  ~stop /\ state # "DONE" =>
    /\ Init_s_mem!wren => state = "S_MEM_INIT"
    /\ Swap_s_mem!wren => state = "S_MEM_SWAP"
    /\ Decrypt_d_mem!s_wren => state = "S_MEM_DECRYPT"

-----------------------------------------------------------------------------
(* The core as the controller sees it. *)
Search == INSTANCE CoreSearch

(* A stopped core lets the decryption it had begun go on. *)
Running == state = "S_MEM_DECRYPT" \/ (state = "DONE" /\ x_state # "IDLE")

Core ==
  [phase |-> IF state \in {"IDLE", "DONE"} THEN state ELSE "SEARCH",
   key   |-> secret_key,
   trial |-> IF state \in {"S_MEM_INIT", "S_MEM_SWAP"} THEN "prepare"
             ELSE IF Running /\ ~key_found_flag THEN "decrypt" ELSE "none",
   found |-> key_found_flag]

CoreSteps ==
  {Search!After(Core, KeyStart, Cipher!Decrypts(secret_key, e_mem), stop, p) :
     p \in BOOLEAN} \cup {Search!Fresh(KeyStart)}

(* Every edge of the core is one of the abstract core: the verdict of a     *)
(* trial is RC4's own, keys are tried one by one up to key_end_value, and a *)
(* stopped core only ever finishes the trial it had begun.                   *)
ImplementsCoreSearch ==
  /\ Core = Search!Fresh(0)
  /\ [][Core' \in CoreSteps]_Core

(* Each trial comes to an end: unless reset keeps coming the core reaches   *)
(* DONE for good, because no engine waits for ever, in whatever state it was *)
(* stopped or reset, and the keys run out (datapath.sv 139-188).             *)
SearchEnds == []<><<Reset>>_vars \/ <>[](state = "DONE")
=============================================================================
