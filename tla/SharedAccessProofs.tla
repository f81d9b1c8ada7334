------------------------- MODULE SharedAccessProofs -------------------------
(***************************************************************************)
(* Whatever the number of clients, the order in which they are looked at   *)
(* and the arguments, a client is given the answer to its own.             *)
(***************************************************************************)
EXTENDS SharedAccess, TLAPS

\* Where the target is at each step of the arbiter, and that the arguments of
\* the client it works for stand still meanwhile: the client has asked.
Handshake ==
  /\ fsm \in {"check_start", "give_start", "give_finish"} => target = "idle"
  /\ fsm = "wait_for_finish" => target \in {"busy", "done"} /\ work = input_arguments[client]
  /\ fsm = "register_data" => target = "done"
  /\ target = "done" => in_received_data = work
  /\ fsm # "check_start" => asked[client] /\ ~start_request[client]
  /\ \A c \in Clients : start_request[c] => asked[c]
Registered ==
  fsm \in {"register_data", "give_finish"} => received_data[client] = input_arguments[client]
Inv == TypeOK /\ Handshake /\ Registered

LEMMA InitInv == Init => Inv
BY SharedAssumption DEF Init, Inv, TypeOK, Handshake, Registered, Steps

\* A client that asks is not the one that is being served.
LEMMA AskInv == ASSUME Inv, NEW c \in Clients, Ask(c) PROVE Inv'
<1>1. TypeOK'
  BY DEF Inv, TypeOK, Ask, arbiter, Steps
<1>2. fsm # "check_start" => client # c /\ input_arguments'[client] = input_arguments[client]
  BY DEF Inv, TypeOK, Handshake, Ask
<1>3. Handshake'
  BY <1>2 DEF Inv, TypeOK, Handshake, Ask, arbiter
<1>4. Registered'
  BY <1>2 DEF Inv, Registered, Ask, arbiter
<1>5. QED
  BY <1>1, <1>3, <1>4 DEF Inv

LEMMA ResetInv == ASSUME Inv, Reset PROVE Inv'
<1>1. TypeOK'
  BY DEF Inv, TypeOK, Reset, clients
<1>2. Handshake' /\ Registered'
  BY DEF Inv, Handshake, Registered, Reset, clients
<1>3. QED
  BY <1>1, <1>2 DEF Inv

\* The target starts on give_start only, with the client's arguments.
LEMMA ClockInv == ASSUME Inv, Clock PROVE Inv'
<1> USE DEF Inv
<1>1. target' \in {"idle", "busy", "done"} /\ work' \in Args /\ in_received_data' \in Args \cup {NoAnswer}
  BY DEF Clock, Target, TypeOK, output_arguments
<1>2. input_arguments' = input_arguments
  BY DEF Clock
<1>3. CASE check_start
  <2>1. target = "idle" /\ ~start_target_state_machine
    BY <1>3 DEF check_start, Handshake, start_target_state_machine
  <2>2. target' = "idle"
    BY <2>1 DEF Clock, Target
  <2>3. TypeOK'
    <3>1. fsm' \in Steps /\ client' \in Clients
      BY <1>3, SharedAssumption DEF check_start, TypeOK, Steps
    <3>2. start_request' \in [Clients -> BOOLEAN]
      BY <1>3 DEF check_start, TypeOK
    <3>3. received_data' = received_data /\ asked' = asked
      BY <1>3 DEF check_start
    <3>4. QED
      BY <1>1, <1>2, <3>1, <3>2, <3>3 DEF TypeOK
  <2>4. CASE start_request[client]
    BY <1>3, <2>2, <2>3, <2>4 DEF check_start, TypeOK, Handshake, Registered
  <2>5. CASE ~start_request[client]
    BY <1>3, <2>2, <2>3, <2>5 DEF check_start, TypeOK, Handshake, Registered
  <2>6. QED
    BY <2>4, <2>5
<1>4. CASE give_start
  <2>1. target' = "busy" /\ work' = input_arguments[client]
    BY <1>4 DEF give_start, Clock, Target, Handshake, start_target_state_machine, output_arguments
  <2>2. TypeOK'
    BY <1>1, <1>2, <1>4 DEF give_start, TypeOK, Steps
  <2>3. Handshake' /\ Registered'
    BY <1>2, <1>4, <2>1 DEF give_start, Handshake, Registered
  <2>4. QED
    BY <2>2, <2>3
<1>5. CASE wait_for_finish
  <2>1. start_target_state_machine /\ work' = work /\ work = input_arguments[client]
    BY <1>5 DEF wait_for_finish, Clock, Target, Handshake, start_target_state_machine
  <2>2. CASE target = "done"
    <3>1. target' = "done" /\ in_received_data' = work /\ in_received_data = work
      BY <2>1, <2>2 DEF Clock, Target, Handshake
    <3>2. fsm' = "register_data" /\ received_data' = [received_data EXCEPT ![client] = work]
      BY <1>5, <2>2, <3>1 DEF wait_for_finish, target_state_machine_finished
    <3>3. TypeOK'
      BY <1>1, <1>2, <1>5, <3>2 DEF wait_for_finish, TypeOK, Steps
    <3>4. Handshake' /\ Registered'
      BY <1>2, <1>5, <2>1, <3>1, <3>2 DEF wait_for_finish, Handshake, Registered, TypeOK
    <3>5. QED
      BY <3>3, <3>4
  <2>3. CASE target = "busy"
    <3>1. fsm' = fsm /\ received_data' = received_data
      BY <1>5, <2>3 DEF wait_for_finish, target_state_machine_finished
    <3>2. target' \in {"busy", "done"} /\ (target' = "done" => in_received_data' = work')
      BY <2>1, <2>3 DEF Clock, Target
    <3>3. TypeOK'
      BY <1>1, <1>2, <1>5, <3>1 DEF wait_for_finish, TypeOK, Steps
    <3>4. Handshake' /\ Registered'
      BY <1>2, <1>5, <2>1, <3>1, <3>2 DEF wait_for_finish, Handshake, Registered
    <3>5. QED
      BY <3>3, <3>4
  <2>4. QED
    BY <1>5, <2>2, <2>3 DEF wait_for_finish, Handshake
<1>6. CASE register_data
  <2>1. target' = "idle"
    BY <1>6 DEF register_data, Clock, Target, Handshake, start_target_state_machine
  <2>2. TypeOK'
    BY <1>1, <1>2, <1>6 DEF register_data, TypeOK, Steps
  <2>3. Handshake' /\ Registered'
    BY <1>2, <1>6, <2>1 DEF register_data, Handshake, Registered
  <2>4. QED
    BY <2>2, <2>3
<1>7. CASE give_finish
  <2>1. target' = "idle"
    BY <1>7 DEF give_finish, Clock, Target, Handshake, start_target_state_machine
  <2>2. ~start_request[client]
    BY <1>7 DEF give_finish, Handshake
  <2>3. TypeOK'
    BY <1>1, <1>2, <1>7, SharedAssumption DEF give_finish, TypeOK, Steps
  <2>4. Handshake' /\ Registered'
    BY <1>7, <2>1, <2>2 DEF give_finish, Handshake, Registered, TypeOK
  <2>5. QED
    BY <2>3, <2>4
<1>8. QED
  BY <1>3, <1>4, <1>5, <1>6, <1>7 DEF Clock

LEMMA NextInv == Inv /\ [Next]_vars => Inv'
<1> SUFFICES ASSUME Inv, [Next]_vars PROVE Inv'
  OBVIOUS
<1>1. CASE Next
  BY <1>1, AskInv, ResetInv, ClockInv DEF Next
<1>2. CASE UNCHANGED vars
  BY <1>2 DEF vars, arbiter, clients, Inv, TypeOK, Handshake, Registered
<1>3. QED
  BY <1>1, <1>2

THEOREM Invariance == Spec => []Inv
BY InitInv, NextInv, PTL DEF Spec

(* Every client that is told it is finished has the answer to the arguments  *)
(* it gave, for any clients, any order of looking at them and any time the   *)
(* target takes.                                                             *)
THEOREM EveryClientHasItsAnswer == Spec => []OwnAnswer
<1>1. Inv => OwnAnswer
  BY DEF Inv, Registered, OwnAnswer
<1>2. QED
  BY <1>1, Invariance, PTL
=============================================================================
