---------------------------- MODULE SharedAccess ----------------------------
(***************************************************************************)
(* hw3: two clients share one target state machine.  The arbiter looks at  *)
(* the clients in turn; for one that asks it starts the target with that   *)
(* client's arguments, waits for it to finish, registers what it returns   *)
(* and tells the client.                                                   *)
(*                                                                         *)
(* The target and the clients are outside the repository.  A client holds  *)
(* its request until it is reset and its arguments until it is told; the   *)
(* target holds its answer until it is started again, and takes back its   *)
(* finished signal when start is low.                                      *)
(***************************************************************************)
CONSTANTS
  Clients, First,   \* the clients, and the one that is looked at first
  Turn,             \* the client looked at after each
  Args, NoAnswer

ASSUME SharedAssumption ==
  First \in Clients /\ Turn \in [Clients -> Clients] /\ NoAnswer \notin Args

VARIABLES
  fsm, client,          \* state: what is done, and for whom (state[0])
  received_data,
  start_request, asked, input_arguments,   \* the clients
  target, work, in_received_data           \* the target

arbiter == <<fsm, client, received_data>>
clients == <<start_request, asked, input_arguments>>
vars == <<arbiter, clients, target, work, in_received_data>>

Steps == {"check_start", "give_start", "wait_for_finish", "register_data", "give_finish"}

Init ==
  /\ fsm = "check_start" /\ client = First
  /\ received_data = [c \in Clients |-> NoAnswer]
  /\ start_request = [c \in Clients |-> FALSE] /\ asked = [c \in Clients |-> FALSE]
  /\ input_arguments \in [Clients -> Args]
  /\ target = "idle" /\ work \in Args /\ in_received_data = NoAnswer

start_target_state_machine == fsm \in {"give_start", "wait_for_finish"}
output_arguments_Other == input_arguments[Turn[client]]
output_arguments == input_arguments[client]
target_state_machine_finished == target = "done"

Ask(c) ==
  /\ ~asked[c]
  /\ asked' = [asked EXCEPT ![c] = TRUE]
  /\ start_request' = [start_request EXCEPT ![c] = TRUE]
  /\ \E x \in Args : input_arguments' = [input_arguments EXCEPT ![c] = x]
  /\ UNCHANGED <<arbiter, target, work, in_received_data>>

\* The target at a clock edge: it starts with the arguments it is given, works
\* for any time, and finishes.
Target ==
  \/ /\ target = "idle"
     /\ IF start_target_state_machine THEN target' = "busy" /\ work' = output_arguments
        ELSE UNCHANGED <<target, work>>
     /\ UNCHANGED in_received_data
  \/ /\ target = "busy"
     /\ UNCHANGED work
     /\ \/ target' = "done" /\ in_received_data' = work
        \/ UNCHANGED <<target, in_received_data>>
  \/ /\ target = "done"
     /\ target' = IF start_target_state_machine THEN "done" ELSE "idle"
     /\ UNCHANGED <<work, in_received_data>>

\* The arbiter at a clock edge.  In give_start it resets the client's request.
check_start ==
  /\ fsm = "check_start"
  /\ IF start_request[client]
     THEN /\ fsm' = "give_start" /\ client' = client
          /\ start_request' = [start_request EXCEPT ![client] = FALSE]
     ELSE fsm' = "check_start" /\ client' = Turn[client] /\ start_request' = start_request
  /\ UNCHANGED <<received_data, asked>>

give_start ==
  /\ fsm = "give_start" /\ fsm' = "wait_for_finish"
  /\ UNCHANGED <<client, received_data, start_request, asked>>

\* received_data is clocked by state[6], just after the edge at which the target
\* may already show its next value.
wait_for_finish ==
  /\ fsm = "wait_for_finish"
  /\ IF target_state_machine_finished
     THEN /\ fsm' = "register_data"
          /\ \E x \in {in_received_data, in_received_data'} :
               received_data' = [received_data EXCEPT ![client] = x]
     ELSE UNCHANGED <<fsm, received_data>>
  /\ UNCHANGED <<client, start_request, asked>>

register_data ==
  /\ fsm = "register_data" /\ fsm' = "give_finish"
  /\ UNCHANGED <<client, received_data, start_request, asked>>

\* The client that is told is ready to ask again; the other one is looked at.
give_finish_Same ==
  /\ fsm = "give_finish" /\ fsm' = "check_start"
  /\ client' = client
  /\ asked' = [asked EXCEPT ![client] = FALSE]
  /\ UNCHANGED <<received_data, start_request>>

give_finish ==
  /\ fsm = "give_finish" /\ fsm' = "check_start"
  /\ client' = Turn[client]
  /\ asked' = [asked EXCEPT ![client] = FALSE]
  /\ UNCHANGED <<received_data, start_request>>

Clock ==
  /\ Target
  /\ check_start \/ give_start \/ wait_for_finish \/ register_data \/ give_finish
  /\ UNCHANGED input_arguments

\* The asynchronous reset clears the registers, not the state; used while an
\* answer is on its way to a client it would lose it.
Reset ==
  /\ fsm \in {"check_start", "give_start"}
  /\ received_data' = [c \in Clients |-> NoAnswer]
  /\ UNCHANGED <<fsm, client, clients, target, work, in_received_data>>

Next == Clock \/ Reset \/ \E c \in Clients : Ask(c)

\* The clock ticks for ever and the target does not work for ever.
Fairness == WF_vars(Clock) /\ SF_vars(Clock /\ target' = "done")
Spec == Init /\ [][Next]_vars /\ Fairness

-----------------------------------------------------------------------------
TypeOK ==
  /\ fsm \in Steps /\ client \in Clients
  /\ received_data \in [Clients -> Args \cup {NoAnswer}]
  /\ start_request \in [Clients -> BOOLEAN] /\ asked \in [Clients -> BOOLEAN]
  /\ input_arguments \in [Clients -> Args]
  /\ target \in {"idle", "busy", "done"} /\ work \in Args
  /\ in_received_data \in Args \cup {NoAnswer}

\* A client that is told it is finished has the answer to its own arguments,
\* however long the target took and whatever the other client asks meanwhile.
OwnAnswer == fsm = "give_finish" => received_data[client] = input_arguments[client]

\* Every request is answered, however often the other client asks.
EveryRequestIsAnswered == \A c \in Clients : asked[c] ~> ~asked[c]
=============================================================================
