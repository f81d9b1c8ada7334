---------------------------- MODULE KeySchedule ----------------------------
(***************************************************************************)
(* What the key-scheduling pass promises, one atomic round per index: the   *)
(* algorithm swap_memory.sv is built for (README.md gives it as pseudocode, *)
(* lines 94-99).                                                            *)
(***************************************************************************)
EXTENDS Naturals

CONSTANT N, Tables   \* Tables: what s may hold when a pass is started

VARIABLES running, key, s, i, j

vars == <<running, key, s, i, j>>

Byte == 0 .. N - 1
Table == [Byte -> Byte]
Key == [0 .. 2 -> Byte]

Swapped(t, a, b) == [t EXCEPT ![a] = t[b], ![b] = t[a]]

(* The index the round at i swaps with. *)
NextJ == (j + s[i] + key[i % 3]) % N

Init ==
  /\ running = FALSE /\ key \in Key /\ s \in Tables /\ i = 0 /\ j = 0

Begin ==
  /\ ~running /\ running' = TRUE
  /\ key' \in Key /\ s' \in Tables /\ UNCHANGED <<i, j>>

Round ==
  /\ running /\ i < N
  /\ s' = Swapped(s, i, NextJ) /\ i' = i + 1 /\ j' = NextJ
  /\ UNCHANGED <<running, key>>

Finish ==
  /\ running /\ i = N
  /\ running' = FALSE /\ i' = 0 /\ j' = 0 /\ UNCHANGED <<key, s>>

(* A reset abandons the pass and leaves some table behind. *)
Abort ==
  /\ running' = FALSE /\ i' = 0 /\ j' = 0
  /\ s' \in Table /\ UNCHANGED key

Next == Begin \/ Round \/ Finish \/ Abort

Spec == Init /\ [][Next]_vars
FairSpec == Spec /\ WF_vars(Round \/ Finish)
=============================================================================
