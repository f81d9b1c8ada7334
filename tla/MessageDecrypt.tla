--------------------------- MODULE MessageDecrypt ---------------------------
(***************************************************************************)
(* What the decrypting pass promises: RC4's key-stream loop (README.md      *)
(* lines 101-108), cut short at the first character that is not a letter,   *)
(* and a verdict that the key is found when all of them are.                *)
(***************************************************************************)
EXTENDS Naturals, Sequences

CONSTANTS N, MessageLength, Letters, ByteXor(_, _), Tables

VARIABLES
  running, msg,      \* a pass is under way; the encrypted message
  s, i, j,           \* the generator
  mixed,             \* the generator is one swap ahead of the output
  out,               \* the characters decrypted so far
  found              \* the verdict

vars == <<running, msg, s, i, j, mixed, out, found>>

Byte == 0 .. N - 1
Table == [Byte -> Byte]

Swapped(t, a, b) == [t EXCEPT ![a] = t[b], ![b] = t[a]]
NextI == (i + 1) % N
NextJ == (j + s[NextI]) % N
KeyByte == s[(s[i] + s[j]) % N]

AllLetters == \A n \in DOMAIN out : out[n] \in Letters

Init ==
  /\ running = FALSE /\ s \in Tables /\ i = 0 /\ j = 0
  /\ msg \in [0 .. MessageLength - 1 -> Byte]
  /\ mixed = FALSE /\ out = <<>> /\ found = FALSE

Begin ==
  /\ ~running /\ running' = TRUE /\ s' \in Tables
  /\ UNCHANGED <<msg, i, j, mixed, out, found>>

Mix ==
  /\ running /\ ~mixed /\ AllLetters /\ Len(out) < MessageLength
  /\ mixed' = TRUE /\ i' = NextI /\ j' = NextJ /\ s' = Swapped(s, NextI, NextJ)
  /\ UNCHANGED <<running, msg, out, found>>

Emit ==
  /\ mixed /\ mixed' = FALSE
  /\ out' = Append(out, ByteXor(KeyByte, msg[Len(out)]))
  /\ found' = FALSE
  /\ UNCHANGED <<running, msg, s, i, j>>

Accept ==
  /\ running /\ ~found /\ AllLetters /\ Len(out) = MessageLength
  /\ found' = TRUE
  /\ UNCHANGED <<running, msg, s, i, j, mixed, out>>

Finish ==
  /\ running /\ ~mixed
  /\ IF AllLetters THEN Len(out) = MessageLength /\ found ELSE ~found
  /\ running' = FALSE /\ i' = 0 /\ j' = 0 /\ out' = <<>>
  /\ UNCHANGED <<msg, s, mixed, found>>

(* A reset abandons the pass and leaves some table behind. *)
Abort ==
  /\ running' = FALSE /\ i' = 0 /\ j' = 0 /\ s' \in Table
  /\ mixed' = FALSE /\ out' = <<>> /\ found' = FALSE
  /\ UNCHANGED msg

Next == Begin \/ Mix \/ Emit \/ Accept \/ Finish \/ Abort

Spec == Init /\ [][Next]_vars
=============================================================================
