------------------------------- MODULE Player -------------------------------
(***************************************************************************)
(* What the iPod promises: at each sample one half of a word; after the     *)
(* second half the next word in the chosen direction.  Words come from a    *)
(* queue of two: the one shown, and the one that was asked for last.        *)
(***************************************************************************)
EXTENDS Integers

CONSTANTS Words, NoWord

VARIABLES
  playing, forward, restart,   \* the keys' doing
  address, second,             \* the word asked for last; the second half is due
  shown, ahead,                \* the word being played, the next one
  out

control == <<playing, forward, restart>>
vars == <<control, address, second, shown, ahead, out>>

Following(a) == IF forward THEN (a + 1) % Words ELSE (a + Words - 1) % Words

Init ==
  /\ playing = FALSE /\ forward = FALSE /\ restart = FALSE
  /\ address = 0 /\ second = FALSE
  /\ shown = NoWord /\ ahead = NoWord /\ out = <<>>

(* The keys take effect between two samples; a restart goes to word 0. *)
Obey(a) ==
  /\ playing' \in BOOLEAN /\ forward' \in BOOLEAN /\ restart' \in BOOLEAN
  /\ address' = IF restart' THEN 0 ELSE a

Hold == restart /\ Obey(0) /\ UNCHANGED <<second, shown, ahead, out>>

Mute ==
  /\ ~restart /\ ~playing /\ out' = <<>>
  /\ Obey(address) /\ UNCHANGED <<second, shown, ahead>>

FirstHalf ==
  /\ ~restart /\ playing /\ ~second /\ second' = TRUE
  /\ out' = <<shown, IF forward THEN "high" ELSE "low">>
  /\ Obey(address) /\ UNCHANGED <<shown, ahead>>

SecondHalf ==
  /\ ~restart /\ playing /\ second /\ second' = FALSE
  /\ out' = <<shown, IF forward THEN "low" ELSE "high">>
  /\ Obey(Following(address)) /\ shown' = ahead /\ ahead' = address'

Next == Hold \/ Mute \/ FirstHalf \/ SecondHalf

Spec == Init /\ [][Next]_vars
=============================================================================
