----------------------------- MODULE CoreSearch -----------------------------
(***************************************************************************)
(* One decryption core as the multi-core controller sees it: datapath.sv    *)
(* with the three engines reduced to "a trial of the current key, which     *)
(* takes some clock cycles".  A core is a record                            *)
(*   phase   the datapath FSM: "IDLE", "SEARCH" (S_MEM_INIT, S_MEM_SWAP and *)
(*           S_MEM_DECRYPT) or "DONE"                                       *)
(*   key     the register secret_key                                        *)
(*   trial   "prepare" while the table is built and shuffled, "decrypt"     *)
(*           while decrypt_memory is at work on the message, else "none"    *)
(*   found   key_found_flag                                                 *)
(***************************************************************************)
EXTENDS Naturals

CONSTANTS
  KeyRange,   \* what key_end_value adds to the first key (24'h100000)
  LastKey     \* the last key of the search (0x3FFFFF)

Cores(Keys) ==
  [phase : {"IDLE", "SEARCH", "DONE"}, key : Keys,
   trial : {"none", "prepare", "decrypt"}, found : BOOLEAN]

(* Power-up and reset; power-up leaves the key register zero. *)
Fresh(key) ==
  [phase |-> "IDLE", key |-> key, trial |-> "none", found |-> FALSE]

(* The core in another phase with its trial in another state. *)
Move(core, phase, trial) ==
  [phase |-> phase, key |-> core.key, trial |-> trial, found |-> core.found]

(* A trial of key begins: its table is to be built. *)
Prepare(core, key) ==
  [phase |-> "SEARCH", key |-> key, trial |-> "prepare", found |-> core.found]

(* Mutant: no end at the last key of the search. *)
IsLast_NoLastKey(key, first) == key = first + KeyRange

(* Mutant: a range shorter than the distance between the cores. *)
IsLast_ShortRange(key, first) == key = first + KeyRange - 2 \/ key = LastKey

(* Is this the last key of the core that starts at first?  key_end_value    *)
(* itself is still tried.                                                    *)
IsLast(key, first) == key = first + KeyRange \/ key = LastKey

(* Mutant: only every second key is tried. *)
NextTrial_Skips(core, first) ==
  IF IsLast(core.key, first) \/ IsLast(core.key + 1, first)
    THEN Move(core, "DONE", "none") ELSE Prepare(core, core.key + 2)

(* The next key after a failed trial, or the end of the search. *)
NextTrial(core, first) ==
  IF IsLast(core.key, first)
    THEN Move(core, "DONE", "none") ELSE Prepare(core, core.key + 1)

(* decrypt_memory ends: it raises key_found_flag if the key is good. *)
Verdict(core, good, otherwise) ==
  IF good THEN [phase |-> core.phase, key |-> core.key,
                trial |-> "none", found |-> TRUE]
          ELSE otherwise

(* In DONE only a decryption that was under way goes on. *)
Halt(core, good, progress) ==
  IF core.trial # "decrypt" THEN Move(core, "DONE", "none")
  ELSE IF ~progress THEN Move(core, "DONE", "decrypt")
  ELSE Verdict(Move(core, "DONE", "decrypt"), good, Move(core, "DONE", "none"))

(* One clock edge.  first: the core's key_start_value; good: core.key makes *)
(* letters of the message; stop: the stop input; progress: at this edge the *)
(* running engine finishes.                                                  *)
After(core, first, good, stop, progress) ==
  IF stop \/ core.phase = "DONE" THEN Halt(core, good, progress)
  ELSE IF core.phase = "IDLE" THEN Prepare(core, first)
  ELSE IF core.found THEN Move(core, "DONE", core.trial)
  ELSE IF ~progress THEN core
  ELSE IF core.trial = "prepare" THEN Move(core, "SEARCH", "decrypt")
  ELSE Verdict(core, good, NextTrial(core, first))
=============================================================================
