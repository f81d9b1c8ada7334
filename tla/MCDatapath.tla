----------------------------- MODULE MCDatapath -----------------------------
(* Constants of the model-checking runs of Datapath. *)
EXTENDS Datapath, Bitwise

BitXor(a, b) == a ^^ b

AnyMessage == [0 .. MessageLength - 1 -> Byte]
=============================================================================
