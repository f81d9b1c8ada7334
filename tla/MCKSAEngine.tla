---------------------------- MODULE MCKSAEngine ----------------------------
(* Constants of the model-checking runs of KSAEngine. *)
EXTENDS KSAEngine

(* The table init_memory.sv leaves. *)
IdentityOnly == {[a \in Byte |-> a]}

AnyTable == [Byte -> Byte]

=============================================================================
