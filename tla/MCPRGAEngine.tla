---------------------------- MODULE MCPRGAEngine ----------------------------
(* Constants of the model-checking runs of PRGAEngine. *)
EXTENDS PRGAEngine, FiniteSets, Bitwise

BitXor(a, b) == a ^^ b

Permutations == {t \in [Byte -> Byte] : \A v \in Byte : \E a \in Byte : t[a] = v}

AnyTable == [Byte -> Byte]

AnyMessage == [0 .. MessageLength - 1 -> Byte]

=============================================================================
