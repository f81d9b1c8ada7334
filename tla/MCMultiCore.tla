---------------------------- MODULE MCMultiCore ----------------------------
(* Constants of the model-checking runs of MultiCore. *)
EXTENDS MultiCore

(* Up to two good keys anywhere in the searched keys. *)
FewGood == {g \in SUBSET (0 .. LastKey) : Cardinality(g) <= 2}

OneGood == {g \in SUBSET Keys : Cardinality(g) <= 1}
=============================================================================
