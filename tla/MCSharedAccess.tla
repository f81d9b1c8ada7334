--------------------------- MODULE MCSharedAccess ---------------------------
EXTENDS SharedAccess, TLC

CONSTANTS a, b

MCTurn == (a :> b) @@ (b :> a)
=============================================================================
