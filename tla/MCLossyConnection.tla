-------------------------- MODULE MCLossyConnection --------------------------
(***************************************************************************)
(* An instance of LossyConnection for TLC.                                 *)
(***************************************************************************)
EXTENDS LossyConnection

CONSTANTS a, b    \* the endpoints, model values

MCEndpoint == {a, b}

PerEndpoint(x, y) == [e \in {a, b} |-> IF e = a THEN x ELSE y]

OneEach    == PerEndpoint({1}, {1})
AWider     == PerEndpoint({2}, {1})
AOnlyThree == PerEndpoint(3, 0)

=============================================================================
