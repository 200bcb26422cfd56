------------------------------ MODULE MCConnection ------------------------------
(***************************************************************************)
(* Instances of Connection for TLC.                                        *)
(***************************************************************************)
EXTENDS ConnectionInvariant

CONSTANTS a, b    \* the endpoints, model values

MCEndpoint == {a, b}

PerEndpoint(x, y) == [e \in {a, b} |-> IF e = a THEN x ELSE y]

Ones       == PerEndpoint({1}, {1})
Twos       == PerEndpoint({2}, {2})
AThree     == PerEndpoint({3}, {1})
BResizes   == PerEndpoint({2}, {2, 3})
AOnlyTwo   == PerEndpoint(2, 0)
AOnlyThree == PerEndpoint(3, 0)
FourAndOne == PerEndpoint(4, 1)

=============================================================================
