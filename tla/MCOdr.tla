------------------------------- MODULE MCOdr -------------------------------
EXTENDS Odr

CONSTANTS v1, v2, v3, c1, c2

MCNodes == {v1, v2, v3}

\* A line, with both clients at one end and the time server at the other.
MCLine == {{v1, v2}, {v2, v3}}
MCBothAtEnd == (c1 :> v1) @@ (c2 :> v1)
Symmetry == Permutations({c1, c2})

\* A triangle, with clients on two nodes and the time server on the third.
MCTriangle == {{v1, v2}, {v2, v3}, {v1, v3}}
MCApart == (c1 :> v1) @@ (c2 :> v2)
=============================================================================
