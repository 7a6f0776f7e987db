------------------------------- MODULE MCTour -------------------------------
\* A walk over three nodes, and one that comes back to two nodes.
EXTENDS Tour

CONSTANTS n1, n2, n3

MCNodes == {n1, n2, n3}
MCAsks == MCNodes \X MCNodes
MCStarts == [n \in MCNodes |-> 1]
MCTours == {<<n1, n2, n3>>, <<n1, n2, n1, n2>>}
=============================================================================
