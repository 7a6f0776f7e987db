------------------------------- MODULE MCArp -------------------------------
\* Three nodes; the hardware address of the first has no zero byte, that of the
\* second has one, that of the third begins with one and has only even bytes.
\* The first two ask for each other and are started again, and the first asks
\* for the third.
EXTENDS Arp

CONSTANTS n1, n2, n3

MCNodes == {n1, n2, n3}
MCThird == {n3}
MCTerminated == {n2, n3}
MCOdd == {n1, n2}
MCAsks == {<<n1, n2>>, <<n1, n3>>, <<n2, n1>>}
MCStarts == [n \in MCNodes |-> IF n = n3 THEN 1 ELSE 2]
=============================================================================
