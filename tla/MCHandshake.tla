---------------------------- MODULE MCHandshake ----------------------------
\* Two clients.
EXTENDS Handshake, TLC

CONSTANTS c1, c2

MCClients == {c1, c2}
\* Both ask for the same file: the clients are interchangeable.
MCOneFile == [c \in MCClients |-> <<"a">>]
Symmetry == Permutations(MCClients)
=============================================================================
