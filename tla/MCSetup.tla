------------------------------ MODULE MCSetup ------------------------------
\* One client, on every host with up to two interfaces.
EXTENDS Setup

CONSTANT c1

MCFile == [c \in {c1} |-> <<"a">>]
=============================================================================
