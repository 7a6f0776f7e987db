------------------------------- MODULE MCRto -------------------------------
\* The constants of udpserv.c: 12 retransmissions, 1000 and 3000 milliseconds,
\* 32-bit ints.
EXTENDS Rto

\* No delay, a local network, around the estimate, a slow consumer, idle for
\* longer than the longest timer.
MCSamples == {0, 800, 200000, 1700000, 9000000}
=============================================================================
