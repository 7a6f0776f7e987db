----------------------------- MODULE MCEchoTime -----------------------------
\* Two clients of one server.  The user of the first may type what its parent
\* takes for messages of the child; that of the second types one line a session.
EXTENDS EchoTime

CONSTANTS c1, c2

MCClients == {c1, c2}
MCTexts == [c \in MCClients |->
  IF c = c1 THEN <<{"line", "cannot connect to server"}, {"server process crash"}>>
  ELSE <<{"line"}, {}>>]
=============================================================================
