------------------------------- MODULE MCFtp -------------------------------
\* Two clients, and the names b.x and b[2].x, the second of them in use at the
\* start: it is the first of a listing until b.x is uploaded, and once more when
\* that is deleted.
EXTENDS Ftp

CONSTANTS c1, c2

MCFirstFiles == {<<1, 2>>}
MCGiven == c1 :> {<<1, 0>>} @@ c2 :> {<<1, 0>>, <<1, 2>>}
=============================================================================
