------------------------- MODULE MCServerConnection -------------------------
(* Two callers and a closer over a pool of one: two exchanges can end at   *)
(* once, and a child can be replaced while a call holds the old target.    *)
(* Three callers leave as many connections in the pool as a call has       *)
(* attempts.                                                               *)
EXTENDS ServerConnection, TLC

CONSTANTS t1, t2, t3, c1, c2, c3

MCCaller == {t1, t2}
MCCaller3 == {t1, t2, t3}
MCConn == {c1, c2, c3}
Symmetry == Permutations(MCConn) \cup Permutations(MCCaller3)
=============================================================================
