--------------------------- MODULE MCTopDownWalk ---------------------------
(* Every bag of three certificates and one anchor, under every issuing     *)
(* relation between them, self-signed look-alikes included.                *)
EXTENDS TopDownWalk

CONSTANTS r, a, b, c

MCCertificate == {r, a, b, c}
MCAnchors == {r}
\* What issued an anchor never matters: its embedded copy is accepted first.
MCLinks == (MCCertificate \ MCAnchors) \X MCCertificate
=============================================================================
