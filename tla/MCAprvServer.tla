---------------------------- MODULE MCAprvServer ----------------------------
(* More clients than places, permits and workers, so that every semaphore  *)
(* runs out, and one more task and instance than there are workers.        *)
EXTENDS AprvServer, TLC

CONSTANTS a, b, c, d, k1, k2, k3, i1, i2, i3

MCClient == {a, b, c, d}
MCTask == {k1, k2, k3}
MCInstance == {i1, i2, i3}
Symmetry == Permutations(MCClient) \cup Permutations(MCTask) \cup Permutations(MCInstance)
=============================================================================
