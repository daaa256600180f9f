---------------------------- MODULE MCRateLimit ----------------------------
(* Instances of the limits for TLC.                                        *)
EXTENDS RateLimit, TLC

CONSTANTS r1, r2, r3, r4

Symmetry == Permutations(Posts) \cup Permutations(Requests \ Posts)
=============================================================================
