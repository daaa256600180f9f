----------------------------- MODULE MCTenants -----------------------------
(* Two organizations, two keys, two requests; each names one of two end users or none. *)
EXTENDS Tenants, TLC

CONSTANTS o1, o2, k1, k2, r1, r2, x1, x2

MCOrgs == {o1, o2}
MCKeys == {k1, k2}
MCRequests == {r1, r2}
MCExternals == {x1, x2}
Symmetry == Permutations(MCOrgs) \cup Permutations(MCKeys) \cup Permutations(MCRequests)
            \cup Permutations(MCExternals)
=============================================================================
