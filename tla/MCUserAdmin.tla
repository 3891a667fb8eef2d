----------------------------- MODULE MCUserAdmin -----------------------------
EXTENDS UserAdmin, TLC

CONSTANTS a1, a2, b1, o1, o2, e1, e2, e3

MCOrgOf == (a1 :> o1) @@ (a2 :> o1) @@ (b1 :> o2)
MCEmailOf == (a1 :> e1) @@ (a2 :> e2) @@ (b1 :> e3)

Symmetry == Permutations(Requests)
=============================================================================
