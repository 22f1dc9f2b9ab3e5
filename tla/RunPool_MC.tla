---------------------------- MODULE RunPool_MC -----------------------------
(* Contexts c1 and c2 submit atoms, vi is the context of vinstr. *)
EXTENDS RunPool, TLC
CONSTANTS c1, c2, vi
MC_Ctx2 == {c1, vi}
MC_Ctx3 == {c1, c2, vi}
Perms == Permutations({c1, c2})
=============================================================================
