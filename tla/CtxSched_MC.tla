---------------------------- MODULE CtxSched_MC ----------------------------
(* Three contexts competing for two address spaces. *)
EXTENDS CtxSched, TLC
CONSTANTS c1, c2, c3
MC_Ctx == {c1, c2, c3}
Perms == Permutations(MC_Ctx)
=============================================================================
