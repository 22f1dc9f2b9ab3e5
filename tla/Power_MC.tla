------------------------------ MODULE Power_MC ------------------------------
(* Two contexts: a shader job and a job that uses the tiler as well. *)
EXTENDS Power, TLC

MC_TwoContexts == 1 :> 1 @@ 2 :> 2
MC_OneContext == 1 :> 1 @@ 2 :> 1
MC_Needs == 1 :> {"shader"} @@ 2 :> {"shader", "tiler"}
=============================================================================
