----------------------------- MODULE JobSlot_MC -----------------------------
(* Small instances of JobSlot. *)
EXTENDS JobSlot

\* Atoms 1 and 3 are of one context, the second of another.
MC_Mixed == <<1, 2, 1>>

\* Two atoms of one context.
MC_Same == <<1, 1>>
=============================================================================
