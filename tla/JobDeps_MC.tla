----------------------------- MODULE JobDeps_MC -----------------------------
(* Small instances of JobDeps. *)
EXTENDS JobDeps

OnSlots == {"js0", "js1"}
To(ids) == {None} \cup [id : ids, type : {"data", "order"}]
\* Submissions of the given kinds; a second dependency only on a newer atom.
Shapes(kinds, ids) ==
  {j \in [kind : kinds, valid : {TRUE}, pre : {<<p, q>> : p \in To(ids), q \in To(ids)}] :
     j.pre[2].id = NoAtom \/ (j.pre[1].id # NoAtom /\ j.pre[1].id < j.pre[2].id)}

\* Three atoms: a job or a soft job first, then jobs on either slot, soft jobs
\* and bare dependencies, some of them invalid, with every graph of dependencies.
MixedJobs ==
  [a \in 1..3 |->
    CASE a = 1 -> Shapes({"js0", "soft"}, {})
      [] a = 2 -> Shapes({"js0", "js1", "soft"}, {1})
      [] a = 3 -> Shapes({"js0", "js1"}, {1, 2}) \cup
                  {[j EXCEPT !.valid = FALSE] : j \in Shapes({"dep"}, {1, 2})} \cup
                  Shapes({"dep"}, {1, 2})]

\* Two atoms: every kind, every dependency, also on a number not used yet.
PairJobs == [a \in 1..2 |-> Shapes(OnSlots \cup {"soft", "dep"}, (1..2) \ {a})]
=============================================================================
