------------------------------ MODULE AsLease ------------------------------
(***************************************************************************)
(* What the context scheduler promises its callers, without saying how: a  *)
(* hardware address space is leased to at most one context at a time, a    *)
(* context holds at most one lease, the lease lives exactly as long as     *)
(* somebody holds a reference to the context, and it does not move.        *)
(* CtxSched is shown to implement this module.                             *)
(***************************************************************************)
EXTENDS Naturals

CONSTANTS
  Ctx,      \* contexts
  AS        \* hardware address spaces

VARIABLES
  lease,    \* lease[a]: the contexts that hold a (none or one)
  holders   \* holders[c]: references callers hold to c

vars == <<lease, holders>>

Leases(c) == {a \in AS : c \in lease[a]}

TypeOK ==
  /\ lease \in [AS -> SUBSET Ctx]
  /\ holders \in [Ctx -> Nat]

Init ==
  /\ lease = [a \in AS |-> {}]
  /\ holders = [c \in Ctx |-> 0]

\* The first reference to c takes a lease on an address space nobody has.
Acquire(c, a) ==
  /\ holders[c] = 0
  /\ lease[a] = {}
  /\ Leases(c) = {}
  /\ lease' = [lease EXCEPT ![a] = {c}]
  /\ holders' = [holders EXCEPT ![c] = 1]

\* A further reference is only ever derived from one that exists.
Share(c) ==
  /\ holders[c] > 0
  /\ holders' = [holders EXCEPT ![c] = @ + 1]
  /\ UNCHANGED lease

\* The last reference gives the lease back.
Drop(c) ==
  /\ holders[c] > 0
  /\ holders' = [holders EXCEPT ![c] = @ - 1]
  /\ lease' = IF holders[c] = 1
                THEN [a \in AS |-> lease[a] \ {c}]
                ELSE lease

Next ==
  \E c \in Ctx :
    \/ \E a \in AS : Acquire(c, a)
    \/ Share(c)
    \/ Drop(c)

Spec == Init /\ [][Next]_vars
=============================================================================
