------------------------------- MODULE AsPoke -------------------------------
(***************************************************************************)
(* The workaround that pokes the MMU of an address space every few         *)
(* milliseconds while an atom that needs it was told to stop               *)
(* (mali_kbase_mmu.c): a timer queues a work, the work starts the timer.   *)
(* The atoms of one context; its job-done workqueue releases them one at a *)
(* time.                                                                   *)
(***************************************************************************)
EXTENDS Integers, FiniteSets

CONSTANTS
  Atoms,
  Releasers   \* how many atoms may be released at once: one, by the workqueue

VARIABLES
  poking,        \* katom->poking and where its release is
  poke_refcount,
  poke_state,    \* the flags
  timer,         \* poke_timer is armed
  queued,        \* poke_work is queued
  worker,        \* the work: idle, or between the poke and the timer
  clash          \* an assertion on a queue or a state has failed

\* What the workqueue and the context guarantee.
PokeAssumption == IsFiniteSet(Atoms) /\ Releasers = 1

vars == <<poking, poke_refcount, poke_state, timer, queued, worker, clash>>

Init ==
  /\ poking = [a \in Atoms |-> "no"]
  /\ poke_refcount = 0 /\ poke_state = {}
  /\ timer = FALSE /\ queued = FALSE /\ worker = "idle" /\ clash = FALSE

\* queue_work, which must find the work not pending.
Queue(must) == queued' = TRUE /\ clash' = (clash \/ (must /\ queued))

\* kbase_as_poking_timer_retain_atom, when a soft-stop asks for it.
Retain(a) ==
  /\ poking[a] = "no"
  /\ poking' = [poking EXCEPT ![a] = "yes"]
  /\ poke_refcount' = poke_refcount + 1
  /\ \/ /\ poke_refcount = 0 /\ poke_state = {}
        /\ poke_state' = {"in flight"} /\ Queue(FALSE)
     \/ (poke_refcount # 0 \/ poke_state # {}) /\ UNCHANGED <<poke_state, queued, clash>>
  /\ UNCHANGED <<timer, worker>>

\* kbasep_as_do_poke: the MMU is poked, then the timer started if needed.
Poke ==
  /\ worker = "idle" /\ queued
  /\ queued' = FALSE /\ worker' = "poked"
  /\ clash' = (clash \/ "in flight" \notin poke_state)
  /\ UNCHANGED <<poking, poke_refcount, poke_state, timer>>

\* Mutant of Needed: a poke that is being killed starts the timer again.
Needed_Killing == poke_refcount > 0

\* Whether the work goes on.
Needed == poke_refcount > 0 /\ "killing" \notin poke_state

Restart ==
  /\ worker = "poked"
  /\ worker' = "idle" /\ timer' = (timer \/ Needed)
  /\ UNCHANGED <<poking, poke_refcount, poke_state, queued, clash>>

\* kbasep_as_poke_timer_callback.
Timer ==
  /\ timer
  /\ timer' = FALSE /\ Queue(TRUE)
  /\ UNCHANGED <<poking, poke_refcount, poke_state, worker>>

\* kbase_as_poking_timer_release_atom: the last one kills the timer,
Release(a) ==
  /\ poking[a] = "yes"
  /\ Cardinality({b \in Atoms : poking[b] \in {"cancel", "flush", "check"}}) < Releasers
  /\ poke_refcount' = poke_refcount - 1
  /\ \/ /\ poke_refcount = 1
        /\ poke_state' = poke_state \cup {"killing"}
        /\ poking' = [poking EXCEPT ![a] = "cancel"]
     \/ /\ poke_refcount > 1
        /\ poking' = [poking EXCEPT ![a] = "no"]
        /\ UNCHANGED poke_state
  /\ UNCHANGED <<timer, queued, worker, clash>>
\* waits for the timer and then the work,
Cancel(a) ==
  /\ poking[a] = "cancel"
  /\ timer' = FALSE
  /\ poking' = [poking EXCEPT ![a] = "flush"]
  /\ UNCHANGED <<poke_refcount, poke_state, queued, worker, clash>>
Flush(a) ==
  /\ poking[a] = "flush" /\ ~queued /\ worker = "idle"
  /\ poking' = [poking EXCEPT ![a] = "check"]
  /\ UNCHANGED <<poke_refcount, poke_state, timer, queued, worker, clash>>

\* Mutant of Check: an atom that retained the timer meanwhile is overlooked.
Check_Once(a) ==
  /\ poking[a] = "check"
  /\ poking' = [poking EXCEPT ![a] = "no"]
  /\ poke_state' = {}
  /\ UNCHANGED <<poke_refcount, timer, queued, worker, clash>>

\* and looks again: another atom may have retained it.
Check(a) ==
  /\ poking[a] = "check"
  /\ poking' = [poking EXCEPT ![a] = "no"]
  /\ \/ poke_refcount > 0 /\ poke_state' = poke_state \ {"killing"} /\ Queue(TRUE)
     \/ poke_refcount = 0 /\ poke_state' = {} /\ UNCHANGED <<queued, clash>>
  /\ UNCHANGED <<poke_refcount, timer, worker>>

Next ==
  \/ \E a \in Atoms : Retain(a) \/ Release(a) \/ Cancel(a) \/ Flush(a) \/ Check(a)
  \/ Poke \/ Restart \/ Timer

Spec == Init /\ [][Next]_vars

------------------------------------------------------------------------------
(* Properties *)

Active == timer \/ queued \/ worker # "idle"

\* While an atom needs pokes they go on, unless one is being released, and no
\* register of the AS is touched once the last atom was released; the
\* assertions on the queue hold and the count is that of the atoms.
PokesWhileNeeded ==
  /\ ~clash
  /\ poke_refcount = Cardinality({a \in Atoms : poking[a] = "yes"})
  /\ (\E a \in Atoms : poking[a] = "yes") /\ (\A a \in Atoms : poking[a] \in {"no", "yes"}) => Active
  /\ (\A a \in Atoms : poking[a] = "no") => ~Active /\ poke_state = {}

==============================================================================
