------------------------------ MODULE DmaFence ------------------------------
(***************************************************************************)
(* Implicit synchronisation of atoms through the fences of shared buffers  *)
(* (mali_kbase_dma_fence.c, mali_kbase_fence.c and the places of           *)
(* mali_kbase_jd.c that look at dma_fence.dep_count).                      *)
(*                                                                         *)
(* The submitting thread of each context, holding that context's           *)
(* jctx.lock, takes the wait/wound locks of all reservations an atom uses, *)
(* hangs a callback on every fence found there and leaves the atom's own   *)
(* fence behind.  Fences signal at any time; the callback that brings      *)
(* dep_count to zero queues the atom's work item on the context's          *)
(* mali-fence queue, whose worker takes jctx.lock.                         *)
(*                                                                         *)
(* A fence is named after the atom it belongs to; Outside are the fences   *)
(* of other drivers.  An atom depends on at most one other of its context, *)
(* which depends on none and which no other atom depends on.               *)
(*                                                                         *)
(* A callback may run before it is counted (`early'), and an atom may be   *)
(* found invalid while its fences are pending (`late').  Both can put a    *)
(* work item or an event on a list that has it already; the lists of the   *)
(* kernel are broken then, nothing is claimed of what follows and the      *)
(* model stops.                                                            *)
(***************************************************************************)
EXTENDS Integers, Sequences, FiniteSets

CONSTANTS
  Ctx,          \* Ctx[a]: the context of atom a; its atoms are submitted in order
  Uses,         \* Uses[a]: its reservations, in the order of the resource list
  Exclusive,    \* Exclusive[a]: those it asked exclusive access to
  Dep,          \* Dep[a]: the atom it has a data dependency on, or 0
  Outside       \* Outside[r]: the exclusive fence on reservation r at the start

Atoms == DOMAIN Ctx
Contexts == {Ctx[a] : a \in Atoms}
Resvs == DOMAIN Outside
NoFence == 0
NoResv == "none"
Handled == -1   \* dep_count of an atom nothing is waiting for

\* No resource is listed twice (kbase_dma_fence_add_reservation), no fence of
\* another driver is an atom's, and dependencies are as described above.
FenceAssumption ==
  /\ Ctx \in Seq(Nat \ {0})
  /\ NoResv \notin Resvs /\ \A r \in Resvs : Outside[r] \in Nat \ Atoms
  /\ Uses \in [Atoms -> Seq(Resvs)]
  /\ \A a \in Atoms : \A m, n \in DOMAIN Uses[a] : Uses[a][m] = Uses[a][n] => m = n
  /\ \A a \in Atoms : Exclusive[a] \subseteq {Uses[a][n] : n \in DOMAIN Uses[a]}
  /\ \A a \in Atoms :
       \/ Dep[a] = 0
       \/ /\ Dep[a] \in 1..(a - 1) /\ Ctx[Dep[a]] = Ctx[a] /\ Dep[Dep[a]] = 0
          /\ \A b \in Atoms : Dep[b] = Dep[a] => b = a

VARIABLES
  jobs,       \* struct kbase_jd_atom, the fences signalled so far, and the
              \* atoms of which something was put on a list that had it
  resv,       \* struct reservation_object: lock holder, excl and shared fences
  submit,     \* kbase_dma_fence_wait of each context's submitter
  tickets,    \* contexts in a ww_acquire_ctx, oldest first
  dying       \* KCTX_DYING: "no", "yes", and "swept" once the fences are cancelled

vars == <<jobs, resv, submit, tickets, dying>>

\* `uncounted': one of its callbacks is hung, and not counted yet.
NewAtom == [status |-> "unused", count |-> Handled, cbs |-> {}, met |-> {},
            fence |-> FALSE, fails |-> FALSE, ran |-> FALSE, dep |-> 0,
            uncounted |-> FALSE, early |-> FALSE, late |-> FALSE]
AtRest == [pc |-> "no", atom |-> 0, i |-> 0, contended |-> NoResv, todo |-> {}]

Init ==
  /\ jobs = [atom |-> [a \in Atoms |-> NewAtom], signalled |-> {}, broken |-> {},
             queue |-> [c \in Contexts |-> <<>>],       \* dma_fence.wq
             waiting |-> [c \in Contexts |-> <<>>]]     \* dma_fence.waiting_resource
  /\ resv = [r \in Resvs |-> [owner |-> NoFence, excl |-> Outside[r], shared |-> {}]]
  /\ submit = [c \in Contexts |-> AtRest]
  /\ tickets = <<>>
  /\ dying = [c \in Contexts |-> "no"]

LockFree(c) == submit[c].pc = "no"   \* jctx.lock: only the submitter holds it across steps
Elements(s) == {s[k] : k \in DOMAIN s}
Without(s, x) ==   \* x is in s once at most
  IF x \notin Elements(s) THEN s
  ELSE LET k == CHOOSE k \in DOMAIN s : s[k] = x
       IN  [n \in 1..(Len(s) - 1) |-> s[IF n < k THEN n ELSE n + 1]]

-----------------------------------------------------------------------------
(* The helpers take the value of `jobs' and return the next one.            *)

\* The work item is initialised, and queued whether it was queued or not.
QueueWork(j, ready) ==
  LET again == {a \in ready : a \in Elements(j.queue[Ctx[a]])}
      fresh == ready \ again
      Add(c) == CHOOSE q \in [1..Cardinality({a \in fresh : Ctx[a] = c}) -> fresh] :
                  Elements(q) = {a \in fresh : Ctx[a] = c}
  IN [j EXCEPT !.queue = [c \in Contexts |-> j.queue[c] \o Add(c)],
               !.broken = @ \cup again]

\* Fences fs signal: every callback hung on them is called, and leaves.
Callbacks(j, fs) ==
  LET On(a) == {cb \in j.atom[a].cbs : cb.fence \in fs}
      hit == {a \in Atoms : On(a) # {}}
      After(a) == j.atom[a].count - Cardinality(On(a))
  IN QueueWork([j EXCEPT !.signalled = @ \cup fs,
                         !.atom = [a \in Atoms |-> IF a \notin hit THEN j.atom[a] ELSE
                             [j.atom[a] EXCEPT !.count = After(a), !.cbs = @ \ On(a)]]],
               {a \in hit : After(a) = 0})

\* Mutant of FreeCallbacks: a callback taken back keeps its count.
FreeCallbacks_KeepsCount(j, a) == [j EXCEPT !.atom[a].cbs = {}]

FreeCallbacks(j, a) ==
  [j EXCEPT !.atom[a].count = @ - Cardinality(j.atom[a].cbs), !.atom[a].cbs = {}]

\* kbase_dma_fence_signal: the atom's own fence.
Signal(j, a) ==
  IF ~j.atom[a].fence THEN j
  ELSE FreeCallbacks([Callbacks(j, {a}) EXCEPT !.atom[a].fence = FALSE], a)

\* Mutant of CancelCallbacks: nobody picks the atom up after its fences went.
CancelCallbacks_Drop(j, a) == FreeCallbacks(j, a)

CancelCallbacks(j, a) ==
  LET freed == FreeCallbacks(j, a)
  IN IF j.atom[a].cbs # {} /\ freed.atom[a].count = 0
     THEN QueueWork(freed, {a}) ELSE freed

\* The end of jd_done_nolock for one atom that nothing depends on.
Complete(j, a, failed) ==
  Signal([j EXCEPT !.atom[a].status = "completed", !.atom[a].fails = failed,
                   !.atom[a].dep = 0], a)

\* jd_run_atom: an atom whose dependency is still there waits for it in the
\* dispatcher (kbase_js_dep_validate), any other goes to the job scheduler.
Run(j, a) ==
  IF j.atom[a].dep # 0 THEN j ELSE [j EXCEPT !.atom[a].status = "in_js"]

\* Mutant of Satisfied: the dispatcher does not look at dep_count.
Satisfied_NoFences(j, a) == j.atom[a].status = "queued"

Satisfied(j, a) == j.atom[a].status = "queued" /\ j.atom[a].count = Handled

\* jd_done_nolock, with jd_resolve_dep for the atom that depends on this one.
JdDone(j, a, failed) ==
  LET next == {b \in Atoms : j.atom[b].dep = a}
      Cleared(b) == [j EXCEPT !.atom[b].dep = 0]
      Failing(b) == IF failed
                    THEN [CancelCallbacks(Cleared(b), b) EXCEPT !.atom[b].fails = TRUE]
                    ELSE Cleared(b)
      Resolved(b) == IF ~Satisfied(Failing(b), b) THEN Failing(b)
                     ELSE IF dying[Ctx[a]] # "no" THEN Complete(Failing(b), b, TRUE)
                     ELSE Run(Failing(b), b)
  IN Complete(IF next = {} THEN j ELSE Resolved(CHOOSE b \in next : TRUE), a, failed)

-----------------------------------------------------------------------------
(* kbase_dma_fence_wait, one action per step other parties can get between. *)

Holding(c) == {r \in Resvs : resv[r].owner = c}
Older(c, d) == \E k, l \in DOMAIN tickets : k < l /\ tickets[k] = c /\ tickets[l] = d
Keep(c, r) == [resv EXCEPT ![r].owner = c]
Freed(c) == [r \in Resvs |-> IF resv[r].owner = c THEN [resv[r] EXCEPT !.owner = NoFence]
                             ELSE resv[r]]

\* jd_submit_atom up to kbase_dma_fence_wait; `fails' when the dependency has
\* failed already, and then the resources are never looked at.
Submit(a) ==
  LET c == Ctx[a]
      d == Dep[a]
      over == d # 0 /\ jobs.atom[d].status \in {"completed", "reported"}
      j == [jobs EXCEPT !.atom[a].status = "queued", !.atom[a].dep = IF over THEN 0 ELSE d]
  IN /\ LockFree(c) /\ dying[c] = "no" /\ jobs.atom[a].status = "unused"
     /\ \A b \in Atoms : b < a /\ Ctx[b] = c => jobs.atom[b].status # "unused"
     /\ \/ /\ over /\ jobs.atom[d].fails
           /\ jobs' = JdDone(j, a, TRUE) /\ UNCHANGED <<submit, tickets>>
        \/ /\ ~(over /\ jobs.atom[d].fails) /\ Uses[a] = <<>>
           /\ jobs' = Run(j, a) /\ UNCHANGED <<submit, tickets>>
        \/ /\ ~(over /\ jobs.atom[d].fails) /\ Uses[a] # <<>>
           /\ jobs' = JdDone(j, a, TRUE)   \* no memory for the fence
           /\ UNCHANGED <<submit, tickets>>
        \/ /\ ~(over /\ jobs.atom[d].fails) /\ Uses[a] # <<>>
           /\ jobs' = [j EXCEPT !.atom[a].fence = TRUE, !.atom[a].count = 1]
           /\ submit' = [submit EXCEPT ![c] = [AtRest EXCEPT !.pc = "lock", !.atom = a, !.i = 1]]
           /\ tickets' = Append(tickets, c)
     /\ UNCHANGED <<resv, dying>>

\* Mutant of Back: the reservations locked so far stay locked.
Back_KeepsAll(c) == resv

Back(c) == Freed(c)

\* ww_mutex_lock of the next reservation: a younger holder is waited for, an
\* older one makes the caller that holds any drop them all (-EDEADLK).
LockNext(c) ==
  LET s == submit[c]
      r == Uses[s.atom][s.i]
      Next(t) == [t EXCEPT !.pc = IF s.i = Len(Uses[s.atom]) THEN "resv" ELSE "lock",
                           !.i = IF s.i = Len(Uses[s.atom]) THEN 1 ELSE @ + 1]
  IN /\ s.pc = "lock"
     /\ \/ /\ s.contended = r
           /\ submit' = [submit EXCEPT ![c] = [Next(s) EXCEPT !.contended = NoResv]]
           /\ UNCHANGED resv
        \/ /\ s.contended # r /\ resv[r].owner = NoFence
           /\ resv' = Keep(c, r) /\ submit' = [submit EXCEPT ![c] = Next(s)]
        \/ /\ s.contended # r /\ Holding(c) # {} /\ Older(resv[r].owner, c)
           /\ resv' = Back(c)
           /\ submit' = [submit EXCEPT ![c] = [s EXCEPT !.pc = "slow", !.contended = r]]
     /\ UNCHANGED <<jobs, tickets, dying>>

LockSlow(c) ==
  /\ submit[c].pc = "slow" /\ resv[submit[c].contended].owner = NoFence
  /\ resv' = Keep(c, submit[c].contended)
  /\ submit' = [submit EXCEPT ![c].pc = "lock", ![c].i = 1]
  /\ UNCHANGED <<jobs, tickets, dying>>

\* Mutant of ToMeet: an exclusive user waits for the exclusive fence only.
ToMeet_ExclOnly(a, r) == {resv[r].excl} \ {NoFence}

ToMeet(a, r) ==
  ({resv[r].excl} \ {NoFence}) \cup (IF r \in Exclusive[a] THEN resv[r].shared ELSE {})

\* kbase_dma_fence_add_reservation_callback begins with the fences it finds.
GetFences(c) ==
  LET s == submit[c]
  IN /\ s.pc = "resv"
     /\ submit' = [submit EXCEPT ![c].pc = "add", ![c].todo = ToMeet(s.atom, Uses[s.atom][s.i])]
     /\ UNCHANGED <<jobs, resv, tickets, dying>>

\* kbase_fence_add_callback hangs the callback, which may run from then on,
AddCallback(c) ==
  LET s == submit[c]
      a == s.atom
      Hung(f) == [fence |-> f, on |-> s.i]   \* struct kbase_fence_cb
  IN /\ s.pc = "add" /\ ~jobs.atom[a].uncounted
     /\ \E f \in s.todo :
          /\ jobs' = [jobs EXCEPT !.atom[a].met = @ \cup {f},
                                  !.atom[a].uncounted = f \notin jobs.signalled,
                                  !.atom[a].cbs = IF f \in jobs.signalled THEN @
                                                  ELSE @ \cup {Hung(f)}]
          /\ submit' = [submit EXCEPT ![c].todo = @ \ {f}]
     /\ UNCHANGED <<resv, tickets, dying>>

\* and counts it.
Count(c) ==
  LET a == submit[c].atom
  IN /\ submit[c].pc = "add" /\ jobs.atom[a].uncounted
     /\ jobs' = [jobs EXCEPT !.atom[a].count = @ + 1, !.atom[a].uncounted = FALSE,
                             !.atom[a].early = @ \/ jobs.atom[a].count = 0]
     /\ UNCHANGED <<resv, submit, tickets, dying>>

\* reservation_object_add_shared_fence and _add_excl_fence.
LeaveFence(c) ==
  LET s == submit[c]
      r == Uses[s.atom][s.i]
      last == s.i = Len(Uses[s.atom])
  IN /\ s.pc = "add" /\ s.todo = {} /\ ~jobs.atom[s.atom].uncounted
     /\ resv' = IF r \in Exclusive[s.atom]
                THEN [resv EXCEPT ![r].excl = s.atom, ![r].shared = {}]
                ELSE [resv EXCEPT ![r].shared = @ \cup {s.atom}]
     /\ submit' = [submit EXCEPT ![c].pc = IF last THEN "end" ELSE "resv",
                                 ![c].i = IF last THEN @ ELSE @ + 1]
     /\ UNCHANGED <<jobs, tickets, dying>>

Leave(c) ==
  /\ resv' = Freed(c)
  /\ tickets' = Without(tickets, c)
  /\ UNCHANGED dying

\* The end of a wait that worked.
WaitEnd(c) ==
  LET a == submit[c].atom
      left == jobs.atom[a].count - 1
      there == [jobs EXCEPT !.atom[a].count = left]
  IN /\ submit[c].pc = "end"
     /\ jobs' = IF left = 0 THEN [FreeCallbacks(there, a) EXCEPT !.atom[a].count = Handled]
                ELSE [there EXCEPT !.waiting[c] = Append(@, a)]
     /\ submit' = [submit EXCEPT ![c] = [AtRest EXCEPT !.pc = "check", !.atom = a]]
     /\ Leave(c)

\* The rest of jd_submit_atom: an atom found invalid only now is finished,
\* whether it waits for fences or not.
Check(c) ==
  LET a == submit[c].atom
      waits == jobs.atom[a].count # Handled
  IN /\ submit[c].pc = "check"
     /\ \/ jobs' = IF waits THEN jobs ELSE Run(jobs, a)
        \/ jobs' = JdDone([jobs EXCEPT !.atom[a].late = waits], a, TRUE)
     /\ submit' = [submit EXCEPT ![c] = AtRest]
     /\ UNCHANGED <<resv, tickets, dying>>

\* No memory for a shared slot, for the fence list or for a callback.
WaitFails(c) ==
  LET a == submit[c].atom
      j == Signal([FreeCallbacks(jobs, a) EXCEPT !.atom[a].count = Handled], a)
  IN /\ submit[c].pc \in {"resv", "add"} /\ ~jobs.atom[a].uncounted
     /\ jobs' = JdDone(j, a, TRUE)
     /\ submit' = [submit EXCEPT ![c] = AtRest]
     /\ Leave(c)

-----------------------------------------------------------------------------
(* Fences, the worker, the hardware and the end of a context.               *)

OutsideSignals ==
  /\ \E r \in Resvs : /\ Outside[r] \notin jobs.signalled \cup {NoFence}
                      /\ jobs' = Callbacks(jobs, {Outside[r]})
  /\ UNCHANGED <<resv, submit, tickets, dying>>

\* kbase_dma_fence_work and kbase_jd_dep_clear_locked.  The event of an atom
\* that is finished a second time is on the list still.
FenceWork(c) ==
  /\ LockFree(c) /\ jobs.queue[c] # <<>>
  /\ LET a == Head(jobs.queue[c])
         taken == [jobs EXCEPT !.queue[c] = Tail(@)]
         mine == [taken EXCEPT !.atom[a].count = Handled, !.waiting[c] = Without(@, a)]
     IN jobs' = IF jobs.atom[a].count # 0 THEN taken
                ELSE IF jobs.atom[a].status = "completed"
                THEN [JdDone(mine, a, TRUE) EXCEPT !.broken = @ \cup {a}]
                ELSE Run(mine, a)
  /\ UNCHANGED <<resv, submit, tickets, dying>>

\* kbase_jd_done: the interrupt prepares the atom's work item for job_done_wq.
HwDone(a) ==
  /\ jobs.atom[a].status = "in_js"
  /\ jobs' = [jobs EXCEPT !.atom[a].status = "hw_completed",
                           !.atom[a].ran = ~jobs.atom[a].fails,
                           !.broken = @ \cup ({a} \cap Elements(jobs.queue[Ctx[a]]))]
  /\ UNCHANGED <<resv, submit, tickets, dying>>

DoneWorker(a) ==
  /\ LockFree(Ctx[a]) /\ jobs.atom[a].status = "hw_completed"
  /\ \E failed \in {TRUE, jobs.atom[a].fails} : jobs' = JdDone(jobs, a, failed)
  /\ UNCHANGED <<resv, submit, tickets, dying>>

\* kbase_event_dequeue: the resources of a failed atom are freed only once the
\* fence queue has run dry, and then its number may be used again.
Dequeue(a) ==
  /\ LockFree(Ctx[a]) /\ jobs.atom[a].status = "completed"
  /\ jobs.atom[a].fails /\ Uses[a] # <<>> => jobs.queue[Ctx[a]] = <<>>
  /\ jobs' = [jobs EXCEPT !.atom[a].status = "reported"]
  /\ UNCHANGED <<resv, submit, tickets, dying>>

Die(c) ==
  /\ LockFree(c) /\ dying[c] = "no" /\ dying' = [dying EXCEPT ![c] = "yes"]
  /\ UNCHANGED <<jobs, resv, submit, tickets>>

\* Mutant of CancelAtom: dep_count is left as it is.
CancelAtom_KeepsCount(j, a) ==
  LET free == FreeCallbacks([j EXCEPT !.waiting[Ctx[a]] = Without(@, a)], a)
  IN IF free.atom[a].status = "queued" THEN JdDone(free, a, TRUE) ELSE free

CancelAtom(j, a) ==
  LET free == FreeCallbacks([j EXCEPT !.waiting[Ctx[a]] = Without(@, a)], a)
      handled == [free EXCEPT !.atom[a].count = Handled]
  IN IF free.atom[a].status = "queued" THEN JdDone(handled, a, TRUE) ELSE handled

\* kbase_dma_fence_cancel_all_atoms, one atom at a time under jctx.lock.
CancelAll(c) ==
  /\ LockFree(c) /\ dying[c] = "yes"
  /\ \/ /\ jobs.waiting[c] # <<>>
        /\ jobs' = CancelAtom(jobs, Head(jobs.waiting[c])) /\ UNCHANGED dying
     \/ /\ jobs.waiting[c] = <<>>
        /\ dying' = [dying EXCEPT ![c] = "swept"] /\ UNCHANGED jobs
  /\ UNCHANGED <<resv, submit, tickets>>

Next ==
  /\ jobs.broken = {}
  /\ \/ \E a \in Atoms : Submit(a) \/ HwDone(a) \/ DoneWorker(a) \/ Dequeue(a)
     \/ \E c \in Contexts : \/ LockNext(c) \/ LockSlow(c) \/ GetFences(c) \/ AddCallback(c)
                            \/ Count(c) \/ LeaveFence(c) \/ WaitEnd(c) \/ Check(c)
                            \/ WaitFails(c) \/ FenceWork(c) \/ Die(c) \/ CancelAll(c)
     \/ OutsideSignals

Spec == Init /\ [][Next]_vars

-----------------------------------------------------------------------------
Executing == {a \in Atoms : jobs.atom[a].status \in {"in_js", "hw_completed"}
                            /\ ~jobs.atom[a].fails}

\* dep_count is the number of callbacks still hung, plus one while the atom is
\* being set up and less the one that is hung but not counted yet; an atom
\* whose count has reached zero is on its way to the worker, unless it was
\* found invalid while it waited, and one that waits for fences is on the list
\* a dying context sweeps.
DepCountExact ==
  \A a \in Atoms :
    LET s == jobs.atom[a]
        setup == submit[Ctx[a]].atom = a /\ submit[Ctx[a]].pc # "check"
        own == IF setup THEN 1 ELSE 0
        missing == IF s.uncounted THEN 1 ELSE 0
    IN /\ s.count # Handled => s.count = Cardinality(s.cbs) + own - missing
       /\ s.count = 0 => a \in Elements(jobs.queue[Ctx[a]]) \/ s.late
       /\ a \in Elements(jobs.waiting[Ctx[a]]) <=> s.count # Handled /\ ~setup

\* An atom executes only after every fence found on its buffers has signalled,
\* and nothing of it is left on a queue or a fence once it has been reported.
\* Its work item is set up while the fence queue holds it only if one of its
\* callbacks ran before it was counted, and it is finished twice only if it
\* was found invalid while it waited.
FencesRespected ==
  /\ \A a \in Atoms :
       LET s == jobs.atom[a]
       IN /\ a \in Executing => s.met \subseteq jobs.signalled
          /\ s.status = "reported" =>
               s.cbs = {} /\ ~s.fence /\ a \notin Elements(jobs.queue[Ctx[a]])
  /\ \A a \in jobs.broken : jobs.atom[a].early \/ jobs.atom[a].late

\* The same without the exceptions, which the code does not promise.
NeverBroken == jobs.broken = {}

\* `Warn if work was already queued, that should not happen': a work item that
\* is put on the fence queue is not on it.
ItemQueuedOnce ==
  \A a \in jobs.broken :
    a \in Elements(jobs.queue[Ctx[a]]) => jobs.atom[a].status = "hw_completed"

\* Of two atoms of which one asked for exclusive access to a buffer both use,
\* only one is with the job scheduler at a time, unless an atom that used the
\* buffer between them never executed: its fence signals when it is cancelled
\* or refused, and what it had waited for is then waited for by nobody.
ExclusiveAlone ==
  \A a, b \in Atoms : \A r \in Exclusive[a] :
    a # b /\ r \in Elements(Uses[b]) /\ {a, b} \subseteq Executing =>
      \E c \in Atoms : r \in Elements(Uses[c]) /\ jobs.atom[c].fails /\ ~jobs.atom[c].ran

\* The same without the exception, which the code does not promise.
NeverTogether ==
  \A a, b \in Executing : a # b => Exclusive[a] \cap Elements(Uses[b]) = {}

\* Nobody waits in a circle: neither atoms for one another's fences, nor
\* submitters for one another's reservation locks.
NoCircle ==
  /\ LET Waits(a) == {cb.fence : cb \in jobs.atom[a].cbs} \cup ({jobs.atom[a].dep} \ {0})
     IN \A D \in SUBSET Atoms : D # {} => \E a \in D : Waits(a) \cap D = {}
  /\ LET Blocked(c) ==
           LET s == submit[c]
               r == Uses[s.atom][s.i]
           IN  \/ s.pc = "slow" /\ resv[s.contended].owner # NoFence
               \/ /\ s.pc = "lock" /\ s.contended # r /\ resv[r].owner # NoFence
                  /\ ~(Holding(c) # {} /\ Older(resv[r].owner, c))
     IN tickets # <<>> => \E k \in DOMAIN tickets : ~Blocked(tickets[k])

\* All that is claimed of fences, together.
FencesExact == DepCountExact /\ FencesRespected /\ ExclusiveAlone /\ NoCircle
=============================================================================
