------------------------------ MODULE CtxQueues ------------------------------
(***************************************************************************)
(* The job scheduler's queues of contexts (mali_kbase_js.c) and what it    *)
(* counts about them: per slot a list of the contexts an atom could be     *)
(* pulled from and one of the others, each by priority; how many contexts  *)
(* are pullable and how many runnable; and the context attributes          *)
(* (mali_kbase_js_ctx_attr.c), counted per context by its atoms and on the *)
(* run pool by its contexts.                                               *)
(*                                                                         *)
(* kbase_js_sched holds queue_mutex from its first to its last step, as do *)
(* the workers that finish or return an atom; interrupts and a change of   *)
(* the scheduling mode only take hwaccess_lock and come in between.  A     *)
(* step is one hold of hwaccess_lock.  Which contexts own an address space *)
(* is RunPool's subject: here one is scheduled while there is room.  The   *)
(* order within a list, the ring buffers and the slots' space are left out.*)
(***************************************************************************)
EXTENDS Integers, FiniteSets

CONSTANTS
  Slots,     \* job slots
  Owner,     \* per atom (1, 2 ...): its context
  Prio,      \* per atom: its scheduling priority, 1 the most urgent
  Req,       \* per atom: its core requirements
  Hw,        \* of the GPU: "issue 8987", "two groups"
  XPre,      \* per atom: the atom on another slot it waits for, or 0
  After,     \* per atom: an atom it waits for that cannot be represented, or 0
  NumAs,     \* contexts that may be scheduled at once
  MaxModes,  \* bound: writes to js_ctx_scheduling_mode
  FaultyPaths \* paths of the code that break a property, left out by default

VARIABLES
  atom,      \* per atom: where it is
  lists,     \* place of every context on every slot, priorities and counts
  ctx,       \* per context: the scheduler's flags
  blocked,   \* kctx->blocked_js: <<context, slot, priority>>
  active_kctx, \* hwaccess.active_kctx
  attrs,     \* ctx_attr_ref_count, per context and on the run pool
  sched,     \* kbase_js_sched
  worker,    \* per context: the worker of job_done_wq
  mode       \* js_ctx_scheduling_mode and how often it was written

vars == <<atom, lists, ctx, blocked, active_kctx, attrs, sched, worker, mode>>

Atoms == DOMAIN Owner
Ctxs == {Owner[a] : a \in Atoms}
Low == 3
Attributes == {"compute", "non_compute", "all_cores"}
None == <<"none">>
NoCtx == "none"
Rest == [pc |-> "idle", a |-> 0]

\* kbase_js_get_slot
SlotOf == [a \in Atoms |->
  IF "fragment" \in Req[a] THEN 0
  ELSE IF /\ "only_compute" \in Req[a]
          /\ \/ "issue 8987" \in Hw
             \/ "device 1" \in Req[a] /\ "two groups" \in Hw
    THEN 2 ELSE 1]

\* The attributes kbasep_js_ctx_attr_ctx_retain_atom reads off the
\* requirements, and _release_atom off the copy it was left.
Attrs == [a \in Atoms |->
  {IF "only_compute" \in Req[a] THEN "compute" ELSE "non_compute"}
  \cup {x \in {"all_cores"} :
         /\ Req[a] \cap {"cs", "only_compute", "tiler"} # {}
         /\ Req[a] \cap {"coherent", "specific_coherent"} = {}}]

\* kbasep_js_kctx_init
Init ==
  /\ atom = [a \in Atoms |-> "new"]
  /\ lists = [place |-> [c \in Ctxs |-> [js \in Slots |-> None]],
              slots |-> [c \in Ctxs |-> {}],
              prio |-> [c \in Ctxs |-> Low],
              runnable |-> {}, nr_pullable |-> 0, nr_runnable |-> 0]
  /\ ctx = [c \in Ctxs |-> [scheduled |-> FALSE, submit |-> FALSE,
                            dying |-> "no", evicting |-> FALSE]]
  /\ blocked = {}
  /\ active_kctx = [js \in Slots |-> NoCtx]
  /\ attrs = [on_ctx |-> [c \in Ctxs |-> [x \in Attributes |-> 0]],
              on_runpool |-> [x \in Attributes |-> 0]]
  /\ sched = [pc |-> "idle", mask |-> {}, c |-> NoCtx, pulled |-> FALSE,
              last |-> active_kctx, waiting |-> {}]
  /\ worker = [c \in Ctxs |-> Rest]
  /\ mode = [value |-> "system", writes |-> 0]

----------------------------------------------------------------------------
(* What the scheduler reads off an atom's and a context's state. *)

Of(c, S) == {a \in Atoms : Owner[a] = c /\ atom[a] \in S}

\* kctx->atoms_pulled: a returned atom counts until its worker has started.
Pulled(at, c) == {a \in Atoms : Owner[a] = c /\
                    at[a] \in {"pulled", "returned", "completed"}}
PulledSlot(at, c, js) == {a \in Pulled(at, c) : SlotOf[a] = js}

\* kctx->atoms_count: those the scheduler was given and has not removed.
Counted(at, c) == {a \in Atoms : Owner[a] = c /\
  at[a] \in {"tree", "x_dep", "pulled", "returned", "completed", "removing",
             "cancelled"}}

\* jsctx_rb_none_to_pull: an unpulled atom is back in the tree at once.
InTree(at, c, js) ==
  {a \in Atoms : Owner[a] = c /\ SlotOf[a] = js /\ at[a] \in {"tree", "returned"}}

\* jsctx_rb_peek: the most urgent, then the oldest.
IsHead(at, a) ==
  \A b \in InTree(at, Owner[a], SlotOf[a]) :
    Prio[a] < Prio[b] \/ (Prio[a] = Prio[b] /\ a <= b)

\* kbase_js_ctx_pullable.  An atom waiting for another slot is in the x_dep
\* list and not in the tree, so what it says of such atoms never applies.
Pullable(at, ct, bl, c, js, is_scheduled) ==
  /\ is_scheduled => ct[c].submit
  /\ \E a \in InTree(at, c, js) :
       IsHead(at, a) /\ at[a] = "tree" /\ <<c, js, Prio[a]>> \notin bl

PullableSlots(at, ct, bl, c, is_scheduled) ==
  {js \in Slots : Pullable(at, ct, bl, c, js, is_scheduled)}

----------------------------------------------------------------------------
(* The lists. *)

\* kbase_js_ctx_list_add_pullable_nolock and its _head variant, for the slots
\* S; `idle': atoms_pulled is zero.
AddPullable(L, c, S, idle) ==
  LET fresh == S # {} /\ L.slots[c] = {}
      counted == fresh /\ idle
  IN [L EXCEPT
        !.place[c] = [js \in Slots |-> IF js \in S
                        THEN <<"pullable", L.prio[c]>> ELSE @[js]],
        !.slots[c] = @ \cup S,
        !.nr_pullable = IF fresh THEN @ + 1 ELSE @,
        !.runnable = IF counted THEN @ \cup {c} ELSE @,
        !.nr_runnable = IF counted THEN @ + 1 ELSE @]

\* What taking a context off a slot's pullable list does to the counts.
TakeOff(L, c, js, idle, where) ==
  LET last == L.slots[c] = {js}
      counted == last /\ idle
  IN [L EXCEPT
        !.place[c][js] = where,
        !.slots[c] = @ \ {js},
        !.nr_pullable = IF last THEN @ - 1 ELSE @,
        !.runnable = IF counted THEN @ \ {c} ELSE @,
        !.nr_runnable = IF counted THEN @ - 1 ELSE @]

\* kbase_js_ctx_list_add_unpullable_nolock
AddUnpullable(L, c, js, idle) ==
  TakeOff(L, c, js, idle, <<"unpullable", L.prio[c]>>)

\* kbase_js_ctx_list_remove_nolock
ListRemove(L, c, js, idle) == TakeOff(L, c, js, idle, None)

\* KCTX_RUNNABLE_REF goes with the last atom of a context on no list.
DropRunnable(L, c, idle) ==
  IF idle /\ L.slots[c] = {}
    THEN [L EXCEPT !.runnable = @ \ {c}, !.nr_runnable = @ - 1]
    ELSE L

\* Mutant of SetCtxPriority: the entries stay where they are.
SetCtxPriority_Unmoved(L, c, new) == [L EXCEPT !.prio[c] = new]

\* kbase_js_set_ctx_priority: list_move_tail links the entry of every slot,
\* also of one that was on no list.
SetCtxPriority(L, c, new) ==
  IF new = L.prio[c] THEN L
  ELSE [L EXCEPT
          !.prio[c] = new,
          !.place[c] = [js \in Slots |->
             <<IF js \in L.slots[c] THEN "pullable" ELSE "unpullable", new>>]]

\* kbase_js_update_ctx_priority, with the atoms the context now counts.
UpdatePriority(L, c, counted, md) ==
  SetCtxPriority(L, c,
    IF md = "process" \/ counted = {} THEN Low
    ELSE CHOOSE p \in {Prio[a] : a \in counted} :
           \A a \in counted : p <= Prio[a])

----------------------------------------------------------------------------
(* The attributes. *)

\* Mutant of RetainAtom: counts every atom on the run pool.
RetainAtom_EveryAtom(A, c, X, scheduled) ==
  [on_ctx |-> [A.on_ctx EXCEPT ![c] = [x \in Attributes |->
      @[x] + (IF x \in X THEN 1 ELSE 0)]],
   on_runpool |-> [x \in Attributes |-> A.on_runpool[x] +
      (IF scheduled /\ x \in X THEN 1 ELSE 0)]]

\* kbasep_js_ctx_attr_ctx_retain_atom: the run pool counts a scheduled
\* context once per attribute.
RetainAtom(A, c, X, scheduled) ==
  [on_ctx |-> [A.on_ctx EXCEPT ![c] = [x \in Attributes |->
      @[x] + (IF x \in X THEN 1 ELSE 0)]],
   on_runpool |-> [x \in Attributes |-> A.on_runpool[x] +
      (IF scheduled /\ x \in X /\ A.on_ctx[c][x] = 0 THEN 1 ELSE 0)]]

\* kbasep_js_ctx_attr_ctx_release_atom
ReleaseAtom(A, c, X, scheduled) ==
  [on_ctx |-> [A.on_ctx EXCEPT ![c] = [x \in Attributes |->
      @[x] - (IF x \in X THEN 1 ELSE 0)]],
   on_runpool |-> [x \in Attributes |-> A.on_runpool[x] -
      (IF scheduled /\ x \in X /\ A.on_ctx[c][x] = 1 THEN 1 ELSE 0)]]

\* kbasep_js_ctx_attr_runpool_retain_ctx (sign 1) and _release_ctx (sign -1)
MoveCtx(A, c, sign) ==
  [A EXCEPT !.on_runpool = [x \in Attributes |->
      @[x] + (IF A.on_ctx[c][x] > 0 THEN sign ELSE 0)]]

----------------------------------------------------------------------------
(* Locks and references. *)

\* hwaccess_lock is taken through the kick of kbase_js_sched; queue_mutex by
\* that thread and by a worker between its two halves.
Unlocked == sched.pc # "kick"
QueueMutexFree ==
  /\ sched.pc = "idle"
  /\ \A c \in Ctxs : worker[c].pc \in {"idle", "release", "released"}

\* The references a scheduled context holds besides the run pool's own.
Refs(c) ==
  Cardinality(Of(c, {"pulled", "returned", "completed"}))
  + (IF worker[c].pc # "idle" THEN 1 ELSE 0)
  + (IF ctx[c].dying = "releasing" THEN 1 ELSE 0)
  + (IF ctx[c].evicting THEN 1 ELSE 0)

\* kbasep_js_runpool_release_ctx_internal, by a holder of one reference that
\* gives back the attributes X, then kbasep_js_runpool_requeue_or_kill_ctx: a
\* dying context that leaves has all its queued atoms cancelled.
ReleaseCtx(c, X) ==
  LET A == ReleaseAtom(attrs, c, X, ctx[c].scheduled)
      leaves == Refs(c) = 1 /\ ctx[c].scheduled /\ ~ctx[c].submit
  IN IF leaves
       THEN /\ attrs' = MoveCtx(A, c, -1)
            /\ lists' = AddPullable(lists, c,
                           PullableSlots(atom, ctx, blocked, c, FALSE),
                           Pulled(atom, c) = {})
            /\ active_kctx' = [js \in Slots |-> IF active_kctx[js] = c
                                 THEN NoCtx ELSE active_kctx[js]]
            /\ atom' = [a \in Atoms |->
                 IF /\ ctx[c].dying # "no" /\ Owner[a] = c
                    /\ atom[a] \in {"tree", "x_dep"}
                   THEN "cancelled" ELSE atom[a]]
       ELSE /\ attrs' = A
            /\ UNCHANGED <<lists, active_kctx, atom>>

\* KCTX_SCHEDULED and the submit bit go when the context leaves.
AfterRelease(c) ==
  IF Refs(c) = 1 /\ ctx[c].scheduled /\ ~ctx[c].submit
    THEN [ctx[c] EXCEPT !.scheduled = FALSE]
    ELSE ctx[c]

----------------------------------------------------------------------------
(* Atoms. *)

Resolved(b) == b = 0 \/ atom[b] \in {"removing", "removed"}

\* kbasep_js_add_job: the first of its priority moves the context; an atom
\* whose dependency cannot be represented comes back later, but the
\* priority stays.
AddJob(a) ==
  LET c == Owner[a]
      js == SlotOf[a]
      raised == UpdatePriority(lists, c, Counted(atom, c) \cup {a}, mode.value)
      L == IF \E b \in Counted(atom, c) : Prio[b] = Prio[a]
             THEN lists ELSE raised
      waits == XPre[a] # 0 /\ atom[XPre[a]] \in
                 {"tree", "x_dep", "pulled", "returned"}
      at == [atom EXCEPT ![a] = IF waits THEN "x_dep" ELSE "tree"]
      enqueue == ~waits /\ InTree(atom, c, js) = {}
      idle == Pulled(atom, c) = {}
      killed == ~ctx[c].scheduled /\ ctx[c].dying # "no"
  IN /\ atom[a] = "new"
     /\ XPre[a] # 0 => atom[XPre[a]] # "new"
     /\ After[a] # 0 => atom[After[a]] # "new"
     /\ QueueMutexFree
     /\ ctx[c].dying # "dead"
     /\ IF ~Resolved(After[a])
          THEN /\ lists' = L
               /\ L # lists
               /\ UNCHANGED <<atom, attrs>>
          ELSE /\ atom' = [b \in Atoms |->
                    IF /\ killed /\ Owner[b] = c
                       /\ at[b] \in {"tree", "x_dep"}
                      THEN "cancelled" ELSE at[b]]
               /\ attrs' = RetainAtom(attrs, c, Attrs[a], ctx[c].scheduled)
               /\ lists' = IF ~enqueue THEN L
                           ELSE IF Pullable(at, ctx, blocked, c, js, FALSE)
                             THEN AddPullable(L, c, {js}, idle)
                             ELSE AddUnpullable(L, c, js, idle)
     /\ UNCHANGED <<ctx, blocked, active_kctx, sched, worker, mode>>

\* kbase_js_pull, for a slot's active context: from the kick of
\* kbase_js_sched, or from an interrupt or kbase_jm_try_kick.  Between the
\* halves of js_return_worker ("early return") a context with no atom left
\* still has KCTX_RUNNABLE_REF, and is counted a second time.
Pull(a) ==
  LET c == Owner[a]
      js == SlotOf[a]
      counted == Pulled(atom, c) = {} /\ lists.slots[c] = {}
  IN /\ active_kctx[js] = c
     /\ ctx[c].submit
     /\ Pullable(atom, ctx, blocked, c, js, TRUE)
     /\ atom[a] = "tree" /\ IsHead(atom, a)
     /\ worker[c].pc = "returning" => "early return" \in FaultyPaths
     /\ sched.pc = "kick" => js \in sched.mask /\ sched.c = c
     /\ atom' = [atom EXCEPT ![a] = "pulled"]
     /\ lists' = IF counted
                   THEN [lists EXCEPT !.runnable = @ \cup {c},
                                      !.nr_runnable = @ + 1]
                   ELSE lists
     /\ sched' = IF sched.pc = "kick" THEN [sched EXCEPT !.pulled = TRUE]
                 ELSE sched
     /\ UNCHANGED <<ctx, blocked, active_kctx, attrs, worker, mode>>

\* A soft stop blocks the slot for the atom's priority until all of its
\* atoms are back (kbase_gpu_stop_atom, kbase_gpu_remove_atom).
SoftStop(a) ==
  /\ Unlocked /\ atom[a] = "pulled"
  /\ blocked' = blocked \cup {<<Owner[a], SlotOf[a], Prio[a]>>}
  /\ UNCHANGED <<atom, lists, ctx, active_kctx, attrs, sched, worker, mode>>

\* kbase_js_unpull: of an atom that was stopped, or of a dependent one after
\* a failure.  One that could not be run in protected mode comes back with
\* its slot unblocked ("unblocked"): no worker looks at the lists for it.
Unpull(a) ==
  /\ Unlocked /\ atom[a] = "pulled"
  /\ \/ <<Owner[a], SlotOf[a], Prio[a]>> \in blocked
     \/ ~ctx[Owner[a]].submit
     \/ "unblocked" \in FaultyPaths
  /\ \A b \in Pulled(atom, Owner[a]) :
       SlotOf[b] = SlotOf[a] /\ atom[b] = "pulled" => b <= a
  /\ atom' = [atom EXCEPT ![a] = "returned"]
  /\ UNCHANGED <<lists, ctx, blocked, active_kctx, attrs, sched, worker, mode>>

\* The atoms that wait for a on another slot.
XPosts(a) == {b \in Atoms : XPre[b] = a /\ atom[b] = "x_dep"}

\* kbase_js_complete_atom: an atom of another slot that waited goes to the
\* tree, and its context to the pullable list if that made the difference.
\* After a failure kbase_js_evict_deps moves it without looking at the lists,
\* and the context may not submit.
Complete(a, failed) ==
  LET c == Owner[a]
      at == [b \in Atoms |-> IF b = a THEN "completed"
                             ELSE IF b \in XPosts(a) THEN "tree" ELSE atom[b]]
      opened == {SlotOf[b] : b \in XPosts(a)}
      news == {js \in opened : ~Pullable(atom, ctx, blocked, c, js, FALSE)
                               /\ Pullable(at, ctx, blocked, c, js, FALSE)}
  IN /\ Unlocked /\ atom[a] = "pulled"
     /\ atom' = at
     /\ IF failed
          THEN /\ ctx' = [ctx EXCEPT ![c].submit = FALSE]
               /\ UNCHANGED lists
          ELSE /\ lists' = AddPullable(lists, c, news, FALSE)
               /\ UNCHANGED ctx
     /\ UNCHANGED <<blocked, active_kctx, attrs, sched, worker, mode>>

----------------------------------------------------------------------------
(* The worker of a context's job_done_wq. *)

\* The slot is unblocked when no atom of that priority is on its way.
Unblocked(at, c, js, p) ==
  IF \A b \in PulledSlot(at, c, js) : Prio[b] # p
    THEN blocked \ {<<c, js, p>>} ELSE blocked

\* Mutant of WqLists: unblocks without looking at the lists again.
WqLists_NoAdd(a, at, bl) ==
  LET c == Owner[a]
      js == SlotOf[a]
      idle == Pulled(at, c) = {}
      L == DropRunnable(lists, c, idle)
      more == ~ctx[c].submit /\ idle /\ ctx[c].dying = "no"
      ct == [ctx EXCEPT ![c].submit = more \/ @]
  IN IF PulledSlot(at, c, js) = {} /\ InTree(at, c, js) = {}
        /\ L.place[c][js] # None
       THEN ListRemove(L, c, js, idle) ELSE L

\* The lists after kbase_js_complete_atom_wq.
WqLists(a, at, bl) ==
  LET c == Owner[a]
      js == SlotOf[a]
      idle == Pulled(at, c) = {}
      L1 == DropRunnable(lists, c, idle)
      L2 == IF bl # blocked /\ Pullable(at, ctx, bl, c, js, TRUE)
              THEN AddPullable(L1, c, {js}, idle) ELSE L1
      L3 == IF /\ PulledSlot(at, c, js) = {} /\ InTree(at, c, js) = {}
               /\ L2.place[c][js] # None
              THEN ListRemove(L2, c, js, idle) ELSE L2
      revived == ~ctx[c].submit /\ idle /\ ctx[c].dying = "no"
      post == \E b \in Atoms : XPre[b] = a /\ atom[b] # "new"
      ct == [ctx EXCEPT ![c].submit = @ \/ revived]
  IN IF revived \/ post
       THEN AddPullable(L3, c, PullableSlots(at, ct, bl, c, TRUE), idle)
       ELSE L3

\* jd_done_worker, first half: kbase_js_complete_atom_wq.
DoneFirst(a) ==
  LET c == Owner[a]
      at == [atom EXCEPT ![a] = "removing"]
      bl == Unblocked(at, c, SlotOf[a], Prio[a])
  IN /\ QueueMutexFree /\ worker[c].pc = "idle" /\ atom[a] = "completed"
     /\ atom' = at
     /\ blocked' = bl
     /\ lists' = WqLists(a, at, bl)
     /\ ctx' = [ctx EXCEPT ![c].submit =
                  @ \/ (Pulled(at, c) = {} /\ ctx[c].dying = "no")]
     /\ worker' = [worker EXCEPT ![c] = [pc |-> "removing", a |-> a]]
     /\ UNCHANGED <<active_kctx, attrs, sched, mode>>

\* kbasep_js_remove_job: the last atom of its priority lowers the context.
RemoveJob(a) ==
  LET at == [atom EXCEPT ![a] = "removed"]
      left == Counted(at, Owner[a])
  IN /\ atom' = at
     /\ lists' = IF \E b \in left : Prio[b] = Prio[a] THEN lists
                 ELSE UpdatePriority(lists, Owner[a], left, mode.value)

\* jd_done_worker goes on to kbasep_js_remove_job.
DoneRemove(c) ==
  /\ Unlocked /\ worker[c].pc = "removing"
  /\ RemoveJob(worker[c].a)
  /\ worker' = [worker EXCEPT ![c].pc = "released"]
  /\ UNCHANGED <<ctx, blocked, active_kctx, attrs, sched, mode>>

\* js_return_worker, before it takes hwaccess_lock: the counts go down, and
\* the atom may be pulled again.
ReturnFirst(a) ==
  LET c == Owner[a]
  IN /\ QueueMutexFree /\ worker[c].pc = "idle" /\ atom[a] = "returned"
     /\ atom' = [atom EXCEPT ![a] = "tree"]
     /\ worker' = [worker EXCEPT ![c] = [pc |-> "returning", a |-> a]]
     /\ UNCHANGED <<lists, ctx, blocked, active_kctx, attrs, sched, mode>>

\* js_return_worker under the lock.
ReturnSecond(c) ==
  LET a == worker[c].a
      js == SlotOf[a]
      idle == Pulled(atom, c) = {}
      bl == Unblocked(atom, c, js, Prio[a])
      L1 == IF PulledSlot(atom, c, js) = {} /\ InTree(atom, c, js) = {}
              THEN ListRemove(lists, c, js, idle) ELSE lists
      L2 == IF bl # blocked /\ ~idle /\ Pullable(atom, ctx, bl, c, js, TRUE)
              THEN AddPullable(L1, c, {js}, idle) ELSE L1
      revived == idle /\ ctx[c].dying = "no"
      ct == [ctx EXCEPT ![c].submit = @ \/ revived]
  IN /\ Unlocked /\ worker[c].pc = "returning"
     /\ blocked' = bl
     /\ ctx' = ct
     /\ lists' = IF revived
                   THEN AddPullable(DropRunnable(L2, c, idle), c,
                          PullableSlots(atom, ct, bl, c, TRUE), idle)
                   ELSE DropRunnable(L2, c, idle)
     /\ active_kctx' = [s \in Slots |-> IF idle /\ active_kctx[s] = c
                          THEN NoCtx ELSE active_kctx[s]]
     /\ worker' = [worker EXCEPT ![c].pc = "release"]
     /\ UNCHANGED <<atom, attrs, sched, mode>>

\* kbasep_js_runpool_release_ctx_and_katom_retained_state: only an atom that
\* finished gives back its attributes.
WorkerRelease(c) ==
  /\ worker[c].pc \in {"release", "released"}
  /\ QueueMutexFree
  /\ ReleaseCtx(c, IF worker[c].pc = "released" THEN Attrs[worker[c].a] ELSE {})
  /\ ctx' = [ctx EXCEPT ![c] = AfterRelease(c)]
  /\ worker' = [worker EXCEPT ![c] = Rest]
  /\ UNCHANGED <<blocked, sched, mode>>

\* jd_cancel_worker: kbasep_js_remove_cancelled_job, under jsctx_mutex only.
Cancel(a) ==
  LET c == Owner[a]
  IN /\ Unlocked /\ atom[a] = "cancelled" /\ worker[c].pc = "idle"
     /\ RemoveJob(a)
     /\ attrs' = ReleaseAtom(attrs, c, Attrs[a], ctx[c].scheduled)
     /\ UNCHANGED <<ctx, blocked, active_kctx, sched, worker, mode>>

----------------------------------------------------------------------------
(* kbase_js_sched *)

Goto(pc) == sched' = [sched EXCEPT !.pc = pc]
LowestSlot == CHOOSE js \in sched.mask : \A s \in sched.mask : js <= s

\* kbase_js_sched_all; with nothing on a list there is nothing to see.
SchedStart ==
  /\ QueueMutexFree
  /\ \E c \in Ctxs : \E js \in Slots : lists.place[c][js][1] = "pullable"
  /\ sched' = [pc |-> "pop", mask |-> Slots, c |-> NoCtx, pulled |-> FALSE,
               last |-> active_kctx, waiting |-> {}]
  /\ UNCHANGED <<atom, lists, ctx, blocked, active_kctx, attrs, worker, mode>>

\* kbase_js_ctx_list_pop_head: from the list of the most urgent priority.
SchedPop(c) ==
  LET js == LowestSlot
      on(d) == lists.place[d][js][1] = "pullable"
  IN /\ sched.pc = "pop" /\ sched.mask # {}
     /\ on(c)
     /\ \A d \in Ctxs : on(d) => lists.place[c][js][2] <= lists.place[d][js][2]
     /\ lists' = [lists EXCEPT !.place[c][js] = None]
     /\ sched' = [sched EXCEPT !.pc = "use", !.c = c]
     /\ UNCHANGED <<atom, ctx, blocked, active_kctx, attrs, worker, mode>>

\* A slot without a pullable context is done with.
SchedNoneLeft ==
  /\ sched.pc = "pop" /\ sched.mask # {}
  /\ \A c \in Ctxs : lists.place[c][LowestSlot][1] # "pullable"
  /\ sched' = [sched EXCEPT !.mask = @ \ {LowestSlot}]
  /\ UNCHANGED <<atom, lists, ctx, blocked, active_kctx, attrs, worker, mode>>

\* At the end, an active context that stood in another's way is made
\* inactive.
SchedEnd ==
  /\ sched.pc = "pop" /\ sched.mask = {}
  /\ active_kctx' = [js \in Slots |->
       IF js \in sched.waiting /\ active_kctx[js] = sched.last[js]
         THEN NoCtx ELSE active_kctx[js]]
  /\ Goto("idle")
  /\ UNCHANGED <<atom, lists, ctx, blocked, attrs, worker, mode>>

\* kbase_pm_context_active_handle_suspend refuses: the context goes back and
\* the scheduling ends.
SchedSuspended ==
  /\ sched.pc = "use"
  /\ Pulled(atom, sched.c) = {}
  /\ lists' = AddPullable(lists, sched.c, {LowestSlot},
                          Pulled(atom, sched.c) = {})
  /\ Goto("idle")
  /\ UNCHANGED <<atom, ctx, blocked, active_kctx, attrs, worker, mode>>

\* kbase_js_use_ctx and kbasep_js_schedule_ctx.
SchedUse ==
  LET c == sched.c
  IN /\ sched.pc = "use"
     /\ ctx[c].dying = "no"
     /\ ctx[c].scheduled \/ Cardinality({d \in Ctxs : ctx[d].scheduled}) < NumAs
     /\ active_kctx' = [active_kctx EXCEPT ![LowestSlot] = c]
     /\ IF ctx[c].scheduled
          THEN UNCHANGED <<ctx, attrs>>
          ELSE /\ ctx' = [ctx EXCEPT ![c].scheduled = TRUE, ![c].submit = TRUE]
               /\ attrs' = MoveCtx(attrs, c, 1)
     /\ sched' = [sched EXCEPT !.pc = "kick", !.pulled = FALSE]
     /\ UNCHANGED <<atom, lists, blocked, worker, mode>>

\* kbase_backend_find_and_release_free_address_space: an idle context is told
\* to leave ...
SchedEvict(d) ==
  /\ sched.pc = "use" /\ ~ctx[sched.c].scheduled
  /\ Cardinality({e \in Ctxs : ctx[e].scheduled}) = NumAs
  /\ ctx[d].scheduled /\ Refs(d) = 0
  /\ ctx' = [ctx EXCEPT ![d].submit = FALSE, ![d].evicting = TRUE]
  /\ Goto("evict")
  /\ UNCHANGED <<atom, lists, blocked, active_kctx, attrs, worker, mode>>

\* ... and released, if nobody took a reference in the meantime.
SchedRelease(d) ==
  /\ sched.pc = "evict" /\ ctx[d].evicting
  /\ ReleaseCtx(d, {})
  /\ ctx' = [ctx EXCEPT ![d] = [AfterRelease(d) EXCEPT !.evicting = FALSE]]
  /\ Goto("use")
  /\ UNCHANGED <<blocked, worker, mode>>

\* No address space, or the context is dying: it goes back to a list.
SchedUnused ==
  LET c == sched.c
      js == LowestSlot
      idle == Pulled(atom, c) = {}
  IN /\ sched.pc = "use"
     /\ IF ctx[c].scheduled THEN FALSE
        ELSE \/ ctx[c].dying # "no"
             \/ /\ Cardinality({d \in Ctxs : ctx[d].scheduled}) = NumAs
                /\ \A d \in Ctxs : ctx[d].scheduled => Refs(d) # 0
     /\ lists' = IF Pullable(atom, ctx, blocked, c, js, FALSE)
                   THEN AddPullable(lists, c, {js}, idle)
                   ELSE AddUnpullable(lists, c, js, idle)
     /\ sched' = [sched EXCEPT !.pc = "pop", !.mask = @ \ {js}]
     /\ UNCHANGED <<atom, ctx, blocked, active_kctx, attrs, worker, mode>>

\* After the kick the context goes back to the list it now belongs on.
PutBack(c, js) ==
  IF Pullable(atom, ctx, blocked, c, js, TRUE)
    THEN AddPullable(lists, c, {js}, Pulled(atom, c) = {})
    ELSE AddUnpullable(lists, c, js, Pulled(atom, c) = {})

\* The kick took what it could; without an atom the slot is done with, an
\* idle context is no longer active, and one whose turn it is not yet is
\* remembered.
SchedKicked ==
  LET c == sched.c
      js == LowestSlot
      last == sched.last[js]
      idle == Pulled(atom, c) = {}
      waits == last \notin {NoCtx, c} /\ Pullable(atom, ctx, blocked, last, js, TRUE)
  IN /\ sched.pc = "kick"
     /\ lists' = PutBack(c, js)
     /\ IF sched.pulled
          THEN /\ Goto("pop")
               /\ UNCHANGED active_kctx
          ELSE /\ sched' = [sched EXCEPT !.pc = "pop", !.mask = @ \ {js},
                              !.waiting = IF waits THEN @ \cup {js} ELSE @]
               /\ active_kctx' = [s \in Slots |->
                    IF idle /\ active_kctx[s] = c THEN NoCtx
                    ELSE active_kctx[s]]
     /\ UNCHANGED <<atom, ctx, blocked, attrs, worker, mode>>

----------------------------------------------------------------------------
(* The rest. *)

\* set_js_ctx_scheduling_mode: every context on kctx_list gets its priority
\* anew, under hwaccess_lock only.
SetMode ==
  LET new == IF mode.value = "system" THEN "process" ELSE "system"
      moved(c) == UpdatePriority(lists, c, Counted(atom, c), new)
      live == {c \in Ctxs : ctx[c].dying # "dead"}
  IN /\ Unlocked /\ mode.writes < MaxModes
     /\ mode' = [value |-> new, writes |-> mode.writes + 1]
     /\ lists' = [lists EXCEPT
          !.prio = [c \in Ctxs |-> IF c \in live THEN moved(c).prio[c] ELSE @[c]],
          !.place = [c \in Ctxs |-> IF c \in live THEN moved(c).place[c] ELSE @[c]]]
     /\ UNCHANGED <<atom, ctx, blocked, active_kctx, attrs, sched, worker>>

\* kbase_js_zap_context
Zap(c) ==
  /\ QueueMutexFree /\ ctx[c].dying = "no"
  /\ IF ctx[c].scheduled
       THEN /\ ctx' = [ctx EXCEPT ![c].dying = "releasing", ![c].submit = FALSE]
            /\ UNCHANGED <<lists, atom>>
       ELSE /\ ctx' = [ctx EXCEPT ![c].dying = "yes"]
            /\ lists' = [lists EXCEPT !.place[c] = [js \in Slots |-> None]]
            /\ atom' = [a \in Atoms |->
                 IF Owner[a] = c /\ atom[a] \in {"tree", "x_dep"}
                   THEN "cancelled" ELSE atom[a]]
  /\ UNCHANGED <<blocked, active_kctx, attrs, sched, worker, mode>>

\* Its kbasep_js_runpool_release_ctx
ZapRelease(c) ==
  /\ QueueMutexFree /\ ctx[c].dying = "releasing"
  /\ ReleaseCtx(c, {})
  /\ ctx' = [ctx EXCEPT ![c] = [AfterRelease(c) EXCEPT !.dying = "yes"]]
  /\ UNCHANGED <<blocked, sched, worker, mode>>

\* kbasep_js_kctx_term, once kbase_jd_zap_context has seen the context go.
Term(c) ==
  /\ QueueMutexFree /\ ctx[c].dying = "yes" /\ ~ctx[c].scheduled
  /\ worker[c].pc = "idle"
  /\ Counted(atom, c) = {}
  /\ ctx' = [ctx EXCEPT ![c].dying = "dead"]
  /\ lists' = [lists EXCEPT
       !.place[c] = [js \in Slots |-> None],
       !.runnable = @ \ {c},
       !.nr_runnable = IF c \in lists.runnable THEN @ - 1 ELSE @]
  /\ UNCHANGED <<atom, blocked, active_kctx, attrs, sched, worker, mode>>

Next ==
  \/ \E a \in Atoms :
       \/ AddJob(a) \/ Pull(a) \/ SoftStop(a) \/ Unpull(a)
       \/ \E f \in BOOLEAN : Complete(a, f)
       \/ DoneFirst(a) \/ ReturnFirst(a) \/ Cancel(a)
  \/ \E c \in Ctxs :
       \/ DoneRemove(c) \/ ReturnSecond(c) \/ WorkerRelease(c)
       \/ SchedPop(c) \/ SchedEvict(c) \/ SchedRelease(c)
       \/ Zap(c) \/ ZapRelease(c) \/ Term(c)
  \/ SchedStart \/ SchedNoneLeft \/ SchedEnd \/ SchedSuspended \/ SchedUse \/ SchedUnused
  \/ SchedKicked \/ SetMode

Spec == Init /\ [][Next]_vars

----------------------------------------------------------------------------
(* Properties. *)

Holds(c, x) == \E a \in Counted(atom, c) : x \in Attrs[a]

\* The attributes of a context are those of its atoms, and the run pool
\* counts each scheduled context that has one, whatever is added, finished,
\* returned, cancelled, scheduled in or out in between.
AttrsExact ==
  /\ \A c \in Ctxs : \A x \in Attributes :
       attrs.on_ctx[c][x] =
         Cardinality({a \in Counted(atom, c) : x \in Attrs[a]})
         + (IF worker[c].pc = "released" /\ x \in Attrs[worker[c].a] THEN 1 ELSE 0)
  /\ \A x \in Attributes :
       attrs.on_runpool[x] =
         Cardinality({c \in Ctxs : ctx[c].scheduled /\ attrs.on_ctx[c][x] > 0})

\* A context is on the list of its priority, on the pullable one of a slot
\* exactly when that slot is in slots_pullable; only the scheduling thread
\* and a zap take it off without saying so.  The counts are those of the
\* contexts, and a context is counted as runnable exactly while it is
\* pullable or has atoms on the GPU.
ListsExact ==
  /\ \A c \in Ctxs : \A js \in Slots :
       LET pl == lists.place[c][js]
       IN /\ pl # None => pl = <<IF js \in lists.slots[c] THEN "pullable"
                                 ELSE "unpullable", lists.prio[c]>>
          /\ pl = None /\ js \in lists.slots[c] =>
               \/ /\ sched.pc \in {"use", "evict", "kick"}
                  /\ sched.c = c /\ js = LowestSlot
               \/ ctx[c].dying \in {"yes", "dead"}
  /\ lists.nr_pullable = Cardinality({c \in Ctxs : lists.slots[c] # {}})
  /\ lists.nr_runnable = Cardinality(lists.runnable)
  /\ \A c \in Ctxs : ctx[c].dying # "dead" /\ worker[c].pc # "returning" =>
       (c \in lists.runnable <=> lists.slots[c] # {} \/ Pulled(atom, c) # {})

\* The priority of a context is at least that of its most urgent atom.
PriorityCovers ==
  mode.value = "system" =>
    \A c \in Ctxs : ctx[c].dying # "dead" =>
      \A a \in Counted(atom, c) : lists.prio[c] <= Prio[a]

\* A context an atom could be pulled from is on the pullable list, unless it
\* is leaving or a worker is about to look again.
NoneStranded ==
  \A c \in Ctxs : \A js \in Slots :
    /\ ctx[c].dying = "no" /\ worker[c].pc \notin {"returning", "removing"}
    /\ Of(c, {"completed", "returned"}) = {}
    /\ Pullable(atom, ctx, blocked, c, js, ctx[c].scheduled)
    => js \in lists.slots[c]

\* A scheduled context that may not submit has a reference that will be
\* released.
SubmitReturns ==
  \A c \in Ctxs : ctx[c].scheduled /\ ~ctx[c].submit => Refs(c) > 0
=============================================================================
