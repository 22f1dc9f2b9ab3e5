------------------------------ MODULE RunPool ------------------------------
(***************************************************************************)
(* The job scheduler's run pool: how contexts get onto an address space    *)
(* and off it again (mali_kbase_js.c, backend/gpu/mali_kbase_jm_as.c).     *)
(*                                                                         *)
(* A context is scheduled in by the one thread that holds schedule_sem and *)
(* queue_mutex (kbase_js_sched), and out by whoever drops the last but one *)
(* reference while the context may not submit.  Around that thread run     *)
(* interrupts that start atoms, workers that finish them, the page-fault   *)
(* path, system suspend, context destruction and the privileged            *)
(* (instrumentation) context.  A step is what happens under one hold of    *)
(* hwaccess_lock; SCHED holds queue_mutex from Pick to the end.            *)
(*                                                                         *)
(* The AS bookkeeping is that of CtxSched, instantiated as CS; the MMU     *)
(* half of it is left to that module.  Job slots are merged into one.      *)
(***************************************************************************)
EXTENDS Integers, FiniteSets, FiniteSetsExt

CONSTANTS
  Ctx, NoCtx, NumAS, MaxRefs, \* see CtxSched
  InstrCtx,                   \* vinstr's own context: it submits no atoms
  MaxAtoms,                   \* bound: running atoms of a context
  MaxOwed,                    \* bound: pending releases of a context
  Suspends                    \* TRUE: the system may suspend

ASSUME InstrAssumption == InstrCtx \in Ctx
ASSUME SuspendsAssumption == Suspends \in BOOLEAN
ASSUME PoolAssumption == NumAS \in Nat \ {0} /\ NoCtx \notin Ctx
\* A context has a reference for each atom and each pending release; the run
\* pool, its privileged user and the scheduler hold one each, a suspend two.
ASSUME BoundsAssumption ==
  /\ MaxAtoms \in Nat /\ MaxOwed \in Nat /\ MaxRefs \in Nat
  /\ MaxRefs >= MaxAtoms + MaxOwed + 5

VARIABLES
  asFree, asToCtx, asNr, refcount, \* see CtxSched
  submit,      \* runpool_irq.submit_allowed, as the set of its AS bits
  scheduled,   \* contexts with KCTX_SCHEDULED
  privileged,  \* contexts with KCTX_PRIVILEGED
  dying,       \* contexts with KCTX_DYING
  active,      \* contexts with KCTX_ACTIVE: a PM reference is held for them
  activeKctx,  \* hwaccess.active_kctx[]
  atoms,       \* atoms[c]: pulled atoms of c, each holding a reference
  owed,        \* owed[c]: holders of a reference on their way to release it
  suspending,  \* kbdev->pm.suspending
  sched,       \* kbase_js_sched: where the scheduling thread stands
  susp         \* kbasep_js_suspend: where the suspending thread stands

asVars == <<asFree, asToCtx, asNr, refcount>>
flagVars == <<scheduled, privileged, dying>>
vars == <<asFree, asToCtx, asNr, refcount, submit, scheduled, privileged,
          dying, active, activeKctx, atoms, owed, suspending, sched, susp>>

CS == INSTANCE CtxSched WITH
        mmu <- asToCtx, powered <- TRUE, restoring <- "no",
        life <- [c \in Ctx |-> "live"]

AS == CS!AS
NoAS == CS!NoAS

SchedIdle == [pc |-> "idle", c |-> NoCtx, v |-> NoCtx, scan |-> 0,
              wasIdle |-> FALSE]
SuspOff == [pc |-> "off", mask |-> {}, i |-> 0, c |-> NoCtx]

TypeOK ==
  /\ CS!TypeOK
  /\ submit \in SUBSET AS
  /\ scheduled \in SUBSET Ctx /\ privileged \in SUBSET Ctx
  /\ dying \in SUBSET Ctx /\ active \in SUBSET Ctx
  /\ activeKctx \in Ctx \cup {NoCtx}
  /\ atoms \in [Ctx -> 0 .. MaxAtoms]
  /\ owed \in [Ctx -> 0 .. MaxOwed]
  /\ suspending \in BOOLEAN
  /\ sched \in [pc : {"idle", "use", "retain", "find", "evict", "retry",
                      "assign", "forceout", "kick", "fail"},
                c : Ctx \cup {NoCtx}, v : Ctx \cup {NoCtx},
                scan : 0 .. NumAS, wasIdle : BOOLEAN]
  /\ susp \in [pc : {"off", "retain", "next", "release", "revived"},
               mask : SUBSET AS, i : AS, c : Ctx \cup {NoCtx}]

Init ==
  /\ asFree = AS
  /\ asToCtx = [a \in AS |-> NoCtx]
  /\ asNr = [c \in Ctx |-> NoAS]
  /\ refcount = [c \in Ctx |-> 0]
  /\ submit = {}
  /\ scheduled = {} /\ privileged = {} /\ dying = {} /\ active = {}
  /\ activeKctx = NoCtx
  /\ atoms = [c \in Ctx |-> 0]
  /\ owed = [c \in Ctx |-> 0]
  /\ suspending = FALSE
  /\ sched = SchedIdle
  /\ susp = SuspOff

\* Once the suspend has revived an idle owner the model stops: see
\* SuspendRetain.
Alive == susp.pc # "revived"
At(pc) == Alive /\ sched.pc = pc
QueueMutexFree == At("idle")
Step(pc) == sched' = [sched EXCEPT !.pc = pc]

----------------------------------------------------------------------------
(* Reference counting. *)

MaySubmit(c) == asNr[c] \in submit
AddRefs(c, n) == refcount' = [refcount EXCEPT ![c] = @ + n]

\* Mutant of LeavesRunPool: relies on the submit bit alone.
LeavesRunPool_IgnoresSuspend(c) == refcount[c] = 2 /\ ~MaySubmit(c)

\* kbasep_js_runpool_release_ctx_internal decides to schedule the context out
\* when only the run pool's own reference is left.
LeavesRunPool(c) ==
  refcount[c] = 2 /\ (~MaySubmit(c) \/ suspending)

\* Mutant of ReleaseInternal: the submit bit of the AS outlives the context.
ReleaseInternal_LeavesSubmit(c) ==
  IF LeavesRunPool(c)
    THEN /\ AddRefs(c, -2)
         /\ asFree' = asFree \cup {asNr[c]}
         /\ activeKctx' = IF activeKctx = c THEN NoCtx ELSE activeKctx
         /\ scheduled' = scheduled \ {c}
         /\ UNCHANGED submit
    ELSE /\ AddRefs(c, -1)
         /\ asFree' = IF refcount[c] = 1 THEN asFree \cup {asNr[c]}
                                         ELSE asFree
         /\ UNCHANGED <<activeKctx, scheduled, submit>>

\* Mutant of ReleaseInternal: interrupts may still start atoms of it.
ReleaseInternal_KeepsActive(c) ==
  IF LeavesRunPool(c)
    THEN /\ AddRefs(c, -2)
         /\ asFree' = asFree \cup {asNr[c]}
         /\ submit' = submit \ {asNr[c]}
         /\ scheduled' = scheduled \ {c}
         /\ UNCHANGED activeKctx
    ELSE /\ AddRefs(c, -1)
         /\ asFree' = IF refcount[c] = 1 THEN asFree \cup {asNr[c]}
                                         ELSE asFree
         /\ UNCHANGED <<activeKctx, scheduled, submit>>

\* The rest of kbasep_js_runpool_release_ctx_internal: the reference goes;
\* a privileged context left alone may submit again; a context that leaves
\* loses the run pool's reference, its AS bit, active_kctx and KCTX_SCHEDULED
\* (the last after hwaccess_lock is dropped, but under the mutexes that
\* everybody who reads it holds).
ReleaseInternal(c) ==
  IF LeavesRunPool(c)
    THEN /\ AddRefs(c, -2)
         /\ asFree' = asFree \cup {asNr[c]}
         /\ submit' = submit \ {asNr[c]}
         /\ activeKctx' = IF activeKctx = c THEN NoCtx ELSE activeKctx
         /\ scheduled' = scheduled \ {c}
    ELSE /\ AddRefs(c, -1)
         /\ asFree' = IF refcount[c] = 1 THEN asFree \cup {asNr[c]}
                                         ELSE asFree
         /\ submit' = IF refcount[c] = 3 /\ c \in privileged /\ ~suspending
                        THEN submit \cup {asNr[c]} ELSE submit
         /\ UNCHANGED <<activeKctx, scheduled>>

----------------------------------------------------------------------------
(* The scheduling thread: one context of kbase_js_sched's loop. *)

\* A context comes off the pullable list: it has atoms, or waits for its
\* privileged AS; a dying one was taken off when it left.  One that is not active needs a PM
\* reference, which kbase_pm_context_active_handle_suspend refuses during a
\* suspend; an active one is not checked.
Pick(c) ==
  /\ QueueMutexFree
  /\ c \in dying => c \in scheduled
  /\ c = InstrCtx => c \in privileged \ scheduled
  /\ c \in active \/ ~suspending
  /\ active' = active \cup {c}
  /\ sched' = [pc |-> "use", c |-> c, v |-> NoCtx, scan |-> 0,
               wasIdle |-> c \notin active]
  /\ UNCHANGED <<asVars, submit, flagVars, activeKctx, atoms, owed,
                 suspending, susp>>

\* kbase_js_use_ctx: a context that is scheduled and owns an AS is only made
\* the active one of the slot.
UseCtx ==
  /\ At("use")
  /\ IF sched.c \in scheduled /\ \E a \in AS : asToCtx[a] = sched.c
       THEN activeKctx' = sched.c /\ Step("kick")
       ELSE Step("retain") /\ UNCHANGED activeKctx
  /\ UNCHANGED <<asVars, submit, flagVars, active, atoms, owed, suspending,
                 susp>>

\* kbasep_js_schedule_ctx, first part: find an AS.
RetainAs ==
  /\ At("retain") \/ At("retry")
  /\ CS!RetainCtx(sched.c)
  /\ IF asNr'[sched.c] # NoAS
       THEN Step("assign")
       ELSE sched' = [sched EXCEPT
                       !.pc = IF @ = "retain" THEN "find" ELSE "fail"]
  /\ UNCHANGED <<submit, flagVars, active, activeKctx, atoms, owed,
                 suspending, susp>>

\* Somebody scheduled in with nothing but the run pool's reference, and not
\* privileged.
Evictable(a) ==
  /\ asToCtx[a] # NoCtx
  /\ asToCtx[a] \notin privileged
  /\ refcount[asToCtx[a]] = 1

\* kbase_backend_find_and_release_free_address_space: retain the first victim
\* from scan on, and stop it from submitting.
FindVictim ==
  /\ At("find")
  /\ LET cands == {a \in AS : a >= sched.scan /\ Evictable(a)}
     IN IF cands = {}
          THEN Step("fail") /\ UNCHANGED <<refcount, submit>>
          ELSE LET a == Min(cands)
                   v == asToCtx[a]
               IN /\ AddRefs(v, 1)
                  /\ submit' = submit \ {asNr[v]}
                  /\ sched' = [sched EXCEPT !.pc = "evict", !.v = v,
                                            !.scan = a + 1]
  /\ UNCHANGED <<asFree, asToCtx, asNr, flagVars, active, activeKctx, atoms,
                 owed, suspending, susp>>

\* Mutant of EvictVictim: takes for granted that the victim left.
EvictVictim_NoRecheck ==
  /\ At("evict")
  /\ ReleaseInternal(sched.v)
  /\ sched' = [sched EXCEPT !.v = NoCtx, !.pc = "retry"]
  /\ UNCHANGED <<asToCtx, asNr, privileged, dying, active, atoms, owed,
                 suspending, susp>>

\* The locks were dropped in between; if nobody else retained the victim its
\* AS is free now, else the scan goes on.
EvictVictim ==
  /\ At("evict")
  /\ ReleaseInternal(sched.v)
  /\ sched' = [sched EXCEPT
                !.v = NoCtx,
                !.pc = IF sched.v \in scheduled' THEN "find" ELSE "retry"]
  /\ UNCHANGED <<asToCtx, asNr, privileged, dying, active, atoms, owed,
                 suspending, susp>>

\* kbasep_js_schedule_ctx, the transaction: a dying context, or one that some
\* slot still has active, rolls back.  During a suspend it is scheduled in
\* only to be forced out.
AssignAs ==
  /\ At("assign")
  /\ LET c == sched.c
         priv == IF c \in privileged THEN 1 ELSE 0
     IN IF c \in dying \/ activeKctx = c
          THEN /\ CS!ReleaseCtx(c)
               /\ Step("fail")
               /\ UNCHANGED <<submit, scheduled, activeKctx>>
          ELSE /\ scheduled' = scheduled \cup {c}
               /\ activeKctx' = c
               /\ IF suspending
                    THEN /\ AddRefs(c, priv + 1)
                         /\ submit' = submit \ {asNr[c]}
                         /\ Step("forceout")
                    ELSE /\ AddRefs(c, priv)
                         /\ submit' = submit \cup {asNr[c]}
                         /\ Step("kick")
               /\ UNCHANGED <<asFree, asToCtx, asNr>>
  /\ UNCHANGED <<privileged, dying, active, atoms, owed, suspending, susp>>

\* kbasep_js_runpool_release_ctx_no_schedule.
ForceOut ==
  /\ At("forceout")
  /\ ReleaseInternal(sched.c)
  /\ Step("fail")
  /\ UNCHANGED <<asToCtx, asNr, privileged, dying, active, atoms, owed,
                 suspending, susp>>

\* kbase_js_pull's conditions and its reference.
CanPull(c) ==
  /\ c # InstrCtx
  /\ MaySubmit(c)
  /\ ~suspending
  /\ atoms[c] < MaxAtoms

\* kbase_jm_kick under the scheduler: the context runs an atom, or, if it was
\* picked up idle, goes idle again.
Kick ==
  /\ At("kick")
  /\ \/ /\ CanPull(sched.c)
        /\ atoms' = [atoms EXCEPT ![sched.c] = @ + 1]
        /\ AddRefs(sched.c, 1)
        /\ UNCHANGED <<active, activeKctx>>
     \/ /\ IF sched.wasIdle
             THEN /\ active' = active \ {sched.c}
                  /\ activeKctx' = IF activeKctx = sched.c THEN NoCtx
                                                           ELSE activeKctx
             ELSE UNCHANGED <<active, activeKctx>>
        /\ UNCHANGED <<atoms, refcount>>
  /\ sched' = SchedIdle
  /\ UNCHANGED <<asFree, asToCtx, asNr, submit, flagVars, owed, suspending,
                 susp>>

\* Mutant of GiveUp: forgets the PM reference.
GiveUp_KeepsActive ==
  /\ At("fail")
  /\ sched' = SchedIdle
  /\ UNCHANGED <<asVars, submit, flagVars, active, activeKctx, atoms, owed,
                 suspending, susp>>

\* The context cannot be used now.
GiveUp ==
  /\ At("fail")
  /\ active' = IF sched.wasIdle THEN active \ {sched.c} ELSE active
  /\ sched' = SchedIdle
  /\ UNCHANGED <<asVars, submit, flagVars, activeKctx, atoms, owed,
                 suspending, susp>>

----------------------------------------------------------------------------
(* Interrupts and workers. *)

\* Mutant of FastStart: pulls an atom without retaining the context.
FastStart_NoRetain(c) ==
  /\ QueueMutexFree
  /\ activeKctx = c
  /\ CanPull(c)
  /\ atoms' = [atoms EXCEPT ![c] = @ + 1]
  /\ UNCHANGED <<asVars, submit, flagVars, active, activeKctx, owed,
                 suspending, sched, susp>>

\* kbase_jm_try_kick: an interrupt starts another atom of the active context,
\* unless the scheduler holds schedule_sem.
FastStart(c) ==
  /\ QueueMutexFree
  /\ activeKctx = c
  /\ CanPull(c)
  /\ atoms' = [atoms EXCEPT ![c] = @ + 1]
  /\ AddRefs(c, 1)
  /\ UNCHANGED <<asFree, asToCtx, asNr, submit, flagVars, active, activeKctx,
                 owed, suspending, sched, susp>>

\* kbasep_js_runpool_lookup_ctx for a fault of a running atom; the fault
\* worker owes a release.
Fault(a) ==
  /\ Alive
  /\ asToCtx[a] # NoCtx
  /\ LET c == asToCtx[a]
     IN /\ atoms[c] > 0
        /\ owed[c] < MaxOwed
        /\ AddRefs(c, 1)
        /\ owed' = [owed EXCEPT ![c] = @ + 1]
  /\ UNCHANGED <<asFree, asToCtx, asNr, submit, flagVars, active, activeKctx,
                 atoms, suspending, sched, susp>>

\* Mutant of AtomDone: re-enables submission of a dying context.
AtomDone_IgnoresDying(c) ==
  /\ QueueMutexFree
  /\ atoms[c] > 0
  /\ owed[c] < MaxOwed
  /\ atoms' = [atoms EXCEPT ![c] = @ - 1]
  /\ owed' = [owed EXCEPT ![c] = @ + 1]
  /\ IF atoms[c] = 1
       THEN /\ active' = active \ {c}
            /\ activeKctx' = IF activeKctx = c THEN NoCtx ELSE activeKctx
            /\ submit' = submit \cup {asNr[c]}
       ELSE UNCHANGED <<active, activeKctx, submit>>
  /\ UNCHANGED <<asVars, flagVars, suspending, sched, susp>>

\* An atom is done: kbase_js_complete_atom_wq, or js_return_worker for a
\* soft-stopped one.  The last one makes the context idle and, unless it is
\* dying, lets it submit again; the reference is released in another step.
AtomDone(c) ==
  /\ QueueMutexFree
  /\ atoms[c] > 0
  /\ owed[c] < MaxOwed
  /\ atoms' = [atoms EXCEPT ![c] = @ - 1]
  /\ owed' = [owed EXCEPT ![c] = @ + 1]
  /\ IF atoms[c] = 1
       THEN /\ active' = active \ {c}
            /\ activeKctx' = IF activeKctx = c THEN NoCtx ELSE activeKctx
            /\ submit' = IF c \in dying THEN submit
                                        ELSE submit \cup {asNr[c]}
       ELSE UNCHANGED <<active, activeKctx, submit>>
  /\ UNCHANGED <<asVars, flagVars, suspending, sched, susp>>

\* kbasep_js_runpool_release_ctx(_and_katom_retained_state).
Release(c) ==
  /\ QueueMutexFree
  /\ owed[c] > 0
  /\ owed' = [owed EXCEPT ![c] = @ - 1]
  /\ ReleaseInternal(c)
  /\ UNCHANGED <<asToCtx, asNr, privileged, dying, active, atoms, suspending,
                 sched, susp>>

----------------------------------------------------------------------------
(* Privileged context, destruction, suspend. *)

\* Mutant of SchedulePrivileged: a context already in the pool is not
\* retained.
SchedulePrivileged_NoRetain(c) ==
  /\ QueueMutexFree
  /\ ~suspending
  /\ c = InstrCtx /\ c \notin privileged \cup dying
  /\ privileged' = {c}
  /\ UNCHANGED <<asVars, submit, scheduled, dying, active, activeKctx, atoms,
                 owed, suspending, sched, susp>>

\* kbasep_js_schedule_privileged_ctx, never during a suspend (BUG_ON) and for
\* vinstr's context only; the run pool picks an unscheduled one up later.
SchedulePrivileged(c) ==
  /\ QueueMutexFree
  /\ ~suspending
  /\ c = InstrCtx /\ c \notin privileged \cup dying
  /\ privileged' = {c}
  /\ IF c \in scheduled THEN AddRefs(c, 1) ELSE UNCHANGED refcount
  /\ UNCHANGED <<asFree, asToCtx, asNr, submit, scheduled, dying, active,
                 activeKctx, atoms, owed, suspending, sched, susp>>

\* kbasep_js_release_privileged_ctx: the caller waited for KCTX_SCHEDULED.
ReleasePrivileged(c) ==
  /\ QueueMutexFree
  /\ c \in privileged \cap scheduled
  /\ owed[c] < MaxOwed
  /\ privileged' = {}
  /\ owed' = [owed EXCEPT ![c] = @ + 1]
  /\ UNCHANGED <<asVars, submit, scheduled, dying, active, activeKctx, atoms,
                 suspending, sched, susp>>

\* kbase_js_zap_context: a scheduled context loses the right to submit and is
\* retained, so that the matching release takes it out.  Contexts are only
\* destroyed from a syscall, never while the system suspends.
Zap(c) ==
  /\ QueueMutexFree
  /\ ~suspending
  /\ c \notin dying \cup privileged
  /\ dying' = dying \cup {c}
  /\ IF c \in scheduled
       THEN /\ owed[c] < MaxOwed
            /\ owed' = [owed EXCEPT ![c] = @ + 1]
            /\ AddRefs(c, 1)
            /\ submit' = submit \ {asNr[c]}
       ELSE UNCHANGED <<owed, refcount, submit>>
  /\ UNCHANGED <<asFree, asToCtx, asNr, scheduled, privileged, active,
                 activeKctx, atoms, suspending, sched, susp>>

\* kbase_destroy_context waited for the context to be out and its jobs to be
\* gone; kbase_ctx_sched_remove_ctx.  Its name is free for a new context.
Destroy(c) ==
  /\ QueueMutexFree
  /\ c \in dying \ scheduled
  /\ atoms[c] = 0 /\ owed[c] = 0
  /\ CS!RemoveCtx(c)
  /\ dying' = dying \ {c}
  /\ UNCHANGED <<asFree, refcount, submit, scheduled, privileged, active,
                 activeKctx, atoms, owed, suspending, sched, susp>>

\* kbase_pm_suspend waits until vinstr has released its context, and sets
\* pm.suspending before it calls kbasep_js_suspend.
SuspendStart ==
  /\ Suspends
  /\ susp.pc = "off"
  /\ dying = {}
  /\ privileged = {} /\ owed[InstrCtx] = 0
  /\ suspending' = TRUE
  /\ susp' = [SuspOff EXCEPT !.pc = "retain"]
  /\ UNCHANGED <<asVars, submit, flagVars, active, activeKctx, atoms, owed,
                 sched>>

Owned == {a \in AS : asToCtx[a] # NoCtx}
CachedOwners == {asToCtx[a] : a \in Owned \cap asFree}

\* kbasep_js_suspend, first loop: every owner of an AS is retained, in use or
\* idle ("even if it had no refcount to begin with").  An idle owner is not
\* scheduled in and its AS counts as free: from there on every assertion of
\* the release fails, and the model stops ("revived").
SuspendRetain ==
  /\ susp.pc = "retain"
  /\ submit' = {}
  /\ refcount' = [c \in Ctx |->
       refcount[c] + IF \E a \in Owned : asToCtx[a] = c THEN 1 ELSE 0]
  /\ susp' = [susp EXCEPT !.mask = Owned,
                    !.pc = IF CachedOwners = {} THEN "next" ELSE "revived"]
  /\ UNCHANGED <<asFree, asToCtx, asNr, flagVars, active, activeKctx, atoms,
                 owed, suspending, sched>>

\* Second loop: as_to_kctx[i] is read again, without the lock ...
SuspendNext ==
  /\ susp.pc = "next"
  /\ susp.mask # {}
  /\ LET i == Min(susp.mask)
     IN susp' = [pc |-> "release", mask |-> susp.mask \ {i}, i |-> i,
                 c |-> asToCtx[i]]
  /\ UNCHANGED <<asVars, submit, flagVars, active, activeKctx, atoms, owed,
                 suspending, sched>>

\* ... and the context found there is released.
SuspendRelease ==
  /\ susp.pc = "release"
  /\ QueueMutexFree
  /\ ReleaseInternal(susp.c)
  /\ susp' = [susp EXCEPT !.pc = "next", !.i = 0, !.c = NoCtx]
  /\ UNCHANGED <<asToCtx, asNr, privileged, dying, active, atoms, owed,
                 suspending, sched>>

Stopped == ~Alive /\ UNCHANGED vars

\* kbase_ctx_sched_restore_all_as after a power-off or a GPU reset.
Restore ==
  /\ Alive
  /\ CS!DropIdleOwners
  /\ UNCHANGED <<asFree, refcount, submit, flagVars, active, activeKctx, atoms,
                 owed, suspending, sched, susp>>

\* kbase_pm_suspend has waited for the PM references to go, the system slept,
\* kbase_pm_resume powers the GPU on and clears the flag.
Suspended ==
  /\ susp.pc = "next"
  /\ susp.mask = {}
  /\ active = {}
  /\ \A c \in Ctx : owed[c] = 0

Resume ==
  /\ Suspended
  /\ suspending' = FALSE
  /\ susp' = SuspOff
  /\ CS!DropIdleOwners
  /\ UNCHANGED <<asFree, refcount, submit, flagVars, active, activeKctx, atoms, owed,
                 sched>>

----------------------------------------------------------------------------
SchedNext ==
  \/ UseCtx \/ RetainAs \/ FindVictim \/ EvictVictim \/ AssignAs
  \/ ForceOut \/ Kick \/ GiveUp

SuspNext == SuspendRetain \/ SuspendNext \/ SuspendRelease \/ Resume

Next ==
  \/ \E c \in Ctx :
       \/ Pick(c) \/ FastStart(c) \/ AtomDone(c) \/ Release(c)
       \/ SchedulePrivileged(c) \/ ReleasePrivileged(c)
       \/ Zap(c) \/ Destroy(c)
  \/ \E a \in AS : Fault(a)
  \/ SchedNext
  \/ SuspendStart
  \/ SuspNext
  \/ Restore
  \/ Stopped

\* The scheduling thread and the suspending thread run; atoms finish (the
\* job timeouts of js_backend see to it); a worker that waits for queue_mutex
\* gets it sooner or later although the scheduler takes it again and again.
Fairness ==
  /\ WF_vars(SchedNext)
  /\ SF_vars(SuspNext)
  /\ \A c \in Ctx : SF_vars(Release(c)) /\ SF_vars(Destroy(c))
  /\ \A c \in Ctx \ {InstrCtx} : SF_vars(AtomDone(c))

Spec == Init /\ [][Next]_vars
FairSpec == Spec /\ Fairness
----------------------------------------------------------------------------
(* Properties. *)

B(p) == IF p THEN 1 ELSE 0

\* The run pool itself, and the privileged user of a scheduled context.
PoolHolds(c) == B(c \in scheduled) + B(c \in scheduled \cap privileged)

\* The scheduling thread: between retaining and assigning, for its victim, and
\* until it has forced a context out.
SchedHolds(c) ==
  B(sched.pc = "assign" /\ sched.c = c) + B(sched.pc = "evict" /\ sched.v = c)
  + B(sched.pc = "forceout" /\ sched.c = c)

\* The suspending thread still has to release the owner of these ASs.
SuspendHolds(c) ==
  B(\E a \in susp.mask : asToCtx[a] = c) + B(susp.c = c)

\* Every reference has a holder that will drop it: the run pool itself, the
\* privileged user, the scheduling thread, a running atom, a fault or
\* completion worker, the suspending thread.  So no context is pinned to its
\* AS for ever and none loses it early, whichever of them comes last.
RefsAccounted ==
  \A c \in Ctx :
    refcount[c] = PoolHolds(c) + SchedHolds(c) + atoms[c] + owed[c]
                  + SuspendHolds(c)

\* The right to submit hangs on the AS number, not on the context; still it
\* never passes to the next owner of the AS: who has it is scheduled, holds
\* the AS, and is not being destroyed.
SubmitBelongsToOwner ==
  \A a \in submit :
    /\ asToCtx[a] \in scheduled \ dying
    /\ asNr[asToCtx[a]] = a
    /\ a \notin asFree

\* An interrupt may start an atom of active_kctx at any moment: it is
\* scheduled in, so it owns an AS (kbasep_js_is_submit_allowed reads as_nr
\* without a check).
ActiveIsScheduled ==
  activeKctx # NoCtx => activeKctx \in scheduled /\ asNr[activeKctx] # NoAS

\* kbasep_js_schedule_ctx: "Attempt to retain the context again, this should
\* succeed": nobody takes the AS that was just released although every lock
\* but queue_mutex was dropped.
RetrySucceeds == sched.pc = "retry" => CS!FindAs(sched.c) # {}

\* kbasep_js_suspend, "Causes all contexts to be removed from the runpool":
\* when the PM references are gone the run pool is empty, although contexts
\* may have been scheduled in, or got the submit bit back, after
\* kbasep_js_suspend took it away.
SuspendEmptiesRunpool ==
  Suspended /\ QueueMutexFree => scheduled = {}

\* An AS with a running atom is never handed to another context.
RunningKeepsAs ==
  [][\A c \in Ctx : atoms[c] > 0 => asNr'[c] = asNr[c]]_vars

\* kbase_ctx_sched_retain_ctx_refcount "must be called only when the context
\* already has a reference": the suspend does not revive a context whose AS
\* is marked free.
SuspendRetainsReferenced ==
  [][SuspendRetain =>
       \A c \in Ctx : refcount'[c] > refcount[c] => refcount[c] > 0]_vars

\* kbasep_js_suspend, "the runpool ... guaranteed to complete in a finite
\* time": a suspend gets rid of all PM references, and so ends.
SuspendCompletes ==
  suspending ~> (~suspending \/ ~Alive)

\* kbase_destroy_context waits for is_scheduled_wait: a zapped context does
\* get out of the run pool.
DyingIsDestroyed ==
  \A c \in Ctx : c \in dying ~> (c \notin dying \/ ~Alive)

\* The references to contexts are accounted for by those who hold them, jobs are
\* submitted for the owner of an address space only, and an active context is
\* scheduled.  (kbasep_js_runpool_retain_ctx, kbasep_js_runpool_release_ctx)
LeasesSound == TypeOK /\ RefsAccounted /\ SubmitBelongsToOwner /\ ActiveIsScheduled

\* Asking again for an address space succeeds once one is free, and after a
\* suspend nothing is left in the run pool.  (kbasep_js_schedule_ctx,
\* kbasep_js_suspend)
RetryAndSuspend == RetrySucceeds /\ SuspendEmptiesRunpool

\* A suspend comes to an end, and so does a context that is being destroyed.
\* (kbasep_js_suspend, kbase_js_zap_context)
RunPoolProgress == SuspendCompletes /\ DyingIsDestroyed

----------------------------------------------------------------------------
(* The inductive invariant behind LeasesSound, RetryAndSuspend and          *)
(* RunningKeepsAs.                                                          *)

\* The AS tables: the owners agree and the free ASs are those nobody uses.
\* The suspend that revives an idle owner ends this, and the model.
TablesAgree ==
  /\ CS!OwnersAgree
  /\ Alive => CS!FreeIffUnreferenced /\ CS!ReferencedHasAs

\* The context that the scheduler has just found an AS for.
Arriving(c) == sched.pc = "assign" /\ sched.c = c

\* Whoever is referenced is scheduled in, or just being so.
HeldIsScheduled ==
  Alive => \A c \in Ctx : refcount[c] > 0 => c \in scheduled \/ Arriving(c)

\* Flags: only vinstr's context is privileged, and no dying one is.
FlagsAgree ==
  /\ privileged \subseteq {InstrCtx}
  /\ privileged \cap dying = {}

\* Running atoms keep their context active; outside a suspend, so is the
\* context interrupts may start atoms of.
RunningIsActive ==
  /\ \A c \in Ctx : atoms[c] > 0 => c \in active
  /\ activeKctx # NoCtx /\ ~suspending => activeKctx \in active

\* The scheduling thread: its context is active; up to the assignment it is
\* not scheduled in, and from then on it is.
SchedPlace ==
  /\ sched.pc # "idle" =>
       /\ sched.c \in Ctx /\ sched.c \in active
       /\ sched.wasIdle => atoms[sched.c] = 0
  /\ sched.pc \in {"retain", "find", "evict", "retry", "assign"} =>
       sched.c \notin scheduled
  /\ sched.pc \in {"kick", "forceout"} => sched.c \in scheduled
  /\ sched.pc = "assign" =>
       /\ asNr[sched.c] # NoAS /\ refcount[sched.c] > 0
       /\ atoms[sched.c] = 0 /\ owed[sched.c] = 0
  /\ sched.pc = "evict" => sched.v \in scheduled
  /\ sched.pc = "retry" => asFree # {}
  /\ sched.pc = "forceout" => suspending
  /\ sched.pc = "fail" /\ ~suspending => sched.c \notin scheduled

\* The suspending thread: it holds the owners in its mask and the one it is
\* releasing; nobody dies or becomes privileged meanwhile, and who is still
\* scheduled in has another holder, who will schedule it out.
SuspPlace ==
  /\ suspending <=> susp.pc # "off"
  /\ susp.pc \in {"off", "retain"} => susp.mask = {}
  /\ susp.pc = "release" <=> susp.c # NoCtx
  /\ suspending => dying = {} /\ privileged = {}
  /\ Alive => /\ \A a \in susp.mask : asToCtx[a] # NoCtx /\ refcount[asToCtx[a]] > 0
              /\ susp.c # NoCtx => refcount[susp.c] > 0
  /\ susp.pc \in {"next", "release"} =>
       \A c \in scheduled : refcount[c] >= 2

PoolInv ==
  /\ LeasesSound
  /\ TablesAgree /\ HeldIsScheduled /\ FlagsAgree /\ RunningIsActive
  /\ SchedPlace /\ SuspPlace
=============================================================================
