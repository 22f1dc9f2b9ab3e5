------------------------------ MODULE CtxSched ------------------------------
(***************************************************************************)
(* The context scheduler, mali_kbase_ctx_sched.c: it hands the GPU's       *)
(* address spaces (ASs) to contexts.                                       *)
(*                                                                         *)
(* A context whose last reference goes keeps its AS number and stays       *)
(* programmed in the MMU, in the hope of coming back to it; the AS is only *)
(* marked free, and whoever takes it next evicts the idle owner.  What the *)
(* driver believes (as_free, as_to_kctx, as_nr, refcount) and what the     *)
(* hardware does (mmu) therefore drift apart on purpose, and power-off and *)
(* GPU reset erase the hardware half behind the driver's back.             *)
(*                                                                         *)
(* Every operation runs under hwaccess_lock, so each is one action.  The   *)
(* actions named Env... call the operations the way the rest of the driver *)
(* may, by the contract in mali_kbase_ctx_sched.h.                         *)
(***************************************************************************)
EXTENDS Integers, FiniteSets

CONSTANTS
  Ctx,      \* contexts (struct kbase_context)
  NoCtx,    \* the NULL pointer
  NumAS,    \* kbdev->nr_hw_address_spaces
  MaxRefs   \* bound on a context's reference count

AS == 0 .. NumAS - 1
NoAS == -1                       \* KBASEP_AS_NR_INVALID

ASSUME NumASAssumption == NumAS \in Nat \ {0}
ASSUME NoCtxAssumption == NoCtx \notin Ctx
ASSUME MaxRefsAssumption == MaxRefs \in Nat \ {0}

VARIABLES
  asFree,    \* kbdev->as_free, as the set of its bits
  asToCtx,   \* kbdev->as_to_kctx[]
  asNr,      \* kctx->as_nr
  refcount,  \* kctx->refcount
  mmu,       \* mmu[a]: the context whose page tables AS a walks, or NoCtx
  powered,   \* kbdev->pm.backend.gpu_powered
  restoring, \* "no", or who reset the GPU and still has to restore the ASs
  life       \* life of the context object: "live", "no_pgd", "gone"

schedVars == <<asFree, asToCtx, asNr, refcount>>
hwVars == <<mmu, powered, restoring>>
vars == <<asFree, asToCtx, asNr, refcount, mmu, powered, restoring, life>>

TypeOK ==
  /\ asFree \in SUBSET AS
  /\ asToCtx \in [AS -> Ctx \cup {NoCtx}]
  /\ asNr \in [Ctx -> AS \cup {NoAS}]
  /\ refcount \in [Ctx -> 0 .. MaxRefs]
  /\ mmu \in [AS -> Ctx \cup {NoCtx}]
  /\ powered \in BOOLEAN
  /\ restoring \in {"no", "poweron", "reset"}
  /\ life \in [Ctx -> {"live", "no_pgd", "gone"}]

\* Mutant of Init: as_present has one bit too many.
Init_OneAsTooMany ==
  /\ asFree = 0 .. NumAS
  /\ asToCtx = [a \in AS |-> NoCtx]
  /\ asNr = [c \in Ctx |-> NoAS]
  /\ refcount = [c \in Ctx |-> 0]
  /\ mmu = [a \in AS |-> NoCtx]
  /\ powered = FALSE
  /\ restoring = "no"
  /\ life = [c \in Ctx |-> "gone"]

\* kbase_ctx_sched_init: every AS is free; the GPU is off, no context exists.
Init ==
  /\ asFree = AS
  /\ asToCtx = [a \in AS |-> NoCtx]
  /\ asNr = [c \in Ctx |-> NoAS]
  /\ refcount = [c \in Ctx |-> 0]
  /\ mmu = [a \in AS |-> NoCtx]
  /\ powered = FALSE
  /\ restoring = "no"
  /\ life = [c \in Ctx |-> "gone"]

----------------------------------------------------------------------------
(* The operations of the scheduler. *)

\* kbasep_ctx_sched_find_as_for_ctx: the AS the context had, if it is still
\* free, else the lowest free one.  A set: empty when there is none.
FindAs(c) ==
  IF asNr[c] \in asFree
    THEN {asNr[c]}
    ELSE {a \in asFree : \A b \in asFree : a <= b}

\* Mutants of TakeAs: the evicted owner keeps its as_nr; the free bit stays.
TakeAs_KeepsEvicted(c, a) ==
  /\ asFree' = asFree \ {a}
  /\ IF a = asNr[c]
       THEN UNCHANGED <<asToCtx, asNr, mmu>>
       ELSE /\ asNr' = [asNr EXCEPT ![c] = a]
            /\ asToCtx' = [asToCtx EXCEPT ![a] = c]
            /\ mmu' = [mmu EXCEPT ![a] = c]

TakeAs_LeavesFreeBit(c, a) ==
  /\ UNCHANGED asFree
  /\ asNr' = [x \in Ctx |->
                 IF x = c THEN a
                 ELSE IF x = asToCtx[a] THEN NoAS ELSE asNr[x]]
  /\ asToCtx' = [asToCtx EXCEPT ![a] = c]
  /\ mmu' = [mmu EXCEPT ![a] = c]

\* The tail of kbase_ctx_sched_retain_ctx: AS a, unless it is the context's
\* own, is taken from an idle owner (whose translation is disabled and whose
\* as_nr is invalidated) and programmed for the new one.
TakeAs(c, a) ==
  /\ asFree' = asFree \ {a}
  /\ IF a = asNr[c]
       THEN UNCHANGED <<asToCtx, asNr, mmu>>
       ELSE /\ asNr' = [x \in Ctx |->
                          IF x = c THEN a
                          ELSE IF x = asToCtx[a] THEN NoAS ELSE asNr[x]]
            /\ asToCtx' = [asToCtx EXCEPT ![a] = c]
            /\ mmu' = [mmu EXCEPT ![a] = c]

\* kbase_ctx_sched_retain_ctx: only the first reference looks for an AS; when
\* there is none the increment is undone.
RetainCtx(c) ==
  \/ /\ refcount[c] > 0
     /\ refcount' = [refcount EXCEPT ![c] = @ + 1]
     /\ UNCHANGED <<asFree, asToCtx, asNr, mmu>>
  \/ /\ refcount[c] = 0
     /\ \E a \in FindAs(c) : TakeAs(c, a)
     /\ refcount' = [refcount EXCEPT ![c] = 1]
  \/ /\ refcount[c] = 0
     /\ FindAs(c) = {}
     /\ UNCHANGED <<asFree, asToCtx, asNr, mmu, refcount>>

\* kbase_ctx_sched_retain_ctx_refcount: counts, and never looks for an AS.
RetainRef(c) ==
  /\ refcount' = [refcount EXCEPT ![c] = @ + 1]
  /\ UNCHANGED <<asFree, asToCtx, asNr, mmu>>

\* Mutant of ReleaseCtx: the AS is freed one reference too early.
ReleaseCtx_FreesEarly(c) ==
  /\ refcount' = [refcount EXCEPT ![c] = @ - 1]
  /\ asFree' = IF refcount[c] <= 2 THEN asFree \cup {asNr[c]} ELSE asFree
  /\ UNCHANGED <<asToCtx, asNr, mmu>>

\* kbase_ctx_sched_release_ctx: the last reference only marks the AS free.
ReleaseCtx(c) ==
  /\ refcount' = [refcount EXCEPT ![c] = @ - 1]
  /\ asFree' = IF refcount[c] = 1 THEN asFree \cup {asNr[c]} ELSE asFree
  /\ UNCHANGED <<asToCtx, asNr, mmu>>

\* Mutant of RemoveCtx: as_to_kctx keeps pointing to the context.
RemoveCtx_KeepsPointer(c) ==
  IF asNr[c] = NoAS
    THEN UNCHANGED <<asToCtx, asNr, mmu>>
    ELSE /\ mmu' = IF powered THEN [mmu EXCEPT ![asNr[c]] = NoCtx] ELSE mmu
         /\ asNr' = [asNr EXCEPT ![c] = NoAS]
         /\ UNCHANGED asToCtx

\* kbase_ctx_sched_remove_ctx: the hardware is only touched when powered.
RemoveCtx(c) ==
  IF asNr[c] = NoAS
    THEN UNCHANGED <<asToCtx, asNr, mmu>>
    ELSE /\ mmu' = IF powered THEN [mmu EXCEPT ![asNr[c]] = NoCtx] ELSE mmu
         /\ asToCtx' = [asToCtx EXCEPT ![asNr[c]] = NoCtx]
         /\ asNr' = [asNr EXCEPT ![c] = NoAS]

Referenced(a) == asToCtx[a] # NoCtx /\ refcount[asToCtx[a]] > 0
IdleOwner(a) == asToCtx[a] # NoCtx /\ refcount[asToCtx[a]] = 0

\* Mutant of DropIdleOwners: idle owners keep the AS.
DropIdleOwners_Keeps == UNCHANGED <<asNr, asToCtx>>

\* kbase_ctx_sched_restore_all_as, the bookkeeping: an idle owner loses its AS.
DropIdleOwners ==
  /\ asNr' = [c \in Ctx |-> IF asNr[c] # NoAS /\ IdleOwner(asNr[c])
                              THEN NoAS ELSE asNr[c]]
  /\ asToCtx' = [a \in AS |-> IF IdleOwner(a) THEN NoCtx ELSE asToCtx[a]]

\* kbase_ctx_sched_restore_all_as: after the hardware lost its registers, the
\* referenced contexts are programmed again, an idle owner loses the AS (its
\* translation is gone, so it may not come back to it unprogrammed) and an AS
\* without owner is disabled.
RestoreAllAs ==
  /\ mmu' = [a \in AS |-> IF Referenced(a) THEN asToCtx[a]
                          ELSE IF IdleOwner(a) THEN mmu[a] ELSE NoCtx]
  /\ DropIdleOwners

----------------------------------------------------------------------------
(* The callers. *)

\* kbase_create_context: as_nr invalid, refcount 0.
EnvCreate(c) ==
  /\ life[c] = "gone"
  /\ life' = [life EXCEPT ![c] = "live"]
  /\ UNCHANGED <<schedVars, hwVars>>

\* kbasep_js_schedule_ctx: the GPU is powered.  kbase_pm_clock_on keeps
\* schedulers out with runpool_mutex until it has restored the ASs; a GPU
\* reset does not.
EnvRetain(c) ==
  /\ life[c] = "live"
  /\ powered
  /\ restoring # "poweron"
  /\ refcount[c] < MaxRefs
  /\ RetainCtx(c)
  /\ UNCHANGED <<powered, restoring, life>>

\* kbasep_js_runpool_retain_ctx_nolock: "must be called only when the context
\* already has a reference".
EnvRetainRef(c) ==
  /\ refcount[c] \in 1 .. MaxRefs - 1
  /\ RetainRef(c)
  /\ UNCHANGED <<powered, restoring, life>>

EnvRelease(c) ==
  /\ refcount[c] > 0
  /\ ReleaseCtx(c)
  /\ UNCHANGED <<powered, restoring, life>>

\* kbase_destroy_context, first half: kbase_mmu_free_pgd.  The context was
\* zapped before and is idle from here on; the caller keeps the GPU powered.
EnvFreePgd(c) ==
  /\ life[c] = "live"
  /\ powered
  /\ restoring # "poweron"
  /\ refcount[c] = 0
  /\ life' = [life EXCEPT ![c] = "no_pgd"]
  /\ UNCHANGED <<schedVars, hwVars>>

\* kbase_destroy_context, second half: kbase_ctx_sched_remove_ctx.
EnvRemove(c) ==
  /\ life[c] = "no_pgd"
  /\ RemoveCtx(c)
  /\ life' = [life EXCEPT ![c] = "gone"]
  /\ UNCHANGED <<asFree, refcount, powered, restoring>>

\* kbase_pm_clock_off: contexts stay referenced across a power-off, but
\* kbase_destroy_context holds a PM reference that prevents it.
EnvPowerOff ==
  /\ powered
  /\ \A c \in Ctx : life[c] # "no_pgd"
  /\ restoring = "no"
  /\ powered' = FALSE
  /\ UNCHANGED <<schedVars, mmu, restoring, life>>

\* kbase_pm_clock_on up to kbase_pm_init_hw: the reset clears every AS.
EnvPowerOn ==
  /\ ~powered
  /\ powered' = TRUE
  /\ mmu' = [a \in AS |-> NoCtx]
  /\ restoring' = "poweron"
  /\ UNCHANGED <<schedVars, life>>

\* kbasep_reset_timeout_worker up to kbase_pm_init_hw.
EnvReset ==
  /\ powered
  /\ restoring = "no"
  /\ mmu' = [a \in AS |-> NoCtx]
  /\ restoring' = "reset"
  /\ UNCHANGED <<schedVars, powered, life>>

EnvRestore ==
  /\ restoring # "no"
  /\ RestoreAllAs
  /\ restoring' = "no"
  /\ UNCHANGED <<asFree, refcount, powered, life>>

Next ==
  \/ \E c \in Ctx :
       \/ EnvCreate(c)
       \/ EnvRetain(c)
       \/ EnvRetainRef(c)
       \/ EnvRelease(c)
       \/ EnvFreePgd(c)
       \/ EnvRemove(c)
  \/ EnvPowerOff
  \/ EnvPowerOn
  \/ EnvReset
  \/ EnvRestore

Spec == Init /\ [][Next]_vars

----------------------------------------------------------------------------
(* Properties. *)

\* as_to_kctx and as_nr are inverse of each other: the WARN_ONs of
\* kbase_ctx_sched_retain_ctx_refcount and of the restore never fire, and an
\* AS never has two owners.
OwnersAgree ==
  /\ \A c \in Ctx : asNr[c] # NoAS => asToCtx[asNr[c]] = c
  /\ \A a \in AS : asToCtx[a] # NoCtx => asNr[asToCtx[a]] = a

\* An AS is marked busy exactly while its owner is referenced: so taking a
\* free AS never evicts a context in use, and none leaks.
FreeIffUnreferenced ==
  \A a \in AS : a \notin asFree <=> Referenced(a)

\* A context in use has an AS.
ReferencedHasAs ==
  \A c \in Ctx : refcount[c] > 0 => asNr[c] # NoAS

\* The hardware translates for the context the driver believes it does: for a
\* referenced context of a powered GPU (outside the window in which the ASs
\* are being restored), its AS walks its own page tables, although a context
\* that comes back to a cached AS is not programmed again.
TranslationCurrent ==
  powered /\ restoring = "no" =>
    \A c \in Ctx : refcount[c] > 0 => mmu[asNr[c]] = c

\* What makes TranslationCurrent inductive: an idle owner still has its
\* translation, unless the hardware has just lost it and the restore, which
\* takes the AS away from idle owners, is still to come.
IdleTranslationCached ==
  powered /\ restoring = "no" =>
    \A a \in AS : asToCtx[a] # NoCtx => mmu[a] = asToCtx[a]

\* Contexts are referenced only while they live.
ReferencedIsLive ==
  \A c \in Ctx : refcount[c] > 0 => life[c] = "live"

\* A context that no longer exists owns no AS, is pointed to by none and has
\* no reference: kbase_destroy_context leaves nothing behind in the tables.
GoneIsForgotten ==
  \A c \in Ctx : life[c] = "gone" =>
    /\ refcount[c] = 0
    /\ asNr[c] = NoAS
    /\ \A a \in AS : asToCtx[a] # c

\* The inductive invariant.
SchedInv ==
  /\ TypeOK
  /\ OwnersAgree
  /\ FreeIffUnreferenced
  /\ ReferencedHasAs
  /\ IdleTranslationCached
  /\ ReferencedIsLive
  /\ GoneIsForgotten

\* Refinement: the lease of AsLease is the owner of an AS that is not free.
Lease == INSTANCE AsLease WITH
  lease <- [a \in AS |-> IF a \in asFree THEN {} ELSE {asToCtx[a]}],
  holders <- refcount

\* The scheduler implements AsLease: leases are exclusive, last as long as
\* the references and never move while one is held.
LeaseSpec == Lease!Spec

\* The free address spaces are exactly those without references, and a context
\* that is gone is known to none of them.  (kbase_ctx_sched_retain_ctx,
\* kbase_ctx_sched_remove_ctx)
ListsAgree == FreeIffUnreferenced /\ GoneIsForgotten
=============================================================================
