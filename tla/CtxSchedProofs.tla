--------------------------- MODULE CtxSchedProofs ---------------------------
(***************************************************************************)
(* Proofs about CtxSched, for every set of contexts, every number of       *)
(* address spaces and every bound on the references.                       *)
(***************************************************************************)
EXTENDS CtxSched, TLAPS

\* The environment's disjuncts, one name each, for the case splits below.
EnvStep(c) ==
  \/ EnvCreate(c) \/ EnvRetain(c) \/ EnvRetainRef(c)
  \/ EnvRelease(c) \/ EnvFreePgd(c) \/ EnvRemove(c)

\* The step in which a context without a reference takes address space a.
FirstReference(c, a) ==
  /\ life[c] = "live"
  /\ powered
  /\ restoring # "poweron"
  /\ refcount[c] = 0
  /\ a \in asFree
  /\ asNr[c] \in asFree => a = asNr[c]
  /\ TakeAs(c, a)
  /\ refcount' = [refcount EXCEPT ![c] = 1]
  /\ UNCHANGED <<powered, restoring, life>>

\* Initially nothing is leased, so the invariant holds.
LEMMA InitInv == Init => SchedInv
<1> SUFFICES ASSUME Init PROVE SchedInv
  OBVIOUS
<1>1. TypeOK
  <2>1. 0 \in 0 .. MaxRefs
    BY MaxRefsAssumption
  <2> QED
    BY <2>1 DEF Init, TypeOK
<1>2. OwnersAgree /\ FreeIffUnreferenced /\ ReferencedHasAs
  BY DEF Init, OwnersAgree, FreeIffUnreferenced, Referenced, ReferencedHasAs
<1>3. IdleTranslationCached /\ ReferencedIsLive /\ GoneIsForgotten
  BY NoCtxAssumption
     DEF Init, IdleTranslationCached, ReferencedIsLive, GoneIsForgotten
<1> QED
  BY <1>1, <1>2, <1>3 DEF SchedInv

\* kbase_ctx_sched_retain_ctx either counts, takes a free AS, or does nothing.
LEMMA RetainCases ==
  ASSUME SchedInv, NEW c \in Ctx, EnvRetain(c)
  PROVE  \/ UNCHANGED vars
         \/ refcount[c] > 0 /\ EnvRetainRef(c)
         \/ \E a \in AS : FirstReference(c, a)
<1>1. CASE refcount[c] > 0
  BY <1>1, MaxRefsAssumption
     DEF EnvRetain, RetainCtx, EnvRetainRef, RetainRef, SchedInv, TypeOK
<1>2. CASE refcount[c] = 0 /\ FindAs(c) = {}
  BY <1>2 DEF EnvRetain, RetainCtx, vars
<1>3. CASE refcount[c] = 0 /\ FindAs(c) # {}
  <2>1. PICK a \in FindAs(c) : TakeAs(c, a)
    BY <1>3 DEF EnvRetain, RetainCtx
  <2>2. a \in asFree /\ (asNr[c] \in asFree => a = asNr[c])
    BY <2>1 DEF FindAs
  <2>3. a \in AS
    BY <2>2 DEF SchedInv, TypeOK
  <2> QED
    BY <1>3, <2>1, <2>2, <2>3 DEF EnvRetain, RetainCtx, FirstReference
<1> QED
  BY <1>1, <1>2, <1>3 DEF SchedInv, TypeOK

\* A first reference preserves the invariant: the free AS it takes has at most
\* an idle owner.
LEMMA FirstReferenceInv ==
  ASSUME SchedInv, NEW c \in Ctx, NEW a \in AS, FirstReference(c, a)
  PROVE  SchedInv'
<1> USE NumASAssumption, NoCtxAssumption, MaxRefsAssumption
<1>1. ~Referenced(a)
  BY DEF SchedInv, FreeIffUnreferenced, FirstReference
<1>2. a # NoAS
  BY DEF AS, NoAS
<1>3. CASE a = asNr[c]
  <2>1. asToCtx[a] = c
    BY <1>3, <1>2 DEF SchedInv, OwnersAgree
  <2> QED
    BY <1>2, <1>3, <2>1
       DEF FirstReference, TakeAs, SchedInv, TypeOK, OwnersAgree,
           FreeIffUnreferenced, Referenced, ReferencedHasAs,
           IdleTranslationCached, ReferencedIsLive, GoneIsForgotten
<1>4. CASE a # asNr[c]
  \* c would have preferred an AS of its own, so it has none.
  <2>1. asNr[c] = NoAS
    <3>1. asNr[c] \notin asFree
      BY <1>4 DEF FirstReference
    <3>2. asNr[c] \in AS => asToCtx[asNr[c]] = c
      BY <1>2 DEF SchedInv, OwnersAgree, AS, NoAS
    <3>3. asNr[c] \notin AS
      BY <3>1, <3>2 DEF SchedInv, FreeIffUnreferenced, Referenced, FirstReference
    <3> QED
      BY <3>3 DEF SchedInv, TypeOK
  <2>2. \A b \in AS : asToCtx[b] # c
    BY <2>1, <1>2 DEF SchedInv, OwnersAgree, AS, NoAS
  <2>3. asToCtx[a] \in Ctx => refcount[asToCtx[a]] = 0
    BY <1>1 DEF Referenced, SchedInv, TypeOK
  <2>4. /\ asFree' = asFree \ {a}
        /\ asNr' = [x \in Ctx |->
                      IF x = c THEN a
                      ELSE IF x = asToCtx[a] THEN NoAS ELSE asNr[x]]
        /\ asToCtx' = [asToCtx EXCEPT ![a] = c]
        /\ mmu' = [mmu EXCEPT ![a] = c]
        /\ refcount' = [refcount EXCEPT ![c] = 1]
        /\ UNCHANGED <<powered, restoring, life>>
        /\ life[c] = "live"
    BY <1>4 DEF FirstReference, TakeAs
  <2>5. TypeOK'
    BY <2>4 DEF SchedInv, TypeOK
  <2>6. OwnersAgree'
    BY <1>2, <2>2, <2>4 DEF SchedInv, TypeOK, OwnersAgree
  <2>7. FreeIffUnreferenced'
    BY <2>2, <2>4 DEF SchedInv, TypeOK, FreeIffUnreferenced, Referenced
  <2>8. ReferencedHasAs'
    BY <1>2, <2>3, <2>4 DEF SchedInv, TypeOK, ReferencedHasAs
  <2>9. IdleTranslationCached'
    BY <2>4 DEF SchedInv, TypeOK, IdleTranslationCached
  <2>10. ReferencedIsLive' /\ GoneIsForgotten'
    BY <2>4 DEF SchedInv, TypeOK, ReferencedIsLive, GoneIsForgotten
  <2> QED
    BY <2>5, <2>6, <2>7, <2>8, <2>9, <2>10 DEF SchedInv
<1> QED
  BY <1>3, <1>4

\* The other references: counting up and down never moves an AS.
LEMMA CountingInv ==
  ASSUME SchedInv, NEW c \in Ctx, EnvRetainRef(c) \/ EnvRelease(c)
  PROVE  SchedInv'
<1> USE NumASAssumption, NoCtxAssumption, MaxRefsAssumption
<1>1. CASE EnvRetainRef(c)
  BY <1>1
     DEF EnvRetainRef, RetainRef, SchedInv, TypeOK, OwnersAgree,
         FreeIffUnreferenced, Referenced, ReferencedHasAs,
         IdleTranslationCached, ReferencedIsLive, GoneIsForgotten
<1>2. CASE EnvRelease(c)
  <2>1. /\ asNr[c] \in AS
        /\ asToCtx[asNr[c]] = c
        /\ refcount[c] - 1 \in 0 .. MaxRefs
        /\ refcount[c] > 0
    BY <1>2 DEF EnvRelease, SchedInv, TypeOK, ReferencedHasAs, OwnersAgree
  <2>2. /\ refcount' = [refcount EXCEPT ![c] = @ - 1]
        /\ asFree' = IF refcount[c] = 1 THEN asFree \cup {asNr[c]} ELSE asFree
        /\ UNCHANGED <<asToCtx, asNr, mmu, powered, restoring, life>>
    BY <1>2 DEF EnvRelease, ReleaseCtx
  <2>3. TypeOK'
    BY <2>1, <2>2 DEF SchedInv, TypeOK
  <2>4. FreeIffUnreferenced'
    BY <2>1, <2>2 DEF SchedInv, TypeOK, OwnersAgree, FreeIffUnreferenced,
                      Referenced
  <2>5. OwnersAgree' /\ ReferencedHasAs' /\ IdleTranslationCached'
    BY <2>1, <2>2 DEF SchedInv, TypeOK, OwnersAgree, ReferencedHasAs,
                      IdleTranslationCached
  <2>6. ReferencedIsLive' /\ GoneIsForgotten'
    BY <2>1, <2>2 DEF SchedInv, TypeOK, ReferencedIsLive, GoneIsForgotten
  <2> QED
    BY <2>3, <2>4, <2>5, <2>6 DEF SchedInv
<1> QED
  BY <1>1, <1>2

\* Creation and destruction of a context object.
LEMMA LifeInv ==
  ASSUME SchedInv, NEW c \in Ctx,
         EnvCreate(c) \/ EnvFreePgd(c) \/ EnvRemove(c)
  PROVE  SchedInv'
<1> USE NumASAssumption, NoCtxAssumption, MaxRefsAssumption
<1>1. CASE EnvCreate(c)
  BY <1>1
     DEF EnvCreate, schedVars, hwVars, SchedInv, TypeOK, OwnersAgree,
         FreeIffUnreferenced, Referenced, ReferencedHasAs,
         IdleTranslationCached, ReferencedIsLive, GoneIsForgotten
<1>2. CASE EnvFreePgd(c)
  BY <1>2
     DEF EnvFreePgd, schedVars, hwVars, SchedInv, TypeOK, OwnersAgree,
         FreeIffUnreferenced, Referenced, ReferencedHasAs,
         IdleTranslationCached, ReferencedIsLive, GoneIsForgotten
<1>3. CASE EnvRemove(c)
  <2>1. refcount[c] = 0
    BY <1>3 DEF EnvRemove, SchedInv, TypeOK, ReferencedIsLive
  <2>2. CASE asNr[c] = NoAS
    <3>1. \A a \in AS : asToCtx[a] # c
      BY <2>2 DEF SchedInv, OwnersAgree, AS, NoAS
    <3> QED
      BY <1>3, <2>1, <2>2, <3>1
         DEF EnvRemove, RemoveCtx, SchedInv, TypeOK, OwnersAgree,
             FreeIffUnreferenced, Referenced, ReferencedHasAs,
             IdleTranslationCached, ReferencedIsLive, GoneIsForgotten
  <2>3. CASE asNr[c] # NoAS
    <3>1. asNr[c] \in AS /\ asToCtx[asNr[c]] = c
      BY <2>3 DEF SchedInv, TypeOK, OwnersAgree
    <3>2. /\ mmu' = IF powered THEN [mmu EXCEPT ![asNr[c]] = NoCtx] ELSE mmu
          /\ asToCtx' = [asToCtx EXCEPT ![asNr[c]] = NoCtx]
          /\ asNr' = [asNr EXCEPT ![c] = NoAS]
          /\ life' = [life EXCEPT ![c] = "gone"]
          /\ UNCHANGED <<asFree, refcount, powered, restoring>>
      BY <1>3, <2>3 DEF EnvRemove, RemoveCtx
    <3>3. TypeOK'
      BY <3>1, <3>2 DEF SchedInv, TypeOK
    <3>4. OwnersAgree'
      BY <3>1, <3>2 DEF SchedInv, TypeOK, OwnersAgree, AS, NoAS
    <3>5. FreeIffUnreferenced'
      BY <2>1, <3>1, <3>2 DEF SchedInv, TypeOK, FreeIffUnreferenced, Referenced
    <3>6. ReferencedHasAs' /\ IdleTranslationCached'
      BY <2>1, <3>1, <3>2 DEF SchedInv, TypeOK, ReferencedHasAs,
                              IdleTranslationCached
    <3>7. ReferencedIsLive' /\ GoneIsForgotten'
      BY <2>1, <3>1, <3>2 DEF SchedInv, TypeOK, OwnersAgree, ReferencedIsLive,
                              GoneIsForgotten
    <3> QED
      BY <3>3, <3>4, <3>5, <3>6, <3>7 DEF SchedInv
  <2> QED
    BY <2>2, <2>3
<1> QED
  BY <1>1, <1>2, <1>3

\* Power and reset.  The restore is what lets TranslationCurrent hold again.
LEMMA PowerInv ==
  ASSUME SchedInv, EnvPowerOff \/ EnvPowerOn \/ EnvReset \/ EnvRestore
  PROVE  SchedInv'
<1> USE NumASAssumption, NoCtxAssumption, MaxRefsAssumption
<1>1. CASE EnvPowerOff \/ EnvPowerOn \/ EnvReset
  <2>1. /\ UNCHANGED schedVars /\ UNCHANGED life
        /\ mmu' \in [AS -> Ctx \cup {NoCtx}]
        /\ powered' \in BOOLEAN
        /\ restoring' \in {"no", "poweron", "reset"}
        /\ ~(powered' /\ restoring' = "no")
    BY <1>1 DEF EnvPowerOff, EnvPowerOn, EnvReset, SchedInv, TypeOK
  <2> QED
    BY <2>1
       DEF schedVars, SchedInv, TypeOK, OwnersAgree, FreeIffUnreferenced,
           Referenced, ReferencedHasAs, IdleTranslationCached,
           ReferencedIsLive, GoneIsForgotten
<1>2. CASE EnvRestore
  <2>1. /\ mmu' = [a \in AS |-> IF Referenced(a) THEN asToCtx[a]
                                 ELSE IF IdleOwner(a) THEN mmu[a] ELSE NoCtx]
        /\ asNr' = [c \in Ctx |-> IF asNr[c] # NoAS /\ IdleOwner(asNr[c])
                                     THEN NoAS ELSE asNr[c]]
        /\ asToCtx' = [a \in AS |-> IF IdleOwner(a) THEN NoCtx
                                     ELSE asToCtx[a]]
        /\ UNCHANGED <<asFree, refcount, powered, life>>
        /\ restoring' = "no"
    BY <1>2 DEF EnvRestore, RestoreAllAs, DropIdleOwners
  <2>2. TypeOK'
    BY <2>1 DEF SchedInv, TypeOK, Referenced
  <2>3. OwnersAgree'
    BY <2>1 DEF SchedInv, TypeOK, OwnersAgree, AS, NoAS
  <2>4. FreeIffUnreferenced'
    BY <2>1 DEF SchedInv, TypeOK, FreeIffUnreferenced, Referenced, IdleOwner
  <2>5. ReferencedHasAs'
    BY <2>1 DEF SchedInv, TypeOK, OwnersAgree, ReferencedHasAs, IdleOwner
  <2>6. IdleTranslationCached'
    BY <2>1 DEF SchedInv, TypeOK, IdleTranslationCached, Referenced, IdleOwner
  <2>7. ReferencedIsLive' /\ GoneIsForgotten'
    BY <2>1 DEF SchedInv, TypeOK, ReferencedIsLive, GoneIsForgotten
  <2> QED
    BY <2>2, <2>3, <2>4, <2>5, <2>6, <2>7 DEF SchedInv
<1> QED
  BY <1>1, <1>2

\* Every step preserves the invariant.
LEMMA NextInv == SchedInv /\ [Next]_vars => SchedInv'
<1> SUFFICES ASSUME SchedInv, [Next]_vars PROVE SchedInv'
  OBVIOUS
<1>1. CASE UNCHANGED vars
  BY <1>1
     DEF vars, SchedInv, TypeOK, OwnersAgree, FreeIffUnreferenced, Referenced,
         ReferencedHasAs, IdleTranslationCached, ReferencedIsLive,
         GoneIsForgotten
<1>2. ASSUME NEW c \in Ctx, EnvRetain(c) PROVE SchedInv'
  BY <1>1, <1>2, RetainCases, FirstReferenceInv, CountingInv
<1>3. ASSUME NEW c \in Ctx, EnvStep(c) PROVE SchedInv'
  BY <1>2, <1>3, CountingInv, LifeInv DEF EnvStep
<1> QED
  BY <1>1, <1>3, PowerInv DEF Next, EnvStep

\* The inductive invariant holds in every reachable state.
THEOREM SchedInvariant == Spec => []SchedInv
BY InitInv, NextInv, PTL DEF Spec

\* Type correctness of the scheduler's tables.
THEOREM TypeCorrect == Spec => []TypeOK
<1>1. SchedInv => TypeOK
  BY DEF SchedInv
<1> QED
  BY <1>1, SchedInvariant, PTL

\* An AS has one owner, and a context one AS: both tables agree on it.
\* (kbase_ctx_sched_retain_ctx, kbasep_ctx_sched_assign_as)
THEOREM ExclusiveOwnership == Spec => []OwnersAgree
<1>1. SchedInv => OwnersAgree
  BY DEF SchedInv
<1> QED
  BY <1>1, SchedInvariant, PTL

\* An AS is off the free list exactly while its owner is referenced, and
\* nothing of a destroyed context stays in the tables.
\* (kbase_ctx_sched_release_ctx, kbase_ctx_sched_remove_ctx)
THEOREM ListsStayExact == Spec => []ListsAgree
<1>1. SchedInv => ListsAgree
  BY DEF SchedInv, ListsAgree
<1> QED
  BY <1>1, SchedInvariant, PTL

\* A context in use is translated by its own page tables, although it is not
\* programmed again when it comes back to its cached AS.
THEOREM TranslationIsCurrent == Spec => []TranslationCurrent
<1>1. SchedInv => TranslationCurrent
  <2> SUFFICES ASSUME SchedInv, powered, restoring = "no",
                      NEW c \in Ctx, refcount[c] > 0
               PROVE  mmu[asNr[c]] = c
    BY DEF TranslationCurrent
  <2>1. asNr[c] \in AS /\ asToCtx[asNr[c]] = c
    BY DEF SchedInv, TypeOK, ReferencedHasAs, OwnersAgree
  <2> QED
    BY <2>1, NoCtxAssumption DEF SchedInv, IdleTranslationCached
<1> QED
  BY <1>1, SchedInvariant, PTL

----------------------------------------------------------------------------
(* The refinement: CtxSched implements AsLease. *)

\* The lease function of the refinement mapping.
leaseOf == [a \in AS |-> IF a \in asFree THEN {} ELSE {asToCtx[a]}]

\* Initially no AS is leased.
LEMMA InitRefines == Init => Lease!Init
BY DEF Init, Lease!Init

\* Taking a first reference is an Acquire.
LEMMA FirstReferenceRefines ==
  ASSUME SchedInv, SchedInv', NEW c \in Ctx, NEW a \in AS,
         FirstReference(c, a)
  PROVE  Lease!Acquire(c, a)
<1>1. /\ refcount[c] = 0
      /\ refcount' = [refcount EXCEPT ![c] = 1]
      /\ a \in asFree
      /\ asFree' = asFree \ {a}
      /\ \A b \in AS : b # a => asToCtx'[b] = asToCtx[b]
  BY DEF FirstReference, TakeAs, SchedInv, TypeOK
<1>2. asToCtx'[a] = c
  <2>1. CASE a = asNr[c]
    BY <2>1 DEF FirstReference, TakeAs, SchedInv, OwnersAgree, AS, NoAS
  <2>2. CASE a # asNr[c]
    BY <2>2 DEF FirstReference, TakeAs, SchedInv, TypeOK
  <2> QED
    BY <2>1, <2>2
<1>3. \A b \in AS : c \in leaseOf[b] => FALSE
  BY <1>1 DEF leaseOf, SchedInv, FreeIffUnreferenced, Referenced
<1>4. leaseOf' = [leaseOf EXCEPT ![a] = {c}]
  BY <1>1, <1>2 DEF leaseOf
<1> QED
  BY <1>1, <1>3, <1>4 DEF Lease!Acquire, Lease!Leases, leaseOf

\* Giving a reference back is a Drop.
LEMMA ReleaseRefines ==
  ASSUME SchedInv, NEW c \in Ctx, EnvRelease(c)
  PROVE  Lease!Drop(c)
<1>1. /\ refcount[c] > 0
      /\ refcount' = [refcount EXCEPT ![c] = @ - 1]
      /\ asToCtx' = asToCtx
      /\ asFree' = IF refcount[c] = 1 THEN asFree \cup {asNr[c]} ELSE asFree
  BY DEF EnvRelease, ReleaseCtx
<1>2. asNr[c] \in AS /\ asToCtx[asNr[c]] = c
  BY <1>1 DEF SchedInv, TypeOK, ReferencedHasAs, OwnersAgree
<1>3. \A a \in AS : asToCtx[a] = c => a = asNr[c]
  BY NoCtxAssumption DEF SchedInv, OwnersAgree
<1>4. leaseOf' = IF refcount[c] = 1
                   THEN [a \in AS |-> leaseOf[a] \ {c}]
                   ELSE leaseOf
  <2>1. CASE refcount[c] = 1
    <3>1. \A a \in AS : leaseOf'[a] = leaseOf[a] \ {c}
      BY <1>1, <1>2, <1>3, <2>1 DEF leaseOf
    <3> QED
      BY <2>1, <3>1 DEF leaseOf
  <2>2. CASE refcount[c] # 1
    BY <1>1, <2>2 DEF leaseOf
  <2> QED
    BY <2>1, <2>2
<1> QED
  BY <1>1, <1>4 DEF Lease!Drop, leaseOf

\* A restore only touches ASs nobody has leased.
LEMMA RestoreRefines ==
  ASSUME SchedInv, EnvRestore
  PROVE  UNCHANGED Lease!vars
<1>1. \A a \in AS : a \in asFree \/ asToCtx'[a] = asToCtx[a]
  BY DEF EnvRestore, RestoreAllAs, DropIdleOwners, IdleOwner, SchedInv, FreeIffUnreferenced,
         Referenced, TypeOK
<1> QED
  BY <1>1 DEF EnvRestore, Lease!vars

\* Removing a context only touches an AS nobody has leased.
LEMMA RemoveRefines ==
  ASSUME SchedInv, NEW c \in Ctx, EnvRemove(c)
  PROVE  UNCHANGED Lease!vars
<1>1. \A a \in AS : a \in asFree \/ asToCtx'[a] = asToCtx[a]
  BY DEF EnvRemove, RemoveCtx, SchedInv, TypeOK, OwnersAgree,
         FreeIffUnreferenced, Referenced, ReferencedIsLive
<1> QED
  BY <1>1 DEF EnvRemove, Lease!vars

\* Every step of the scheduler is a step of AsLease or changes no lease.
LEMMA NextRefines ==
  ASSUME SchedInv, SchedInv', [Next]_vars
  PROVE  [Lease!Next]_(Lease!vars)
<1>1. CASE UNCHANGED vars
  BY <1>1 DEF vars, Lease!vars
<1>2. ASSUME NEW c \in Ctx, EnvRetainRef(c) PROVE Lease!Next
  <2>1. Lease!Share(c)
    BY <1>2 DEF EnvRetainRef, RetainRef, Lease!Share
  <2> QED
    BY <2>1 DEF Lease!Next
<1>3. ASSUME NEW c \in Ctx, EnvRetain(c) PROVE [Lease!Next]_(Lease!vars)
  BY <1>1, <1>2, <1>3, RetainCases, FirstReferenceRefines DEF Lease!Next
<1>4. ASSUME NEW c \in Ctx, EnvRelease(c) PROVE Lease!Next
  BY <1>4, ReleaseRefines DEF Lease!Next
<1>5. ASSUME NEW c \in Ctx, EnvCreate(c) \/ EnvFreePgd(c) \/ EnvRemove(c)
      PROVE  UNCHANGED Lease!vars
  BY <1>5, RemoveRefines DEF EnvCreate, EnvFreePgd, schedVars, Lease!vars
<1>6. CASE EnvPowerOff \/ EnvPowerOn \/ EnvReset \/ EnvRestore
  BY <1>6, RestoreRefines
     DEF EnvPowerOff, EnvPowerOn, EnvReset, schedVars, Lease!vars
<1> QED
  BY <1>1, <1>2, <1>3, <1>4, <1>5, <1>6 DEF Next

\* The scheduler keeps the promise of AsLease: exclusive leases that last
\* exactly as long as the references and never move in between.
THEOREM ImplementsLease == Spec => LeaseSpec
<1>1. Init => Lease!Init
  BY InitRefines
<1>2. SchedInv /\ SchedInv' /\ [Next]_vars => [Lease!Next]_(Lease!vars)
  BY NextRefines
<1> QED
  BY <1>1, <1>2, SchedInvariant, PTL DEF Spec, LeaseSpec, Lease!Spec
=============================================================================
