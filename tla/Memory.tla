------------------------------- MODULE Memory -------------------------------
(***************************************************************************)
(* The GPU memory of one context: regions and their backing pages           *)
(* (mali_kbase_mem.c, mali_kbase_mem_linux.c), the page pools               *)
(* (mali_kbase_mem_pool.c), GPU page faults and the page tables             *)
(* (mali_kbase_mmu.c), JIT allocations, and the shrinkers that take memory  *)
(* back.                                                                    *)
(*                                                                         *)
(* Threads: a program's memory calls; the thread that runs its JIT atoms;   *)
(* the page fault worker; the evictable-memory shrinker, which the kernel   *)
(* calls from any thread and which takes no region lock; the JIT destroy    *)
(* worker; and the end of the context.  They meet under reg_lock (the       *)
(* "vm lock") and jit_evict_lock.  A step runs from one place where another *)
(* thread can get between to the next one.                                  *)
(*                                                                         *)
(* Page i of a region's allocation backs its i-th virtual page: an          *)
(* allocation is its length.  All regions have the same virtual size, pages *)
(* are 4kB, and cpu_alloc is gpu_alloc.                                     *)
(***************************************************************************)
EXTENDS Integers, FiniteSets

CONSTANTS
  Native,        \* regions a program allocates; region numbers order addresses
  Jit,           \* regions of JIT allocations
  PfGrow,        \* regions of Native with KBASE_REG_PF_GROW; Jit ones have it
  VaPages,       \* nr_pages of every region
  VaSlots,       \* regions the virtual address space has room for
  Extent,        \* pages a fault grows a region by, at least
  MaxJit,        \* jit_max_allocations
  MaxPool,       \* max_size of the context's page pool
  MaxDev,        \* max_size of the device's page pool, its next_pool
  KernelPages,   \* pages there are in all: an allocation fails when none is left
  InsertMayFail, \* the page tables of a mapping may not be obtainable
  HasTlb,        \* keep track of the translations the GPU has cached
  MaxOps,        \* bound: memory calls and JIT allocations
  MaxReclaims    \* bound: pages the pools' shrinkers take

Regions == Native \union Jit
Pages == 0..VaPages-1
None == 0

ASSUME MemoryAssumption ==
  /\ Native \subseteq Nat \ {None} /\ Jit \subseteq Nat \ {None}
  /\ IsFiniteSet(Regions) /\ Native \intersect Jit = {}
  /\ PfGrow \subseteq Native
  /\ {VaPages, VaSlots, Extent, KernelPages} \subseteq Nat \ {0}
  /\ {MaxJit, MaxPool, MaxDev, MaxOps, MaxReclaims} \subseteq Nat
  /\ {InsertMayFail, HasTlb} \subseteq BOOLEAN

VARIABLES
  region,   \* the region and its allocation (kbase_va_region, kbase_mem_phy_alloc)
  mem,      \* where the pages are: the context's pool, the device's, the kernel
  keep,     \* mem_pool.dont_reclaim
  used,     \* kctx->used_pages
  jits,     \* kctx->jit_current_allocations
  tlb,      \* translations the GPU has cached: pairs of a region and a page
  vm,       \* holder of reg_lock across steps
  jel,      \* holder of jit_evict_lock across steps
  user,     \* progress of a memory call of the program
  jit,      \* progress of a JIT atom
  fault,    \* a GPU access without a translation, and its worker
  shrinker, \* progress of kbase_mem_evictable_reclaim_scan_objects
  destroy,  \* progress of kbase_jit_destroy_worker
  work,     \* jit_work is queued
  ctx,      \* how far kbase_destroy_context is
  ops, reclaims

threads == <<user, jit, fault, shrinker, destroy>>
vars == <<region, mem, keep, used, jits, tlb, vm, jel, threads, work, ctx, ops, reclaims>>

NoRegion ==
  [live |-> FALSE, nents |-> 0, ptes |-> {}, evicted |-> 0, linked |-> FALSE,
   dontneed |-> FALSE, given |-> FALSE, list |-> "none", onevict |-> FALSE, commit |-> 0]

(* A region as kbase_mem_alloc leaves it.                                   *)
NewRegion(n, list) ==
  [NoRegion EXCEPT !.live = TRUE, !.nents = n, !.ptes = 0..n-1, !.linked = TRUE,
                   !.given = TRUE, !.list = list, !.commit = n]

Idle == [pc |-> "idle", r |-> None]

Init ==
  /\ region = [r \in Regions |-> NoRegion]
  /\ mem = [ctx |-> 0, dev |-> 0, kernel |-> KernelPages]
  /\ keep = FALSE /\ used = 0 /\ jits = 0 /\ tlb = {}
  /\ vm = "free" /\ jel = "free"
  /\ user = Idle /\ shrinker = Idle /\ destroy = Idle
  /\ jit = [pc |-> "idle", r |-> None, n |-> 0, old |-> 0, todo |-> 0, need |-> 0]
  /\ fault = [pc |-> "idle", r |-> None, p |-> 0, need |-> 0, todo |-> 0]
  /\ work = FALSE /\ ctx = "open" /\ ops = 0 /\ reclaims = 0

Live == {r \in Regions : region[r].live}
Pool == {r \in Regions : region[r].list = "pool"}
Active == {r \in Regions : region[r].list = "active"}
EvictList == {r \in Regions : region[r].onevict}

(***************************************************************************)
(* Page pools.                                                              *)
(***************************************************************************)
Least(a, b) == IF a < b THEN a ELSE b
Capacity(size, max) == IF size < max THEN max - size ELSE 0

(* kbase_mem_pool_alloc_pages, all or nothing: from the context's pool, the *)
(* device's, the kernel.                                                    *)
CanTake(n) == n <= mem.ctx + mem.dev + mem.kernel
Take(m, n) ==
  LET c == Least(n, m.ctx)
      d == Least(n - c, m.dev)
  IN [ctx |-> m.ctx - c, dev |-> m.dev - d, kernel |-> m.kernel - (n - c - d)]

(* What a failed one leaves: pages it got from the kernel are rolled back   *)
(* into the device's pool.                                                  *)
TakeFailed(m) ==
  LET back == Least(m.kernel, Capacity(m.dev, MaxDev))
  IN [m EXCEPT !.dev = @ + back, !.kernel = @ - back]

\* Mutant of Put: what neither pool holds is not freed.
Put_LosesRest(m, n) ==
  LET c == Least(n, Capacity(m.ctx, MaxPool))
      d == Least(n - c, Capacity(m.dev, MaxDev))
  IN [ctx |-> m.ctx + c, dev |-> m.dev + d, kernel |-> m.kernel]

(* kbase_mem_pool_free_pages: the context's pool, what it does not hold to  *)
(* the device's, the rest to the kernel; reclaimed pages all to the kernel. *)
Put(m, n) ==
  LET c == Least(n, Capacity(m.ctx, MaxPool))
      d == Least(n - c, Capacity(m.dev, MaxDev))
  IN [ctx |-> m.ctx + c, dev |-> m.dev + d, kernel |-> m.kernel + (n - c - d)]
PutReclaimed(m, n) == [m EXCEPT !.kernel = @ + n]

(* kbase_mem_pool_grow by nr pages, "todo" of which are still to come, the  *)
(* lock dropped for each: what happens to its caller when it goes on, fails *)
(* and ends.  A dying pool gives back as many.                              *)
GrowPool(nr, todo, goesOn, fails, ends) ==
  \/ /\ todo > 0 /\ ctx = "open" /\ mem.kernel > 0
     /\ mem' = [mem EXCEPT !.ctx = @ + 1, !.kernel = @ - 1]
     /\ goesOn /\ UNCHANGED keep
  \/ /\ todo > 0 /\ ctx = "open" /\ mem.kernel = 0
     /\ fails /\ keep' = FALSE /\ UNCHANGED mem
  \/ /\ todo > 0 /\ ctx = "dying"
     /\ mem' = [mem EXCEPT !.ctx = @ - Least(nr, mem.ctx), !.kernel = @ + Least(nr, mem.ctx)]
     /\ fails /\ keep' = FALSE
  \/ /\ todo = 0
     /\ ends /\ keep' = FALSE /\ UNCHANGED mem

(* kbase_mem_pool_reclaim_scan_objects, for one page.                       *)
PoolReclaim ==
  /\ reclaims < MaxReclaims
  /\ reclaims' = reclaims + 1
  /\ \/ /\ mem.ctx > 0 /\ ~(keep /\ ctx = "open") /\ ctx # "gone"
        /\ mem' = [mem EXCEPT !.ctx = @ - 1, !.kernel = @ + 1]
     \/ /\ mem.dev > 0
        /\ mem' = [mem EXCEPT !.dev = @ - 1, !.kernel = @ + 1]
  /\ UNCHANGED <<region, keep, used, jits, tlb, vm, jel, threads, work, ctx, ops>>

(***************************************************************************)
(* Page tables.                                                             *)
(***************************************************************************)
Vpfn(r, p) == r * VaPages + p

(* lock_region: the power of two that holds nr pages, aligned to itself.    *)
LockSize(nr) == CHOOSE s \in {2^k : k \in 0..nr} : s >= nr /\ (s = 1 \/ s \div 2 < nr)

(* What a flush of nr pages from vpfn on leaves in the GPU's TLB.           *)
Flushed(vpfn, nr) ==
  IF nr = 0 THEN tlb
  ELSE {t \in tlb : Vpfn(t[1], t[2]) \div LockSize(nr) # vpfn \div LockSize(nr)}

(* The flush of kbase_mmu_teardown_pages for pages new..old-1 of r: vpfn    *)
(* has walked to the end of the range by then.                              *)
TeardownFlush(r, new, old) == Flushed(Vpfn(r, old), old - new)

\* Mutant of Below: the last page stays mapped.
Below_OneMore(ptes, n) == {p \in ptes : p <= n}

Below(ptes, n) == {p \in ptes : p < n}

(***************************************************************************)
(* Steps several threads share.                                             *)
(***************************************************************************)
(* Pages for r at its end and their mapping, all under reg_lock: the new    *)
(* pages are counted first, taken back when there are none, and freed again *)
(* when they cannot be mapped.  "done" says how it ended.                   *)
GrowBacking(r, n) ==
  \/ /\ CanTake(n)
     /\ mem' = Take(mem, n)
     /\ used' = used + n
     /\ region' = [region EXCEPT ![r].nents = @ + n,
                                 ![r].ptes = @ \union (region[r].nents .. region[r].nents + n - 1)]
  \/ /\ CanTake(n) /\ InsertMayFail
     /\ mem' = Put(Take(mem, n), n)
     /\ UNCHANGED <<region, used>>
  \/ /\ ~CanTake(n)
     /\ mem' = TakeFailed(mem)
     /\ UNCHANGED <<region, used>>

\* Mutant of Uncounted: what was marked reclaimable leaves the account twice.
Uncounted_Twice(r) == region[r].nents

(* What freeing a region takes out of the account: what was marked          *)
(* reclaimable is counted again before it is freed.                         *)
Uncounted(r) == IF region[r].dontneed THEN 0 ELSE region[r].nents

(* kbase_mem_free_region, and kbase_free_alloced_region at the end of the   *)
(* context: off the eviction list, out of the page tables, pages given      *)
(* back.                                                                    *)
FreeRegion(r) ==
  /\ jel = "free"
  /\ region' = [region EXCEPT ![r] = NoRegion]
  /\ tlb' = TeardownFlush(r, 0, region[r].nents)
  /\ mem' = Put(mem, region[r].nents)
  /\ used' = used - Uncounted(r)

(***************************************************************************)
(* The program's memory calls, under reg_lock.                              *)
(***************************************************************************)
Call == ctx = "open" /\ user = Idle /\ vm = "free" /\ ops < MaxOps /\ ops' = ops + 1

(* kbase_mem_alloc                                                          *)
UserAlloc(r, n) ==
  /\ Call
  /\ r \in Native /\ ~region[r].live /\ Cardinality(Live) < VaSlots
  /\ \/ /\ CanTake(n)
        /\ mem' = Take(mem, n) /\ used' = used + n
        /\ region' = [region EXCEPT ![r] = NewRegion(n, "none")]
     \/ /\ ~CanTake(n) /\ mem' = TakeFailed(mem) /\ UNCHANGED <<used, region>>
     \/ /\ CanTake(n) /\ InsertMayFail
        /\ mem' = Put(Take(mem, n), n) /\ UNCHANGED <<used, region>>
  /\ UNCHANGED <<keep, jits, tlb, vm, jel, threads, work, ctx, reclaims>>

(* kbase_jit_evict: an allocation that finds no room in the address space   *)
(* frees JIT regions nobody uses.                                           *)
JitEvict(r) ==
  /\ ctx = "open" /\ vm = "free" /\ Cardinality(Live) = VaSlots
  /\ user = Idle \/ jit.pc = "new"
  /\ r \in Pool
  /\ FreeRegion(r)
  /\ UNCHANGED <<keep, jits, vm, jel, threads, work, ctx, ops, reclaims>>

(* kbase_mem_commit                                                         *)
UserCommit(r, n) ==
  /\ Call
  /\ r \in Native /\ region[r].live /\ ~region[r].dontneed
  /\ \/ /\ n > region[r].nents
        /\ GrowBacking(r, n - region[r].nents)
        /\ UNCHANGED tlb
     \/ /\ n < region[r].nents
        /\ region' = [region EXCEPT ![r].nents = n, ![r].ptes = Below(@, n)]
        /\ tlb' = TeardownFlush(r, n, region[r].nents)
        /\ mem' = Put(mem, region[r].nents - n)
        /\ used' = used - (region[r].nents - n)
  /\ UNCHANGED <<keep, jits, vm, jel, threads, work, ctx, reclaims>>

(* kbase_mem_flags_change with BASE_MEM_DONT_NEED: kbase_mem_evictable_make *)
(* puts the allocation on the eviction list, ...                            *)
UserMake(r) ==
  /\ Call /\ jel = "free"
  /\ r \in Native /\ region[r].live /\ ~region[r].dontneed
  /\ region' = [region EXCEPT ![r].onevict = TRUE]
  /\ vm' = "user" /\ user' = [pc |-> "make", r |-> r]
  /\ UNCHANGED <<mem, keep, used, jits, tlb, jel, jit, fault, shrinker, destroy, work, ctx, reclaims>>

(* ... and only then takes its pages out of the account.                    *)
UserMakeDone ==
  /\ user.pc = "make"
  /\ used' = used - region[user.r].nents
  /\ region' = [region EXCEPT ![user.r].dontneed = TRUE]
  /\ vm' = "free" /\ user' = Idle
  /\ UNCHANGED <<mem, keep, jits, tlb, jel, jit, fault, shrinker, destroy, work, ctx, ops, reclaims>>

(* The same without the flag: kbase_mem_evictable_unmake takes it off the   *)
(* list, ...                                                                *)
UserUnmake(r) ==
  /\ Call /\ jel = "free"
  /\ r \in Native /\ region[r].live /\ region[r].dontneed
  /\ region' = [region EXCEPT ![r].onevict = FALSE]
  /\ vm' = "user" /\ user' = [pc |-> "unmake", r |-> r]
  /\ UNCHANGED <<mem, keep, used, jits, tlb, jel, jit, fault, shrinker, destroy, work, ctx, reclaims>>

(* ... and counts what is still there, or gets new backing for what was     *)
(* evicted.  Nobody looks whether that worked.                              *)
UserUnmakeDone ==
  LET r == user.r
      lost == region[r].evicted
      needed == [region EXCEPT ![r].dontneed = FALSE, ![r].evicted = 0]
  IN
  /\ user.pc = "unmake"
  /\ \/ /\ lost = 0
        /\ used' = used + region[r].nents
        /\ region' = needed /\ UNCHANGED mem
     \/ /\ lost > 0 /\ CanTake(lost)
        /\ used' = used + lost /\ mem' = Take(mem, lost)
        /\ \E mapped \in {TRUE, ~InsertMayFail} :
             region' = [needed EXCEPT ![r].nents = lost,
                                      ![r].ptes = IF mapped THEN 0..lost-1 ELSE {}]
     \/ /\ lost > 0 /\ ~CanTake(lost)
        /\ mem' = TakeFailed(mem)
        /\ region' = needed /\ UNCHANGED used
  /\ vm' = "free" /\ user' = Idle
  /\ UNCHANGED <<keep, jits, tlb, jel, jit, fault, shrinker, destroy, work, ctx, ops, reclaims>>

(* kbase_mem_free: the allocation loses its region before it is off the     *)
(* eviction list.                                                           *)
UserFree(r) ==
  /\ Call
  /\ r \in Native /\ region[r].live
  /\ region' = [region EXCEPT ![r].linked = FALSE, ![r].given = FALSE]
  /\ vm' = "user" /\ user' = [pc |-> "free", r |-> r]
  /\ UNCHANGED <<mem, keep, used, jits, tlb, jel, jit, fault, shrinker, destroy, work, ctx, reclaims>>

UserFreeDone ==
  /\ user.pc = "free"
  /\ FreeRegion(user.r)
  /\ vm' = "free" /\ user' = Idle
  /\ UNCHANGED <<keep, jits, jel, jit, fault, shrinker, destroy, work, ctx, ops, reclaims>>

(***************************************************************************)
(* GPU accesses and page_fault_worker.                                      *)
(***************************************************************************)
(* The GPU touches a page the program gave it.                              *)
GpuAccess(r, p) ==
  /\ fault.pc = "idle" /\ ctx \in {"open", "dying"}
  /\ region[r].given
  /\ \/ /\ HasTlb /\ p \in region[r].ptes
        /\ tlb' = tlb \union {<<r, p>>}
        /\ UNCHANGED fault
     \/ /\ p \notin region[r].ptes /\ <<r, p>> \notin tlb
        /\ fault' = [pc |-> "check", r |-> r, p |-> p, need |-> 0, todo |-> 0]
        /\ UNCHANGED tlb
  /\ UNCHANGED <<region, mem, keep, used, jits, vm, jel, user, jit, shrinker, destroy, work, ctx, ops, reclaims>>

FaultAnswer == fault' = [pc |-> "idle", r |-> None, p |-> 0, need |-> 0, todo |-> 0]

(* A fault the worker cannot mend kills the context's jobs.                 *)
FaultKill ==
  /\ fault.pc = "check" /\ vm = "free"
  /\ \/ ~region[fault.r].live
     \/ fault.r \in Native \ PfGrow
     \/ region[fault.r].dontneed
  /\ FaultAnswer
  /\ UNCHANGED <<region, mem, keep, used, jits, tlb, vm, jel, user, jit, shrinker, destroy, work, ctx, ops, reclaims>>

Growable(r) == region[r].live /\ r \in Jit \union PfGrow /\ ~region[r].dontneed

(* A page that is backed by now: the worker has the GPU try again, and it   *)
(* faults again if the page is not mapped.                                  *)
FaultDuplicate ==
  /\ fault.pc = "check" /\ vm = "free"
  /\ Growable(fault.r) /\ fault.p < region[fault.r].nents
  /\ fault.p \in region[fault.r].ptes
  /\ FaultAnswer
  /\ UNCHANGED <<region, mem, keep, used, jits, tlb, vm, jel, user, jit, shrinker, destroy, work, ctx, ops, reclaims>>

\* Mutant of ExtraPages: the extent is not cut at the end of the region.
ExtraPages_NoCap(r, p) ==
  LET least == p - region[r].nents + 1
  IN ((least + Extent - 1) \div Extent) * Extent

(* reg_grow_calc_extra_pages, capped to the region.                         *)
ExtraPages(r, p) ==
  LET least == p - region[r].nents + 1
      up == ((least + Extent - 1) \div Extent) * Extent
  IN Least(up, VaPages - region[r].nents)

\* Mutant of Lack: one page short.
Lack_OneShort(n) == n - mem.ctx - 1

(* What the pool has to grow by to hold n pages.                            *)
Lack(n) == n - mem.ctx

FaultGrow ==
  LET r == fault.r
      n == ExtraPages(r, fault.p)
  IN
  /\ fault.pc = "check" /\ vm = "free"
  /\ Growable(r) /\ fault.p >= region[r].nents
  /\ \/ /\ mem.ctx >= n
        /\ mem' = [mem EXCEPT !.ctx = @ - n] /\ used' = used + n
        /\ region' = [region EXCEPT ![r].nents = @ + n,
                                    ![r].ptes = @ \union (region[r].nents .. region[r].nents + n - 1)]
        /\ FaultAnswer
        /\ UNCHANGED keep
     \/ /\ mem.ctx >= n /\ InsertMayFail   \* freed again, and the jobs killed
        /\ mem' = Put([mem EXCEPT !.ctx = @ - n], n)
        /\ FaultAnswer
        /\ UNCHANGED <<used, region, keep>>
     \/ /\ mem.ctx < n                     \* out of the lock to grow the pool
        /\ fault' = [fault EXCEPT !.pc = "grow", !.need = Lack(n), !.todo = Lack(n)]
        /\ keep' = TRUE
        /\ UNCHANGED <<mem, used, region>>
  /\ UNCHANGED <<jits, tlb, vm, jel, user, jit, shrinker, destroy, work, ctx, ops, reclaims>>

(* With the pages in the pool it tries again, without it kills the jobs.    *)
FaultGrowPool ==
  /\ fault.pc = "grow"
  /\ GrowPool(fault.need, fault.todo,
              fault' = [fault EXCEPT !.todo = @ - 1],
              FaultAnswer,
              fault' = [fault EXCEPT !.pc = "check", !.need = 0])
  /\ UNCHANGED <<region, used, jits, tlb, vm, jel, user, jit, shrinker, destroy, work, ctx, ops, reclaims>>

(***************************************************************************)
(* JIT allocations, by the thread that runs JIT atoms.                      *)
(***************************************************************************)
NoJit == [pc |-> "idle", r |-> None, n |-> 0, old |-> 0, todo |-> 0, need |-> 0]
Distance(a, b) == IF a < b THEN b - a ELSE a - b

\* Mutant of Reused: the region stays on the eviction list.
Reused_StillEvictable(reg) == [reg EXCEPT !.list = "active"]

(* A region of the pool that is going to be used again.                     *)
Reused(reg) == [reg EXCEPT !.list = "active", !.onevict = FALSE]

(* kbase_jit_allocate takes the region of the pool that fits best off the   *)
(* eviction list, or goes for a new one.                                    *)
JitAllocate(n) ==
  /\ ctx = "open" /\ jit = NoJit /\ jits < MaxJit
  /\ ops < MaxOps /\ ops' = ops + 1
  /\ jel = "free"
  /\ \/ \E r \in Pool :
          /\ \A q \in Pool : Distance(region[r].nents, n) <= Distance(region[q].nents, n)
          /\ region' = [region EXCEPT ![r] = Reused(@)]
          /\ jit' = [NoJit EXCEPT !.pc = "unmake", !.r = r, !.n = n]
     \/ /\ Pool = {}
        /\ jit' = [NoJit EXCEPT !.pc = "new", !.n = n]
        /\ UNCHANGED region
  /\ UNCHANGED <<mem, keep, used, jits, tlb, vm, jel, user, fault, shrinker, destroy, work, ctx, reclaims>>

(* A new region, if there are pages and room for it.                        *)
JitNew ==
  LET n == jit.n
      fits == CanTake(n) /\ Cardinality(Live) < VaSlots
  IN
  /\ jit.pc = "new" /\ vm = "free" /\ jel = "free"
  /\ Cardinality(Live) < VaSlots \/ Pool = {}
  /\ \/ \E r \in Jit :
          /\ fits /\ ~region[r].live
          /\ mem' = Take(mem, n) /\ used' = used + n
          /\ region' = [region EXCEPT ![r] = NewRegion(n, "active")]
          /\ jits' = jits + 1
     \/ /\ ~CanTake(n) /\ mem' = TakeFailed(mem)
        /\ UNCHANGED <<region, used, jits>>
     \/ /\ CanTake(n) /\ (~fits \/ InsertMayFail)
        /\ mem' = Put(Take(mem, n), n)
        /\ UNCHANGED <<region, used, jits>>
  /\ jit' = NoJit
  /\ UNCHANGED <<keep, tlb, vm, jel, user, fault, shrinker, destroy, work, ctx, ops, reclaims>>

(* The end of an allocation whose region has its pages.                     *)
JitReady(reg) ==
  /\ region' = [region EXCEPT ![jit.r] = [reg EXCEPT !.given = TRUE, !.commit = jit.n]]
  /\ jits' = jits + 1
  /\ jit' = NoJit

(* The pages kbase_jit_grow adds and maps, the pool lock held: the number   *)
(* of them and where they start were computed before the locks were         *)
(* dropped.  A mapping that fails leaves them in the allocation.            *)
JitTakes(reg, old, base) ==
  LET n == jit.n - old
      grown == [reg EXCEPT !.nents = @ + n, !.ptes = @ \union (old .. jit.n - 1)]
  IN
  \/ /\ mem' = [mem EXCEPT !.ctx = @ - n] /\ used' = base + n
     /\ JitReady(grown)
     /\ UNCHANGED keep
  \/ /\ InsertMayFail
     /\ mem' = [mem EXCEPT !.ctx = @ - n] /\ used' = base + n
     /\ region' = [region EXCEPT ![jit.r] = [reg EXCEPT !.nents = @ + n]]
     /\ jit' = [jit EXCEPT !.pc = "fail"]
     /\ UNCHANGED <<jits, keep>>

(* Out of the locks to grow the pool by what it lacks.                      *)
JitLacks(old) ==
  /\ jit' = [jit EXCEPT !.pc = "grow", !.old = old,
                        !.need = Lack(jit.n - old), !.todo = Lack(jit.n - old)]
  /\ keep' = TRUE
  /\ UNCHANGED <<mem, jits>>

(* kbase_jit_grow: the region is in use again, so its pages count; then it  *)
(* gets the pages it lacks from the pool.                                   *)
JitUnmake ==
  LET r == jit.r
      old == region[r].nents
      reg == [region[r] EXCEPT !.dontneed = FALSE]
  IN
  /\ jit.pc = "unmake" /\ vm = "free" /\ jel = "free"
  /\ \/ /\ old >= jit.n
        /\ used' = used + old
        /\ JitReady(reg)
        /\ UNCHANGED <<mem, keep>>
     \/ /\ old < jit.n /\ mem.ctx >= jit.n - old
        /\ JitTakes(reg, old, used + old)
     \/ /\ old < jit.n /\ mem.ctx < jit.n - old
        /\ used' = used + old
        /\ region' = [region EXCEPT ![r] = reg]
        /\ JitLacks(old)
  /\ UNCHANGED <<tlb, vm, jel, user, fault, shrinker, destroy, work, ctx, ops, reclaims>>

JitGrowPool ==
  /\ jit.pc = "grow"
  /\ GrowPool(jit.need, jit.todo,
              jit' = [jit EXCEPT !.todo = @ - 1],
              jit' = [jit EXCEPT !.pc = "fail"],
              jit' = [jit EXCEPT !.pc = "retry", !.need = 0])
  /\ UNCHANGED <<region, used, jits, tlb, vm, jel, user, fault, shrinker, destroy, work, ctx, ops, reclaims>>

JitRetry ==
  /\ jit.pc = "retry" /\ vm = "free"
  /\ \/ /\ mem.ctx >= jit.n - jit.old
        /\ JitTakes(region[jit.r], jit.old, used)
     \/ /\ mem.ctx < jit.n - jit.old
        /\ JitLacks(jit.old)
        /\ UNCHANGED <<region, used>>
  /\ UNCHANGED <<tlb, vm, jel, user, fault, shrinker, destroy, work, ctx, ops, reclaims>>

(* An allocation that failed puts the region back into the pool: in use by  *)
(* its flags, and not on the eviction list.                                 *)
JitFail ==
  /\ jit.pc = "fail" /\ jel = "free"
  /\ region' = [region EXCEPT ![jit.r].list = "pool"]
  /\ jit' = NoJit
  /\ UNCHANGED <<mem, keep, used, jits, tlb, vm, jel, user, fault, shrinker, destroy, work, ctx, ops, reclaims>>

(* kbase_jit_free, after the jobs that used the region: it is trimmed and   *)
(* its pages leave the account, no lock held, ...                           *)
JitFree(r, new) ==
  /\ ctx \in {"open", "dying"} /\ jit = NoJit
  /\ r \in Active /\ region[r].given /\ fault.r # r
  /\ IF region[r].commit < region[r].nents
     THEN new \in region[r].commit .. region[r].nents ELSE new = region[r].nents
  /\ region' = [region EXCEPT ![r].given = FALSE, ![r].nents = new, ![r].ptes = Below(@, new)]
  /\ tlb' = TeardownFlush(r, new, region[r].nents)
  /\ mem' = Put(mem, region[r].nents - new)
  /\ used' = used - region[r].nents
  /\ jits' = jits - 1
  /\ jit' = [NoJit EXCEPT !.pc = "freed", !.r = r]
  /\ UNCHANGED <<keep, vm, jel, user, fault, shrinker, destroy, work, ctx, ops, reclaims>>

(* ... it is marked, ...                                                    *)
JitFreeMark ==
  /\ jit.pc = "freed" /\ vm = "free"
  /\ region' = [region EXCEPT ![jit.r].dontneed = TRUE]
  /\ jit' = [jit EXCEPT !.pc = "marked"]
  /\ UNCHANGED <<mem, keep, used, jits, tlb, vm, jel, user, fault, shrinker, destroy, work, ctx, ops, reclaims>>

(* ... and goes into the pool and onto the eviction list.                   *)
JitFreeDone ==
  /\ jit.pc = "marked" /\ jel = "free"
  /\ region' = [region EXCEPT ![jit.r].list = "pool", ![jit.r].onevict = TRUE]
  /\ jit' = NoJit
  /\ UNCHANGED <<mem, keep, used, jits, tlb, vm, jel, user, fault, shrinker, destroy, work, ctx, ops, reclaims>>

(***************************************************************************)
(* The shrinker of evictable memory, jit_evict_lock held all through.       *)
(***************************************************************************)
ScanStart ==
  /\ shrinker.pc = "idle" /\ jel = "free" /\ EvictList # {} /\ ctx # "gone"
  /\ jel' = "shrinker" /\ shrinker' = [pc |-> "scan", r |-> None]
  /\ UNCHANGED <<region, mem, keep, used, jits, tlb, vm, user, jit, fault, destroy, work, ctx, ops, reclaims>>

(* It takes the next allocation's pages out of the page tables.  One that   *)
(* has lost its region, or whose page tables are gone, is its end.          *)
ScanUnmap(r) ==
  /\ shrinker.pc = "scan" /\ r \in EvictList
  /\ IF region[r].linked /\ ctx # "track"
     THEN /\ shrinker' = [pc |-> "free", r |-> r]
          /\ region' = [region EXCEPT ![r].ptes = {}]
          /\ tlb' = TeardownFlush(r, 0, region[r].nents)
     ELSE /\ shrinker' = [pc |-> "oops", r |-> r]
          /\ UNCHANGED <<region, tlb>>
  /\ UNCHANGED <<mem, keep, used, jits, vm, jel, user, jit, fault, destroy, work, ctx, ops, reclaims>>

(* It frees them, to the kernel and without accounting, takes the           *)
(* allocation off the list, and hands a JIT region to the destroy worker.   *)
ScanFree ==
  LET r == shrinker.r IN
  /\ shrinker.pc = "free"
  /\ region' = [region EXCEPT ![r].evicted = region[r].nents, ![r].nents = 0, ![r].onevict = FALSE,
                              ![r].list = IF @ = "none" THEN "none" ELSE "destroy"]
  /\ mem' = PutReclaimed(mem, region[r].nents)
  /\ work' = (work \/ region[r].list # "none")
  /\ \/ /\ EvictList # {r}
        /\ shrinker' = [pc |-> "scan", r |-> None] /\ UNCHANGED jel
     \/ /\ shrinker' = Idle /\ jel' = "free"
  /\ UNCHANGED <<keep, used, jits, tlb, vm, user, jit, fault, destroy, ctx, ops, reclaims>>

(***************************************************************************)
(* kbase_jit_destroy_worker                                                 *)
(***************************************************************************)
DestroyStart ==
  /\ work /\ destroy.pc = "idle"
  /\ work' = FALSE /\ destroy' = [pc |-> "loop", r |-> None]
  /\ UNCHANGED <<region, mem, keep, used, jits, tlb, vm, jel, user, jit, fault, shrinker, ctx, ops, reclaims>>

DestroyPop ==
  /\ destroy.pc = "loop" /\ jel = "free"
  /\ \/ \E r \in Jit :
          /\ region[r].list = "destroy"
          /\ region' = [region EXCEPT ![r].list = "none"]
          /\ destroy' = [pc |-> "free", r |-> r]
     \/ /\ \A r \in Jit : region[r].list # "destroy"
        /\ destroy' = Idle /\ UNCHANGED region
  /\ UNCHANGED <<mem, keep, used, jits, tlb, vm, jel, user, jit, fault, shrinker, work, ctx, ops, reclaims>>

DestroyFree ==
  /\ destroy.pc = "free" /\ vm = "free"
  /\ FreeRegion(destroy.r)
  /\ destroy' = [pc |-> "loop", r |-> None]
  /\ UNCHANGED <<keep, jits, vm, jel, user, jit, fault, shrinker, work, ctx, ops, reclaims>>

(***************************************************************************)
(* kbase_destroy_context                                                    *)
(***************************************************************************)
TermStart ==
  /\ ctx = "open" /\ user = Idle
  /\ ctx' = "dying"
  /\ UNCHANGED <<region, mem, keep, used, jits, tlb, vm, jel, threads, work, ops, reclaims>>

(* kbase_jd_zap_context has waited for the context's jobs, and              *)
(* kbase_jit_term takes the lock.                                           *)
TermZapped ==
  /\ ctx = "dying" /\ jit = NoJit /\ fault.pc = "idle" /\ vm = "free"
  /\ ctx' = "jit" /\ vm' = "term"
  /\ region' = [r \in Regions |-> [region[r] EXCEPT !.given = FALSE]]
  /\ tlb' = {}
  /\ UNCHANGED <<mem, keep, used, jits, jel, threads, work, ops, reclaims>>

TermJit(r) ==
  /\ ctx = "jit" /\ r \in Pool \union Active
  /\ FreeRegion(r)
  /\ UNCHANGED <<keep, jits, vm, jel, threads, work, ctx, ops, reclaims>>

TermJitDone ==
  /\ ctx = "jit" /\ Pool \union Active = {}
  /\ ctx' = "cancel" /\ vm' = "free"
  /\ UNCHANGED <<region, mem, keep, used, jits, tlb, jel, threads, work, ops, reclaims>>

(* cancel_work_sync: waits for a running worker, and drops a queued one.    *)
(* Then the page tables are freed, and kbase_region_tracker_term takes what *)
(* is left.                                                                 *)
TermCancel ==
  /\ ctx = "cancel" /\ destroy.pc = "idle" /\ vm = "free"
  /\ work' = FALSE
  /\ ctx' = "track" /\ vm' = "term"
  /\ region' = [r \in Regions |-> [region[r] EXCEPT !.ptes = {}]]
  /\ UNCHANGED <<mem, keep, used, jits, tlb, jel, threads, ops, reclaims>>

TermUnlink(r) ==
  /\ ctx = "track" /\ jel = "free"
  /\ region[r].live /\ region[r].onevict /\ region[r].linked
  /\ region' = [region EXCEPT ![r].linked = FALSE]
  /\ UNCHANGED <<mem, keep, used, jits, tlb, vm, jel, threads, work, ctx, ops, reclaims>>

TermRegion(r) ==
  /\ ctx = "track" /\ region[r].live /\ ~(region[r].onevict /\ region[r].linked)
  /\ FreeRegion(r)
  /\ UNCHANGED <<keep, jits, vm, jel, threads, work, ctx, ops, reclaims>>

(* kbase_mem_evictable_deinit and kbase_mem_pool_term, which spills the     *)
(* pool into the device's.                                                  *)
TermDone ==
  /\ ctx = "track" /\ Live = {} /\ shrinker.pc = "idle"
  /\ ctx' = "gone" /\ vm' = "free"
  /\ LET spill == Least(mem.ctx, Capacity(mem.dev, MaxDev))
     IN mem' = [ctx |-> 0, dev |-> mem.dev + spill, kernel |-> mem.kernel + mem.ctx - spill]
  /\ UNCHANGED <<region, keep, used, jits, tlb, jel, threads, work, ops, reclaims>>

-----------------------------------------------------------------------------
UserDone == UserMakeDone \/ UserUnmakeDone \/ UserFreeDone
FaultStep == FaultKill \/ FaultDuplicate \/ FaultGrow \/ FaultGrowPool
JitStep ==
  \/ JitNew \/ JitUnmake \/ JitGrowPool \/ JitRetry \/ JitFail
  \/ JitFreeMark \/ JitFreeDone
ScanStep == ScanFree \/ \E r \in Regions : ScanUnmap(r)
DestroyStep == DestroyStart \/ DestroyPop \/ DestroyFree
TermStep ==
  \/ TermZapped \/ TermJitDone \/ TermCancel \/ TermDone
  \/ \E r \in Regions : TermJit(r) \/ TermUnlink(r) \/ TermRegion(r)

Next ==
  \/ \E r \in Native, n \in 0..VaPages : UserAlloc(r, n) \/ UserCommit(r, n)
  \/ \E r \in Native : UserMake(r) \/ UserUnmake(r) \/ UserFree(r)
  \/ \E r \in Jit : JitEvict(r)
  \/ \E r \in Regions, p \in Pages : GpuAccess(r, p)
  \/ \E n \in 1..VaPages : JitAllocate(n)
  \/ \E r \in Jit, n \in 0..VaPages : JitFree(r, n)
  \/ UserDone \/ FaultStep \/ JitStep \/ ScanStart \/ ScanStep \/ DestroyStep
  \/ TermStart \/ TermStep \/ PoolReclaim

Spec == Init /\ [][Next]_vars

(* The page fault worker, the program's calls and the shrinker get on with  *)
(* what they have begun; the mutexes are handed to whoever waits.  The JIT  *)
(* atoms and the destroy worker leave every lock between their steps, and   *)
(* the GPU and the kernel's shrinkers need do nothing.                      *)
FairSpec == Spec /\ SF_vars(FaultStep) /\ SF_vars(UserDone) /\ WF_vars(ScanStep)

-----------------------------------------------------------------------------
(***************************************************************************)
(* Properties.                                                              *)
(***************************************************************************)
Backed(r) == 0..region[r].nents-1
SumOver(S, f(_)) ==
  LET g[T \in SUBSET S] == IF T = {} THEN 0 ELSE LET x == CHOOSE x \in T : TRUE IN f(x) + g[T \ {x}]
  IN g[S]

(* Every variable has its type; a pool may hold more than its max_size,     *)
(* which kbase_mem_pool_grow does not look at, but never more pages than    *)
(* there are.                                                               *)
TypeOK ==
  /\ region \in [Regions ->
       [live : BOOLEAN, nents : 0..VaPages, ptes : SUBSET Pages, evicted : 0..VaPages,
        linked : BOOLEAN, dontneed : BOOLEAN, given : BOOLEAN,
        list : {"none", "active", "pool", "destroy"}, onevict : BOOLEAN, commit : 0..VaPages]]
  /\ mem \in [ctx : 0..KernelPages, dev : 0..KernelPages, kernel : 0..KernelPages]
  /\ keep \in BOOLEAN /\ used \in Int /\ jits \in 0..MaxJit
  /\ tlb \subseteq Regions \X Pages
  /\ vm \in {"free", "user", "term"} /\ jel \in {"free", "shrinker"}
  /\ user.pc \in {"idle", "make", "unmake", "free"}
  /\ jit.pc \in {"idle", "new", "unmake", "grow", "retry", "fail", "freed", "marked"}
  /\ fault.pc \in {"idle", "check", "grow"}
  /\ shrinker.pc \in {"idle", "scan", "free", "oops"}
  /\ destroy.pc \in {"idle", "loop", "free"}
  /\ work \in BOOLEAN /\ ctx \in {"open", "dying", "jit", "cancel", "track", "gone"}
  /\ ops \in 0..MaxOps /\ reclaims \in 0..MaxReclaims

(* The GPU's page tables map nothing that its allocation does not back:     *)
(* whoever takes pages from a region takes them out of the page tables      *)
(* first (mali_kbase_mem_linux.c:366, :1413, mali_kbase_mem.c:3023).        *)
MappedIsBacked == \A r \in Regions : region[r].ptes \subseteq Backed(r)

(* No page is lost and none is in two places, whatever fails half way: what *)
(* the pools, the regions and the kernel have is all there is.              *)
PagesConserved ==
  mem.ctx + mem.dev + mem.kernel + SumOver(Regions, LAMBDA r : region[r].nents) = KernelPages

(* What the shrinker may evict is nothing anybody uses: a JIT region of the *)
(* pool, or a region the program marked or is marking as not needed.        *)
EvictableIsUnused ==
  \A r \in Regions : region[r].onevict =>
    /\ region[r].live
    /\ r \in Jit => region[r].list = "pool" /\ ~region[r].given /\ region[r].dontneed
    /\ r \in Native => region[r].dontneed \/ (user.pc = "make" /\ user.r = r)

(* The account of the context's pages never falls below what it holds that  *)
(* is in use.                                                               *)
Accounted(r) ==
  IF region[r].dontneed \/ (jit.r = r /\ jit.pc = "freed") THEN 0 ELSE region[r].nents
NeverUnderCounted ==
  used >= SumOver(Regions, LAMBDA r : Accounted(r))

(* The account is exact: what kbase_destroy_context warns of at its end     *)
(* ("%s: %d pages in use!") does not happen.                                *)
UsedPagesExact ==
  ctx = "gone" => used = 0

(* The note at mali_kbase_mem_linux.c:345 and :347: a region on the         *)
(* eviction list will not be freed, so the shrinker may use it without the  *)
(* region lock.                                                             *)
ScanIsSafe == shrinker.pc # "oops"

(* The GPU reaches no page through its TLB that the region no longer has.   *)
ReachableIsBacked == \A t \in tlb : t[2] \in Backed(t[1])

(* A GPU access that faults is answered: the worker grows the region, kills *)
(* the jobs, or finds it done, however often it has to leave the lock to    *)
(* fill the pool and however much is taken from the pool meanwhile.         *)
Unmapped(r, p) == r \in Regions /\ p \in Backed(r) \ region[r].ptes
FaultAnswered == fault.pc # "idle" ~> (fault.pc = "idle" \/ Unmapped(fault.r, fault.p) \/ shrinker.pc = "oops")

\* What the GPU can reach is backed, no page is lost or held twice, an evictable
\* region is used by nobody, and the counts of pages in use never fall short.
\* (kbase_mem_commit, kbase_jit_allocate, kbase_mem_evictable_reclaim_scan_objects)
PagesSafe ==
  /\ TypeOK /\ MappedIsBacked /\ PagesConserved
  /\ EvictableIsUnused /\ NeverUnderCounted
=============================================================================
