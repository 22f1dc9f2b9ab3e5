------------------------------ MODULE MmuFault ------------------------------
(***************************************************************************)
(* Faults of the GPU's MMU in one address space: the interrupt, its masks, *)
(* the workers that answer page and bus faults (mali_kbase_mmu.c and       *)
(* mali_kbase_mmu_hw_direct.c), the reset that flushes them, and the       *)
(* tracking of GPU writes by write protection (mali_kbase_gwt.c).          *)
(*                                                                         *)
(* The context has a growable region of pages 1 .. Grow, of which some are *)
(* backed, and the read-only page Grow + 1; page 0 is not mapped.          *)
(***************************************************************************)
EXTENDS Integers, Sequences, SequencesExt

CONSTANTS
  Grow,        \* pages of the growable region
  MaxFaults,   \* bound: faults the hardware raises
  MaxResets,   \* bound: resets of the GPU
  MaxGwt       \* bound: calls to the write tracking

VARIABLES
  gpu,     \* hardware: the AS and its interrupt registers, stalled accesses; the
           \* interrupts a worker left masked
  ctx,     \* the context: does it have the AS, references, submission, backing
  as,      \* struct kbase_as: what the interrupt recorded; was it recorded over a
           \* fault still to be answered, and how often was a worker refused
  irq,     \* the interrupt handler
  wq,      \* pf_wq: queued work
  work,    \* the work that runs, with the address it read
  reset,   \* the reset, irq_reset_flush, the works its flush waits for; did a
           \* handler enable interrupts during it
  gwt,     \* write tracking; the pages there was no room to list
  calls,   \* how often the bounded steps were taken; the furthest page the GPU
           \* faulted on, and the furthest a worker mixed from two records
  faults_pending

vars == <<gpu, ctx, as, irq, wq, work, reset, gwt, calls, faults_pending>>

ReadOnly == Grow + 1
All == {"pf", "bf"}
IrqIdle == [pc |-> "idle", val |-> {}, mask |-> {}]
NoWork == [pc |-> "idle", kind |-> "none", pfn |-> 0, next |-> "none"]
NotTracking == [enabled |-> FALSE, was |-> FALSE, list |-> {}, snapshot |-> {}, written |-> {}, missed |-> {}]
Backed == 1 .. ctx.backed

Init ==
  /\ gpu = [raw |-> {}, mask |-> All, masked |-> {}, stalled |-> {}, mapped |-> FALSE, addr |-> 0,
            status |-> "none", protected |-> {}, job |-> FALSE, secure |-> FALSE]
  /\ ctx = [has_as |-> FALSE, refs |-> 0, submit |-> FALSE, backed |-> 1]
  /\ as = [addr |-> 0, status |-> "none", protected_mode |-> FALSE, again |-> FALSE, refused |-> 0]
  /\ irq = IrqIdle /\ wq = <<>> /\ work = NoWork
  /\ reset = [pc |-> "idle", flush |-> FALSE, waits |-> 0, late |-> FALSE]
  /\ gwt = NotTracking
  /\ calls = [faults |-> 0, resets |-> 0, gwt |-> 0, reached |-> 1, mixed |-> 0]
  /\ faults_pending = 0

------------------------------------------------------------------------------
(* The GPU and the context that uses it *)

Schedule ==
  /\ ~ctx.has_as /\ reset.pc = "idle"
  /\ ctx' = [ctx EXCEPT !.has_as = TRUE, !.submit = TRUE]
  /\ gpu' = [gpu EXCEPT !.mapped = TRUE]
  /\ UNCHANGED <<as, irq, wq, work, reset, gwt, calls, faults_pending>>

\* The last reference is gone: the AS is taken away, the MMU disabled.
Deschedule ==
  /\ ctx.has_as /\ ctx.refs = 0 /\ reset.pc = "idle"
  /\ ctx' = [ctx EXCEPT !.has_as = FALSE, !.submit = FALSE]
  /\ gpu' = [gpu EXCEPT !.mapped = FALSE]
  /\ UNCHANGED <<as, irq, wq, work, reset, gwt, calls, faults_pending>>

\* A job, in protected mode or not. The handler takes the mode as it finds it.
JobStart(secure) ==
  /\ ctx.has_as /\ ctx.submit /\ ~gpu.job /\ reset.pc = "idle" /\ calls.faults < MaxFaults
  /\ gpu' = [gpu EXCEPT !.job = TRUE, !.secure = secure]
  /\ ctx' = [ctx EXCEPT !.refs = @ + 1]
  /\ UNCHANGED <<as, irq, wq, work, reset, gwt, calls, faults_pending>>
JobEnd ==
  /\ gpu.job /\ gpu.stalled = {}
  /\ gpu' = [gpu EXCEPT !.job = FALSE, !.secure = FALSE]
  /\ ctx' = [ctx EXCEPT !.refs = @ - 1]
  /\ UNCHANGED <<as, irq, wq, work, reset, gwt, calls, faults_pending>>

\* What an access to a page ends in.
Outcome(p, kind, protected) ==
  IF p \notin Backed \cup {ReadOnly} THEN "translation"
  ELSE IF kind = "write" /\ p \notin Backed \ protected THEN "permission"
  ELSE "done"

\* An access stalls; the registers keep the first fault until it is cleared.
Raised(g, a) ==
  LET first == "pf" \notin g.raw
  IN  [g EXCEPT !.raw = @ \cup {"pf"}, !.stalled = @ \cup {a},
                !.addr = IF first THEN a.addr ELSE @, !.status = IF first THEN a.status ELSE @]
Stall(a) ==
  /\ calls.faults < MaxFaults
  /\ gpu' = Raised(gpu, a)
  /\ calls' = [calls EXCEPT !.faults = @ + 1,
                            !.reached = IF a.addr \in 1 .. Grow /\ a.addr > @ THEN a.addr ELSE @]

Access(p, kind) ==
  /\ gpu.job /\ gpu.mapped
  /\ LET o == Outcome(p, kind, gpu.protected)
     IN  \/ o # "done" /\ Stall([addr |-> p, kind |-> kind, status |-> o]) /\ UNCHANGED gwt
         \/ /\ o = "done" /\ kind = "write" /\ gwt.enabled
            /\ gwt' = [gwt EXCEPT !.written = @ \cup {p}]
            /\ UNCHANGED <<gpu, calls>>
  /\ UNCHANGED <<ctx, as, irq, wq, work, reset, faults_pending>>

\* A fault the page tables do not explain.
OddFault ==
  /\ gpu.job /\ gpu.mapped
  /\ \E status \in {"odd", "access flag"} :
       Stall([addr |-> 1, kind |-> "read", status |-> status])
  /\ UNCHANGED <<ctx, as, irq, wq, work, reset, gwt, faults_pending>>

\* A bus fault overwrites the registers.
BusFault(p) ==
  /\ gpu.job /\ gpu.mapped /\ calls.faults < MaxFaults
  /\ gpu' = [gpu EXCEPT !.raw = @ \cup {"bf"}, !.addr = p, !.status = "bus"]
  /\ calls' = [calls EXCEPT !.faults = @ + 1]
  /\ UNCHANGED <<ctx, as, irq, wq, work, reset, gwt, faults_pending>>

\* UNLOCK and FLUSH have every stalled access tried again.
Again(a, protected) ==
  IF a.status \in {"translation", "permission"} THEN Outcome(a.addr, a.kind, protected) ELSE a.status
Retried(g) ==
  LET still == {[a EXCEPT !.status = Again(a, g.protected)] : a \in {b \in g.stalled : Again(b, g.protected) # "done"}}
  IN  IF still = {} THEN [g EXCEPT !.stalled = {}]
      ELSE Raised([g EXCEPT !.stalled = still], CHOOSE a \in still : TRUE)
WrittenNow(g) == {a.addr : a \in {b \in g.stalled : b.kind = "write" /\ Again(b, g.protected) = "done"}}

------------------------------------------------------------------------------
(* kbase_mmu_interrupt *)

\* The status is read, all interrupts of the MMU are masked.
IrqEnter ==
  /\ irq.pc = "idle" /\ gpu.raw \cap gpu.mask # {}
  /\ irq' = [pc |-> "process", val |-> gpu.raw \cap gpu.mask, mask |-> gpu.mask]
  /\ gpu' = [gpu EXCEPT !.mask = {}]
  /\ faults_pending' = faults_pending + 1
  /\ UNCHANGED <<ctx, as, wq, work, reset, gwt, calls>>

\* kbase_mmu_hw_clear_fault and _enable_fault: not while a reset flushes.
Bits(type) == IF type = "bf" THEN All ELSE {"pf"}
Cleared(g, type) == IF reset.flush THEN g ELSE [g EXCEPT !.raw = @ \ Bits(type)]
Enabled(g, type) ==
  IF reset.flush THEN g ELSE [g EXCEPT !.mask = @ \cup Bits(type), !.masked = @ \ Bits(type)]

\* Mutant of LookupCtx: the context is found and not retained.
LookupCtx_Noretain(c) == c

\* kbasep_js_runpool_lookup_ctx retains the context.
LookupCtx(c) == [c EXCEPT !.refs = @ + 1]

\* The fault is recorded, over one that a worker may still have to answer, and
\* given to a worker, with a reference on the context; a bus fault goes first
\* and stops submission.  A work that is pending is not queued twice. Without a
\* context the fault is cleared.
IrqProcess ==
  LET type == IF "bf" \in irq.val THEN "bf" ELSE "pf"
  IN  /\ irq.pc = "process"
      /\ irq' = [irq EXCEPT !.pc = "exit", !.mask = @ \ Bits(type)]
      /\ as' = [addr |-> gpu.addr, status |-> gpu.status, protected_mode |-> gpu.secure,
                again |-> wq # <<>> \/ work.pc # "idle",
                refused |-> IF ctx.has_as /\ Contains(wq, type) THEN as.refused + 1 ELSE as.refused]
      /\ \/ /\ ctx.has_as
            /\ wq' = IF Contains(wq, type) THEN wq ELSE Append(wq, type)
            /\ ctx' = [LookupCtx(ctx) EXCEPT !.submit = @ /\ type = "pf"]
            /\ faults_pending' = faults_pending + 1
            /\ UNCHANGED gpu
         \/ /\ ~ctx.has_as
            /\ gpu' = Enabled(Cleared(gpu, type), type)
            /\ UNCHANGED <<wq, ctx, faults_pending>>
      /\ UNCHANGED <<work, reset, gwt, calls>>

\* The mask is what it was without this fault, and what was enabled meanwhile.
IrqExit ==
  /\ irq.pc = "exit"
  /\ gpu' = [gpu EXCEPT !.mask = @ \cup irq.mask, !.masked = @ \ irq.mask]
  /\ irq' = IrqIdle
  /\ faults_pending' = faults_pending - 1
  /\ reset' = [reset EXCEPT !.late = @ \/ (reset.pc # "idle" /\ irq.mask # {})]
  /\ UNCHANGED <<ctx, as, wq, work, gwt, calls>>

------------------------------------------------------------------------------
(* page_fault_worker and bus_fault_worker, in the order queued *)

Go(pc, next) == work' = [work EXCEPT !.pc = pc, !.next = next]

WorkStart ==
  /\ work.pc = "idle" /\ wq # <<>>
  /\ wq' = Tail(wq)
  /\ work' = [pc |-> Head(wq), kind |-> Head(wq), pfn |-> as.addr, next |-> "none"]
  /\ UNCHANGED <<gpu, ctx, as, irq, reset, gwt, calls, faults_pending>>

\* What the recorded status calls for. An access flag fault is not answered,
\* and its interrupt stays masked.
PfKind ==
  /\ work.pc = "pf"
  /\ \/ as.protected_mode /\ Go("kill", "clear page") /\ UNCHANGED gpu
     \/ /\ ~as.protected_mode
        /\ \/ as.status = "translation" /\ Go("region", "none") /\ UNCHANGED gpu
           \/ /\ as.status = "permission" /\ UNCHANGED gpu
              /\ IF gwt.was THEN Go("write fault", "none") ELSE Go("kill", "done")
           \/ /\ as.status = "access flag" /\ Go("done", "none")
              /\ gpu' = [gpu EXCEPT !.masked = @ \cup ({"pf"} \ gpu.mask)]
           \/ as.status \in {"odd", "bus"} /\ Go("kill", "done") /\ UNCHANGED gpu
  /\ UNCHANGED <<ctx, as, irq, wq, reset, gwt, calls, faults_pending>>

\* How far the region is backed after a fault at pfn, which was read before
\* the lock was taken; outside the region it is capped to its size.
GrownTo(pfn) == IF pfn \in 1 .. Grow THEN pfn ELSE Grow

\* The region at the recorded address, looked up under the lock of the VM,
\* which is held until the pages are listed.
PfRegion ==
  /\ work.pc = "region"
  /\ \/ as.addr \notin 1 .. Grow /\ Go("kill", "done") /\ UNCHANGED <<ctx, gwt, calls>>
     \/ as.addr \in 1 .. Grow /\ work.pfn \in Backed /\ Go("clear", "none") /\ UNCHANGED <<ctx, gwt, calls>>
     \/ /\ as.addr \in 1 .. Grow /\ work.pfn \notin Backed
        /\ ctx' = [ctx EXCEPT !.backed = GrownTo(work.pfn)]
        /\ calls' = IF as.addr = work.pfn THEN calls ELSE [calls EXCEPT !.mixed = GrownTo(work.pfn)]
        /\ gwt' = IF gwt.enabled THEN [gwt EXCEPT !.list = @ \cup (ctx.backed + 1 .. GrownTo(work.pfn))] ELSE gwt
        /\ Go("clear", "none")
     \* Neither the pool nor the page tables can be had.
     \/ /\ as.addr \in 1 .. Grow /\ GrownTo(work.pfn) > ctx.backed
        /\ Go("kill", "done") /\ UNCHANGED <<ctx, gwt, calls>>
  /\ UNCHANGED <<gpu, as, irq, wq, reset, faults_pending>>

\* Mutant of Listed: a page that was dumped once is not listed again.
Listed_Once(p) == gwt.list \cup ({p} \ gwt.snapshot)

\* The pages written, with one more.
Listed(p) == gwt.list \cup {p}

\* kbase_gpu_mmu_handle_permission_fault: a write to memory that may be
\* written is listed, if there is room to, and let through.
PfWriteFault ==
  /\ work.pc = "write fault"
  /\ \/ as.addr \notin Backed /\ Go("kill", "done") /\ UNCHANGED <<gpu, gwt>>
     \/ /\ as.addr \in Backed
        /\ \/ gwt' = IF gwt.enabled THEN [gwt EXCEPT !.list = Listed(as.addr)] ELSE gwt
           \/ gwt' = [gwt EXCEPT !.missed = @ \cup (IF gwt.enabled THEN {as.addr} \ gwt.list ELSE {})]
        /\ gpu' = [gpu EXCEPT !.protected = @ \ {as.addr}]
        /\ Go("clear", "none")
  /\ UNCHANGED <<ctx, as, irq, wq, reset, calls, faults_pending>>

\* An answered fault is cleared before the stalled accesses are retried, so
\* that one that fails again is seen; then its interrupt is enabled.
PfClear ==
  /\ work.pc = "clear"
  /\ gpu' = Cleared(gpu, "pf")
  /\ Go("operate", "none")
  /\ UNCHANGED <<ctx, as, irq, wq, reset, gwt, calls, faults_pending>>


\* The FLUSH or UNLOCK.
PfOperate ==
  /\ work.pc = "operate"
  /\ gpu' = Retried(gpu)
  /\ gwt' = IF gwt.enabled THEN [gwt EXCEPT !.written = @ \cup WrittenNow(gpu)] ELSE gwt
  /\ Go("enable", "none")
  /\ UNCHANGED <<ctx, as, irq, wq, reset, calls, faults_pending>>

\* kbase_mmu_hw_enable_fault.
PfEnable ==
  /\ work.pc = "enable"
  /\ gpu' = Enabled(gpu, "pf")
  /\ Go("done", "none")
  /\ UNCHANGED <<ctx, as, irq, wq, reset, gwt, calls, faults_pending>>

\* kbase_mmu_report_fault_and_kill: no more jobs, the AS unmapped, which ends
\* the stalled accesses; the page fault is cleared and enabled.
Unmapped(g) == [Retried(g) EXCEPT !.mapped = FALSE, !.stalled = {}]
KillJobs ==
  /\ work.pc = "kill"
  /\ ctx' = [ctx EXCEPT !.submit = FALSE]
  /\ work' = [work EXCEPT !.pc = "kill unmap"]
  /\ UNCHANGED <<gpu, as, irq, wq, reset, gwt, calls, faults_pending>>
KillUnmap ==
  /\ work.pc = "kill unmap"
  /\ gpu' = Unmapped(gpu)
  /\ work' = [work EXCEPT !.pc = "kill clear"]
  /\ UNCHANGED <<ctx, as, irq, wq, reset, gwt, calls, faults_pending>>
KillClear ==
  /\ work.pc = "kill clear"
  /\ gpu' = Cleared(gpu, "pf")
  /\ work' = [work EXCEPT !.pc = "kill enable"]
  /\ UNCHANGED <<ctx, as, irq, wq, reset, gwt, calls, faults_pending>>
KillEnable ==
  /\ work.pc = "kill enable"
  /\ gpu' = Enabled(gpu, "pf")
  /\ work' = [work EXCEPT !.pc = work.next]
  /\ UNCHANGED <<ctx, as, irq, wq, reset, gwt, calls, faults_pending>>

\* In protected mode the fault is cleared once more, but not enabled: a bus
\* fault stays masked.
SecureClear ==
  /\ work.pc \in {"clear page", "clear bus"}
  /\ gpu' = IF work.pc = "clear page" THEN Cleared(gpu, "pf")
            ELSE [Cleared(gpu, "bf") EXCEPT !.masked = @ \cup ({"bf"} \ gpu.mask)]
  /\ Go("done", "none")
  /\ UNCHANGED <<ctx, as, irq, wq, reset, gwt, calls, faults_pending>>

\* bus_fault_worker: the AS is unmapped, both faults cleared and enabled.
BfUnmap ==
  /\ work.pc = "bf"
  /\ \/ as.protected_mode /\ Go("kill", "clear bus") /\ UNCHANGED gpu
     \/ ~as.protected_mode /\ Go("bus clear", "none") /\ gpu' = Unmapped(gpu)
  /\ UNCHANGED <<ctx, as, irq, wq, reset, gwt, calls, faults_pending>>
BfClear ==
  /\ work.pc = "bus clear"
  /\ gpu' = Cleared(gpu, "bf")
  /\ Go("bus enable", "none")
  /\ UNCHANGED <<ctx, as, irq, wq, reset, gwt, calls, faults_pending>>
BfEnable ==
  /\ work.pc = "bus enable"
  /\ gpu' = Enabled(gpu, "bf")
  /\ Go("done", "none")
  /\ UNCHANGED <<ctx, as, irq, wq, reset, gwt, calls, faults_pending>>

WorkDone ==
  /\ work.pc = "done"
  /\ work' = NoWork
  /\ ctx' = [ctx EXCEPT !.refs = @ - 1]
  /\ faults_pending' = faults_pending - 1
  /\ reset' = [reset EXCEPT !.waits = IF @ > 0 THEN @ - 1 ELSE 0]
  /\ UNCHANGED <<gpu, as, irq, wq, gwt, calls>>

------------------------------------------------------------------------------
(* A reset: interrupts off, the workers flushed, all of it enabled again *)

ResetBegin ==
  /\ reset.pc = "idle" /\ calls.resets < MaxResets
  /\ reset' = [pc |-> "irqs", flush |-> TRUE, waits |-> 0, late |-> FALSE]
  /\ gpu' = [gpu EXCEPT !.raw = {}, !.mask = {}]
  /\ calls' = [calls EXCEPT !.resets = @ + 1]
  /\ UNCHANGED <<ctx, as, irq, wq, work, gwt, faults_pending>>
\* kbase_synchronize_irqs waits for the handler, kbase_flush_mmu_wqs for the
\* works that are queued by then.
ResetSynced ==
  /\ reset.pc = "irqs" /\ irq.pc = "idle"
  /\ reset' = [reset EXCEPT !.pc = "works", !.waits = Len(wq) + (IF work.pc = "idle" THEN 0 ELSE 1)]
  /\ UNCHANGED <<gpu, ctx, as, irq, wq, work, gwt, calls, faults_pending>>
ResetFlushed ==
  /\ reset.pc = "works" /\ reset.waits = 0
  /\ reset' = [reset EXCEPT !.pc = "resetting", !.flush = FALSE]
  /\ UNCHANGED <<gpu, ctx, as, irq, wq, work, gwt, calls, faults_pending>>
ResetGpu ==
  /\ reset.pc = "resetting"
  /\ reset' = [reset EXCEPT !.pc = "enabling"]
  /\ gpu' = [gpu EXCEPT !.raw = {}, !.mask = {}, !.masked = {}, !.stalled = {}, !.job = FALSE,
                        !.secure = FALSE, !.mapped = FALSE]
  /\ ctx' = [ctx EXCEPT !.refs = IF gpu.job THEN @ - 1 ELSE @]
  /\ UNCHANGED <<as, irq, wq, work, gwt, calls, faults_pending>>

\* Mutant of ResetEnable: only the page faults are enabled.
ResetEnable_Pf ==
  /\ reset.pc = "enabling"
  /\ reset' = [reset EXCEPT !.pc = "idle"]
  /\ gpu' = [gpu EXCEPT !.raw = {}, !.mask = {"pf"}, !.mapped = ctx.has_as]
  /\ UNCHANGED <<ctx, as, irq, wq, work, gwt, calls, faults_pending>>

\* The ASs are restored, the interrupts enabled.
ResetEnable ==
  /\ reset.pc = "enabling"
  /\ reset' = [reset EXCEPT !.pc = "idle"]
  /\ gpu' = [gpu EXCEPT !.raw = {}, !.mask = All, !.masked = {}, !.mapped = ctx.has_as]
  /\ UNCHANGED <<ctx, as, irq, wq, work, gwt, calls, faults_pending>>

------------------------------------------------------------------------------
(* Tracking of writes, under the lock of the VM *)

VmLocked == work.pc \in {"clear", "operate", "enable"}
GwtCall ==
  /\ ~VmLocked /\ calls.gwt < MaxGwt
  /\ calls' = [calls EXCEPT !.gwt = @ + 1]
  /\ UNCHANGED <<ctx, as, irq, wq, work, reset, faults_pending>>

\* kbase_gpu_gwt_setup_pages changes the page tables and flushes.
Protect(P) == Retried([gpu EXCEPT !.protected = P])

GwtStart ==
  /\ GwtCall /\ ~gwt.enabled
  /\ gwt' = [NotTracking EXCEPT !.enabled = TRUE, !.was = TRUE]
  /\ gpu' = Protect(Backed)

\* What was written is handed over, and tracked anew, once the last was taken.
GwtDump ==
  /\ GwtCall /\ gwt.enabled
  /\ LET take == gwt.snapshot = {} /\ gwt.list # {}
         shown == IF take THEN gwt.list ELSE gwt.snapshot
     IN  /\ gpu' = IF take THEN Protect(Backed) ELSE gpu
         /\ \E rest \in SUBSET shown :
              gwt' = [gwt EXCEPT !.snapshot = rest, !.list = IF take THEN {} ELSE @,
                                 !.written = IF take THEN {} ELSE @, !.missed = IF take THEN {} ELSE @]

GwtStop ==
  /\ GwtCall /\ gwt.enabled
  /\ gwt' = [NotTracking EXCEPT !.was = TRUE]
  /\ gpu' = Protect({})

Next ==
  \/ Schedule \/ Deschedule \/ JobEnd
  \/ \E secure \in BOOLEAN : JobStart(secure)
  \/ \E p \in 0 .. ReadOnly : BusFault(p) \/ \E kind \in {"read", "write"} : Access(p, kind)
  \/ OddFault
  \/ IrqEnter \/ IrqProcess \/ IrqExit
  \/ WorkStart \/ PfKind \/ PfRegion \/ PfWriteFault \/ PfClear \/ PfOperate \/ PfEnable
  \/ KillJobs \/ KillUnmap \/ KillClear \/ KillEnable \/ SecureClear
  \/ BfUnmap \/ BfClear \/ BfEnable \/ WorkDone
  \/ ResetBegin \/ ResetSynced \/ ResetFlushed \/ ResetGpu \/ ResetEnable
  \/ GwtStart \/ GwtDump \/ GwtStop

Spec == Init /\ [][Next]_vars

------------------------------------------------------------------------------
(* Properties *)

Busy == irq.pc # "idle" \/ wq # <<>> \/ work.pc # "idle" \/ reset.pc # "idle"

\* No fault is lost: an access that stalls, or a bus fault, has a handler or
\* worker under way or an interrupt raised and enabled, unless a worker left
\* that interrupt masked: that of an access flag fault the page fault
\* (page_fault_worker), that of a bus fault in protected mode the bus fault
\* (bus_fault_worker).  With nothing under way exactly these are masked, until
\* another worker or a reset enables them.  faults_pending counts handlers and
\* workers, and the works kbase_mmu_interrupt_process could not queue.
NoFaultLost ==
  /\ gpu.stalled # {} => Busy \/ "pf" \in (gpu.raw \cap gpu.mask) \cup gpu.masked
  /\ "bf" \in gpu.raw => Busy \/ "bf" \in gpu.mask \cup gpu.masked
  /\ ~Busy => gpu.mask = All \ gpu.masked
  /\ faults_pending = Len(wq) + (IF work.pc = "idle" THEN 0 ELSE 1) + (IF irq.pc = "idle" THEN 0 ELSE 1)
                      + as.refused

\* A worker answers the fault it was queued for, of a context that still has
\* the AS, unless kbase_mmu_interrupt recorded another over it meanwhile:
\* memory is backed no further than the GPU reached, or than a worker took
\* from two records.  Nothing runs while the GPU is reset, unless a handler
\* enabled interrupts again after the reset had masked them.
AnswersItsFault ==
  /\ wq # <<>> \/ work.pc # "idle" => ctx.has_as /\ ctx.refs > 0
  /\ work.pc \in {"pf", "region", "write fault"} => as.addr = work.pfn \/ as.again
  /\ ctx.backed <= calls.reached \/ ctx.backed <= calls.mixed
  /\ reset.pc \in {"resetting", "enabling"} => reset.late \/ (irq.pc = "idle" /\ wq = <<>> /\ work.pc = "idle")

\* Every page the GPU wrote since it was last protected is on the list, but
\* for those kbase_gpu_mmu_handle_write_fault had no room for.
WritesTracked == gwt.enabled => gwt.written \subseteq gwt.list \cup gwt.missed

==============================================================================
