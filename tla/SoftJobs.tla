------------------------------- MODULE SoftJobs ------------------------------
(***************************************************************************)
(* The soft jobs of one context (mali_kbase_softjobs.c), the fences they    *)
(* wait for and signal (mali_kbase_sync_file.c, mali_kbase_fence.c) and the *)
(* part of the job dispatcher that starts, fails and cancels them           *)
(* (mali_kbase_jd.c).                                                       *)
(*                                                                         *)
(* Whoever works on the atoms of a context holds jctx.lock: the submitting  *)
(* ioctl, the job_done_wq worker, the zap, the resume and the ioctl that    *)
(* sets a soft event.  Four parties do not take it and so run between any   *)
(* two steps of the others: the timer of the soft jobs, the callback of a   *)
(* fence, the suspend flag of the device and the GPU.  A dispatcher pass    *)
(* (jd_done_nolock) is therefore cut where one of them can be noticed.      *)
(*                                                                         *)
(* An atom has at most one dependency here, a GPU atom depends on a soft    *)
(* job only (JobDeps models the rest of the dispatcher), and atom numbers   *)
(* are used once.  Every failing event code is "fail".                      *)
(***************************************************************************)
EXTENDS Integers, Sequences, FiniteSets, SequencesExt

CONSTANTS
  NumAtoms,     \* atoms 1..NumAtoms, submitted in this order
  Programs,     \* what user space may submit: sequences of job records
  Events,       \* addresses of soft events
  JitIds,       \* JIT allocation ids
  JitMax,       \* kctx->jit_max_allocations
  GpuMayFail,   \* whether a GPU atom may fail of itself
  MaxUpdates,   \* bound: soft events user space sets itself
  MaxSuspends   \* bound: suspends of the device

Atoms == 1..NumAtoms
None == 0
ExternalFence == 0      \* a fence of somebody else; fence a is the out-fence of atom a
Fences == Atoms \cup {ExternalFence}
Kinds == {"gpu", "event_wait", "event_set", "event_reset", "fence_trigger",
          "fence_wait", "dump", "jit_alloc", "jit_free"}
Callers == {"submit", "worker", "zap", "resume"}

ASSUME SoftJobsAssumption ==
  /\ NumAtoms \in Nat \ {0}
  /\ JitMax \in Nat
  /\ GpuMayFail \in BOOLEAN
  /\ MaxUpdates \in Nat /\ MaxSuspends \in Nat
  /\ \A p \in Programs : Len(p) <= NumAtoms

VARIABLES
  prog,      \* the program chosen: [kind, arg, dep, type] of every atom
  atom,      \* struct kbase_jd_atom of every atom
  next,      \* the next atom to submit
  lock,      \* who holds jctx.lock
  jd,        \* the jd_done_nolock in progress: its two lists and its katom
  proc,      \* the soft job being processed, and how far it got
  waiting,   \* kctx->waiting_soft_jobs
  timer,     \* soft_job_timeout: pending, its handler running, whose time is up
  wq,        \* job_done_wq: items [job, id]
  events,    \* the soft events that are set
  fence,     \* state of every fence
  jit,       \* kctx->jit_alloc, jit_atoms_head and jit_pending_alloc
  pm,        \* suspending, suspended_soft_jobs_list and the resume's own list
  zap,       \* DYING and the progress of kbase_jd_zap_context
  updates,   \* soft events set by the ioctl so far
  oops       \* list_del on an entry that is in no list

devVars == <<events, fence, jit, pm>>
vars == <<prog, atom, next, lock, jd, proc, waiting, timer, wq, events, fence,
          jit, pm, zap, updates, oops>>

NewAtom == [status |-> "unused", code |-> "done", will |-> FALSE, dep |-> None,
            count |-> -1, cb |-> FALSE, finished |-> FALSE, dones |-> 0]
NoPass == [katom |-> None, completed |-> <<>>, runnable |-> <<>>]
Idle == [id |-> None, pc |-> "idle"]

Init ==
  /\ prog \in Programs
  /\ atom = [a \in Atoms |-> NewAtom]
  /\ next = 1 /\ lock = "free" /\ jd = NoPass /\ proc = Idle
  /\ waiting = <<>> /\ wq = <<>> /\ events = {}
  /\ timer = [pending |-> FALSE, due |-> {}, running |-> FALSE, elapsed |-> {}]
  /\ fence = [f \in Fences |-> IF f = ExternalFence THEN "pending" ELSE "none"]
  /\ jit = [alloc |-> [i \in JitIds |-> "free"], atoms |-> <<>>, pending |-> <<>>]
  /\ pm = [suspending |-> FALSE, list |-> <<>>, local |-> <<>>, resuming |-> FALSE, count |-> 0]
  /\ zap = [dying |-> FALSE, pc |-> "no", rest |-> <<>>]
  /\ updates = 0 /\ oops = FALSE

Kind(a) == prog[a].kind
Arg(a) == prog[a].arg
IsSoft(a) == Kind(a) # "gpu"
Listed(a) == a \in Range(waiting)
Submitted == 1..(next - 1)
EventWaiters == {a \in Range(waiting) : Kind(a) = "event_wait"}
AtRest == jd = NoPass /\ proc = Idle

(***************************************************************************)
(* Helpers that compute a new value of several variables at once: a state  *)
(* record s of the fields the soft jobs' finish and process share.          *)
(***************************************************************************)
Now == [atom |-> atom, waiting |-> waiting, wq |-> wq, fence |-> fence, jit |-> jit]

Becomes(s) == /\ atom' = s.atom /\ waiting' = s.waiting /\ wq' = s.wq
              /\ fence' = s.fence /\ jit' = s.jit

Queue(s, job, a) == [s EXCEPT !.wq = Append(@, [job |-> job, id |-> a])]
SetCode(s, a, c) == [s EXCEPT !.atom[a].code = c]

\* dma_fence_signal runs kbase_fence_wait_callback of every atom that waits
Signal(s, f, result) ==
  LET Called == SelectSeq([i \in Atoms |-> i],
                  LAMBDA a : a <= Len(prog) /\ Kind(a) = "fence_wait" /\ Arg(a) = f /\ s.atom[a].cb)
      Callback(t, a) ==
        LET u == IF result = "error" THEN SetCode(t, a, "fail") ELSE t IN
        IF u.atom[a].count = 1
        THEN Queue([u EXCEPT !.atom[a].count = -1, !.atom[a].cb = FALSE], "fence", a)
        ELSE [u EXCEPT !.atom[a].count = @ - 1, !.atom[a].cb = FALSE]
  IN FoldLeft(Callback, [s EXCEPT !.fence[f] = result], Called)

\* kbase_sync_fence_out_trigger: the fence is ours until it is signalled once
OutTrigger(s, a) ==
  IF s.fence[a] = "pending"
  THEN Signal(s, a, IF s.atom[a].code = "done" THEN "ok" ELSE "error") ELSE s

\* kbase_jit_allocate: no region once jit_max_allocations are live
NoRegion(s) == Cardinality({i \in JitIds : s.jit.alloc[i] = "active"}) >= JitMax

\* Mutant of CanBlock: any JIT_FREE on the list will do, also a later one
CanBlock_AnyFree(s, a) ==
  \E i \in DOMAIN s.jit.atoms : Kind(s.jit.atoms[i]) = "jit_free"

\* An alloc may wait for a JIT_FREE submitted before it whose id is in use
CanBlock(s, a) ==
  \E i, k \in DOMAIN s.jit.atoms :
    /\ i < k /\ s.jit.atoms[k] = a
    /\ Kind(s.jit.atoms[i]) = "jit_free"
    /\ s.jit.alloc[Arg(s.jit.atoms[i])] # "free"

\* kbase_jit_allocate_process
JitAllocate(s, a) ==
  LET t == [s EXCEPT !.jit.pending = SelectSeq(@, LAMBDA b : b # a)]
      id == Arg(a)
  IN IF t.jit.alloc[id] # "free" THEN SetCode(t, a, "fail")
     ELSE IF ~NoRegion(t) THEN SetCode([t EXCEPT !.jit.alloc[id] = "active"], a, "done")
     ELSE IF CanBlock(t, a) THEN [t EXCEPT !.jit.pending = <<a>> \o @]
     ELSE SetCode([t EXCEPT !.jit.alloc[id] = "failed"], a, "fail")

Blocked(s, a) == a \in Range(s.jit.pending)

\* kbase_jit_free_process
JitFree(s, a) ==
  IF s.jit.alloc[Arg(a)] = "free" THEN SetCode(s, a, "fail")
  ELSE [s EXCEPT !.jit.alloc[Arg(a)] = "free"]

\* Mutant of JitFreeFinish: the blocked allocs are not tried again
JitFreeFinish_NoRetry(s, a) == [s EXCEPT !.jit.atoms = SelectSeq(@, LAMBDA b : b # a)]

\* kbase_jit_free_finish: give every blocked alloc another try
JitFreeFinish(s, a) ==
  LET Retry(t, b) ==
        LET u == JitAllocate(t, b) IN IF Blocked(u, b) THEN u ELSE Queue(u, "jit", b)
  IN FoldLeft(Retry, [s EXCEPT !.jit.atoms = SelectSeq(@, LAMBDA b : b # a)], s.jit.pending)

\* kbase_finish_soft_job
Finish(s, a) ==
  LET t == [s EXCEPT !.atom[a].finished = TRUE] IN
  CASE Kind(a) = "fence_trigger" -> OutTrigger(t, a)
    [] Kind(a) = "jit_alloc" ->
         [t EXCEPT !.jit.atoms = SelectSeq(@, LAMBDA b : b # a),
                   !.jit.pending = SelectSeq(@, LAMBDA b : b # a)]
    [] Kind(a) = "jit_free" -> JitFreeFinish(t, a)
    [] OTHER -> t

\* kbase_prepare_soft_job, with arguments that are well formed
Prepare(s, a) ==
  CASE Kind(a) = "fence_trigger" -> [s EXCEPT !.fence[a] = "pending"]
    [] Kind(a) \in {"jit_alloc", "jit_free"} -> [s EXCEPT !.jit.atoms = Append(@, a)]
    [] OTHER -> s

\* A fence wait whose descriptor is no fence is refused
PrepareFails(a) == Kind(a) = "fence_wait" /\ fence[Arg(a)] = "none"

(***************************************************************************)
(* jd_done_nolock and the processing of one soft job                        *)
(***************************************************************************)
\* The atom is handed to the pass as one that has completed
Complete(s, a) ==
  /\ Becomes([s EXCEPT !.atom[a].status = "completed", !.atom[a].dep = None])
  /\ jd' = [jd EXCEPT !.completed = Append(@, a)]

FinishAndComplete(s, a) == Complete(Finish(s, a), a)

Dependents(a) == SelectSeq([i \in Atoms |-> i], LAMBDA b : b <= Len(prog) /\ atom[b].dep = a)

\* Take the last completed job and resolve its dependencies (jd_resolve_dep)
ResolveDeps ==
  LET a == Last(jd.completed)
      Fails(b) == atom[a].code # "done" /\ prog[b].type # "order"
  IN
  /\ proc = Idle /\ jd.katom = None /\ jd.completed # <<>>
  /\ jd' = [katom |-> a, completed |-> Front(jd.completed), runnable |-> Dependents(a)]
  /\ atom' = [b \in Atoms |->
       IF atom[b].dep # a THEN atom[b]
       ELSE [atom[b] EXCEPT !.dep = None,
                            !.code = IF Fails(b) THEN "fail" ELSE @,
                            !.will = @ \/ Fails(b)]]
  /\ UNCHANGED <<prog, next, lock, proc, waiting, timer, wq, devVars, zap, updates, oops>>

Runnable(a) ==
  /\ proc = Idle /\ jd.katom # None /\ jd.runnable # <<>>
  /\ a = Head(jd.runnable)

\* Mutant of FailInsteadOfRun: the job is completed as it is
FailInsteadOfRun_Unfinished(a) ==
  LET s == SetCode(Now, a, atom[jd.katom].code) IN
  /\ Runnable(a) /\ zap.dying
  /\ Becomes([s EXCEPT !.atom[a].status = "completed"])
  /\ jd' = [jd EXCEPT !.runnable = Tail(@), !.completed = Append(@, a)]
  /\ UNCHANGED <<prog, next, lock, proc, timer, events, pm, zap, updates, oops>>

\* The context is dying: the job is not run but failed with the one before it
FailInsteadOfRun(a) ==
  LET s == SetCode(Now, a, atom[jd.katom].code) IN
  /\ Runnable(a) /\ zap.dying
  /\ oops' = (oops \/ (Kind(a) = "fence_wait" /\ ~Listed(a)))
  /\ LET t == IF Kind(a) = "fence_wait" THEN [s EXCEPT !.waiting = SelectSeq(@, LAMBDA b : b # a)] ELSE s
         u == IF IsSoft(a) THEN Finish(t, a) ELSE t
     IN /\ Becomes([u EXCEPT !.atom[a].status = "completed"])
        /\ jd' = [jd EXCEPT !.runnable = Tail(@), !.completed = Append(@, a)]
  /\ UNCHANGED <<prog, next, lock, proc, timer, events, pm, zap, updates>>

\* jd_run_atom: a soft job that is to fail is completed without being finished
RunAtom(a) ==
  /\ Runnable(a) /\ ~zap.dying
  /\ CASE ~IsSoft(a) ->
            /\ atom' = [atom EXCEPT ![a].status = "in_js"]
            /\ jd' = [jd EXCEPT !.runnable = Tail(@)] /\ UNCHANGED proc
       [] IsSoft(a) /\ atom[a].will ->
            /\ atom' = [atom EXCEPT ![a].status = "completed"]
            /\ jd' = [jd EXCEPT !.runnable = Tail(@), !.completed = Append(@, a)]
            /\ UNCHANGED proc
       [] OTHER ->
            /\ proc' = [id |-> a, pc |-> "process"]
            /\ jd' = [jd EXCEPT !.runnable = Tail(@)] /\ UNCHANGED atom
  /\ UNCHANGED <<prog, next, lock, waiting, timer, wq, devVars, zap, updates, oops>>

\* Post the event of the completed job and count it
PostKatom ==
  /\ proc = Idle /\ jd.katom # None /\ jd.runnable = <<>>
  /\ atom' = [atom EXCEPT ![jd.katom].dones = @ + 1]
  /\ jd' = [jd EXCEPT !.katom = None]
  /\ UNCHANGED <<prog, next, lock, proc, waiting, timer, wq, devVars, zap, updates, oops>>

Processing(a, pc) == proc = [id |-> a, pc |-> pc]
GoTo(pc) == proc' = [proc EXCEPT !.pc = pc]
Processed == proc' = Idle

\* kbasep_complete_triggered_soft_events: end the waiters of the event and
\* delete the timer when no other event is waited for
CompleteTriggered(s, e) ==
  LET hit == SelectSeq(s.waiting, LAMBDA b : Kind(b) = "event_wait" /\ Arg(b) = e)
      End(t, b) == Queue(SetCode([t EXCEPT !.waiting = SelectSeq(@, LAMBDA c : c # b)], b, "done"), "event", b)
  IN FoldLeft(End, s, hit)

\* Mutant of StopTimer: the timer is deleted whoever still waits
StopTimer_Always(e) == timer' = [timer EXCEPT !.pending = FALSE]

StopTimer(e) ==
  timer' = [timer EXCEPT !.pending = @ /\ \E b \in EventWaiters : Arg(b) # e]

\* kbase_process_soft_job of the kinds that end at once or block at once
ProcessPlain(a) ==
  LET s == Now IN
  /\ Processing(a, "process")
  /\ \/ /\ Kind(a) = "event_set"
        /\ events' = events \cup {Arg(a)} /\ StopTimer(Arg(a)) /\ Processed
        /\ FinishAndComplete(CompleteTriggered(s, Arg(a)), a)
     \/ /\ Kind(a) = "event_reset"
        /\ events' = events \ {Arg(a)} /\ Processed /\ UNCHANGED timer
        /\ FinishAndComplete(s, a)
     \/ /\ Kind(a) = "fence_trigger"
        /\ Processed /\ UNCHANGED <<events, timer>>
        /\ FinishAndComplete(OutTrigger(s, a), a)
     \/ /\ Kind(a) = "jit_free"
        /\ Processed /\ UNCHANGED <<events, timer>>
        /\ FinishAndComplete(JitFree(s, a), a)
     \/ /\ Kind(a) = "jit_alloc"
        /\ Processed /\ UNCHANGED <<events, timer>>
        /\ LET t == JitAllocate(s, a) IN
           IF Blocked(t, a) THEN Becomes(t) /\ UNCHANGED jd ELSE FinishAndComplete(t, a)
  /\ UNCHANGED <<prog, next, lock, pm, zap, updates, oops>>

\* kbasep_soft_event_wait: read the status; wait unless it is set
EventWait(a) ==
  /\ Processing(a, "process") /\ Kind(a) = "event_wait"
  /\ IF Arg(a) \in events
     THEN Processed /\ FinishAndComplete(Now, a)
     ELSE GoTo("arm") /\ waiting' = Append(waiting, a) /\ UNCHANGED <<atom, jd, wq, fence, jit>>
  /\ UNCHANGED <<prog, next, lock, timer, events, pm, zap, updates, oops>>

\* kbasep_add_waiting_with_timeout, after the atom is on the list; whoever is on
\* the list when the timer is set will have waited long enough when it expires
ArmTimer(a) ==
  /\ Processing(a, "arm")
  /\ timer' = IF timer.pending THEN timer ELSE [timer EXCEPT !.pending = TRUE, !.due = EventWaiters]
  /\ Processed
  /\ UNCHANGED <<prog, atom, next, lock, jd, waiting, wq, devVars, zap, updates, oops>>

\* kbase_sync_fence_in_wait: a fence that has signalled needs no callback
FenceAddCallback(a) ==
  /\ Processing(a, "process") /\ Kind(a) = "fence_wait"
  /\ CASE fence[Arg(a)] = "pending" ->
            /\ atom' = [atom EXCEPT ![a].count = 1, ![a].cb = TRUE]
            /\ GoTo("inc") /\ UNCHANGED <<jd, waiting, wq, fence, jit>>
       [] fence[Arg(a)] = "error" ->
            /\ Becomes(Queue(SetCode(Now, a, "fail"), "fence", a))
            /\ GoTo("list") /\ UNCHANGED jd
       [] OTHER -> Processed /\ FinishAndComplete(Now, a)
  /\ UNCHANGED <<prog, next, lock, timer, events, pm, zap, updates, oops>>

\* Mutant of FenceCount: the reference of the waiter is taken again
FenceCount_Twice(a) ==
  /\ Processing(a, "inc")
  /\ atom' = [atom EXCEPT ![a].count = @ + 2]
  /\ GoTo("test")
  /\ UNCHANGED <<prog, next, lock, jd, waiting, timer, wq, devVars, zap, updates, oops>>

\* kbase_fence_add_callback counts the callback only after it is installed
FenceCount(a) ==
  /\ Processing(a, "inc")
  /\ atom' = [atom EXCEPT ![a].count = @ + 1]
  /\ GoTo("test")
  /\ UNCHANGED <<prog, next, lock, jd, waiting, timer, wq, devVars, zap, updates, oops>>

\* Test if the callbacks are already triggered
FenceTest(a) ==
  /\ Processing(a, "test")
  /\ IF atom[a].count = 1
     THEN Processed /\ FinishAndComplete([Now EXCEPT !.atom[a].count = -1], a)
     ELSE /\ atom' = [atom EXCEPT ![a].count = @ - 1]
          /\ GoTo("list") /\ UNCHANGED <<jd, waiting, wq, fence, jit>>
  /\ UNCHANGED <<prog, next, lock, timer, events, pm, zap, updates, oops>>

\* kbasep_add_waiting_soft_job
AddWaiting(a) ==
  /\ Processing(a, "list")
  /\ waiting' = Append(waiting, a) /\ Processed
  /\ UNCHANGED <<prog, atom, next, lock, jd, timer, wq, devVars, zap, updates, oops>>

\* kbase_dump_cpu_gpu_time: while the device suspends it may be refused, unless
\* something else keeps the GPU active
Dump(a) ==
  /\ Processing(a, "process") /\ Kind(a) = "dump"
  /\ \/ Processed /\ FinishAndComplete(Now, a)
     \/ pm.suspending /\ GoTo("suspend") /\ UNCHANGED <<atom, jd, waiting, wq, fence, jit>>
  /\ UNCHANGED <<prog, next, lock, timer, events, pm, zap, updates, oops>>

\* It joins the suspended jobs of the device, and then those that wait
DumpSuspended(a) ==
  /\ Processing(a, "suspend")
  /\ pm' = [pm EXCEPT !.list = Append(@, a)]
  /\ GoTo("list")
  /\ UNCHANGED <<prog, atom, next, lock, jd, waiting, timer, wq, events, fence, jit, zap, updates, oops>>

(***************************************************************************)
(* The holders of jctx.lock                                                 *)
(***************************************************************************)
\* The dependency the user names is still to be waited for, or has already failed
DepInProgress(a) == prog[a].dep # None /\ atom[prog[a].dep].status # "completed"
DepHasFailed(a) ==
  LET d == prog[a].dep IN
  d # None /\ atom[d].status = "completed" /\ atom[d].code # "done" /\ prog[a].type # "order"

\* jd_submit_atom of the next atom
Submit ==
  LET a == next
      InProgress == DepInProgress(a)
      WillFail == DepHasFailed(a)
      s == [Now EXCEPT !.atom[a].status = "queued",
                       !.atom[a].dep = IF InProgress THEN prog[a].dep ELSE None]
  IN
  /\ lock = "free" /\ zap.pc = "no" /\ a <= Len(prog)
  /\ next' = a + 1 /\ lock' = "submit"
  /\ CASE WillFail -> Complete(SetCode(s, a, "fail"), a) /\ UNCHANGED proc
       [] ~WillFail /\ PrepareFails(a) -> Complete(SetCode(s, a, "fail"), a) /\ UNCHANGED proc
       [] ~WillFail /\ ~PrepareFails(a) /\ InProgress ->
            Becomes(Prepare(s, a)) /\ UNCHANGED <<jd, proc>>
       [] ~WillFail /\ ~PrepareFails(a) /\ ~InProgress /\ IsSoft(a) ->
            Becomes(Prepare(s, a)) /\ proc' = [id |-> a, pc |-> "process"] /\ UNCHANGED jd
       [] OTHER -> Becomes([s EXCEPT !.atom[a].status = "in_js"]) /\ UNCHANGED <<jd, proc>>
  /\ UNCHANGED <<prog, timer, events, pm, zap, updates, oops>>

\* kbase_soft_event_update: user space sets an event itself
UpdateEvent(e) ==
  /\ lock = "free" /\ ~zap.dying /\ updates < MaxUpdates /\ EventWaiters # {}
  /\ updates' = updates + 1
  /\ events' = events \cup {e} /\ StopTimer(e)
  /\ Becomes(CompleteTriggered(Now, e))
  /\ UNCHANGED <<prog, next, lock, jd, proc, pm, zap, oops>>

\* The worker of job_done_wq takes one item at a time and then the lock: a soft
\* event (kbasep_soft_event_complete_job), a fence wait
\* (kbase_soft_event_wait_callback), an alloc that got its memory
\* (kbasep_jit_free_finish_worker) or a GPU atom
Work ==
  LET a == Head(wq).id
      s == [Now EXCEPT !.wq = Tail(@)]
      job == Head(wq).job
  IN
  /\ lock = "free" /\ wq # <<>>
  /\ lock' = "worker"
  /\ CASE job = "fence" ->
            FinishAndComplete([s EXCEPT !.waiting = SelectSeq(@, LAMBDA b : b # a)], a)
       [] job = "jit" -> FinishAndComplete(s, a)
       [] OTHER -> Complete(s, a)
  /\ UNCHANGED <<prog, next, proc, timer, events, pm, zap, updates, oops>>

Unlock ==
  /\ lock \in {"submit", "worker", "resume"} /\ AtRest
  /\ lock' = "free"
  /\ UNCHANGED <<prog, atom, next, jd, proc, waiting, timer, wq, devVars, zap, updates, oops>>

(***************************************************************************)
(* kbase_jd_zap_context                                                     *)
(***************************************************************************)
\* kbase_js_zap_context marks the context; user space submits no more
ZapStart ==
  /\ lock = "free" /\ zap.pc = "no"
  /\ zap' = [zap EXCEPT !.dying = TRUE, !.pc = "lock"]
  /\ UNCHANGED <<prog, atom, next, lock, jd, proc, waiting, timer, wq, devVars, updates, oops>>

ZapLock ==
  /\ zap.pc = "lock" /\ lock = "free"
  /\ lock' = "zap" /\ zap' = [zap EXCEPT !.pc = "timer"]
  /\ UNCHANGED <<prog, atom, next, jd, proc, waiting, timer, wq, devVars, updates, oops>>

\* del_timer_sync waits for the handler, also when that sets the timer again
ZapDeleteTimer ==
  /\ zap.pc = "timer" /\ ~timer.running
  /\ timer' = [timer EXCEPT !.pending = FALSE]
  /\ zap' = [zap EXCEPT !.pc = "cancel", !.rest = waiting]
  /\ UNCHANGED <<prog, atom, next, lock, jd, proc, waiting, wq, devVars, updates, oops>>

\* Mutant of ZapCancel: a fence wait is cancelled whether its callback has run or not
ZapCancel_Always ==
  LET a == Head(zap.rest)
      s == SetCode(Now, a, "fail")
  IN
  /\ zap.pc = "cancel" /\ AtRest /\ zap.rest # <<>>
  /\ zap' = [zap EXCEPT !.rest = Tail(@)]
  /\ IF Kind(a) = "event_wait" THEN Complete(s, a)
     ELSE FinishAndComplete([s EXCEPT !.atom[a].count = -1, !.atom[a].cb = FALSE,
                                      !.waiting = SelectSeq(@, LAMBDA b : b # a)], a)
  /\ UNCHANGED <<prog, next, lock, proc, timer, events, pm, updates, oops>>

\* kbase_cancel_soft_job of the next one that waits: an event wait stays on the
\* list, a fence wait whose callback has run is left to the worker, and a
\* suspended dump has no cancellation
ZapCancel ==
  LET a == Head(zap.rest)
      s == SetCode(Now, a, "fail")
  IN
  /\ zap.pc = "cancel" /\ AtRest /\ zap.rest # <<>>
  /\ zap' = [zap EXCEPT !.rest = Tail(@)]
  /\ CASE Kind(a) = "event_wait" -> Complete(s, a)
       [] Kind(a) = "fence_wait" /\ atom[a].cb ->
            FinishAndComplete([s EXCEPT !.atom[a].count = -1, !.atom[a].cb = FALSE,
                                        !.waiting = SelectSeq(@, LAMBDA b : b # a)], a)
       [] OTHER -> UNCHANGED <<atom, waiting, wq, fence, jit, jd>>
  /\ UNCHANGED <<prog, next, lock, proc, timer, events, pm, updates, oops>>

ZapUnlock ==
  /\ zap.pc = "cancel" /\ AtRest /\ zap.rest = <<>>
  /\ lock' = "free" /\ zap' = [zap EXCEPT !.pc = "wait"]
  /\ UNCHANGED <<prog, atom, next, jd, proc, waiting, timer, wq, devVars, updates, oops>>

\* kbase_jm_wait_for_zero_jobs
ZapDone ==
  /\ zap.pc = "wait" /\ lock = "free"
  /\ \A a \in Submitted : atom[a].dones > 0
  /\ zap' = [zap EXCEPT !.pc = "done"]
  /\ UNCHANGED <<prog, atom, next, lock, jd, proc, waiting, timer, wq, devVars, updates, oops>>

(***************************************************************************)
(* Those who do not take jctx.lock                                          *)
(***************************************************************************)
TimerExpire ==
  /\ timer.pending /\ ~timer.running
  /\ timer' = [pending |-> FALSE, due |-> {}, running |-> TRUE, elapsed |-> timer.due]
  /\ UNCHANGED <<prog, atom, next, lock, jd, proc, waiting, wq, devVars, zap, updates, oops>>

\* kbasep_soft_job_timeout_worker, under waiting_soft_jobs_lock: cancel the event
\* waits whose time is up and set the timer again if there are others
TimeoutWorker ==
  LET late == SelectSeq(waiting, LAMBDA b : b \in timer.elapsed /\ Kind(b) = "event_wait")
      End(t, b) == Queue(SetCode([t EXCEPT !.waiting = SelectSeq(@, LAMBDA c : c # b)], b, "fail"), "event", b)
      others == EventWaiters \ timer.elapsed
  IN
  /\ timer.running
  /\ timer' = [pending |-> timer.pending \/ others # {}, due |-> others,
               running |-> FALSE, elapsed |-> {}]
  /\ Becomes(FoldLeft(End, Now, late))
  /\ UNCHANGED <<prog, next, lock, jd, proc, events, pm, zap, updates, oops>>

\* Somebody signals the external fence, with success or an error
ExternalSignal ==
  /\ fence[ExternalFence] = "pending"
  /\ \E result \in {"ok", "error"} : Becomes(Signal(Now, ExternalFence, result))
  /\ UNCHANGED <<prog, next, lock, jd, proc, timer, events, pm, zap, updates, oops>>

\* A GPU atom ends; while the context dies it is cancelled
GpuEnds(a) ==
  /\ atom[a].status = "in_js"
  /\ \E c \in {"done"} \cup (IF GpuMayFail \/ zap.dying THEN {"fail"} ELSE {}) :
       Becomes(Queue([SetCode(Now, a, c) EXCEPT !.atom[a].status = "hw_completed"], "gpu", a))
  /\ UNCHANGED <<prog, next, lock, jd, proc, timer, events, pm, zap, updates, oops>>

Suspend ==
  /\ ~pm.suspending /\ ~pm.resuming /\ pm.count < MaxSuspends
  /\ pm' = [pm EXCEPT !.suspending = TRUE, !.count = @ + 1]
  /\ UNCHANGED <<prog, atom, next, lock, jd, proc, waiting, timer, wq, events, fence, jit, zap, updates, oops>>

Resume ==
  /\ pm.suspending
  /\ pm' = [pm EXCEPT !.suspending = FALSE, !.resuming = TRUE, !.local = pm.list, !.list = <<>>]
  /\ UNCHANGED <<prog, atom, next, lock, jd, proc, waiting, timer, wq, events, fence, jit, zap, updates, oops>>

\* kbase_resume_suspended_soft_jobs: each job is run again under its jctx.lock
ResumeJob ==
  LET a == Head(pm.local) IN
  /\ pm.resuming /\ pm.local # <<>> /\ lock = "free"
  /\ lock' = "resume" /\ pm' = [pm EXCEPT !.local = Tail(@)]
  /\ waiting' = SelectSeq(waiting, LAMBDA b : b # a)
  /\ proc' = [id |-> a, pc |-> "process"]
  /\ UNCHANGED <<prog, atom, next, jd, timer, wq, events, fence, jit, zap, updates, oops>>

ResumeEnd ==
  /\ pm.resuming /\ pm.local = <<>> /\ lock # "resume"
  /\ pm' = [pm EXCEPT !.resuming = FALSE]
  /\ UNCHANGED <<prog, atom, next, lock, jd, proc, waiting, timer, wq, events, fence, jit, zap, updates, oops>>

Process == \E a \in Atoms :
  \/ ProcessPlain(a) \/ EventWait(a) \/ ArmTimer(a)
  \/ FenceAddCallback(a) \/ FenceCount(a) \/ FenceTest(a) \/ AddWaiting(a)
  \/ Dump(a) \/ DumpSuspended(a)
Pass == ResolveDeps \/ PostKatom \/ \E a \in Atoms : FailInsteadOfRun(a) \/ RunAtom(a)
Zap == ZapLock \/ ZapDeleteTimer \/ ZapCancel \/ ZapUnlock \/ ZapDone
Timer == TimerExpire \/ TimeoutWorker

Next ==
  \/ Submit \/ Work \/ Unlock \/ Process \/ Pass \/ Zap \/ Timer
  \/ ZapStart \/ ExternalSignal \/ Suspend \/ Resume \/ ResumeJob \/ ResumeEnd
  \/ \E e \in Events : UpdateEvent(e)
  \/ \E a \in Atoms : GpuEnds(a)

Spec == Init /\ [][Next]_vars

\* The lock is taken from the others now and then; the GPU, the timer and the
\* fence of somebody else come to an end, and a suspended device is resumed
Fairness ==
  /\ WF_vars(Process) /\ WF_vars(Pass) /\ WF_vars(Unlock) /\ WF_vars(Timer)
  /\ SF_vars(Work) /\ SF_vars(ResumeJob) /\ WF_vars(Resume) /\ WF_vars(ResumeEnd)
  /\ SF_vars(Zap) /\ WF_vars(ExternalSignal)
  /\ WF_vars(\E a \in Atoms : GpuEnds(a))
FairSpec == Spec /\ Fairness

(***************************************************************************)
(* Properties                                                               *)
(***************************************************************************)
\* Every variable has its type.
TypeOK ==
  /\ prog \in Programs
  /\ \A a \in Atoms :
       /\ atom[a].status \in {"unused", "queued", "in_js", "hw_completed", "completed"}
       /\ atom[a].code \in {"done", "fail"} /\ atom[a].will \in BOOLEAN
       /\ atom[a].dep \in Atoms \cup {None} /\ atom[a].count \in -1..2
       /\ atom[a].cb \in BOOLEAN /\ atom[a].finished \in BOOLEAN /\ atom[a].dones \in 0..2
  /\ next \in 1..(NumAtoms + 1) /\ lock \in Callers \cup {"free"}
  /\ jd.katom \in Atoms \cup {None}
  /\ jd.completed \in Seq(Atoms) /\ jd.runnable \in Seq(Atoms) /\ waiting \in Seq(Atoms)
  /\ proc.id \in Atoms \cup {None}
  /\ proc.pc \in {"idle", "process", "arm", "inc", "test", "list", "suspend"}
  /\ wq \in Seq([job : {"event", "fence", "jit", "gpu"}, id : Atoms])
  /\ timer \in [pending : BOOLEAN, due : SUBSET Atoms, running : BOOLEAN, elapsed : SUBSET Atoms]
  /\ events \subseteq Events
  /\ fence \in [Fences -> {"none", "pending", "ok", "error"}]
  /\ jit.alloc \in [JitIds -> {"free", "active", "failed"}]
  /\ jit.atoms \in Seq(Atoms) /\ jit.pending \in Seq(Atoms)
  /\ pm.list \in Seq(Atoms) /\ pm.local \in Seq(Atoms)
  /\ zap.pc \in {"no", "lock", "timer", "cancel", "wait", "done"}
  /\ updates \in 0..MaxUpdates /\ oops \in BOOLEAN

\* A soft job that is signalled, times out and is cancelled at once ends once:
\* its work item is in the queue once, not after it has completed, and one event
\* is posted (mali_kbase_softjobs.c:226-273, 370-420, jd.c:1542-1547).
EndsOnce ==
  /\ \A i, k \in DOMAIN wq : wq[i].id = wq[k].id => i = k
  /\ \A i \in DOMAIN wq : atom[wq[i].id].status # "completed"
  /\ \A a \in Atoms : atom[a].dones <= 1

\* Until the zap deletes it the timer runs for every event wait on the list, in
\* whatever order waits are added, triggered and time out
\* (mali_kbase_softjobs.c:72-92, 226-273, 370-420).
TimerCoversWaits ==
  (EventWaiters # {} /\ zap.pc \notin {"cancel", "wait", "done"})
    => timer.pending \/ timer.running \/ proc.pc = "arm"

\* A prepared job that a data dependency failed while the context was alive:
\* jd_run_atom completes it and nobody finishes it (mali_kbase_jd.c:93-95).
Dropped(a) == atom[a].will /\ atom[a].dones > 0 /\ ~atom[a].finished

\* The JIT_FREEs an allocation that waits may hope for
EarlierFrees(a) ==
  {jit.atoms[i] : i \in {i \in DOMAIN jit.atoms :
     /\ Kind(jit.atoms[i]) = "jit_free"
     /\ \E k \in DOMAIN jit.atoms : i < k /\ jit.atoms[k] = a}}

\* A JIT allocation that waits has something to wait for: an earlier JIT_FREE
\* that has not finished, or the retry that follows (mali_kbase_softjobs.c:1000-1048,
\* 1147-1168).  Nothing else ever tries it again, so it is left alone only when
\* that free was dropped.
BlockedHasFree ==
  \A a \in Range(jit.pending) : \E b \in EarlierFrees(a) : atom[b].dones = 0 \/ Dropped(b)

\* A prepared fence trigger whose event is posted has signalled the fence that
\* other processes may wait for, also when it was killed, unless it was dropped
\* (mali_kbase_softjobs.c:1332-1350, 1448-1452, mali_kbase_jd.c:680-702).
TriggersSignal ==
  \A a \in 1..Len(prog) :
    Kind(a) = "fence_trigger" /\ atom[a].dones > 0 => fence[a] # "pending" \/ Dropped(a)

\* `if this is a soft-job that has had kbase_prepare_soft_job called on it then
\* the caller is responsible for calling kbase_finish_soft_job' before it is
\* done (mali_kbase_jd.c:600-601).  Of jobs that hold something, without the
\* exception.
FinishedBeforeDone ==
  \A a \in 1..Len(prog) :
    /\ atom[a].dones > 0
    /\ \/ a \in Range(jit.atoms)
       \/ Kind(a) = "fence_trigger" /\ fence[a] # "none"
    => atom[a].finished

\* Only an atom that is on a list is taken off it (mali_kbase_jd.c:691-696).
NoStrayUnlink == ~oops

\* A dump that joined the suspended jobs after the resume took their list
Stranded == ~pm.suspending /\ ~pm.resuming /\ pm.list # <<>>

\* Nobody ends an allocation whose last free was dropped, nor a wait for the fence
\* of a trigger that was dropped, nor what depends on one of these.
Lost[a \in Atoms] ==
  \/ /\ a \in Range(jit.pending) /\ EarlierFrees(a) # {}
     /\ \A b \in EarlierFrees(a) : Dropped(b)
  \/ /\ a < next /\ Kind(a) = "fence_wait" /\ Arg(a) \in 1..(a - 1) /\ fence[Arg(a)] = "pending"
     /\ Dropped(Arg(a)) \/ Lost[Arg(a)]
  \/ atom[a].dep # None /\ Lost[atom[a].dep]

\* Every job ends, whichever way: signalled, timed out, retried, cancelled by the
\* zap or resumed with the device - unless the resume missed a dump, or the job
\* waits for one that was dropped.
JobsEnd == []<>(Stranded \/ \A a \in Submitted : atom[a].dones > 0 \/ Lost[a])

\* A resume leaves no suspended soft job behind (mali_kbase_pm.c:215-217).
NoneStranded == ~Stranded

\* A soft job ends once, the timer covers all that wait, a blocked JIT allocation
\* has a free to wait for, and a trigger signals its fence, but where a data
\* dependency failed the free or the trigger.  (jd_done_nolock,
\* kbasep_soft_job_timeout_worker, kbase_jit_allocate_process)
SoftJobsSound ==
  TypeOK /\ EndsOnce /\ TimerCoversWaits /\ BlockedHasFree /\ TriggersSignal
=============================================================================
