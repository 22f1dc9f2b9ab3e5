------------------------------- MODULE JobSlot -------------------------------
(***************************************************************************)
(* One job slot: its registers, its job interrupt, the soft and hard stops, *)
(* the scheduling timer, protected mode, and the GPU reset                  *)
(* (backend/gpu/mali_kbase_jm_hw.c, mali_kbase_js_backend.c and the slot    *)
(* half of mali_kbase_jm_rb.c).                                             *)
(*                                                                         *)
(* The GPU runs by itself between any two steps of the driver, also while   *)
(* the interrupt handler holds hwaccess_lock: a step of the driver is what  *)
(* it does between two register reads whose answers the GPU can change.     *)
(* The reset is asked for, committed to and performed by different threads, *)
(* under different locks.                                                   *)
(*                                                                         *)
(* Atoms are independent jobs of one priority; JobDeps has dependencies.    *)
(* Atom numbers are ages.  Power.tla has what makes an atom's cores ready:  *)
(* here that is a choice.                                                   *)
(***************************************************************************)
EXTENDS Integers, Sequences, FiniteSets, FiniteSetsExt

CONSTANTS
  NumAtoms,   \* atoms 1..NumAtoms wait in the queues of their contexts
  CtxOf,      \* CtxOf[a]: katom->kctx
  Protected,  \* atoms that run in protected mode only
  Faulty,     \* atoms whose job may fail
  Hung,       \* atoms whose job neither ends nor heeds a soft-stop
  Dead,       \* those of Hung that do not heed a hard-stop either
  StopResets, \* BASE_HW_ISSUE_8401 or 9510: a hard-stop asks for a reset
  MaxCalls    \* bound: resets asked for by other threads, and suspends

Atoms == 1..NumAtoms
NoAtom == 0
Contexts == {CtxOf[a] : a \in Atoms}
SlotRbSize == 2
SoftTicks == 1    \* soft_stop_ticks < hard_stop_ticks_ss < gpu_reset_ticks_ss
HardTicks == 2
ResetTicks == 3

ASSUME JobSlotAssumption ==
  /\ NumAtoms \in Nat \ {0} /\ DOMAIN CtxOf = Atoms
  /\ Protected \subseteq Atoms /\ Faulty \subseteq Atoms \ Hung
  /\ Hung \subseteq Atoms /\ Dead \subseteq Hung
  /\ StopResets \in BOOLEAN /\ MaxCalls \in Nat

VARIABLES
  gpu,     \* the slot's registers, and what the hardware did with each job
  jm,      \* what hwaccess_lock protects: ring buffer, atoms, disjoint state
  irqOn,   \* the job interrupt is unmasked
  irq,     \* the job interrupt handler (kbase_job_done)
  reset,   \* hwaccess.backend.reset_gpu
  timer,   \* reset_timer is armed
  queued,  \* reset_work is queued
  worker,  \* progress of kbasep_reset_timeout_worker
  caller,  \* progress of a thread that asks for a reset without the lock
  calls    \* resets such threads asked for and suspends, up to MaxCalls

resetVars == <<reset, timer, queued>>
vars == <<gpu, jm, irqOn, irq, reset, timer, queued, worker, caller, calls>>

IdleGpu ==
  [head |-> NoAtom, next |-> NoAtom, stop |-> "none", done |-> FALSE, failed |-> FALSE,
   status |-> "done", mode |-> FALSE, aimed |-> {}, ended |-> [a \in Atoms |-> "no"],
   lost |-> {}]

IdleIrq == [pc |-> "idle", done |-> FALSE, failed |-> FALSE, code |-> "done", left |-> 0]

Init ==
  /\ gpu = IdleGpu
  /\ jm = [ring |-> <<>>, rb |-> [a \in Atoms |-> "out"], event |-> [a \in Atoms |-> "done"],
           over |-> {}, work |-> {}, blocked |-> {}, ticks |-> [a \in Atoms |-> 0],
           tag |-> [a \in Atoms |-> FALSE], chain |-> FALSE, mode |-> FALSE,
           transition |-> FALSE, flagged |-> {}, state |-> 0]
  /\ irqOn = TRUE /\ irq = IdleIrq
  /\ reset = "not_pending" /\ timer = FALSE /\ queued = FALSE
  /\ worker = "idle" /\ caller = "idle" /\ calls = 0

-----------------------------------------------------------------------------
(* The helpers below take what hwaccess_lock protects, with the registers   *)
(* and the reset, as one value, and return the next one.                    *)

S == [gpu |-> gpu, jm |-> jm, reset |-> reset, timer |-> timer, queued |-> queued]

Becomes(st) ==
  /\ gpu' = st.gpu /\ jm' = st.jm
  /\ reset' = st.reset /\ timer' = st.timer /\ queued' = st.queued

\* hwaccess_lock is not held by the interrupt handler.
LockFree == irq.pc \in {"idle", "entered", "early"}

InRing(st) == Range(st.jm.ring)
OnHw(st) == {a \in InRing(st) : st.jm.rb[a] = "submitted"}

StateUp(st) == [st EXCEPT !.jm.state = @ + 1]

\* kbase_job_check_enter_disjoint: at most once for an atom.
EnterDisjoint(st, a, action, disjoint) ==
  IF a \in st.jm.flagged \/ (action = "soft" /\ (a \in Protected \/ ~disjoint)) THEN st
  ELSE StateUp([st EXCEPT !.jm.flagged = @ \cup {a}])

LeaveDisjoint(st, a) ==
  IF a \notin st.jm.flagged THEN st
  ELSE [st EXCEPT !.jm.flagged = @ \ {a}, !.jm.state = @ - 1]

\* kbase_gpu_release_atom: an atom that leaves its state gives up the
\* protected mode transition it had begun.  Its tag is not read again.
Release(st, a, rb) ==
  [st EXCEPT !.jm.transition = @ /\ st.jm.rb[a] \notin {"enter", "exit", "reset_wait"},
             !.jm.rb[a] = rb, !.jm.tag[a] = FALSE]

\* kbase_gpu_dequeue_atom.  The ticks start again when the atom is pulled again.
Dequeue(st) ==
  LET a == Head(st.jm.ring)
      out == Release(st, a, "out")
  IN  [out EXCEPT !.jm.ring = Tail(@), !.jm.ticks[a] = 0, !.gpu.aimed = @ \ {a}]

\* kbase_js_complete_atom: the outcome of the atom is its event code.
CompleteAtom(st, a) ==
  LET left == LeaveDisjoint(st, a)
  IN  [left EXCEPT !.jm.over = @ \cup {a}, !.jm.work = @ \cup {a}]

\* Mutant of ReturnToJs: the atom keeps its share of the disjoint state.
ReturnToJs_StaysDisjoint(st, a) == [st EXCEPT !.jm.work = @ \cup {a}]

\* kbase_jm_return_atom_to_js: a stopped or removed atom goes back to its
\* queue, blocked until js_return_worker ran; any other is complete.
ReturnToJs(st, a) ==
  LET left == LeaveDisjoint(st, a)
  IN  IF st.jm.event[a] \in {"stopped", "removed"}
      THEN [left EXCEPT !.jm.work = @ \cup {a}]
      ELSE CompleteAtom(st, a)

-----------------------------------------------------------------------------
(* Protected mode and submission: kbase_backend_slot_update.                *)

\* States from KBASE_ATOM_GPU_RB_WAITING_PROTECTED_MODE_TRANSITION on.
Begun == {"enter", "exit", "reset_wait", "cores", "submitted"}

\* kbase_reset_gpu_silent: dropped if any reset is under way.
ResetSilent(st) ==
  IF st.reset # "not_pending" THEN st
  ELSE StateUp([st EXCEPT !.reset = "silent", !.queued = TRUE])

\* kbase_jm_enter_protected_mode, once the L2 and vinstr allow it.
EnterMode(st, a, ready) ==
  IF ready
  THEN [st EXCEPT !.jm.mode = TRUE, !.gpu.mode = TRUE, !.jm.transition = FALSE, !.jm.rb[a] = "cores"]
  ELSE [st EXCEPT !.jm.transition = TRUE, !.jm.rb[a] = "enter"]

\* kbase_jm_exit_protected_mode: only a reset leaves protected mode.
ExitMode(st, a, ready) ==
  IF st.jm.rb[a] = "reset_wait" THEN st
  ELSE LET begun == [st EXCEPT !.jm.transition = TRUE,
                               !.jm.rb[a] = IF ready THEN "reset_wait" ELSE "exit"]
       IN  IF ready THEN ResetSilent(begun) ELSE begun

\* The hardware starts the job in NEXT as soon as HEAD is empty, unless a
\* failure of the slot has not been acknowledged.
Settle(g) ==
  IF g.head = NoAtom /\ ~g.failed
  THEN [g EXCEPT !.head = g.next, !.next = NoAtom, !.stop = "none"] ELSE g

\* kbase_job_hw_submit: fill the NEXT registers, tagged so that a stop can
\* tell the job from the one in HEAD.
HwSubmit(st, a) ==
  [st EXCEPT !.gpu = Settle([@ EXCEPT !.next = a, !.ended[a] = "no"]),
             !.jm.tag[a] = ~st.jm.chain, !.jm.chain = ~@, !.jm.rb[a] = "submitted"]

\* Mutant of Proceed: a waiting atom ignores the mode the other one needs.
Proceed_AnyMode(st, a, i, first, ready) ==
  LET mayBegin == st.jm.rb[a] # "blocked" \/ ~st.jm.transition
      begun == IF st.jm.rb[a] = "cores" \/ st.jm.mode = (a \in Protected)
               THEN [st EXCEPT !.jm.rb[a] = "cores"]
               ELSE IF a \in Protected THEN EnterMode(st, a, ready) ELSE ExitMode(st, a, ready)
      maySubmit == i = 1 \/ st.jm.rb[first] \in {"submitted", "out"}
  IN  CASE st.jm.rb[a] = "submitted" \/ ~mayBegin -> st
        [] st.jm.rb[a] = "return" -> st
        [] OTHER -> IF begun.jm.rb[a] = "cores" /\ ready /\ maySubmit
                    THEN HwSubmit(begun, a) ELSE begun

\* One ring entry of kbase_backend_slot_update; first is the atom that was
\* at index 0 when the update began.
Proceed(st, a, i, first, ready) ==
  LET Clash(b) == (b \in Protected) # (a \in Protected)
      mayBegin == \/ st.jm.rb[a] # "blocked"
                  \/ /\ \A b \in InRing(st) : st.jm.rb[b] \in Begun => ~Clash(b)
                     /\ ~Clash(first) /\ ~st.jm.transition
      begun == IF st.jm.rb[a] = "cores" \/ st.jm.mode = (a \in Protected)
               THEN [st EXCEPT !.jm.rb[a] = "cores"]
               ELSE IF a \in Protected THEN EnterMode(st, a, ready) ELSE ExitMode(st, a, ready)
      maySubmit == i = 1 \/ st.jm.rb[first] \in {"submitted", "out"}
  IN  CASE st.jm.rb[a] = "return" ->
             IF i = 1 \/ st.jm.rb[first] = "out" THEN ReturnToJs(Dequeue(st), a) ELSE st
        [] st.jm.rb[a] = "submitted" \/ ~mayBegin -> st
        [] OTHER -> IF begun.jm.rb[a] = "cores" /\ ready /\ maySubmit
                    THEN HwSubmit(begun, a) ELSE begun

SlotUpdate(st, ready) ==
  LET ring == st.jm.ring
      one == IF ring = <<>> THEN st ELSE Proceed(st, ring[1], 1, ring[1], ready)
  IN  IF Len(ring) < 2 THEN one ELSE Proceed(one, ring[2], 2, ring[1], ready)

-----------------------------------------------------------------------------
(* Soft and hard stops: kbase_backend_soft_hard_stop_slot.                  *)

\* Mutant of Command: the stop does not say which job it is for.
Command_Untagged(st, a, action) ==
  LET g == st.gpu
  IN  IF action = "soft" /\ a \in Protected THEN st
      ELSE [st EXCEPT !.gpu.aimed = @ \cup {a},
              !.gpu.stop = IF g.head # NoAtom /\ @ # "hard" THEN action ELSE @]

\* kbasep_job_slot_soft_or_hard_stop_do_action: the GPU drops the command if
\* the job in HEAD has the other tag (JOBCHAIN_DISAMBIGUATION).
Command(st, a, action) ==
  LET g == st.gpu
      hit == g.head # NoAtom /\ st.jm.tag[g.head] = st.jm.tag[a]
  IN  IF action = "soft" /\ a \in Protected THEN st
      ELSE [st EXCEPT !.gpu.aimed = @ \cup {a},
              !.gpu.stop = IF hit /\ @ # "hard" THEN action ELSE @]

Block(st, a) == [st EXCEPT !.jm.blocked = @ \cup {CtxOf[a]}]

\* kbase_gpu_stop_atom
StopAtom(st, a, action, disjoint) ==
  Block(Command(EnterDisjoint(st, a, action, disjoint), a, action), a)

\* kbase_gpu_remove_atom: the interrupt or the next slot update returns it.
RemoveAtom(st, a) ==
  LET out == Release(st, a, "return") IN Block([out EXCEPT !.jm.event[a] = "removed"], a)

\* Take the job out of the NEXT registers.
Evict(st, a) == RemoveAtom([st EXCEPT !.gpu.next = NoAtom], a)

\* Atom a was not on the GPU: it goes straight back to its queue.
Withdraw(st, a) ==
  ReturnToJs(Block([Dequeue(st) EXCEPT !.jm.event[a] = "removed"], a), a)

\* A stop of those atoms of the slot that are in hit.
StopSlot(st, hit, action, disjoint) ==
  LET ring == st.jm.ring
      sub(a) == st.jm.rb[a] = "submitted"
      on(i) == Len(ring) >= i /\ ring[i] \in hit
      p == ring[1]
      q == ring[2]
      inNext == st.gpu.next # NoAtom
  IN  CASE on(1) /\ ~sub(p) /\ on(2) -> Withdraw(Withdraw(st, p), q)
        [] on(1) /\ ~sub(p) -> Withdraw(st, p)
        [] on(1) /\ on(2) /\ sub(q) /\ ~inNext -> StopAtom(st, q, action, disjoint)
        [] on(1) /\ on(2) /\ sub(q) ->
             StopAtom(EnterDisjoint(Evict(st, q), q, action, disjoint), p, action, disjoint)
        [] on(1) /\ on(2) -> StopAtom(RemoveAtom(st, q), p, action, disjoint)
        [] on(1) -> StopAtom(st, p, action, disjoint)
        [] on(2) /\ ~sub(q) -> RemoveAtom(st, q)
        [] on(2) /\ ~inNext -> StopAtom(st, q, action, disjoint)
        [] on(2) -> Evict(st, q)
        [] OTHER -> st

\* A stop for one atom also takes the one behind it if it is of the same
\* context, or they would be returned out of order.
StopOne(st, a, action, disjoint) ==
  LET hit == {b \in Atoms : b = a \/ (st.jm.ring[1] = a /\ CtxOf[b] = CtxOf[a])}
  IN  StopSlot(st, hit, action, disjoint)

StopAll(st) == StopSlot(st, Atoms, "soft", FALSE)

-----------------------------------------------------------------------------
(* Asking for a reset.                                                      *)

\* kbase_prepare_to_reset_gpu_locked
PrepareReset(st) ==
  IF st.reset # "not_pending" THEN st
  ELSE StopAll(StateUp([st EXCEPT !.reset = "prepared"]))

\* kbasep_try_reset_gpu_early_locked
TryEarly(st) ==
  IF OnHw(st) = {} /\ st.reset = "committed"
  THEN [st EXCEPT !.reset = "happening", !.queued = TRUE] ELSE st

\* kbase_prepare_to_reset_gpu_locked and, if it agreed, kbase_reset_gpu_locked
ResetLocked(st) ==
  IF st.reset # "not_pending" THEN st
  ELSE TryEarly([PrepareReset(st) EXCEPT !.reset = "committed", !.timer = TRUE])

\* kbase_job_slot_hardstop of the atom at the head of the ring, with the
\* reset some hardware needs after one.
HardStop(st, a) ==
  LET stopped == StopOne(st, a, "hard", FALSE)
  IN  IF StopResets /\ st.jm.rb[a] = "submitted" THEN ResetLocked(stopped) ELSE stopped

-----------------------------------------------------------------------------
(* The hardware: external, from how the driver reads its registers.         *)

Ends(a, how, bit, status) ==
  /\ gpu' = Settle([gpu EXCEPT !.head = NoAtom, !.stop = "none", !.ended[a] = how,
                              !.done = @ \/ bit = "done", !.failed = @ \/ bit = "failed",
                              !.status = IF bit = "failed" THEN status ELSE @])
  /\ UNCHANGED <<jm, irqOn, irq, resetVars, worker, caller, calls>>

HwDone(a) == gpu.head = a /\ a \notin Hung /\ Ends(a, "ok", "done", "done")
HwFault(a) == gpu.head = a /\ a \in Faulty /\ Ends(a, "fault", "failed", "fault")
HwSoftStopped(a) ==
  gpu.head = a /\ gpu.stop = "soft" /\ a \notin Hung /\ Ends(a, "stopped", "failed", "stopped")
HwHardStopped(a) ==
  gpu.head = a /\ gpu.stop = "hard" /\ a \notin Dead
  /\ Ends(a, "killed", "failed", "terminated")

-----------------------------------------------------------------------------
(* The job interrupt.                                                       *)

\* kbase_job_irq_handler: JOB_IRQ_STATUS is read before any lock is taken.
IrqEnter ==
  /\ irq.pc = "idle" /\ irqOn /\ (gpu.done \/ gpu.failed)
  /\ irq' = [IdleIrq EXCEPT !.pc = "entered", !.done = gpu.done, !.failed = gpu.failed]
  /\ UNCHANGED <<gpu, jm, irqOn, resetVars, worker, caller, calls>>

\* kbase_job_done: read the status of a failed job, clear the bits that were
\* seen; the clear latches which of HEAD and NEXT still hold a job.
IrqClear ==
  /\ irq.pc \in {"entered", "again"}
  /\ LET left == Cardinality({gpu.head, gpu.next} \ {NoAtom})
     IN  irq' = [irq EXCEPT !.pc = "cleared", !.left = left,
                            !.code = IF irq.failed THEN gpu.status ELSE "done"]
  /\ gpu' = Settle([gpu EXCEPT !.done = @ /\ ~irq.done, !.failed = @ /\ ~irq.failed,
                              !.status = IF irq.failed THEN "done" ELSE @])
  /\ UNCHANGED <<jm, irqOn, resetVars, worker, caller, calls>>

\* Mutant of JobsLeft: a failure that came after the handler read its bits.
JobsLeft_Stale(st) == irq.left

\* The jobs the hardware still has.  If it seems to have none, one may have
\* failed since the handler read its bits: RAWSTAT tells.
JobsLeft(st) ==
  IF irq.left = 0 /\ ~irq.failed /\ st.gpu.failed THEN 1 ELSE irq.left

\* kbase_gpu_complete_hw: a stopped atom takes the next one of its context
\* with it; a failed one stops its context from submitting until the worker
\* has seen it.
CompleteHw(st, code, ready) ==
  LET a == Head(st.jm.ring)
      out == Dequeue(st)
      b == Head(out.jm.ring)
      follows == out.jm.ring # <<>> /\ CtxOf[b] = CtxOf[a]
      rest == CASE code = "stopped" /\ follows -> ReturnToJs(Dequeue(out), b)
                [] code \notin {"stopped", "done"} -> Block(out, a)
                [] OTHER -> out
      told == [rest EXCEPT !.jm.event[a] = code]
  IN  SlotUpdate(IF code = "stopped" THEN ReturnToJs(told, a) ELSE CompleteAtom(told, a), ready)

\* All but the last of n finished jobs must have succeeded.
CompleteAll(st, n, ready) ==
  IF n = 2 THEN CompleteHw(CompleteHw(st, "done", ready), irq.code, ready)
  ELSE CompleteHw(st, irq.code, ready)

\* kbase_js_pull: the oldest atom of a context, unless it must wait.
Pullable(st, a) ==
  LET mine == {b \in Atoms : CtxOf[b] = CtxOf[a] /\ b \notin InRing(st) \cup st.jm.over}
  IN  /\ a \in mine /\ \A b \in mine : a <= b
      /\ CtxOf[a] \notin st.jm.blocked /\ a \notin st.jm.work

\* Mutant of SlotFree: atoms are submitted while a reset is under way.
SlotFree_InReset(st) == Len(st.jm.ring) < SlotRbSize

\* Mutant of SlotFree: an entry too many.
SlotFree_Full(st) == st.reset = "not_pending" /\ Len(st.jm.ring) <= SlotRbSize

\* kbase_backend_slot_free
SlotFree(st) == st.reset = "not_pending" /\ Len(st.jm.ring) < SlotRbSize

\* kbase_backend_run_atom of an atom that was just pulled.
RunAtom(st, a, ready) ==
  SlotUpdate([st EXCEPT !.jm.ring = Append(@, a), !.jm.rb[a] = "blocked"], ready)

\* The rest of an iteration of kbase_job_done: complete what left the GPU,
\* try to fill the slot, and look at RAWSTAT again.
IrqComplete ==
  /\ irq.pc = "cleared"
  /\ LET n == Cardinality(OnHw(S)) - JobsLeft(S)
     IN  \E ready \in BOOLEAN :
           LET done == IF n <= 0 THEN S ELSE CompleteAll(S, n, ready)
           IN  \/ Becomes(done)
               \/ /\ n > 0 /\ SlotFree(done)
                  /\ \E a \in Atoms : Pullable(done, a) /\ Becomes(RunAtom(done, a, ready))
  /\ irq' = IF gpu.done \/ gpu.failed
            THEN [IdleIrq EXCEPT !.pc = "again", !.done = gpu.done, !.failed = gpu.failed]
            ELSE [IdleIrq EXCEPT !.pc = "early"]
  /\ UNCHANGED <<irqOn, worker, caller, calls>>

\* The end of kbase_job_done: the slot may be empty enough for the reset.
IrqEarly ==
  /\ irq.pc = "early" /\ Becomes(TryEarly(S)) /\ irq' = IdleIrq
  /\ UNCHANGED <<irqOn, worker, caller, calls>>

-----------------------------------------------------------------------------
(* The threads of the driver that feed and stop the slot.                   *)

\* A slot that is kicked from anywhere but the interrupt.
Kick(a) ==
  /\ LockFree /\ SlotFree(S) /\ Pullable(S, a)
  /\ \E ready \in BOOLEAN : Becomes(RunAtom(S, a, ready))
  /\ UNCHANGED <<irqOn, irq, worker, caller, calls>>

\* A power transition ended: cores, L2 and vinstr are as the slot wants them.
PowerEvent ==
  /\ LockFree /\ irqOn /\ Becomes(SlotUpdate(S, TRUE))
  /\ UNCHANGED <<irqOn, irq, worker, caller, calls>>

\* kbase_js_complete_atom_wq and js_return_worker: a context all of whose
\* atoms are back may submit again.
WorkDone(a) ==
  /\ LockFree /\ a \in jm.work
  /\ LET away == {b \in InRing(S) \cup (jm.work \ {a}) : CtxOf[b] = CtxOf[a]}
     IN  jm' = [jm EXCEPT !.work = @ \ {a},
                          !.blocked = IF away = {} THEN @ \ {CtxOf[a]} ELSE @]
  /\ UNCHANGED <<gpu, irqOn, irq, resetVars, worker, caller, calls>>

Unfinished == Atoms \ jm.over

\* timer_callback: the scheduling timer runs while a context is runnable, and
\* counts the ticks the first atom of the ring has been there.  Timing: a job
\* started by the tail of a reset does not use up its ticks before the tail ends.
Tick ==
  /\ LockFree /\ Unfinished # {} /\ jm.ring # <<>>
  /\ jm.ticks[Head(jm.ring)] = ResetTicks => worker \notin {"started", "unmasked"}
  /\ LET a == Head(jm.ring)
         many == Cardinality({CtxOf[b] : b \in Unfinished}) >= 2
         counted == [S EXCEPT !.jm.ticks[a] = IF @ > ResetTicks THEN @ ELSE @ + 1]
     IN  Becomes(CASE jm.ticks[a] = SoftTicks  -> StopOne(counted, a, "soft", many)
                   [] jm.ticks[a] = HardTicks  -> HardStop(counted, a)
                   [] jm.ticks[a] = ResetTicks -> ResetLocked(counted)
                   [] OTHER -> counted)
  /\ UNCHANGED <<irqOn, irq, worker, caller, calls>>

\* kbase_prepare_to_reset_gpu by a thread that found the GPU stuck.
Prepare ==
  /\ caller = "idle" /\ calls < MaxCalls /\ calls' = calls + 1
  /\ LockFree /\ Becomes(PrepareReset(S))
  /\ caller' = IF reset = "not_pending" THEN "prepared" ELSE "idle"
  /\ UNCHANGED <<irqOn, irq, worker>>

\* kbase_reset_gpu holds no lock: it commits ...
CommitSet ==
  /\ caller = "prepared" /\ caller' = "committed" /\ reset' = "committed"
  /\ UNCHANGED <<gpu, jm, irqOn, irq, timer, queued, worker, calls>>

\* ... and arms the timer, which by then may be one reset too late.
CommitStart ==
  /\ caller = "committed" /\ LockFree
  /\ Becomes(TryEarly([S EXCEPT !.timer = TRUE]))
  /\ caller' = "idle" /\ UNCHANGED <<irqOn, irq, worker, calls>>

-----------------------------------------------------------------------------
(* The reset itself: kbasep_reset_timeout_worker.                           *)

\* Mutant of TimerFire: the timer expects a reset that is not committed yet.
TimerFire_Prepared ==
  /\ timer /\ timer' = FALSE
  /\ IF reset = "prepared" THEN reset' = "happening" /\ queued' = TRUE
     ELSE UNCHANGED <<reset, queued>>
  /\ UNCHANGED <<gpu, jm, irqOn, irq, worker, caller, calls>>

\* kbasep_reset_timer_callback
TimerFire ==
  /\ timer /\ timer' = FALSE
  /\ IF reset = "committed" THEN reset' = "happening" /\ queued' = TRUE
     ELSE UNCHANGED <<reset, queued>>
  /\ UNCHANGED <<gpu, jm, irqOn, irq, worker, caller, calls>>

\* No context is active: if the system suspends there is nothing to reset.
Suspended == jm.ring = <<>> /\ jm.work = {}

WorkerBegin ==
  /\ worker = "idle" /\ queued /\ queued' = FALSE /\ timer' = FALSE
  /\ \/ worker' = "begun" /\ UNCHANGED <<jm, reset, calls>>
     \/ /\ Suspended /\ calls < MaxCalls /\ calls' = calls + 1
        /\ reset' = "not_pending" /\ jm' = [jm EXCEPT !.state = @ - 1] /\ UNCHANGED worker
  /\ UNCHANGED <<gpu, irqOn, irq, caller>>

\* kbase_pm_disable_interrupts_nolock also clears what is outstanding, under
\* the feet of a handler that has read JOB_IRQ_STATUS and not yet the lock.
WorkerMask ==
  /\ worker = "begun" /\ LockFree /\ worker' = "masked" /\ irqOn' = FALSE
  /\ gpu' = Settle([gpu EXCEPT !.done = FALSE, !.failed = FALSE,
                     !.lost = IF irq.pc = "entered" /\ gpu.failed /\ ~irq.failed
                              THEN @ \cup {a \in OnHw(S) : gpu.ended[a] \notin {"no", "ok"}}
                              ELSE @])
  /\ UNCHANGED <<jm, irq, resetVars, caller, calls>>

\* kbase_synchronize_irqs
WorkerSync ==
  /\ worker = "masked" /\ irq.pc = "idle" /\ worker' = "synced"
  /\ UNCHANGED <<gpu, jm, irqOn, irq, resetVars, caller, calls>>

\* What kbase_backend_reset does with one atom of the ring: one that was on
\* the hardware is cancelled, any other starts again.
Reap(st, a) ==
  IF st.jm.rb[a] # "submitted" THEN Release(st, a, "blocked")
  ELSE LET out == Release(st, a, "out")
       IN  CompleteAtom([out EXCEPT !.jm.ring = SelectSeq(@, LAMBDA b : b # a),
                                    !.jm.ticks[a] = 0, !.jm.event[a] = "cancelled"], a)

WorkerKill ==
  /\ worker = "synced" /\ LockFree /\ worker' = "killed"
  /\ LET out == [S EXCEPT !.jm.mode = FALSE]
         one == IF jm.ring = <<>> THEN out ELSE Reap(out, jm.ring[1])
     IN  Becomes(IF Len(jm.ring) < 2 THEN one ELSE Reap(one, jm.ring[2]))
  /\ UNCHANGED <<irqOn, irq, caller, calls>>

\* kbase_pm_init_hw: the GPU drops its jobs and leaves protected mode.
WorkerInit ==
  /\ worker = "killed" /\ worker' = "started"
  /\ gpu' = [gpu EXCEPT !.head = NoAtom, !.next = NoAtom, !.stop = "none",
                        !.aimed = {}, !.done = FALSE, !.failed = FALSE, !.status = "done", !.mode = FALSE]
  /\ UNCHANGED <<jm, irqOn, irq, resetVars, caller, calls>>

WorkerIrqs ==
  /\ worker = "started" /\ worker' = "unmasked" /\ irqOn' = TRUE
  /\ UNCHANGED <<gpu, jm, irq, resetVars, caller, calls>>

WorkerClear ==
  /\ worker = "unmasked" /\ worker' = "cleared" /\ reset' = "not_pending"
  /\ jm' = [jm EXCEPT !.state = @ - 1]
  /\ UNCHANGED <<gpu, irqOn, irq, timer, queued, caller, calls>>

WorkerResched ==
  /\ worker = "cleared" /\ LockFree /\ worker' = "idle"
  /\ \E ready \in BOOLEAN : Becomes(SlotUpdate(S, ready))
  /\ UNCHANGED <<irqOn, irq, caller, calls>>

-----------------------------------------------------------------------------
HwStep(a) == HwDone(a) \/ HwFault(a) \/ HwSoftStopped(a) \/ HwHardStopped(a)
IrqStep == IrqEnter \/ IrqClear \/ IrqComplete \/ IrqEarly
WorkerStep ==
  \/ WorkerBegin \/ WorkerMask \/ WorkerSync \/ WorkerKill
  \/ WorkerInit \/ WorkerIrqs \/ WorkerClear \/ WorkerResched

AtRest ==
  /\ Unfinished = {} /\ jm.work = {} /\ irq.pc = "idle" /\ caller = "idle" /\ worker = "idle"
  /\ ~timer /\ ~queued /\ reset = "not_pending" /\ UNCHANGED vars

Next ==
  \/ \E a \in Atoms : HwStep(a) \/ Kick(a) \/ WorkDone(a)
  \/ IrqStep \/ PowerEvent \/ Tick
  \/ Prepare \/ CommitSet \/ CommitStart \/ TimerFire \/ WorkerStep
  \/ AtRest

Spec == Init /\ [][Next]_vars

\* Interrupts, timers and queued work run.  What needs hwaccess_lock gets its
\* turn, the lock being a ticket lock.  A job that can end and is put back on
\* the GPU often enough ends: it resumes from where it was stopped.
Fairness ==
  /\ WF_vars(IrqStep) /\ WF_vars(TimerFire)
  /\ SF_vars(WorkerStep) /\ SF_vars(CommitSet \/ CommitStart)
  /\ SF_vars(PowerEvent) /\ SF_vars(Tick)
  /\ SF_vars(\E a \in Atoms : Kick(a)) /\ SF_vars(\E a \in Atoms : WorkDone(a))
  /\ SF_vars(\E a \in Atoms : HwDone(a))
  /\ WF_vars(\E a \in Atoms : HwSoftStopped(a) \/ HwHardStopped(a))

FairSpec == Spec /\ Fairness

-----------------------------------------------------------------------------
\* Every variable has its type, and the ring is never over its size.
TypeOK ==
  /\ gpu \in [head : Atoms \cup {NoAtom}, next : Atoms \cup {NoAtom},
              stop : {"none", "soft", "hard"}, done : BOOLEAN, failed : BOOLEAN,
              status : {"done", "fault", "stopped", "terminated"}, mode : BOOLEAN,
              aimed : SUBSET Atoms,
              ended : [Atoms -> {"no", "ok", "fault", "stopped", "killed"}], lost : SUBSET Atoms]
  /\ DOMAIN jm = {"ring", "rb", "event", "over", "work", "blocked", "ticks", "tag", "chain",
                  "mode", "transition", "flagged", "state"}
  /\ jm.ring \in Seq(Atoms) /\ Len(jm.ring) <= SlotRbSize
  /\ jm.rb \in [Atoms -> Begun \cup {"out", "blocked", "return"}]
  /\ jm.event \in [Atoms -> {"done", "fault", "stopped", "terminated", "removed", "cancelled"}]
  /\ jm.over \subseteq Atoms /\ jm.work \subseteq Atoms /\ jm.blocked \subseteq Contexts
  /\ jm.ticks \in [Atoms -> 0..(ResetTicks + 1)] /\ jm.tag \in [Atoms -> BOOLEAN]
  /\ jm.chain \in BOOLEAN /\ jm.mode \in BOOLEAN /\ jm.transition \in BOOLEAN
  /\ jm.flagged \subseteq Atoms /\ jm.state \in Int
  /\ irqOn \in BOOLEAN /\ timer \in BOOLEAN /\ queued \in BOOLEAN
  /\ irq \in [pc : {"idle", "entered", "cleared", "again", "early"}, done : BOOLEAN,
              failed : BOOLEAN, code : {"done", "fault", "stopped", "terminated"}, left : 0..2]
  /\ reset \in {"not_pending", "prepared", "committed", "happening", "silent"}
  /\ worker \in {"idle", "begun", "masked", "synced", "killed", "started", "unmasked", "cleared"}
  /\ caller \in {"idle", "prepared", "committed"} /\ calls \in 0..MaxCalls

\* An atom is reported done only if its job ran to its end, whatever the GPU
\* did while the interrupt handler looked elsewhere (the comment on the race
\* in kbase_job_done): no failure of a later job is taken for a success.
DoneMeansRan == \A a \in jm.over : jm.event[a] = "done" => gpu.ended[a] = "ok"

\* The same but for the failures that a reset wiped between the read of
\* JOB_IRQ_STATUS and the handler.
DoneMeansRanOrWiped ==
  \A a \in jm.over \ gpu.lost : jm.event[a] = "done" => gpu.ended[a] = "ok"

\* A stop that is in force on the job in HEAD was meant for that job, also if
\* the GPU moved on while the command was being written.
StopHitsItsTarget == gpu.stop # "none" => gpu.head \in gpu.aimed

\* The atoms the ring believes to be on the hardware and that did not end are
\* those of HEAD and NEXT; the registers are behind only inside a reset.
RegistersMatchRing ==
  LET on == {gpu.head, gpu.next} \ {NoAtom}
  IN  /\ {a \in OnHw(S) : gpu.ended[a] = "no"} \subseteq on
      /\ worker # "killed" => on \subseteq OnHw(S)

\* No job runs in a mode it is not meant for, and none is waiting in NEXT to.
RunsInItsMode ==
  worker # "killed" =>
    \A a \in {gpu.head, gpu.next} \ {NoAtom} : (a \in Protected) = gpu.mode

\* The disjoint state is up once for the reset under way and once for each
\* stopped atom that has not left the slot, and for nothing else.
DisjointBalanced ==
  /\ jm.flagged \subseteq InRing(S)
  /\ jm.state = Cardinality(jm.flagged) + IF reset = "not_pending" THEN 0 ELSE 1

\* Every atom is reported in the end, whether its job ends, hangs or is lost
\* in a reset, and a reset that was asked for does not stay pending.
SlotComesToRest == <>[](Unfinished = {} /\ reset = "not_pending")

\* An atom ends because it ran or was wiped by a reset, and a stop hits the job it
\* was meant for.  (kbase_job_done, kbasep_job_slot_soft_or_hard_stop_do_action)
JobsEndRightly == TypeOK /\ DoneMeansRanOrWiped /\ StopHitsItsTarget

\* The registers hold the atoms at the head of the ring, jobs run in the mode of
\* the GPU they were meant for, and disjoint states are counted back.
\* (kbase_gpu_slot_update, kbase_disjoint_state_up)
SlotMatchesRing == RegistersMatchRing /\ RunsInItsMode /\ DisjointBalanced
=============================================================================
