-------------------------------- MODULE Power --------------------------------
(***************************************************************************)
(* Power management: the references that keep the GPU on                    *)
(* (mali_kbase_pm.c), the deferred power-off and its worker                 *)
(* (backend/gpu/mali_kbase_pm_backend.c), the power-off timer, the policy   *)
(* and the core references of jobs (backend/gpu/mali_kbase_pm_policy.c,     *)
(* the coreref half of backend/gpu/mali_kbase_jm_rb.c) and the power-up of  *)
(* the cores (backend/gpu/mali_kbase_pm_driver.c).                          *)
(*                                                                         *)
(* The build has PLATFORM_POWER_DOWN_ONLY: cores are powered up one type at *)
(* a time, behind the L2, and go down with the whole GPU.  The GPU has one  *)
(* shader core, one tiler and one L2 and no XAFFINITY, so every job needs   *)
(* the shader core.  Each atom has a slot of its own; the core availability *)
(* policy is "fixed"; protected mode, the L2 users, the GPU reset and the   *)
(* fast start of atoms by an interrupt are left out.                        *)
(*                                                                         *)
(* pm.lock sections that drop hwaccess_lock in between are split there:     *)
(* `rest' is what the holder of pm.lock still has to do.                    *)
(***************************************************************************)
EXTENDS Integers, FiniteSets

CONSTANTS
  NumJobs,      \* the atoms, 1..NumJobs
  CtxOf,        \* CtxOf[j]: the context of atom j
  Needs,        \* Needs[j]: the core types atom j runs on
  GpuTicks,     \* pm.poweroff_gpu_ticks
  ShaderTicks,  \* pm.poweroff_shader_ticks
  Returns,      \* whether atoms may be returned to the scheduler unfinished
  Faults,       \* whether jobs may cause page faults
  Suspends,     \* whether the system suspends
  PolicyChanges \* whether user space changes the policy

Jobs == 1..NumJobs
Ctxs == {CtxOf[j] : j \in Jobs}
Types == {"shader", "tiler"}
Policies == {"coarse_demand", "always_on"}

ASSUME PowerAssumption ==
  /\ NumJobs \in Nat \ {0}
  /\ CtxOf \in [Jobs -> Nat]
  /\ Needs \in [Jobs -> SUBSET Types] /\ \A j \in Jobs : "shader" \in Needs[j]
  /\ GpuTicks \in Nat /\ ShaderTicks \in Nat
  /\ Returns \in BOOLEAN /\ Faults \in BOOLEAN /\ Suspends \in BOOLEAN /\ PolicyChanges \in BOOLEAN

\* With a deferred power-off no atom is returned and the policy stays.
Undisturbed == GpuTicks = 0 \/ (~Returns /\ ~PolicyChanges)

\* Who may hold a power reference or pm.lock: a context (KCTX_ACTIVE), its
\* completion worker, the holder of queue_mutex, kbase_pm_suspend and
\* kbase_pm_resume, kbase_pm_set_policy.
Context(c)   == <<"context", c>>
Worker(c)    == <<"worker", c>>
QueueHolder  == <<"queue", 0>>
Suspender    == <<"suspend", 0>>
PolicySetter == <<"policy", 0>>
Nobody       == <<"nobody", 0>>
Holders == {Context(c) : c \in Ctxs} \cup {Worker(c) : c \in Ctxs}
             \cup {QueueHolder, Suspender, PolicySetter}

VARIABLES
  refs,          \* who is counted in pm.active_count
  suspending,    \* pm.suspending
  gpuPowered,    \* backend.gpu_powered
  offPending,    \* kbdev->poweroff_pending: a clock-off began, IRQs are masked
  waitOff,       \* backend.poweroff_wait_in_progress
  onRequired,    \* backend.poweron_required
  gpuTicksLeft,  \* backend.gpu_poweroff_pending
  timerNeeded,   \* backend.poweroff_timer_needed
  timerRunning,  \* backend.poweroff_timer_running
  policy,        \* backend.pm_current_policy, "none" while it is replaced
  desired,       \* desired_shader_state, desired_tiler_state
  avail,         \* shader_available_bitmap, tiler_available_bitmap
  dropping,      \* shader_poweroff_pending, tiler_poweroff_pending
  dropTicks,     \* shader_poweroff_pending_time
  ready,         \* the READY registers, "l2" included
  trans,         \* the PWRTRANS registers: cores powering on
  at,            \* at[j]: how far atom j is
  coreref,       \* coreref[j]: the atom's coreref_state
  worker,        \* worker[c]: the done or return worker of context c
  sched,         \* the context kbase_js_sched has in hand
  spins,         \* kbasep_js_job_check_ref_cores does not come to an end
  rest,          \* what the holder of pm.lock has left to do
  offWork,       \* gpu_poweroff_wait_work
  tickWork,      \* gpu_poweroff_work is queued
  powerIrq,      \* a POWER_CHANGED interrupt is pending
  faults,        \* kbdev->faults_pending # 0
  susp,          \* progress of kbase_pm_suspend and kbase_pm_resume
  setter         \* progress of kbase_pm_set_policy

hwVars == <<refs, gpuPowered, offPending, waitOff, onRequired,
            gpuTicksLeft, timerNeeded, timerRunning, policy, desired, avail,
            dropping, dropTicks, ready, trans, at, coreref, worker, spins>>
vars == <<hwVars, sched, suspending, rest, offWork, tickWork, powerIrq, faults, susp, setter>>

Free == [by |-> Nobody, step |-> "done"]
NoCtx == [ctx |-> 0, fresh |-> FALSE]
NoWork == [job |-> 1, held |-> "none", step |-> "idle"]

\* The GPU as it is once user space has chosen coarse_demand (this build boots
\* with always_on) and everything has gone idle.
Init ==
  /\ refs = {} /\ suspending = FALSE
  /\ gpuPowered = FALSE /\ offPending = FALSE
  /\ waitOff = FALSE /\ onRequired = FALSE
  /\ gpuTicksLeft = 0 /\ timerNeeded = FALSE /\ timerRunning = FALSE
  /\ policy = "coarse_demand"
  /\ desired = {} /\ avail = {} /\ dropping = {} /\ dropTicks = 0
  /\ ready = {} /\ trans = {}
  /\ at = [j \in Jobs |-> "idle"] /\ coreref = [j \in Jobs |-> "none"] /\ spins = FALSE
  /\ worker = [c \in Ctxs |-> NoWork] /\ sched = NoCtx
  /\ rest = Free /\ offWork = "idle" /\ tickWork = FALSE
  /\ powerIrq = FALSE /\ faults = FALSE /\ susp = "up" /\ setter = "idle"

-----------------------------------------------------------------------------
(* What hwaccess_lock protects, as one value.  The operators below map such *)
(* a state to the next one, or to the set of next ones where the code reads *)
(* an uninitialised availability bitmap.                                    *)

S == [refs |-> refs, gpuPowered |-> gpuPowered, offPending |-> offPending,
      waitOff |-> waitOff, onRequired |-> onRequired,
      gpuTicksLeft |-> gpuTicksLeft, timerNeeded |-> timerNeeded,
      timerRunning |-> timerRunning, policy |-> policy, desired |-> desired,
      avail |-> avail, dropping |-> dropping, dropTicks |-> dropTicks,
      ready |-> ready, trans |-> trans, at |-> at, coreref |-> coreref,
      worker |-> worker, spins |-> spins]

Becomes(s) ==
  /\ refs' = s.refs /\ gpuPowered' = s.gpuPowered /\ offPending' = s.offPending
  /\ waitOff' = s.waitOff /\ onRequired' = s.onRequired
  /\ gpuTicksLeft' = s.gpuTicksLeft /\ timerNeeded' = s.timerNeeded
  /\ timerRunning' = s.timerRunning /\ policy' = s.policy /\ desired' = s.desired
  /\ avail' = s.avail /\ dropping' = s.dropping /\ dropTicks' = s.dropTicks
  /\ ready' = s.ready /\ trans' = s.trans /\ at' = s.at /\ coreref' = s.coreref
  /\ worker' = s.worker /\ spins' = s.spins

BecomesOneOf(states) == \E s \in states : Becomes(s)

\* shader_needed_bitmap, tiler_needed_cnt and shader_inuse_bitmap,
\* tiler_inuse_cnt: what atoms hold, and workers still have to give back
Held(s, state) ==
  UNION ({Needs[j] : j \in {k \in Jobs : s.coreref[k] = state}}
         \cup {Needs[s.worker[c].job] : c \in {d \in Ctxs : s.worker[d].held = state}})
Needed(s) == Held(s, "waiting")
InUse(s)  == Held(s, "ready")

\* get_core_active of the current policy
CoreActive(s) == \/ s.policy = "always_on"
                 \/ s.refs # {} \/ Needed(s) # {} \/ InUse(s) # {}

\* What kbase_pm_update_cores_state_nolock wants: the mask of the policy, the
\* tiler for the jobs that need it, and shader core 0 with the tiler.
Wanted(s) ==
  LET tiler == Types \cap {"tiler"} \cap (Needed(s) \cup InUse(s))
  IN  tiler \cup (IF s.policy = "always_on" \/ s.refs # {} \/ tiler # {}
                  THEN {"shader"} ELSE {})

\* kbase_pm_transition_core_type for the shader core and the tiler.  While a
\* core is in transition `available' is not written: any value may come out.
TransitionCores(s) ==
  LET up == (s.desired \cup (InUse(s) \cap {"shader"})) \ (s.ready \cup s.trans)
      settled == (s.desired \cap (s.ready \cup up)) \ s.trans
  IN  {[s EXCEPT !.trans = @ \cup up, !.avail = settled \cup junk] :
         junk \in SUBSET (s.trans \cap Types)}

\* kbase_pm_check_transitions_nolock: the L2 first, then the cores behind it.
CheckTransitions(s) ==
  IF ~s.gpuPowered THEN {s}
  ELSE IF "l2" \in s.trans THEN {s, [s EXCEPT !.avail = @ \ {"tiler"}]}
  ELSE LET wantL2 == s.desired # {} \/ s.ready \cap Types # {}
       IN  IF wantL2 /\ "l2" \notin s.ready THEN {[s EXCEPT !.trans = @ \cup {"l2"}]}
           ELSE IF ~wantL2 /\ "l2" \in s.ready THEN {[s EXCEPT !.avail = @ \ {"tiler"}]}
           ELSE TransitionCores(s)

\* kbasep_pm_do_poweroff_cores
DropCores(s) ==
  LET t == [s EXCEPT !.desired = @ \ s.dropping, !.dropping = {}]
  IN  IF t.desired = s.desired THEN {t} ELSE CheckTransitions(t)

\* kbase_pm_update_cores_state_nolock
UpdateCores(s) ==
  LET want == Wanted(s)
      on  == want \ s.desired
      off == s.desired \ want
      later == [s EXCEPT !.dropping = @ \cup off,
                         !.dropTicks = IF off # {} /\ ShaderTicks > 0 THEN ShaderTicks ELSE @]
      changed == IF on # {} THEN CheckTransitions([later EXCEPT !.desired = want])
                 ELSE IF off # {} THEN (IF ShaderTicks > 0 THEN {later} ELSE DropCores(later))
                 ELSE {[s EXCEPT !.timerNeeded = @ /\ ~(s.refs = {} /\ Types \subseteq want)]}
      Keep(t) == LET left == t.dropping \ (t.desired \cap want)
                 IN  [t EXCEPT !.dropping = left,
                               !.dropTicks = IF t.dropping # {} /\ left = {} THEN 0 ELSE @]
  IN  IF s.policy = "none" \/ s.waitOff THEN {s}
      ELSE IF on # {} /\ off # {} /\ ShaderTicks = 0
           THEN UNION {DropCores(Keep(t)) : t \in changed}
           ELSE {Keep(t) : t \in changed}

-----------------------------------------------------------------------------
(* Core references of jobs *)

\* kbase_pm_request_cores, kbase_pm_unrequest_cores, kbase_pm_release_cores:
\* the cores are looked at again when a count leaves or reaches zero.
Recount(s, t) ==
  IF Needed(s) # Needed(t) \/ InUse(s) # InUse(t) THEN UpdateCores(t) ELSE {t}

SetCoreref(s, j, state) == Recount(s, [s EXCEPT !.coreref[j] = state])

\* Mutant of CoresReady: a power-off or a policy change under way is not seen.
CoresReady_AsksAgain(s, j) ==
  CASE "shader" \notin s.desired -> "new_affinity"
    [] ~(Needs[j] \subseteq s.avail) /\ "shader" \in s.desired -> "not_ready"
    [] OTHER -> "ready"

\* Mutant of CoresReady: cores are taken to be up as soon as they are desired.
CoresReady_DesiredIsEnough(s, j) ==
  IF "shader" \in s.desired THEN "ready"
  ELSE IF s.waitOff \/ s.policy = "none" THEN "not_ready" ELSE "new_affinity"

\* kbase_pm_register_inuse_cores
CoresReady(s, j) ==
  CASE "shader" \notin s.desired -> IF s.waitOff \/ s.policy = "none" THEN "not_ready"
                                    ELSE "new_affinity"
    [] ~(Needs[j] \subseteq s.avail) /\ "shader" \in s.desired -> "not_ready"
    [] OTHER -> "ready"

Register(s, j) ==
  IF CoresReady(s, j) = "ready" THEN [s EXCEPT !.coreref[j] = "ready"] ELSE s

Request(s, j) == IF s.coreref[j] = "none" THEN SetCoreref(s, j, "waiting") ELSE {s}

\* kbasep_js_job_check_ref_cores.  A new affinity means giving the request
\* back and starting again; the affinity chosen is the same, so if that did
\* not change what is desired the loop has no end.
CheckRefCores(s, j) ==
  UNION {IF CoresReady(t, j) # "new_affinity" THEN {Register(t, j)}
         ELSE {IF CoresReady(u, j) # "new_affinity" THEN Register(u, j)
               ELSE [u EXCEPT !.spins = TRUE] :
                 u \in UNION {Request(v, j) : v \in SetCoreref(t, j, "none")}} :
         t \in Request(s, j)}

\* kbase_backend_slot_update: the atom of each slot in turn; one whose cores
\* are ready goes on the hardware.
Advance(s, j) ==
  IF s.at[j] # "slot" THEN {s}
  ELSE {IF t.coreref[j] = "ready" THEN [t EXCEPT !.at[j] = "hw"] ELSE t :
          t \in CheckRefCores(s, j)}

SlotUpdate(s) ==
  LET upTo[n \in 0..NumJobs] ==
        IF n = 0 THEN {s} ELSE UNION {Advance(t, n) : t \in upTo[n - 1]}
  IN  upTo[NumJobs]

-----------------------------------------------------------------------------
(* Turning the GPU on and off, under pm.lock *)

CancelDeferredPoweroff(s) ==
  [s EXCEPT !.timerNeeded = FALSE, !.timerRunning = FALSE, !.gpuTicksLeft = 0,
            !.dropping = {}, !.dropTicks = 0]

\* kbase_pm_do_poweroff; it queues the worker if it starts the power-off
DoPoweroff(s) ==
  IF s.waitOff THEN s
  ELSE [s EXCEPT !.desired = {}, !.avail = {}, !.waitOff = TRUE]

\* Mutant of UpdateActive: a power-off under way is not told.
UpdateActive_NotRequired(s) ==
  LET cancelled == [s EXCEPT !.gpuTicksLeft = 0]
      starts == ~s.timerRunning /\ ~s.gpuPowered /\ GpuTicks + ShaderTicks > 0
      timed == [cancelled EXCEPT !.timerNeeded = @ \/ starts, !.timerRunning = @ \/ starts]
      idle == [s EXCEPT !.dropping = {}, !.dropTicks = IF s.dropping # {} THEN 0 ELSE @]
  IN  IF CoreActive(s)
      THEN IF s.gpuTicksLeft > 0 /\ ~s.offPending THEN [st |-> cancelled, step |-> "done"]
           ELSE [st |-> timed, step |-> "clock_on"]
      ELSE IF ~s.gpuPowered THEN [st |-> idle, step |-> "done"]
           ELSE IF GpuTicks = 0 THEN [st |-> idle, step |-> "power_off"]
           ELSE [st |-> [idle EXCEPT !.gpuTicksLeft = GpuTicks, !.timerNeeded = TRUE,
                                     !.timerRunning = TRUE], step |-> "done"]

\* Mutant of UpdateActive: the timer is taken to be running.
UpdateActive_NoTimer(s) ==
  LET cancelled == [s EXCEPT !.gpuTicksLeft = 0]
      starts == ~s.timerRunning /\ ~s.gpuPowered /\ GpuTicks + ShaderTicks > 0
      timed == [cancelled EXCEPT !.timerNeeded = @ \/ starts, !.timerRunning = @ \/ starts]
      idle == [s EXCEPT !.dropping = {}, !.dropTicks = IF s.dropping # {} THEN 0 ELSE @]
  IN  IF CoreActive(s)
      THEN IF s.gpuTicksLeft > 0 /\ ~s.offPending THEN [st |-> cancelled, step |-> "done"]
           ELSE IF s.waitOff THEN [st |-> [timed EXCEPT !.onRequired = TRUE], step |-> "done"]
           ELSE [st |-> timed, step |-> "clock_on"]
      ELSE IF ~s.gpuPowered THEN [st |-> idle, step |-> "done"]
           ELSE IF GpuTicks = 0 THEN [st |-> idle, step |-> "power_off"]
           ELSE [st |-> [idle EXCEPT !.gpuTicksLeft = GpuTicks, !.timerNeeded = TRUE], step |-> "done"]

\* The part of kbase_pm_update_active under hwaccess_lock: the state after
\* it, and what is left to do once the lock is dropped.
UpdateActive(s) ==
  LET cancelled == [s EXCEPT !.gpuTicksLeft = 0]
      starts == ~s.timerRunning /\ ~s.gpuPowered /\ GpuTicks + ShaderTicks > 0
      timed == [cancelled EXCEPT !.timerNeeded = @ \/ starts, !.timerRunning = @ \/ starts]
      idle == [s EXCEPT !.dropping = {}, !.dropTicks = IF s.dropping # {} THEN 0 ELSE @]
  IN  IF CoreActive(s)
      THEN IF s.gpuTicksLeft > 0 /\ ~s.offPending THEN [st |-> cancelled, step |-> "done"]
           ELSE IF s.waitOff THEN [st |-> [timed EXCEPT !.onRequired = TRUE], step |-> "done"]
           ELSE [st |-> timed, step |-> "clock_on"]
      ELSE IF ~s.gpuPowered THEN [st |-> idle, step |-> "done"]
           ELSE IF GpuTicks = 0 THEN [st |-> idle, step |-> "power_off"]
           ELSE [st |-> [idle EXCEPT !.gpuTicksLeft = GpuTicks, !.timerNeeded = TRUE,
                                     !.timerRunning = TRUE], step |-> "done"]

\* kbase_pm_clock_on after the check that the GPU is off: power, then a reset
ClockOn(s) ==
  [s EXCEPT !.offPending = FALSE, !.gpuPowered = TRUE,
            !.avail = {}, !.ready = {}, !.trans = {}]

\* kbase_pm_clock_off, the last part
ClockOff(s) ==
  [s EXCEPT !.offPending = TRUE, !.gpuPowered = FALSE, !.ready = {}, !.trans = {}]

Locked == rest # Free
Returned(who) == rest.by # who

\* queue_mutex: held by kbase_js_sched and by a return worker
QueueFree == /\ sched = NoCtx /\ Returned(QueueHolder)
             /\ \A c \in Ctxs : worker[c].step # "idling"

\* A pm.lock section that ends with kbase_pm_update_active
RunUpdateActive(s, who) ==
  LET u == UpdateActive(s)
  IN  Becomes(u.st) /\ rest' = IF u.step = "done" THEN Free ELSE [by |-> who, step |-> u.step]

\* kbase_pm_context_active_handle_suspend after its check, and
\* kbase_pm_context_idle, by thread `who' for the reference of `ref'
GetRef(s, ref, who) ==
  LET t == [s EXCEPT !.refs = @ \cup {ref}]
  IN  ~Locked /\ IF s.refs = {} THEN RunUpdateActive(t, who)
                 ELSE Becomes(t) /\ UNCHANGED rest

PutRef(s, ref, who) ==
  LET t == [s EXCEPT !.refs = @ \ {ref}]
  IN  ~Locked /\ IF t.refs = {} THEN RunUpdateActive(t, who)
                 ELSE Becomes(t) /\ UNCHANGED rest

RestClockOn ==
  /\ rest.step \in {"clock_on", "resume_clock_on"}
  /\ IF gpuPowered
     THEN /\ Becomes([S EXCEPT !.offPending = FALSE])
          /\ powerIrq' = (powerIrq /\ ~offPending)   \* enabling the IRQs clears them
     ELSE IF rest.step = "resume_clock_on"
          THEN Becomes([S EXCEPT !.offPending = FALSE]) /\ UNCHANGED powerIrq
          ELSE Becomes(ClockOn(S)) /\ powerIrq' = FALSE
  /\ rest' = [rest EXCEPT !.step = "update_cores"]
  /\ UNCHANGED <<sched, suspending, offWork, tickWork, faults, susp, setter>>

RestUpdateCores ==
  /\ rest.step = "update_cores"
  /\ BecomesOneOf(UpdateCores(S)) /\ rest' = Free
  /\ UNCHANGED <<sched, suspending, offWork, tickWork, powerIrq, faults, susp, setter>>

RestPowerOff ==
  /\ rest.step = "power_off"
  /\ Becomes(DoPoweroff(S)) /\ rest' = Free
  /\ offWork' = IF waitOff THEN offWork ELSE "queued"
  /\ UNCHANGED <<sched, suspending, tickWork, powerIrq, faults, susp, setter>>

other == <<suspending, offWork, tickWork, powerIrq, faults, susp, setter>>

-----------------------------------------------------------------------------
(* The scheduler, atoms and their workers *)

Pulled(s, c) == {j \in Jobs : CtxOf[j] = c /\ s.at[j] # "idle"}

\* kbasep_js_suspend clears submit_allowed until the contexts are rescheduled.
Submitting == susp \notin {"waiting", "powering_off", "down"}

\* kbase_js_sched takes a context off its list, under queue_mutex and
\* schedule_sem, and makes it active if it is not
Activate(c) ==
  /\ QueueFree /\ Submitting
  /\ sched' = [ctx |-> c, fresh |-> Context(c) \notin refs]
  /\ IF Context(c) \in refs THEN UNCHANGED <<hwVars, rest>>
     ELSE ~suspending /\ GetRef(S, Context(c), QueueHolder)
  /\ UNCHANGED other

\* ... pulls an atom ...
Pull(j) ==
  /\ sched # NoCtx /\ sched.ctx = CtxOf[j] /\ Returned(QueueHolder) /\ at[j] = "idle"
  /\ Submitting
  /\ sched' = NoCtx
  /\ BecomesOneOf(SlotUpdate([S EXCEPT !.at[j] = "slot"]))
  /\ UNCHANGED <<other, rest>>

\* Mutant of NothingPulled: the reference is not given back.
NothingPulled_KeepsRef ==
  /\ sched # NoCtx /\ Returned(QueueHolder)
  /\ sched' = NoCtx
  /\ UNCHANGED <<hwVars, rest>>
  /\ UNCHANGED other

\* ... or none, and then takes back what it made active
NothingPulled ==
  /\ sched # NoCtx /\ Returned(QueueHolder)
  /\ sched' = NoCtx
  /\ IF sched.fresh THEN PutRef(S, Context(sched.ctx), QueueHolder)
     ELSE UNCHANGED <<hwVars, rest>>
  /\ UNCHANGED other

IrqsOn == gpuPowered /\ ~offPending

\* The job interrupt: the atom completed, or was soft-stopped and goes back
JobIrq(j) ==
  /\ at[j] = "hw" /\ IrqsOn /\ Needs[j] \subseteq ready
  /\ \E end \in {"done"} \cup (IF Returns THEN {"return"} ELSE {}) :
       BecomesOneOf(SlotUpdate([S EXCEPT !.at[j] = end]))
  /\ UNCHANGED <<other, rest, sched>>

\* An atom not yet on the hardware is taken out of its slot
Evict(j) ==
  /\ Returns /\ at[j] = "slot"
  /\ Becomes([S EXCEPT !.at[j] = "return"])
  /\ UNCHANGED <<other, rest, sched>>

\* The worker has taken over the core references of atom j.
Finished(j, next) ==
  [S EXCEPT !.at[j] = "idle", !.coreref[j] = "none",
            !.worker[CtxOf[j]] = [job |-> j, held |-> coreref[j], step |-> next]]

WorkerFree(c) == worker[c] = NoWork /\ Returned(Worker(c))

\* kbase_jd_done_worker with kbase_js_complete_atom_wq: the last atom makes
\* its context inactive, and the worker has the reference to drop.
DoneStart(j) ==
  LET c == CtxOf[j]
      t == Finished(j, "release")
  IN  /\ at[j] = "done" /\ WorkerFree(c) /\ QueueFree
      /\ Becomes(IF Pulled(t, c) = {} /\ Context(c) \in refs
                 THEN [t EXCEPT !.refs = (@ \ {Context(c)}) \cup {Worker(c)}] ELSE t)
      /\ UNCHANGED <<other, rest, sched>>

\* js_return_worker: the last atom drops the reference at once.
ReturnStart(j) ==
  LET c == CtxOf[j]
      t == Finished(j, "idling")
  IN  /\ at[j] = "return" /\ WorkerFree(c) /\ QueueFree
      /\ IF Pulled(t, c) = {} THEN PutRef(t, Context(c), Worker(c))
         ELSE Becomes(t) /\ UNCHANGED rest
      /\ UNCHANGED <<other, sched>>

ReturnUnlock(c) ==
  /\ worker[c].step = "idling" /\ Returned(Worker(c))
  /\ Becomes([S EXCEPT !.worker[c].step = "release"])
  /\ UNCHANGED <<other, rest, sched>>

\* kbase_backend_complete_wq_post_sched: the cores are given back, ...
PostRelease(c) ==
  /\ worker[c].step = "release"
  /\ BecomesOneOf(Recount(S, [S EXCEPT !.worker[c].held = "none", !.worker[c].step = "check"]))
  /\ UNCHANGED <<other, rest, sched>>

\* ... then active_count is read without a lock, ...
PostCheck(c) ==
  /\ worker[c].step = "check"
  /\ Becomes([S EXCEPT !.worker[c].step = IF refs = {} THEN "update" ELSE "drop"])
  /\ UNCHANGED <<other, rest, sched>>

\* ... and an update made if it was zero.
PostUpdate(c) ==
  /\ worker[c].step = "update" /\ ~Locked
  /\ RunUpdateActive([S EXCEPT !.worker[c].step = "drop"], Worker(c))
  /\ UNCHANGED <<other, sched>>

\* The end of kbase_jd_done_worker
WorkerEnd(c) ==
  /\ worker[c].step = "drop" /\ Returned(Worker(c))
  /\ LET t == [S EXCEPT !.worker[c] = NoWork]
     IN  IF Worker(c) \in refs THEN PutRef(t, Worker(c), Worker(c))
         ELSE Becomes(t) /\ UNCHANGED rest
  /\ UNCHANGED <<other, sched>>

-----------------------------------------------------------------------------
(* Timers and workers *)

\* Mutant of TimerTick: counts without anything to drop.
TimerTick_AlwaysCounts ==
  /\ timerRunning
  /\ LET counted == [S EXCEPT !.dropTicks = @ - 1]
         dropped == IF dropping # {} /\ counted.dropTicks = 0 THEN DropCores(counted) ELSE {counted}
     IN  BecomesOneOf({[t EXCEPT !.timerRunning = t.timerNeeded] : t \in dropped})
  /\ tickWork' = (tickWork \/ gpuTicksLeft > 0)
  /\ UNCHANGED <<sched, suspending, rest, offWork, powerIrq, faults, susp, setter>>

\* kbasep_pm_do_gpu_poweroff_callback
TimerTick ==
  /\ timerRunning
  /\ LET counted == [S EXCEPT !.dropTicks = IF dropping = {} THEN @ ELSE @ - 1]
         dropped == IF dropping # {} /\ counted.dropTicks = 0 THEN DropCores(counted) ELSE {counted}
     IN  BecomesOneOf({[t EXCEPT !.timerRunning = t.timerNeeded] : t \in dropped})
  /\ tickWork' = (tickWork \/ gpuTicksLeft > 0)
  /\ UNCHANGED <<sched, suspending, rest, offWork, powerIrq, faults, susp, setter>>

\* kbasep_pm_do_gpu_poweroff_wq
TickWork ==
  /\ tickWork /\ ~Locked
  /\ tickWork' = FALSE
  /\ LET counted == [S EXCEPT !.gpuTicksLeft = IF @ = 0 THEN 0 ELSE @ - 1]
         expired == gpuTicksLeft = 1 /\ ~CoreActive(S)
     IN  /\ Becomes(IF expired
                    THEN DoPoweroff([counted EXCEPT !.timerNeeded = FALSE,
                                                    !.timerRunning = FALSE])
                    ELSE counted)
         /\ offWork' = IF expired /\ ~waitOff THEN "queued" ELSE offWork
  /\ UNCHANGED <<sched, suspending, rest, powerIrq, faults, susp, setter>>

\* Mutant of EndPoweroff: the slots are not looked at.
EndPoweroff_NoUpdate(s) ==
  LET t == [s EXCEPT !.waitOff = FALSE, !.onRequired = FALSE]
  IN  IF s.onRequired THEN UpdateCores(t) ELSE {t}

\* The end of kbase_pm_gpu_poweroff_wait_wq, under both locks
EndPoweroff(s) ==
  LET t == [s EXCEPT !.waitOff = FALSE, !.onRequired = FALSE]
  IN  IF s.onRequired THEN UNION {SlotUpdate(u) : u \in UpdateCores(t)} ELSE {t}

\* kbase_pm_gpu_poweroff_wait_wq up to the point where pending faults make it
\* drop the locks.  While the wait is in progress nothing is desired, so what
\* hwaccess_lock lets in between turning the clock off and EndPoweroff does
\* nothing, and both are one step.
PoweroffWait ==
  /\ offWork = "queued" /\ ~Locked
  /\ IF onRequired
     THEN BecomesOneOf(EndPoweroff(S)) /\ offWork' = "idle" /\ UNCHANGED powerIrq
     ELSE /\ powerIrq' = FALSE                  \* the IRQs are masked and cleared
          /\ IF faults /\ gpuPowered
             THEN Becomes([S EXCEPT !.offPending = TRUE]) /\ offWork' = "faults"
             ELSE BecomesOneOf(EndPoweroff(ClockOff(S))) /\ offWork' = "idle"
  /\ UNCHANGED <<sched, suspending, rest, tickWork, faults, susp, setter>>

\* The rest of it, once kbase_flush_mmu_wqs has returned
PoweroffFlushed ==
  /\ offWork = "faults" /\ ~faults /\ ~Locked
  /\ BecomesOneOf(EndPoweroff(IF onRequired THEN [S EXCEPT !.offPending = FALSE]
                              ELSE ClockOff(S)))
  /\ powerIrq' = FALSE
  /\ offWork' = "idle"
  /\ UNCHANGED <<sched, suspending, rest, tickWork, faults, susp, setter>>

-----------------------------------------------------------------------------
(* The hardware *)

CorePowered(u) ==
  /\ u \in trans
  /\ ready' = ready \cup {u} /\ trans' = trans \ {u} /\ powerIrq' = IrqsOn
  /\ UNCHANGED <<refs, gpuPowered, offPending, waitOff, onRequired,
                 gpuTicksLeft, timerNeeded, timerRunning, policy, desired, avail,
                 dropping, dropTicks, at, coreref, worker, spins, sched, suspending, rest, offWork,
                 tickWork, faults, susp, setter>>

\* kbase_pm_power_changed
PowerIrq ==
  /\ powerIrq /\ IrqsOn
  /\ powerIrq' = FALSE
  /\ BecomesOneOf(UNION {IF t.desired \subseteq t.avail THEN SlotUpdate(t) ELSE {t} :
                           t \in CheckTransitions(S)})
  /\ UNCHANGED <<sched, suspending, rest, offWork, tickWork, faults, susp, setter>>

\* A page fault of a running job and the end of its worker
Fault ==
  /\ Faults /\ ~faults /\ IrqsOn /\ \E j \in Jobs : at[j] = "hw"
  /\ faults' = TRUE
  /\ UNCHANGED <<hwVars, sched, suspending, rest, offWork, tickWork, powerIrq, susp, setter>>

FaultHandled ==
  /\ faults /\ faults' = FALSE
  /\ UNCHANGED <<hwVars, sched, suspending, rest, offWork, tickWork, powerIrq, susp, setter>>

-----------------------------------------------------------------------------
(* Suspend, resume and policy changes *)

\* kbase_pm_suspend: new references are refused, then kbasep_js_suspend stops
\* submission.  User space is frozen, so no system call is under way.
Suspend ==
  /\ Suspends /\ susp = "up" /\ setter = "idle" /\ ~Locked
  /\ suspending' = TRUE /\ susp' = "stopping"
  /\ UNCHANGED <<hwVars, sched, rest, offWork, tickWork, powerIrq, faults, setter>>

JsSuspend ==
  /\ susp = "stopping" /\ susp' = "waiting"
  /\ UNCHANGED <<hwVars, sched, suspending, rest, offWork, tickWork, powerIrq, faults, setter>>

\* kbase_hwaccess_pm_suspend, after active_count was seen to be zero
SuspendPoweroff ==
  /\ susp = "waiting" /\ refs = {} /\ ~Locked
  /\ Becomes(DoPoweroff(CancelDeferredPoweroff(S)))
  /\ offWork' = IF waitOff THEN offWork ELSE "queued"
  /\ susp' = "powering_off"
  /\ UNCHANGED <<sched, suspending, rest, tickWork, powerIrq, faults, setter>>

\* kbase_pm_wait_for_poweroff_complete
SuspendDone ==
  /\ susp = "powering_off" /\ ~waitOff
  /\ susp' = "down"
  /\ UNCHANGED <<hwVars, sched, suspending, rest, offWork, tickWork, powerIrq, faults, setter>>

\* kbase_hwaccess_pm_resume
Resume ==
  /\ susp = "down" /\ ~Locked
  /\ suspending' = FALSE /\ susp' = "resuming"
  /\ rest' = [by |-> Suspender, step |-> "resume_clock_on"]
  /\ UNCHANGED <<hwVars, sched, offWork, tickWork, powerIrq, faults, setter>>

\* kbase_pm_resume, the references around kbasep_js_resume
ResumeActive ==
  /\ susp = "resuming" /\ susp' = "resumed"
  /\ GetRef(S, Suspender, Suspender)
  /\ UNCHANGED <<sched, suspending, offWork, tickWork, powerIrq, faults, setter>>

ResumeIdle ==
  /\ susp = "resumed" /\ susp' = "up"
  /\ PutRef(S, Suspender, Suspender)
  /\ UNCHANGED <<sched, suspending, offWork, tickWork, powerIrq, faults, setter>>

\* kbase_pm_set_policy: the reference, the time without a policy, the end
SetPolicyActive ==
  /\ PolicyChanges /\ setter = "idle" /\ ~suspending /\ setter' = "active"
  /\ GetRef(S, PolicySetter, PolicySetter)
  /\ UNCHANGED <<sched, suspending, offWork, tickWork, powerIrq, faults, susp>>

SetPolicyRemove ==
  /\ setter = "active" /\ ~Locked
  /\ Becomes([S EXCEPT !.policy = "none"])
  /\ rest' = [by |-> PolicySetter, step |-> "no_policy"]
  /\ setter' = IF policy = "always_on" THEN "coarse_demand" ELSE "always_on"
  /\ UNCHANGED <<sched, suspending, offWork, tickWork, powerIrq, faults, susp>>

\* kbase_pm_update_active and kbase_pm_update_cores_state follow in the same
\* section; the first ends in the second unless it leaves early.
SetPolicyInstall ==
  /\ setter \in Policies /\ rest = [by |-> PolicySetter, step |-> "no_policy"]
  /\ LET u == UpdateActive([S EXCEPT !.policy = setter])
     IN  /\ Becomes(u.st)
         /\ rest' = [by |-> PolicySetter,
                     step |-> IF u.step = "done" THEN "update_cores" ELSE u.step]
  /\ setter' = "installed"
  /\ UNCHANGED <<sched, suspending, offWork, tickWork, powerIrq, faults, susp>>

SetPolicyIdle ==
  /\ setter = "installed" /\ setter' = "idle"
  /\ PutRef(S, PolicySetter, PolicySetter)
  /\ UNCHANGED <<sched, suspending, offWork, tickWork, powerIrq, faults, susp>>

\* One disjunct per thread, work item, interrupt or piece of hardware
SchedNext == NothingPulled \/ \E j \in Jobs : Pull(j)
WorkerNext(c) ==
  \/ \E j \in Jobs : CtxOf[j] = c /\ (DoneStart(j) \/ ReturnStart(j))
  \/ ReturnUnlock(c) \/ PostRelease(c) \/ PostCheck(c) \/ PostUpdate(c) \/ WorkerEnd(c)
LockNext == RestClockOn \/ RestUpdateCores \/ RestPowerOff
PoweroffNext == PoweroffWait \/ PoweroffFlushed
CoresNext == \E u \in Types \cup {"l2"} : CorePowered(u)
SuspendNext ==
  JsSuspend \/ SuspendPoweroff \/ SuspendDone \/ ResumeActive \/ ResumeIdle
SetPolicyNext == SetPolicyRemove \/ SetPolicyInstall \/ SetPolicyIdle

Next ==
  \/ \E c \in Ctxs : Activate(c) \/ WorkerNext(c)
  \/ \E j \in Jobs : JobIrq(j) \/ Evict(j)
  \/ SchedNext \/ LockNext \/ TimerTick \/ TickWork \/ PoweroffNext
  \/ CoresNext \/ PowerIrq \/ Fault \/ FaultHandled
  \/ Suspend \/ Resume \/ SuspendNext \/ SetPolicyActive \/ SetPolicyNext

Spec == Init /\ [][Next]_vars

\* Every thread that is runnable runs, the timer expires and the hardware
\* finishes what it does; nobody has to submit work, stop atoms, suspend,
\* resume or change the policy.
Fairness ==
  /\ WF_vars(SchedNext) /\ \A c \in Ctxs : WF_vars(WorkerNext(c))
  /\ WF_vars(LockNext) /\ WF_vars(TimerTick) /\ WF_vars(TickWork) /\ WF_vars(PoweroffNext)
  /\ \A j \in Jobs : WF_vars(JobIrq(j))
  /\ WF_vars(CoresNext) /\ WF_vars(PowerIrq) /\ WF_vars(FaultHandled)
  /\ WF_vars(SuspendNext) /\ WF_vars(SetPolicyNext)

FairSpec == Spec /\ Fairness

-----------------------------------------------------------------------------
(* Properties *)

\* Every variable keeps to its type; in particular the tick counts never go
\* below zero (the assertion in kbasep_pm_do_gpu_poweroff_callback).
TypeOK ==
  /\ refs \subseteq Holders
  /\ {suspending, gpuPowered, offPending, waitOff, onRequired,
      timerNeeded, timerRunning, spins, tickWork, powerIrq, faults} \subseteq BOOLEAN
  /\ gpuTicksLeft \in 0..GpuTicks /\ dropTicks \in 0..ShaderTicks
  /\ policy \in Policies \cup {"none"}
  /\ desired \subseteq Types /\ avail \subseteq Types /\ dropping \subseteq Types
  /\ ready \subseteq Types \cup {"l2"} /\ trans \subseteq Types \cup {"l2"}
  /\ at \in [Jobs -> {"idle", "slot", "hw", "done", "return"}]
  /\ worker \in [Ctxs -> [job : Jobs, held : {"none", "waiting", "ready"},
                          step : {"idle", "idling", "release", "check", "update", "drop"}]]
  /\ sched \in [ctx : Ctxs, fresh : BOOLEAN] \cup {NoCtx}
  /\ coreref \in [Jobs -> {"none", "waiting", "ready"}]
  /\ rest.by \in Holders \cup {Nobody}
  /\ offWork \in {"idle", "queued", "faults"}
  /\ susp \in {"up", "stopping", "waiting", "powering_off", "down", "resuming", "resumed"}
  /\ setter \in {"idle", "active", "installed"} \cup Policies

\* A job on the hardware keeps the GPU, and its cores are on or powering on.
JobsHavePower ==
  \A j \in Jobs : at[j] = "hw" => gpuPowered /\ Needs[j] \subseteq ready \cup trans

\* Once kbase_pm_context_active has returned, the GPU is on and stays on: a
\* power-off under way knows that it has to be undone.
ActiveIsPowered ==
  refs # {} /\ ~Locked => gpuPowered /\ (waitOff => onRequired)

\* The retry loop of kbasep_js_job_check_ref_cores ends.
NeverSpins == ~spins

\* A deferred power-off has a timer to carry it out.
PoweroffIsTimed == gpuTicksLeft > 0 => timerRunning \/ tickWork

\* An atom in a slot gets its cores.
AtomsGetCores == \A j \in Jobs : at[j] = "slot" ~> at[j] # "slot"

\* A suspend comes to its end.
SuspendReturns == susp = "waiting" ~> susp = "down"

\* No job runs without power under it, and a context that is active has the GPU
\* powered.  (kbase_pm_request_cores, kbase_pm_context_active)
PowerFollowsWork == TypeOK /\ JobsHavePower /\ ActiveIsPowered

\* The GPU is powered off by the timer alone, and stays powered until then.
\* (kbase_pm_update_active, kbasep_pm_do_gpu_poweroff_callback)
IdlePoweroff == ActiveIsPowered /\ PoweroffIsTimed

\* An atom that waits for its cores gets them, and a suspend returns.
\* (kbase_pm_update_cores_state, kbase_pm_suspend)
PowerProgress == AtomsGetCores /\ SuspendReturns
=============================================================================
