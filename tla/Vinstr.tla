------------------------------- MODULE Vinstr -------------------------------
(***************************************************************************)
(* Virtual instrumentation (mali_kbase_vinstr.c) and the hardware counter  *)
(* backend below it (backend/gpu/mali_kbase_instr_backend.c).              *)
(*                                                                         *)
(* Clients attach to one virtual instrumentation context, which samples    *)
(* the hardware counters for all of them.  Every call, the service thread  *)
(* and the two workers hold vinstr_ctx->lock from start to end, so at most *)
(* one of them is under way: it is `holder', a program counter with a      *)
(* return label.  What happens under state_lock, hwcnt.lock or in an       *)
(* interrupt interleaves with its steps: the users of the suspend protocol *)
(* (a GPU reset, a system suspend, an entry into protected mode), the IPA  *)
(* model's power callbacks, the sample and cache-clean interrupts, the     *)
(* page-fault worker and the readers of the rings.                         *)
(***************************************************************************)
EXTENDS Integers, FiniteSets

CONSTANTS
    Readers,          \* clients with buffers: a hwcnt reader descriptor each
    UseIpa,           \* the IPA model may be a client, suspended with the GPU idle
    BufferCount,      \* buffers of a reader's ring
    Modulus,          \* 2^32 of the ring's free-running indices, scaled down
    MaxChanges,       \* bound: attach, detach and power changes from outside
    MaxFaults,        \* bound: faults on the dump buffer
    ProtectedMayHang, \* bound: a job may hang the GPU in protected mode
    MaxCount          \* bound: no such hang while suspend_cnt is at it

ASSUME ClientsAssumption == UseIpa \in BOOLEAN /\ "ipa" \notin Readers
ASSUME RingAssumption ==
    /\ BufferCount \in Nat \ {0}
    /\ \E k \in 2 .. Modulus : Modulus = k * BufferCount
ASSUME BoundsAssumption ==
    MaxChanges \in Nat /\ MaxFaults \in Nat /\ MaxCount \in Nat \ {0}

VARIABLES
    v,         \* vinstr_ctx under state_lock: state, suspend_cnt, need_*, works
    kctx,      \* vinstr_ctx->kctx exists (and with it the service thread)
    present,   \* vinstr_ctx->clients_present
    bitmap,    \* vinstr_ctx->bitmap: the clients whose counters are in it
    reprogram, \* vinstr_ctx->reprogram
    cl,        \* the clients: their list, pending flag and whether they are due
    ring,      \* the readers' write_idx, read_idx and meta_idx
    holder,    \* who holds vinstr_ctx->lock, and where it is
    asleep,    \* sleepers in suspend_waitq that have not been woken
    users,     \* users of the suspend protocol and where they are
    others,    \* the power manager's other active contexts (0 or 1)
    pmRefs,    \* power and privileged-context references of vinstr
    b,         \* hwcnt.backend: state, triggered
    programmed,\* clients whose counters the hardware has been set up for
    hw,        \* what the GPU has been asked: sample, clean; its clean interrupt
    fault,     \* the page-fault worker has seen a dump under way
    faults,    \* bounded by MaxFaults
    changes    \* bounded by MaxChanges

ctxVars == <<kctx, present, bitmap, reprogram>>
hwVars == <<b, programmed, hw, fault, faults>>
vars == <<v, ctxVars, cl, ring, holder, asleep, users, others, pmRefs,
          hwVars, changes>>

Clients == Readers \cup IF UseIpa THEN {"ipa"} ELSE {}
Sleepers == {"reset", "pm"} \cup Readers
Nobody == [who |-> "none", op |-> "none", pc |-> "none", ret |-> "none",
           cli |-> "none", err |-> FALSE]

-----------------------------------------------------------------------------
(* The state machine under state_lock *)

Active(clients) == {c \in Clients : clients[c].list \in {"idle", "waiting", "expired"}}
Attached == {c \in Clients : cl[c].list # "none"}

\* Mutant of UpdateSuspend: a client that becomes active resumes vinstr whatever the count
UpdateSuspend_AnyCount(s, n) ==
    CASE s.state = "SUSPENDED" /\ n > 0 ->
            [s EXCEPT !.state = "RESUMING", !.works = @ \cup {"resume"}]
      [] s.state = "SUSPENDING" /\ n > 0 -> [s EXCEPT !.needResume = TRUE]
      [] s.state = "IDLE" /\ n = 0 ->
            [s EXCEPT !.state = "SUSPENDING", !.works = @ \cup {"suspend"}]
      [] s.state = "DUMPING" /\ n = 0 -> [s EXCEPT !.state = "SUSPENDING"]
      [] s.state = "RESUMING" /\ n = 0 -> [s EXCEPT !.needSuspend = TRUE]
      [] OTHER -> s

(* kbase_vinstr_update_suspend, with n clients that are not suspended *)
UpdateSuspend(s, n) ==
    CASE s.state = "SUSPENDED" /\ n > 0 /\ s.cnt = 0 ->
            [s EXCEPT !.state = "RESUMING", !.works = @ \cup {"resume"}]
      [] s.state = "SUSPENDING" /\ n > 0 -> [s EXCEPT !.needResume = TRUE]
      [] s.state = "IDLE" /\ n = 0 ->
            [s EXCEPT !.state = "SUSPENDING", !.works = @ \cup {"suspend"}]
      [] s.state = "DUMPING" /\ n = 0 -> [s EXCEPT !.state = "SUSPENDING"]
      [] s.state = "RESUMING" /\ n = 0 -> [s EXCEPT !.needSuspend = TRUE]
      [] OTHER -> s

(* kbase_vinstr_try_suspend: it has succeeded when the count has grown *)
TrySuspend(s) ==
    CASE s.state = "SUSPENDED" -> [s EXCEPT !.cnt = @ + 1]
      [] s.state = "IDLE" /\ present ->
            [s EXCEPT !.state = "SUSPENDING", !.works = @ \cup {"suspend"}]
      [] s.state = "IDLE" /\ ~present -> [s EXCEPT !.state = "SUSPENDED", !.cnt = @ + 1]
      [] s.state = "DUMPING" -> [s EXCEPT !.state = "SUSPENDING"]
      [] s.state = "RESUMING" -> [s EXCEPT !.needSuspend = TRUE]
      [] s.state = "SUSPENDING" -> s

(* kbase_vinstr_resume *)
Resume(s) ==
    IF s.state # "SUSPENDED" THEN s
    ELSE IF s.cnt > 1 THEN [s EXCEPT !.cnt = @ - 1]
    ELSE IF present
         THEN [s EXCEPT !.cnt = 0, !.state = "RESUMING", !.works = @ \cup {"resume"}]
         ELSE [s EXCEPT !.cnt = 0, !.state = "IDLE"]

(* kbase_vinstr_is_ready *)
IsReady(s) == s.state \in {"IDLE", "DUMPING"}

WakeAll == asleep' = {}

-----------------------------------------------------------------------------
(* Power callbacks of the IPA model *)

ActiveCount == others + pmRefs + (IF users["reset"] = "resetting" THEN 1 ELSE 0)
MoveIpa(list) == [cl EXCEPT !["ipa"].list = list]

(* kbase_ipa_gpu_active, kbase_vinstr_resume_client *)
GpuActive ==
    IF UseIpa /\ cl["ipa"].list = "suspended"
    THEN /\ cl' = MoveIpa("idle")
         /\ v' = UpdateSuspend(v, Cardinality(Active(cl')))
    ELSE UNCHANGED <<cl, v>>

(* kbase_ipa_gpu_idle, kbase_vinstr_suspend_client; count is the references left *)
GpuIdle(count) ==
    IF UseIpa /\ cl["ipa"].list = "idle" /\ count <= 1
    THEN /\ cl' = MoveIpa("suspended")
         /\ v' = UpdateSuspend(v, Cardinality(Active(cl')))
    ELSE UNCHANGED <<cl, v>>

(* Another context becomes active or idle *)
OtherContext ==
    /\ changes < MaxChanges
    /\ changes' = changes + 1
    /\ \/ others = 0 /\ others' = 1 /\ GpuActive
       \/ others = 1 /\ others' = 0 /\ GpuIdle(ActiveCount - 1)
    /\ UNCHANGED <<ctxVars, ring, holder, asleep, users, pmRefs, hwVars>>

-----------------------------------------------------------------------------
(* Calls: taking vinstr_ctx->lock, moving on and letting go *)

Take(who, op, cli, pc) ==
    /\ holder = Nobody
    /\ holder' = [Nobody EXCEPT !.who = who, !.op = op, !.cli = cli, !.pc = pc]
At(pc) == holder.pc = pc
Goto(pc) == holder' = [holder EXCEPT !.pc = pc]
Call(pc, ret) == holder' = [holder EXCEPT !.pc = pc, !.ret = ret, !.err = FALSE]
Return(err) == holder' = [holder EXCEPT !.pc = holder.ret, !.err = err]
Release == holder' = Nobody

Outside == <<users, others, changes>>

-----------------------------------------------------------------------------
(* enable_hwcnt and disable_hwcnt *)

(* The power reference and the privileged context come first *)
EnableRefs ==
    /\ At("enable")
    /\ pmRefs' = pmRefs + 1
    /\ GpuActive
    /\ Goto("setup")
    /\ UNCHANGED <<ctxVars, ring, asleep, Outside, hwVars>>

(* kbase_instr_hwcnt_enable_internal up to its wait for the cache clean *)
EnableSetup ==
    /\ At("setup")
    /\ b.state = "DISABLED"
    /\ b' = [state |-> "REQUEST_CLEAN", triggered |-> FALSE]
    /\ hw' = [hw EXCEPT !.cleanQueued = TRUE]
    /\ Goto("cleaning")
    /\ UNCHANGED <<v, ctxVars, cl, ring, asleep, Outside, pmRefs, programmed, fault, faults>>

(* Instrumentation is already enabled: the references are given back *)
EnableFails ==
    /\ At("setup")
    /\ b.state # "DISABLED"
    /\ pmRefs' = pmRefs - 1
    /\ GpuIdle(ActiveCount - 1)
    /\ Return(TRUE)
    /\ UNCHANGED <<ctxVars, ring, asleep, Outside, hwVars>>

(* ... and from there: the counters are configured from the bitmap *)
EnableConfigure ==
    /\ At("cleaning")
    /\ b.triggered
    /\ b' = [state |-> "IDLE", triggered |-> TRUE]
    /\ programmed' = bitmap
    /\ Return(FALSE)
    /\ UNCHANGED <<v, ctxVars, cl, ring, asleep, Outside, pmRefs, hw, fault, faults>>

(* kbase_instr_hwcnt_disable_internal: a call that finds the backend busy  *)
(* waits for `triggered' and looks again                                   *)
DisableCounters ==
    /\ At("disable")
    /\ \/ /\ b.state = "DISABLED"
          /\ Return(TRUE)
          /\ UNCHANGED <<b, programmed>>
       \/ /\ b.state = "IDLE"
          /\ b' = [state |-> "DISABLED", triggered |-> FALSE]
          /\ programmed' = {}
          /\ Goto("unref")
       \/ /\ b.state \notin {"DISABLED", "IDLE"} /\ b.triggered
          /\ UNCHANGED <<holder, b, programmed>>
    /\ UNCHANGED <<v, ctxVars, cl, ring, asleep, Outside, pmRefs, hw, fault, faults>>

(* kbasep_js_release_privileged_ctx, kbase_pm_context_idle *)
DisableRefs ==
    /\ At("unref")
    /\ pmRefs' = pmRefs - 1
    /\ GpuIdle(ActiveCount - 1)
    /\ Return(FALSE)
    /\ UNCHANGED <<ctxVars, ring, asleep, Outside, hwVars>>

-----------------------------------------------------------------------------
(* Attaching and detaching a reader *)

NewClient == [list |-> "none", pending |-> TRUE, due |-> FALSE, waits |-> FALSE]

(* kbase_vinstr_hwcnt_reader_setup: the call takes the lock and adds its counters *)
Attach(r) ==
    /\ cl[r].list = "none" /\ ~cl[r].waits
    /\ changes < MaxChanges
    /\ changes' = changes + 1
    /\ bitmap' = IF Attached = {} THEN {r} ELSE bitmap \cup {r}
    /\ reprogram' = TRUE
    /\ cl' = [cl EXCEPT ![r] = NewClient]
    /\ ring' = [ring EXCEPT ![r] = [write |-> 0, read |-> 0, meta |-> 0]]
    /\ Take(r, "attach", r, IF Attached = {} THEN "create" ELSE "join")
    /\ UNCHANGED <<v, kctx, present, asleep, users, others, pmRefs, hwVars>>

\* Mutant of CreateKctx: the counters are enabled whatever the state
CreateKctx_Enable ==
    /\ At("create")
    /\ kctx' = TRUE
    /\ present' = TRUE
    /\ Call("enable", "created")
    /\ UNCHANGED <<v, bitmap, reprogram, cl, ring, asleep, Outside, pmRefs, hwVars>>

(* kbasep_vinstr_create_kctx: the counters are enabled unless suspended *)
CreateKctx ==
    /\ At("create")
    /\ kctx' = TRUE
    /\ present' = TRUE
    /\ IF v.state = "IDLE" THEN Call("enable", "created") ELSE Call("created", "none")
    /\ UNCHANGED <<v, bitmap, reprogram, cl, ring, asleep, Outside, pmRefs, hwVars>>

(* ... a failure to enable undoes it, else the service thread starts *)
CreatedKctx ==
    /\ At("created")
    /\ IF holder.err
       THEN /\ kctx' = FALSE /\ present' = FALSE
            /\ Release
            /\ UNCHANGED <<reprogram, cl>>
       ELSE /\ reprogram' = FALSE
            /\ cl' = [cl EXCEPT ![holder.cli].pending = FALSE]
            /\ Goto("join")
            /\ UNCHANGED <<kctx, present>>
    /\ UNCHANGED <<v, bitmap, ring, asleep, Outside, pmRefs, hwVars>>

(* kbasep_vinstr_attach_client: an allocation fails, the client enters no list *)
AttachFails ==
    /\ At("join")
    /\ IF Attached = {} THEN Call("destroy", "none") ELSE Release
    /\ UNCHANGED <<v, ctxVars, cl, ring, asleep, Outside, pmRefs, hwVars>>

(* ... or it joins idle_clients and its caller waits for vinstr to be ready *)
Join ==
    /\ At("join")
    /\ cl' = [cl EXCEPT ![holder.cli].list = "idle", ![holder.cli].waits = TRUE]
    /\ v' = UpdateSuspend(v, Cardinality(Active(cl')))
    /\ Release
    /\ UNCHANGED <<ctxVars, ring, asleep, Outside, pmRefs, hwVars>>

(* kbase_vinstr_wait_for_ready *)
WaitForReady(r) ==
    /\ cl[r].waits /\ r \notin asleep
    /\ IF IsReady(v)
       THEN cl' = [cl EXCEPT ![r].waits = FALSE] /\ UNCHANGED asleep
       ELSE asleep' = asleep \cup {r} /\ UNCHANGED cl
    /\ UNCHANGED <<v, ctxVars, ring, holder, Outside, pmRefs, hwVars>>

\* Mutant of Detach: the bitmap is rebuilt without the suspended clients
Detach_ActiveOnly(r) ==
    /\ cl[r].list # "none" /\ ~cl[r].waits
    /\ changes < MaxChanges
    /\ changes' = changes + 1
    /\ cl' = [cl EXCEPT ![r] = NewClient]
    /\ reprogram' = TRUE
    /\ bitmap' = Active(cl')
    /\ v' = UpdateSuspend(v, Cardinality(Active(cl')))
    /\ IF Attached = {r} THEN Take(r, "detach", r, "destroy")
                         ELSE holder = Nobody /\ UNCHANGED holder
    /\ UNCHANGED <<kctx, present, ring, asleep, users, others, pmRefs, hwVars>>

(* kbase_vinstr_detach_client: the lists, the counts and the bitmap *)
Detach(r) ==
    /\ cl[r].list # "none" /\ ~cl[r].waits
    /\ changes < MaxChanges
    /\ changes' = changes + 1
    /\ cl' = [cl EXCEPT ![r] = NewClient]
    /\ reprogram' = TRUE
    /\ bitmap' = {c \in Clients : cl'[c].list # "none"}
    /\ v' = UpdateSuspend(v, Cardinality(Active(cl')))
    /\ IF Attached = {r} THEN Take(r, "detach", r, "destroy")
                         ELSE holder = Nobody /\ UNCHANGED holder
    /\ UNCHANGED <<kctx, present, ring, asleep, users, others, pmRefs, hwVars>>

\* Mutant of DestroyKctx: a suspend under way is taken for one that has ended
DestroyKctx_Suspending ==
    /\ At("destroy")
    /\ present' = FALSE
    /\ IF v.state \in {"SUSPENDING", "SUSPENDED", "RESUMING"}
       THEN Call("destroyed", "none") ELSE Call("disable", "destroyed")
    /\ UNCHANGED <<v, kctx, bitmap, reprogram, cl, ring, asleep, Outside,
                   pmRefs, hwVars>>

(* kbasep_vinstr_destroy_kctx *)
DestroyKctx ==
    /\ At("destroy")
    /\ present' = FALSE
    /\ IF v.state \in {"SUSPENDED", "RESUMING"} THEN Call("destroyed", "none")
                                                ELSE Call("disable", "destroyed")
    /\ UNCHANGED <<v, kctx, bitmap, reprogram, cl, ring, asleep, Outside,
                   pmRefs, hwVars>>

DestroyedKctx ==
    /\ At("destroyed")
    /\ kctx' = FALSE
    /\ Release
    /\ UNCHANGED <<v, present, bitmap, reprogram, cl, ring, asleep, Outside,
                   pmRefs, hwVars>>

-----------------------------------------------------------------------------
(* Dumping *)

(* kbase_vinstr_hwc_dump and kbase_vinstr_hwc_clear; the IPA model only     *)
(* dumps while its client is active (kbase_ipa_vinstr_dynamic_coeff)        *)
DumpCall(c, op) ==
    /\ cl[c].list # "none" /\ ~cl[c].waits
    /\ c \in Readers \/ (cl[c].list # "suspended" /\ op = "dump")
    /\ Take(c, op, c, "collect")
    /\ UNCHANGED <<v, ctxVars, cl, ring, asleep, Outside, pmRefs, hwVars>>

(* kbasep_vinstr_service_task: the first waiting client's time has come *)
ServiceWakes ==
    /\ kctx
    /\ \E c \in Clients : cl[c].list = "waiting" /\ cl[c].due
    /\ Take("service", "service", "none", "collect")
    /\ UNCHANGED <<v, ctxVars, cl, ring, asleep, Outside, pmRefs, hwVars>>

(* kbasep_vinstr_collect_and_accumulate: only an idle vinstr dumps *)
Collect ==
    /\ At("collect")
    /\ IF v.state = "IDLE"
       THEN v' = [v EXCEPT !.state = "DUMPING"] /\ Goto("request")
       ELSE UNCHANGED v /\ holder' = [holder EXCEPT !.pc = "collected", !.err = TRUE]
    /\ UNCHANGED <<ctxVars, cl, ring, asleep, Outside, pmRefs, hwVars>>

(* kbase_instr_hwcnt_request_dump *)
RequestDump ==
    /\ At("request")
    /\ IF b.state = "IDLE"
       THEN /\ b' = [state |-> "DUMPING", triggered |-> FALSE]
            /\ hw' = [hw EXCEPT !.sampling = TRUE]
            /\ Goto("sampling")
       ELSE /\ holder' = [holder EXCEPT !.pc = "dumped", !.err = TRUE]
            /\ UNCHANGED <<b, hw>>
    /\ UNCHANGED <<v, ctxVars, cl, ring, asleep, Outside, pmRefs, programmed, fault, faults>>

(* kbase_instr_hwcnt_wait_for_dump *)
WaitForDump ==
    /\ At("sampling")
    /\ b.triggered
    /\ b' = IF b.state = "FAULT" THEN [b EXCEPT !.state = "IDLE"] ELSE b
    /\ holder' = [holder EXCEPT !.pc = "dumped", !.err = b.state = "FAULT"]
    /\ UNCHANGED <<v, ctxVars, cl, ring, asleep, Outside, pmRefs, hw, programmed, fault, faults>>

(* ... the state moves on; a suspend asked for meanwhile is started *)
Dumped ==
    /\ At("dumped")
    /\ CASE v.state = "SUSPENDING" ->
              v' = [v EXCEPT !.works = @ \cup {"suspend"}] /\ UNCHANGED asleep
         [] v.state = "DUMPING" -> v' = [v EXCEPT !.state = "IDLE"] /\ WakeAll
         [] OTHER -> UNCHANGED <<v, asleep>>
    /\ Goto("collected")
    /\ UNCHANGED <<ctxVars, cl, ring, Outside, pmRefs, hwVars>>

(* The call goes on with its client, the service with all that are due *)
Collected ==
    /\ At("collected")
    /\ CASE holder.op = "service" ->
              /\ cl' = [c \in Clients |->
                           IF cl[c].list = "waiting" /\ cl[c].due
                           THEN [cl[c] EXCEPT !.list = "expired"] ELSE cl[c]]
              /\ Goto("serve")
         [] holder.op = "dump" ->
              UNCHANGED cl /\ IF holder.err THEN Release ELSE Goto("fill")
         [] holder.op = "clear" ->     \* kbase_instr_hwcnt_clear wants it idle
              UNCHANGED cl /\ IF holder.err \/ b.state # "IDLE" THEN Release
                                                               ELSE Goto("reprogram")
    /\ UNCHANGED <<v, ctxVars, ring, asleep, Outside, pmRefs, hwVars>>

Serve(c) ==
    /\ At("serve")
    /\ cl[c].list = "expired"
    /\ holder' = [holder EXCEPT !.cli = c, !.pc = IF holder.err THEN "served" ELSE "fill"]
    /\ UNCHANGED <<v, ctxVars, cl, ring, asleep, Outside, pmRefs, hwVars>>

ServedAll ==
    /\ At("serve")
    /\ \A c \in Clients : cl[c].list # "expired"
    /\ Goto("reprogram")
    /\ UNCHANGED <<v, ctxVars, cl, ring, asleep, Outside, pmRefs, hwVars>>

(* The client's next time is set; it waits again *)
Served ==
    /\ At("served")
    /\ cl' = [cl EXCEPT ![holder.cli].list = "waiting", ![holder.cli].due = FALSE]
    /\ Goto("serve")
    /\ UNCHANGED <<v, ctxVars, ring, asleep, Outside, pmRefs, hwVars>>

(* kbasep_vinstr_fill_dump_buffer, into the buffer at write_idx; a client   *)
(* in the kernel has one buffer of its own                                  *)
\* Mutant of RingFull: one buffer too many
RingFull_OffByOne(q) == (q.write - q.read) % Modulus = BufferCount + 1
RingFull(q) == (q.write - q.read) % Modulus = BufferCount
AfterUpdate(err) ==
    IF holder.op = "service" THEN Goto("served")
    ELSE IF err THEN Release ELSE Goto("reprogram")
Fill ==
    /\ At("fill")
    /\ IF holder.cli \in Readers /\ RingFull(ring[holder.cli]) THEN AfterUpdate(TRUE)
                                                               ELSE Goto("notify")
    /\ UNCHANGED <<v, ctxVars, cl, ring, asleep, Outside, pmRefs, hwVars>>

(* kbasep_vinstr_update_client: the buffer is handed to the reader *)
Notify ==
    /\ At("notify")
    /\ IF holder.cli \in Readers
       THEN ring' = [ring EXCEPT ![holder.cli].write = (@ + 1) % Modulus]
       ELSE UNCHANGED ring
    /\ AfterUpdate(cl[holder.cli].list = "suspended")
    /\ UNCHANGED <<v, ctxVars, cl, asleep, Outside, pmRefs, hwVars>>

\* Mutant of Reprogram: the counters are enabled again without being disabled
Reprogram_NoDisable ==
    /\ At("reprogram")
    /\ IF v.state = "IDLE" /\ reprogram THEN Call("enable", "reprogrammed") ELSE Release
    /\ UNCHANGED <<v, ctxVars, cl, ring, asleep, Outside, pmRefs, hwVars>>

(* kbasep_vinstr_reprogram *)
Reprogram ==
    /\ At("reprogram")
    /\ IF v.state = "IDLE" /\ reprogram THEN Call("disable", "reenable") ELSE Release
    /\ UNCHANGED <<v, ctxVars, cl, ring, asleep, Outside, pmRefs, hwVars>>

Reenable ==
    /\ At("reenable")
    /\ Call("enable", "reprogrammed")
    /\ UNCHANGED <<v, ctxVars, cl, ring, asleep, Outside, pmRefs, hwVars>>

Reprogrammed ==
    /\ At("reprogrammed")
    /\ IF holder.err THEN UNCHANGED <<reprogram, cl>>
       ELSE /\ reprogram' = FALSE
            /\ cl' = [c \in Clients |->
                         IF cl[c].list \in {"idle", "waiting"}
                         THEN [cl[c] EXCEPT !.pending = FALSE] ELSE cl[c]]
    /\ Release
    /\ UNCHANGED <<v, kctx, present, bitmap, ring, asleep, Outside, pmRefs, hwVars>>

-----------------------------------------------------------------------------
(* The reader's other calls *)

(* kbasep_vinstr_hwcnt_reader_ioctl_set_interval *)
SetInterval(r, on) ==
    /\ holder = Nobody
    /\ cl[r].list \in {"idle", "waiting"} /\ ~cl[r].waits
    /\ cl' = [cl EXCEPT ![r].list = IF on THEN "waiting" ELSE "idle", ![r].due = FALSE]
    /\ UNCHANGED <<v, ctxVars, ring, holder, asleep, Outside, pmRefs, hwVars>>

(* dump_time is reached *)
Due(r) ==
    /\ cl[r].list = "waiting" /\ ~cl[r].due
    /\ cl' = [cl EXCEPT ![r].due = TRUE]
    /\ UNCHANGED <<v, ctxVars, ring, holder, asleep, Outside, pmRefs, hwVars>>

(* kbasep_vinstr_hwcnt_reader_ioctl_get_buffer: without the lock *)
GetBuffer(r) ==
    /\ cl[r].list # "none" /\ ~cl[r].waits
    /\ ring[r].write # ring[r].meta
    /\ ring[r].read = ring[r].meta
    /\ ring' = [ring EXCEPT ![r].meta = (@ + 1) % Modulus]
    /\ UNCHANGED <<v, ctxVars, cl, holder, asleep, Outside, pmRefs, hwVars>>

(* kbasep_vinstr_hwcnt_reader_ioctl_put_buffer *)
PutBuffer(r) ==
    /\ cl[r].list # "none" /\ ~cl[r].waits
    /\ ring[r].meta # ring[r].read
    /\ ring' = [ring EXCEPT ![r].read = (@ + 1) % Modulus]
    /\ UNCHANGED <<v, ctxVars, cl, holder, asleep, Outside, pmRefs, hwVars>>

-----------------------------------------------------------------------------
(* The workers *)

(* kbasep_vinstr_suspend_worker, kbasep_vinstr_resume_worker *)
WorkerStarts(w) ==
    /\ w \in v.works
    /\ v' = [v EXCEPT !.works = @ \ {w}]
    /\ holder = Nobody
    /\ LET done == IF w = "suspend" THEN "suspended" ELSE "resumed"
       IN holder' = [Nobody EXCEPT !.who = w, !.op = w,
                        !.pc = IF ~kctx THEN done
                               ELSE IF w = "suspend" THEN "disable" ELSE "enable",
                        !.ret = done]
    /\ UNCHANGED <<ctxVars, cl, ring, asleep, Outside, pmRefs, hwVars>>

(* The new state, unless the opposite has been asked for meanwhile *)
Suspended ==
    /\ At("suspended")
    /\ IF v.needResume
       THEN v' = [v EXCEPT !.needResume = FALSE, !.state = "RESUMING",
                           !.works = @ \cup {"resume"}]
       ELSE v' = [v EXCEPT !.state = "SUSPENDED"]
    /\ WakeAll
    /\ Release
    /\ UNCHANGED <<ctxVars, cl, ring, Outside, pmRefs, hwVars>>

Resumed ==
    /\ At("resumed")
    /\ IF v.needSuspend
       THEN v' = [v EXCEPT !.needSuspend = FALSE, !.state = "SUSPENDING",
                           !.works = @ \cup {"suspend"}]
       ELSE v' = [v EXCEPT !.state = "IDLE"]
    /\ WakeAll
    /\ Release
    /\ UNCHANGED <<ctxVars, cl, ring, Outside, pmRefs, hwVars>>

-----------------------------------------------------------------------------
(* The users of the suspend protocol *)

Become(u, pc) == users' = [users EXCEPT ![u] = pc]

(* kbase_vinstr_suspend: wait_event(suspend_waitq, try_suspend succeeds) *)
SuspendTry(u) ==
    /\ users[u] = "want" /\ u \in {"reset", "pm"} /\ u \notin asleep
    /\ v' = TrySuspend(v)
    /\ IF v'.cnt > v.cnt THEN Become(u, "held") /\ UNCHANGED asleep
                         ELSE asleep' = asleep \cup {u} /\ UNCHANGED users
    /\ UNCHANGED <<ctxVars, cl, ring, holder, others, changes, pmRefs, hwVars>>

(* A protected atom comes to the head of an idle GPU *)
ProtectedAtom ==
    /\ others = 1
    /\ users["reset"] \in {"off", "finishing", "releasing"}
    /\ users["protected"] = "off"
    /\ Become("protected", "want")
    /\ UNCHANGED <<v, ctxVars, cl, ring, holder, asleep, others, changes, pmRefs, hwVars>>

(* kbase_jm_enter_protected_mode as far as vinstr: a slot update tries, and the
   next one tries again (kbasep_vinstr_kick_scheduler, after each worker) *)
SlotUpdate ==
    /\ users["protected"] = "want"
    /\ v' = TrySuspend(v)
    /\ IF v'.cnt > v.cnt THEN Become("protected", "entering") ELSE UNCHANGED users
    /\ UNCHANGED <<ctxVars, cl, ring, holder, asleep, others, changes, pmRefs, hwVars>>

(* kbase_gpu_protected_mode_enter succeeds, or fails and vinstr is resumed *)
EnterProtected ==
    /\ users["protected"] = "entering"
    /\ \/ Become("protected", "entered") /\ UNCHANGED v
       \/ Become("protected", "off") /\ v' = Resume(v)
    /\ UNCHANGED <<ctxVars, cl, ring, holder, asleep, others, changes, pmRefs, hwVars>>

(* kbase_gpu_release_atom: the atom is removed; only one that has suspended
   vinstr (ENTER_PROTECTED_IDLE_L2) resumes it *)
ProtectedRemoved ==
    /\ users["protected"] \in {"want", "entering"}
    /\ Become("protected", "off")
    /\ v' = IF users["protected"] = "entering" THEN Resume(v) ELSE v
    /\ UNCHANGED <<ctxVars, cl, ring, holder, asleep, others, changes, pmRefs, hwVars>>

(* kbase_jm_exit_protected_mode: the way out is a silent reset *)
ExitProtected ==
    /\ users["protected"] = "entered" /\ users["reset"] = "off"
    /\ users' = [users EXCEPT !["protected"] = "leaving", !["reset"] = "want"]
    /\ UNCHANGED <<v, ctxVars, cl, ring, holder, asleep, others, changes, pmRefs, hwVars>>

(* A job that will not stop has the GPU reset *)
GpuHangs ==
    /\ others = 1 /\ users["reset"] = "off"
    /\ \/ users["protected"] = "off"
       \/ users["protected"] = "entered" /\ ProtectedMayHang /\ v.cnt < MaxCount
    /\ Become("reset", "want")
    /\ UNCHANGED <<v, ctxVars, cl, ring, holder, asleep, others, changes, pmRefs, hwVars>>

(* kbasep_reset_timeout_worker takes a power reference, or finds the GPU
   already idle for a system suspend and gives up *)
ResetBegins ==
    /\ users["reset"] = "held"
    /\ IF users["pm"] = "held" /\ ActiveCount = 0
       THEN Become("reset", "off") /\ v' = Resume(v) /\ UNCHANGED cl
       ELSE Become("reset", "resetting") /\ GpuActive
    /\ UNCHANGED <<ctxVars, ring, holder, asleep, others, changes, pmRefs, hwVars>>

(* kbase_backend_reset: the atom that was leaving protected mode is out of it
   and resumes vinstr; the mode itself has been cleared before *)
ResetJobs ==
    /\ users["reset"] = "resetting"
    /\ users' = [users EXCEPT !["reset"] = "finishing", !["protected"] = "off"]
    /\ v' = IF users["protected"] = "leaving" THEN Resume(v) ELSE v
    /\ UNCHANGED <<ctxVars, cl, ring, holder, asleep, others, changes, pmRefs, hwVars>>

ResetIdles ==
    /\ users["reset"] = "finishing"
    /\ Become("reset", "releasing")
    /\ GpuIdle(others + pmRefs)
    /\ UNCHANGED <<ctxVars, ring, holder, asleep, others, changes, pmRefs, hwVars>>

ResetEnds ==
    /\ users["reset"] = "releasing"
    /\ Become("reset", "off")
    /\ v' = Resume(v)
    /\ UNCHANGED <<ctxVars, cl, ring, holder, asleep, others, changes, pmRefs, hwVars>>

(* kbase_pm_suspend, kbase_pm_resume *)
SystemSuspend ==
    /\ users["pm"] = "off"
    /\ Become("pm", "want")
    /\ UNCHANGED <<v, ctxVars, cl, ring, holder, asleep, others, changes, pmRefs, hwVars>>
SystemResume ==
    /\ users["pm"] = "held"
    /\ Become("pm", "off")
    /\ v' = Resume(v)
    /\ UNCHANGED <<ctxVars, cl, ring, holder, asleep, others, changes, pmRefs, hwVars>>

-----------------------------------------------------------------------------
(* Interrupts, the cache clean worker, the page-fault worker *)

SoftVars == <<v, ctxVars, cl, ring, holder, asleep, Outside, pmRefs, programmed>>

\* Mutant of SampleDone: the waiter of a faulted dump is not woken
SampleDone_FaultUnseen ==
    /\ hw.sampling
    /\ hw' = [hw EXCEPT !.sampling = FALSE, !.cleanQueued = @ \/ b.state = "DUMPING"]
    /\ b' = IF b.state = "DUMPING" THEN [b EXCEPT !.state = "REQUEST_CLEAN"] ELSE b
    /\ UNCHANGED <<SoftVars, fault, faults>>

(* kbase_instr_hwcnt_sample_done *)
SampleDone ==
    /\ hw.sampling
    /\ CASE b.state = "FAULT" ->
              b' = [b EXCEPT !.triggered = TRUE] /\ hw' = [hw EXCEPT !.sampling = FALSE]
         [] b.state = "DUMPING" ->
              /\ b' = [b EXCEPT !.state = "REQUEST_CLEAN"]
              /\ hw' = [hw EXCEPT !.sampling = FALSE, !.cleanQueued = TRUE]
         [] OTHER -> UNCHANGED b /\ hw' = [hw EXCEPT !.sampling = FALSE]
    /\ UNCHANGED <<SoftVars, fault, faults>>

(* kbasep_cache_clean_worker asks for the clean (kbasep_instr_hwcnt_cacheclean) *)
CleanWorkerStarts ==
    /\ hw.cleanQueued /\ ~hw.cleaning
    /\ hw' = [hw EXCEPT !.cleanQueued = FALSE, !.cleaning = TRUE, !.irq = TRUE]
    /\ b' = [b EXCEPT !.state = "CLEANING"]
    /\ UNCHANGED <<SoftVars, fault, faults>>

(* The interrupt is taken: kbase_clean_caches_done *)
CleanIrq ==
    /\ hw.irq
    /\ hw' = [hw EXCEPT !.irq = FALSE]
    /\ b' = IF b.state = "CLEANING" THEN [b EXCEPT !.state = "CLEANED"] ELSE b
    /\ UNCHANGED <<SoftVars, fault, faults>>

(* The worker has seen the state move on *)
CleanWorkerEnds ==
    /\ hw.cleaning
    /\ b.state # "CLEANING"
    /\ b' = [state |-> "IDLE", triggered |-> TRUE]
    /\ hw' = [hw EXCEPT !.cleaning = FALSE]
    /\ UNCHANGED <<SoftVars, fault, faults>>

(* A fault on the dump buffer: the worker tests the state (kbase_mmu_report_fault_and_kill,
   kbase_mmu_interrupt_process) and sets it without hwcnt.lock *)
FaultSeen ==
    /\ ~fault /\ b.state = "DUMPING" /\ faults < MaxFaults
    /\ fault' = TRUE
    /\ faults' = faults + 1
    /\ UNCHANGED <<SoftVars, b, hw>>
FaultSet ==
    /\ fault
    /\ fault' = FALSE
    /\ b' = [b EXCEPT !.state = "FAULT"]
    /\ UNCHANGED <<SoftVars, hw, faults>>

-----------------------------------------------------------------------------
(* kbase_vinstr_init; the IPA model, where it is chosen, has attached and
   suspended its client *)
Init ==
    /\ kctx \in {FALSE, UseIpa}
    /\ present = kctx
    /\ v = [state |-> IF kctx THEN "SUSPENDED" ELSE "IDLE", cnt |-> 0,
            needSuspend |-> FALSE, needResume |-> FALSE, works |-> {}]
    /\ bitmap = IF kctx THEN {"ipa"} ELSE {}
    /\ reprogram = FALSE
    /\ cl = [c \in Clients |-> IF c = "ipa" /\ kctx
             THEN [NewClient EXCEPT !.list = "suspended", !.pending = FALSE] ELSE NewClient]
    /\ ring = [r \in Readers |-> [write |-> 0, read |-> 0, meta |-> 0]]
    /\ holder = Nobody /\ asleep = {}
    /\ users = [u \in {"reset", "pm", "protected"} |-> "off"]
    /\ others = 0 /\ pmRefs = 0 /\ changes = 0
    /\ b = [state |-> "DISABLED", triggered |-> FALSE]
    /\ programmed = {}
    /\ hw = [sampling |-> FALSE, cleanQueued |-> FALSE, cleaning |-> FALSE, irq |-> FALSE]
    /\ fault = FALSE /\ faults = 0

HolderStep ==
    \/ EnableRefs \/ EnableSetup \/ EnableFails \/ EnableConfigure
    \/ DisableCounters \/ DisableRefs
    \/ CreateKctx \/ CreatedKctx \/ Join \/ DestroyKctx \/ DestroyedKctx
    \/ Collect \/ RequestDump \/ WaitForDump \/ Dumped \/ Collected
    \/ (\E c \in Clients : Serve(c)) \/ ServedAll \/ Served
    \/ Fill \/ Notify \/ Reprogram \/ Reenable \/ Reprogrammed
    \/ Suspended \/ Resumed

Calls ==
    \/ \E r \in Readers : Attach(r) \/ Detach(r) \/ GetBuffer(r) \/ PutBuffer(r)
    \/ \E r \in Readers, on \in BOOLEAN : SetInterval(r, on)
    \/ \E c \in Clients, op \in {"dump", "clear"} : DumpCall(c, op)
    \/ AttachFails

Users ==
    \/ OtherContext \/ ProtectedAtom \/ SlotUpdate \/ EnterProtected
    \/ ProtectedRemoved \/ ExitProtected \/ GpuHangs
    \/ SystemSuspend \/ SystemResume

Reset == ResetBegins \/ ResetJobs \/ ResetIdles \/ ResetEnds

Hardware ==
    \/ SampleDone \/ CleanWorkerStarts \/ CleanIrq \/ CleanWorkerEnds

Next ==
    \/ HolderStep \/ Calls \/ Users \/ Reset \/ Hardware
    \/ FaultSeen \/ FaultSet \/ ServiceWakes
    \/ \E r \in Readers : Due(r) \/ WaitForReady(r)
    \/ \E w \in {"suspend", "resume"} : WorkerStarts(w)
    \/ \E u \in {"reset", "pm"} : SuspendTry(u)

Spec == Init /\ [][Next]_vars

(* Whoever holds the lock runs; interrupts and workers are served; a thread that
   wants the lock gets it; a woken sleeper looks again *)
Fairness ==
    /\ WF_vars(HolderStep) /\ WF_vars(Reset) /\ WF_vars(FaultSet)
    /\ WF_vars(Hardware)
    /\ \A w \in {"suspend", "resume"} : SF_vars(WorkerStarts(w))
    /\ \A u \in {"reset", "pm"} : WF_vars(SuspendTry(u))
    /\ \A r \in Readers : WF_vars(WaitForReady(r))

FairSpec == Spec /\ Fairness

-----------------------------------------------------------------------------
(* The types of the variables *)
TypeOK ==
    /\ v \in [state : {"IDLE", "DUMPING", "SUSPENDING", "SUSPENDED", "RESUMING"},
              cnt : 0 .. MaxCount + 2, needSuspend : BOOLEAN, needResume : BOOLEAN,
              works : SUBSET {"suspend", "resume"}]
    /\ kctx \in BOOLEAN /\ present \in BOOLEAN /\ reprogram \in BOOLEAN
    /\ bitmap \subseteq Clients /\ programmed \subseteq Clients
    /\ cl \in [Clients -> [list : {"none", "idle", "waiting", "expired", "suspended"},
                           pending : BOOLEAN, due : BOOLEAN, waits : BOOLEAN]]
    /\ ring \in [Readers -> [write : 0 .. Modulus - 1, read : 0 .. Modulus - 1,
                             meta : 0 .. Modulus - 1]]
    /\ asleep \subseteq Sleepers
    /\ users["reset"] \in {"off", "want", "held", "resetting", "finishing", "releasing"}
    /\ users["pm"] \in {"off", "want", "held"}
    /\ users["protected"] \in {"off", "want", "entering", "entered", "leaving"}
    /\ others \in 0 .. 1 /\ pmRefs \in 0 .. 1 /\ changes \in 0 .. MaxChanges
    /\ b.state \in {"DISABLED", "IDLE", "DUMPING", "REQUEST_CLEAN", "CLEANING",
                    "CLEANED", "FAULT"}
    /\ b.triggered \in BOOLEAN /\ fault \in BOOLEAN /\ faults \in 0 .. MaxFaults
    /\ hw \in [sampling : BOOLEAN, cleanQueued : BOOLEAN, cleaning : BOOLEAN, irq : BOOLEAN]

(* Who has suspended vinstr and will resume it *)
Holders ==
    {u \in {"reset", "pm", "protected"} : users[u] \notin {"off", "want"}}

(* kbase_vinstr_resume must not meet a suspend still under way, nor a count of
   zero (its two BUG_ONs): while a reset, a system suspend or a protected-mode
   job holds vinstr suspended, no client that attaches, detaches or changes
   with the GPU's power, and no worker left from before, takes it out of
   SUSPENDED, and the count covers every one of them. *)
HoldersKeepItSuspended ==
    Holders # {} => v.state = "SUSPENDED" /\ v.cnt >= Cardinality(Holders)

(* The last client is gone and the counters are about to be turned off: a
   suspend that is asked for now is granted at once, the counters still on *)
BeingDestroyed == holder.pc \in {"disable", "unref"} /\ holder.ret = "destroyed"

(* What the suspension is for: while it is held the counters are off and no
   sample or clean is outstanding whose interrupt a reset would clear, and
   vinstr keeps no power reference that a system suspend would wait for, nor
   is a call on its way to take one (but see BeingDestroyed). *)
SuspendedIsQuiet ==
    Holders # {} /\ ~BeingDestroyed =>
        /\ programmed = {} /\ pmRefs = 0
        /\ ~hw.sampling /\ ~hw.cleanQueued /\ ~hw.cleaning
        /\ holder.pc \notin {"reenable", "enable", "setup", "cleaning",
                            "request", "sampling"}
        /\ ~(holder.pc = "disable" /\ holder.ret = "reenable")

(* Between two calls vinstr holds its power and privileged-context references
   exactly while the counters are set up, and they are set up whenever it is
   idle with a client; a context that has been destroyed has none. *)
RefsMatchCounters ==
    holder = Nobody =>
        /\ pmRefs = IF programmed # {} THEN 1 ELSE 0
        /\ v.state = "IDLE" /\ present /\ b.state # "FAULT" => programmed # {}
        /\ programmed # {} => kctx

(* A sample is added to a client only if its counters were set up when it was
   taken: pending is cleared, and the bitmap rebuilt, in step with the hardware
   whatever joins, leaves, suspends or resumes in between. *)
AccumulatedIsProgrammed ==
    At("dumped") /\ ~holder.err =>
        \A c \in Clients :
            cl[c].list \in {"idle", "waiting"} /\ ~cl[c].pending => c \in programmed

(* The buffer a reader has taken, and those it has yet to take, are not the one
   being filled, however the indices have wrapped and whatever it puts back
   while the copy is made. *)
FilledIsFree ==
    At("notify") /\ holder.cli \in Readers =>
        LET q == ring[holder.cli]
            unread == (q.write - q.read) % Modulus
        IN /\ (q.meta - q.read) % Modulus \in 0 .. 1
           /\ \A i \in 0 .. unread - 1 :
                 (q.read + i) % BufferCount # q.write % BufferCount

(* kbase_instr_hwcnt_disable_internal finds a fault that was reported after the
   dump it concerns had been waited for: it spins, or sleeps for ever *)
LateFault == At("disable") /\ b.state = "FAULT"

(* No call, service pass or worker holds vinstr_ctx->lock for ever: every dump
   and every cache clean it waits for ends, faulted or not, and no two threads
   wait for one another (but see LateFault). *)
CallsEnd == []<>(holder = Nobody \/ LateFault)

(* The same without the exception *)
EveryCallEnds == []<>(holder = Nobody)

(* kbase_vinstr_suspend returns: a reset or a system suspend that waits for
   vinstr gets it *)
SuspendCompletes == \A u \in {"reset", "pm"} : users[u] = "want" ~> users[u] = "held"

(* Nothing is pending that would still resume vinstr, no one holds it suspended
   and no one waits to, yet it has a client that is not suspended itself *)
SuspendedIsWanted ==
    v.state = "SUSPENDED" /\ Active(cl) # {} /\ Holders = {} =>
        v.works # {} \/ \E u \in DOMAIN users : users[u] = "want"

(* The count is that of the users that will resume vinstr *)
CountIsHolders == v.cnt = Cardinality(Holders)

\* Whoever suspended the counters finds them off, the references match the
\* counters of the clients, what is accumulated was programmed, and a buffer
\* handed out is not written.  (kbase_vinstr_suspend, kbasep_vinstr_update_client)
VinstrSound ==
  /\ TypeOK /\ HoldersKeepItSuspended /\ SuspendedIsQuiet
  /\ RefsMatchCounters /\ AccumulatedIsProgrammed /\ FilledIsFree
=============================================================================
