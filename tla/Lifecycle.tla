----------------------------- MODULE Lifecycle -----------------------------
(***************************************************************************)
(* The life of a device and of the contexts opened on it: the probe, which *)
(* brings the subsystems up one after the other and unwinds when one of    *)
(* them fails, the removal, open and release of the device file, and what  *)
(* goes on meanwhile: interrupts, jobs, the power-off worker.              *)
(*                                                                         *)
(* Each init function is a sequence of steps, and a step carries what the  *)
(* function undoes when the step fails (its goto labels); each term        *)
(* function is a sequence of releases.  The device's thread and each       *)
(* file's thread execute such programs, interleaved step by step.          *)
(***************************************************************************)
EXTENDS Naturals, Sequences, SequencesExt, FiniteSets

CONSTANTS Files,           \* open files, one context each
          Compat,          \* those of 32-bit clients
          DirMayFail,      \* may the context's debugfs directory fail to appear?
          PropsMayFail     \* may the property buffer fail to be allocated?

ASSUME LifecycleAssumption ==
    /\ Files # {} /\ Compat \subseteq Files
    /\ DirMayFail \in BOOLEAN /\ PropsMayFail \in BOOLEAN

VARIABLES
    held,      \* what the device's subsystems hold
    inited,    \* inited_subsys: the stages whose init function has returned 0
    failed,    \* the steps that have failed since the probe began
    dev,       \* the thread that probes and removes: phase, stage, what is left to do
    own,       \* what each file's context holds
    file,      \* the thread that opens and releases each file
    jobs,      \* files whose context has jobs
    as,        \* files whose context has an address space programmed
    worker     \* "idle" or "queued": gpu_poweroff_wait_work

vars == <<held, inited, failed, dev, own, file, jobs, as, worker>>

-----------------------------------------------------------------------------
(* Steps and programs *)

Step(do, r, undo) == [do |-> do, res |-> r, undo |-> undo]

Put(r) == Step("put", r, <<>>)

Puts(rs) == [i \in DOMAIN rs |-> Put(rs[i])]

Halt == Step("halt", "power", <<>>)

\* What cannot fail; what may fail and undoes some steps; what may also be absent.
Take(r) == Step("take", r, <<>>)

Get(r, undo) == Step("get", r, undo)

Option(r, undo) == Step("option", r, undo)

\* A condition the function checks, returning an error when it does not hold.
Check(name, undo) == Step("check", name, undo)

\* Acquire rs in turn; a failure releases what was acquired, last first.
Chain(rs) ==
    [i \in DOMAIN rs |-> Get(rs[i], Puts(Reverse(SubSeq(rs, 1, i - 1))))]

\* A function called by one that undoes `outer` when the call fails.
Within(steps, outer) ==
    [i \in DOMAIN steps |-> [steps[i] EXCEPT !.undo = @ \o outer]]

-----------------------------------------------------------------------------
(* The subsystems' init and term functions *)

assign_irqs == <<Check("irqs", <<>>)>>

registers_map == Chain(<<"mem_region", "ioremap">>)

registers_unmap == Puts(<<"ioremap", "mem_region">>)

\* Mutant of power_control_init: a failure to find the clock keeps the regulator.
power_control_init_KeepsRegulator ==
    << Option("regulator", <<>>), Option("clock", <<>>),
       Get("clock_enabled", Puts(<<"clock", "regulator">>)) >>

\* The regulator and the clock may be absent; a clock that is there must start.
power_control_init ==
    << Option("regulator", <<>>), Option("clock", Puts(<<"regulator">>)),
       Get("clock_enabled", Puts(<<"clock", "regulator">>)) >>

power_control_term == Puts(<<"clock_enabled", "clock", "regulator">>)

kbase_io_history_init == Chain(<<"io_history">>)

kbase_io_history_term == Puts(<<"io_history">>)

\* The trace buffer must be there before the power-on that traces; its release is
\* kbase_device_term's, in a later stage.
jin_trace_init == Chain(<<"trace_rbuf">>)

PfWqs == <<"pf_wq_0", "pf_wq_1">>

\* The unwinding loop runs from the one that failed down to the second one:
\* the first is forgotten, the failed one is destroyed.
kbase_device_all_as_init ==
    [i \in DOMAIN PfWqs |-> Get(PfWqs[i], Puts(Reverse(SubSeq(PfWqs, 2, i))))]

kbase_device_all_as_term == Puts(PfWqs)

\* A failure of the last step frees the trace buffer and not the work queues.
kbase_device_init ==
    << Check("issues", <<>>), Check("dma_mask", <<>>) >> \o kbase_device_all_as_init
        \o << Get("cache_clean_wq", Puts(<<"trace_rbuf">>)) >>

kbase_device_term ==
    Puts(<<"cache_clean_wq", "trace_rbuf">>) \o kbase_device_all_as_term

Irqs == <<"irq_job", "irq_mmu", "irq_gpu">>

\* Mutant of kbase_install_interrupts: the loop frees the one that failed as well.
kbase_install_interrupts_FreesOneMore ==
    [i \in DOMAIN Irqs |-> Get(Irqs[i], Puts(Reverse(SubSeq(Irqs, 1, i))))]

kbase_install_interrupts == Chain(Irqs)

kbasep_pm_metrics_init == <<Take("metrics")>>

kbase_pm_policy_init == Chain(<<"poweroff_wq">>)

\* None of its failures destroys gpu_poweroff_wait_wq.
kbase_hwaccess_pm_init ==
    <<Get("poweroff_wait_wq", <<>>)>> \o kbasep_pm_metrics_init
        \o Within(kbase_pm_policy_init, Puts(<<"metrics">>))

kbase_hwaccess_pm_term == Puts(<<"poweroff_wq", "metrics", "poweroff_wait_wq">>)

kbase_backend_early_init ==
    LET fail_runtime_pm == Puts(<<"platform">>)
        fail_interrupts == Puts(<<"runtime_pm">>) \o fail_runtime_pm
        fail_pm         == Puts(Irqs) \o fail_interrupts
    IN << Get("platform", <<>>), Get("runtime_pm", fail_runtime_pm),
          Take("power"), Put("power") >>
       \o Within(kbase_install_interrupts, fail_interrupts)
       \o Within(kbase_hwaccess_pm_init, fail_pm)

kbase_backend_early_term ==
    kbase_hwaccess_pm_term \o Puts(Irqs) \o Puts(<<"runtime_pm", "platform">>)

kbase_mem_init == Chain(<<"dev_mem_pool", "dev_lp_mem_pool">>)

kbase_mem_term == Puts(<<"dev_mem_pool", "dev_lp_mem_pool">>)

kbase_ctx_sched_init == <<Take("as_table")>>

kbasep_protected_mode_init == Chain(<<"protected_dev">>)

kbasep_js_devdata_init == <<Check("js_timeouts", <<>>), Take("js_devdata")>>

\* Powering up ends with a reset of the GPU; its failure leaves the power on.
kbase_hwaccess_pm_powerup == << Take("power"), Check("reset", <<>>) >>

kbase_backend_timer_init == <<Take("scheduling_timer")>>

kbase_job_slot_init == Chain(<<"reset_workq">>)

kbase_backend_late_init ==
    kbase_hwaccess_pm_powerup \o kbase_backend_timer_init
        \o Within(kbase_job_slot_init, Puts(<<"scheduling_timer">>) \o <<Halt>>)

kbase_backend_late_term == Puts(<<"reset_workq", "scheduling_timer">>) \o <<Halt>>

\* The core mask table is freed by term, and by no failure; nor is what
\* kbase_ipa_init made when the cooling device cannot be registered.
kbase_devfreq_init ==
    LET opp_notifier_failed == Puts(<<"devfreq_dev">>)
        cooling_failed      == Puts(<<"opp_notifier">>) \o opp_notifier_failed
    IN << Check("devfreq_clock", <<>>), Check("freq_table", <<>>),
          Get("opp_table", <<>>), Get("devfreq_dev", <<>>),
          Get("opp_notifier", opp_notifier_failed),
          Get("ipa", cooling_failed), Get("cooling", cooling_failed) >>

kbase_devfreq_term ==
    Puts(<<"cooling", "ipa", "opp_notifier", "devfreq_dev", "opp_table">>)

tlstreams == <<"tlstream_1", "tlstream_2">>

kbase_tlstream_init == Chain(tlstreams)

kbase_vinstr_init == Chain(<<"vinstr">>)

kbase_debug_job_fault_dev_init == Chain(<<"job_fault_wq">>)

kbase_device_debugfs_init == Chain(<<"debugfs">>)

kbase_gpuprops_populate_user_buffer == Chain(<<"prop_buffer">>)

-----------------------------------------------------------------------------
(* The stages of the probe, and what the removal does with each *)

Stage(name, init, term) == [name |-> name, init |-> init, term |-> term]

\* A stage without a bit in inited_subsys: no later failure undoes it.
Unmarked == {"irqs", "trace", "gpuprops"}

EarlyStages ==
    << Stage("alloc", Chain(<<"kbdev">>), <<>>),
       Stage("irqs", assign_irqs, <<>>),
       Stage("registers_map", registers_map, registers_unmap),
       Stage("power_control", power_control_init, power_control_term),
       Stage("io_history", kbase_io_history_init, kbase_io_history_term),
       Stage("trace", jin_trace_init, <<>>),
       Stage("backend_early", kbase_backend_early_init, kbase_backend_early_term),
       Stage("device", kbase_device_init, kbase_device_term),
       Stage("ctx_sched", kbase_ctx_sched_init, Puts(<<"as_table">>)),
       Stage("mem", kbase_mem_init, kbase_mem_term) >>

LateStages ==
    << Stage("protected", kbasep_protected_mode_init, Puts(<<"protected_dev">>)),
       Stage("dev_list", <<Take("dev_list")>>, Puts(<<"dev_list">>)),
       Stage("js", kbasep_js_devdata_init, Puts(<<"js_devdata">>)),
       Stage("tlstream", kbase_tlstream_init, Puts(tlstreams)),
       Stage("backend_late", kbase_backend_late_init, kbase_backend_late_term),
       Stage("vinstr", kbase_vinstr_init, Puts(<<"vinstr">>)),
       Stage("devfreq", kbase_devfreq_init, kbase_devfreq_term),
       Stage("job_fault", kbase_debug_job_fault_dev_init, Puts(<<"job_fault_wq">>)),
       Stage("debugfs", kbase_device_debugfs_init, Puts(<<"debugfs">>)),
       Stage("get_device", <<Take("dev_ref")>>, Puts(<<"dev_ref">>)),
       Stage("sysfs_group", Chain(<<"sysfs">>), Puts(<<"sysfs">>)),
       Stage("misc_register", Chain(<<"misc">>), Puts(<<"misc">>)),
       Stage("gpuprops", kbase_gpuprops_populate_user_buffer, <<>>) >>

kbase_platform_device_probe == EarlyStages \o LateStages

\* "Continuing without devfreq"
Optional == {"devfreq"}

\* Mutant of RemovalOrder: the instrumentation goes before the devfreq that uses it.
RemovalOrder_VinstrFirst ==
    << "dev_list", "misc_register", "sysfs_group", "get_device", "debugfs",
       "job_fault", "vinstr", "devfreq", "backend_late", "tlstream", "protected",
       "js", "mem", "ctx_sched", "device", "backend_early", "io_history",
       "power_control", "registers_map" >>

RemovalOrder ==
    << "dev_list", "misc_register", "sysfs_group", "get_device", "debugfs",
       "job_fault", "devfreq", "vinstr", "backend_late", "tlstream", "protected",
       "js", "mem", "ctx_sched", "device", "backend_early", "io_history",
       "power_control", "registers_map" >>

StageNamed(name) ==
    CHOOSE s \in Range(kbase_platform_device_probe) : s.name = name

\* What the removal does, given the stages that were reached.
kbase_platform_device_remove(done) ==
    IF "kbdev" \notin held THEN <<>>
    ELSE Puts(<<"prop_buffer">>)
             \o FlattenSeq([i \in DOMAIN RemovalOrder |->
                               IF RemovalOrder[i] \in done
                               THEN StageNamed(RemovalOrder[i]).term ELSE <<>>])
             \o Puts(<<"kbdev">>)

-----------------------------------------------------------------------------
(* The context and its file *)

Zones == <<"same_va", "exec_va", "custom_va">>

\* What kbase_create_context acquires, in its order; it unwinds in reverse.
ContextParts ==
    << "kctx", "mem_pool", "lp_mem_pool", "evictable", "jd_wq", "event_wq",
       "dma_fence_wq", "teardown_pages", "pgd", "sink_page" >> \o Zones

\* A 64-bit client has one zone, a 32-bit one all.
kbase_create_context(compat) ==
    Chain(IF compat THEN ContextParts
          ELSE SelectSeq(ContextParts, LAMBDA r : r \notin {"exec_va", "custom_va"}))

kbase_destroy_context ==
    << Take("active"), Step("zap", "jobs", <<>>) >>
        \o Puts(<<"ctx_dir", "event_wq", "pgd", "sink_page">> \o Zones)
        \o Puts(<<"jd_wq", "dma_fence_wq">>)
        \o << Step("remove_ctx", "as", <<>>) >>
        \o Puts(<<"teardown_pages", "evictable", "mem_pool", "lp_mem_pool", "kctx", "active">>)

\* When the debugfs directory fails, only the device's reference is put back.
kbase_open(compat) ==
    LET out == Puts(<<"file_ref">>)
    IN <<Take("file_ref")>> \o Within(kbase_create_context(compat), out)
           \o <<Get("ctx_dir", out), Option("reg_dump", <<>>), Option("list_element", <<>>)>>

\* Mutant of kbase_release: the context is destroyed while it is still on the list.
kbase_release_DestroysFirst ==
    kbase_destroy_context \o Puts(<<"reg_dump", "list_element", "file_ref">>)

kbase_release ==
    Puts(<<"reg_dump", "list_element">>) \o kbase_destroy_context \o Puts(<<"file_ref">>)

-----------------------------------------------------------------------------
(* Execution *)

\* Inits that return 0 whatever happens, and what the constants exclude.
Infallible ==
    {"dev_mem_pool", "dev_lp_mem_pool", "mem_pool", "lp_mem_pool", "evictable"}
        \cup (IF DirMayFail THEN {} ELSE {"ctx_dir"})
        \cup (IF PropsMayFail THEN {} ELSE {"prop_buffer"})

CanFail(step) ==
    step.do \in {"get", "option", "check"} /\ step.res \notin Infallible

\* A clock that is absent is not enabled.
Skipped(step) == step.res = "clock_enabled" /\ "clock" \notin held

Idle == [phase |-> "absent", stage |-> 0, todo |-> <<>>]

Init ==
    /\ held = {} /\ inited = {} /\ failed = {} /\ dev = Idle
    /\ own = [f \in Files |-> {}]
    /\ file = [f \in Files |-> [phase |-> "closed", todo |-> <<>>]]
    /\ jobs = {} /\ as = {} /\ worker = "idle"

UNCH_ctx == UNCHANGED <<own, file, jobs, as>>

Closed == \A f \in Files : file[f].phase = "closed"

\* The module is loaded, or loaded again: a new device, with nothing of the old.
Probe ==
    /\ dev.phase = "absent" /\ Closed
    /\ dev' = [phase |-> "probing", stage |-> 1,
               todo |-> kbase_platform_device_probe[1].init]
    /\ held' = {} /\ failed' = {}
    /\ UNCHANGED <<inited, worker>> /\ UNCH_ctx

\* A stage is complete; the last one ends the probe.
NextStage ==
    /\ dev.phase \in {"probing", "unwinding"} /\ dev.todo = <<>>
    /\ LET s == kbase_platform_device_probe[dev.stage] IN
        /\ dev.phase = "unwinding" => s.name \in Optional
        /\ inited' = IF dev.phase = "probing" /\ s.name \notin Unmarked \cup {"alloc"}
                     THEN inited \cup {s.name} ELSE inited
        /\ dev' = IF dev.stage = Len(kbase_platform_device_probe)
                  THEN [dev EXCEPT !.phase = "bound"]
                  ELSE [phase |-> "probing", stage |-> dev.stage + 1,
                        todo |-> kbase_platform_device_probe[dev.stage + 1].init]
    /\ UNCHANGED <<held, failed, worker>> /\ UNCH_ctx

\* A failed probe removes what it has done, and so does the driver's removal,
\* which the module's reference keeps off while a file is open.
RemoveDevice ==
    /\ \/ /\ dev.phase = "unwinding" /\ dev.todo = <<>>
          /\ kbase_platform_device_probe[dev.stage].name \notin Optional
       \/ dev.phase = "bound" /\ Closed
    /\ dev' = [phase |-> "removing", stage |-> 0,
               todo |-> kbase_platform_device_remove(inited)]
    /\ inited' = {}
    /\ UNCHANGED <<held, failed, worker>> /\ UNCH_ctx

Removed ==
    /\ dev.phase = "removing" /\ dev.todo = <<>>
    /\ dev' = Idle
    /\ UNCHANGED <<held, inited, failed, worker>> /\ UNCH_ctx

\* One step of an init or term function of the device.  Destroying the work queue
\* of the power-off worker waits for the worker.
DevStep ==
    /\ dev.todo # <<>>
    /\ LET step == Head(dev.todo)
           done == [dev EXCEPT !.todo = Tail(@)] IN
        \/ /\ step.do \in {"take", "get", "option"} /\ ~Skipped(step)
           /\ held' = held \cup {step.res} /\ dev' = done
           /\ UNCHANGED <<failed, worker>>
        \/ /\ \/ Skipped(step)
              \/ step.do = "option"
              \/ step.do = "check" /\ (step.res = "devfreq_clock" => "clock" \in held)
           /\ dev' = done /\ UNCHANGED <<held, failed, worker>>
        \/ /\ CanFail(step) /\ ~Skipped(step)
           /\ step.res = "devfreq_clock" => "clock" \notin held
           /\ dev' = [dev EXCEPT !.phase = "unwinding", !.todo = step.undo]
           /\ failed' = failed \cup {step.res} /\ UNCHANGED <<held, worker>>
        \/ /\ step.do = "put"
           /\ step.res = "poweroff_wait_wq" => worker = "idle"
           /\ held' = held \ {step.res} /\ dev' = done
           /\ UNCHANGED <<failed, worker>>
        \/ /\ step.do = "halt"
           /\ worker' = IF "power" \in held THEN "queued" ELSE worker
           /\ dev' = done /\ UNCHANGED <<held, failed>>
    /\ UNCHANGED inited /\ UNCH_ctx

\* Mutant of PoweroffWorker: the work item never becomes idle again.
PoweroffWorker_NeverIdle ==
    /\ worker = "queued"
    /\ worker' = "running" /\ held' = held \ {"power"}
    /\ UNCHANGED <<inited, failed, dev>> /\ UNCH_ctx

\* kbase_pm_gpu_poweroff_wait_wq: the cores and then the GPU go off.
PoweroffWorker ==
    /\ worker = "queued"
    /\ worker' = "idle" /\ held' = held \ {"power"}
    /\ UNCHANGED <<inited, failed, dev>> /\ UNCH_ctx

UNCH_dev == UNCHANGED <<held, inited, failed, dev, worker>>

\* The file can be opened once the misc device is there, until the module goes;
\* kbase_find_device looks the device up in the device list.
Open(f) ==
    /\ "misc" \in held /\ "dev_list" \in held
    /\ dev.phase = "removing" => "prop_buffer" \in failed
    /\ file[f].phase = "closed" /\ own[f] = {}
    /\ file' = [file EXCEPT ![f] = [phase |-> "opening", todo |-> kbase_open(f \in Compat)]]
    /\ UNCHANGED <<own, jobs, as>> /\ UNCH_dev

Release(f) ==
    /\ file[f].phase = "open"
    /\ file' = [file EXCEPT ![f] = [phase |-> "closing", todo |-> kbase_release]]
    /\ UNCHANGED <<own, jobs, as>> /\ UNCH_dev

Returned(f) ==
    /\ file[f].phase \in {"opening", "closing", "unwinding"} /\ file[f].todo = <<>>
    /\ file' = [file EXCEPT ![f].phase =
                   IF @ = "opening" THEN "open" ELSE "closed"]
    /\ UNCHANGED <<own, jobs, as>> /\ UNCH_dev

\* The page meant for a page directory may be reclaimed before it is used; the
\* loop of kbase_create_context then begins again, which changes nothing here.
FileStep(f) ==
    /\ file[f].todo # <<>>
    /\ LET step == Head(file[f].todo)
           done == [file EXCEPT ![f].todo = Tail(@)] IN
        \/ /\ step.do \in {"take", "get", "option"}
           /\ own' = [own EXCEPT ![f] = @ \cup {step.res}] /\ file' = done
           /\ UNCHANGED <<as>>
        \/ /\ step.do = "option"
           /\ file' = done /\ UNCHANGED <<own, as>>
        \/ /\ CanFail(step) /\ step.do = "get"
           /\ file' = [file EXCEPT ![f] = [phase |-> "unwinding", todo |-> step.undo]]
           /\ UNCHANGED <<own, as>>
        \/ /\ step.do = "put"
           /\ own' = [own EXCEPT ![f] = @ \ {step.res}] /\ file' = done
           /\ UNCHANGED <<as>>
        \/ /\ step.do = "zap" /\ f \notin jobs
           /\ file' = done /\ UNCHANGED <<own, as>>
        \/ /\ step.do = "remove_ctx"
           /\ as' = as \ {f} /\ file' = done /\ UNCHANGED <<own>>
    /\ UNCHANGED jobs /\ UNCH_dev

\* A context with jobs gets an address space, which stays programmed when the
\* jobs are done until another context takes it or the context is removed.
StartJobs(f) ==
    /\ file[f].phase = "open" /\ f \notin jobs
    /\ jobs' = jobs \cup {f} /\ as' = as \cup {f}
    /\ UNCHANGED <<own, file>> /\ UNCH_dev

FinishJobs(f) ==
    /\ f \in jobs
    /\ jobs' = jobs \ {f} /\ UNCHANGED <<own, file, as>> /\ UNCH_dev

LoseAs(f) ==
    /\ f \in as /\ f \notin jobs
    /\ as' = as \ {f} /\ UNCHANGED <<own, file, jobs>> /\ UNCH_dev

FileNext(f) ==
    \/ Open(f) \/ Release(f) \/ Returned(f) \/ FileStep(f)
    \/ StartJobs(f) \/ FinishJobs(f) \/ LoseAs(f)

Next ==
    \/ Probe \/ NextStage \/ DevStep \/ RemoveDevice \/ Removed \/ PoweroffWorker
    \/ \E f \in Files : FileNext(f)

Spec == Init /\ [][Next]_vars

-----------------------------------------------------------------------------
(* Properties *)

DevParts ==
    {"kbdev", "mem_region", "ioremap", "regulator", "clock", "clock_enabled",
     "io_history", "trace_rbuf", "platform", "runtime_pm", "power",
     "poweroff_wait_wq", "metrics", "poweroff_wq", "cache_clean_wq", "as_table",
     "dev_mem_pool", "dev_lp_mem_pool", "protected_dev", "dev_list", "js_devdata",
     "scheduling_timer", "reset_workq", "vinstr", "opp_table", "devfreq_dev",
     "opp_notifier", "ipa", "cooling", "job_fault_wq", "debugfs", "dev_ref",
     "sysfs", "misc", "prop_buffer"}
        \cup Range(PfWqs) \cup Range(Irqs) \cup Range(tlstreams)

FileParts ==
    Range(ContextParts) \cup {"file_ref", "ctx_dir", "reg_dump", "list_element", "active"}

\* Types of the variables.
TypeOK ==
    /\ held \subseteq DevParts
    /\ inited \subseteq {s.name : s \in Range(kbase_platform_device_probe)}
    /\ dev.phase \in {"absent", "probing", "unwinding", "bound", "removing"}
    /\ dev.stage \in 0 .. Len(kbase_platform_device_probe)
    /\ \A f \in Files :
        /\ own[f] \subseteq FileParts
        /\ file[f].phase \in {"closed", "opening", "unwinding", "open", "closing"}
    /\ jobs \subseteq Files /\ as \subseteq Files
    /\ worker \in {"idle", "queued"}

\* What the failures of a probe are known to leave behind (README, section 7).
Forgotten(step) ==
    (IF step \in {"platform", "runtime_pm", "poweroff_wait_wq", "poweroff_wq",
                  "issues", "dma_mask"} \cup Range(Irqs) \cup Range(PfWqs)
     THEN {"trace_rbuf"} ELSE {})
    \cup (IF step = "poweroff_wq" THEN {"poweroff_wait_wq"} ELSE {})
    \cup (IF step \in Range(PfWqs) \cup {"cache_clean_wq"} THEN Range(PfWqs) ELSE {})
    \cup (IF step = "reset" THEN {"power"} ELSE {})
    \cup (IF step \in {"devfreq_dev", "opp_notifier", "ipa", "cooling"}
          THEN {"opp_table"} ELSE {})
    \cup (IF step = "cooling" THEN {"ipa"} ELSE {})

\* Whatever step of the probe or of an open fails, the unwinding, and later the
\* removal or the release, gives back all that was acquired (but for Forgotten),
\* and the context programmed nowhere: kbase_platform_device_remove and the
\* labels of kbase_create_context.
NothingLeft ==
    /\ dev.phase = "absent" => held \subseteq UNION {Forgotten(x) : x \in failed}
    /\ \A f \in Files :
        file[f].phase = "closed" => own[f] = {} /\ f \notin jobs \cup as

\* Freed with kfree or under a test, whether they are there or not.
MayBeAbsent ==
    {"prop_buffer", "regulator", "clock", "clock_enabled",
     "exec_va", "custom_va", "reg_dump", "list_element"}

InTurn(todo, has) ==
    todo # <<>> =>
        LET step == Head(todo) IN
        /\ step.do = "put" => step.res \in has \cup MayBeAbsent
        /\ step.do \in {"take", "get"} => step.res \notin has

\* Nothing is released that is not held, whichever failures the unwinding of one
\* function and the removal follow, and nothing is acquired over itself (but for the
\* address spaces' work queues, whose unwinding is off by one).
ReleasedOnce ==
    /\ (failed \cap Range(PfWqs)) = {} => InTurn(dev.todo, held)
    /\ \A f \in Files : InTurn(file[f].todo, own[f])

Needs(user, need) == user \in held => need \subseteq held

\* What the files, the attributes and the debug files reach.
Served ==
    {"kbdev", "ioremap", "io_history", "trace_rbuf", "platform", "runtime_pm",
     "poweroff_wait_wq", "metrics", "poweroff_wq", "cache_clean_wq", "as_table",
     "dev_mem_pool", "dev_lp_mem_pool", "js_devdata", "scheduling_timer",
     "reset_workq", "vinstr", "job_fault_wq"}
        \cup Range(PfWqs) \cup Range(Irqs) \cup Range(tlstreams)

\* Whatever can still call into the driver finds what it uses: the files and
\* attributes of user space, the devfreq governor, the utilisation timer, the
\* interrupts of a powered GPU and the worker that powers it off.  Excepted: the
\* interrupts between the halt and the worker, and a GPU left on by a failed reset.
UsersAlive ==
    "reset" \notin failed =>
        /\ \A u \in {"misc", "sysfs", "debugfs"} : Needs(u, Served)
        /\ Needs("metrics", {"kbdev", "platform"})
        /\ Needs("devfreq_dev", {"clock_enabled", "metrics", "vinstr"})
        /\ Needs("opp_notifier", {"devfreq_dev"})
        /\ Needs("cooling", {"devfreq_dev", "ipa"})
        /\ Needs("power", {"ioremap", "io_history", "platform", "runtime_pm"})
        /\ {"power", "clock"} \subseteq held => "clock_enabled" \in held
        /\ (Range(Irqs) \cap held) # {} /\ "power" \in held /\ worker = "idle"
               => {"trace_rbuf", "ioremap", "poweroff_wait_wq"} \cup Range(PfWqs) \subseteq held
        /\ worker = "queued" => "poweroff_wait_wq" \in held
        /\ ~Closed => Served \cup {"debugfs", "dev_ref"} \subseteq held
        /\ jobs # {} => "power" \in held

\* A context that others can find, by the device's list of contexts, by its debug
\* files, by a shrinker, by its jobs or by its address space, is whole: it is
\* withdrawn before it is taken apart (kbase_release, kbase_destroy_context).
ContextsWhole ==
    \A f \in Files :
        LET has == own[f]
            whole == Range(ContextParts) \ {"exec_va", "custom_va"} IN
        /\ "list_element" \in has \/ "ctx_dir" \in has \/ f \in jobs => whole \subseteq has
        /\ f \in as => "kctx" \in has
        /\ ({"mem_pool", "lp_mem_pool", "jd_wq", "event_wq"} \cap has) # {} => "kctx" \in has
        /\ "evictable" \in has => {"kctx", "mem_pool"} \subseteq has
        /\ (({"pgd"} \cup Range(Zones)) \cap has) # {} =>
               {"kctx", "mem_pool", "teardown_pages"} \subseteq has

\* mali_kbase_hwaccess_pm.h says of kbase_hwaccess_pm_halt that "the GPU is forced
\* off by the time this function returns"; it only queues the worker.
HaltMeansOff == worker = "queued" => "power" \notin held

\* kbase_destroy_context says, where it frees the page directory, that the "MMU is
\* disabled as part of scheduling out the context"; the address space stays
\* programmed until kbase_ctx_sched_remove_ctx.
MmuOffBeforePgdFreed ==
    \A f \in Files : f \in as /\ file[f].phase = "closing" => "pgd" \in own[f]
=============================================================================
