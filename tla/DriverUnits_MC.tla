--------------------------- MODULE DriverUnits_MC ---------------------------
(***************************************************************************)
(* The life cycle of the device and, beside it, the parts of the driver    *)
(* around the jobs that do not run together with one another.  A behaviour *)
(* chooses one unit and takes the steps of that unit alone, so a state of  *)
(* this module is a state of one component.  Lifecycle has its own         *)
(* variables; the other components share the variables v1 to v14, each in  *)
(* its own sense; what a unit does not use is zero.                        *)
(***************************************************************************)
EXTENDS Lifecycle, Integers

CONSTANTS f1, f2

VARIABLES unit, v1, v2, v3, v4, v5, v6, v7, v8, v9, v10, v11, v12, v13, v14

shared == <<v1, v2, v3, v4, v5, v6, v7, v8, v9, v10, v11, v12, v13, v14>>
allVars == <<unit, vars, shared>>
from7 == <<v7, v8, v9, v10, v11, v12, v13, v14>>
from8 == <<v8, v9, v10, v11, v12, v13, v14>>
from9 == <<v9, v10, v11, v12, v13, v14>>
from10 == <<v10, v11, v12, v13, v14>>
from11 == <<v11, v12, v13, v14>>
from12 == <<v12, v13, v14>>
from13 == <<v13, v14>>

Zero13 == v13 = 0 /\ v14 = 0
Zero12 == v12 = 0 /\ Zero13
Zero11 == v11 = 0 /\ Zero12
Zero10 == v10 = 0 /\ Zero11
Zero9 == v9 = 0 /\ Zero10
Zero8 == v8 = 0 /\ Zero9
Zero7 == v7 = 0 /\ Zero8
Zero1 == v1 = 0 /\ v2 = 0 /\ v3 = 0 /\ v4 = 0 /\ v5 = 0 /\ v6 = 0 /\ Zero7

NoDevice ==
  /\ held = 0 /\ inited = 0 /\ failed = 0 /\ dev = 0 /\ own = 0
  /\ file = 0 /\ jobs = 0 /\ as = 0 /\ worker = 0
-----------------------------------------------------------------------------
(* Two files, one of a 32-bit client; every subsystem may fail to come up, *)
(* except as the bounds of Lifecycle say.                                  *)

LcInit == unit = "life cycle" /\ Init /\ Zero1
LcStep == unit = "life cycle" /\ Next /\ UNCHANGED <<unit, shared>>

(* Two threads set up a context, two read its events; two atoms and two    *)
(* submits.                                                                *)

Se == INSTANCE Session WITH
  Atoms <- {1, 2}, Requests <- {{}, {"coalesce"}, {"failure", "res"}},
  Threads <- {"t1", "t2"}, Readers <- {"r1", "r2"}, MaxSubmits <- 2, FaultyPaths <- {},
  gate <- v1, setter <- v2, latched <- v3, atom <- v4, submitter <- v5, ended <- v6,
  poster <- v7, queue <- v8, workq <- v9, reader <- v10, life <- v11, log <- v12

SeInit == unit = "session" /\ Se!Init /\ Zero13
SeStep == unit = "session" /\ Se!Next /\ UNCHANGED <<unit, vars, from13>>

(* Two slots, one address space, two contexts with three atoms, of which   *)
(* the second needs the first on another slot.                             *)

Cq == INSTANCE CtxQueues WITH
  Slots <- {1, 2}, Owner <- <<"c1", "c1", "c2">>,
  Req <- <<{"tiler"}, {"only_compute"}, {"cs", "coherent"}>>, Hw <- {"issue 8987"},
  Prio <- <<2, 2, 1>>, XPre <- <<0, 1, 0>>, After <- <<0, 0, 0>>, NumAs <- 1,
  MaxModes <- 0, FaultyPaths <- {},
  atom <- v1, lists <- v2, ctx <- v3, blocked <- v4, active_kctx <- v5, attrs <- v6,
  sched <- v7, worker <- v8, mode <- v9

CqInit == unit = "queues" /\ Cq!Init /\ Zero10
CqStep == unit = "queues" /\ Cq!Next /\ UNCHANGED <<unit, vars, from10>>

(* Two core groups of one core; an atom of slot 1 and one of slot 2, masks *)
(* and operating points that leave one core or two.                        *)

Af == INSTANCE Affinity WITH
  Groups <- <<{0}, {1}>>, Atoms <- {1, 2}, Slot <- <<1, 2>>,
  Req <- <<{"tiler", "shader"}, {"shader", "coherent"}>>,
  DebugMasks <- {[js \in 0 .. 2 |-> {0, 1}],
                 [js \in 0 .. 2 |-> IF js = 1 THEN {0} ELSE {0, 1}]},
  OppMasks <- {{0}}, MaxCalls <- 1, FaultyPaths <- {},
  issue8987 <- v1, xaffinity <- v2, pm <- v3, ca <- v4, atom <- v5, owed <- v6,
  slot_count <- v7, rmu_flag <- v8, changes <- v9

AfInit == unit = "affinity" /\ Af!Init /\ Zero10
AfStep == unit = "affinity" /\ Af!Next /\ UNCHANGED <<unit, vars, from10>>

(* Three atoms of two contexts on two reservations, locked in both orders; *)
(* a fence from outside on the first, and the third atom needs the first.  *)

Df == INSTANCE DmaFence WITH
  Ctx <- <<11, 12, 11>>, Uses <- <<<<"r1", "r2">>, <<"r2", "r1">>, <<"r1">>>>,
  Exclusive <- <<{"r1", "r2"}, {"r2"}, {"r1"}>>, Dep <- <<0, 0, 1>>,
  Outside <- [r \in {"r1", "r2"} |-> IF r = "r1" THEN 21 ELSE 0],
  jobs <- v1, resv <- v2, submit <- v3, tickets <- v4, dying <- v5

DfInit == unit = "fences" /\ Df!Init /\ v6 = 0 /\ Zero7
DfStep == unit = "fences" /\ Df!Next /\ UNCHANGED <<unit, vars, v6, from7>>

(* Timeouts of a few ticks, one write of each sysfs file, eight ticks.     *)

St == INSTANCE SchedTimer WITH
  Ctxs <- {"c1", "c2"}, Compute <- {"c2"}, Hw9435 <- FALSE,
  Default <- [soft |-> 2, hard |-> 4, reset |-> 6], Period <- 2,
  Writes <- {[soft |-> 2, hard |-> 6, reset |-> 0], [soft |-> 0, hard |-> 9, reset |-> -1]},
  Periods <- {3}, Wrap <- 5, MaxWrites <- 1, MaxOwed <- 2, MaxTicks <- 8, FaultyPaths <- {},
  runnable <- v1, scheduled <- v2, turned <- v3, timer <- v4, suspend_timer <- v5, owed <- v6,
  sync <- v7, atom <- v8, ticks <- v9, period <- v10, asked <- v11, updated <- v12,
  writes <- v13, oops <- v14

ASSUME TimerAssumed == St!TimerAssumption
ASSUME FencesAssumed == Df!FenceAssumption
ASSUME SessionAssumed == Se!SessionAssumption

StInit == unit = "timer" /\ St!Init
StStep == unit = "timer" /\ St!Next /\ UNCHANGED <<unit, vars>>

(* Three atoms of one context or of two fail; one reader dumps twice.      *)

Jf == INSTANCE JobFault WITH
  Atoms <- {"a1", "a2", "a3"}, Ctx <- [a \in {"a1", "a2", "a3"} |-> "c1"],
  NoDump <- {}, Readers <- {"r1"}, MaxReads <- 2,
  atom <- v1, work <- v2, irq <- v3, job_fault_debug <- v4, event_list <- v5, count <- v6,
  resume_list <- v7, reader <- v8, event <- v9, reads <- v10, wrong <- v11, second <- v12,
  late <- v13

Jg == INSTANCE JobFault WITH
  Atoms <- {"a1", "a2", "a3"}, Ctx <- [a1 |-> "c1", a2 |-> "c1", a3 |-> "c2"],
  NoDump <- {}, Readers <- {"r1"}, MaxReads <- 2,
  atom <- v1, work <- v2, irq <- v3, job_fault_debug <- v4, event_list <- v5, count <- v6,
  resume_list <- v7, reader <- v8, event <- v9, reads <- v10, wrong <- v11, second <- v12,
  late <- v13

ASSUME FaultsAssumed == Jf!FaultAssumption /\ Jg!FaultAssumption

JgInit == unit = "job faults of two" /\ Jg!Init /\ v14 = 0
JgStep == unit = "job faults of two" /\ Jg!Next /\ UNCHANGED <<unit, vars, v14>>
JfInit == unit = "job faults" /\ Jf!Init /\ v14 = 0
JfStep == unit = "job faults" /\ Jf!Next /\ UNCHANGED <<unit, vars, v14>>

(* Two streams of three packets, one context, one reader in one session.   *)

Tl == INSTANCE TlStream WITH
  PacketCount <- 3, PacketSize <- 1, Contexts <- {"c1"}, MaxMessages <- 2, Sessions <- 1,
  ResetRaces <- FALSE,
  enabled <- v1, ring <- v2, op <- v3, at <- v4, kctx_list <- v5, list_lock <- v6,
  timer <- v7, reader <- v8, messages <- v9, sessions <- v10, log <- v11

TlInit == unit = "trace" /\ Tl!Init /\ Zero12
TlStep == unit = "trace" /\ Tl!Next /\ UNCHANGED <<unit, vars, from12>>
-----------------------------------------------------------------------------
UnitsInit ==
  \/ LcInit
  \/ NoDevice /\ (SeInit \/ CqInit \/ AfInit \/ DfInit \/ StInit \/ JfInit \/ JgInit \/ TlInit)

UnitsNext ==
  LcStep \/ SeStep \/ CqStep \/ AfStep \/ DfStep \/ StStep \/ JfStep \/ JgStep \/ TlStep

UnitsSpec == UnitsInit /\ [][UnitsNext]_allVars
-----------------------------------------------------------------------------
\* Whatever fails and in whatever order files are opened and closed, everything
\* taken is given back once, nothing is used after it is gone, and a context is
\* whole while it is open.  (kbase_platform_device_probe and _remove, kbase_open
\* and kbase_release)
DeviceWhole ==
  unit = "life cycle" => /\ TypeOK /\ NothingLeft /\ ReleasedOnce
                         /\ UsersAlive /\ ContextsWhole

\* User space gets each event once and in order, and nobody sleeps through the
\* last.  (kbase_event_post, kbase_event_dequeue, kbase_event_close)
EventsReported == unit = "session" => Se!EventsReported

\* The lists of contexts, their counts and attributes agree with the atoms, and
\* no context with an atom to run is left off its lists.  (kbase_js_*)
QueuesExact ==
  unit = "queues" => /\ Cq!AttrsExact /\ Cq!ListsExact /\ Cq!PriorityCovers
                     /\ Cq!NoneStranded /\ Cq!SubmitReturns

\* Cores are counted exactly, never shared by slots that must not share them,
\* powered under a running atom, and no atom waits for cores that cannot come.
\* (kbasep_js_job_check_ref_cores)
CoresExact ==
  unit = "affinity" => /\ Af!CountsExact /\ Af!SlotsApart
                       /\ Af!RunsWherePowered /\ Af!NeverStuck

\* dep_count counts the fences still to come, an atom runs only after the fences
\* on its buffers, and neither atoms nor the submitters that lock reservations
\* wait in a circle; a list is broken only by an atom whose callback ran before
\* it was counted, or that was found invalid late.  (kbase_dma_fence_wait)
FencesExact == unit = "fences" => Df!FencesExact

\* The scheduling timer runs when it is needed, and an atom is stopped after
\* the ticks that were asked for.  (timer_callback, set_js_timeouts)
TimeoutsKept == unit = "timer" => St!TimeoutsKept

\* Nothing held for a dump goes on before it is over, but where the fault came
\* while its context was let out of another dump; no context is held back for a
\* reader that left, but where the fault was posted after.
\* (kbase_debug_job_fault_process, debug_job_fault_release)
FaultsDumped ==
  /\ unit = "job faults" => Jf!DumpsUndisturbed /\ Jf!NobodyHeldForEver
  /\ unit = "job faults of two" => Jg!DumpsUndisturbed /\ Jg!NobodyHeldForEver

\* What the comments of the two say without these exceptions: the work item of
\* an atom is not queued twice, and what was held is rerun after the dump was
\* finished.  The code breaks both.  (kbase_dma_fence_queue_work,
\* kbase_job_fault_resume_worker)
QueuedOnce == unit = "fences" => Df!ItemQueuedOnce
RerunAfterDump == unit = "job faults" => Jf!NeverDisturbed

\* A reader gets the messages of each stream whole and in order, the summary
\* first, and each context announced once.  (kbase_tlstream_acquire, _read)
StreamExact ==
  unit = "trace" => /\ Tl!DeliveredIntact /\ Tl!SummaryFirst
                    /\ Tl!AnnouncedOnce /\ Tl!NothingForgotten
=============================================================================
