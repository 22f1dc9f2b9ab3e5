----------------------------- MODULE SoftJobs_MC -----------------------------
(* Programs of SoftJobs for TLC. *)
EXTENDS SoftJobs

Job(k, x) == [kind |-> k, arg |-> x, dep |-> None, type |-> "order"]
After(k, x, d) == [kind |-> k, arg |-> x, dep |-> d, type |-> "order"]
Needs(k, x, d) == [kind |-> k, arg |-> x, dep |-> d, type |-> "data"]

\* Two waits for two events, one set by a job
EventProgram == <<Job("event_wait", "e1"), Job("event_wait", "e2"),
                  Job("event_set", "e1"), After("event_reset", "e1", 1)>>
\* A fence of somebody else, then our own and a dump
FenceProgram == <<Job("fence_wait", 0), After("fence_trigger", 0, 1),
                  Job("fence_wait", 2), After("dump", 0, 3)>>
\* An event releases a GPU atom, whose end signals a fence; the zap may fail it
GpuProgram == <<Job("event_wait", "e1"), After("gpu", 0, 1),
                Needs("fence_trigger", 0, 2), Job("fence_wait", 3)>>
\* The second allocation waits for the free of the first
JitProgram == <<Job("jit_alloc", "i1"), After("gpu", 0, 1),
                Needs("jit_free", "i1", 2), Job("jit_alloc", "i2"), After("jit_free", "i2", 4)>>
MC_Programs == {EventProgram, FenceProgram, GpuProgram, JitProgram}

\* The GPU atom the frees depend on fails
MC_Failing == {<<Job("jit_alloc", "i1"), After("gpu", 0, 1),
                 Needs("jit_free", "i1", 2), Job("jit_alloc", "i2")>>,
               <<Job("event_set", "e1"), After("gpu", 0, 1), Needs("fence_trigger", 0, 2)>>}
\* A fence wait that is not yet on the list when the context dies
MC_Dying == {<<Job("event_wait", "e1"), After("fence_wait", 0, 1)>>}
\* A dump that depends on a fence
MC_Dump == {<<Job("fence_wait", 0), After("dump", 0, 1)>>}
=============================================================================
