------------------------------ MODULE JobFault ------------------------------
(***************************************************************************)
(* The dump of faulty jobs (mali_kbase_debug_job_fault.c): while a debugfs *)
(* file is open, an atom that fails waits on a list until a daemon has     *)
(* read its registers, and the atoms of its context that end meanwhile are *)
(* held back, so that the memory can be dumped as it was.                  *)
(***************************************************************************)
EXTENDS Integers, Sequences

CONSTANTS
  Atoms, Ctx,      \* the atoms, and the context of each
  NoDump,          \* contexts without a register dump
  Readers,         \* the openers of the file: one, unless it is two daemons
  MaxReads         \* bound on the events read

None == "none"

\* One daemon reads the file; a second one would take its events.
FaultAssumption ==
  /\ None \notin Atoms
  /\ \A r, s \in Readers : r = s

VARIABLES
  atom,            \* where each atom is
  work,            \* job_fault_work of each atom
  irq,             \* the atom whose fault holds hwaccess_lock
  job_fault_debug,
  event_list,      \* job_fault_event_list
  count,           \* job_fault_count of each context
  resume_list,     \* job_fault_resume_event_list, with the event of the time
  reader, event,   \* where each reader is, and the event it copied
  reads,
  wrong,           \* dumps missed and disturbed, and lists of two users at once
  second,          \* faults met while the context was let out of another dump
  late             \* faults posted when the file was closed already

vars == <<atom, work, irq, job_fault_debug, event_list, count, resume_list,
          reader, event, reads, wrong, second, late>>
file == <<job_fault_debug, reader, event, reads>>

Contexts == {Ctx[a] : a \in Atoms}

Init ==
  /\ atom = [a \in Atoms |-> "running"] /\ work = [a \in Atoms |-> "no"]
  /\ irq = None /\ job_fault_debug = FALSE /\ event_list = <<>>
  /\ count = [c \in Contexts |-> 0] /\ resume_list = [c \in Contexts |-> <<>>]
  /\ reader = [r \in Readers |-> "closed"] /\ event = [r \in Readers |-> None]
  /\ reads = 0 /\ wrong = {} /\ second = {} /\ late = {}

Elements(s) == {s[k] : k \in DOMAIN s}

\* The event of a context that is being dumped: the first on the list.
Events(c) == {k \in DOMAIN event_list : Ctx[event_list[k]] = c}
EventOf(c) == IF Events(c) = {} THEN None
              ELSE event_list[CHOOSE k \in Events(c) : \A l \in Events(c) : k <= l]

\* The works of a context that have taken it out of its dump.
Resuming(c) == {a \in Atoms : Ctx[a] = c /\ work[a] \in {"woken", "emptying"}}

\* The list of held atoms has no lock.
Clash(c, others) == IF others = {} THEN {} ELSE {<<"two users", c>>}
-----------------------------------------------------------------------------
(* An atom ends: kbase_jd_done, under hwaccess_lock.                       *)

\* Mutant of Dumping: the count is not looked at.
Dumping_Ignored(c) == FALSE

\* Whether a fault of the context is waiting for its dump.
Dumping(c) == count[c] > 0

\* kbase_job_fault_event_queue on the list of the context, noting the event
\* that is being dumped.
Queued(a) ==
  [resume_list EXCEPT ![Ctx[a]] = Append(@, [atom |-> a, during |-> EventOf(Ctx[a])])]

\* kbase_debug_job_fault_process, up to the copy of the registers; an atom it
\* does not keep goes on to its bottom half.
Done(a, failed) ==
  LET c == Ctx[a]
      kept == failed /\ job_fault_debug /\ c \notin NoDump
  IN  /\ atom[a] = "running" /\ irq = None
      /\ \/ /\ Dumping(c)
            /\ resume_list' = Queued(a)
            /\ atom' = [atom EXCEPT ![a] = "held"]
            /\ wrong' = wrong \cup Clash(c, Resuming(c))
            /\ UNCHANGED <<irq, second>>
         \/ /\ ~Dumping(c) /\ kept
            /\ irq' = a
            /\ second' = IF Resuming(c) = {} THEN second ELSE second \cup {a}
            /\ UNCHANGED <<atom, resume_list, wrong>>
         \/ /\ ~Dumping(c) /\ ~kept
            /\ atom' = [atom EXCEPT ![a] = "ready"]
            /\ UNCHANGED <<irq, resume_list, wrong, second>>
      /\ UNCHANGED <<work, event_list, count, late, file>>

\* kbase_job_fault_event_post and the count: the work is queued on this CPU,
\* so it cannot run before the interrupt is over.
Post ==
  /\ irq # None
  /\ event_list' = Append(event_list, irq)
  /\ atom' = [atom EXCEPT ![irq] = "posted"]
  /\ work' = [work EXCEPT ![irq] = "waiting"]
  /\ count' = [count EXCEPT ![Ctx[irq]] = @ + 1]
  /\ irq' = None
  /\ late' = IF \A r \in Readers : reader[r] = "closed" THEN late \cup {irq} ELSE late
  /\ UNCHANGED <<resume_list, wrong, second, file>>

\* kbase_jd_done_worker from the workqueue of the context.
DoneWorker(a) ==
  /\ atom[a] = "ready" /\ irq = None
  /\ atom' = [atom EXCEPT ![a] = "done"]
  /\ UNCHANGED <<work, irq, event_list, count, resume_list, wrong, second, late, file>>
-----------------------------------------------------------------------------
(* kbase_job_fault_resume_worker.                                          *)

\* kbase_ctx_has_no_event_pending lets it go on.
ResumeWake(a) ==
  /\ work[a] = "waiting" /\ EventOf(Ctx[a]) = None
  /\ work' = [work EXCEPT ![a] = "woken"]
  /\ count' = [count EXCEPT ![Ctx[a]] = 0]
  /\ UNCHANGED <<atom, irq, event_list, resume_list, wrong, second, late, file>>

ResumeDone(a) ==
  /\ work[a] = "woken" /\ irq = None
  /\ atom' = [atom EXCEPT ![a] = "done"]
  /\ work' = [work EXCEPT ![a] = "emptying"]
  /\ UNCHANGED <<irq, event_list, count, resume_list, wrong, second, late, file>>

\* kbase_job_fault_resume_event_cleanup, one atom at a time.
ResumeNext(a) ==
  LET c == Ctx[a] IN
  /\ work[a] = "emptying" /\ irq = None /\ resume_list[c] # <<>>
  /\ LET e == Head(resume_list[c])
     IN  /\ atom' = [atom EXCEPT ![e.atom] = "done"]
         /\ wrong' = wrong \cup Clash(c, Resuming(c) \ {a})
              \cup (IF e.during # None /\ e.during = EventOf(c)
                    THEN {<<"disturbed", e.during>>} ELSE {})
  /\ resume_list' = [resume_list EXCEPT ![c] = Tail(@)]
  /\ UNCHANGED <<work, irq, event_list, count, second, late, file>>

\* Mutant of Emptied: the worker ends after the first atom.
Emptied_One(c) == Len(resume_list[c]) <= 1

\* There is nothing left to release.
Emptied(c) == resume_list[c] = <<>>

ResumeEnd(a) ==
  /\ work[a] = "emptying" /\ Emptied(Ctx[a])
  /\ work' = [work EXCEPT ![a] = "no"]
  /\ UNCHANGED <<atom, irq, event_list, count, resume_list, wrong, second, late, file>>
-----------------------------------------------------------------------------
(* The file.                                                               *)

Open(r) ==
  /\ reader[r] = "closed"
  /\ reader' = [reader EXCEPT ![r] = "open"] /\ job_fault_debug' = TRUE
  /\ UNCHANGED <<atom, work, irq, event_list, count, resume_list, event, reads,
                 wrong, second, late>>

Goto(r, pc) ==
  /\ reader' = [reader EXCEPT ![r] = pc]
  /\ UNCHANGED <<atom, work, irq, job_fault_debug, count, resume_list, second, late>>

\* debug_job_fault_start at offset zero: wait for an event.
ReadWait(r) ==
  /\ reader[r] = "open" /\ reads < MaxReads
  /\ reads' = reads + 1
  /\ Goto(r, "waiting") /\ UNCHANGED <<event_list, event, wrong>>

ReadWoken(r) ==
  /\ reader[r] = "waiting" /\ event_list # <<>>
  /\ Goto(r, "woken") /\ UNCHANGED <<event_list, event, reads, wrong>>

\* A signal ends the wait; the stop function that follows takes it for the
\* end of a dump.
Interrupted(r) ==
  /\ reader[r] = "waiting" /\ event_list = <<>>
  /\ Goto(r, "stopping") /\ UNCHANGED <<event_list, event, reads, wrong>>

\* kbase_job_fault_event_wait copies the first event, with no second look.
ReadCopy(r) ==
  /\ reader[r] = "woken"
  /\ IF event_list = <<>>
       THEN wrong' = wrong \cup {<<"missed", None>>} /\ UNCHANGED event
       ELSE event' = [event EXCEPT ![r] = Head(event_list)] /\ UNCHANGED wrong
  /\ Goto(r, "showing") /\ UNCHANGED <<event_list, reads>>

\* debug_job_fault_show up to the termination flag.
ReadShow(r) ==
  /\ reader[r] = "showing"
  /\ Goto(r, "ended") /\ UNCHANGED <<event_list, event, reads, wrong>>

\* Mutant of Dequeued: the event is left on the list.
Dequeued_Not == event_list

\* kbase_job_fault_event_dequeue, if there is something to take off.
Dequeued == IF event_list = <<>> THEN <<>> ELSE Tail(event_list)

\* debug_job_fault_stop of the read that finds the end of the file, or of one
\* that has nothing to show; the latter gives up an event unread.
ReadStop(r) ==
  /\ reader[r] \in {"ended", "stopping"}
  /\ event_list' = Dequeued
  /\ event' = [event EXCEPT ![r] = None]
  /\ wrong' = IF reader[r] = "ended" /\ event_list # <<>> /\ Head(event_list) # event[r]
              THEN wrong \cup {<<"missed", Head(event_list)>>} ELSE wrong
  /\ Goto(r, "over") /\ UNCHANGED reads

\* The daemon seeks back; or it reads once more, which stops once more.
ReadAgain(r) ==
  /\ reader[r] = "over"
  /\ Goto(r, "open") \/ Goto(r, "stopping")
  /\ UNCHANGED <<event_list, event, reads, wrong>>

\* debug_job_fault_release, which an interrupt about to post does not hold up.
Close(r) ==
  /\ reader[r] \in {"open", "ended", "over"}
  /\ job_fault_debug' = FALSE
  /\ reader' = [reader EXCEPT ![r] = "closing"]
  /\ event' = [event EXCEPT ![r] = None]
  /\ UNCHANGED <<atom, work, irq, event_list, count, resume_list, reads,
                 wrong, second, late>>

\* kbase_job_fault_event_cleanup, which lets go of the lock between two.
CloseNext(r) ==
  /\ reader[r] = "closing" /\ event_list # <<>>
  /\ event_list' = Tail(event_list)
  /\ UNCHANGED <<atom, work, irq, job_fault_debug, count, resume_list, reader,
                 event, reads, wrong, second, late>>

CloseEnd(r) ==
  /\ reader[r] = "closing" /\ event_list = <<>>
  /\ Goto(r, "closed") /\ UNCHANGED <<event_list, event, reads, wrong>>
-----------------------------------------------------------------------------
Next ==
  \/ \E a \in Atoms : \/ \E failed \in BOOLEAN : Done(a, failed)
                      \/ DoneWorker(a) \/ ResumeWake(a) \/ ResumeDone(a)
                      \/ ResumeNext(a) \/ ResumeEnd(a)
  \/ Post
  \/ \E r \in Readers : \/ Open(r) \/ ReadWait(r) \/ ReadWoken(r) \/ Interrupted(r)
                        \/ ReadCopy(r) \/ ReadShow(r) \/ ReadStop(r) \/ ReadAgain(r)
                        \/ Close(r) \/ CloseNext(r) \/ CloseEnd(r)

Spec == Init /\ [][Next]_vars
-----------------------------------------------------------------------------
\* A read that showed an event gives up that one, and finds the one it was woken
\* for; a context has one event at a time.  The dump of a fault is disturbed -
\* an atom held for its sake is released before it is over - only if the fault
\* came while the context was still being let out of its last dump, and only
\* then is the list of held atoms used by two at once.
DumpsUndisturbed ==
  /\ \A w \in wrong :
       \/ w[1] = "disturbed" /\ w[2] \in second
       \/ w[1] = "two users" /\ \E a \in second : Ctx[a] = w[2]
  /\ \A c \in Contexts : \A k, l \in Events(c) : k = l

\* The same without the exception: what was held during a dump is rerun `after
\* the dump was finished'.
NeverDisturbed == \A w \in wrong : w[1] # "disturbed"

\* Nobody is held without a reason: an event is on the list only while somebody
\* can read it, or if it was posted once the file had been closed; a context is
\* held only by a work that waits for that event, and the atoms it holds are
\* released by such a work.
NobodyHeldForEver ==
  /\ (\A r \in Readers : reader[r] = "closed") => Elements(event_list) \subseteq late
  /\ \A c \in Contexts :
       LET pending == \E a \in Atoms : Ctx[a] = c /\ work[a] # "no"
       IN  /\ count[c] > 0 => pending
           /\ resume_list[c] # <<>> => pending
=============================================================================
