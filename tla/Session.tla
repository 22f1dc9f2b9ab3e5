------------------------------- MODULE Session -------------------------------
(***************************************************************************)
(* One open file of the driver as its threads see it: the handshake and    *)
(* set-up that open the ioctls (mali_kbase_core_linux.c), job submission   *)
(* up to the reuse of an atom number (kbase_jd_submit) and the event queue *)
(* that brings finished atoms back to read (mali_kbase_event.c).           *)
(*                                                                         *)
(* What becomes of an atom in between is one step here, End; jctx.lock is  *)
(* held over several steps only by the thread that posts.  Every accepted  *)
(* submission gets a serial number, so that what read returns can be told  *)
(* apart from what was posted for an earlier use of the same atom number.  *)
(***************************************************************************)
EXTENDS Integers, Sequences

CONSTANTS
  Atoms,        \* atom numbers
  Requests,     \* what core_req may say: "res" (external resources), "never",
                \* "failure" (only then an event), "coalesce"
  Threads,      \* threads that set the context up
  Readers,      \* threads that call kbase_read
  MaxSubmits,   \* bound: atoms accepted
  FaultyPaths   \* paths of the code that break a property, left out by default

VARIABLES
  gate,      \* kctx->api_version # 0, setup_in_progress, setup_complete
  setter,    \* where each setting-up thread is in kbase_api_set_flags
  latched,   \* how often the scheduler attributes were set from the flags
  atom,      \* struct kbase_jd_atom of every number
  submitter, \* the atom number kbase_jd_submit is at, or 0
  ended,     \* kctx->completed_jobs: counted out of job_nr, not posted yet
  poster,    \* the thread in kbase_event_post, which holds jctx.lock
  queue,     \* event_list, event_coalesce_list, event_count, event_closed
  workq,     \* event_workq
  reader,    \* kbase_read of each reader
  life,      \* "open", then kbase_destroy_context: "zapped", "cleaned"
  log        \* serials: as posted for a report, as taken off event_list, as reported

\* The context is not cleaned up while finished atoms are still to be posted.
SessionAssumption == MaxSubmits \in Nat /\ "late post" \notin FaultyPaths

vars == <<gate, setter, latched, atom, submitter, ended, poster, queue, workq,
          reader, life, log>>

Unused == [status |-> "unused", req |-> {}, failed |-> FALSE, serial |-> 0]
AtRest == [pc |-> "out", atom |-> 0, serial |-> 0]

Init ==
  /\ gate = [version |-> FALSE, busy |-> FALSE, complete |-> FALSE]
  /\ setter = [t \in Threads |-> "out"] /\ latched = 0
  /\ atom = [a \in Atoms |-> Unused] /\ submitter = 0
  /\ ended = <<>> /\ poster = "none"
  /\ queue = [list |-> <<>>, later |-> <<>>, count |-> 0, closed |-> FALSE]
  /\ workq = <<>> /\ reader = [r \in Readers |-> AtRest]
  /\ life = "open" /\ log = [posted |-> <<>>, taken |-> <<>>, told |-> <<>>]

jobVars == <<atom, submitter, ended, poster, queue, workq, reader, life, log>>
gateVars == <<gate, setter, latched>>

-----------------------------------------------------------------------------
(* The gate.                                                                *)

Open == gate.version /\ gate.complete /\ life = "open"

\* kbase_api_handshake.
Handshake ==
  /\ life = "open" /\ ~gate.version
  /\ gate' = [gate EXCEPT !.version = TRUE]
  /\ UNCHANGED <<setter, latched, jobVars>>

\* Mutant of SetFlags: the flag is looked at, and set when the set-up is done.
SetFlags_Late(t) ==
  /\ life = "open" /\ setter[t] = "out"
  /\ ~gate.busy /\ ~gate.complete
  /\ setter' = [setter EXCEPT ![t] = "in"]
  /\ UNCHANGED <<gate, latched, jobVars>>

\* kbase_api_set_flags: only the first caller gets past the exchange.
SetFlags(t) ==
  /\ life = "open" /\ setter[t] = "out"
  /\ ~gate.busy
  /\ gate' = [gate EXCEPT !.busy = TRUE]
  /\ setter' = [setter EXCEPT ![t] = "in"]
  /\ UNCHANGED <<latched, jobVars>>

\* kbase_context_set_create_flags; with flags it does not know the context
\* stays in set-up for good.
Latch(t) ==
  /\ setter[t] = "in"
  /\ \/ setter' = [setter EXCEPT ![t] = "set"] /\ latched' = latched + 1
     \/ setter' = [setter EXCEPT ![t] = "out"] /\ UNCHANGED latched
  /\ UNCHANGED <<gate, jobVars>>

SetupDone(t) ==
  /\ setter[t] = "set"
  /\ setter' = [setter EXCEPT ![t] = "out"]
  /\ gate' = [gate EXCEPT !.complete = TRUE]
  /\ UNCHANGED <<latched, jobVars>>

-----------------------------------------------------------------------------
(* Submission, and the end of an atom in the dispatcher.                    *)

JctxFree == poster = "none"

\* kbase_ioctl lets KBASE_IOCTL_JOB_SUBMIT through; the thread then waits for
\* the atom number without jctx.lock.
Submit(a) ==
  /\ Open /\ submitter = 0 /\ submitter' = a
  /\ UNCHANGED <<gateVars, atom, ended, poster, queue, workq, reader, life, log>>

\* Mutant of Reusable: an atom that has finished makes way for the next.
Reusable_Completed(a) == atom[a].status \in {"unused", "completed"}

Reusable(a) == atom[a].status = "unused"

NextSerial == CHOOSE n \in 1..MaxSubmits : \A a \in Atoms :
  atom[a].serial < n /\ (n = 1 \/ \E b \in Atoms : atom[b].serial = n - 1)

Accept ==
  /\ submitter # 0 /\ JctxFree /\ Reusable(submitter)
  /\ \A a \in Atoms : atom[a].serial < MaxSubmits
  /\ \E req \in Requests :
       atom' = [atom EXCEPT ![submitter] = [status |-> "running", req |-> req,
                                            failed |-> FALSE, serial |-> NextSerial]]
  /\ submitter' = 0
  /\ UNCHANGED <<gateVars, ended, poster, queue, workq, reader, life, log>>

\* wait_event_killable: the process is being killed.
Killed ==
  /\ submitter # 0 /\ ~Reusable(submitter) /\ submitter' = 0
  /\ UNCHANGED <<gateVars, atom, ended, poster, queue, workq, reader, life, log>>

\* jd_done_nolock: the atom leaves job_nr and goes to kctx->completed_jobs.
End(a) ==
  /\ JctxFree /\ atom[a].status = "running"
  /\ \E failed \in BOOLEAN :
       atom' = [atom EXCEPT ![a].status = "completed", ![a].failed = failed]
  /\ ended' = Append(ended, a)
  /\ UNCHANGED <<gateVars, submitter, poster, queue, workq, reader, life, log>>

-----------------------------------------------------------------------------
(* Posting, by the dispatcher with jctx.lock held.                          *)

\* kbase_event_process: the number may be used again, and who waits is woken.
Process(as, a) == [as EXCEPT ![a].status = "unused"]

Unreported(a) == "never" \in atom[a].req \/ ("failure" \in atom[a].req /\ ~atom[a].failed)

\* kbase_event_process_noreport: external resources are let go by the worker.
PostNothing(a) ==
  /\ Unreported(a)
  /\ \/ /\ "res" \in atom[a].req /\ workq' = Append(workq, a) /\ UNCHANGED atom
     \/ /\ "res" \notin atom[a].req /\ atom' = Process(atom, a) /\ UNCHANGED workq
  /\ UNCHANGED <<queue, log, poster>>

PostLater(a) ==
  /\ ~Unreported(a) /\ "coalesce" \in atom[a].req
  /\ queue' = [queue EXCEPT !.later = Append(@, a)]
  /\ log' = [log EXCEPT !.posted = Append(@, atom[a].serial)]
  /\ UNCHANGED <<atom, workq, poster>>

\* kbase_event_coalesce.
Coalesced(q) == [q EXCEPT !.list = @ \o q.later, !.later = <<>>,
                          !.count = @ + Len(q.later)]

\* Mutant of Report: the pending events join the list after the new one.
Report_Before(q, a) ==
  Coalesced([q EXCEPT !.list = Append(@, a), !.count = @ + 1])

Report(q, a) ==
  LET all == Coalesced(q)
  IN [all EXCEPT !.list = Append(@, a), !.count = @ + 1]

PostNow(a) ==
  /\ ~Unreported(a) /\ "coalesce" \notin atom[a].req
  /\ queue' = Report(queue, a)
  /\ log' = [log EXCEPT !.posted = Append(@, atom[a].serial)]
  /\ poster' = "wake"
  /\ UNCHANGED <<atom, workq>>

\* The last worker posts what the dispatcher has finished (kbase_jd_done_worker).
Post ==
  /\ JctxFree /\ ended # <<>>
  /\ ended' = Tail(ended)
  /\ PostNothing(Head(ended)) \/ PostLater(Head(ended)) \/ PostNow(Head(ended))
  /\ UNCHANGED <<gateVars, submitter, reader, life>>

Pending == queue.count # 0 \/ queue.closed   \* kbase_event_pending

\* kbase_event_wakeup; a reader that is woken looks again.
Wake ==
  /\ poster = "wake" /\ poster' = "none"
  /\ reader' = [r \in Readers |-> IF reader[r].pc = "asleep" /\ Pending
                                  THEN [reader[r] EXCEPT !.pc = "look"] ELSE reader[r]]
  /\ UNCHANGED <<gateVars, atom, submitter, ended, queue, workq, life, log>>

\* kbase_event_process_noreport_worker.
NoReportWorker ==
  /\ JctxFree /\ workq # <<>> /\ life # "cleaned"
  /\ atom' = Process(atom, Head(workq)) /\ workq' = Tail(workq)
  /\ UNCHANGED <<gateVars, submitter, ended, poster, queue, reader, life, log>>

\* kbase_api_post_term, kbase_event_close.
PostTerm ==
  /\ Open /\ JctxFree /\ ~queue.closed
  /\ queue' = [queue EXCEPT !.closed = TRUE] /\ poster' = "wake"
  /\ UNCHANGED <<gateVars, atom, submitter, ended, workq, reader, life, log>>

-----------------------------------------------------------------------------
(* kbase_read.  It asks for no set-up: an unready context has no events.    *)

Read(r) ==
  /\ life = "open" /\ reader[r].pc = "out"
  /\ reader' = [reader EXCEPT ![r].pc = "look"]
  /\ UNCHANGED <<gateVars, atom, submitter, ended, poster, queue, workq, life, log>>

\* Mutant of Taken: event_count is left to the end of the dequeue.
Taken_CountKept(q) == [q EXCEPT !.list = Tail(@)]

Taken(q) == [q EXCEPT !.list = Tail(@), !.count = @ - 1]

\* kbase_event_dequeue under event_mutex: the event of the oldest atom, the
\* end of a closed queue, nothing to a non-blocking or already served reader
\* ("out"), or else sleep.
Dequeue(r) ==
  /\ reader[r].pc = "look"
  /\ \/ /\ queue.list # <<>>
        /\ LET a == Head(queue.list)
           IN /\ reader' = [reader EXCEPT ![r] = [pc |-> "took", atom |-> a,
                                                  serial |-> atom[a].serial]]
              /\ log' = [log EXCEPT !.taken = Append(@, atom[a].serial)]
        /\ queue' = Taken(queue)
     \/ /\ queue.list = <<>>
        /\ \/ reader' = [reader EXCEPT ![r].pc = "out"]
           \/ ~queue.closed /\ ~Pending /\ reader' = [reader EXCEPT ![r].pc = "asleep"]
        /\ UNCHANGED <<queue, log>>
  /\ UNCHANGED <<gateVars, atom, submitter, ended, poster, workq, life>>

\* The rest of kbase_event_dequeue, under jctx.lock again, and the copy to
\* user space; the buffer may have room for more.
Deliver(r) ==
  /\ reader[r].pc = "took" /\ JctxFree
  /\ log' = [log EXCEPT !.told = Append(@, atom[reader[r].atom].serial)]
  /\ atom' = Process(atom, reader[r].atom)
  /\ \E pc \in {"look", "out"} : reader' = [reader EXCEPT ![r] = [AtRest EXCEPT !.pc = pc]]
  /\ UNCHANGED <<gateVars, submitter, ended, poster, queue, workq, life>>

Interrupted(r) ==
  /\ reader[r].pc = "asleep" /\ reader' = [reader EXCEPT ![r].pc = "out"]
  /\ UNCHANGED <<gateVars, atom, submitter, ended, poster, queue, workq, life, log>>

-----------------------------------------------------------------------------
(* kbase_destroy_context, when the last user of the file has gone.          *)

Zap ==
  /\ life = "open" /\ submitter = 0 /\ \A r \in Readers : reader[r].pc = "out"
  /\ \A t \in Threads : setter[t] = "out"
  /\ life' = "zapped"
  /\ UNCHANGED <<gateVars, atom, submitter, ended, poster, queue, workq, reader, log>>

\* kbase_event_cleanup once job_nr is zero.  Nothing in the code makes it wait
\* for kctx->completed_jobs to be posted too (the path "late post").
Cleanup ==
  /\ life = "zapped" /\ JctxFree /\ \A a \in Atoms : atom[a].status # "running"
  /\ ended = <<>> \/ "late post" \in FaultyPaths
  /\ workq = <<>>   \* flush_workqueue
  /\ LET left == Coalesced(queue).list
     IN /\ atom' = [a \in Atoms |-> IF \E i \in DOMAIN left : left[i] = a
                                    THEN Process(atom, a)[a] ELSE atom[a]]
        /\ log' = [log EXCEPT !.taken = @ \o [i \in DOMAIN left |-> atom[left[i]].serial]]
  /\ queue' = [queue EXCEPT !.list = <<>>, !.later = <<>>, !.count = 0]
  /\ life' = "cleaned"
  /\ UNCHANGED <<gateVars, submitter, ended, poster, workq, reader>>

Next ==
  \/ Handshake \/ (\E t \in Threads : SetFlags(t) \/ Latch(t) \/ SetupDone(t))
  \/ (\E a \in Atoms : Submit(a) \/ End(a)) \/ Accept \/ Killed
  \/ Post \/ Wake \/ NoReportWorker \/ PostTerm
  \/ \E r \in Readers : Read(r) \/ Dequeue(r) \/ Deliver(r) \/ Interrupted(r)
  \/ Zap \/ Cleanup

Spec == Init /\ [][Next]_vars

-----------------------------------------------------------------------------
Serial(as) == [i \in DOMAIN as |-> atom[as[i]].serial]

\* Events are reported in the order they were posted, each exactly once and
\* for the submission it was posted for, whatever mix of coalesced, silent and
\* reported atoms the threads finish while several of them read and numbers
\* are used again.
EventsInOrder ==
  /\ log.taken \o Serial(queue.list \o queue.later) = log.posted
  /\ \A i, j \in DOMAIN log.told : i # j => log.told[i] # log.told[j]
  /\ \A r \in Readers : reader[r].pc = "took" =>
       /\ atom[reader[r].atom].serial = reader[r].serial
       /\ atom[reader[r].atom].status = "completed"
  /\ queue.count = Len(queue.list)

\* A reader sleeps only while there is nothing to read, or its waker is on the
\* way; a finished atom is always on its way to user space, and an ended
\* context leaves no atom and no work behind.
NobodyForgotten ==
  /\ \A r \in Readers : reader[r].pc = "asleep" => ~Pending \/ poster = "wake"
  /\ \A a \in Atoms : atom[a].status = "completed" =>
       \/ \E s \in {ended, queue.list, queue.later, workq} : \E i \in DOMAIN s : s[i] = a
       \/ \E r \in Readers : reader[r].pc = "took" /\ reader[r].atom = a
  /\ life = "cleaned" => workq = <<>> /\ \A a \in Atoms : atom[a].status = "unused"

\* The scheduler's attributes are counted once per context however many threads
\* race to set it up, and no atom exists before they are.
SetUpOnce ==
  latched <= 1 /\ (latched = 0 => \A a \in Atoms : atom[a].status = "unused")

\* User space gets each event once and in order, and nobody sleeps through the
\* last.  (kbase_event_post, kbase_event_dequeue, kbase_event_close)
EventsReported == EventsInOrder /\ NobodyForgotten /\ SetUpOnce
=============================================================================
