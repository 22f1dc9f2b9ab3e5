------------------------------- MODULE JobDeps -------------------------------
(***************************************************************************)
(* The job dispatcher of one context (mali_kbase_jd.c), the per-slot atom   *)
(* queues of the job scheduler (the dependency half of mali_kbase_js.c) and *)
(* the two-entry slot ring buffers they feed (the ordering half of          *)
(* backend/gpu/mali_kbase_jm_rb.c).                                         *)
(*                                                                         *)
(* Four parties run: the submitting ioctl and the zap, which take          *)
(* jctx.lock; the ordered work queue job_done_wq, which takes it too; and   *)
(* the job interrupt, which takes only hwaccess_lock and so runs between    *)
(* any two steps of a dispatcher pass.  A dispatcher pass (jd_done_nolock)  *)
(* is a loop over two lists; `jd' holds them, one action per iteration.     *)
(*                                                                         *)
(* Atom numbers are used once and in order, so a number is also an age.     *)
(* One scheduling priority; every failing event code is "fail".             *)
(***************************************************************************)
EXTENDS Integers, Sequences, FiniteSets, SequencesExt

CONSTANTS
  NumAtoms,   \* atoms 1..NumAtoms are submitted in this order
  Jobs,       \* Jobs[a]: the submissions user space may make for atom a
  Rerun       \* whether BASE_HW_ISSUE_10969 may send a failed atom back

Atoms == 1..NumAtoms
NoAtom == 0   \* atom number 0 means "no dependency" in base_jd_atom_v2
Slots == {"js0", "js1"}
None == [id |-> NoAtom, type |-> "order"]
Deps == [id : Atoms \cup {NoAtom}, type : {"data", "order"}]
JobRecords == [kind : Slots \cup {"soft", "dep"}, valid : BOOLEAN, pre : [1..2 -> Deps]]

ASSUME JobDepsAssumption ==
  /\ NumAtoms \in Nat \ {0}
  /\ Rerun \in BOOLEAN
  /\ Jobs \in [Atoms -> SUBSET JobRecords]

VARIABLES
  atom,       \* struct kbase_jd_atom of every atom number
  tree,       \* atoms in the runnable trees of the context's slots
  rb,         \* rb[js]: slot_rb[js], at most SLOT_RB_SIZE atoms
  wq,         \* job_done_wq: items [job, id]
  submit,     \* the context's bit in runpool_irq.submit_allowed
  workCount,  \* kctx->work_count
  jd,         \* the jd_done_nolock in progress under jctx.lock
  worker,     \* what the work queue is doing besides a dispatcher pass
  next,       \* the next atom number to submit
  jobNr,      \* jctx.job_nr
  completed,  \* kctx->completed_jobs
  posted,     \* posted[a]: events posted to user space for atom a
  scheduled,  \* KCTX_SCHEDULED
  dying,      \* KCTX_DYING
  zap         \* progress of kbase_jd_zap_context

jsVars == <<atom, tree, rb, wq, submit, workCount>>
ctxVars == <<scheduled, dying, zap>>
userVars == <<next, jobNr, completed, posted>>
vars == <<atom, tree, rb, wq, submit, workCount, jd, worker, next, jobNr,
          completed, posted, scheduled, dying, zap>>

UnusedAtom ==
  [kind |-> "dep", pre |-> <<None, None>>, status |-> "unused", event |-> "fail",
   wf |-> FALSE, dep |-> <<None, None>>, preDep |-> NoAtom, postDep |-> NoAtom,
   xPre |-> NoAtom, xPost |-> NoAtom, flags |-> {}, rbState |-> "none", blocked |-> FALSE]

Idle == [by |-> "none", done |-> <<>>, run |-> <<>>, cur |-> NoAtom]

Init ==
  /\ atom = [a \in Atoms |-> UnusedAtom]
  /\ tree = {} /\ rb = [js \in Slots |-> <<>>] /\ wq = <<>>
  /\ submit = FALSE /\ workCount = 0
  /\ jd = Idle /\ worker = [pc |-> "idle", id |-> NoAtom]
  /\ next = 1 /\ jobNr = 0 /\ completed = <<>> /\ posted = [a \in Atoms |-> 0]
  /\ scheduled = FALSE /\ dying = FALSE /\ zap = "no"

-----------------------------------------------------------------------------
(* What hwaccess_lock protects, as one value: the helpers below take such a *)
(* state and return the next one, so that a handler is their composition.   *)

S == [atom |-> atom, tree |-> tree, rb |-> rb, wq |-> wq,
      submit |-> submit, workCount |-> workCount]

Becomes(st) ==
  /\ atom' = st.atom /\ tree' = st.tree /\ rb' = st.rb
  /\ wq' = st.wq /\ submit' = st.submit /\ workCount' = st.workCount

IsGpu(st, a) == st.atom[a].kind \in Slots

\* The members of a set of atoms, oldest first.
ByAge(set) ==
  [n \in 1..Cardinality(set) |->
     CHOOSE a \in set : Cardinality({b \in set : b < a}) = n - 1]

\* jsctx_rb_peek: the oldest atom in the slot's runnable tree.
Peek(st, js) ==
  LET mine == {a \in st.tree : st.atom[a].kind = js}
  IN  IF mine = {} THEN NoAtom ELSE ByAge(mine)[1]

\* kbase_gpu_dequeue_atom
Dequeue(st, js) ==
  [st EXCEPT !.rb[js] = Tail(@), !.atom[Head(st.rb[js])].rbState = "none"]

\* kbase_js_unpull: back into the tree, blocked until the return worker ran.
Unpull(st, a) ==
  [st EXCEPT !.tree = @ \cup {a}, !.atom[a].blocked = TRUE,
             !.wq = Append(@, [job |-> "return", id |-> a])]

\* kbase_js_move_to_tree: a and its same-slot dependants, up to one that
\* still waits for the other slot.
MoveToTree(st, a) ==
  LET goes == {b \in Atoms : "x_dep_blocked" \notin st.atom[b].flags}
      Chain(s) == {a} \cap goes \subseteq s /\ \A b \in s : {st.atom[b].postDep} \cap goes \subseteq s
      moved == {b \in goes : \A s \in SUBSET Atoms : Chain(s) => b \in s}
  IN  [st EXCEPT !.tree = @ \cup moved,
                 !.atom = [b \in Atoms |->
                    LET r == st.atom[b]
                    IN  IF b \in moved
                        THEN [r EXCEPT !.flags = (r.flags \ {"in_x_dep_list"}) \cup {"in_tree"}]
                        ELSE r]]

\* Mutant of EvictDeps: a failed cross-slot dependency only unblocks.
EvictDeps_XNeverFails(st, a) ==
  LET x == st.atom[a].xPost
      marked == [st EXCEPT !.atom = [b \in Atoms |->
                  LET r == st.atom[b]
                  IN  [r EXCEPT !.wf = r.wf \/ b = st.atom[a].postDep,
                                !.flags = IF b = x THEN r.flags \ {"x_dep_blocked"} ELSE r.flags]]]
  IN  IF x # NoAtom THEN MoveToTree(marked, x) ELSE marked

\* kbase_js_evict_deps: the failure of atom a reaches the atoms the ring
\* buffers know to depend on it.
EvictDeps(st, a) ==
  LET x == st.atom[a].xPost
      hasX == x # NoAtom /\ st.atom[x].flags \cap {"in_tree", "in_x_dep_list"} # {}
      fails == {st.atom[a].postDep} \cup
               (IF hasX /\ "fail_blocker" \in st.atom[x].flags THEN {x} ELSE {})
      marked == [st EXCEPT !.atom = [b \in Atoms |->
                  LET r == st.atom[b]
                  IN  [r EXCEPT !.wf = r.wf \/ b \in fails,
                                !.flags = IF hasX /\ b = x THEN r.flags \ {"x_dep_blocked"} ELSE r.flags]]]
  IN  IF hasX /\ "in_x_dep_list" \in st.atom[x].flags THEN MoveToTree(marked, x) ELSE marked

\* kbase_js_complete_atom: the hardware is done with atom a.
CompleteAtom(st, a) ==
  LET event == IF st.atom[a].wf THEN "fail" ELSE st.atom[a].event
      x == st.atom[a].xPost
      hw == [st EXCEPT !.atom[a].event = event, !.atom[a].status = "hw_completed"]
      evicted == IF event = "done" THEN hw ELSE EvictDeps(hw, a)
      \* kbase_jd_done
      sent == [evicted EXCEPT !.workCount = @ + 1,
                              !.wq = Append(@, [job |-> "done", id |-> a])]
      unblocks == /\ x # NoAtom
                  /\ event = "done" \/ "fail_blocker" \notin sent.atom[x].flags
                  /\ "x_dep_blocked" \in sent.atom[x].flags
  IN  IF unblocks
      THEN MoveToTree([sent EXCEPT !.atom[x].flags = @ \ {"x_dep_blocked"}], x)
      ELSE sent

\* kbase_jm_return_atom_to_js
ReturnToJs(st, a) ==
  IF st.atom[a].event = "stopped" THEN Unpull(st, a) ELSE CompleteAtom(st, a)

HasDep(st, a) ==
  \/ st.atom[a].preDep # NoAtom
  \/ st.atom[a].flags \cap {"x_dep_blocked", "fail_blocker"} # {}

-----------------------------------------------------------------------------
(* The slot ring buffers.  kbase_backend_slot_update ends every handler; an *)
(* atom it can return to the scheduler it returns at once, before any other *)
(* holder of hwaccess_lock runs (Settled).  How long an atom waits for its  *)
(* cores or a protected mode switch is up to the power manager.             *)

MustReturn(js) == rb[js] # <<>> /\ atom[Head(rb[js])].rbState = "return"
Settled == \A js \in Slots : ~MustReturn(js)

ReturnHead(js) ==
  /\ MustReturn(js)
  /\ Becomes(ReturnToJs(Dequeue(S, js), Head(rb[js])))
  /\ UNCHANGED <<jd, worker, userVars, ctxVars>>

\* Mutant of Pull: no look at how full the slot is.
Pull_NoRoom(js) ==
  LET a == Peek(S, js) IN
  /\ Settled /\ scheduled /\ submit
  /\ a # NoAtom /\ ~atom[a].blocked
  /\ Becomes([S EXCEPT !.tree = @ \ {a}, !.rb[js] = Append(@, a),
                       !.atom[a].rbState = "waiting"])
  /\ UNCHANGED <<jd, worker, userVars, ctxVars>>

\* kbase_js_pull and kbase_gpu_enqueue_atom
Pull(js) ==
  LET a == Peek(S, js) IN
  /\ Settled /\ scheduled /\ submit
  /\ Len(rb[js]) < 2
  /\ a # NoAtom /\ ~atom[a].blocked
  /\ "x_dep_blocked" \in atom[a].flags =>
       /\ atom[atom[a].xPre].rbState # "none" /\ ~atom[atom[a].xPre].wf
       /\ "fail_blocker" \in atom[a].flags => rb[js] = <<>>
  /\ Becomes([S EXCEPT !.tree = @ \ {a}, !.rb[js] = Append(@, a),
                       !.atom[a].rbState = "waiting"])
  /\ UNCHANGED <<jd, worker, userVars, ctxVars>>

\* Mutant of LeaveWaiting: the failure mark is not looked at.
LeaveWaiting_IgnoresMark(js, i) ==
  LET a == rb[js][i] IN
  /\ Settled
  /\ atom[a].rbState = "waiting" /\ "x_dep_blocked" \notin atom[a].flags
  /\ Becomes([S EXCEPT !.atom[a].rbState = "ready"])
  /\ UNCHANGED <<jd, worker, userVars, ctxVars>>

\* kbase_backend_slot_update: the atom's cores are on, or it was marked to
\* fail while it waited and is returned without running.  Both entries pass
\* the same protected mode gates and the head is looked at first, so the
\* second never overtakes a head that is to be returned.
LeaveWaiting(js, i) ==
  LET a == rb[js][i] IN
  /\ Settled
  /\ atom[a].rbState = "waiting" /\ "x_dep_blocked" \notin atom[a].flags
  /\ i = 2 /\ atom[rb[js][1]].rbState = "waiting" => ~atom[rb[js][1]].wf
  /\ IF ~atom[a].wf
     THEN Becomes([S EXCEPT !.atom[a].rbState = "ready"])
     ELSE LET done == [S EXCEPT !.atom[a].event = "done", !.atom[a].rbState = "return"]
          IN  Becomes(IF i = 1 THEN ReturnToJs(Dequeue(done, js), a) ELSE done)
  /\ UNCHANGED <<jd, worker, userVars, ctxVars>>

SubmitHw(js, i) ==
  LET a == rb[js][i] IN
  /\ Settled
  /\ atom[a].rbState = "ready"
  /\ i = 2 => atom[rb[js][1]].rbState = "submitted"
  /\ Becomes([S EXCEPT !.atom[a].rbState = "submitted"])
  /\ UNCHANGED <<jd, worker, userVars, ctxVars>>

\* kbase_gpu_irq_evict: a dependent atom in the NEXT registers is taken out.
IrqEvict(st, js) ==
  LET q == st.rb[js] IN
  IF Len(q) = 2 /\ st.atom[q[2]].rbState = "submitted" /\ HasDep(st, q[2])
  THEN [st EXCEPT !.atom[q[2]].rbState = "ready"] ELSE st

\* The loop of kbase_gpu_complete_hw after a failure: dependent atoms that
\* are not on the GPU leave the ring buffers.
RemoveDependents(st, js) ==
  LET q == st.rb[js]
      Removable(i) == /\ i <= Len(q) /\ HasDep(st, q[i])
                      /\ st.atom[q[i]].rbState # "submitted"
      Stopped(s, a) == [s EXCEPT !.atom[a].event = "stopped"]
  IN  IF Removable(1)
      THEN LET one == Dequeue(st, js)
               two == IF Len(q) = 2 /\ HasDep(st, q[2])
                      THEN Unpull(Stopped(Dequeue(one, js), q[2]), q[2]) ELSE one
           IN  Unpull(Stopped(two, q[1]), q[1])
      ELSE IF Removable(2)
      THEN [Stopped(st, q[2]) EXCEPT !.atom[q[2]].rbState = "return"]
      ELSE st

\* kbase_gpu_complete_hw, from kbase_job_done: the job at the head of the
\* slot finished or failed (a hard stop is a failure too).
CompleteHw(js, event) ==
  LET a == rb[js][1] IN
  /\ Settled
  /\ rb[js] # <<>> /\ atom[a].rbState = "submitted"
  /\ LET gone == Dequeue(IF event = "fail" THEN IrqEvict(S, js) ELSE S, js)
         clean == IF event = "fail"
                  THEN RemoveDependents(RemoveDependents(
                         [gone EXCEPT !.submit = FALSE], "js0"), "js1")
                  ELSE gone
     IN  Becomes(CompleteAtom([clean EXCEPT !.atom[a].event = event], a))
  /\ UNCHANGED <<jd, worker, userVars, ctxVars>>

-----------------------------------------------------------------------------
(* Handing an atom to the job scheduler: kbasep_js_add_job.                 *)

\* Mutant of Representable: a dependency already in a slot is accepted.
Representable_IgnoresSlot(st, a) ==
  LET Pre(d) == st.atom[a].dep[d].id
      Same(d) == st.atom[Pre(d)].kind = st.atom[a].kind
      waits == {d \in 1..2 : Pre(d) # NoAtom}
  IN  /\ \A d \in waits : st.atom[Pre(d)].status \in {"in_js", "hw_completed"}
      /\ waits = 1..2 => Same(1) # Same(2)

\* kbase_js_dep_validate, the checks: can the slot queues express what is
\* left of the atom's dependencies?
Representable(st, a) ==
  LET Pre(d) == st.atom[a].dep[d].id
      Same(d) == st.atom[Pre(d)].kind = st.atom[a].kind
      waits == {d \in 1..2 : Pre(d) # NoAtom}
  IN  /\ \A d \in waits :
           /\ "in_tree" \in st.atom[Pre(d)].flags
           /\ Same(d) => st.atom[Pre(d)].postDep = NoAtom
           /\ ~Same(d) => /\ st.atom[Pre(d)].xPost = NoAtom
                          /\ st.atom[Pre(d)].rbState = "none"
                          /\ st.atom[Pre(d)].status = "in_js"
      /\ waits = 1..2 => Same(1) # Same(2)

\* kbase_js_dep_validate, the rest: hand the dependencies over.  An order
\* dependency on the same slot needs nothing but the age order of the tree.
LinkDeps(st, a) ==
  LET pre == st.atom[a].dep
      Same(d) == st.atom[pre[d].id].kind = st.atom[a].kind
      cross == {d \in 1..2 : pre[d].id # NoAtom /\ ~Same(d)}
      same == {d \in 1..2 : pre[d].id # NoAtom /\ Same(d) /\ pre[d].type = "data"}
      data == \E d \in cross : pre[d].type = "data"
  IN  [st EXCEPT !.atom = [b \in Atoms |->
        LET r == st.atom[b]
        IN  IF b = a
            THEN [r EXCEPT
                   !.dep = <<None, None>>,
                   !.flags = r.flags \cup (IF cross # {} THEN {"x_dep_blocked"} ELSE {})
                                     \cup (IF data THEN {"fail_blocker"} ELSE {}),
                   !.xPre = IF cross = {} THEN r.xPre ELSE pre[CHOOSE d \in cross : TRUE].id,
                   !.preDep = IF same = {} THEN r.preDep ELSE pre[CHOOSE d \in same : TRUE].id]
            ELSE [r EXCEPT
                   !.xPost = IF \E d \in cross : pre[d].id = b THEN a ELSE r.xPost,
                   !.postDep = IF \E d \in same : pre[d].id = b THEN a ELSE r.postDep]]]

\* kbase_js_dep_resolved_submit
Enqueue(st, a) ==
  IF \/ "x_dep_blocked" \in st.atom[a].flags
     \/ st.atom[a].preDep # NoAtom /\ "in_x_dep_list" \in st.atom[st.atom[a].preDep].flags
  THEN [st EXCEPT !.atom[a].flags = @ \cup {"in_x_dep_list"}]
  ELSE [st EXCEPT !.atom[a].flags = @ \cup {"in_tree"}, !.tree = @ \cup {a}]

AddJob(st, a) ==
  IF Representable(st, a)
  THEN Enqueue(LinkDeps([st EXCEPT !.atom[a].status = "in_js"], a), a)
  ELSE [st EXCEPT !.atom[a].status = "queued"]

-----------------------------------------------------------------------------
(* A pass of jd_done_nolock, under jctx.lock.                               *)

JctxFree == jd.by = "none" /\ zap # "soft"

\* Mutant of StartDone: an atom failed early stays on its dependencies' lists.
StartDone_KeepsDeps(st, a) == [st EXCEPT !.atom[a].status = "completed"]

\* Entry: the finished atom forgets what it still waited for.
StartDone(st, a) == [st EXCEPT !.atom[a].dep = <<None, None>>, !.atom[a].status = "completed"]
Pass(by, a) == [by |-> by, done |-> <<a>>, run |-> <<>>, cur |-> NoAtom]

\* jd_resolve_dep(out_list, katom, d): r holds the atoms and the out_list.
ResolveDep(r, k, d) ==
  LET heads == {a \in Atoms : r.atom[a].dep[d].id = k}
      Failed(a) == r.atom[k].event # "done" /\ r.atom[a].dep[d].type = "data"
      after == [a \in Atoms |->
                 IF a \in heads
                 THEN [r.atom[a] EXCEPT !.dep[d] = None,
                                        !.event = IF Failed(a) THEN r.atom[k].event ELSE @,
                                        !.wf = @ \/ Failed(a)]
                 ELSE r.atom[a]]
      Other(a) == after[a].dep[3 - d].id
      ready == {a \in heads :
                 /\ a \notin Range(r.run)
                 /\ \/ Other(a) = NoAtom
                    \/ /\ after[a].kind \in Slots /\ ~dying
                       /\ ~after[a].wf /\ ~after[Other(a)].wf}
  IN  [atom |-> after, run |-> r.run \o ByAge(ready)]

\* The outer loop takes the last atom of completed_jobs.
Resolve ==
  /\ jd.done # <<>> /\ jd.cur = NoAtom
  /\ LET k == Last(jd.done)
         r == ResolveDep(ResolveDep([atom |-> atom, run |-> <<>>], k, 1), k, 2)
     IN  /\ atom' = r.atom
         /\ jd' = [jd EXCEPT !.done = Front(@), !.cur = k, !.run = r.run]
  /\ UNCHANGED <<tree, rb, wq, submit, workCount, worker, userVars, ctxVars>>

\* is_dep_valid
IsDepValid(st, p) ==
  \/ p = NoAtom
  \/ /\ st.atom[p].status \in {"in_js", "hw_completed", "completed"}
     /\ st.atom[p].status # "in_js" => st.atom[p].event = "done" /\ ~st.atom[p].wf

\* jd_try_submitting_deps: dependants of an atom that just entered the
\* scheduler go to the front of the runnable list.
TryDeps(st, run, node) ==
  LET Fits(d) == {a \in Atoms :
                   /\ st.atom[a].dep[d].id = node /\ IsGpu(st, a)
                   /\ \A e \in 1..2 : IsDepValid(st, st.atom[a].dep[e].id)}
      first == Fits(1) \ Range(run)
      second == (Fits(2) \ Range(run)) \ first
  IN  Reverse(ByAge(second)) \o Reverse(ByAge(first)) \o run

\* kbase_process_soft_job: done at once, or left waiting.
SoftOutcomes(st, a) ==
  {[st EXCEPT !.atom[a].status = "completed", !.atom[a].event = e] : e \in {"done", "fail"}}
    \cup {[st EXCEPT !.atom[a].flags = @ \cup {"waiting"}]}

\* jd_run_atom
RunOutcomes(st, a) ==
  CASE st.atom[a].kind = "dep" -> {[st EXCEPT !.atom[a].status = "completed"]}
    [] st.atom[a].kind = "soft" ->
         IF st.atom[a].wf THEN {[st EXCEPT !.atom[a].status = "completed"]}
                          ELSE SoftOutcomes(st, a)
    [] OTHER -> {AddJob(st, a)}

\* The inner loop takes the first atom of runnable_jobs.
RunNode ==
  /\ jd.run # <<>>
  /\ LET a == Head(jd.run) IN
     \E st \in IF dying
               THEN {[S EXCEPT !.atom[a].event = atom[jd.cur].event,
                               !.atom[a].status = "completed"]}
               ELSE RunOutcomes(S, a) :
       /\ Becomes(st)
       /\ jd' = [jd EXCEPT
                  !.done = IF st.atom[a].status = "completed" THEN Append(@, a) ELSE @,
                  !.run = IF st.atom[a].status = "in_js" /\ ~st.atom[a].wf
                          THEN TryDeps(st, Tail(@), a) ELSE Tail(@)]
  /\ Settled
  /\ UNCHANGED <<worker, userVars, ctxVars>>

\* The end of the outer loop's body: report the atom, count it off.
FinishCur ==
  /\ jd.cur # NoAtom /\ jd.run = <<>>
  /\ IF jd.by = "worker"
     THEN completed' = Append(completed, jd.cur) /\ UNCHANGED posted
     ELSE posted' = [posted EXCEPT ![jd.cur] = @ + 1] /\ UNCHANGED completed
  /\ jobNr' = jobNr - 1
  /\ jd' = IF jd.done = <<>> THEN Idle ELSE [jd EXCEPT !.cur = NoAtom]
  /\ worker' = IF jd.done # <<>> THEN worker
               ELSE CASE jd.by = "worker" -> [worker EXCEPT !.pc = "release"]
                      [] jd.by = "cancel" -> [worker EXCEPT !.pc = "idle"]
                      [] OTHER -> worker
  /\ UNCHANGED <<jsVars, next, ctxVars>>

-----------------------------------------------------------------------------
(* jd_submit_atom.                                                          *)

Submit(job) ==
  LET a == next
      new == [UnusedAtom EXCEPT !.kind = job.kind, !.pre = job.pre,
                                !.status = "queued", !.event = "done"]
      Pre(d) == job.pre[d].id
      Over(d) == Pre(d) = NoAtom \/ atom[Pre(d)].status \in {"unused", "completed"}
      failing == {d \in 1..2 : Pre(d) # NoAtom /\ Over(d)
                               /\ atom[Pre(d)].event # "done" /\ job.pre[d].type = "data"}
      linked == [S EXCEPT !.atom[a] =
                  [new EXCEPT !.dep = [d \in 1..2 |-> IF Over(d) THEN None ELSE job.pre[d]],
                              !.event = IF failing = {} THEN "done" ELSE "fail"]]
      queued == \E d \in 1..2 : ~Over(d)
      Done(st) == /\ Becomes(StartDone(st, a)) /\ jd' = Pass("submit", a)
      Left(st) == /\ Becomes(st) /\ UNCHANGED jd
  IN
  /\ ~dying /\ JctxFree /\ Settled
  /\ next' = next + 1 /\ jobNr' = jobNr + 1
  /\ CASE failing # {} /\ ~queued -> Done(linked)
       [] failing # {} /\ queued -> Left([linked EXCEPT !.atom[a].wf = TRUE])
       [] failing = {} /\ ~job.valid -> Done([linked EXCEPT !.atom[a].event = "fail"])
       [] failing = {} /\ job.valid /\ job.kind \in Slots -> Left(AddJob(linked, a))
       [] failing = {} /\ job.valid /\ job.kind \notin Slots /\ queued -> Left(linked)
       [] OTHER -> IF job.kind = "dep" THEN Done(linked)
                   ELSE \E st \in SoftOutcomes(linked, a) :
                          IF st.atom[a].status = "completed" THEN Done(st) ELSE Left(st)
  /\ UNCHANGED <<worker, completed, posted, ctxVars>>

\* A waiting soft job's fence signals, its event is set or it times out.
SoftSignal(a, event) ==
  /\ JctxFree
  /\ "waiting" \in atom[a].flags
  /\ Becomes(StartDone([S EXCEPT !.atom[a].event = event,
                                 !.atom[a].flags = @ \ {"waiting"}], a))
  /\ jd' = Pass("soft", a)
  /\ UNCHANGED <<worker, userVars, ctxVars>>

-----------------------------------------------------------------------------
(* job_done_wq: one item at a time, in order.                               *)

\* References on the context: pulled atoms whose work is not over.
Holders ==
  {a \in Atoms : atom[a].rbState # "none"} \cup
  {wq[n].id : n \in {m \in DOMAIN wq : wq[m].job # "cancel"}}

\* Mutant of Kill: only the runnable trees are emptied.
Kill_ForgetsXDeps(st) ==
  LET all == ByAge(st.tree)
  IN  [st EXCEPT
        !.tree = {},
        !.atom = [a \in Atoms |-> IF a \in st.tree THEN [st.atom[a] EXCEPT !.event = "fail"]
                                                   ELSE st.atom[a]],
        !.wq = @ \o [n \in DOMAIN all |-> [job |-> "cancel", id |-> all[n]]]]

\* kbase_js_foreach_ctx_job(kctx, kbase_jd_cancel)
Kill(st) ==
  LET Mine(js) == ByAge({a \in st.tree : st.atom[a].kind = js}) \o
                  ByAge({a \in Atoms : "in_x_dep_list" \in st.atom[a].flags /\ st.atom[a].kind = js})
      all == Mine("js0") \o Mine("js1")
  IN  [st EXCEPT
        !.tree = {},
        !.atom = [a \in Atoms |->
                   LET r == st.atom[a]
                   IN  IF a \in Range(all)
                       THEN [r EXCEPT !.event = "fail", !.flags = r.flags \ {"in_x_dep_list"}]
                       ELSE r],
        !.wq = @ \o [n \in DOMAIN all |-> [job |-> "cancel", id |-> all[n]]]]

\* kbasep_js_runpool_release_ctx: the last reference of a dying context
\* takes it out of the run pool and kills what it still has.
ReleaseCtx ==
  IF dying /\ scheduled /\ Holders = {}
  THEN Becomes(Kill([S EXCEPT !.submit = FALSE])) /\ scheduled' = FALSE
  ELSE UNCHANGED <<jsVars, scheduled>>

Item(job) == worker.pc = "idle" /\ wq # <<>> /\ Head(wq).job = job
Popped == [S EXCEPT !.wq = Tail(@)]
LastPulled(a) == Holders \ {a} = {}

\* kbase_jd_done_worker, when kbase_backend_complete_wq asks for a rerun.
RerunWork ==
  LET a == Head(wq).id IN
  /\ Item("done") /\ JctxFree /\ Settled
  /\ Rerun /\ atom[a].event = "fail" /\ "rerun" \notin atom[a].flags
  /\ Becomes(Unpull([Popped EXCEPT !.atom[a].event = "stopped",
                                   !.atom[a].status = "in_js",
                                   !.atom[a].flags = @ \cup {"rerun"}], a))
  /\ UNCHANGED <<jd, worker, userVars, ctxVars>>

\* kbase_jd_done_worker up to jd_done_nolock.
DoneWork ==
  LET a == Head(wq).id IN
  /\ Item("done") /\ JctxFree /\ Settled
  /\ Becomes(StartDone([Popped EXCEPT !.submit = @ \/ (LastPulled(a) /\ ~dying)], a))
  /\ jd' = Pass("worker", a)
  /\ worker' = [pc |-> "done", id |-> a]
  /\ UNCHANGED <<userVars, ctxVars>>

ReleaseWork ==
  /\ worker.pc = "release" /\ Settled
  /\ ReleaseCtx
  /\ worker' = [worker EXCEPT !.pc = "count"]
  /\ UNCHANGED <<jd, userVars, dying, zap>>

\* Mutant of CountWork: the counter is looked at before it is decremented.
CountWork_Late ==
  /\ worker.pc = "count"
  /\ workCount' = workCount - 1
  /\ worker' = [worker EXCEPT !.pc = IF workCount = 0 THEN "post" ELSE "idle"]
  /\ UNCHANGED <<atom, tree, rb, wq, submit, jd, userVars, ctxVars>>

CountWork ==
  /\ worker.pc = "count"
  /\ workCount' = workCount - 1
  /\ worker' = [worker EXCEPT !.pc = IF workCount' = 0 THEN "post" ELSE "idle"]
  /\ UNCHANGED <<atom, tree, rb, wq, submit, jd, userVars, ctxVars>>

PostWork ==
  /\ worker.pc = "post" /\ JctxFree
  /\ posted' = [a \in Atoms |-> posted[a] + Cardinality({n \in DOMAIN completed : completed[n] = a})]
  /\ completed' = <<>>
  /\ worker' = [worker EXCEPT !.pc = "idle"]
  /\ UNCHANGED <<jsVars, jd, next, jobNr, ctxVars>>

\* js_return_worker
ReturnWork ==
  LET a == Head(wq).id IN
  /\ Item("return") /\ Settled
  /\ Becomes([Popped EXCEPT !.atom[a].blocked = FALSE,
                            !.submit = @ \/ (LastPulled(a) /\ scheduled /\ ~dying)])
  /\ worker' = [pc |-> "return", id |-> a]
  /\ UNCHANGED <<jd, userVars, ctxVars>>

ReturnRelease ==
  /\ worker.pc = "return" /\ Settled
  /\ ReleaseCtx
  /\ worker' = [worker EXCEPT !.pc = "idle"]
  /\ UNCHANGED <<jd, userVars, dying, zap>>

\* jd_cancel_worker
CancelWork ==
  LET a == Head(wq).id IN
  /\ Item("cancel") /\ JctxFree
  /\ Becomes(StartDone(Popped, a))
  /\ jd' = Pass("cancel", a)
  /\ worker' = [pc |-> "cancel", id |-> a]
  /\ UNCHANGED <<userVars, ctxVars>>

-----------------------------------------------------------------------------
(* The context: scheduled in and out, zapped.                               *)

SchedIn ==
  /\ ~scheduled /\ ~dying /\ \E js \in Slots : Peek(S, js) # NoAtom
  /\ scheduled' = TRUE /\ submit' = TRUE
  /\ UNCHANGED <<atom, tree, rb, wq, workCount, jd, worker, userVars, dying, zap>>

\* Another context takes the idle context's address space.
EvictCtx ==
  /\ scheduled /\ ~dying /\ Settled
  /\ Holders = {} /\ worker.pc \notin {"done", "release", "return"}
  /\ scheduled' = FALSE /\ submit' = FALSE
  /\ UNCHANGED <<atom, tree, rb, wq, workCount, jd, worker, userVars, dying, zap>>

\* kbase_backend_soft_hard_stop_slot for a hard stop of the whole context;
\* `late' slots have already moved on to the job in their NEXT registers.
HardStop(st, js, late) ==
  LET q == st.rb[js]
      Removed(s, a) == [s EXCEPT !.atom[a].event = "stopped"]
  IN  IF q = <<>> THEN st
      ELSE IF st.atom[q[1]].rbState # "submitted"
      THEN LET one == Dequeue(st, js)
               two == IF Len(q) = 2 THEN Unpull(Removed(Dequeue(one, js), q[2]), q[2]) ELSE one
           IN  Unpull(Removed(two, q[1]), q[1])
      ELSE IF Len(q) = 2 /\ ~(js \in late /\ st.atom[q[2]].rbState = "submitted")
      THEN [Removed(st, q[2]) EXCEPT !.atom[q[2]].rbState = "return"]
      ELSE st

\* kbase_js_zap_context, under jctx.lock and the scheduler's mutexes.
ZapStart ==
  /\ ~dying /\ JctxFree /\ Settled
  /\ dying' = TRUE
  /\ IF scheduled
     THEN /\ \E late \in SUBSET Slots :
               Becomes(HardStop(HardStop([S EXCEPT !.submit = FALSE], "js0", late), "js1", late))
          /\ zap' = "release"
     ELSE Becomes(Kill(S)) /\ zap' = "lock"
  /\ UNCHANGED <<jd, worker, userVars, scheduled>>

ZapRelease ==
  /\ zap = "release" /\ Settled
  /\ IF worker.pc \in {"done", "release", "return"} THEN UNCHANGED <<jsVars, scheduled>> ELSE ReleaseCtx
  /\ zap' = "lock"
  /\ UNCHANGED <<jd, worker, userVars, dying>>

\* kbase_jd_zap_context cancels the waiting soft jobs under one hold of
\* jctx.lock, then waits for job_nr to reach zero.
ZapLock ==
  /\ zap = "lock" /\ JctxFree
  /\ zap' = "soft"
  /\ UNCHANGED <<jsVars, jd, worker, userVars, scheduled, dying>>

Waiting == {a \in Atoms : "waiting" \in atom[a].flags}

ZapSoft ==
  /\ zap = "soft" /\ jd.by = "none"
  /\ IF Waiting # {}
     THEN LET a == ByAge(Waiting)[1] IN
          /\ Becomes(StartDone([S EXCEPT !.atom[a].event = "fail",
                                         !.atom[a].flags = @ \ {"waiting"}], a))
          /\ jd' = Pass("zap", a) /\ UNCHANGED zap
     ELSE zap' = "wait" /\ UNCHANGED <<jsVars, jd>>
  /\ UNCHANGED <<worker, userVars, scheduled, dying>>

ZapDone ==
  /\ zap = "wait" /\ jobNr = 0 /\ ~scheduled
  /\ zap' = "done"
  /\ UNCHANGED <<jsVars, jd, worker, userVars, scheduled, dying>>

Terminated ==
  /\ zap = "done" /\ wq = <<>> /\ worker.pc = "idle" /\ jd = Idle
  /\ UNCHANGED vars

-----------------------------------------------------------------------------
Hardware ==
  \E js \in Slots :
    \/ ReturnHead(js)
    \/ \E i \in 1..Len(rb[js]) : LeaveWaiting(js, i) \/ SubmitHw(js, i)
    \/ \E event \in {"done", "fail"} : CompleteHw(js, event)

Dispatcher == Resolve \/ RunNode \/ FinishCur

Worker ==
  \/ RerunWork \/ DoneWork \/ ReleaseWork \/ CountWork \/ PostWork
  \/ ReturnWork \/ ReturnRelease \/ CancelWork

Zap == ZapStart \/ ZapRelease \/ ZapLock \/ ZapSoft \/ ZapDone

Next ==
  \/ next \in Atoms /\ \E job \in Jobs[next] : Submit(job)
  \/ \E a \in Atoms, event \in {"done", "fail"} : SoftSignal(a, event)
  \/ \E js \in Slots : Pull(js)
  \/ Hardware \/ Dispatcher \/ Worker
  \/ SchedIn \/ EvictCtx
  \/ Zap
  \/ Terminated

Spec == Init /\ [][Next]_vars

(* Fairness: the GPU finishes or is hard-stopped, the power manager brings  *)
(* cores up, the kernel runs the work queue and the lock holders, the       *)
(* scheduler (kbase_js_sched_all after every work item) keeps scheduling    *)
(* and pulling, and a waiting soft job is signalled or times out.  Nothing  *)
(* obliges user space to submit or to close the context.                    *)
Fairness ==
  /\ WF_vars(Hardware) /\ WF_vars(Dispatcher) /\ WF_vars(Worker)
  /\ WF_vars(\E a \in Atoms, event \in {"done", "fail"} : SoftSignal(a, event))
  /\ SF_vars(SchedIn) /\ \A js \in Slots : SF_vars(Pull(js))
  /\ WF_vars(ZapRelease \/ ZapLock \/ ZapSoft \/ ZapDone)

FairSpec == Spec /\ Fairness

-----------------------------------------------------------------------------
Flags == {"x_dep_blocked", "fail_blocker", "in_tree", "in_x_dep_list", "waiting", "rerun"}
AtomRecords ==
  [kind : Slots \cup {"soft", "dep"}, pre : [1..2 -> Deps],
   status : {"unused", "queued", "in_js", "hw_completed", "completed"},
   event : {"done", "fail", "stopped"}, wf : BOOLEAN, dep : [1..2 -> Deps],
   preDep : 0..NumAtoms, postDep : 0..NumAtoms, xPre : 0..NumAtoms, xPost : 0..NumAtoms,
   flags : SUBSET Flags,
   rbState : {"none", "waiting", "ready", "submitted", "return"}, blocked : BOOLEAN]

\* The types of the module's variables.
TypeOK ==
  /\ atom \in [Atoms -> AtomRecords]
  /\ tree \subseteq Atoms
  /\ \A js \in Slots : rb[js] \in Seq(Atoms) /\ Len(rb[js]) <= 2
  /\ wq \in Seq([job : {"done", "return", "cancel"}, id : Atoms])
  /\ submit \in BOOLEAN /\ scheduled \in BOOLEAN /\ dying \in BOOLEAN
  /\ workCount \in Int /\ jobNr \in Int
  /\ jd \in [by : {"none", "submit", "soft", "worker", "cancel", "zap"},
             done : Seq(Atoms), run : Seq(Atoms), cur : 0..NumAtoms]
  /\ worker.pc \in {"idle", "done", "release", "count", "post", "return", "cancel"}
  /\ next \in 1..(NumAtoms + 1)
  /\ completed \in Seq(Atoms) /\ posted \in [Atoms -> Nat]
  /\ zap \in {"no", "release", "lock", "soft", "wait", "done"}

\* The job a slot is executing, and what an atom was submitted to follow.
Running == {rb[js][1] : js \in {s \in Slots : rb[s] # <<>>}} \cap
           {a \in Atoms : atom[a].rbState = "submitted"}
Before(a, d) == atom[a].pre[d].id
Follows(a, d) == Before(a, d) \in 1..(a - 1)

SlotFifoOnly(a, d) == atom[a].pre[d].type = "order" /\ atom[Before(a, d)].kind = atom[a].kind
HasEnded(a) == atom[a].status \in {"hw_completed", "completed"}

\* An atom never executes before an atom it was submitted to follow has left
\* the hardware (or, for a soft job, has completed), whether the dispatcher,
\* the other slot or the data dependency on its own slot holds it back.
OrderRespected ==
  \A a \in Running, d \in 1..2 :
    Follows(a, d) /\ ~SlotFifoOnly(a, d) => HasEnded(Before(a, d))

\* An atom marked with will_fail_event_code is never executed, although the
\* mark may reach it anywhere: in the dispatcher, in a queue or in a slot.
MarkedNeverRuns == \A a \in Running : ~atom[a].wf

\* The failure of an atom reaches every data dependant on another slot or
\* outside the scheduler: such a dependant neither executes nor, while the
\* context lives, succeeds.  (A dying context's jobs take the event code of
\* whichever predecessor came last.)
FailureCrossesSlots ==
  \A a \in Atoms, d \in 1..2 :
    (/\ a \in Running \/ (atom[a].status = "completed" /\ atom[a].event = "done" /\ ~dying)
     /\ Follows(a, d) /\ atom[a].pre[d].type = "data"
     /\ atom[Before(a, d)].kind # atom[a].kind)
    => atom[Before(a, d)].event = "done"

\* The failure of an atom reaches every atom with a data dependency on it
\* (mali_base_kernel.h: only an ordering dependency does not propagate
\* errors).
FailurePropagates ==
  \A a \in Running, d \in 1..2 :
    Follows(a, d) /\ atom[a].pre[d].type = "data" => atom[Before(a, d)].event = "done"

\* Every submitted atom is reported once, and job_nr counts those that have
\* not been reported or queued for reporting.
Reported(a) == posted[a] + Cardinality({n \in DOMAIN completed : completed[n] = a})
ReportedOnce ==
  /\ \A a \in Atoms : Reported(a) <= 1
  /\ jobNr = Cardinality({a \in 1..(next - 1) : Reported(a) = 0})

\* Every submitted atom's event reaches user space: also those that wait in
\* completed_jobs for the work queue to run dry.
AllReported == \A a \in Atoms : (next > a) ~> (posted[a] = 1)

\* The same as long as no failed atom has been sent back to be rerun, which
\* leaks a count of kctx->work_count.
ReportedUnlessRerun ==
  \A a \in Atoms : (next > a) ~> (posted[a] = 1 \/ \E b \in Atoms : "rerun" \in atom[b].flags)

\* A zapped context loses its jobs, leaves the run pool and can be freed.
ZapCompletes == dying ~> (zap = "done")

\* Atoms run in the order their dependencies demand, and never after they were
\* marked to fail.  (jd_done_nolock, kbase_js_dep_resolved_submit)
JobsOrdered == TypeOK /\ OrderRespected /\ MarkedNeverRuns

\* A failure reaches what depends on it on every slot, and user space learns of
\* each atom once.  (kbase_js_complete_atom, jd_done_nolock)
FailuresReported == FailureCrossesSlots /\ ReportedOnce
=============================================================================
