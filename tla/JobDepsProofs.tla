---------------------------- MODULE JobDepsProofs ----------------------------
(***************************************************************************)
(* The dispatcher keeps the inductive invariant of JobDepsLemmas: an atom   *)
(* completes, is cancelled, added to the scheduler, run, or submitted. With *)
(* the steps of the slots this makes Inv an invariant on hardware that      *)
(* never sends a failed atom back, and order and failure follow from it.    *)
(***************************************************************************)
EXTENDS JobDepsLemmas

-----------------------------------------------------------------------------
(* An atom completes.                                                       *)

\* What becomes of the dispatcher's atoms when a completes.
Finishes(s, n, a, dy) ==
  LET q == n.atom[a]
      r == s.atom[a]
  IN  /\ \A b \in Atoms : b # a => n.atom[b] = s.atom[b]
      /\ q.kind = r.kind /\ q.pre = r.pre /\ q.status = "completed" /\ NoWaits(n, a)
      /\ "waiting" \notin q.flags /\ r.status \notin {"unused", "completed"}
      /\ r.status = "hw_completed" => q.event = r.event
      /\ \/ dy \/ q.event # "done"
         \/ \A d \in 1..2 : CrossData(s, a, d) =>
              Ended(s, r.pre[d].id) /\ s.atom[r.pre[d].id].event = "done"

\* Completing an atom keeps what is known of queued atoms.
LEMMA FinishesQueue ==
  ASSUME NEW s \in HwStates, NEW n \in HwStates, NEW a \in Atoms, NEW dy, Finishes(s, n, a, dy),
         NEW nx, QueueInv(s, nx)
  PROVE  QueueInv(n, nx)
<1>1. ASSUME NEW b \in Atoms
      PROVE  /\ b < nx <=> n.atom[b].status # "unused"
             /\ \A d \in 1..2 : WaitInv(n, b, d)
             /\ SoftInv(n, b)
  <2>1. CASE b # a
    BY <1>1, <2>1, Zenon DEF Finishes, QueueInv, WaitInv, Waits, SoftInv
  <2>2. CASE b = a
    BY <1>1, <2>2, Zenon DEF Finishes, QueueInv, WaitInv, NoWaits, SoftInv
  <2>. QED
    BY <2>1, <2>2, Zenon
<1>. QED
  BY <1>1 DEF QueueInv

\* Completing an atom keeps the order.
LEMMA FinishesOrder ==
  ASSUME NEW s \in HwStates, NEW n \in HwStates, NEW a \in Atoms, NEW dy, Finishes(s, n, a, dy), OrderInv(s)
  PROVE  OrderInv(n)
<1>1. ASSUME NEW c \in Atoms, NEW d \in 1..2,
             n.atom[c].status \notin {"unused", "completed"}, n.atom[c].pre[d].id \in 1..(c - 1)
      PROVE  InOrder(n, c, d)
  <2>. DEFINE b == s.atom[c].pre[d].id
  <2>1. c # a /\ n.atom[c] = s.atom[c] /\ b \in 1..(c - 1)
    BY <1>1, Zenon DEF Finishes
  <2>2. b \in Atoms
    BY <2>1, DepTypes
  <2>3. InOrder(s, c, d)
    BY <1>1, <2>1, Zenon DEF OrderInv
  <2>4. n.atom[b].kind = s.atom[b].kind /\ (Ended(s, b) => Ended(n, b))
    BY <2>2, Zenon DEF Finishes, Ended
  <2>. QED
    BY <2>1, <2>3, <2>4 DEF InOrder, Waits
<1>. QED
  BY <1>1 DEF OrderInv

\* Completing an atom, as failed if its failure was announced, loses no
\* failure.
LEMMA FinishesFail ==
  ASSUME NEW s \in HwStates, NEW n \in HwStates, NEW a \in Atoms, NEW dy, Finishes(s, n, a, dy), FailInv(s, dy)
  PROVE  FailInv(n, dy)
<1>1. ASSUME NEW c \in Atoms PROVE MarkInv(n, c)
  BY DEF FailInv, MarkInv, Finishes
<1>2. ASSUME NEW c \in Atoms, NEW d \in 1..2, CrossData(n, c, d) PROVE Warned(n, c, d, dy)
  <2>. DEFINE b == s.atom[c].pre[d].id
  <2>1. n.atom[c].pre = s.atom[c].pre /\ n.atom[c].kind = s.atom[c].kind
        /\ (c # a => n.atom[c] = s.atom[c])
    BY Zenon DEF Finishes
  <2>2. b \in 1..(c - 1) /\ b \in Atoms
    BY <1>2, <2>1, DepTypes, Zenon DEF CrossData
  <2>3. /\ n.atom[b].kind = s.atom[b].kind /\ (Ended(s, b) => Ended(n, b))
        /\ Ended(s, b) /\ s.atom[b].event = "done" => n.atom[b].event = "done"
    BY <2>2, Zenon DEF Finishes, Ended
  <2>4. CrossData(s, c, d)
    BY <1>2, <2>1, <2>3, Zenon DEF CrossData, Finishes
  <2>5. CASE c # a
    <3>1. Warned(s, c, d, dy)
      BY <2>4, Zenon DEF FailInv
    <3>. QED
      BY <2>1, <2>3, <2>5, <3>1 DEF Warned, Waits, Failed, Blocked
  <2>6. CASE c = a
    <3>1. n.atom[c].status = "completed"
      BY <2>6 DEF Finishes
    <3>2. dy \/ n.atom[c].event # "done" \/ (Ended(s, b) /\ s.atom[b].event = "done")
      BY <2>4, <2>6 DEF Finishes
    <3>. QED
      BY <2>1, <2>3, <3>1, <3>2 DEF Warned, Failed
  <2>. QED
    BY <2>5, <2>6
<1>. QED
  BY <1>1, <1>2 DEF FailInv

\* The pass that starts with one completed atom.
LEMMA PassIs ==
  ASSUME NEW a \in Atoms, NEW by \in {"submit", "soft", "worker", "cancel", "zap"}
  PROVE  /\ Pass(by, a) \in Passes /\ Pass(by, a).run = <<>> /\ Pass(by, a).cur = NoAtom
         /\ Pass(by, a).by # "none" /\ DOMAIN Pass(by, a).done = {1} /\ Pass(by, a).done[1] = a
         /\ DOMAIN Pass(by, a).run = {}
<1>1. <<a>> \in Seq(Atoms) /\ <<>> \in Seq(Atoms) /\ NoAtom \in 0..NumAtoms
  BY JobDepsAssumption DEF NoAtom
<1>2. DOMAIN <<a>> = {1} /\ <<a>>[1] = a
  OBVIOUS
<1>3. \A q : q = <<>> => DOMAIN q = {}
  <2>1. <<>> \in Seq(Atoms)
    BY <1>1
  <2>2. DOMAIN <<>> = 1..0
    BY <2>1, SeqIs
  <2>. QED
    BY <2>2
<1>. QED
  BY <1>1, <1>2, <1>3 DEF Pass, Passes

\* A pass begins with an atom that has just completed.
LEMMA PassStarts ==
  ASSUME NEW s, NEW j, NEW dy, NEW rep, NEW nr, NEW nx, NEW a \in Atoms,
         NEW by \in {"submit", "soft", "worker", "cancel", "zap"},
         s.atom[a].status = "completed", rep[a] = 0, RepInv(s, j, rep, nr, nx)
  PROVE  PassInv(s, Pass(by, a), dy) /\ RepInv(s, Pass(by, a), rep, nr, nx)
<1>1. a # NoAtom
  BY NotAtom
<1>. QED
  BY <1>1, PassIs DEF PassInv, RepInv, Distinct

\* Completing an atom with a pass of its own keeps the invariant.
LEMMA CompletedWhole ==
  ASSUME NEW s, NEW j, NEW nx, NEW nr, NEW rep, NEW sch, NEW dy,
         Whole(s, j, nx, nr, rep, sch, dy), NEW n, AllKept(s, n), NEW a \in Atoms,
         Finishes(s, n, a, dy), NEW by \in {"submit", "soft", "worker", "cancel", "zap"}
  PROVE  Whole(n, Pass(by, a), nx, nr, rep, sch, dy)
<1>1. /\ s \in HwStates /\ HwInv(s, {}) /\ CtxInv(s, sch, dy) /\ j \in Passes /\ n \in HwStates
      /\ QueueInv(s, nx) /\ OrderInv(s) /\ FailInv(s, dy) /\ RepInv(s, j, rep, nr, nx)
  BY DEF Whole, Disp, AllKept
<1>2. HwInv(n, {}) /\ CtxInv(n, sch, dy)
  BY <1>1, KeptGood, KeptCtx
<1>3. QueueInv(n, nx) /\ OrderInv(n) /\ FailInv(n, dy)
  BY <1>1, FinishesQueue, FinishesOrder, FinishesFail
<1>4. n.atom[a].status = "completed" /\ s.atom[a].status # "completed"
  BY DEF Finishes
<1>5. rep[a] = 0
  BY <1>1, <1>4 DEF RepInv
<1>6. \A b \in Atoms : s.atom[b].status = "completed" => n.atom[b].status = "completed"
  BY DEF Finishes
<1>7. RepInv(n, j, rep, nr, nx)
  BY <1>1, <1>6, StepRep
<1>8. PassInv(n, Pass(by, a), dy) /\ RepInv(n, Pass(by, a), rep, nr, nx)
  BY <1>4, <1>5, <1>7, PassStarts
<1>9. Pass(by, a) \in Passes
  BY PassIs
<1>. QED
  BY <1>1, <1>2, <1>3, <1>8, <1>9 DEF Whole, Disp

\* An unused dependency is one.
LEMMA NoDeps ==
  /\ None \in Deps /\ None.id = NoAtom /\ <<None, None>> \in [1..2 -> Deps]
  /\ \A d \in 1..2 : <<None, None>>[d] = None
<1>1. None \in Deps /\ None.id = NoAtom
  BY DEF None, Deps
<1>2. \A d \in 1..2 : d = 1 \/ d = 2
  OBVIOUS
<1>. QED
  BY <1>1, <1>2

\* jd_done_nolock's entry changes one atom.
StartsDone(s, n, a) ==
  /\ n \in HwStates /\ n.tree = s.tree /\ n.rb = s.rb /\ n.wq = s.wq
  /\ \A b \in Atoms : b # a => n.atom[b] = s.atom[b]
  /\ Fixed(n.atom[a], s.atom[a]) /\ n.atom[a].status = "completed" /\ NoWaits(n, a)
  /\ n.atom[a].event = s.atom[a].event /\ (n.atom[a].wf <=> s.atom[a].wf)
  /\ n.atom[a].flags = s.atom[a].flags /\ n.atom[a].rbState = s.atom[a].rbState

\* jd_done_nolock clears the atom's own links and leaves the other atoms.
LEMMA StartDoneIs ==
  ASSUME NEW s \in HwStates, NEW a \in Atoms
  PROVE  StartsDone(s, StartDone(s, a), a)
<1>. DEFINE n == StartDone(s, a)
<1>1. s.atom[a] \in AtomRecords /\ s.atom \in [Atoms -> AtomRecords]
  BY AtomIs, HwIs
<1>2. PICK e : e = <<None, None>>
  OBVIOUS
<1>3. e \in [1..2 -> Deps] /\ \A d \in 1..2 : e[d].id = NoAtom
  BY <1>2, NoDeps
<1>4. PICK q : q = [s.atom[a] EXCEPT !.dep = e, !.status = "completed"]
  OBVIOUS
<1>5. /\ q \in AtomRecords /\ Fixed(q, s.atom[a]) /\ q.status = "completed" /\ q.dep = e
      /\ q.event = s.atom[a].event /\ (q.wf <=> s.atom[a].wf) /\ q.flags = s.atom[a].flags
      /\ q.rbState = s.atom[a].rbState
  BY <1>1, <1>3, <1>4 DEF AtomRecords, Fixed
<1>6. PICK t : t = [s.atom EXCEPT ![a] = q]
  OBVIOUS
<1>7. t \in [Atoms -> AtomRecords] /\ t[a] = q /\ \A b \in Atoms : b # a => t[b] = s.atom[b]
  BY <1>1, <1>5, <1>6
<1>8. n = [s EXCEPT !.atom = t]
  BY <1>1, <1>2, <1>4, <1>6 DEF StartDone
<1>. HIDE DEF n
<1>9. n \in HwStates /\ n.atom = t /\ n.tree = s.tree /\ n.rb = s.rb /\ n.wq = s.wq
  BY <1>7, <1>8 DEF HwStates
<1>10. NoWaits(n, a)
  BY <1>3, <1>5, <1>7, <1>9 DEF NoWaits, Waits
<1>. QED
  BY <1>5, <1>7, <1>9, <1>10 DEF StartsDone, n

\* A record stays itself.
LEMMA StaysSelf == \A r : Stays(r, r)
BY DEF Stays, Fixed

\* What an atom outside the scheduler does not have.
LEMMA OutsideIs ==
  ASSUME NEW s \in HwStates, HwInv(s, {}), NEW a \in Atoms, s.atom[a].status \in {"unused", "queued"}
  PROVE  /\ s.atom[a].flags \subseteq {"waiting"} /\ s.atom[a].rbState = "none"
         /\ s.atom[a].preDep = NoAtom /\ s.atom[a].xPre = NoAtom
         /\ s.atom[a].postDep = NoAtom /\ s.atom[a].xPost = NoAtom
<1>1. Seen(s, a) /\ Unseen(s)
  BY DEF HwInv, Linked
<1>. QED
  BY <1>1 DEF Seen, Unseen, Known, InRb

\* A waiting soft job ends.
LEMMA SoftEnds ==
  ASSUME Inv, NEW a \in Atoms, "waiting" \in atom[a].flags, NEW event \in {"done", "fail"},
         NEW by \in {"soft", "zap"}, jd' = Pass(by, a), worker' \in Workers,
         zap' \in {"no", "release", "lock", "soft", "wait", "done"},
         Becomes(StartDone([S EXCEPT !.atom[a].event = event,
                                     !.atom[a].flags = @ \ {"waiting"}], a)),
         UNCHANGED <<userVars, scheduled, dying>>
  PROVE  Inv'
<1>. DEFINE e == [S EXCEPT !.atom[a].event = event, !.atom[a].flags = @ \ {"waiting"}]
            st == StartDone(e, a)
<1>1. /\ S \in HwStates /\ HwInv(S, {}) /\ QueueInv(S, next) /\ FailInv(S, dying)
      /\ S.atom[a] \in AtomRecords /\ S.atom \in [Atoms -> AtomRecords] /\ S.atom = atom
  BY WholeS, AtomIs, HwIs, SIs DEF Disp
<1>2. /\ S.atom[a].status = "queued" /\ ~S.atom[a].wf /\ NoWaits(S, a)
  BY <1>1 DEF QueueInv, SoftInv, WaitInv, NoWaits
<1>3. PICK q : q = [S.atom[a] EXCEPT !.event = event, !.flags = @ \ {"waiting"}]
  OBVIOUS
<1>4. /\ q \in AtomRecords /\ Fixed(q, S.atom[a]) /\ q.rbState = S.atom[a].rbState
      /\ q.flags = S.atom[a].flags \ {"waiting"}
  BY <1>1, <1>3 DEF AtomRecords, Fixed, Flags
<1>5. PICK t : t = [S.atom EXCEPT ![a] = q]
  OBVIOUS
<1>6. t \in [Atoms -> AtomRecords] /\ t[a] = q /\ \A b \in Atoms : b # a => t[b] = S.atom[b]
  BY <1>1, <1>4, <1>5
<1>7. e = [S EXCEPT !.atom = t]
  BY <1>1, <1>3, <1>5
<1>8. e \in HwStates /\ e.atom = t /\ e.tree = S.tree /\ e.rb = S.rb /\ e.wq = S.wq
  BY <1>1, <1>6, <1>7 DEF HwStates
<1>. HIDE DEF e
<1>9. StartsDone(e, st, a)
  BY <1>8, StartDoneIs
<1>. HIDE DEF st
<1>10. /\ st \in HwStates /\ st.tree = S.tree /\ st.rb = S.rb /\ st.wq = S.wq
       /\ \A b \in Atoms : b # a => st.atom[b] = S.atom[b]
       /\ Fixed(st.atom[a], S.atom[a]) /\ st.atom[a].status = "completed" /\ NoWaits(st, a)
       /\ st.atom[a].flags = S.atom[a].flags \ {"waiting"} /\ st.atom[a].rbState = S.atom[a].rbState
  BY <1>4, <1>6, <1>8, <1>9 DEF StartsDone, Fixed
<1>11. Outer(st.atom[a], S.atom[a])
  BY <1>1, <1>2, <1>10, OutsideIs DEF Outer, Fixed
<1>12. AllKept(S, st)
  BY <1>1, <1>10, <1>11, StaysSelf DEF AllKept, Keeps, WorkKept
<1>13. ASSUME NEW d \in 1..2, CrossData(S, a, d)
       PROVE  Ended(S, S.atom[a].pre[d].id) /\ S.atom[S.atom[a].pre[d].id].event = "done"
  <2>1. Warned(S, a, d, dying) /\ ~Waits(S, a, d)
    BY <1>1, <1>2, <1>13 DEF FailInv, NoWaits
  <2>2. S.atom[a].xPre = NoAtom /\ S.atom[a].pre[d].id # NoAtom
    BY <1>1, <1>2, <1>13, OutsideIs, Z3T(30) DEF CrossData, NoAtom
  <2>. QED
    BY <1>2, <2>1, <2>2 DEF Warned, Failed
<1>14. Finishes(S, st, a, dying)
  BY <1>2, <1>10, <1>13 DEF Finishes, Fixed
<1>15. Whole(st, Pass(by, a), next, jobNr, Reports, scheduled, dying)
  BY <1>12, <1>14, WholeS, CompletedWhole, Zenon
<1>16. S' = st
  BY <1>10, BecomesIs DEF e, st
<1>17. Reports' = Reports /\ TypeInv'
  BY ReportsKept, WholeS, Zenon DEF TypeInv, userVars
<1>. QED
  BY <1>15, <1>16, <1>17 DEF Inv, userVars

\* kbase_finish_soft_job keeps the invariant.
LEMMA SoftSignalKeeps ==
  ASSUME Inv, NEW a \in Atoms, NEW event \in {"done", "fail"}, SoftSignal(a, event)
  PROVE  Inv'
<1>1. worker' \in Workers /\ zap' \in {"no", "release", "lock", "soft", "wait", "done"}
  BY WholeS DEF SoftSignal, TypeInv, ctxVars
<1>. QED
  BY <1>1, SoftEnds DEF SoftSignal, ctxVars

-----------------------------------------------------------------------------
(* Work items that complete an atom.                                        *)

\* Taking the first entry of the work queue changes nothing else.
LEMMA PoppedIs ==
  ASSUME S \in HwStates, wq # <<>>
  PROVE  /\ Popped \in HwStates /\ Popped.atom = atom /\ Popped.tree = tree /\ Popped.rb = rb
         /\ Popped.wq = Tail(wq) /\ Popped.submit = submit
<1>1. S.wq \in Seq(Items) /\ S.wq = wq
  BY HwIs, SIs
<1>2. PICK w : w = Tail(wq)
  OBVIOUS
<1>3. w \in Seq(Items)
  BY <1>1, <1>2, TailIs
<1>4. Popped = [S EXCEPT !.wq = w]
  BY <1>2, SIs DEF Popped
<1>5. /\ Popped \in HwStates /\ Popped.atom = S.atom /\ Popped.tree = S.tree /\ Popped.rb = S.rb
      /\ Popped.wq = w /\ Popped.submit = S.submit
  BY <1>3, <1>4 DEF HwStates
<1>. QED
  BY <1>2, <1>5, SIs

\* Forbidding submission changes nothing else.
LEMMA SubmitSet ==
  ASSUME NEW s \in HwStates, NEW v \in BOOLEAN, NEW n, n = [s EXCEPT !.submit = v]
  PROVE  /\ n \in HwStates /\ n.atom = s.atom /\ n.tree = s.tree /\ n.rb = s.rb /\ n.wq = s.wq
BY DEF HwStates

\* The item at the head of job_done_wq.
LEMMA HeadItem ==
  ASSUME Inv, wq # <<>>
  PROVE  /\ Head(wq) = S.wq[1] /\ 1 \in DOMAIN S.wq /\ Head(wq).id \in Atoms
         /\ Head(wq).job = "done" => S.atom[Head(wq).id].status = "hw_completed"
         /\ Head(wq).job = "cancel" => S.atom[Head(wq).id].status = "in_js" /\ dying
<1>1. S \in HwStates /\ HwInv(S, {}) /\ CtxInv(S, scheduled, dying) /\ S.wq \in Seq(Items) /\ S.wq = wq
  BY WholeS, HwIs, SIs
<1>2. Head(wq) = S.wq[1] /\ 1 \in DOMAIN S.wq
  BY <1>1, TailIs
<1>3. Head(wq).id \in Atoms
  BY <1>1, <1>2, WorkIs
<1>4. /\ Head(wq).job = "done" => S.atom[Head(wq).id].status = "hw_completed"
      /\ Head(wq).job = "cancel" => S.atom[Head(wq).id].status = "in_js"
  BY <1>1, <1>2 DEF HwInv, InWork
<1>5. Head(wq).job = "cancel" => dying
  BY <1>1, <1>2 DEF CtxInv, Gone
<1>. QED
  BY <1>2, <1>3, <1>4, <1>5

\* The atom of the item at the head completes.
LEMMA ItemEnds ==
  ASSUME Inv, wq # <<>>, NEW a, a = Head(wq).id, Head(wq).job \in {"done", "cancel"},
         NEW v \in BOOLEAN, NEW by \in {"worker", "cancel"}, jd' = Pass(by, a), worker' \in Workers,
         Becomes(StartDone([Popped EXCEPT !.submit = v], a)), UNCHANGED <<userVars, ctxVars>>
  PROVE  Inv'
<1>. DEFINE st == StartDone([Popped EXCEPT !.submit = v], a)
<1>1. /\ S \in HwStates /\ HwInv(S, {}) /\ QueueInv(S, next) /\ FailInv(S, dying)
      /\ CtxInv(S, scheduled, dying) /\ dying \in BOOLEAN
  BY WholeS DEF Disp
<1>2. /\ a \in Atoms /\ S.wq[1].id = a /\ S.wq[1].job # "return" /\ S.atom[a].status \in {"in_js", "hw_completed"}
      /\ S.atom[a].status = "in_js" => dying
  BY HeadItem
<1>3. PICK e : e = [Popped EXCEPT !.submit = v]
  OBVIOUS
<1>4. /\ e \in HwStates /\ e.atom = S.atom /\ e.tree = S.tree /\ e.rb = S.rb /\ e.wq = Tail(S.wq)
  BY <1>1, <1>3, PoppedIs, SubmitSet, SIs
<1>5. StartsDone(e, st, a)
  BY <1>2, <1>3, <1>4, StartDoneIs
<1>. HIDE DEF st
<1>6. /\ st \in HwStates /\ st.tree = S.tree /\ st.rb = S.rb /\ st.wq = Tail(S.wq) /\ S.wq # <<>>
      /\ \A b \in Atoms : b # a => st.atom[b] = S.atom[b]
      /\ Fixed(st.atom[a], S.atom[a]) /\ st.atom[a].status = "completed" /\ NoWaits(st, a)
      /\ st.atom[a].event = S.atom[a].event /\ (st.atom[a].wf <=> S.atom[a].wf)
      /\ st.atom[a].flags = S.atom[a].flags /\ st.atom[a].rbState = S.atom[a].rbState
  BY <1>4, <1>5, SIs, Z3T(30) DEF StartsDone
<1>7. AllKept(S, st)
  BY <1>1, <1>2, <1>6, StaysSelf DEF AllKept, Keeps, WorkKept, Retired
<1>8. "waiting" \notin S.atom[a].flags /\ NoWaits(S, a)
  BY <1>1, <1>2, Zenon DEF QueueInv, SoftInv, WaitInv, NoWaits
<1>9. ASSUME ~dying, S.atom[a].event = "done", NEW d \in 1..2, CrossData(S, a, d)
      PROVE  Ended(S, S.atom[a].pre[d].id) /\ S.atom[S.atom[a].pre[d].id].event = "done"
  <2>1. Warned(S, a, d, dying) /\ ~Waits(S, a, d) /\ MarkInv(S, a)
    BY <1>1, <1>2, <1>8, <1>9 DEF FailInv, NoWaits
  <2>2. S.atom[a].status = "hw_completed"
    BY <1>2, <1>9
  <2>3. ~Failed(S, a, dying)
    BY <1>9, <2>1, <2>2 DEF Failed, MarkInv
  <2>4. ~Blocked(S, a)
    <3>1. Clear(S) /\ InList(S)
      BY <1>1, <1>9, Zenon DEF CtxInv, Gone, HwInv
    <3>. QED
      BY <1>2, <2>2, <3>1 DEF Clear, InList
  <2>. QED
    BY <2>1, <2>3, <2>4 DEF Warned
<1>10. Finishes(S, st, a, dying)
  BY <1>2, <1>6, <1>8, <1>9, Zenon DEF Finishes, Fixed
<1>11. Whole(st, Pass(by, a), next, jobNr, Reports, scheduled, dying)
  BY <1>2, <1>7, <1>10, WholeS, CompletedWhole, Zenon
<1>12. S' = st
  BY <1>6, BecomesIs DEF st
<1>13. Reports' = Reports /\ TypeInv'
  BY ReportsKept, WholeS DEF TypeInv, userVars, ctxVars
<1>. QED
  BY <1>11, <1>12, <1>13 DEF Inv, userVars, ctxVars

\* kbase_jd_done_worker's first half keeps the invariant.
LEMMA DoneWorkKeeps ==
  ASSUME Inv, DoneWork
  PROVE  Inv'
<1>. DEFINE a == Head(wq).id
            v == submit \/ (LastPulled(a) /\ ~dying)
<1>1. /\ wq # <<>> /\ Head(wq).job = "done" /\ jd' = Pass("worker", a)
      /\ worker' = [pc |-> "done", id |-> a] /\ UNCHANGED <<userVars, ctxVars>>
  BY DEF DoneWork, Item
<1>2. submit \in BOOLEAN /\ wq # <<>>
  BY <1>1, WholeS, HwIs, SIs
<1>3. Popped.submit = submit
  BY <1>2, WholeS, PoppedIs
<1>4. Becomes(StartDone([Popped EXCEPT !.submit = v], a))
  BY <1>3 DEF DoneWork
<1>5. v \in BOOLEAN
  BY <1>2
<1>6. worker' \in Workers
  BY <1>1, HeadItem, JobDepsAssumption DEF Workers, Atoms
<1>. HIDE DEF v
<1>. QED
  BY <1>1, <1>4, <1>5, <1>6, ItemEnds

\* jd_cancel_worker keeps the invariant.
LEMMA CancelWorkKeeps ==
  ASSUME Inv, CancelWork
  PROVE  Inv'
<1>. DEFINE a == Head(wq).id
<1>1. /\ wq # <<>> /\ Head(wq).job = "cancel" /\ jd' = Pass("cancel", a)
      /\ worker' = [pc |-> "cancel", id |-> a] /\ UNCHANGED <<userVars, ctxVars>>
      /\ Becomes(StartDone(Popped, a))
  BY DEF CancelWork, Item
<1>2. submit \in BOOLEAN /\ S \in HwStates
  BY WholeS, HwIs, SIs
<1>3. Popped \in HwStates /\ Popped.submit = submit
  BY <1>1, <1>2, PoppedIs
<1>4. Popped = [Popped EXCEPT !.submit = submit]
  BY <1>3 DEF HwStates
<1>5. Becomes(StartDone([Popped EXCEPT !.submit = submit], a))
  BY <1>1, <1>4
<1>6. worker' \in Workers
  BY <1>1, HeadItem, JobDepsAssumption DEF Workers, Atoms
<1>. QED
  BY <1>1, <1>2, <1>5, <1>6, ItemEnds

-----------------------------------------------------------------------------
(* The zap.                                                                 *)

\* Cancelling the soft jobs of a dying context keeps the invariant.
LEMMA ZapSoftKeeps ==
  ASSUME Inv, ZapSoft
  PROVE  Inv'
<1>1. worker' \in Workers /\ UNCHANGED <<worker, userVars, scheduled, dying>>
  BY WholeS, Zenon DEF ZapSoft, TypeInv
<1>2. CASE Waiting # {}
  <2>. DEFINE a == ByAge(Waiting)[1]
  <2>1. a \in Atoms /\ "waiting" \in atom[a].flags
    BY <1>2, ByAgeIs DEF Waiting
  <2>2. /\ jd' = Pass("zap", a) /\ zap' = zap
        /\ Becomes(StartDone([S EXCEPT !.atom[a].event = "fail",
                                       !.atom[a].flags = @ \ {"waiting"}], a))
    BY <1>2 DEF ZapSoft
  <2>3. zap' \in {"no", "release", "lock", "soft", "wait", "done"}
    BY <2>2, WholeS DEF TypeInv
  <2>. HIDE DEF a
  <2>. QED
    BY <1>1, <2>1, <2>2, <2>3, SoftEnds
<1>3. CASE Waiting = {}
  BY <1>1, <1>3, QuietKeeps DEF ZapSoft
<1>. QED
  BY <1>2, <1>3

\* Taking jctx.lock in kbase_js_zap_context keeps the invariant.
LEMMA ZapLockKeeps ==
  ASSUME Inv, ZapLock
  PROVE  Inv'
BY WholeS, QuietKeeps DEF ZapLock, TypeInv

\* The end of kbase_jd_zap_context keeps the invariant.
LEMMA ZapDoneKeeps ==
  ASSUME Inv, ZapDone
  PROVE  Inv'
BY WholeS, QuietKeeps DEF ZapDone, TypeInv

-----------------------------------------------------------------------------
(* Lists of atoms without repetition.                                       *)

Has(q, a) == \E i \in DOMAIN q : q[i] = a
Lists(q, set) == q \in Seq(Atoms) /\ Distinct(q) /\ \A a : Has(q, a) <=> a \in set

\* ByAge lists a set.
LEMMA ByAgeLists ==
  ASSUME NEW set \in SUBSET Atoms
  PROVE  Lists(ByAge(set), set)
<1>1. ByAge(set) \in Seq(set) /\ ByAge(set) \in Seq(Atoms) /\ Distinct(ByAge(set))
  BY ByAgeIs DEF Distinct
<1>2. \A a \in set : Has(ByAge(set), a)
  BY ByAgeIs DEF Has
<1>3. ASSUME NEW a, Has(ByAge(set), a) PROVE a \in set
  <2>1. PICK i \in DOMAIN ByAge(set) : ByAge(set)[i] = a
    BY <1>3 DEF Has
  <2>. QED
    BY <1>1, <2>1, SeqIs
<1>. QED
  BY <1>1, <1>2, <1>3 DEF Lists

\* Two disjoint lists, one after the other, list the union.
LEMMA ConcatLists ==
  ASSUME NEW A, NEW B, A \cap B = {}, NEW p, NEW q, Lists(p, A), Lists(q, B)
  PROVE  Lists(p \o q, A \cup B)
<1>. DEFINE r == p \o q
<1>1. PICK k : k = Len(p)
  OBVIOUS
<1>2. PICK l : l = Len(q)
  OBVIOUS
<1>3. /\ p \in Seq(Atoms) /\ q \in Seq(Atoms) /\ k \in Nat /\ l \in Nat /\ DOMAIN p = 1..k /\ DOMAIN q = 1..l
  BY <1>1, <1>2, SeqIs DEF Lists
<1>4. /\ r \in Seq(Atoms) /\ DOMAIN r = 1..(k + l)
      /\ \A i \in 1..(k + l) : r[i] = IF i <= k THEN p[i] ELSE q[i - k]
  <2>1. r \in Seq(Atoms) /\ Len(r) = k + l
    BY <1>1, <1>2, <1>3, ConcatProperties
  <2>2. DOMAIN r = 1..(k + l)
    BY <2>1, SeqIs
  <2>3. \A i \in 1..(k + l) : r[i] = IF i <= k THEN p[i] ELSE q[i - k]
    BY <1>1, <1>2, <1>3, ConcatProperties
  <2>. QED
    BY <2>1, <2>2, <2>3
<1>. HIDE DEF r
<1>5. \A i \in 1..(k + l) : (i <= k => i \in DOMAIN p) /\ (~(i <= k) => i - k \in DOMAIN q)
  BY <1>3
<1>6. \A i \in DOMAIN p : p[i] \in A /\ \A j \in DOMAIN q : p[i] # q[j]
  BY DEF Lists, Has
<1>7. \A j \in DOMAIN q : q[j] \in B
  BY DEF Lists, Has
<1>8. Distinct(r)
  <2>1. ASSUME NEW i \in 1..(k + l), NEW j \in 1..(k + l), r[i] = r[j] PROVE i = j
    <3>1. CASE i <= k /\ j <= k
      BY <1>4, <1>5, <2>1, <3>1 DEF Lists, Distinct
    <3>2. CASE ~(i <= k) /\ ~(j <= k)
      <4>1. i - k = j - k
        BY <1>4, <1>5, <2>1, <3>2 DEF Lists, Distinct
      <4>. QED
        BY <1>3, <4>1
    <3>3. CASE i <= k /\ ~(j <= k)
      BY <1>4, <1>5, <1>6, <2>1, <3>3
    <3>4. CASE ~(i <= k) /\ j <= k
      BY <1>4, <1>5, <1>6, <2>1, <3>4
    <3>. QED
      BY <3>1, <3>2, <3>3, <3>4
  <2>. QED
    BY <1>4, <2>1 DEF Distinct
<1>9. ASSUME NEW a PROVE Has(r, a) <=> a \in A \cup B
  <2>1. ASSUME Has(r, a) PROVE a \in A \cup B
    <3>1. PICK i \in 1..(k + l) : r[i] = a
      BY <1>4, <2>1 DEF Has
    <3>. QED
      BY <1>4, <1>5, <1>6, <1>7, <3>1
  <2>2. ASSUME a \in A PROVE Has(r, a)
    <3>1. PICK i \in 1..k : p[i] = a
      BY <1>3, <2>2 DEF Lists, Has
    <3>2. i \in 1..(k + l) /\ r[i] = a
      BY <1>3, <1>4, <3>1
    <3>. QED
      BY <1>4, <3>2 DEF Has
  <2>3. ASSUME a \in B PROVE Has(r, a)
    <3>1. PICK j \in 1..l : q[j] = a
      BY <1>3, <2>3 DEF Lists, Has
    <3>2. j + k \in 1..(k + l) /\ ~(j + k <= k) /\ (j + k) - k = j
      BY <1>3
    <3>3. r[j + k] = a
      BY <1>4, <3>1, <3>2
    <3>. QED
      BY <1>4, <3>2, <3>3 DEF Has
  <2>. QED
    BY <2>1, <2>2, <2>3
<1>. QED
  BY <1>4, <1>8, <1>9 DEF Lists, r

\* A list read backwards lists the same set.
LEMMA ReverseLists ==
  ASSUME NEW A, NEW q, Lists(q, A)
  PROVE  Lists(Reverse(q), A)
<1>1. PICK l : l = Len(q)
  OBVIOUS
<1>2. q \in Seq(Atoms) /\ l \in Nat /\ DOMAIN q = 1..l /\ \A i \in 1..l : q[i] \in Atoms
  BY <1>1, SeqIs DEF Lists
<1>3. PICK r : r = Reverse(q)
  OBVIOUS
<1>4. r = [i \in 1..l |-> q[(l - i) + 1]]
  BY <1>1, <1>3 DEF Reverse
<1>5. \A i \in 1..l : (l - i) + 1 \in 1..l /\ (l - ((l - i) + 1)) + 1 = i
  BY <1>2
<1>6. r \in Seq(Atoms) /\ DOMAIN r = 1..l
  <2>1. r \in [1..l -> Atoms]
    BY <1>2, <1>4, <1>5
  <2>. QED
    BY <1>2, <2>1, SeqDef
<1>7. Distinct(r)
  <2>1. ASSUME NEW i \in 1..l, NEW j \in 1..l, r[i] = r[j] PROVE i = j
    <3>1. (l - i) + 1 = (l - j) + 1
      BY <1>2, <1>4, <1>5, <2>1 DEF Lists, Distinct
    <3>. QED
      BY <1>2, <3>1
  <2>. QED
    BY <1>6, <2>1 DEF Distinct
<1>8. ASSUME NEW a PROVE Has(r, a) <=> a \in A
  <2>1. Has(q, a) <=> a \in A
    BY DEF Lists
  <2>2. ASSUME Has(q, a) PROVE Has(r, a)
    <3>1. PICK i \in 1..l : q[i] = a
      BY <1>2, <2>2 DEF Has
    <3>2. r[(l - i) + 1] = a
      BY <1>4, <1>5, <3>1
    <3>. QED
      BY <1>5, <1>6, <3>2 DEF Has
  <2>3. ASSUME Has(r, a) PROVE Has(q, a)
    <3>1. PICK i \in 1..l : r[i] = a
      BY <1>6, <2>3 DEF Has
    <3>2. q[(l - i) + 1] = a
      BY <1>4, <3>1
    <3>. QED
      BY <1>2, <1>5, <3>2 DEF Has
  <2>. QED
    BY <2>1, <2>2, <2>3
<1>. QED
  BY <1>3, <1>6, <1>7, <1>8 DEF Lists

-----------------------------------------------------------------------------
(* kbase_jd_cancel of everything the scheduler still has.                   *)

Victims(s) == s.tree \cup {a \in Atoms : InX(s, a)}

\* The work queue followed by a cancellation of every atom in a list.
Cancels(s, n, all) ==
  LET k == Len(s.wq)
      l == Len(all)
  IN  /\ k \in Nat /\ l \in Nat /\ DOMAIN s.wq = 1..k /\ DOMAIN all = 1..l /\ DOMAIN n.wq = 1..(k + l)
      /\ \A i \in 1..k : n.wq[i] = s.wq[i]
      /\ \A i \in 1..l : n.wq[i + k] = [job |-> "cancel", id |-> all[i]]

Kills(s, n, all) ==
  /\ n \in HwStates /\ n.tree = {} /\ n.rb = s.rb /\ n.submit = s.submit
  /\ Lists(all, Victims(s)) /\ Cancels(s, n, all)
  /\ \A b \in Atoms \ Victims(s) : n.atom[b] = s.atom[b]
  /\ \A b \in Victims(s) :
       /\ Fixed(n.atom[b], s.atom[b]) /\ n.atom[b].status = s.atom[b].status
       /\ n.atom[b].wf = s.atom[b].wf /\ n.atom[b].dep = s.atom[b].dep
       /\ n.atom[b].rbState = s.atom[b].rbState
       /\ n.atom[b].flags = s.atom[b].flags \ {"in_x_dep_list"}

\* The atoms of a slot that Kill lists.
Mine(s, js) == ByAge({a \in s.tree : s.atom[a].kind = js}) \o
               ByAge({a \in Atoms : InX(s, a) /\ s.atom[a].kind = js})

\* What a zap cancels is in the scheduler, not in a ring and has no work.
LEMMA VictimsIs ==
  ASSUME NEW s \in HwStates, HwInv(s, {}), NEW a \in Victims(s)
  PROVE  /\ a \in Atoms /\ s.atom[a].kind \in Slots /\ s.atom[a].status = "in_js"
         /\ ~Pending(s, a) /\ ~InRb(s, a)
<1>1. a \in Atoms
  BY HwIs DEF Victims
<1>2. CASE a \in s.tree
  <2>1. Fed(s, a) /\ ~InRb(s, a)
    BY <1>2 DEF HwInv, InTree
  <2>2. s.atom[a].kind \in Slots
    BY <1>1, <2>1 DEF HwInv, Linked, Seen, Fed
  <2>. QED
    BY <1>1, <2>1, <2>2 DEF Fed
<1>3. CASE InX(s, a)
  BY <1>1, <1>3 DEF HwInv, InList
<1>. QED
  BY <1>2, <1>3 DEF Victims

\* The victims of one slot in the order of the zap.
LEMMA MineLists ==
  ASSUME NEW s \in HwStates, HwInv(s, {}), NEW js \in Slots
  PROVE  Lists(Mine(s, js), {a \in Victims(s) : s.atom[a].kind = js})
<1>. DEFINE A == {a \in s.tree : s.atom[a].kind = js}
            B == {a \in Atoms : InX(s, a) /\ s.atom[a].kind = js}
<1>1. A \in SUBSET Atoms /\ B \in SUBSET Atoms
  BY HwIs
<1>2. A \cap B = {}
  BY DEF HwInv, InTree, Fed
<1>3. Lists(ByAge(A), A) /\ Lists(ByAge(B), B)
  BY <1>1, ByAgeLists
<1>4. Lists(ByAge(A) \o ByAge(B), A \cup B)
  <2>. HIDE DEF A, B
  <2>. QED
    BY <1>2, <1>3, ConcatLists
<1>5. A \cup B = {a \in Victims(s) : s.atom[a].kind = js}
  BY HwIs DEF Victims
<1>6. Mine(s, js) = ByAge(A) \o ByAge(B)
  BY DEF Mine
<1>. HIDE DEF A, B
<1>. QED
  BY <1>4, <1>5, <1>6

\* The victims of both slots.
LEMMA AllLists ==
  ASSUME NEW s \in HwStates, HwInv(s, {})
  PROVE  Lists(Mine(s, "js0") \o Mine(s, "js1"), Victims(s))
<1>. DEFINE V(js) == {a \in Victims(s) : s.atom[a].kind = js}
<1>1. Lists(Mine(s, "js0"), V("js0")) /\ Lists(Mine(s, "js1"), V("js1"))
  BY MineLists DEF Slots
<1>2. V("js0") \cap V("js1") = {}
  OBVIOUS
<1>3. V("js0") \cup V("js1") = Victims(s)
  BY VictimsIs DEF Slots
<1>4. Lists(Mine(s, "js0") \o Mine(s, "js1"), V("js0") \cup V("js1"))
  <2>. HIDE DEF V
  <2>. QED
    BY <1>1, <1>2, ConcatLists
<1>. HIDE DEF V
<1>. QED
  BY <1>3, <1>4

\* The zap of the tree empties it and queues work for each victim.
LEMMA KillIs ==
  ASSUME NEW s \in HwStates, HwInv(s, {}), NEW n, n = Kill(s)
  PROVE  \E all : Kills(s, n, all)
<1>1. PICK all : all = Mine(s, "js0") \o Mine(s, "js1")
  OBVIOUS
<1>2. Lists(all, Victims(s))
  BY <1>1, AllLists
<1>3. PICK t : t = [b \in Atoms |->
                     LET r == s.atom[b]
                     IN  IF b \in Range(all)
                         THEN [r EXCEPT !.event = "fail", !.flags = r.flags \ {"in_x_dep_list"}]
                         ELSE r]
  OBVIOUS
<1>4. PICK c : c = [i \in DOMAIN all |-> [job |-> "cancel", id |-> all[i]]]
  OBVIOUS
<1>5. PICK w : w = s.wq \o c
  OBVIOUS
<1>6. n = [s EXCEPT !.tree = {}, !.atom = t, !.wq = w]
  BY <1>1, <1>3, <1>4, <1>5, Zenon DEF Kill, Mine, InX
<1>7. PICK k : k = Len(s.wq)
  OBVIOUS
<1>8. PICK l : l = Len(all)
  OBVIOUS
<1>9. /\ s.wq \in Seq(Items) /\ k \in Nat /\ DOMAIN s.wq = 1..k
      /\ all \in Seq(Atoms) /\ l \in Nat /\ DOMAIN all = 1..l /\ \A i \in 1..l : all[i] \in Atoms
  BY <1>2, <1>7, <1>8, HwIs, SeqIs DEF Lists
<1>10. c \in Seq(Items) /\ Len(c) = l /\ \A i \in 1..l : c[i] = [job |-> "cancel", id |-> all[i]]
  <2>1. c \in [1..l -> Items] /\ \A i \in 1..l : c[i] = [job |-> "cancel", id |-> all[i]]
    BY <1>4, <1>9 DEF Items
  <2>2. c \in Seq(Items)
    BY <1>9, <2>1, SeqDef
  <2>3. DOMAIN c = 1..l /\ DOMAIN c = 1..Len(c) /\ Len(c) \in Nat
    BY <2>1, <2>2, SeqIs
  <2>4. PICK m : m = Len(c)
    OBVIOUS
  <2>5. m = l
    BY <1>9, <2>3, <2>4
  <2>. QED
    BY <2>1, <2>2, <2>4, <2>5
<1>11. /\ w \in Seq(Items) /\ DOMAIN w = 1..(k + l)
       /\ \A i \in 1..k : w[i] = s.wq[i]
       /\ \A i \in 1..l : w[i + k] = [job |-> "cancel", id |-> all[i]]
  <2>1. /\ w \in Seq(Items) /\ Len(w) = k + l
        /\ \A i \in 1..(k + l) : w[i] = IF i <= k THEN s.wq[i] ELSE c[i - k]
    <3>1. PICK q : q = s.wq
      OBVIOUS
    <3>2. q \in Seq(Items) /\ c \in Seq(Items) /\ Len(q) = k /\ Len(c) = l /\ w = q \o c
      BY <1>5, <1>7, <1>9, <1>10, <3>1
    <3>3. w \in Seq(Items) /\ Len(w) = k + l
      BY <1>9, <3>2, ConcatProperties
    <3>4. \A i \in 1..(k + l) : w[i] = IF i <= k THEN q[i] ELSE c[i - k]
      BY <1>9, <3>2, ConcatProperties, Zenon
    <3>. QED
      BY <3>1, <3>3, <3>4
  <2>2. DOMAIN w = 1..(k + l)
    BY <2>1, SeqIs
  <2>3. \A i \in 1..k : i \in 1..(k + l) /\ i <= k
    BY <1>9
  <2>4. \A i \in 1..l : i + k \in 1..(k + l) /\ ~(i + k <= k) /\ (i + k) - k = i
    BY <1>9
  <2>5. \A i \in 1..l : w[i + k] = c[i]
    BY <2>1, <2>4
  <2>. QED
    BY <1>10, <2>1, <2>2, <2>3, <2>5
<1>12. \A b \in Atoms : b \in Range(all) <=> b \in Victims(s)
  BY <1>2, Z3T(30) DEF Range, Lists, Has
<1>13. t \in [Atoms -> AtomRecords]
  <2>1. ASSUME NEW b \in Atoms PROVE t[b] \in AtomRecords
    <3>1. s.atom[b] \in AtomRecords
      BY AtomIs
    <3>2. [s.atom[b] EXCEPT !.event = "fail", !.flags = s.atom[b].flags \ {"in_x_dep_list"}] \in AtomRecords
      BY <3>1 DEF AtomRecords, Flags
    <3>. QED
      BY <1>3, <3>1, <3>2
  <2>. QED
    BY <1>3, <2>1
<1>14. n \in HwStates /\ n.atom = t /\ n.tree = {} /\ n.rb = s.rb /\ n.submit = s.submit /\ n.wq = w
  BY <1>6, <1>11, <1>13 DEF HwStates
<1>15. Cancels(s, n, all)
  BY <1>7, <1>8, <1>9, <1>11, <1>14 DEF Cancels
<1>16. \A b \in Atoms \ Victims(s) : n.atom[b] = s.atom[b]
  BY <1>3, <1>12, <1>14
<1>17. ASSUME NEW b \in Victims(s)
       PROVE  /\ Fixed(n.atom[b], s.atom[b]) /\ n.atom[b].status = s.atom[b].status
              /\ n.atom[b].wf = s.atom[b].wf /\ n.atom[b].dep = s.atom[b].dep
              /\ n.atom[b].rbState = s.atom[b].rbState
              /\ n.atom[b].flags = s.atom[b].flags \ {"in_x_dep_list"}
  <2>1. b \in Atoms /\ s.atom[b] \in AtomRecords
    BY VictimsIs, AtomIs
  <2>2. n.atom[b] = [s.atom[b] EXCEPT !.event = "fail", !.flags = s.atom[b].flags \ {"in_x_dep_list"}]
    BY <1>3, <1>12, <1>14, <2>1
  <2>. QED
    BY <2>1, <2>2 DEF AtomRecords, Fixed
<1>18. Kills(s, n, all)
  BY <1>2, <1>14, <1>15, <1>16, <1>17 DEF Kills
<1>. QED
  BY <1>18

\* The atoms a kill leaves.
LEMMA KilledAtoms ==
  ASSUME NEW s \in HwStates, HwInv(s, {}), NEW n, NEW all, Kills(s, n, all), NEW b \in Atoms
  PROVE  /\ Fixed(n.atom[b], s.atom[b]) /\ n.atom[b].status = s.atom[b].status
         /\ n.atom[b].wf = s.atom[b].wf /\ n.atom[b].dep = s.atom[b].dep
         /\ n.atom[b].rbState = s.atom[b].rbState
         /\ ~InX(n, b) /\ (Known(n, b) <=> Known(s, b)) /\ (Blocked(n, b) <=> Blocked(s, b))
         /\ \A f \in {"waiting", "fail_blocker"} : f \in n.atom[b].flags <=> f \in s.atom[b].flags
         /\ n.atom[b].flags \subseteq s.atom[b].flags
         /\ b \notin Victims(s) => n.atom[b].event = s.atom[b].event
<1>1. CASE b \in Victims(s)
  BY <1>1 DEF Kills, InX, Known, Blocked
<1>2. CASE b \notin Victims(s)
  <2>1. n.atom[b] = s.atom[b]
    BY <1>2 DEF Kills
  <2>2. ~InX(s, b)
    BY <1>2 DEF Victims
  <2>. QED
    BY <2>1, <2>2 DEF InX, Known, Blocked, Fixed
<1>. QED
  BY <1>1, <1>2

\* After the zap every victim has its work, and all other work is still there.
LEMMA KilledWork ==
  ASSUME NEW s \in HwStates, HwInv(s, {}), NEW n, NEW all, Kills(s, n, all)
  PROVE  InWork(n) /\ (\A b : Pending(s, b) => Pending(n, b)) /\ \A b \in Victims(s) : Pending(n, b)
<1>1. PICK k : k = Len(s.wq)
  OBVIOUS
<1>2. PICK l : l = Len(all)
  OBVIOUS
<1>3. /\ k \in Nat /\ l \in Nat /\ DOMAIN s.wq = 1..k /\ DOMAIN all = 1..l /\ DOMAIN n.wq = 1..(k + l)
      /\ \A i \in 1..k : n.wq[i] = s.wq[i]
      /\ \A i \in 1..l : n.wq[i + k] = [job |-> "cancel", id |-> all[i]]
  BY <1>1, <1>2 DEF Kills, Cancels
<1>4. \A i \in 1..(k + l) : i \in 1..k \/ (i - k \in 1..l /\ (i - k) + k = i)
  BY <1>3
<1>5. \A i \in 1..l : all[i] \in Victims(s)
  BY <1>3 DEF Kills, Lists, Has
<1>6. ASSUME NEW i \in 1..(k + l), i \notin 1..k
      PROVE  /\ i - k \in 1..l /\ n.wq[i].job = "cancel" /\ n.wq[i].id = all[i - k]
             /\ n.wq[i].id \in Victims(s)
  <2>1. i - k \in 1..l /\ (i - k) + k = i
    BY <1>4, <1>6
  <2>2. PICK m : m = i - k
    OBVIOUS
  <2>3. n.wq[i] = [job |-> "cancel", id |-> all[m]] /\ m \in 1..l
    BY <1>3, <2>1, <2>2
  <2>. QED
    BY <1>5, <2>2, <2>3
<1>7. InWork(s)
  BY DEF HwInv
<1>8. ASSUME NEW i \in 1..(k + l)
      PROVE  /\ n.wq[i].job = "done" => n.atom[n.wq[i].id].status = "hw_completed"
             /\ n.wq[i].job = "cancel" => n.atom[n.wq[i].id].status = "in_js"
  <2>1. CASE i \in 1..k
    <3>1. n.wq[i] = s.wq[i] /\ i \in DOMAIN s.wq
      BY <1>3, <2>1
    <3>2. s.wq[i].id \in Atoms
      BY <3>1, WorkIs
    <3>3. n.atom[s.wq[i].id].status = s.atom[s.wq[i].id].status
      BY <3>2, KilledAtoms
    <3>. QED
      BY <1>7, <3>1, <3>3 DEF InWork
  <2>2. CASE i \notin 1..k
    <3>1. n.wq[i].job = "cancel" /\ n.wq[i].id \in Victims(s)
      BY <1>6, <2>2
    <3>2. s.atom[n.wq[i].id].status = "in_js" /\ n.wq[i].id \in Atoms
      BY <3>1, VictimsIs
    <3>3. n.atom[n.wq[i].id].status = "in_js"
      BY <3>2, KilledAtoms
    <3>. QED
      BY <3>1, <3>3
  <2>. QED
    BY <2>1, <2>2, Z3T(30)
<1>9. ASSUME NEW i \in 1..k, NEW j \in 1..(k + l), j \notin 1..k, n.wq[i].job # "return",
             n.wq[i].id = n.wq[j].id
      PROVE  FALSE
  <2>1. n.wq[j].id \in Victims(s)
    BY <1>6, <1>9
  <2>2. n.wq[i] = s.wq[i] /\ i \in DOMAIN s.wq
    BY <1>3
  <2>3. Pending(s, n.wq[j].id)
    BY <1>9, <2>2 DEF Pending
  <2>. QED
    BY <2>1, <2>3, VictimsIs
<1>10. ASSUME NEW i \in 1..(k + l), NEW j \in 1..(k + l), n.wq[i].job # "return", n.wq[j].job # "return",
              n.wq[i].id = n.wq[j].id
       PROVE  i = j
  <2>1. CASE i \in 1..k /\ j \in 1..k
    BY <1>3, <1>7, <1>10, <2>1, Zenon DEF InWork
  <2>2. CASE i \notin 1..k /\ j \notin 1..k
    <3>1. i - k \in 1..l /\ j - k \in 1..l /\ all[i - k] = all[j - k]
      BY <1>6, <1>10, <2>2
    <3>2. i - k = j - k
      BY <1>3, <3>1 DEF Kills, Lists, Distinct
    <3>. QED
      BY <1>3, <3>2
  <2>3. CASE i \in 1..k /\ j \notin 1..k
    BY <1>9, <1>10, <2>3
  <2>4. CASE i \notin 1..k /\ j \in 1..k
    BY <1>9, <1>10, <2>4
  <2>. QED
    BY <2>1, <2>2, <2>3, <2>4
<1>11. InWork(n)
  BY <1>3, <1>8, <1>10 DEF InWork
<1>12. \A i \in 1..k : i \in DOMAIN n.wq
  BY <1>3
<1>13. \A b : Pending(s, b) => Pending(n, b)
  BY <1>3, <1>12 DEF Pending
<1>14. ASSUME NEW b \in Victims(s) PROVE Pending(n, b)
  <2>1. PICK i \in 1..l : all[i] = b
    BY <1>3 DEF Kills, Lists, Has
  <2>2. i + k \in DOMAIN n.wq /\ n.wq[i + k] = [job |-> "cancel", id |-> b]
    BY <1>3, <2>1
  <2>. QED
    BY <2>2 DEF Pending
<1>. QED
  BY <1>11, <1>13, <1>14

\* The zap of a context that has no atom in a ring keeps the invariant.
LEMMA KilledGood ==
  ASSUME NEW s \in HwStates, HwInv(s, {}), \A a \in Atoms : ~InRb(s, a), NEW n, NEW all, Kills(s, n, all)
  PROVE  /\ HwInv(n, {}) /\ AtomSteps(s, n) /\ BlockedIn(s, n)
         /\ \A a \in Atoms : ~InRb(n, a) /\ ~InX(n, a)
<1>1. \A a \in Atoms : ~InRb(n, a) /\ ~InX(n, a)
  BY KilledAtoms DEF InRb
<1>2. ASSUME NEW a \in Atoms PROVE AtomStep(s, n, a) /\ (Blocked(n, a) <=> Blocked(s, a))
  <2>1. s.atom[a].status # "in_js" => a \notin Victims(s)
    BY VictimsIs
  <2>. QED
    BY <2>1, KilledAtoms DEF AtomStep
<1>3. n.tree = {} /\ n.rb = s.rb /\ n \in HwStates
  BY DEF Kills
<1>4. InTree(n, {}) /\ InLimbo(n, {}) /\ InRing(n) /\ InList(n)
  BY <1>1, <1>3 DEF InTree, InLimbo, InRing, InList
<1>5. InWork(n)
  BY KilledWork
<1>6. Somewhere(n, {})
  <2>1. ASSUME NEW a \in Atoms, n.atom[a].status = "in_js" PROVE Pending(n, a)
    <3>1. s.atom[a].status = "in_js"
      BY <2>1, KilledAtoms
    <3>2. a \in Victims(s) \/ Pending(s, a)
      BY <3>1 DEF HwInv, Somewhere, Victims
    <3>. QED
      BY <3>2, KilledWork
  <2>. QED
    BY <2>1 DEF Somewhere
<1>7. Ringed(n)
  <2>1. ASSUME NEW js \in Slots, NEW i \in DOMAIN s.rb[js] PROVE FALSE
    <3>1. s.rb[js][i] \in Atoms
      BY <2>1, HwIs, SeqIs
    <3>. QED
      BY <2>1, <3>1 DEF HwInv, Ringed
  <2>2. Ringed(s)
    BY DEF HwInv
  <2>. QED
    BY <1>3, <2>1, <2>2 DEF Ringed
<1>8. Linked(n)
  <2>1. ASSUME NEW a \in Atoms PROVE Seen(n, a) /\ PreLinked(n, a) /\ XLinked(n, a) /\ PostLinked(n, a)
    <3>1. \A b \in Atoms : /\ Fixed(n.atom[b], s.atom[b]) /\ n.atom[b].status = s.atom[b].status
                           /\ (Known(n, b) <=> Known(s, b)) /\ (Blocked(n, b) <=> Blocked(s, b))
      BY KilledAtoms
    <3>2. Linked(s)
      BY DEF HwInv
    <3>3. Seen(n, a)
      BY <3>1, <3>2 DEF Linked, Seen, Fixed
    <3>4. PreLinked(n, a)
      BY <3>1, <3>2, LinkTypes DEF Linked, PreLinked, Fixed
    <3>5. XLinked(n, a)
      BY <3>1, <3>2, LinkTypes, Z3T(30) DEF Linked, XLinked, Ended, Fixed
    <3>6. PostLinked(n, a)
      BY <3>1, <3>2, LinkTypes DEF Linked, PostLinked, Fixed
    <3>. QED
      BY <3>3, <3>4, <3>5, <3>6
  <2>. QED
    BY <2>1 DEF Linked
<1>9. Unseen(n)
  <2>1. Unseen(s)
    BY DEF HwInv
  <2>2. ASSUME NEW a \in Atoms, n.atom[a].status \in {"unused", "queued"}
        PROVE  /\ n.atom[a].flags \subseteq {"waiting"} /\ n.atom[a].preDep = NoAtom /\ n.atom[a].xPre = NoAtom
    BY <2>1, <2>2, KilledAtoms DEF Unseen, Fixed
  <2>. QED
    BY <1>1, <2>2 DEF Unseen
<1>10. Behind(n, {}) /\ Rings(n)
  <2>1. ASSUME NEW js \in Slots, NEW i \in DOMAIN s.rb[js] PROVE FALSE
    <3>1. s.rb[js][i] \in Atoms
      BY <2>1, HwIs, SeqIs
    <3>. QED
      BY <2>1, <3>1 DEF HwInv, Ringed
  <2>2. Behind(n, {})
    BY <1>3, <2>1 DEF Behind
  <2>3. \A js \in Slots : Len(n.rb[js]) # 2
    <3>1. ASSUME NEW js \in Slots, Len(n.rb[js]) = 2 PROVE FALSE
      <4>1. 1 \in DOMAIN s.rb[js]
        BY <1>3, <3>1, RingIs
      <4>. QED
        BY <2>1, <4>1
    <3>. QED
      BY <3>1
  <2>. QED
    BY <1>1, <2>2, <2>3 DEF Rings, InRb
<1>11. HwInv(n, {})
  BY <1>4, <1>5, <1>6, <1>7, <1>8, <1>9, <1>10 DEF HwInv
<1>. QED
  BY <1>1, <1>2, <1>11 DEF AtomSteps, BlockedIn

\* A context that is killed as it leaves the run pool.
LEMMA KillWhole ==
  ASSUME NEW s, NEW j, NEW nx, NEW nr, NEW rep, NEW sch \in BOOLEAN, NEW dy \in BOOLEAN,
         Whole(s, j, nx, nr, rep, sch, dy), \A a \in Atoms : ~InRb(s, a), dy \/ j.run = <<>>,
         NEW n, n = Kill(s)
  PROVE  Whole(n, j, nx, nr, rep, FALSE, TRUE)
<1>1. s \in HwStates /\ HwInv(s, {}) /\ Disp(s, j, nx, nr, rep, dy) /\ j \in Passes
  BY DEF Whole
<1>2. PICK all : Kills(s, n, all)
  BY <1>1, KillIs
<1>3. n \in HwStates /\ n.tree = {}
  BY <1>2 DEF Kills
<1>4. /\ HwInv(n, {}) /\ AtomSteps(s, n) /\ BlockedIn(s, n)
      /\ \A a \in Atoms : ~InRb(n, a) /\ ~InX(n, a)
  BY <1>1, <1>2, KilledGood
<1>5. Disp(n, j, nx, nr, rep, TRUE)
  BY <1>1, <1>3, <1>4, StepDisp
<1>6. CtxInv(n, FALSE, TRUE)
  BY <1>3, <1>4 DEF CtxInv, Gone
<1>. QED
  BY <1>1, <1>3, <1>4, <1>5, <1>6 DEF Whole

\* kbasep_js_runpool_release_ctx keeps the invariant, whoever calls it.
LEMMA ReleaseKeeps ==
  ASSUME Inv, ReleaseCtx, UNCHANGED <<jd, userVars, dying>>, worker' \in Workers,
         zap' \in {"no", "release", "lock", "soft", "wait", "done"}
  PROVE  Inv'
<1>1. CASE dying /\ scheduled /\ Holders = {}
  <2>1. PICK e : e = [S EXCEPT !.submit = FALSE]
    OBVIOUS
  <2>2. PICK n : n = Kill(e)
    OBVIOUS
  <2>3. Becomes(n) /\ scheduled' = FALSE
    BY <1>1, <2>1, <2>2 DEF ReleaseCtx
  <2>4. /\ Whole(S, jd, next, jobNr, Reports, scheduled, dying) /\ S \in HwStates
        /\ scheduled \in BOOLEAN /\ dying \in BOOLEAN
    BY WholeS
  <2>5. e \in HwStates /\ e.atom = S.atom /\ e.tree = S.tree /\ e.rb = S.rb /\ e.wq = S.wq
    BY <2>1, <2>4, SubmitSet
  <2>6. Whole(e, jd, next, jobNr, Reports, scheduled, dying)
    BY <2>4, <2>5, SameIdles, IdlesWhole
  <2>7. \A a \in Atoms : ~InRb(e, a)
    BY <1>1, <2>5, NoHolders DEF InRb
  <2>8. Whole(n, jd, next, jobNr, Reports, FALSE, TRUE)
    BY <1>1, <2>2, <2>4, <2>6, <2>7, KillWhole
  <2>9. S' = n
    BY <2>3, <2>8, BecomesIs DEF Whole
  <2>10. Reports' = Reports /\ TypeInv' /\ dying' = TRUE
    BY <1>1, <2>3, <2>4, ReportsKept, WholeS DEF TypeInv, userVars
  <2>. QED
    BY <2>3, <2>8, <2>9, <2>10 DEF Inv, userVars
<1>2. CASE ~(dying /\ scheduled /\ Holders = {})
  BY <1>2, QuietKeeps DEF ReleaseCtx
<1>. QED
  BY <1>1, <1>2

\* The release by the worker keeps the invariant.
LEMMA ReleaseWorkKeeps ==
  ASSUME Inv, ReleaseWork
  PROVE  Inv'
<1>1. worker' \in Workers /\ zap' \in {"no", "release", "lock", "soft", "wait", "done"}
  BY WholeS DEF ReleaseWork, TypeInv, Workers
<1>. QED
  BY <1>1, ReleaseKeeps DEF ReleaseWork

\* The release by js_return_worker keeps the invariant.
LEMMA ReturnReleaseKeeps ==
  ASSUME Inv, ReturnRelease
  PROVE  Inv'
<1>1. worker' \in Workers /\ zap' \in {"no", "release", "lock", "soft", "wait", "done"}
  BY WholeS DEF ReturnRelease, TypeInv, Workers
<1>. QED
  BY <1>1, ReleaseKeeps DEF ReturnRelease

\* The release by the zap keeps the invariant.
LEMMA ZapReleaseKeeps ==
  ASSUME Inv, ZapRelease
  PROVE  Inv'
<1>1. worker' \in Workers /\ zap' \in {"no", "release", "lock", "soft", "wait", "done"}
  BY WholeS DEF ZapRelease, TypeInv
<1>2. CASE worker.pc \in {"done", "release", "return"}
  BY <1>1, <1>2, QuietKeeps DEF ZapRelease
<1>3. CASE worker.pc \notin {"done", "release", "return"}
  BY <1>1, <1>3, ReleaseKeeps DEF ZapRelease
<1>. QED
  BY <1>2, <1>3

\* The zap finds no pass under way, so nothing runnable is left behind.
LEMMA ZapStartKeeps ==
  ASSUME Inv, ZapStart
  PROVE  Inv'
<1>1. /\ dying = FALSE /\ jd.by = "none" /\ dying' = TRUE /\ UNCHANGED <<jd, worker, userVars, scheduled>>
      /\ zap' \in {"release", "lock"}
  BY WholeS DEF ZapStart, JctxFree
<1>2. /\ Whole(S, jd, next, jobNr, Reports, scheduled, dying) /\ S \in HwStates
      /\ scheduled \in BOOLEAN /\ dying \in BOOLEAN
  BY WholeS
<1>3. jd.run = <<>>
  BY <1>1, <1>2 DEF Whole, Disp, PassInv, Idle
<1>4. Reports' = Reports /\ TypeInv'
  BY <1>1, ReportsKept, WholeS DEF TypeInv, userVars
<1>5. CASE scheduled
  <2>1. PICK late : Becomes(HardStop(HardStop([S EXCEPT !.submit = FALSE], "js0", late), "js1", late))
    BY <1>5 DEF ZapStart
  <2>2. PICK e : e = [S EXCEPT !.submit = FALSE]
    OBVIOUS
  <2>3. PICK m : m = HardStop(e, "js0", late)
    OBVIOUS
  <2>4. PICK n : n = HardStop(m, "js1", late)
    OBVIOUS
  <2>5. Good(S, {}) /\ ~Gone(scheduled, dying)
    BY <1>1, <1>2, WholeGood DEF Gone
  <2>6. Good(e, {}) /\ HwStep(S, e)
    BY <2>2, <2>5, SubmitGood
  <2>7. Steps(e, m)
    BY <2>3, <2>6, HardStopGood DEF Stops, Emptied, Steps, Slots
  <2>8. Steps(m, n)
    BY <2>4, <2>7, HardStopGood DEF Stops, Emptied, Steps, Slots
  <2>9. Steps(S, n)
    BY <1>2, <2>6, <2>7, <2>8, StepsTrans, GoodHw DEF Steps
  <2>10. Whole(n, jd, next, jobNr, Reports, scheduled, TRUE)
    BY <1>2, <1>3, <1>5, <2>5, <2>9, HwKeeps
  <2>11. S' = n
    BY <2>1, <2>2, <2>3, <2>4, <2>10, BecomesIs DEF Whole
  <2>. QED
    BY <1>1, <1>4, <2>10, <2>11 DEF Inv, userVars
<1>6. CASE ~scheduled
  <2>1. PICK n : n = Kill(S)
    OBVIOUS
  <2>2. \A a \in Atoms : ~InRb(S, a)
    BY <1>2, <1>6 DEF Whole, CtxInv
  <2>3. Whole(n, jd, next, jobNr, Reports, FALSE, TRUE)
    BY <1>2, <1>3, <2>1, <2>2, KillWhole
  <2>4. S' = n
    BY <1>6, <2>1, <2>3, BecomesIs DEF Whole, ZapStart
  <2>5. scheduled' = FALSE
    BY <1>1, <1>2, <1>6
  <2>. QED
    BY <1>1, <1>4, <2>3, <2>4, <2>5 DEF Inv, userVars
<1>. QED
  BY <1>5, <1>6

-----------------------------------------------------------------------------
(* Reports.                                                                 *)

Count(q, a) == Cardinality({n \in DOMAIN q : q[n] = a})

\* How often an atom is in a queue is a number.
LEMMA CountIs ==
  ASSUME NEW q \in Seq(Atoms), NEW a
  PROVE  /\ Count(q, a) \in Nat /\ IsFiniteSet({n \in DOMAIN q : q[n] = a})
         /\ Count(<<>>, a) = 0
<1>1. DOMAIN q = 1..Len(q) /\ Len(q) \in Nat
  BY SeqIs
<1>2. IsFiniteSet(DOMAIN q)
  BY <1>1, FS_Interval
<1>3. IsFiniteSet({n \in DOMAIN q : q[n] = a})
  BY <1>2, FS_Subset
<1>4. {n \in DOMAIN <<>> : <<>>[n] = a} = {}
  <2>1. <<>> \in Seq(Atoms)
    OBVIOUS
  <2>2. DOMAIN <<>> = 1..0
    BY <2>1, SeqIs
  <2>. QED
    BY <2>2
<1>. QED
  BY <1>3, <1>4, FS_CardinalityType, FS_EmptySet DEF Count

\* Adding an atom to a queue counts it once more.
LEMMA CountAppend ==
  ASSUME NEW q \in Seq(Atoms), NEW x \in Atoms, NEW a
  PROVE  Count(Append(q, x), a) = IF a = x THEN Count(q, a) + 1 ELSE Count(q, a)
<1>. DEFINE r == Append(q, x)
            A == {n \in DOMAIN q : q[n] = a}
            B == {n \in DOMAIN r : r[n] = a}
<1>1. PICK l : l = Len(q)
  OBVIOUS
<1>2. /\ DOMAIN q = 1..l /\ l \in Nat /\ DOMAIN r = 1..(l + 1) /\ r[l + 1] = x
      /\ \A i \in 1..l : r[i] = q[i]
  BY <1>1, AppendIs
<1>. HIDE DEF r
<1>3. \A n \in 1..(l + 1) : n \in 1..l \/ n = l + 1
  BY <1>2
<1>4. l + 1 \notin 1..l /\ l + 1 \in 1..(l + 1) /\ \A n \in 1..l : n \in 1..(l + 1)
  BY <1>2
<1>5. a = x => B = A \cup {l + 1}
  BY <1>2, <1>3, <1>4
<1>6. a # x => B = A
  BY <1>2, <1>3, <1>4
<1>7. IsFiniteSet(A) /\ l + 1 \notin A
  BY <1>2, <1>4, CountIs
<1>8. a = x => Cardinality(B) = Cardinality(A) + 1
  <2>. HIDE DEF A, B
  <2>. QED
    BY <1>5, <1>7, FS_AddElement
<1>9. Count(r, a) = Cardinality(B) /\ Count(q, a) = Cardinality(A)
  BY DEF Count
<1>. HIDE DEF A, B
<1>. QED
  BY <1>6, <1>8, <1>9 DEF r

\* Reports, term by term.
LEMMA ReportsAre ==
  /\ DOMAIN Reports = Atoms
  /\ \A a \in Atoms : Reports[a] = posted[a] + Count(completed, a)
BY DEF Reports, Reported, Count

\* Reports after a step, term by term.
LEMMA ReportsNext ==
  /\ DOMAIN Reports' = Atoms
  /\ \A a \in Atoms : Reports'[a] = posted'[a] + Count(completed', a)
BY DEF Reports, Reported, Count

\* Posting the events kept in completed_jobs keeps the invariant.
LEMMA PostWorkKeeps ==
  ASSUME Inv, PostWork
  PROVE  Inv'
<1>1. /\ posted' = [a \in Atoms |-> posted[a] + Count(completed, a)] /\ completed' = <<>>
      /\ worker' = [worker EXCEPT !.pc = "idle"] /\ UNCHANGED <<jsVars, jd, next, jobNr, ctxVars>>
  BY DEF PostWork, Count
<1>2. /\ completed \in Seq(Atoms) /\ posted \in [Atoms -> Nat] /\ worker \in Workers /\ TypeInv
  BY WholeS DEF TypeInv
<1>3. \A a \in Atoms : Count(completed, a) \in Nat /\ Count(completed', a) = 0
  BY <1>1, <1>2, CountIs
<1>4. posted' \in [Atoms -> Nat]
  BY <1>1, <1>2, <1>3
<1>5. Reports' = Reports
  <2>1. \A a \in Atoms : Reports'[a] = Reports[a]
    <3>1. ASSUME NEW a \in Atoms PROVE Reports'[a] = Reports[a]
      <4>1. Reports[a] = posted[a] + Count(completed, a) /\ Reports'[a] = posted'[a] + Count(completed', a)
        BY ReportsAre, ReportsNext
      <4>2. posted'[a] = posted[a] + Count(completed, a) /\ posted'[a] \in Nat
        BY <1>1, <1>4
      <4>. QED
        BY <1>3, <4>1, <4>2
    <3>. QED
      BY <3>1
  <2>2. Reports = [a \in Atoms |-> Reports[a]] /\ Reports' = [a \in Atoms |-> Reports'[a]]
    BY DEF Reports
  <2>. QED
    BY <2>1, <2>2, Zenon
<1>6. S' = S
  BY <1>1 DEF S, jsVars
<1>7. completed' \in Seq(Atoms) /\ worker' \in Workers
  BY <1>1, <1>2 DEF Workers
<1>8. TypeInv'
  BY <1>1, <1>2, <1>4, <1>7 DEF TypeInv, ctxVars
<1>. QED
  BY <1>1, <1>5, <1>6, <1>8, WholeS DEF Inv, ctxVars

\* The pass goes on without the atom it has reported.
After(j) == IF j.done = <<>> THEN Idle ELSE [j EXCEPT !.cur = NoAtom]

\* The pass after its current atom is done with.
LEMMA AfterIs ==
  ASSUME NEW j \in Passes, j.run = <<>>
  PROVE  /\ After(j) \in Passes /\ After(j).done = j.done /\ After(j).run = <<>> /\ After(j).cur = NoAtom
         /\ After(j) = Idle \/ After(j).by = j.by
<1>1. NoAtom \in 0..NumAtoms /\ <<>> \in Seq(Atoms)
  BY JobDepsAssumption DEF NoAtom
<1>2. CASE j.done = <<>>
  BY <1>1, <1>2 DEF After, Idle, Passes
<1>3. CASE j.done # <<>>
  <2>1. After(j) = [by |-> j.by, done |-> j.done, run |-> j.run, cur |-> NoAtom]
    BY <1>3 DEF After, Passes
  <2>. QED
    BY <1>1, <2>1 DEF Passes
<1>. QED
  BY <1>2, <1>3

\* Reporting the current atom once keeps the invariant.
LEMMA ReportedWhole ==
  ASSUME NEW s, NEW j, NEW nx \in 1..(NumAtoms + 1), NEW nr, NEW rep, NEW sch, NEW dy,
         Whole(s, j, nx, nr, rep, sch, dy), j.cur # NoAtom, j.run = <<>>,
         NEW now, \A a \in Atoms : now[a] = IF a = j.cur THEN rep[a] + 1 ELSE rep[a]
  PROVE  Whole(s, After(j), nx, nr - 1, now, sch, dy)
<1>1. /\ j \in Passes /\ QueueInv(s, nx) /\ OrderInv(s) /\ FailInv(s, dy) /\ PassInv(s, j, dy)
      /\ RepInv(s, j, rep, nr, nx) /\ s \in HwStates /\ HwInv(s, {}) /\ CtxInv(s, sch, dy)
  BY DEF Whole, Disp
<1>2. PICK c \in Atoms : c = j.cur
  BY <1>1, PassTypes
<1>3. s.atom[c].status = "completed" /\ rep[c] = 0 /\ j.by # "none" /\ c < nx
  <2>1. s.atom[c].status = "completed" /\ rep[c] = 0
    BY <1>1, <1>2 DEF PassInv, RepInv
  <2>2. j.by # "none"
    BY <1>1 DEF PassInv, Idle
  <2>. QED
    BY <1>1, <2>1, <2>2 DEF QueueInv
<1>4. \A a \in Atoms : now[a] = IF a = c THEN 1 ELSE rep[a]
  BY <1>2, <1>3
<1>5. /\ After(j) \in Passes /\ After(j).done = j.done /\ After(j).run = <<>> /\ After(j).cur = NoAtom
      /\ After(j) = Idle \/ After(j).by # "none"
  BY <1>1, <1>3, AfterIs
<1>6. PICK k : k = After(j)
  OBVIOUS
<1>7. DOMAIN k.run = {}
  <2>1. k.run \in Seq(Atoms) /\ k.run = <<>>
    BY <1>5, <1>6 DEF Passes
  <2>2. DOMAIN k.run = 1..Len(k.run) /\ Len(k.run) = 0
    BY <2>1, SeqIs
  <2>. QED
    BY <2>2
<1>8. PassInv(s, k, dy)
  <2>1. \A n \in DOMAIN j.done : j.done[n] \in Atoms
    BY <1>1, PassTypes
  <2>2. \A n \in DOMAIN j.done : j.done[n] # NoAtom
    BY <2>1, NotAtom
  <2>. QED
    BY <1>1, <1>5, <1>6, <1>7, <2>2 DEF PassInv, Distinct
<1>9. 1..(nx - 1) \subseteq Atoms /\ c \in 1..(nx - 1)
  <2>1. c \in Nat \ {0}
    BY AtomsFinite
  <2>. QED
    BY <1>3, <2>1, JobDepsAssumption DEF Atoms
<1>10. nr - 1 = Cardinality({a \in 1..(nx - 1) : now[a] = 0})
  <2>. DEFINE A == {a \in 1..(nx - 1) : rep[a] = 0}
              B == {a \in 1..(nx - 1) : now[a] = 0}
  <2>1. nr = Cardinality(A)
    BY <1>1 DEF RepInv
  <2>2. IsFiniteSet(A)
    <3>1. A \in SUBSET Atoms
      BY <1>9
    <3>. QED
      BY <3>1, AtomsFinite
  <2>3. c \in A
    BY <1>3, <1>9
  <2>4. B = A \ {c}
    BY <1>4, <1>9
  <2>. HIDE DEF A
  <2>5. Cardinality(A \ {c}) = Cardinality(A) - 1
    BY <2>2, <2>3, FS_RemoveElement
  <2>. QED
    BY <2>1, <2>4, <2>5
<1>11. RepInv(s, k, now, nr - 1, nx)
  <2>1. \A a \in Atoms : now[a] \in {0, 1} /\ (now[a] = 1 => s.atom[a].status = "completed")
    BY <1>1, <1>3, <1>4 DEF RepInv
  <2>2. ASSUME NEW n \in DOMAIN j.done PROVE now[j.done[n]] = 0
    <3>1. j.done[n] \in Atoms /\ j.done[n] # c /\ rep[j.done[n]] = 0
      BY <1>1, <1>2, PassTypes DEF PassInv, RepInv
    <3>. QED
      BY <1>4, <3>1
  <2>. QED
    BY <1>5, <1>6, <1>10, <2>1, <2>2 DEF RepInv
<1>. QED
  BY <1>1, <1>5, <1>6, <1>8, <1>11 DEF Whole, Disp

\* The end of the loop body of jd_done_nolock keeps the invariant.
LEMMA FinishCurKeeps ==
  ASSUME Inv, FinishCur
  PROVE  Inv'
<1>1. /\ jd.cur # NoAtom /\ jd.run = <<>> /\ jobNr' = jobNr - 1 /\ jd' = After(jd)
      /\ UNCHANGED <<jsVars, next, ctxVars>>
  BY DEF FinishCur, After
<1>2. /\ Whole(S, jd, next, jobNr, Reports, scheduled, dying) /\ TypeInv /\ jd \in Passes
      /\ completed \in Seq(Atoms) /\ posted \in [Atoms -> Nat] /\ worker \in Workers
      /\ next \in 1..(NumAtoms + 1) /\ jobNr \in Int
  BY WholeS DEF TypeInv
<1>3. PICK c \in Atoms : c = jd.cur
  BY <1>1, <1>2, PassTypes
<1>4. \A a \in Atoms : Count(completed, a) \in Nat /\ posted[a] \in Nat
  BY <1>2, CountIs
<1>5. /\ completed' \in Seq(Atoms) /\ posted' \in [Atoms -> Nat]
      /\ \A a \in Atoms : Reports'[a] = IF a = c THEN Reports[a] + 1 ELSE Reports[a]
  <2>1. CASE jd.by = "worker"
    <3>1. completed' = Append(completed, c) /\ posted' = posted
      BY <1>3, <2>1 DEF FinishCur
    <3>2. completed' \in Seq(Atoms)
      BY <1>2, <3>1, AppendIs
    <3>3. ASSUME NEW a \in Atoms PROVE Reports'[a] = IF a = c THEN Reports[a] + 1 ELSE Reports[a]
      <4>1. Count(completed', a) = IF a = c THEN Count(completed, a) + 1 ELSE Count(completed, a)
        BY <1>2, <3>1, CountAppend
      <4>2. Reports[a] = posted[a] + Count(completed, a) /\ Reports'[a] = posted[a] + Count(completed', a)
        BY <3>1, ReportsAre, ReportsNext
      <4>. QED
        BY <1>4, <4>1, <4>2
    <3>. QED
      BY <1>2, <3>1, <3>2, <3>3
  <2>2. CASE jd.by # "worker"
    <3>1. posted' = [posted EXCEPT ![c] = @ + 1] /\ completed' = completed
      BY <1>3, <2>2 DEF FinishCur
    <3>2. posted' \in [Atoms -> Nat]
      BY <1>2, <1>4, <3>1
    <3>3. ASSUME NEW a \in Atoms PROVE Reports'[a] = IF a = c THEN Reports[a] + 1 ELSE Reports[a]
      <4>1. posted'[a] = IF a = c THEN posted[a] + 1 ELSE posted[a]
        BY <1>2, <3>1
      <4>2. Reports[a] = posted[a] + Count(completed, a) /\ Reports'[a] = posted'[a] + Count(completed, a)
        BY <3>1, ReportsAre, ReportsNext
      <4>. QED
        BY <1>4, <4>1, <4>2
    <3>. QED
      BY <1>2, <3>1, <3>2, <3>3
  <2>. QED
    BY <2>1, <2>2
<1>6. Whole(S, jd', next, jobNr', Reports', scheduled, dying)
  <2>1. PICK now : now = Reports'
    OBVIOUS
  <2>2. Whole(S, After(jd), next, jobNr - 1, now, scheduled, dying)
    BY <1>1, <1>2, <1>3, <1>5, <2>1, ReportedWhole
  <2>. QED
    BY <1>1, <2>1, <2>2
<1>7. worker' \in Workers
  BY <1>2 DEF FinishCur, Workers
<1>8. S' = S
  BY <1>1 DEF S, jsVars
<1>9. TypeInv'
  BY <1>1, <1>2, <1>5, <1>7 DEF TypeInv, ctxVars
<1>. QED
  BY <1>1, <1>6, <1>8, <1>9 DEF Inv, ctxVars

-----------------------------------------------------------------------------
(* jd_resolve_dep: the dependants of a finished atom.                       *)

\* Dependency d of every dependant of k is taken off.
Head1(s, k, d) == {a \in Atoms : s.atom[a].dep[d].id = k}
Marks(s, a, k, d) == s.atom[k].event # "done" /\ s.atom[a].dep[d].type = "data"
Cleared(s, n, k, d) ==
  /\ n \in HwStates /\ n.tree = s.tree /\ n.rb = s.rb /\ n.wq = s.wq
  /\ \A a \in Atoms \ Head1(s, k, d) : n.atom[a] = s.atom[a]
  /\ \A a \in Head1(s, k, d) :
       /\ Fixed(n.atom[a], s.atom[a]) /\ n.atom[a].status = s.atom[a].status
       /\ n.atom[a].flags = s.atom[a].flags /\ n.atom[a].rbState = s.atom[a].rbState
       /\ n.atom[a].dep[d].id = NoAtom /\ n.atom[a].dep[3 - d] = s.atom[a].dep[3 - d]
       /\ Marks(s, a, k, d) => n.atom[a].wf /\ n.atom[a].event = s.atom[k].event
       /\ ~Marks(s, a, k, d) => (n.atom[a].wf <=> s.atom[a].wf) /\ n.atom[a].event = s.atom[a].event

Readied(s, n, run, k, d, ready, dy) ==
  /\ ready \subseteq Head1(s, k, d) /\ \A a \in ready : ~Has(run, a)
  /\ \A a \in ready : \/ n.atom[a].dep[3 - d].id = NoAtom
                      \/ n.atom[a].kind \in Slots /\ ~dy

\* An atom has two dependencies: this one and the other.
LEMMA OtherDep ==
  ASSUME NEW d \in 1..2
  PROVE  3 - d \in 1..2 /\ 3 - d # d /\ \A e \in 1..2 : e = d \/ e = 3 - d
OBVIOUS

\* A list of dependants resolved, and the pass that gained those ready.
WithAtoms(s, q) == [s EXCEPT !.atom = q.atom]
Gains(s, n, q, run, k, d) ==
  \E ready : Readied(s, n, run, k, d, ready, dying) /\ q.run = run \o ByAge(ready)

\* jd_resolve_dep clears one kind of dependency on the completed atom and
\* lists the atoms that have none left.
LEMMA ResolveDepIs ==
  ASSUME NEW s \in HwStates, NEW run, NEW k \in Atoms, NEW d \in 1..2,
         NEW q, q = ResolveDep([atom |-> s.atom, run |-> run], k, d), NEW n, n = WithAtoms(s, q)
  PROVE  /\ Cleared(s, n, k, d) /\ n.atom = q.atom
         /\ Gains(s, n, q, run, k, d)
<1>. DEFINE heads == {a \in Atoms : s.atom[a].dep[d].id = k}
            F(a) == s.atom[k].event # "done" /\ s.atom[a].dep[d].type = "data"
            New(a) == [s.atom[a] EXCEPT !.dep[d] = None,
                                        !.event = IF F(a) THEN s.atom[k].event ELSE @,
                                        !.wf = @ \/ F(a)]
            after == [a \in Atoms |-> IF a \in heads THEN New(a) ELSE s.atom[a]]
            Other(a) == after[a].dep[3 - d].id
            ready == {a \in heads :
                       /\ a \notin Range(run)
                       /\ \/ Other(a) = NoAtom
                          \/ /\ after[a].kind \in Slots /\ ~dying
                             /\ ~after[a].wf /\ ~after[Other(a)].wf}
<1>1. q.atom = after /\ q.run = run \o ByAge(ready)
  <2>1. q = [atom |-> after, run |-> run \o ByAge(ready)]
    BY Zenon DEF ResolveDep
  <2>. HIDE DEF after, ready
  <2>. QED
    BY <2>1, Z3T(30)
<1>2. 3 - d \in 1..2 /\ 3 - d # d
  BY OtherDep
<1>3. ASSUME NEW a \in Atoms
      PROVE  /\ New(a) \in AtomRecords /\ Fixed(New(a), s.atom[a]) /\ New(a).status = s.atom[a].status
             /\ New(a).flags = s.atom[a].flags /\ New(a).rbState = s.atom[a].rbState
             /\ New(a).dep[d].id = NoAtom /\ New(a).dep[3 - d] = s.atom[a].dep[3 - d]
             /\ F(a) => New(a).wf /\ New(a).event = s.atom[k].event
             /\ ~F(a) => (New(a).wf <=> s.atom[a].wf) /\ New(a).event = s.atom[a].event
  <2>1. PICK r \in AtomRecords : r = s.atom[a]
    BY AtomIs
  <2>2. PICK v \in Events : v = s.atom[k].event
    BY AtomIs, AtomTypes
  <2>3. PICK f \in BOOLEAN : f = F(a)
    OBVIOUS
  <2>4. PICK e : e = IF f THEN v ELSE r.event
    OBVIOUS
  <2>5. PICK w : w = (r.wf \/ f)
    OBVIOUS
  <2>6. PICK p : p = [r.dep EXCEPT ![d] = None]
    OBVIOUS
  <2>7. /\ p \in [1..2 -> Deps] /\ p[d].id = NoAtom /\ p[3 - d] = r.dep[3 - d]
    BY <1>2, <2>6, AtomTypes, NoDeps
  <2>8. e \in Events /\ w \in BOOLEAN
    BY <2>2, <2>4, <2>5, AtomTypes
  <2>9. New(a) = [r EXCEPT !.dep = p, !.event = e, !.wf = w]
    BY <2>1, <2>2, <2>3, <2>4, <2>5, <2>6
  <2>10. PICK t : t = New(a)
    OBVIOUS
  <2>11. /\ t \in AtomRecords /\ Fixed(t, r) /\ t.status = r.status /\ t.flags = r.flags
         /\ t.rbState = r.rbState /\ t.dep = p /\ t.event = e /\ t.wf = w
    <3>1. t = [r EXCEPT !.dep = p, !.event = e, !.wf = w]
      BY <2>9, <2>10
    <3>2. p \in [1..2 -> Deps] /\ e \in Events /\ w \in BOOLEAN
      BY <2>7, <2>8
    <3>. HIDE DEF New, F
    <3>. QED
      BY <3>1, <3>2 DEF AtomRecords, Fixed, Events
  <2>12. /\ f => t.wf /\ t.event = v
         /\ ~f => (t.wf <=> r.wf) /\ t.event = r.event
    BY <2>4, <2>5, <2>11, AtomTypes
  <2>. HIDE DEF New, F
  <2>. QED
    BY <2>1, <2>2, <2>3, <2>7, <2>10, <2>11, <2>12
<1>. HIDE DEF New
<1>4. after \in [Atoms -> AtomRecords]
  BY <1>3, AtomIs
<1>5. n.atom = after /\ n \in HwStates /\ n.tree = s.tree /\ n.rb = s.rb /\ n.wq = s.wq /\ q.atom = after
  <2>1. PICK t : t = after
    BY Zenon
  <2>2. q.atom = t /\ t \in [Atoms -> AtomRecords]
    <3>. HIDE DEF after
    <3>. QED
      BY <1>1, <1>4, <2>1, Zenon
  <2>3. n = [s EXCEPT !.atom = t]
    BY <2>2 DEF WithAtoms
  <2>4. n.atom = t /\ n \in HwStates /\ n.tree = s.tree /\ n.rb = s.rb /\ n.wq = s.wq
    BY <2>2, <2>3 DEF HwStates
  <2>. HIDE DEF after
  <2>. QED
    BY <2>1, <2>2, <2>4
<1>6. Cleared(s, n, k, d)
  <2>1. heads = Head1(s, k, d) /\ \A a \in Atoms : F(a) <=> Marks(s, a, k, d)
    BY DEF Head1, Marks
  <2>2. \A a \in Atoms : n.atom[a] = IF a \in heads THEN New(a) ELSE s.atom[a]
    BY <1>5
  <2>. HIDE DEF F
  <2>3. \A a \in Atoms \ Head1(s, k, d) : n.atom[a] = s.atom[a]
    BY <2>1, <2>2
  <2>4. ASSUME NEW a \in Head1(s, k, d)
        PROVE  /\ Fixed(n.atom[a], s.atom[a]) /\ n.atom[a].status = s.atom[a].status
               /\ n.atom[a].flags = s.atom[a].flags /\ n.atom[a].rbState = s.atom[a].rbState
               /\ n.atom[a].dep[d].id = NoAtom /\ n.atom[a].dep[3 - d] = s.atom[a].dep[3 - d]
               /\ Marks(s, a, k, d) => n.atom[a].wf /\ n.atom[a].event = s.atom[k].event
               /\ ~Marks(s, a, k, d) => (n.atom[a].wf <=> s.atom[a].wf) /\ n.atom[a].event = s.atom[a].event
    <3>1. a \in Atoms /\ n.atom[a] = New(a)
      BY <2>1, <2>2 DEF Head1
    <3>. QED
      BY <1>3, <2>1, <3>1
  <2>. HIDE DEF heads
  <2>. QED
    BY <1>5, <2>3, <2>4 DEF Cleared
<1>7. Readied(s, n, run, k, d, ready, dying)
  <2>1. ready \subseteq Head1(s, k, d)
    BY Zenon DEF Head1
  <2>2. \A a \in ready : ~Has(run, a)
    BY Zenon DEF Has, Range
  <2>3. \A a \in ready : n.atom[a].dep[3 - d].id = NoAtom \/ (n.atom[a].kind \in Slots /\ ~dying)
    BY <1>5, Zenon
  <2>. HIDE DEF ready
  <2>. QED
    BY <2>1, <2>2, <2>3, Zenon DEF Readied
<1>. HIDE DEF after, ready
<1>. QED
  BY <1>1, <1>5, <1>6, <1>7 DEF Gains

\* The runnable list names each atom once.
LEMMA RunLists ==
  ASSUME NEW j \in Passes, Distinct(j.run)
  PROVE  Lists(j.run, {a \in Atoms : Has(j.run, a)})
<1>1. \A a : Has(j.run, a) => a \in Atoms
  BY PassTypes DEF Has
<1>. QED
  BY <1>1, PassTypes DEF Lists

\* The heads wait, with nothing of the scheduler's on them.
LEMMA ClearedHeads ==
  ASSUME NEW s \in HwStates, HwInv(s, {}), NEW nx, QueueInv(s, nx), NEW n, NEW k \in Atoms, NEW d \in 1..2,
         s.atom[k].status = "completed", Cleared(s, n, k, d)
  PROVE  /\ \A a \in Head1(s, k, d) :
              /\ a \in Atoms /\ Waits(s, a, d) /\ s.atom[a].pre[d].id = k /\ s.atom[a].dep[d] = s.atom[a].pre[d]
              /\ s.atom[a].status = "queued" /\ "waiting" \notin s.atom[a].flags
              /\ Outer(n.atom[a], s.atom[a])
         /\ n.atom[k] = s.atom[k]
         /\ AllKept(s, n)
         /\ \A a \in Atoms : /\ n.atom[a].status = s.atom[a].status /\ n.atom[a].kind = s.atom[a].kind
                             /\ n.atom[a].pre = s.atom[a].pre /\ n.atom[a].flags = s.atom[a].flags
                             /\ n.atom[a].xPre = s.atom[a].xPre /\ n.atom[a].preDep = s.atom[a].preDep
                             /\ \A e \in 1..2 : Waits(n, a, e) => Waits(s, a, e) /\ n.atom[a].dep[e] = s.atom[a].dep[e]
                             /\ \A e \in 1..2 : Waits(s, a, e) /\ ~Waits(n, a, e) => e = d /\ a \in Head1(s, k, d)
<1>1. ASSUME NEW a \in Head1(s, k, d)
      PROVE  /\ a \in Atoms /\ Waits(s, a, d) /\ s.atom[a].pre[d].id = k /\ s.atom[a].dep[d] = s.atom[a].pre[d]
             /\ s.atom[a].status = "queued" /\ "waiting" \notin s.atom[a].flags
             /\ Outer(n.atom[a], s.atom[a])
  <2>1. a \in Atoms /\ s.atom[a].dep[d].id = k
    BY DEF Head1
  <2>2. Waits(s, a, d)
    BY <2>1, NotAtom DEF Waits
  <2>3. /\ s.atom[a].dep[d] = s.atom[a].pre[d] /\ s.atom[a].status = "queued"
        /\ "waiting" \notin s.atom[a].flags
    BY <2>1, <2>2 DEF QueueInv, WaitInv
  <2>4. Outer(n.atom[a], s.atom[a])
    BY <2>1, <2>3, OutsideIs DEF Cleared, Outer, Fixed
  <2>. QED
    BY <2>1, <2>2, <2>3, <2>4
<1>2. n.atom[k] = s.atom[k]
  BY <1>1 DEF Cleared
<1>3. ASSUME NEW a \in Atoms PROVE Keeps(s, n, a)
  <2>1. a \notin Head1(s, k, d) => n.atom[a] = s.atom[a]
    BY DEF Cleared
  <2>. QED
    BY <1>1, <2>1, StaysSelf DEF Keeps
<1>4. AllKept(s, n)
  BY <1>3 DEF AllKept, Cleared, WorkKept
<1>5. ASSUME NEW a \in Atoms
      PROVE  /\ n.atom[a].status = s.atom[a].status /\ n.atom[a].kind = s.atom[a].kind
             /\ n.atom[a].pre = s.atom[a].pre /\ n.atom[a].flags = s.atom[a].flags
             /\ n.atom[a].xPre = s.atom[a].xPre /\ n.atom[a].preDep = s.atom[a].preDep
             /\ \A e \in 1..2 : Waits(n, a, e) => Waits(s, a, e) /\ n.atom[a].dep[e] = s.atom[a].dep[e]
             /\ \A e \in 1..2 : Waits(s, a, e) /\ ~Waits(n, a, e) => e = d /\ a \in Head1(s, k, d)
  <2>1. CASE a \notin Head1(s, k, d)
    BY <2>1 DEF Cleared, Waits
  <2>2. CASE a \in Head1(s, k, d)
    BY <2>2, OtherDep DEF Cleared, Fixed, Waits
  <2>. QED
    BY <2>1, <2>2
<1>. QED
  BY <1>1, <1>2, <1>4, <1>5

\* Clearing a dependency on the completed atom keeps the invariant.
LEMMA ClearedWhole ==
  ASSUME NEW s, NEW j, NEW nx, NEW nr, NEW rep, NEW sch, NEW dy,
         Whole(s, j, nx, nr, rep, sch, dy), NEW k \in Atoms, j.cur = k, NEW d \in 1..2,
         NEW n, Cleared(s, n, k, d), NEW ready, Readied(s, n, j.run, k, d, ready, dy),
         NEW i, i = [j EXCEPT !.run = j.run \o ByAge(ready)]
  PROVE  Whole(n, i, nx, nr, rep, sch, dy)
<1>1. /\ s \in HwStates /\ HwInv(s, {}) /\ CtxInv(s, sch, dy) /\ j \in Passes
      /\ QueueInv(s, nx) /\ OrderInv(s) /\ FailInv(s, dy) /\ PassInv(s, j, dy) /\ RepInv(s, j, rep, nr, nx)
  BY DEF Whole, Disp
<1>2. s.atom[k].status = "completed" /\ k # NoAtom
  BY <1>1, NotAtom DEF PassInv
<1>3. \A a \in Head1(s, k, d) :
        /\ a \in Atoms /\ Waits(s, a, d) /\ s.atom[a].pre[d].id = k /\ s.atom[a].dep[d] = s.atom[a].pre[d]
        /\ s.atom[a].status = "queued" /\ "waiting" \notin s.atom[a].flags
  BY <1>1, <1>2, ClearedHeads
<1>4. n.atom[k] = s.atom[k] /\ AllKept(s, n)
  BY <1>1, <1>2, ClearedHeads
<1>5. \A a \in Atoms : /\ n.atom[a].status = s.atom[a].status /\ n.atom[a].kind = s.atom[a].kind
                       /\ n.atom[a].pre = s.atom[a].pre /\ n.atom[a].flags = s.atom[a].flags
                       /\ n.atom[a].xPre = s.atom[a].xPre /\ n.atom[a].preDep = s.atom[a].preDep
                       /\ \A e \in 1..2 : Waits(n, a, e) => Waits(s, a, e) /\ n.atom[a].dep[e] = s.atom[a].dep[e]
                       /\ \A e \in 1..2 : Waits(s, a, e) /\ ~Waits(n, a, e) => e = d /\ a \in Head1(s, k, d)
  BY <1>1, <1>2, ClearedHeads
<1>6. \A a \in Atoms : a \notin Head1(s, k, d) => n.atom[a] = s.atom[a]
  BY DEF Cleared
<1>7. \A a \in Head1(s, k, d) :
        /\ Marks(s, a, k, d) => n.atom[a].wf /\ n.atom[a].event = s.atom[k].event
        /\ ~Marks(s, a, k, d) => (n.atom[a].wf <=> s.atom[a].wf) /\ n.atom[a].event = s.atom[a].event
  BY DEF Cleared
<1>8. n \in HwStates /\ HwInv(n, {}) /\ CtxInv(n, sch, dy)
  BY <1>1, <1>4, KeptGood, KeptCtx DEF AllKept
<1>9. QueueInv(n, nx)
  <2>1. ASSUME NEW a \in Atoms
        PROVE  /\ a < nx <=> n.atom[a].status # "unused"
               /\ \A e \in 1..2 : WaitInv(n, a, e)
               /\ SoftInv(n, a)
    <3>1. a < nx <=> n.atom[a].status # "unused"
      BY <1>1, <1>5 DEF QueueInv
    <3>2. \A e \in 1..2 : WaitInv(n, a, e)
      BY <1>1, <1>5 DEF QueueInv, WaitInv
    <3>3. SoftInv(n, a)
      <4>1. SoftInv(s, a)
        BY <1>1 DEF QueueInv
      <4>. QED
        BY <1>3, <1>5, <1>6, <4>1 DEF SoftInv
    <3>. QED
      BY <3>1, <3>2, <3>3
  <2>. QED
    BY <2>1 DEF QueueInv
<1>10. OrderInv(n)
  <2>1. ASSUME NEW a \in Atoms, NEW e \in 1..2,
               n.atom[a].status \notin {"unused", "completed"}, n.atom[a].pre[e].id \in 1..(a - 1)
        PROVE  InOrder(n, a, e)
    <3>1. InOrder(s, a, e) /\ n.atom[a].pre = s.atom[a].pre
      BY <1>1, <1>5, <2>1 DEF OrderInv
    <3>2. s.atom[a].pre[e].id \in Atoms
      BY <1>1, <2>1, <3>1, DepTypes
    <3>3. Waits(s, a, e) /\ ~Waits(n, a, e) => Ended(n, s.atom[a].pre[e].id)
      BY <1>2, <1>3, <1>4, <1>5 DEF Ended
    <3>. QED
      BY <1>5, <3>1, <3>2, <3>3, Zenon DEF InOrder, Ended
  <2>. QED
    BY <2>1, Zenon DEF OrderInv
<1>11. ASSUME NEW a \in Atoms PROVE MarkInv(n, a) /\ (s.atom[a].wf => n.atom[a].wf)
  <2>1. MarkInv(s, a)
    BY <1>1 DEF FailInv
  <2>2. CASE a \notin Head1(s, k, d)
    BY <1>6, <2>1, <2>2 DEF MarkInv
  <2>3. CASE a \in Head1(s, k, d)
    <3>1. CASE Marks(s, a, k, d)
      BY <1>7, <2>3, <3>1 DEF MarkInv, Marks
    <3>2. CASE ~Marks(s, a, k, d)
      BY <1>5, <1>7, <2>1, <2>3, <3>2 DEF MarkInv
    <3>. QED
      BY <3>1, <3>2
  <2>. QED
    BY <2>2, <2>3
<1>12. ASSUME NEW a \in Atoms, NEW e \in 1..2, CrossData(n, a, e) PROVE Warned(n, a, e, dy)
  <2>1. n.atom[a].pre = s.atom[a].pre
    BY <1>5, Zenon
  <2>2. s.atom[a].pre[e].id \in Atoms
    BY <1>1, <1>12, <2>1, DepTypes, Zenon DEF CrossData
  <2>3. CrossData(s, a, e)
    BY <1>5, <1>12, <2>1, <2>2 DEF CrossData
  <2>4. Warned(s, a, e, dy)
    BY <1>1, <2>3 DEF FailInv
  <2>5. CASE Waits(s, a, e) /\ ~Waits(n, a, e)
    <3>1. e = d /\ a \in Head1(s, k, d)
      BY <1>5, <2>5, Z3T(30)
    <3>2. /\ s.atom[a].pre[e].id = k /\ s.atom[a].dep[e] = s.atom[a].pre[e]
          /\ s.atom[a].status = "queued" /\ s.atom[a].dep[e].type = "data"
      BY <1>3, <2>3, <3>1 DEF CrossData
    <3>3. CASE s.atom[k].event = "done"
      BY <1>2, <1>4, <2>1, <3>2, <3>3 DEF Warned, Ended
    <3>4. CASE s.atom[k].event # "done"
      <4>1. n.atom[a].wf /\ n.atom[a].status = "queued"
        BY <1>5, <1>7, <3>1, <3>2, <3>4 DEF Marks
      <4>. QED
        BY <4>1 DEF Warned, Failed
    <3>. QED
      BY <3>3, <3>4
  <2>6. CASE Waits(s, a, e) /\ Waits(n, a, e)
    BY <2>6, Zenon DEF Warned
  <2>7. CASE ~Waits(s, a, e)
    <3>1. Failed(s, a, dy) => Failed(n, a, dy)
      <4>1. s.atom[a].status = "completed" => n.atom[a] = s.atom[a]
        BY <1>3, <1>6, Zenon
      <4>. QED
        BY <1>5, <1>11, <4>1 DEF Failed
    <3>2. LET b == s.atom[a].pre[e].id IN Ended(s, b) => Ended(n, b) /\ n.atom[b].event = s.atom[b].event
      <4>1. ASSUME NEW b \in Atoms, Ended(s, b) PROVE Ended(n, b) /\ n.atom[b].event = s.atom[b].event
        <5>1. b \notin Head1(s, k, d)
          BY <1>3, <4>1 DEF Ended
        <5>. QED
          BY <1>6, <4>1, <5>1 DEF Ended
      <4>. QED
        BY <2>2, <4>1
    <3>. QED
      BY <1>5, <2>1, <2>4, <2>7, <3>1, <3>2 DEF Warned, Blocked
  <2>. QED
    BY <2>5, <2>6, <2>7
<1>13. FailInv(n, dy)
  BY <1>11, <1>12 DEF FailInv
<1>14. PICK R : R = {a \in Atoms : Has(j.run, a)}
  OBVIOUS
<1>15. ready \in SUBSET Atoms /\ R \cap ready = {}
  BY <1>14 DEF Readied, Head1
<1>16. Lists(j.run \o ByAge(ready), R \cup ready)
  <2>1. Lists(j.run, R)
    BY <1>1, <1>14, RunLists DEF PassInv
  <2>. QED
    BY <1>15, <2>1, ByAgeLists, ConcatLists
<1>17. PICK q : q = j.run \o ByAge(ready)
  OBVIOUS
<1>18. /\ i \in Passes /\ i.run = q /\ i.done = j.done /\ i.cur = j.cur /\ i.by = j.by
  <2>1. q \in Seq(Atoms) /\ i = [j EXCEPT !.run = q]
    BY <1>16, <1>17 DEF Lists
  <2>. QED
    BY <1>1, <2>1 DEF Passes
<1>19. ASSUME NEW a \in R \cup ready PROVE Runnable(n, a, dy)
  <2>1. CASE a \in R
    <3>1. a \in Atoms /\ Runnable(s, a, dy)
      BY <1>1, <1>14, <2>1, Zenon DEF PassInv, Has
    <3>. QED
      BY <1>5, <3>1 DEF Runnable, NoWaits
  <2>2. CASE a \in ready
    <3>1. a \in Head1(s, k, d) /\ (n.atom[a].dep[3 - d].id = NoAtom \/ (n.atom[a].kind \in Slots /\ ~dy))
      BY <2>2 DEF Readied
    <3>2. n.atom[a].dep[d].id = NoAtom
      BY <3>1 DEF Cleared
    <3>3. \A e \in 1..2 : e = d \/ e = 3 - d
      BY OtherDep
    <3>. QED
      BY <1>3, <1>5, <3>1, <3>2, <3>3 DEF Runnable, NoWaits, Waits
  <2>. QED
    BY <2>1, <2>2
<1>20. PassInv(n, i, dy)
  <2>1. \A m \in DOMAIN i.run : Runnable(n, i.run[m], dy)
    BY <1>16, <1>17, <1>18, <1>19 DEF Lists, Has
  <2>2. Distinct(i.run)
    BY <1>16, <1>17, <1>18 DEF Lists
  <2>3. \A m \in DOMAIN j.done : j.done[m] \in Atoms
    BY <1>1, PassTypes
  <2>4. i.cur = k /\ k # NoAtom /\ i.by # "none"
    BY <1>1, <1>2, <1>18 DEF PassInv, Idle
  <2>. QED
    BY <1>1, <1>2, <1>4, <1>5, <1>18, <2>1, <2>2, <2>3, <2>4 DEF PassInv
<1>21. RepInv(n, i, rep, nr, nx)
  <2>1. \A a \in Atoms : s.atom[a].status = "completed" => n.atom[a].status = "completed"
    BY <1>5
  <2>2. RepInv(n, j, rep, nr, nx)
    BY <1>1, <2>1, StepRep
  <2>. QED
    BY <1>18, <2>2 DEF RepInv
<1>. QED
  BY <1>8, <1>9, <1>10, <1>13, <1>18, <1>20, <1>21 DEF Whole, Disp

\* The pass turns to the atom at the end of its list.
TurnOf(j) == [j EXCEPT !.done = Front(j.done), !.cur = Last(j.done)]
Turned(i, j) == i.cur = Last(j.done) /\ i.cur \in Atoms /\ i.run = <<>>

\* Taking the next completed atom keeps the invariant.
LEMMA TurnWhole ==
  ASSUME NEW s, NEW j, NEW nx, NEW nr, NEW rep, NEW sch, NEW dy,
         Whole(s, j, nx, nr, rep, sch, dy), j.done # <<>>, j.cur = NoAtom,
         NEW i, i = TurnOf(j)
  PROVE  Whole(s, i, nx, nr, rep, sch, dy) /\ Turned(i, j)
<1>1. /\ s \in HwStates /\ HwInv(s, {}) /\ CtxInv(s, sch, dy) /\ j \in Passes
      /\ QueueInv(s, nx) /\ OrderInv(s) /\ FailInv(s, dy) /\ PassInv(s, j, dy) /\ RepInv(s, j, rep, nr, nx)
  BY DEF Whole, Disp
<1>2. PICK l : l = Len(j.done)
  OBVIOUS
<1>3. /\ j.done \in Seq(Atoms) /\ l \in Nat \ {0} /\ DOMAIN j.done = 1..l
      /\ \A m \in 1..l : j.done[m] \in Atoms
  <2>1. j.done \in Seq(Atoms)
    BY <1>1, PassTypes
  <2>2. l # 0 /\ l \in Nat /\ DOMAIN j.done = 1..l /\ \A m \in 1..l : j.done[m] \in Atoms
    BY <1>2, <2>1, SeqIs
  <2>. QED
    BY <2>1, <2>2
<1>4. PICK f : f = Front(j.done)
  OBVIOUS
<1>5. f = [m \in 1..(l - 1) |-> j.done[m]] /\ f \in Seq(Atoms) /\ DOMAIN f = 1..(l - 1)
  <2>1. f = [m \in 1..(l - 1) |-> j.done[m]]
    <3>1. f = SubSeq(j.done, 1, l - 1)
      BY <1>2, <1>4 DEF Front
    <3>2. 1 \in 1..(l + 1) /\ l - 1 \in (1 - 1)..l
      BY <1>3
    <3>. QED
      BY <1>2, <1>3, <3>1, <3>2, SubSeqProperties
  <2>2. f \in [1..(l - 1) -> Atoms] /\ l - 1 \in Nat
    BY <1>3, <2>1
  <2>. QED
    BY <2>1, <2>2, SeqDef
<1>6. PICK c : c = j.done[l]
  OBVIOUS
<1>7. c = Last(j.done) /\ c \in Atoms /\ l \in DOMAIN j.done
  BY <1>2, <1>3, <1>6 DEF Last
<1>8. /\ i \in Passes /\ i.done = f /\ i.cur = c /\ i.run = j.run /\ i.by = j.by
  <2>1. i = [j EXCEPT !.done = f, !.cur = c]
    BY <1>4, <1>7 DEF TurnOf
  <2>2. c \in 0..NumAtoms
    BY <1>7 DEF Atoms
  <2>. QED
    BY <1>1, <1>5, <2>1, <2>2 DEF Passes
<1>9. ASSUME NEW m \in DOMAIN f PROVE f[m] = j.done[m] /\ m \in DOMAIN j.done /\ m # l
  BY <1>3, <1>5
<1>10. c # NoAtom /\ s.atom[c].status = "completed" /\ rep[c] = 0 /\ i.by # "none" /\ j.run = <<>>
  <2>1. j.by # "none"
    <3>1. Idle.done = <<>>
      BY DEF Idle
    <3>. QED
      BY <1>1, <3>1 DEF PassInv
  <2>. QED
    BY <1>1, <1>6, <1>7, <1>8, <2>1, NotAtom DEF PassInv, RepInv
<1>11. PassInv(s, i, dy)
  <2>1. ASSUME NEW m \in DOMAIN f PROVE s.atom[f[m]].status = "completed" /\ f[m] # c
    <3>1. f[m] = j.done[m] /\ m \in DOMAIN j.done /\ m # l
      BY <1>9
    <3>2. j.done[m] # j.done[l]
      BY <1>1, <1>7, <3>1 DEF PassInv, Distinct
    <3>. QED
      BY <1>1, <1>6, <3>1, <3>2 DEF PassInv
  <2>2. Distinct(f)
    <3>1. ASSUME NEW m \in DOMAIN f, NEW o \in DOMAIN f, f[m] = f[o] PROVE m = o
      BY <1>1, <1>9, <3>1 DEF PassInv, Distinct
    <3>. QED
      BY <3>1 DEF Distinct
  <2>. QED
    BY <1>1, <1>8, <1>10, <2>1, <2>2 DEF PassInv
<1>12. RepInv(s, i, rep, nr, nx)
  <2>1. \A m \in DOMAIN f : rep[f[m]] = 0
    BY <1>1, <1>9 DEF RepInv
  <2>. QED
    BY <1>1, <1>8, <1>10, <2>1 DEF RepInv
<1>. QED
  BY <1>1, <1>4, <1>7, <1>8, <1>10, <1>11, <1>12 DEF Whole, Disp, Turned

Half(s, j, k, d) == ResolveDep([atom |-> s.atom, run |-> j.run], k, d)
WithRun(j, q) == [j EXCEPT !.run = q.run]
WholeNow(s, j) == Whole(s, j, next, jobNr, Reports, scheduled, dying)

\* Each of the two calls of jd_resolve_dep keeps the invariant.
LEMMA HalfKeeps ==
  ASSUME NEW s, NEW j, WholeNow(s, j), NEW k \in Atoms, j.cur = k, NEW d \in 1..2
  PROVE  WholeNow(WithAtoms(s, Half(s, j, k, d)), WithRun(j, Half(s, j, k, d)))
<1>1. PICK q : q = Half(s, j, k, d)
  OBVIOUS
<1>2. PICK n : n = WithAtoms(s, q)
  OBVIOUS
<1>3. PICK i : i = WithRun(j, q)
  OBVIOUS
<1>4. PICK run : run = j.run
  OBVIOUS
<1>5. s \in HwStates /\ Whole(s, j, next, jobNr, Reports, scheduled, dying)
  BY DEF Whole, WholeNow
<1>6. q = ResolveDep([atom |-> s.atom, run |-> run], k, d)
  BY <1>1, <1>4 DEF Half
<1>7. Cleared(s, n, k, d) /\ Gains(s, n, q, run, k, d)
  BY <1>2, <1>5, <1>6, ResolveDepIs
<1>8. PICK ready : Readied(s, n, run, k, d, ready, dying) /\ q.run = run \o ByAge(ready)
  BY <1>7 DEF Gains
<1>9. i = [j EXCEPT !.run = j.run \o ByAge(ready)] /\ Readied(s, n, j.run, k, d, ready, dying)
  BY <1>3, <1>4, <1>8 DEF WithRun
<1>10. Whole(n, i, next, jobNr, Reports, scheduled, dying)
  <2>1. PICK nr : nr = jobNr
    OBVIOUS
  <2>2. PICK nx : nx = next
    OBVIOUS
  <2>3. PICK rep : rep = Reports
    OBVIOUS
  <2>4. PICK sch : sch = scheduled
    OBVIOUS
  <2>5. PICK dy : dy = dying
    OBVIOUS
  <2>6. Whole(s, j, nx, nr, rep, sch, dy) /\ Readied(s, n, j.run, k, d, ready, dy)
    BY <1>5, <1>9, <2>1, <2>2, <2>3, <2>4, <2>5
  <2>7. Whole(n, i, nx, nr, rep, sch, dy)
    <3>. HIDE <1>1, <1>2, <1>3, <1>4, <2>1, <2>2, <2>3, <2>4, <2>5
    <3>. QED
      BY <1>7, <1>9, <2>6, ClearedWhole
  <2>. QED
    BY <2>1, <2>2, <2>3, <2>4, <2>5, <2>7
<1>. QED
  BY <1>1, <1>2, <1>3, <1>10 DEF WholeNow

\* Taking the last completed atom keeps the invariant.
LEMMA TurnKeeps ==
  ASSUME NEW s, NEW j, WholeNow(s, j), j.done # <<>>, j.cur = NoAtom
  PROVE  WholeNow(s, TurnOf(j)) /\ TurnOf(j).cur = Last(j.done) /\ Last(j.done) \in Atoms /\ TurnOf(j).run = <<>>
<1>1. PICK i : i = TurnOf(j)
  OBVIOUS
<1>3. Whole(s, j, next, jobNr, Reports, scheduled, dying)
  BY DEF WholeNow
<1>4. Whole(s, i, next, jobNr, Reports, scheduled, dying) /\ Turned(i, j)
  BY <1>1, <1>3, TurnWhole
<1>. QED
  BY <1>1, <1>4 DEF WholeNow, Turned

\* The first half of the loop body of jd_done_nolock keeps the invariant.
LEMMA ResolveKeeps ==
  ASSUME Inv, Resolve
  PROVE  Inv'
<1>1. /\ jd.done # <<>> /\ jd.cur = NoAtom
      /\ UNCHANGED <<tree, rb, wq, submit, workCount, worker, userVars, ctxVars>>
  BY DEF Resolve
<1>2. WholeNow(S, jd) /\ S \in HwStates /\ jd \in Passes
  BY WholeS DEF WholeNow
<1>3. PICK k : k = Last(jd.done)
  OBVIOUS
<1>4. PICK i0 : i0 = TurnOf(jd)
  OBVIOUS
<1>5. WholeNow(S, i0) /\ i0.cur = k /\ k \in Atoms /\ i0.run = <<>>
  BY <1>1, <1>2, <1>3, <1>4, TurnKeeps
<1>6. PICK q1 : q1 = Half(S, i0, k, 1)
  OBVIOUS
<1>7. PICK s1 : s1 = WithAtoms(S, q1)
  OBVIOUS
<1>8. PICK i1 : i1 = WithRun(i0, q1)
  OBVIOUS
<1>9. WholeNow(s1, i1)
  BY <1>5, <1>6, <1>7, <1>8, HalfKeeps
<1>10. s1.atom = q1.atom /\ i1.run = q1.run /\ i1.cur = k /\ i0 \in Passes
  <2>1. i0 \in Passes
    BY <1>5 DEF WholeNow, Whole
  <2>. QED
    BY <1>2, <1>5, <1>7, <1>8, <2>1 DEF WithAtoms, WithRun, HwStates, Passes
<1>11. PICK q2 : q2 = Half(s1, i1, k, 2)
  OBVIOUS
<1>12. PICK s2 : s2 = WithAtoms(s1, q2)
  OBVIOUS
<1>13. PICK i2 : i2 = WithRun(i1, q2)
  OBVIOUS
<1>14. WholeNow(s2, i2)
  BY <1>5, <1>9, <1>10, <1>11, <1>12, <1>13, HalfKeeps
<1>15. q2 = ResolveDep(ResolveDep([atom |-> atom, run |-> <<>>], k, 1), k, 2)
  <2>1. q1 = ResolveDep([atom |-> atom, run |-> <<>>], k, 1)
    BY <1>5, <1>6, SIs, Zenon DEF Half
  <2>2. q1 = [atom |-> q1.atom, run |-> q1.run]
    BY <2>1, Zenon DEF ResolveDep
  <2>. QED
    BY <1>10, <1>11, <2>1, <2>2 DEF Half
<1>16. atom' = q2.atom /\ jd' = [jd EXCEPT !.done = Front(@), !.cur = k, !.run = q2.run]
  BY <1>3, <1>15 DEF Resolve
<1>17. S' = s2
  <2>1. S' = [S EXCEPT !.atom = q2.atom]
    BY <1>1, <1>16 DEF S
  <2>2. s2 = [S EXCEPT !.atom = q2.atom]
    BY <1>2, <1>7, <1>12 DEF HwStates, WithAtoms
  <2>. QED
    BY <2>1, <2>2
<1>18. jd' = i2
  <2>1. PICK f : f = Front(jd.done)
    OBVIOUS
  <2>2. i2 = [jd EXCEPT !.done = f, !.cur = k, !.run = q2.run]
    BY <1>2, <1>3, <1>4, <1>8, <1>13, <2>1 DEF Passes, TurnOf, WithRun
  <2>. QED
    BY <1>16, <2>1, <2>2
<1>19. Reports' = Reports /\ TypeInv'
  BY <1>1, ReportsKept, WholeS DEF TypeInv, userVars, ctxVars
<1>. QED
  BY <1>1, <1>14, <1>17, <1>18, <1>19 DEF Inv, WholeNow, userVars, ctxVars

-----------------------------------------------------------------------------
(* kbasep_js_add_job.                                                       *)

\* The dependencies of a on the other slot, and the data ones on its own.
SameSlot(s, a, d) == s.atom[s.atom[a].dep[d].id].kind = s.atom[a].kind
Crosses(s, a, d) == Waits(s, a, d) /\ ~SameSlot(s, a, d)
Sames(s, a, d) == Waits(s, a, d) /\ SameSlot(s, a, d) /\ s.atom[a].dep[d].type = "data"
Data(s, a) == \E d \in 1..2 : Crosses(s, a, d) /\ s.atom[a].dep[d].type = "data"

\* x and p are the atoms that a is to follow through xPre and preDep.
Picks(s, a, x, p) ==
  /\ \A d \in 1..2 : Crosses(s, a, d) => x = s.atom[a].dep[d].id
  /\ \A d \in 1..2 : Sames(s, a, d) => p = s.atom[a].dep[d].id
  /\ x # NoAtom => \E d \in 1..2 : Crosses(s, a, d) /\ x = s.atom[a].dep[d].id
  /\ p # NoAtom => \E d \in 1..2 : Sames(s, a, d) /\ p = s.atom[a].dep[d].id

\* The slot queues can hold at most one dependency of each kind.
LEMMA PicksAre ==
  ASSUME NEW s \in HwStates, NEW a \in Atoms, Representable(s, a)
  PROVE  \E x, p \in Atoms \cup {NoAtom} : Picks(s, a, x, p)
<1>1. \A d \in 1..2 : s.atom[a].dep[d].id \in Atoms \cup {NoAtom}
  BY DepTypes, Zenon
<1>2. Waits(s, a, 1) /\ Waits(s, a, 2) => SameSlot(s, a, 1) # SameSlot(s, a, 2)
  <2>1. ASSUME Waits(s, a, 1), Waits(s, a, 2) PROVE {d \in 1..2 : s.atom[a].dep[d].id # NoAtom} = 1..2
    BY <2>1 DEF Waits
  <2>. QED
    BY <2>1, Zenon DEF Representable, SameSlot
<1>3. \A d \in 1..2 : d = 1 \/ d = 2
  OBVIOUS
<1>4. \A d, e \in 1..2 : Crosses(s, a, d) /\ Crosses(s, a, e) => d = e
  BY <1>2, <1>3, Zenon DEF Crosses, SameSlot
<1>5. \A d, e \in 1..2 : Sames(s, a, d) /\ Sames(s, a, e) => d = e
  BY <1>2, <1>3 DEF Sames, SameSlot
<1>6. \E x \in Atoms \cup {NoAtom} :
        /\ \A d \in 1..2 : Crosses(s, a, d) => x = s.atom[a].dep[d].id
        /\ x # NoAtom => \E d \in 1..2 : Crosses(s, a, d) /\ x = s.atom[a].dep[d].id
  <2>1. CASE \E d \in 1..2 : Crosses(s, a, d)
    <3>1. PICK d \in 1..2 : Crosses(s, a, d)
      BY <2>1
    <3>. QED
      BY <1>1, <1>4, <3>1
  <2>2. CASE ~\E d \in 1..2 : Crosses(s, a, d)
    BY <2>2
  <2>. QED
    BY <2>1, <2>2
<1>7. \E p \in Atoms \cup {NoAtom} :
        /\ \A d \in 1..2 : Sames(s, a, d) => p = s.atom[a].dep[d].id
        /\ p # NoAtom => \E d \in 1..2 : Sames(s, a, d) /\ p = s.atom[a].dep[d].id
  <2>1. CASE \E d \in 1..2 : Sames(s, a, d)
    <3>1. PICK d \in 1..2 : Sames(s, a, d)
      BY <2>1
    <3>. QED
      BY <1>1, <1>5, <3>1
  <2>2. CASE ~\E d \in 1..2 : Sames(s, a, d)
    BY <2>2
  <2>. QED
    BY <2>1, <2>2
<1>. QED
  BY <1>6, <1>7 DEF Picks

\* An atom that is followed from now on.
Followed(q, r, a, crossed, same) ==
  /\ q.kind = r.kind /\ q.pre = r.pre /\ q.status = r.status /\ q.event = r.event /\ (q.wf <=> r.wf)
  /\ q.dep = r.dep /\ q.preDep = r.preDep /\ q.xPre = r.xPre /\ q.flags = r.flags /\ q.rbState = r.rbState
  /\ q.postDep = IF same THEN a ELSE r.postDep
  /\ q.xPost = IF crossed THEN a ELSE r.xPost

LinkFlags(x, data) ==
  (IF x # NoAtom THEN {"x_dep_blocked"} ELSE {}) \cup (IF data THEN {"fail_blocker"} ELSE {})
Links(s, n, a, x, p) ==
  /\ n \in HwStates /\ n.tree = s.tree /\ n.rb = s.rb /\ n.wq = s.wq
  /\ LET q == n.atom[a]
         r == s.atom[a]
     IN  /\ q.kind = r.kind /\ q.pre = r.pre /\ q.status = r.status /\ q.event = r.event /\ (q.wf <=> r.wf)
         /\ q.rbState = r.rbState /\ q.postDep = r.postDep /\ q.xPost = r.xPost
         /\ q.dep = <<None, None>> /\ q.xPre = x /\ q.preDep = p
         /\ q.flags = r.flags \cup LinkFlags(x, Data(s, a))
  /\ \A b \in Atoms : b # a => Followed(n.atom[b], s.atom[b], a, b = x, b = p)

\* How kbase_js_dep_validate links an atom with the two that it picks.
LEMMA LinkIs ==
  ASSUME NEW s \in HwStates, NEW a \in Atoms, NEW x \in Atoms \cup {NoAtom}, NEW p \in Atoms \cup {NoAtom},
         Picks(s, a, x, p), s.atom[a].xPre = NoAtom, s.atom[a].preDep = NoAtom,
         NEW n, n = LinkDeps(s, a)
  PROVE  Links(s, n, a, x, p)
<1>. DEFINE pre == s.atom[a].dep
            cross == {d \in 1..2 : pre[d].id # NoAtom /\ ~(s.atom[pre[d].id].kind = s.atom[a].kind)}
            same == {d \in 1..2 : pre[d].id # NoAtom /\ s.atom[pre[d].id].kind = s.atom[a].kind /\ pre[d].type = "data"}
            data == \E d \in cross : pre[d].type = "data"
            FlagsOf(b) == s.atom[b].flags \cup (IF cross # {} THEN {"x_dep_blocked"} ELSE {})
                                          \cup (IF data THEN {"fail_blocker"} ELSE {})
            XPre(b) == IF cross = {} THEN s.atom[b].xPre ELSE pre[CHOOSE d \in cross : TRUE].id
            PreDep(b) == IF same = {} THEN s.atom[b].preDep ELSE pre[CHOOSE d \in same : TRUE].id
            flags == FlagsOf(a)
            xp == XPre(a)
            pp == PreDep(a)
            Post(b) == IF \E d \in same : pre[d].id = b THEN a ELSE s.atom[b].postDep
            XPost(b) == IF \E d \in cross : pre[d].id = b THEN a ELSE s.atom[b].xPost
            Rec(b) == IF b = a THEN [s.atom[b] EXCEPT !.dep = <<None, None>>, !.flags = FlagsOf(b), !.xPre = XPre(b), !.preDep = PreDep(b)]
                      ELSE [s.atom[b] EXCEPT !.xPost = XPost(b), !.postDep = Post(b)]
            t == [b \in Atoms |-> Rec(b)]
<1>1. n = [s EXCEPT !.atom = t]
  BY Zenon DEF LinkDeps
<1>2. /\ \A d : d \in cross <=> d \in 1..2 /\ Crosses(s, a, d)
      /\ \A d : d \in same <=> d \in 1..2 /\ Sames(s, a, d)
  BY Zenon DEF Crosses, Sames, Waits, SameSlot
<1>3. data <=> Data(s, a)
  BY <1>2 DEF Data
<1>. HIDE DEF cross, same, data
<1>4. xp = x /\ (cross # {} <=> x # NoAtom)
  <2>1. CASE cross = {}
    BY <1>2, <2>1 DEF Picks
  <2>2. CASE cross # {}
    <3>1. PICK d : d = CHOOSE c \in cross : TRUE
      OBVIOUS
    <3>2. d \in cross
      BY <2>2, <3>1
    <3>3. d \in 1..2 /\ Crosses(s, a, d)
      BY <1>2, <3>2
    <3>4. x = pre[d].id /\ x # NoAtom
      BY <3>3 DEF Picks, Crosses, Waits
    <3>. QED
      BY <2>2, <3>1, <3>4
  <2>. QED
    BY <2>1, <2>2
<1>5. pp = p
  <2>1. CASE same = {}
    BY <1>2, <2>1 DEF Picks
  <2>2. CASE same # {}
    <3>1. PICK d : d = CHOOSE c \in same : TRUE
      OBVIOUS
    <3>2. d \in same
      BY <2>2, <3>1
    <3>3. d \in 1..2 /\ Sames(s, a, d)
      BY <1>2, <3>2
    <3>4. p = pre[d].id
      BY <3>3 DEF Picks, Sames
    <3>. QED
      BY <2>2, <3>1, <3>4
  <2>. QED
    BY <2>1, <2>2
<1>6. ASSUME NEW b \in Atoms
      PROVE  /\ Post(b) = IF b = p THEN a ELSE s.atom[b].postDep
             /\ XPost(b) = IF b = x THEN a ELSE s.atom[b].xPost
  <2>1. (\E d \in same : pre[d].id = b) <=> b = p
    <3>1. \A d \in same : pre[d].id = p
      BY <1>2 DEF Picks
    <3>2. b = p => p # NoAtom
      BY NotAtom
    <3>3. p # NoAtom => \E d \in same : p = pre[d].id
      BY <1>2 DEF Picks
    <3>. QED
      BY <3>1, <3>2, <3>3
  <2>2. (\E d \in cross : pre[d].id = b) <=> b = x
    <3>1. \A d \in cross : pre[d].id = x
      BY <1>2 DEF Picks
    <3>2. b = x => x # NoAtom
      BY NotAtom
    <3>3. x # NoAtom => \E d \in cross : x = pre[d].id
      BY <1>2 DEF Picks
    <3>. QED
      BY <3>1, <3>2, <3>3
  <2>. QED
    BY <2>1, <2>2
<1>7. flags = s.atom[a].flags \cup LinkFlags(x, Data(s, a))
  BY <1>3, <1>4 DEF LinkFlags
<1>. HIDE DEF FlagsOf, XPre, PreDep, Post, XPost
<1>8. flags \subseteq Flags /\ x \in 0..NumAtoms /\ p \in 0..NumAtoms
  <2>1. s.atom[a].flags \subseteq Flags
    BY AtomIs, AtomTypes
  <2>2. LinkFlags(x, Data(s, a)) \subseteq Flags
    BY DEF LinkFlags, Flags
  <2>3. \A y \in Atoms \cup {NoAtom} : y \in 0..NumAtoms
    BY JobDepsAssumption DEF Atoms, NoAtom
  <2>. QED
    BY <1>7, <2>1, <2>2, <2>3
<1>9. PICK q : q = Rec(a)
  OBVIOUS
<1>10. PICK r \in AtomRecords : r = s.atom[a]
  BY AtomIs
<1>11. PICK f \in SUBSET Flags : f = flags
  BY <1>8
<1>12. q = [r EXCEPT !.dep = <<None, None>>, !.flags = f, !.xPre = x, !.preDep = p]
  BY <1>4, <1>5, <1>9, <1>10, <1>11
<1>13. /\ q \in AtomRecords /\ q.kind = r.kind /\ q.pre = r.pre /\ q.status = r.status /\ q.event = r.event
       /\ q.wf = r.wf /\ q.rbState = r.rbState /\ q.postDep = r.postDep /\ q.xPost = r.xPost
       /\ q.dep = <<None, None>> /\ q.xPre = x /\ q.preDep = p /\ q.flags = f
  <2>1. PICK nd \in [1..2 -> Deps] : nd = <<None, None>>
    BY NoDeps
  <2>2. q = [r EXCEPT !.dep = nd, !.flags = f, !.xPre = x, !.preDep = p]
    BY <1>12, <2>1
  <2>. HIDE <1>9, <1>12
  <2>3. /\ q \in AtomRecords /\ q.kind = r.kind /\ q.pre = r.pre /\ q.status = r.status /\ q.event = r.event
        /\ q.wf = r.wf /\ q.rbState = r.rbState /\ q.postDep = r.postDep /\ q.xPost = r.xPost
        /\ q.dep = nd /\ q.xPre = x /\ q.preDep = p /\ q.flags = f
    BY <1>8, <2>2 DEF AtomRecords
  <2>. QED
    BY <2>1, <2>3
<1>14. ASSUME NEW b \in Atoms, b # a
       PROVE  Rec(b) \in AtomRecords /\ Followed(Rec(b), s.atom[b], a, b = x, b = p)
  <2>1. PICK v \in AtomRecords : v = s.atom[b]
    BY AtomIs
  <2>2. PICK u : u = Post(b)
    OBVIOUS
  <2>3. PICK w : w = XPost(b)
    OBVIOUS
  <2>4. u \in 0..NumAtoms /\ w \in 0..NumAtoms
    <3>1. a \in 0..NumAtoms
      BY JobDepsAssumption DEF Atoms
    <3>. QED
      BY <1>6, <2>1, <2>2, <2>3, <3>1, AtomTypes
  <2>5. PICK z : z = Rec(b)
    OBVIOUS
  <2>6. z = [v EXCEPT !.xPost = w, !.postDep = u]
    BY <1>14, <2>1, <2>2, <2>3, <2>5
  <2>7. /\ z \in AtomRecords /\ z.kind = v.kind /\ z.pre = v.pre /\ z.status = v.status /\ z.event = v.event
        /\ z.wf = v.wf /\ z.dep = v.dep /\ z.preDep = v.preDep /\ z.xPre = v.xPre /\ z.flags = v.flags
        /\ z.rbState = v.rbState /\ z.postDep = u /\ z.xPost = w
    <3>. HIDE <2>5
    <3>. QED
      BY <2>4, <2>6 DEF AtomRecords
  <2>. HIDE DEF Rec
  <2>. QED
    BY <1>6, <2>1, <2>2, <2>3, <2>5, <2>7 DEF Followed
<1>. HIDE DEF Rec
<1>15. t \in [Atoms -> AtomRecords] /\ \A b \in Atoms : t[b] = Rec(b)
  BY <1>9, <1>13, <1>14
<1>16. /\ n \in HwStates /\ n.atom = t /\ n.tree = s.tree /\ n.rb = s.rb /\ n.wq = s.wq
  <2>. HIDE DEF t
  <2>. QED
    BY <1>1, <1>15 DEF HwStates
<1>. HIDE DEF t
<1>. QED
  BY <1>7, <1>9, <1>10, <1>11, <1>13, <1>14, <1>15, <1>16, Z3T(30) DEF Links

\* What the checks of kbase_js_dep_validate say of the two.
Pickable(s, a, x, p) ==
  /\ x # NoAtom => /\ x \in Atoms /\ x < a /\ Known(s, x) /\ s.atom[x].kind # s.atom[a].kind
                   /\ s.atom[x].xPost = NoAtom /\ s.atom[x].status = "in_js"
  /\ p # NoAtom => /\ p \in Atoms /\ p < a /\ Known(s, p) /\ s.atom[p].kind = s.atom[a].kind
                   /\ s.atom[p].postDep = NoAtom

\* The picked dependencies are on atoms that are still in the scheduler.
LEMMA PickableIs ==
  ASSUME NEW s \in HwStates, NEW nx, QueueInv(s, nx), NEW a \in Atoms, Representable(s, a),
         NEW x, NEW p, Picks(s, a, x, p)
  PROVE  Pickable(s, a, x, p)
<1>1. \A d \in 1..2 : Waits(s, a, d) => s.atom[a].dep[d].id \in Atoms /\ s.atom[a].dep[d].id < a
  BY DepTypes, Zenon DEF QueueInv, WaitInv, Waits
<1>2. ASSUME NEW d \in 1..2, Waits(s, a, d), NEW b, b = s.atom[a].dep[d].id
      PROVE  /\ Known(s, b) /\ (SameSlot(s, a, d) => s.atom[b].postDep = NoAtom)
             /\ ~SameSlot(s, a, d) => s.atom[b].xPost = NoAtom /\ s.atom[b].status = "in_js"
  <2>1. d \in {e \in 1..2 : s.atom[a].dep[e].id # NoAtom}
    BY <1>2, Zenon DEF Waits
  <2>. QED
    BY <1>2, <2>1, Zenon DEF Representable, Known, SameSlot
<1>3. ASSUME x # NoAtom
      PROVE  /\ x \in Atoms /\ x < a /\ Known(s, x) /\ s.atom[x].kind # s.atom[a].kind
             /\ s.atom[x].xPost = NoAtom /\ s.atom[x].status = "in_js"
  <2>1. PICK d \in 1..2 : Crosses(s, a, d) /\ x = s.atom[a].dep[d].id
    BY <1>3, Zenon DEF Picks
  <2>. QED
    BY <1>1, <1>2, <2>1, Zenon DEF Crosses, SameSlot
<1>4. ASSUME p # NoAtom
      PROVE  /\ p \in Atoms /\ p < a /\ Known(s, p) /\ s.atom[p].kind = s.atom[a].kind
             /\ s.atom[p].postDep = NoAtom
  <2>1. PICK d \in 1..2 : Sames(s, a, d) /\ p = s.atom[a].dep[d].id
    BY <1>4 DEF Picks
  <2>. QED
    BY <1>1, <1>2, <2>1, Zenon DEF Sames, SameSlot
<1>. QED
  BY <1>3, <1>4 DEF Pickable

\* The atom is with the scheduler: in a tree, or behind the other slot.
Joined(q, r, x, p, data) ==
  /\ q.kind = r.kind /\ q.pre = r.pre /\ q.status = "in_js" /\ q.event = r.event /\ (q.wf <=> r.wf)
  /\ q.rbState = r.rbState /\ q.postDep = r.postDep /\ q.xPost = r.xPost
  /\ q.dep = <<None, None>> /\ q.xPre = x /\ q.preDep = p
  /\ q.flags = LinkFlags(x, data) \cup {IF x = NoAtom THEN "in_tree" ELSE "in_x_dep_list"}
Adds(s, n, a, x, p) ==
  /\ n \in HwStates /\ n.rb = s.rb /\ n.wq = s.wq
  /\ n.tree = IF x = NoAtom THEN s.tree \cup {a} ELSE s.tree
  /\ Joined(n.atom[a], s.atom[a], x, p, Data(s, a))
  /\ \A b \in Atoms : b # a => Followed(n.atom[b], s.atom[b], a, b = x, b = p)

\* kbase_js_dep_resolved_submit puts the atom in the tree or in its list.
LEMMA EnqueueIs ==
  ASSUME NEW s \in HwStates, NEW a \in Atoms, NEW x, NEW data \in BOOLEAN,
         s.atom[a].flags = LinkFlags(x, data),
         s.atom[a].preDep # NoAtom => ~InX(s, s.atom[a].preDep),
         NEW n, n = Enqueue(s, a)
  PROVE  /\ n \in HwStates /\ n.rb = s.rb /\ n.wq = s.wq
         /\ n.tree = IF x = NoAtom THEN s.tree \cup {a} ELSE s.tree
         /\ n.atom[a].flags = LinkFlags(x, data) \cup {IF x = NoAtom THEN "in_tree" ELSE "in_x_dep_list"}
         /\ Fixed(n.atom[a], s.atom[a]) /\ n.atom[a].dep = s.atom[a].dep
         /\ n.atom[a].status = s.atom[a].status /\ n.atom[a].event = s.atom[a].event
         /\ n.atom[a].wf = s.atom[a].wf /\ n.atom[a].rbState = s.atom[a].rbState
         /\ \A b \in Atoms : b # a => n.atom[b] = s.atom[b]
<1>1. "x_dep_blocked" \in s.atom[a].flags <=> x # NoAtom
  BY DEF LinkFlags
<1>2. PICK f : f = IF x = NoAtom THEN "in_tree" ELSE "in_x_dep_list"
  OBVIOUS
<1>3. PICK g : g = s.atom[a].flags \cup {f}
  OBVIOUS
<1>4. g \in SUBSET Flags
  <2>1. s.atom[a].flags \subseteq Flags
    BY AtomIs, AtomTypes
  <2>2. f \in Flags
    BY <1>2 DEF Flags
  <2>. QED
    BY <1>3, <2>1, <2>2
<1>5. PICK m : m = SetFlags(s, a, g)
  OBVIOUS
<1>6. /\ Edited(s, m, a) /\ m.atom[a].flags = g
      /\ m.atom[a].status = s.atom[a].status /\ m.atom[a].event = s.atom[a].event
      /\ m.atom[a].wf = s.atom[a].wf /\ m.atom[a].rbState = s.atom[a].rbState
  BY <1>4, <1>5, FlagsEdit
<1>7. CASE x # NoAtom
  <2>1. n = m
    BY <1>1, <1>2, <1>3, <1>5, <1>7 DEF Enqueue, SetFlags
  <2>. QED
    BY <1>2, <1>3, <1>6, <1>7, <2>1 DEF Edited
<1>8. CASE x = NoAtom
  <2>1. n = [s EXCEPT !.atom[a].flags = @ \cup {"in_tree"}, !.tree = @ \cup {a}]
    BY <1>1, <1>8 DEF Enqueue, InX
  <2>2. PICK t : t = s.tree \cup {a}
    OBVIOUS
  <2>3. n = [m EXCEPT !.tree = t]
    BY <1>2, <1>3, <1>5, <1>8, <2>1, <2>2, HwIs DEF SetFlags, HwStates
  <2>4. t \in SUBSET Atoms /\ m \in HwStates
    BY <1>6, <2>2, HwIs DEF Edited
  <2>5. n \in HwStates /\ n.atom = m.atom /\ n.rb = m.rb /\ n.wq = m.wq /\ n.tree = t
    BY <2>3, <2>4 DEF HwStates
  <2>. QED
    BY <1>2, <1>3, <1>6, <1>8, <2>2, <2>5 DEF Edited
<1>. QED
  BY <1>7, <1>8

\* kbasep_js_add_job links an atom and puts it in its place.
LEMMA AddIs ==
  ASSUME NEW s \in HwStates, HwInv(s, {}), NEW nx, QueueInv(s, nx), NEW a \in Atoms,
         s.atom[a].status = "queued", "waiting" \notin s.atom[a].flags, Representable(s, a),
         NEW n, n = AddJob(s, a)
  PROVE  \E x, p : Picks(s, a, x, p) /\ Pickable(s, a, x, p) /\ Adds(s, n, a, x, p)
<1>1. PICK x \in Atoms \cup {NoAtom}, p \in Atoms \cup {NoAtom} : Picks(s, a, x, p)
  BY PicksAre
<1>2. Pickable(s, a, x, p)
  BY <1>1, PickableIs
<1>3. s.atom[a].flags = {} /\ s.atom[a].preDep = NoAtom /\ s.atom[a].xPre = NoAtom
  BY OutsideIs
<1>4. PICK m : m = SetStatus(s, a, "in_js")
  OBVIOUS
<1>5. /\ Edited(s, m, a) /\ m.atom[a].status = "in_js"
      /\ m.atom[a].flags = s.atom[a].flags /\ m.atom[a].event = s.atom[a].event
      /\ m.atom[a].wf = s.atom[a].wf /\ m.atom[a].rbState = s.atom[a].rbState
  BY <1>4, StatusEdit DEF Statuses
<1>6. m \in HwStates /\ m.atom[a].dep = s.atom[a].dep /\ Fixed(m.atom[a], s.atom[a])
      /\ m.rb = s.rb /\ m.wq = s.wq /\ m.tree = s.tree
      /\ \A b \in Atoms : b # a => m.atom[b] = s.atom[b]
  BY <1>5 DEF Edited
<1>7. \A d \in 1..2 : /\ Crosses(m, a, d) <=> Crosses(s, a, d)
                      /\ Sames(m, a, d) <=> Sames(s, a, d)
  <2>1. ASSUME NEW d \in 1..2 PROVE (Waits(m, a, d) <=> Waits(s, a, d)) /\ (Waits(s, a, d) => SameSlot(m, a, d) = SameSlot(s, a, d))
    <3>1. Waits(s, a, d) => s.atom[a].dep[d].id \in Atoms
      BY DepTypes DEF Waits
    <3>. QED
      BY <1>6, <3>1 DEF Waits, SameSlot, Fixed
  <2>. QED
    BY <1>6, <2>1 DEF Crosses, Sames
<1>8. Picks(m, a, x, p) /\ (Data(m, a) <=> Data(s, a))
  BY <1>1, <1>6, <1>7 DEF Picks, Data
<1>9. PICK l : l = LinkDeps(m, a)
  OBVIOUS
<1>10. Links(m, l, a, x, p)
  BY <1>1, <1>3, <1>6, <1>8, <1>9, LinkIs DEF Fixed
<1>11. n = Enqueue(l, a)
  BY <1>4, <1>9 DEF AddJob, SetStatus
<1>12. /\ l \in HwStates /\ l.tree = s.tree /\ l.rb = s.rb /\ l.wq = s.wq
       /\ l.atom[a].flags = LinkFlags(x, Data(s, a)) /\ l.atom[a].preDep = p
       /\ \A b \in Atoms : b # a => Followed(l.atom[b], s.atom[b], a, b = x, b = p)
  <2>1. l.atom[a].flags = LinkFlags(x, Data(s, a))
    <3>1. l.atom[a].flags = LinkFlags(x, Data(m, a))
      BY <1>3, <1>5, <1>10 DEF Links
    <3>2. LinkFlags(x, Data(m, a)) = LinkFlags(x, Data(s, a))
      BY <1>8 DEF LinkFlags
    <3>. QED
      BY <3>1, <3>2
  <2>2. \A b \in Atoms : b # a => Followed(l.atom[b], s.atom[b], a, b = x, b = p)
    BY <1>6, <1>10 DEF Links
  <2>. QED
    BY <1>6, <1>10, <2>1, <2>2 DEF Links
<1>13. p # NoAtom => ~InX(l, p)
  <2>1. ASSUME p # NoAtom PROVE ~InX(l, p)
    <3>1. p \in Atoms /\ p # a /\ Known(s, p)
      BY <1>2, <2>1, AtomsFinite DEF Pickable
    <3>2. ~InX(s, p)
      BY <3>1 DEF HwInv, InList
    <3>. QED
      BY <1>12, <3>1, <3>2 DEF Followed, InX
  <2>. QED
    BY <2>1
<1>14. PICK data \in BOOLEAN : data = Data(s, a)
  BY DEF Data
<1>15. /\ n \in HwStates /\ n.rb = l.rb /\ n.wq = l.wq
       /\ n.tree = IF x = NoAtom THEN l.tree \cup {a} ELSE l.tree
       /\ n.atom[a].flags = LinkFlags(x, data) \cup {IF x = NoAtom THEN "in_tree" ELSE "in_x_dep_list"}
       /\ Fixed(n.atom[a], l.atom[a]) /\ n.atom[a].dep = l.atom[a].dep
       /\ n.atom[a].status = l.atom[a].status /\ n.atom[a].event = l.atom[a].event
       /\ n.atom[a].wf = l.atom[a].wf /\ n.atom[a].rbState = l.atom[a].rbState
       /\ \A b \in Atoms : b # a => n.atom[b] = l.atom[b]
  BY <1>11, <1>12, <1>13, <1>14, EnqueueIs, SMTT(30)
<1>16. Joined(n.atom[a], s.atom[a], x, p, Data(s, a))
  BY <1>5, <1>6, <1>10, <1>14, <1>15 DEF Links, Joined, Fixed
<1>17. Adds(s, n, a, x, p)
  BY <1>12, <1>15, <1>16 DEF Adds
<1>. QED
  BY <1>1, <1>2, <1>17

\* Everything an atom can be followed through stays as it was, except that x
\* and p now know a.
AddsOk(s, n, a, x, p) ==
  /\ s \in HwStates /\ HwInv(s, {}) /\ s.atom[a].status = "queued" /\ "waiting" \notin s.atom[a].flags
  /\ s.atom[a].kind \in Slots /\ Pickable(s, a, x, p) /\ Adds(s, n, a, x, p)

\* What an atom other than a keeps.
Same(s, n, b) ==
  /\ n.atom[b].kind = s.atom[b].kind /\ n.atom[b].pre = s.atom[b].pre
  /\ n.atom[b].status = s.atom[b].status /\ n.atom[b].event = s.atom[b].event
  /\ (n.atom[b].wf <=> s.atom[b].wf) /\ n.atom[b].dep = s.atom[b].dep
  /\ n.atom[b].preDep = s.atom[b].preDep /\ n.atom[b].xPre = s.atom[b].xPre
  /\ n.atom[b].flags = s.atom[b].flags /\ n.atom[b].rbState = s.atom[b].rbState
  /\ (Fed(n, b) <=> Fed(s, b)) /\ (Pending(n, b) <=> Pending(s, b))
  /\ (InX(n, b) <=> InX(s, b)) /\ (InRb(n, b) <=> InRb(s, b)) /\ (Blocked(n, b) <=> Blocked(s, b))
  /\ (Known(n, b) <=> Known(s, b)) /\ (Ended(n, b) <=> Ended(s, b))

\* What a becomes.
Entered(s, n, a, x, p) ==
  /\ n.atom[a].kind = s.atom[a].kind /\ n.atom[a].status = "in_js" /\ ~Pending(n, a) /\ ~Pending(s, a)
  /\ ~InRb(n, a) /\ ~InRb(s, a) /\ n.atom[a].rbState = "none"
  /\ (n.atom[a].wf <=> s.atom[a].wf) /\ n.atom[a].event = s.atom[a].event
  /\ (Blocked(n, a) <=> x # NoAtom) /\ (InX(n, a) <=> x # NoAtom) /\ (Known(n, a) <=> x = NoAtom)
  /\ ("fail_blocker" \in n.atom[a].flags <=> Data(s, a)) /\ "waiting" \notin n.atom[a].flags
  /\ n.atom[a].preDep = p /\ n.atom[a].xPre = x
  /\ n.atom[a].postDep = NoAtom /\ n.atom[a].xPost = NoAtom
  /\ s.atom[a].preDep = NoAtom /\ s.atom[a].xPre = NoAtom
  /\ s.atom[a].postDep = NoAtom /\ s.atom[a].xPost = NoAtom
  /\ ~Ended(n, a) /\ ~Ended(s, a) /\ ~Fed(s, a) /\ a \notin s.tree /\ ~InX(s, a) /\ ~Blocked(s, a)

\* What adding an atom does to it, and to the others nothing.
LEMMA AddedAtoms ==
  ASSUME NEW s, NEW n, NEW a \in Atoms, NEW x, NEW p, AddsOk(s, n, a, x, p)
  PROVE  Entered(s, n, a, x, p) /\ \A b \in Atoms : b # a => Same(s, n, b)
<1>1. /\ s \in HwStates /\ n \in HwStates /\ HwInv(s, {}) /\ Adds(s, n, a, x, p)
  BY DEF AddsOk, Adds
<1>2. \A b : Pending(n, b) <=> Pending(s, b)
  BY <1>1 DEF Adds, Pending
<1>3. ~Pending(s, a)
  <2>1. ASSUME NEW i \in DOMAIN s.wq, s.wq[i].job # "return" PROVE s.wq[i].id # a
    <3>1. s.wq[i].job \in {"done", "cancel"}
      BY <1>1, <2>1, WorkIs DEF Items
    <3>. QED
      BY <1>1, <2>1, <3>1 DEF AddsOk, HwInv, InWork
  <2>. QED
    BY <2>1 DEF Pending
<1>4. /\ s.atom[a].flags = {} /\ s.atom[a].rbState = "none" /\ s.atom[a].preDep = NoAtom /\ s.atom[a].xPre = NoAtom
      /\ s.atom[a].postDep = NoAtom /\ s.atom[a].xPost = NoAtom
  BY <1>1, OutsideIs DEF AddsOk
<1>5. /\ Blocked(n, a) <=> x # NoAtom
      /\ InX(n, a) <=> x # NoAtom
      /\ Known(n, a) <=> x = NoAtom
      /\ "fail_blocker" \in n.atom[a].flags <=> Data(s, a)
      /\ "waiting" \notin n.atom[a].flags
  BY <1>1 DEF Adds, Joined, LinkFlags, Blocked, InX, Known
<1>6. a \notin s.tree
  BY <1>1 DEF AddsOk, HwInv, InTree, Fed
<1>7. Entered(s, n, a, x, p)
  <2>1. /\ n.atom[a].kind = s.atom[a].kind /\ n.atom[a].status = "in_js" /\ n.atom[a].rbState = "none"
        /\ (n.atom[a].wf <=> s.atom[a].wf) /\ n.atom[a].event = s.atom[a].event
        /\ n.atom[a].preDep = p /\ n.atom[a].xPre = x
        /\ n.atom[a].postDep = NoAtom /\ n.atom[a].xPost = NoAtom
    BY <1>1, <1>4 DEF Adds, Joined
  <2>2. ~Ended(n, a) /\ ~Ended(s, a) /\ ~Fed(s, a) /\ ~InX(s, a) /\ ~Blocked(s, a)
    BY <1>4, <2>1 DEF AddsOk, Ended, Fed, InX, Blocked
  <2>3. ~InRb(n, a) /\ ~InRb(s, a)
    BY <1>4, <2>1 DEF InRb
  <2>. QED
    BY <1>2, <1>3, <1>4, <1>5, <1>6, <2>1, <2>2, <2>3 DEF Entered
<1>8. ASSUME NEW b \in Atoms, b # a PROVE Same(s, n, b)
  <2>1. Followed(n.atom[b], s.atom[b], a, b = x, b = p)
    BY <1>1, <1>8 DEF Adds
  <2>. QED
    BY <1>2, <2>1 DEF Followed, Same, Fed, InX, InRb, Blocked, Known, Ended
<1>. QED
  BY <1>7, <1>8

\* After an atom is added every atom is where its flags say it is.
LEMMA AddedPlaces ==
  ASSUME NEW s, NEW n, NEW a \in Atoms, NEW x, NEW p, AddsOk(s, n, a, x, p)
  PROVE  /\ InTree(n, {}) /\ InLimbo(n, {}) /\ InRing(n) /\ InList(n) /\ InWork(n)
         /\ Somewhere(n, {}) /\ Ringed(n) /\ Unseen(n) /\ Behind(n, {}) /\ Rings(n)
<1>1. /\ s \in HwStates /\ n \in HwStates /\ HwInv(s, {}) /\ n.rb = s.rb /\ n.wq = s.wq
      /\ n.tree = IF x = NoAtom THEN s.tree \cup {a} ELSE s.tree
  BY DEF AddsOk, Adds
<1>2. Entered(s, n, a, x, p) /\ n.atom[a].kind \in Slots
  BY AddedAtoms DEF AddsOk, Entered
<1>3. \A b \in Atoms : b # a => Same(s, n, b)
  BY AddedAtoms
<1>4. \A js \in Slots : \A i \in DOMAIN s.rb[js] : s.rb[js][i] \in Atoms /\ s.rb[js][i] # a
  BY <1>1, <1>2, RingIs DEF Entered
<1>5. InTree(n, {})
  <2>1. ASSUME NEW b \in n.tree PROVE Fed(n, b) /\ ~InRb(n, b)
    <3>1. CASE b = a
      <4>1. x = NoAtom
        BY <1>1, <1>2, <2>1, <3>1 DEF Entered
      <4>. QED
        BY <1>2, <3>1, <4>1 DEF Entered, Fed
    <3>2. CASE b # a
      <4>1. b \in s.tree /\ b \in Atoms
        BY <1>1, <2>1, <3>2, HwIs
      <4>. QED
        BY <1>1, <1>3, <3>2, <4>1 DEF HwInv, InTree, Same
    <3>. QED
      BY <3>1, <3>2
  <2>. QED
    BY <2>1 DEF InTree
<1>6. InLimbo(n, {})
  BY DEF InLimbo
<1>7. InRing(n)
  <2>1. ASSUME NEW b \in Atoms, InRb(n, b)
        PROVE  Fed(n, b) /\ \E i \in DOMAIN n.rb[n.atom[b].kind] : n.rb[n.atom[b].kind][i] = b
    <3>1. b # a
      BY <1>2, <2>1 DEF Entered
    <3>2. Same(s, n, b)
      BY <1>3, <3>1, Zenon
    <3>3. Fed(s, b) /\ \E i \in DOMAIN s.rb[s.atom[b].kind] : s.rb[s.atom[b].kind][i] = b
      BY <1>1, <2>1, <3>2 DEF HwInv, InRing, Same
    <3>. QED
      BY <1>1, <3>2, <3>3 DEF Same
  <2>. QED
    BY <2>1, Zenon DEF InRing
<1>8. InList(n)
  <2>1. ASSUME NEW b \in Atoms, InX(n, b)
        PROVE  /\ n.atom[b].status = "in_js" /\ n.atom[b].kind \in Slots
               /\ ~Known(n, b) /\ ~InRb(n, b) /\ ~Pending(n, b) /\ Blocked(n, b)
    <3>1. CASE b = a
      BY <1>2, <2>1, <3>1 DEF Entered
    <3>2. CASE b # a
      <4>1. Same(s, n, b)
        BY <1>3, <3>2, Zenon
      <4>. QED
        BY <1>1, <2>1, <4>1 DEF HwInv, InList, Same
    <3>. QED
      BY <3>1, <3>2
  <2>. QED
    BY <2>1 DEF InList
<1>9. InWork(n)
  <2>1. ASSUME NEW i \in DOMAIN s.wq
        PROVE  /\ s.wq[i].job = "done" => n.atom[s.wq[i].id].status = "hw_completed"
               /\ s.wq[i].job = "cancel" => n.atom[s.wq[i].id].status = "in_js"
    <3>1. s.wq[i].id \in Atoms
      BY <1>1, <2>1, WorkIs
    <3>2. s.wq[i].job # "return" => s.wq[i].id # a
      BY <1>2, <2>1 DEF Entered, Pending
    <3>3. /\ s.wq[i].job = "done" => s.atom[s.wq[i].id].status = "hw_completed"
          /\ s.wq[i].job = "cancel" => s.atom[s.wq[i].id].status = "in_js"
      BY <1>1, <2>1 DEF HwInv, InWork
    <3>. QED
      BY <1>3, <3>1, <3>2, <3>3 DEF Same
  <2>. QED
    BY <1>1, <2>1 DEF HwInv, InWork
<1>10. Somewhere(n, {})
  <2>1. ASSUME NEW b \in Atoms, n.atom[b].status = "in_js"
        PROVE  b \in n.tree \/ InX(n, b) \/ InRb(n, b) \/ Pending(n, b)
    <3>1. CASE b = a
      BY <1>1, <1>2, <3>1 DEF Entered
    <3>2. CASE b # a
      <4>1. Same(s, n, b)
        BY <1>3, <3>2
      <4>2. b \in s.tree \/ InX(s, b) \/ InRb(s, b) \/ Pending(s, b)
        BY <1>1, <2>1, <4>1 DEF HwInv, Somewhere, Same
      <4>. QED
        BY <1>1, <4>1, <4>2 DEF Same
    <3>. QED
      BY <3>1, <3>2
  <2>. QED
    BY <2>1 DEF Somewhere
<1>11. Ringed(n)
  <2>1. ASSUME NEW js \in Slots, NEW i \in DOMAIN s.rb[js]
        PROVE  n.atom[s.rb[js][i]].kind = js /\ InRb(n, s.rb[js][i])
    <3>1. Same(s, n, s.rb[js][i])
      BY <1>3, <1>4, <2>1
    <3>2. s.atom[s.rb[js][i]].kind = js /\ InRb(s, s.rb[js][i])
      BY <1>1, RingIs
    <3>. QED
      BY <3>1, <3>2 DEF Same
  <2>. QED
    BY <1>1, <2>1, Z3T(30) DEF HwInv, Ringed
<1>12. Unseen(n)
  <2>1. ASSUME NEW b \in Atoms, n.atom[b].status \in {"unused", "queued"}
        PROVE  /\ n.atom[b].flags \subseteq {"waiting"} /\ ~InRb(n, b)
               /\ n.atom[b].preDep = NoAtom /\ n.atom[b].xPre = NoAtom
    <3>1. Same(s, n, b)
      BY <1>2, <1>3, <2>1 DEF Entered
    <3>. QED
      BY <1>1, <2>1, <3>1 DEF HwInv, Unseen, Same
  <2>. QED
    BY <2>1 DEF Unseen
<1>13. Behind(n, {})
  <2>1. ASSUME NEW js \in Slots, NEW i \in DOMAIN s.rb[js] PROVE Follower(n, {}, js, i)
    <3>1. PICK e \in Atoms : e = s.rb[js][i] /\ e # a
      BY <1>4, <2>1
    <3>2. Same(s, n, e)
      BY <1>3, <3>1
    <3>3. Follower(s, {}, js, i)
      BY <1>1, <2>1 DEF HwInv, Behind
    <3>4. s.atom[e].preDep # NoAtom => s.atom[e].preDep \in Atoms
      BY <1>1, LinkTypes
    <3>5. \A c \in Atoms : Ended(s, c) => Ended(n, c)
      BY <1>2, <1>3 DEF Same, Entered
    <3>. QED
      BY <1>1, <3>1, <3>2, <3>3, <3>4, <3>5 DEF Follower, Same
  <2>. QED
    BY <1>1, <2>1, Zenon DEF Behind
<1>14. Rings(n)
  <2>1. \A b \in Atoms : n.atom[b].rbState \in {"ready", "submitted"} => ~n.atom[b].wf
    <3>1. ASSUME NEW b \in Atoms, n.atom[b].rbState \in {"ready", "submitted"} PROVE ~n.atom[b].wf
      <4>1. b # a
        BY <1>2, <3>1, Zenon DEF Entered
      <4>2. Same(s, n, b)
        BY <1>3, <4>1
      <4>. QED
        BY <1>1, <3>1, <4>2 DEF HwInv, Rings, Same
    <3>. QED
      BY <3>1
  <2>2. ASSUME NEW js \in Slots, Len(s.rb[js]) = 2 PROVE Pair(n.atom[s.rb[js][1]], n.atom[s.rb[js][2]])
    <3>1. 1 \in DOMAIN s.rb[js] /\ 2 \in DOMAIN s.rb[js]
      BY <1>1, <2>2, RingIs
    <3>2. Same(s, n, s.rb[js][1]) /\ Same(s, n, s.rb[js][2])
      BY <1>3, <1>4, <3>1
    <3>3. Pair(s.atom[s.rb[js][1]], s.atom[s.rb[js][2]])
      BY <1>1, <2>2 DEF HwInv, Rings
    <3>. QED
      BY <3>2, <3>3, Zenon DEF Same, Pair
  <2>. QED
    BY <1>1, <2>1, <2>2 DEF Rings
<1>. QED
  BY <1>5, <1>6, <1>7, <1>8, <1>9, <1>10, <1>11, <1>12, <1>13, <1>14

\* After an atom is added all links are mutual.
LEMMA AddedLinks ==
  ASSUME NEW s, NEW n, NEW a \in Atoms, NEW x, NEW p, AddsOk(s, n, a, x, p)
  PROVE  Linked(n)
<1>1. s \in HwStates /\ HwInv(s, {}) /\ Linked(s) /\ Pickable(s, a, x, p)
  BY DEF AddsOk, HwInv
<1>2. Entered(s, n, a, x, p) /\ n.atom[a].kind \in Slots
  BY AddedAtoms DEF AddsOk, Entered
<1>3. \A b \in Atoms : b # a => Same(s, n, b)
  BY AddedAtoms
<1>4. \A b \in Atoms : b # a => /\ n.atom[b].postDep = IF b = p THEN a ELSE s.atom[b].postDep
                                /\ n.atom[b].xPost = IF b = x THEN a ELSE s.atom[b].xPost
  BY DEF AddsOk, Adds, Followed
<1>5. /\ x # NoAtom => x \in Atoms /\ x < a /\ x # a /\ Known(s, x) /\ s.atom[x].kind # s.atom[a].kind /\ s.atom[x].xPost = NoAtom
      /\ p # NoAtom => p \in Atoms /\ p < a /\ p # a /\ Known(s, p) /\ s.atom[p].kind = s.atom[a].kind /\ s.atom[p].postDep = NoAtom
  BY <1>1, AtomsFinite DEF Pickable
<1>6. ASSUME NEW b \in Atoms PROVE Seen(n, b)
  <2>1. CASE b = a
    BY <1>2, <2>1 DEF Entered, Seen
  <2>2. CASE b # a
    <3>1. Seen(s, b) /\ Same(s, n, b)
      BY <1>1, <1>3, <2>2 DEF Linked
    <3>2. ~Known(s, b) => n.atom[b].postDep = s.atom[b].postDep /\ n.atom[b].xPost = s.atom[b].xPost
      BY <1>4, <1>5, <2>2, NotAtom
    <3>. QED
      BY <3>1, <3>2 DEF Seen, Same
  <2>. QED
    BY <2>1, <2>2
<1>7. ASSUME NEW b \in Atoms PROVE PreLinked(n, b)
  <2>1. CASE b = a
    <3>1. ASSUME p # NoAtom PROVE p < a /\ n.atom[p].kind = n.atom[a].kind /\ n.atom[p].postDep = a
      BY <1>2, <1>3, <1>4, <1>5, <3>1 DEF Same, Entered
    <3>. QED
      BY <1>2, <2>1, <3>1 DEF Entered, PreLinked
  <2>2. CASE b # a
    <3>1. PICK c : c = s.atom[b].preDep
      OBVIOUS
    <3>2. n.atom[b].preDep = c /\ n.atom[b].kind = s.atom[b].kind
      BY <1>3, <2>2, <3>1 DEF Same
    <3>3. ASSUME c # NoAtom PROVE c < b /\ n.atom[c].kind = n.atom[b].kind /\ n.atom[c].postDep = b
      <4>1. c \in Atoms /\ c < b /\ s.atom[c].kind = s.atom[b].kind /\ s.atom[c].postDep = b
        BY <1>1, <3>1, <3>3, LinkTypes DEF Linked, PreLinked
      <4>2. b # NoAtom
        BY NotAtom
      <4>3. c # a
        BY <1>2, <4>1, <4>2 DEF Entered
      <4>4. c # p
        BY <1>5, <3>3, <4>1, <4>2
      <4>. QED
        BY <1>3, <1>4, <3>2, <4>1, <4>3, <4>4 DEF Same
    <3>. QED
      BY <3>2, <3>3 DEF PreLinked
  <2>. QED
    BY <2>1, <2>2
<1>8. ASSUME NEW b \in Atoms PROVE XLinked(n, b)
  <2>1. CASE b = a
    <3>1. ASSUME x # NoAtom PROVE x < a /\ n.atom[x].kind # n.atom[a].kind /\ n.atom[x].xPost = a /\ Blocked(n, a)
      BY <1>2, <1>3, <1>4, <1>5, <3>1 DEF Same, Entered
    <3>. QED
      BY <1>2, <2>1, <3>1 DEF Entered, XLinked
  <2>2. CASE b # a
    <3>1. PICK c : c = s.atom[b].xPre
      OBVIOUS
    <3>2. n.atom[b].xPre = c /\ n.atom[b].kind = s.atom[b].kind /\ (Blocked(n, b) <=> Blocked(s, b))
      BY <1>3, <2>2, <3>1 DEF Same
    <3>3. ASSUME c # NoAtom
          PROVE  c < b /\ n.atom[c].kind # n.atom[b].kind /\ n.atom[c].xPost = b /\ (Blocked(n, b) \/ Ended(n, c))
      <4>1. c \in Atoms /\ c < b /\ s.atom[c].kind # s.atom[b].kind /\ s.atom[c].xPost = b
            /\ (Blocked(s, b) \/ Ended(s, c))
        BY <1>1, <3>1, <3>3, LinkTypes DEF Linked, XLinked
      <4>2. b # NoAtom
        BY NotAtom
      <4>3. c # a
        BY <1>2, <4>1, <4>2 DEF Entered
      <4>4. c # x
        BY <1>5, <3>3, <4>1, <4>2
      <4>. QED
        BY <1>3, <1>4, <3>2, <4>1, <4>3, <4>4 DEF Same
    <3>. QED
      BY <3>2, <3>3 DEF XLinked
  <2>. QED
    BY <2>1, <2>2
<1>9. ASSUME NEW b \in Atoms PROVE PostLinked(n, b)
  <2>1. CASE b = a
    BY <1>2, <2>1 DEF Entered, PostLinked
  <2>2. CASE b # a
    <3>1. ASSUME n.atom[b].postDep # NoAtom PROVE n.atom[n.atom[b].postDep].preDep = b
      <4>1. CASE b = p
        BY <1>2, <1>4, <2>2, <4>1 DEF Entered
      <4>2. CASE b # p
        <5>1. PICK c : c = s.atom[b].postDep
          OBVIOUS
        <5>2. n.atom[b].postDep = c /\ c # NoAtom
          BY <1>4, <2>2, <3>1, <4>2, <5>1
        <5>3. c \in Atoms /\ s.atom[c].preDep = b
          BY <1>1, <5>1, <5>2, LinkTypes DEF Linked, PostLinked
        <5>4. c # a
          BY <1>2, <5>3, NotAtom DEF Entered
        <5>. QED
          BY <1>3, <5>2, <5>3, <5>4 DEF Same
      <4>. QED
        BY <4>1, <4>2
    <3>2. ASSUME n.atom[b].xPost # NoAtom PROVE n.atom[n.atom[b].xPost].xPre = b
      <4>1. CASE b = x
        BY <1>2, <1>4, <2>2, <4>1 DEF Entered
      <4>2. CASE b # x
        <5>1. PICK c : c = s.atom[b].xPost
          OBVIOUS
        <5>2. n.atom[b].xPost = c /\ c # NoAtom
          BY <1>4, <2>2, <3>2, <4>2, <5>1
        <5>3. c \in Atoms /\ s.atom[c].xPre = b
          BY <1>1, <5>1, <5>2, LinkTypes DEF Linked, PostLinked
        <5>4. c # a
          BY <1>2, <5>3, NotAtom DEF Entered
        <5>. QED
          BY <1>3, <5>2, <5>3, <5>4 DEF Same
      <4>. QED
        BY <4>1, <4>2
    <3>. QED
      BY <3>1, <3>2 DEF PostLinked
  <2>. QED
    BY <2>1, <2>2
<1>. QED
  BY <1>6, <1>7, <1>8, <1>9 DEF Linked

\* The scheduler takes an atom the dispatcher held, with what it waits for.
LEMMA AddedWhole ==
  ASSUME NEW s, NEW j, NEW nx, NEW nr, NEW rep, NEW sch \in BOOLEAN,
         Whole(s, j, nx, nr, rep, sch, FALSE), NEW n, NEW a \in Atoms, NEW x, NEW p,
         Picks(s, a, x, p), AddsOk(s, n, a, x, p), ~Has(j.run, a)
  PROVE  Whole(n, j, nx, nr, rep, sch, FALSE)
<1>1. /\ s \in HwStates /\ HwInv(s, {}) /\ CtxInv(s, sch, FALSE) /\ j \in Passes
      /\ QueueInv(s, nx) /\ OrderInv(s) /\ FailInv(s, FALSE) /\ PassInv(s, j, FALSE) /\ RepInv(s, j, rep, nr, nx)
  BY DEF Whole, Disp
<1>2. Entered(s, n, a, x, p) /\ n.atom[a].kind \in Slots /\ s.atom[a].status = "queued"
  <2>1. Entered(s, n, a, x, p)
    BY AddedAtoms
  <2>2. s.atom[a].kind \in Slots /\ s.atom[a].status = "queued"
    BY DEF AddsOk
  <2>. QED
    BY <2>1, <2>2 DEF Entered
<1>3. \A b \in Atoms : b # a => Same(s, n, b)
  BY AddedAtoms
<1>4. n \in HwStates /\ n.atom[a].pre = s.atom[a].pre /\ NoWaits(n, a)
  BY NoDeps DEF AddsOk, Adds, Joined, NoWaits, Waits
<1>5. HwInv(n, {})
  BY AddedPlaces, AddedLinks DEF HwInv
<1>6. \A b \in Atoms : (Ended(n, b) <=> Ended(s, b)) /\ (InRb(n, b) <=> InRb(s, b))
  BY <1>2, <1>3 DEF Same, Entered
<1>7. CtxInv(n, sch, FALSE)
  <2>1. Clear(s) /\ InTurn(s) /\ \A i \in DOMAIN s.wq : s.wq[i].job # "cancel"
    BY <1>1 DEF CtxInv, Gone
  <2>2. Clear(n)
    <3>1. ASSUME NEW b \in Atoms, Blocked(n, b) PROVE InX(n, b)
      <4>1. CASE b = a
        BY <1>2, <3>1, <4>1 DEF Entered
      <4>2. CASE b # a
        BY <1>3, <2>1, <3>1, <4>2 DEF Same, Clear
      <4>. QED
        BY <4>1, <4>2
    <3>. QED
      BY <3>1 DEF Clear
  <2>3. InTurn(n)
    <3>1. ASSUME NEW b \in Atoms, Ended(n, b), n.atom[b].preDep # NoAtom PROVE Ended(n, n.atom[b].preDep)
      <4>1. b # a
        BY <1>2, <3>1 DEF Entered
      <4>2. Same(s, n, b)
        BY <1>3, <4>1
      <4>3. Ended(s, s.atom[b].preDep) /\ s.atom[b].preDep \in Atoms
        BY <1>1, <2>1, <3>1, <4>2, LinkTypes DEF Same, InTurn
      <4>. QED
        BY <1>6, <4>2, <4>3 DEF Same
    <3>. QED
      BY <3>1 DEF InTurn
  <2>4. n.wq = s.wq
    BY DEF AddsOk, Adds
  <2>5. ~sch => \A b \in Atoms : ~InRb(n, b)
    BY <1>1, <1>6 DEF CtxInv
  <2>. QED
    BY <2>1, <2>2, <2>3, <2>4, <2>5 DEF CtxInv, Gone
<1>8. QueueInv(n, nx)
  <2>1. ASSUME NEW b \in Atoms
        PROVE  /\ b < nx <=> n.atom[b].status # "unused"
               /\ \A e \in 1..2 : WaitInv(n, b, e)
               /\ SoftInv(n, b)
    <3>1. CASE b = a
      BY <1>1, <1>2, <1>4, <3>1, Zenon DEF Entered, QueueInv, WaitInv, SoftInv, NoWaits
    <3>2. CASE b # a
      <4>1. Same(s, n, b)
        BY <1>3, <3>2, Zenon
      <4>. QED
        BY <1>1, <4>1 DEF Same, QueueInv, WaitInv, SoftInv, Waits
    <3>. QED
      BY <3>1, <3>2
  <2>. QED
    BY <2>1 DEF QueueInv
<1>9. ASSUME NEW d \in 1..2, Waits(s, a, d)
      PROVE  /\ s.atom[a].dep[d] = s.atom[a].pre[d]
             /\ \/ Crosses(s, a, d) /\ x = s.atom[a].pre[d].id
                \/ Sames(s, a, d) /\ p = s.atom[a].pre[d].id
                \/ s.atom[a].pre[d].type = "order" /\ s.atom[s.atom[a].pre[d].id].kind = s.atom[a].kind
  <2>1. s.atom[a].dep[d] = s.atom[a].pre[d]
    BY <1>1, <1>9 DEF QueueInv, WaitInv
  <2>2. s.atom[a].pre[d].type \in {"data", "order"}
    BY <1>1, DepTypes
  <2>. QED
    BY <1>9, <2>1, <2>2 DEF Picks, Crosses, Sames, SameSlot
<1>10. \A b \in Atoms : n.atom[b].kind = s.atom[b].kind /\ n.atom[b].pre = s.atom[b].pre
                        /\ n.atom[b].event = s.atom[b].event /\ (n.atom[b].wf <=> s.atom[b].wf)
  BY <1>2, <1>3, <1>4 DEF Same, Entered
<1>11. OrderInv(n)
  <2>1. ASSUME NEW b \in Atoms, NEW d \in 1..2,
               n.atom[b].status \notin {"unused", "completed"}, n.atom[b].pre[d].id \in 1..(b - 1)
        PROVE  InOrder(n, b, d)
    <3>1. PICK c \in Atoms : c = s.atom[b].pre[d].id /\ c = n.atom[b].pre[d].id /\ c \in 1..(b - 1)
      BY <1>1, <1>10, <2>1, DepTypes
    <3>2. s.atom[b].status \notin {"unused", "completed"}
      BY <1>2, <1>3, <2>1 DEF Same
    <3>3. InOrder(s, b, d)
      BY <1>1, <3>1, <3>2 DEF OrderInv
    <3>4. CASE b = a
      <4>1. CASE Waits(s, a, d)
        <5>1. x = c \/ p = c \/ (s.atom[a].pre[d].type = "order" /\ s.atom[c].kind = s.atom[a].kind)
          BY <1>9, <3>1, <3>4, <4>1
        <5>2. n.atom[a].preDep = p /\ n.atom[a].xPre = x
          BY <1>2 DEF Entered
        <5>3. n.atom[a].pre[d] = s.atom[a].pre[d] /\ n.atom[c].kind = s.atom[c].kind /\ n.atom[a].kind = s.atom[a].kind
          BY <1>10, Z3T(30)
        <5>. QED
          BY <3>1, <3>4, <5>1, <5>2, <5>3 DEF InOrder
      <4>2. CASE ~Waits(s, a, d)
        <5>1. s.atom[a].preDep # c /\ s.atom[a].xPre # c
          BY <1>2, NotAtom DEF Entered
        <5>. QED
          BY <1>6, <1>10, <3>1, <3>3, <3>4, <4>2, <5>1 DEF InOrder
      <4>. QED
        BY <4>1, <4>2
    <3>5. CASE b # a
      <4>1. Same(s, n, b)
        BY <1>3, <3>5
      <4>. QED
        BY <1>6, <1>10, <3>1, <3>3, <4>1 DEF Same, InOrder, Waits
    <3>. QED
      BY <3>4, <3>5, Zenon
  <2>. QED
    BY <2>1 DEF OrderInv
<1>12. FailInv(n, FALSE)
  <2>1. ASSUME NEW b \in Atoms PROVE MarkInv(n, b)
    <3>1. MarkInv(s, b)
      BY <1>1 DEF FailInv
    <3>2. CASE b = a
      BY <1>2, <3>2 DEF Entered, MarkInv
    <3>3. CASE b # a
      BY <1>3, <3>1, <3>3 DEF Same, MarkInv
    <3>. QED
      BY <3>2, <3>3
  <2>2. ASSUME NEW b \in Atoms, NEW d \in 1..2, CrossData(n, b, d) PROVE Warned(n, b, d, FALSE)
    <3>1. PICK c \in Atoms : c = s.atom[b].pre[d].id /\ c = n.atom[b].pre[d].id /\ c \in 1..(b - 1)
      BY <1>1, <1>10, <2>2, DepTypes, Zenon DEF CrossData
    <3>2. s.atom[b].status # "unused"
      BY <1>2, <1>3, <2>2 DEF Same, CrossData
    <3>3. CrossData(s, b, d)
      BY <1>10, <2>2, <3>1, <3>2 DEF CrossData
    <3>4. Warned(s, b, d, FALSE)
      BY <1>1, <3>3 DEF FailInv
    <3>5. CASE b = a
      <4>1. CASE Waits(s, a, d)
        <5>1. Crosses(s, a, d) /\ x = c /\ s.atom[a].dep[d].type = "data"
          BY <1>9, <3>1, <3>3, <3>5, <4>1 DEF CrossData, Sames, SameSlot
        <5>2. x # NoAtom /\ Data(s, a)
          BY <5>1, NotAtom, Zenon DEF Data
        <5>. QED
          BY <1>2, <3>1, <3>5, <5>1, <5>2 DEF Entered, Warned
      <4>2. CASE ~Waits(s, a, d)
        <5>1. s.atom[a].xPre # c
          BY <1>2, NotAtom, Z3T(30) DEF Entered
        <5>. QED
          BY <1>2, <1>6, <1>10, <3>1, <3>4, <3>5, <4>2, <5>1 DEF Warned, Failed, Entered
      <4>. QED
        BY <4>1, <4>2
    <3>6. CASE b # a
      <4>1. Same(s, n, b)
        BY <1>3, <3>6
      <4>. QED
        BY <1>6, <1>10, <3>1, <3>4, <4>1 DEF Same, Warned, Failed, Waits
    <3>. QED
      BY <3>5, <3>6, Zenon
  <2>. QED
    BY <2>1, <2>2 DEF FailInv
<1>13. PassInv(n, j, FALSE)
  <2>1. ASSUME NEW m \in DOMAIN j.run PROVE Runnable(n, j.run[m], FALSE)
    <3>1. j.run[m] \in Atoms /\ j.run[m] # a
      BY <1>1, <2>1, PassTypes DEF Has
    <3>2. Same(s, n, j.run[m]) /\ Runnable(s, j.run[m], FALSE)
      BY <1>1, <1>3, <2>1, <3>1 DEF PassInv
    <3>. QED
      BY <3>2, Zenon DEF Same, Runnable, NoWaits, Waits
  <2>2. \A b \in Atoms : s.atom[b].status = "completed" => n.atom[b].status = "completed"
    BY <1>2, <1>3 DEF Same
  <2>3. /\ \A m \in DOMAIN j.done : j.done[m] \in Atoms
        /\ j.cur # NoAtom => j.cur \in Atoms
    BY <1>1, PassTypes
  <2>. QED
    BY <1>1, <2>1, <2>2, <2>3 DEF PassInv
<1>14. RepInv(n, j, rep, nr, nx)
  <2>1. \A b \in Atoms : s.atom[b].status = "completed" => n.atom[b].status = "completed"
    BY <1>2, <1>3 DEF Same
  <2>. QED
    BY <1>1, <2>1, StepRep
<1>. QED
  BY <1>1, <1>4, <1>5, <1>7, <1>8, <1>11, <1>12, <1>13, <1>14 DEF Whole, Disp

\* kbasep_js_add_job, whether or not the slot queues can hold the atom's
\* dependencies.
AddsWhole(n, j, nx, nr, rep, sch, a) ==
  Whole(n, j, nx, nr, rep, sch, FALSE) /\ n.atom[a].status \in {"queued", "in_js"}

\* Adding an atom to the scheduler keeps the invariant.
LEMMA AddJobWhole ==
  ASSUME NEW s, NEW j, NEW nx, NEW nr, NEW rep, NEW sch \in BOOLEAN,
         Whole(s, j, nx, nr, rep, sch, FALSE), NEW a \in Atoms,
         s.atom[a].status = "queued", "waiting" \notin s.atom[a].flags, s.atom[a].kind \in Slots,
         ~Has(j.run, a), NEW n, n = AddJob(s, a)
  PROVE  AddsWhole(n, j, nx, nr, rep, sch, a)
<1>1. s \in HwStates /\ HwInv(s, {}) /\ QueueInv(s, nx)
  BY DEF Whole, Disp
<1>2. CASE Representable(s, a)
  <2>1. PICK x, p : Picks(s, a, x, p) /\ Pickable(s, a, x, p) /\ Adds(s, n, a, x, p)
    BY <1>1, <1>2, AddIs
  <2>2. AddsOk(s, n, a, x, p)
    BY <1>1, <2>1 DEF AddsOk
  <2>3. Whole(n, j, nx, nr, rep, sch, FALSE)
    BY <2>1, <2>2, AddedWhole
  <2>4. n.atom[a].status = "in_js"
    BY <2>1 DEF Adds, Joined
  <2>. QED
    BY <2>3, <2>4 DEF AddsWhole
<1>3. CASE ~Representable(s, a)
  <2>1. n = SetStatus(s, a, "queued")
    BY <1>3 DEF AddJob, SetStatus
  <2>2. /\ Edited(s, n, a) /\ n.atom[a].status = "queued"
        /\ n.atom[a].flags = s.atom[a].flags /\ n.atom[a].event = s.atom[a].event
        /\ n.atom[a].wf = s.atom[a].wf /\ n.atom[a].rbState = s.atom[a].rbState
    BY <1>1, <2>1, StatusEdit DEF Statuses
  <2>3. Idles(s, n)
    <3>1. ASSUME NEW b \in Atoms PROVE Like(n.atom[b], s.atom[b]) /\ n.atom[b].rbState = s.atom[b].rbState
      <4>1. CASE b = a
        BY <2>2, <4>1 DEF Edited, Like
      <4>2. CASE b # a
        BY <2>2, <4>2, LikeSelf DEF Edited
      <4>. QED
        BY <4>1, <4>2
    <3>. QED
      BY <2>2, <3>1 DEF Idles, Edited, WorkKept
  <2>4. Whole(n, j, nx, nr, rep, sch, FALSE)
    BY <2>3, IdlesWhole
  <2>. QED
    BY <2>2, <2>4 DEF AddsWhole
<1>. QED
  BY <1>2, <1>3

-----------------------------------------------------------------------------
(* The inner loop of jd_done_nolock.                                        *)

Rest(j) == [j EXCEPT !.run = Tail(j.run)]
Longer(j, a) == [j EXCEPT !.done = Append(j.done, a)]
Leads(j, q) == [j EXCEPT !.run = q]

\* The first runnable atom is taken off the list.
LEMMA RestWhole ==
  ASSUME NEW s, NEW j, NEW nx, NEW nr, NEW rep, NEW sch, NEW dy,
         Whole(s, j, nx, nr, rep, sch, dy), j.run # <<>>
  PROVE  /\ Whole(s, Rest(j), nx, nr, rep, sch, dy) /\ Rest(j) \in Passes
         /\ Rest(j).run = Tail(j.run) /\ Rest(j).done = j.done /\ Rest(j).cur = j.cur /\ Rest(j).by = j.by
         /\ Head(j.run) \in Atoms /\ Runnable(s, Head(j.run), dy) /\ ~Has(Rest(j).run, Head(j.run))
         /\ j.cur \in Atoms /\ s.atom[j.cur].status = "completed"
<1>1. j \in Passes /\ PassInv(s, j, dy) /\ RepInv(s, j, rep, nr, nx)
  BY DEF Whole, Disp
<1>2. j.run \in Seq(Atoms)
  BY <1>1, PassTypes
<1>3. PICK t : t = Tail(j.run)
  OBVIOUS
<1>4. PICK l : l = Len(j.run)
  OBVIOUS
<1>5. /\ t \in Seq(Atoms) /\ l \in Nat \ {0} /\ DOMAIN j.run = 1..l /\ DOMAIN t = 1..(l - 1)
      /\ Head(j.run) = j.run[1] /\ j.run[1] \in Atoms /\ \A m \in 1..(l - 1) : t[m] = j.run[m + 1]
  BY <1>2, <1>3, <1>4, TailIs
<1>6. PICK i : i = Rest(j)
  OBVIOUS
<1>7. i \in Passes /\ i.run = t /\ i.done = j.done /\ i.cur = j.cur /\ i.by = j.by
  <2>1. i = [j EXCEPT !.run = t]
    BY <1>3, <1>6 DEF Rest
  <2>. QED
    BY <1>1, <1>5, <2>1 DEF Passes
<1>8. 1 \in DOMAIN j.run /\ \A m \in DOMAIN t : m + 1 \in DOMAIN j.run /\ m + 1 # 1 /\ t[m] = j.run[m + 1]
  BY <1>5
<1>9. ~Has(t, j.run[1])
  BY <1>1, <1>8 DEF Has, PassInv, Distinct
<1>10. Distinct(t)
  <2>1. ASSUME NEW m \in DOMAIN t, NEW o \in DOMAIN t, t[m] = t[o] PROVE m = o
    <3>1. m + 1 = o + 1
      BY <1>1, <1>8, <2>1 DEF PassInv, Distinct
    <3>. QED
      BY <1>5, <3>1
  <2>. QED
    BY <2>1 DEF Distinct
<1>11. j.cur # NoAtom /\ j.cur \in Atoms /\ s.atom[j.cur].status = "completed" /\ i.by # "none"
  <2>1. j.cur # NoAtom
    BY <1>1 DEF PassInv
  <2>2. i.by # "none"
    BY <1>1, <1>7, <2>1 DEF PassInv, Idle
  <2>. QED
    BY <1>1, <2>1, <2>2, PassTypes DEF PassInv
<1>12. PassInv(s, i, dy)
  <2>1. \A m \in DOMAIN t : Runnable(s, t[m], dy)
    BY <1>1, <1>8 DEF PassInv
  <2>. QED
    BY <1>1, <1>7, <1>10, <1>11, <2>1 DEF PassInv
<1>13. RepInv(s, i, rep, nr, nx)
  BY <1>1, <1>7 DEF RepInv
<1>14. Runnable(s, j.run[1], dy)
  BY <1>1, <1>8 DEF PassInv
<1>15. Whole(s, i, nx, nr, rep, sch, dy)
  BY <1>7, <1>12, <1>13 DEF Whole, Disp
<1>. QED
  BY <1>3, <1>5, <1>6, <1>7, <1>9, <1>11, <1>14, <1>15

\* An atom that waits for nothing ends, with event e.
EndsAs(s, n, a, e) ==
  /\ n \in HwStates /\ n.tree = s.tree /\ n.rb = s.rb /\ n.wq = s.wq
  /\ \A b \in Atoms : b # a => n.atom[b] = s.atom[b]
  /\ Fixed(n.atom[a], s.atom[a]) /\ n.atom[a].status = "completed" /\ n.atom[a].event = e
  /\ n.atom[a].flags = s.atom[a].flags /\ n.atom[a].rbState = s.atom[a].rbState /\ NoWaits(n, a)

\* An atom without dependencies may end, as failed if that was announced.
LEMMA EndsFinish ==
  ASSUME NEW s \in HwStates, HwInv(s, {}), NEW dy, FailInv(s, dy), NEW a \in Atoms,
         s.atom[a].status = "queued", "waiting" \notin s.atom[a].flags, NoWaits(s, a),
         NEW e, dy \/ e # "done" \/ ~s.atom[a].wf, NEW n, EndsAs(s, n, a, e)
  PROVE  AllKept(s, n) /\ Finishes(s, n, a, dy)
<1>1. /\ s.atom[a].flags = {} /\ s.atom[a].rbState = "none"
      /\ s.atom[a].preDep = NoAtom /\ s.atom[a].xPre = NoAtom
      /\ s.atom[a].postDep = NoAtom /\ s.atom[a].xPost = NoAtom
  BY OutsideIs
<1>2. Outer(n.atom[a], s.atom[a])
  BY <1>1 DEF EndsAs, Outer, Fixed
<1>3. ASSUME NEW b \in Atoms PROVE Keeps(s, n, b)
  BY <1>2, StaysSelf DEF EndsAs, Keeps
<1>4. AllKept(s, n)
  BY <1>3 DEF AllKept, EndsAs, WorkKept
<1>5. ASSUME NEW d \in 1..2, CrossData(s, a, d), ~dy, e = "done"
      PROVE  Ended(s, s.atom[a].pre[d].id) /\ s.atom[s.atom[a].pre[d].id].event = "done"
  <2>1. Warned(s, a, d, dy)
    BY <1>5, Zenon DEF FailInv
  <2>2. s.atom[a].pre[d].id # NoAtom
    BY <1>5, NotAtom, DepTypes, Zenon DEF CrossData
  <2>3. ~Failed(s, a, dy)
    BY <1>5 DEF Failed
  <2>. QED
    BY <1>1, <1>5, <2>1, <2>2, <2>3 DEF Warned, NoWaits
<1>6. Finishes(s, n, a, dy)
  BY <1>1, <1>5 DEF EndsAs, Finishes, Fixed
<1>. QED
  BY <1>4, <1>6

\* It ends while a pass runs, which is to report it.
LEMMA EndsWhole ==
  ASSUME NEW s, NEW j, NEW nx, NEW nr, NEW rep, NEW sch, NEW dy,
         Whole(s, j, nx, nr, rep, sch, dy), j.cur # NoAtom, NEW a \in Atoms, s.atom[a].status = "queued",
         ~Has(j.run, a), NEW n, AllKept(s, n), Finishes(s, n, a, dy)
  PROVE  Whole(n, Longer(j, a), nx, nr, rep, sch, dy)
<1>1. /\ s \in HwStates /\ HwInv(s, {}) /\ CtxInv(s, sch, dy) /\ j \in Passes /\ n \in HwStates
      /\ QueueInv(s, nx) /\ OrderInv(s) /\ FailInv(s, dy) /\ PassInv(s, j, dy) /\ RepInv(s, j, rep, nr, nx)
  BY DEF Whole, Disp, AllKept
<1>2. HwInv(n, {}) /\ CtxInv(n, sch, dy)
  BY <1>1, KeptGood, KeptCtx
<1>3. QueueInv(n, nx) /\ OrderInv(n) /\ FailInv(n, dy)
  BY <1>1, FinishesQueue, FinishesOrder, FinishesFail, Zenon
<1>4. n.atom[a].status = "completed" /\ \A b \in Atoms : b # a => n.atom[b] = s.atom[b]
  BY DEF Finishes
<1>5. rep[a] = 0
  BY <1>1 DEF RepInv
<1>6. RepInv(n, j, rep, nr, nx)
  BY <1>1, <1>4, StepRep
<1>7. PICK q : q = Append(j.done, a)
  OBVIOUS
<1>8. PICK l : l = Len(j.done)
  OBVIOUS
<1>9. /\ q \in Seq(Atoms) /\ l \in Nat /\ DOMAIN q = 1..(l + 1) /\ DOMAIN j.done = 1..l /\ q[l + 1] = a
      /\ \A m \in 1..l : q[m] = j.done[m]
  BY <1>1, <1>7, <1>8, PassTypes, AppendIs
<1>10. PICK i : i = Longer(j, a)
  OBVIOUS
<1>11. i \in Passes /\ i.done = q /\ i.run = j.run /\ i.cur = j.cur /\ i.by = j.by
  <2>1. i = [j EXCEPT !.done = q]
    BY <1>7, <1>10 DEF Longer
  <2>. QED
    BY <1>1, <1>9, <2>1 DEF Passes
<1>12. ASSUME NEW m \in DOMAIN q PROVE (m = l + 1 /\ q[m] = a) \/ (m \in DOMAIN j.done /\ q[m] = j.done[m])
  <2>1. m \in 1..(l + 1)
    BY <1>9, <1>12
  <2>2. m = l + 1 \/ m \in 1..l
    BY <1>9, <2>1
  <2>. QED
    BY <1>9, <2>2
<1>13. \A m \in DOMAIN j.done : j.done[m] \in Atoms /\ j.done[m] # a
  BY <1>1, PassTypes DEF PassInv
<1>14. j.cur \in Atoms /\ j.cur # a /\ n.atom[j.cur].status = "completed"
  BY <1>1, <1>4, PassTypes DEF PassInv
<1>15. PassInv(n, i, dy)
  <2>1. ASSUME NEW m \in DOMAIN j.run PROVE Runnable(n, j.run[m], dy)
    <3>1. j.run[m] \in Atoms /\ j.run[m] # a
      BY <1>1, <2>1, PassTypes DEF Has
    <3>. QED
      BY <1>1, <1>4, <2>1, <3>1 DEF PassInv, Runnable, NoWaits, Waits
  <2>2. ASSUME NEW m \in DOMAIN q PROVE n.atom[q[m]].status = "completed" /\ q[m] # i.cur
    <3>1. CASE q[m] = a
      BY <1>4, <1>11, <1>14, <3>1
    <3>2. CASE m \in DOMAIN j.done /\ q[m] = j.done[m]
      BY <1>1, <1>4, <1>11, <1>13, <3>2 DEF PassInv
    <3>. QED
      BY <1>12, <2>2, <3>1, <3>2
  <2>3. Distinct(q)
    <3>1. ASSUME NEW m \in DOMAIN q, NEW o \in DOMAIN q, q[m] = q[o] PROVE m = o
      BY <1>1, <1>12, <1>13, <3>1 DEF PassInv, Distinct
    <3>. QED
      BY <3>1 DEF Distinct
  <2>4. i.by # "none"
    BY <1>1, <1>11 DEF PassInv, Idle
  <2>. QED
    BY <1>1, <1>11, <1>14, <2>1, <2>2, <2>3, <2>4, Z3T(30) DEF PassInv
<1>16. RepInv(n, i, rep, nr, nx)
  <2>1. ASSUME NEW m \in DOMAIN q PROVE rep[q[m]] = 0
    BY <1>1, <1>5, <1>12, <2>1 DEF RepInv
  <2>. QED
    BY <1>6, <1>11, <2>1 DEF RepInv
<1>17. Whole(n, i, nx, nr, rep, sch, dy)
  BY <1>1, <1>2, <1>3, <1>11, <1>15, <1>16, Zenon DEF Whole, Disp
<1>. QED
  BY <1>10, <1>17

\* An atom of which only the flags changed, and none the other slot waits on.
Signed(s, n, b) ==
  /\ n.atom[b].kind = s.atom[b].kind /\ n.atom[b].pre = s.atom[b].pre
  /\ n.atom[b].status = s.atom[b].status /\ n.atom[b].event = s.atom[b].event
  /\ (n.atom[b].wf <=> s.atom[b].wf) /\ n.atom[b].dep = s.atom[b].dep
  /\ n.atom[b].preDep = s.atom[b].preDep /\ n.atom[b].xPre = s.atom[b].xPre
  /\ (Blocked(n, b) <=> Blocked(s, b))
  /\ ("fail_blocker" \in n.atom[b].flags <=> "fail_blocker" \in s.atom[b].flags)

\* A soft job is left waiting.
LEMMA WaitingWhole ==
  ASSUME NEW s, NEW j, NEW nx, NEW nr, NEW rep, NEW sch, NEW dy,
         Whole(s, j, nx, nr, rep, sch, dy), NEW a \in Atoms, s.atom[a].status = "queued",
         s.atom[a].kind = "soft", ~s.atom[a].wf, NoWaits(s, a), ~Has(j.run, a),
         NEW f \in SUBSET Flags, f = s.atom[a].flags \cup {"waiting"}, NEW n, n = SetFlags(s, a, f)
  PROVE  Whole(n, j, nx, nr, rep, sch, dy) /\ n.atom[a].status = "queued"
<1>1. /\ s \in HwStates /\ HwInv(s, {}) /\ CtxInv(s, sch, dy) /\ j \in Passes
      /\ QueueInv(s, nx) /\ OrderInv(s) /\ FailInv(s, dy) /\ PassInv(s, j, dy) /\ RepInv(s, j, rep, nr, nx)
  BY DEF Whole, Disp
<1>2. /\ Edited(s, n, a) /\ n.atom[a].flags = f
      /\ n.atom[a].status = s.atom[a].status /\ n.atom[a].event = s.atom[a].event
      /\ n.atom[a].wf = s.atom[a].wf /\ n.atom[a].rbState = s.atom[a].rbState
  BY <1>1, FlagsEdit
<1>3. /\ s.atom[a].flags \subseteq {"waiting"} /\ s.atom[a].rbState = "none"
      /\ s.atom[a].preDep = NoAtom /\ s.atom[a].xPre = NoAtom
      /\ s.atom[a].postDep = NoAtom /\ s.atom[a].xPost = NoAtom
  BY <1>1, OutsideIs, Zenon
<1>4. Outer(n.atom[a], s.atom[a])
  BY <1>2, <1>3, Zenon DEF Edited, Fixed, Outer
<1>5. ASSUME NEW b \in Atoms PROVE Keeps(s, n, b)
  BY <1>2, <1>4, StaysSelf, Zenon DEF Edited, Keeps
<1>6. AllKept(s, n) /\ n \in HwStates
  BY <1>1, <1>2, <1>5 DEF AllKept, Edited, WorkKept
<1>7. HwInv(n, {}) /\ CtxInv(n, sch, dy)
  BY <1>1, <1>6, KeptGood, KeptCtx
<1>8. \A b \in Atoms : Signed(s, n, b) /\ (b # a => n.atom[b] = s.atom[b])
  <2>1. ASSUME NEW b \in Atoms PROVE Signed(s, n, b) /\ (b # a => n.atom[b] = s.atom[b])
    <3>1. CASE b = a
      <4>1. Fixed(n.atom[a], s.atom[a]) /\ n.atom[a].dep = s.atom[a].dep
        BY <1>2 DEF Edited
      <4>2. /\ "x_dep_blocked" \in n.atom[a].flags <=> "x_dep_blocked" \in s.atom[a].flags
            /\ "fail_blocker" \in n.atom[a].flags <=> "fail_blocker" \in s.atom[a].flags
        BY <1>2
      <4>. QED
        BY <1>2, <3>1, <4>1, <4>2, Z3T(30) DEF Fixed, Blocked, Signed
    <3>2. CASE b # a
      <4>1. n.atom[b] = s.atom[b]
        BY <1>2, <3>2 DEF Edited
      <4>. QED
        BY <3>2, <4>1, Z3T(30) DEF Blocked, Signed
    <3>. QED
      BY <3>1, <3>2
  <2>. QED
    BY <2>1, Z3T(30)
<1>9. QueueInv(n, nx)
  <2>1. ASSUME NEW b \in Atoms
        PROVE  /\ b < nx <=> n.atom[b].status # "unused"
               /\ \A e \in 1..2 : WaitInv(n, b, e)
               /\ SoftInv(n, b)
    <3>1. b < nx <=> s.atom[b].status # "unused"
      BY <1>1 DEF QueueInv
    <3>2. (\A e \in 1..2 : WaitInv(s, b, e)) /\ SoftInv(s, b)
      BY <1>1 DEF QueueInv
    <3>3. Signed(s, n, b)
      BY <1>8, Zenon
    <3>4. CASE b = a
      BY <3>1, <3>3, <3>4, Zenon DEF NoWaits, Waits, WaitInv, SoftInv, Signed
    <3>5. CASE b # a
      <4>1. n.atom[b] = s.atom[b]
        BY <1>8, <3>5, Zenon
      <4>. QED
        BY <3>1, <3>2, <4>1, Zenon DEF Waits, WaitInv, SoftInv
    <3>. QED
      BY <3>4, <3>5
  <2>. QED
    BY <2>1 DEF QueueInv
<1>10. OrderInv(n)
  <2>1. ASSUME NEW b \in Atoms, NEW d \in 1..2,
               n.atom[b].status \notin {"unused", "completed"}, n.atom[b].pre[d].id \in 1..(b - 1)
        PROVE  InOrder(n, b, d)
    <3>1. Signed(s, n, b)
      BY <1>8
    <3>2. s.atom[b].pre[d].id \in Atoms /\ InOrder(s, b, d)
      BY <1>1, <2>1, <3>1, DepTypes, Zenon DEF OrderInv, Signed
    <3>3. PICK p \in Atoms : p = s.atom[b].pre[d].id
      BY <3>2
    <3>4. Signed(s, n, p)
      BY <1>8
    <3>5. /\ n.atom[b].pre[d].id = p /\ n.atom[b].pre[d].type = s.atom[b].pre[d].type
          /\ n.atom[b].preDep = s.atom[b].preDep /\ n.atom[b].xPre = s.atom[b].xPre
          /\ n.atom[b].kind = s.atom[b].kind /\ n.atom[p].kind = s.atom[p].kind
      BY <3>1, <3>3, <3>4 DEF Signed
    <3>6. (Waits(n, b, d) <=> Waits(s, b, d)) /\ (Ended(n, p) <=> Ended(s, p))
      BY <3>1, <3>4 DEF Signed, Waits, Ended
    <3>7. \/ Waits(s, b, d) \/ Ended(s, p) \/ s.atom[b].preDep = p \/ s.atom[b].xPre = p
          \/ s.atom[b].pre[d].type = "order" /\ s.atom[p].kind = s.atom[b].kind
      BY <3>2, <3>3 DEF InOrder
    <3>8. \/ Waits(n, b, d) \/ Ended(n, p) \/ n.atom[b].preDep = p \/ n.atom[b].xPre = p
          \/ n.atom[b].pre[d].type = "order" /\ n.atom[p].kind = n.atom[b].kind
      BY <3>5, <3>6, <3>7, Zenon
    <3>. QED
      BY <3>5, <3>8, Zenon DEF InOrder
  <2>. QED
    BY <2>1, Zenon DEF OrderInv
<1>11. FailInv(n, dy)
  <2>1. ASSUME NEW b \in Atoms PROVE MarkInv(n, b)
    <3>1. MarkInv(s, b) /\ Signed(s, n, b)
      BY <1>1, <1>8, Zenon DEF FailInv
    <3>. QED
      BY <3>1 DEF MarkInv, Signed
  <2>2. ASSUME NEW b \in Atoms, NEW d \in 1..2, CrossData(n, b, d) PROVE Warned(n, b, d, dy)
    <3>1. Signed(s, n, b)
      BY <1>8
    <3>2. s.atom[b].pre[d].id \in Atoms
      BY <1>1, <2>2, <3>1, DepTypes, Zenon DEF CrossData, Signed
    <3>3. Signed(s, n, s.atom[b].pre[d].id)
      BY <1>8, <3>2
    <3>4. CrossData(s, b, d)
      BY <2>2, <3>1, <3>3, Zenon DEF CrossData, Signed
    <3>5. Warned(s, b, d, dy)
      BY <1>1, <3>4 DEF FailInv
    <3>6. PICK p \in Atoms : p = s.atom[b].pre[d].id
      BY <3>2
    <3>7. Signed(s, n, p)
      BY <1>8
    <3>8. n.atom[b].pre[d].id = p /\ n.atom[b].xPre = s.atom[b].xPre /\ n.atom[p].event = s.atom[p].event
      BY <3>1, <3>6, <3>7 DEF Signed
    <3>9. (Waits(n, b, d) <=> Waits(s, b, d)) /\ (Ended(n, p) <=> Ended(s, p))
      BY <3>1, <3>7 DEF Signed, Waits, Ended
    <3>10. Failed(n, b, dy) <=> Failed(s, b, dy)
      BY <3>1 DEF Signed, Failed
    <3>11. /\ Blocked(n, b) <=> Blocked(s, b)
           /\ "fail_blocker" \in n.atom[b].flags <=> "fail_blocker" \in s.atom[b].flags
      BY <3>1 DEF Signed
    <3>12. \/ Waits(s, b, d) \/ Failed(s, b, dy) \/ (Ended(s, p) /\ s.atom[p].event = "done")
           \/ s.atom[b].xPre = p /\ Blocked(s, b) /\ "fail_blocker" \in s.atom[b].flags
      BY <3>5, <3>6, Zenon DEF Warned
    <3>13. \/ Waits(n, b, d) \/ Failed(n, b, dy) \/ (Ended(n, p) /\ n.atom[p].event = "done")
           \/ n.atom[b].xPre = p /\ Blocked(n, b) /\ "fail_blocker" \in n.atom[b].flags
      BY <3>8, <3>9, <3>10, <3>11, <3>12, Zenon
    <3>. QED
      BY <3>8, <3>13, Zenon DEF Warned
  <2>. QED
    BY <2>1, <2>2 DEF FailInv
<1>12. PassInv(n, j, dy)
  <2>1. ASSUME NEW m \in DOMAIN j.run PROVE Runnable(n, j.run[m], dy)
    <3>1. j.run[m] \in Atoms /\ j.run[m] # a
      BY <1>1, <2>1, PassTypes DEF Has
    <3>2. n.atom[j.run[m]] = s.atom[j.run[m]] /\ Runnable(s, j.run[m], dy)
      BY <1>1, <1>8, <2>1, <3>1 DEF PassInv
    <3>. QED
      BY <3>2, Zenon DEF Runnable, NoWaits, Waits
  <2>2. /\ \A m \in DOMAIN j.done : j.done[m] \in Atoms
        /\ j.cur # NoAtom => j.cur \in Atoms
    BY <1>1, PassTypes
  <2>3. \A b \in Atoms : n.atom[b].status = s.atom[b].status
    BY <1>8 DEF Signed
  <2>. QED
    BY <1>1, <2>1, <2>2, <2>3 DEF PassInv
<1>13. RepInv(n, j, rep, nr, nx)
  <2>1. \A b \in Atoms : s.atom[b].status = "completed" => n.atom[b].status = "completed"
    BY <1>8 DEF Signed
  <2>. QED
    BY <1>1, <2>1, StepRep
<1>. QED
  BY <1>1, <1>2, <1>6, <1>7, <1>9, <1>10, <1>11, <1>12, <1>13 DEF Whole, Disp

\* jd_try_submitting_deps: what waits for an atom the scheduler now has.
Fitting(s, a, d) ==
  {b \in Atoms : /\ s.atom[b].dep[d].id = a /\ IsGpu(s, b)
                 /\ \A e \in 1..2 : IsDepValid(s, s.atom[b].dep[e].id)}

\* jd_try_submitting_deps lists each atom it finds once.
LEMMA TryDepsLists ==
  ASSUME NEW s, NEW run, NEW R, Lists(run, R), NEW a
  PROVE  \E B : /\ B \subseteq Fitting(s, a, 1) \cup Fitting(s, a, 2)
                /\ Lists(TryDeps(s, run, a), R \cup B)
<1>1. PICK rg : rg = Range(run)
  OBVIOUS
<1>2. rg = R
  <2>1. \A b : b \in Range(run) <=> Has(run, b)
    BY DEF Range, Has
  <2>. QED
    BY <1>1, <2>1 DEF Lists
<1>3. PICK A1 : A1 = Fitting(s, a, 1) \ rg
  OBVIOUS
<1>4. PICK A2 : A2 = (Fitting(s, a, 2) \ rg) \ A1
  OBVIOUS
<1>5. TryDeps(s, run, a) = Reverse(ByAge(A2)) \o Reverse(ByAge(A1)) \o run
  BY <1>1, <1>3, <1>4 DEF TryDeps, Fitting
<1>6. A1 \in SUBSET Atoms /\ A2 \in SUBSET Atoms
  BY <1>3, <1>4 DEF Fitting
<1>7. A1 \cap A2 = {} /\ A1 \cap R = {} /\ A2 \cap R = {}
  BY <1>2, <1>3, <1>4
<1>8. PICK p1 : p1 = Reverse(ByAge(A1))
  OBVIOUS
<1>9. PICK p2 : p2 = Reverse(ByAge(A2))
  OBVIOUS
<1>10. Lists(p1, A1) /\ Lists(p2, A2)
  BY <1>6, <1>8, <1>9, ByAgeLists, ReverseLists
<1>11. PICK q : q = p2 \o p1
  OBVIOUS
<1>12. PICK A : A = A2 \cup A1
  OBVIOUS
<1>13. Lists(q, A)
  <2>1. A2 \cap A1 = {}
    BY <1>7
  <2>. QED
    BY <1>10, <1>11, <1>12, <2>1, ConcatLists
<1>14. Lists(q \o run, A \cup R)
  <2>1. A \cap R = {}
    BY <1>7, <1>12
  <2>. QED
    BY <1>13, <2>1, ConcatLists
<1>15. TryDeps(s, run, a) = q \o run
  BY <1>5, <1>8, <1>9, <1>11
<1>16. A \cup R = R \cup A /\ A \subseteq Fitting(s, a, 1) \cup Fitting(s, a, 2)
  BY <1>3, <1>4, <1>12
<1>. QED
  BY <1>14, <1>15, <1>16, Zenon

\* What jd_try_submitting_deps lists may be run.
LEMMA TryDepsWhole ==
  ASSUME NEW s, NEW j, NEW nx, NEW nr, NEW rep, NEW sch,
         Whole(s, j, nx, nr, rep, sch, FALSE), j.cur # NoAtom, NEW a \in Atoms
  PROVE  Whole(s, Leads(j, TryDeps(s, j.run, a)), nx, nr, rep, sch, FALSE)
<1>1. /\ s \in HwStates /\ HwInv(s, {}) /\ CtxInv(s, sch, FALSE) /\ j \in Passes
      /\ QueueInv(s, nx) /\ OrderInv(s) /\ FailInv(s, FALSE) /\ PassInv(s, j, FALSE) /\ RepInv(s, j, rep, nr, nx)
  BY DEF Whole, Disp
<1>2. PICK R : R = {b \in Atoms : Has(j.run, b)}
  OBVIOUS
<1>3. Lists(j.run, R)
  BY <1>1, <1>2, RunLists DEF PassInv
<1>4. PICK q : q = TryDeps(s, j.run, a)
  OBVIOUS
<1>5. PICK B : B \subseteq Fitting(s, a, 1) \cup Fitting(s, a, 2) /\ Lists(q, R \cup B)
  BY <1>3, <1>4, TryDepsLists
<1>6. PICK i : i = Leads(j, q)
  OBVIOUS
<1>7. i \in Passes /\ i.run = q /\ i.done = j.done /\ i.cur = j.cur /\ i.by = j.by
  <2>1. q \in Seq(Atoms) /\ i = [j EXCEPT !.run = q]
    BY <1>5, <1>6 DEF Lists, Leads
  <2>. QED
    BY <1>1, <2>1 DEF Passes
<1>8. ASSUME NEW b \in R PROVE Runnable(s, b, FALSE)
  BY <1>1, <1>2, <1>8 DEF PassInv, Has
<1>9. ASSUME NEW b \in B PROVE Runnable(s, b, FALSE)
  <2>1. PICK d \in 1..2 : b \in Fitting(s, a, d)
    BY <1>5, <1>9
  <2>2. b \in Atoms /\ s.atom[b].dep[d].id = a /\ s.atom[b].kind \in Slots
    BY <2>1 DEF Fitting, IsGpu
  <2>3. Waits(s, b, d)
    BY <2>2, NotAtom DEF Waits
  <2>4. WaitInv(s, b, d)
    BY <1>1, <2>2 DEF QueueInv
  <2>. QED
    BY <2>2, <2>3, <2>4 DEF WaitInv, Runnable
<1>10. PassInv(s, i, FALSE)
  <2>1. ASSUME NEW m \in DOMAIN q PROVE Runnable(s, q[m], FALSE)
    <3>1. q[m] \in R \cup B
      BY <1>5, <2>1 DEF Lists, Has
    <3>. QED
      BY <1>8, <1>9, <3>1
  <2>2. Distinct(q)
    BY <1>5 DEF Lists
  <2>3. i.by # "none"
    BY <1>1, <1>7 DEF PassInv, Idle
  <2>. QED
    BY <1>1, <1>7, <2>1, <2>2, <2>3 DEF PassInv
<1>11. RepInv(s, i, rep, nr, nx)
  BY <1>1, <1>7 DEF RepInv
<1>12. Whole(s, i, nx, nr, rep, sch, FALSE)
  BY <1>1, <1>7, <1>10, <1>11 DEF Whole, Disp
<1>. QED
  BY <1>4, <1>6, <1>12

\* The three ways jd_run_atom and jd_done_nolock write the end of an atom.
LEMMA EndsAre ==
  ASSUME NEW s \in HwStates, NEW a \in Atoms, NoWaits(s, a), NEW e \in Events
  PROVE  /\ EndsAs(s, SetStatus(s, a, "completed"), a, s.atom[a].event)
         /\ EndsAs(s, SetStatus(SetEvent(s, a, e), a, "completed"), a, e)
         /\ EndsAs(s, SetEvent(SetStatus(s, a, "completed"), a, e), a, e)
<1>1. PICK v \in Statuses : v = "completed"
  BY DEF Statuses
<1>2. PICK m : m = SetStatus(s, a, v)
  OBVIOUS
<1>3. /\ Edited(s, m, a) /\ m.atom[a].status = v
      /\ m.atom[a].flags = s.atom[a].flags /\ m.atom[a].event = s.atom[a].event
      /\ m.atom[a].wf = s.atom[a].wf /\ m.atom[a].rbState = s.atom[a].rbState
  BY <1>2, StatusEdit
<1>4. PICK o : o = SetEvent(m, a, e)
  OBVIOUS
<1>5. m \in HwStates
  BY <1>3 DEF Edited
<1>6. /\ Edited(m, o, a) /\ o.atom[a].event = e
      /\ o.atom[a].status = m.atom[a].status /\ o.atom[a].rbState = m.atom[a].rbState
      /\ o.atom[a].wf = m.atom[a].wf /\ o.atom[a].flags = m.atom[a].flags
  BY <1>4, <1>5, EventEdit
<1>7. PICK k : k = SetEvent(s, a, e)
  OBVIOUS
<1>8. /\ Edited(s, k, a) /\ k.atom[a].event = e
      /\ k.atom[a].status = s.atom[a].status /\ k.atom[a].rbState = s.atom[a].rbState
      /\ k.atom[a].wf = s.atom[a].wf /\ k.atom[a].flags = s.atom[a].flags
  BY <1>7, EventEdit
<1>9. PICK l : l = SetStatus(k, a, v)
  OBVIOUS
<1>10. k \in HwStates
  BY <1>8 DEF Edited
<1>11. /\ Edited(k, l, a) /\ l.atom[a].status = v
       /\ l.atom[a].flags = k.atom[a].flags /\ l.atom[a].event = k.atom[a].event
       /\ l.atom[a].wf = k.atom[a].wf /\ l.atom[a].rbState = k.atom[a].rbState
  BY <1>9, <1>10, StatusEdit
<1>12. EndsAs(s, m, a, s.atom[a].event)
  BY <1>1, <1>3 DEF Edited, EndsAs, NoWaits, Waits
<1>13. EndsAs(s, o, a, e)
  BY <1>1, <1>3, <1>6 DEF Edited, EndsAs, NoWaits, Waits, Fixed
<1>14. EndsAs(s, l, a, e)
  BY <1>1, <1>8, <1>11 DEF Edited, EndsAs, NoWaits, Waits, Fixed
<1>. QED
  BY <1>1, <1>2, <1>4, <1>7, <1>9, <1>12, <1>13, <1>14

\* What becomes of an atom the dispatcher runs: it ends, or it is with the
\* scheduler or waits.
Outcome(s, n, a, dy) ==
  \/ n.atom[a].status = "completed" /\ AllKept(s, n) /\ Finishes(s, n, a, dy)
  \/ n.atom[a].status \in {"queued", "in_js"}
WholeAs(s, j, nx, nr, rep, sch, dy, n, a) ==
  Outcome(s, n, a, dy) /\ (n.atom[a].status # "completed" => Whole(n, j, nx, nr, rep, sch, dy))

\* Ending an atom of the runnable list keeps the invariant.
LEMMA RunEnds ==
  ASSUME NEW s, NEW j, NEW nx, NEW nr, NEW rep, NEW sch, NEW dy,
         Whole(s, j, nx, nr, rep, sch, dy), NEW a \in Atoms, s.atom[a].status = "queued",
         "waiting" \notin s.atom[a].flags, NoWaits(s, a), NEW e,
         dy \/ e # "done" \/ ~s.atom[a].wf, NEW n, EndsAs(s, n, a, e)
  PROVE  WholeAs(s, j, nx, nr, rep, sch, dy, n, a)
<1>1. s \in HwStates /\ HwInv(s, {}) /\ FailInv(s, dy)
  BY DEF Whole, Disp
<1>2. AllKept(s, n) /\ Finishes(s, n, a, dy)
  BY <1>1, EndsFinish
<1>3. n.atom[a].status = "completed"
  BY DEF EndsAs
<1>. QED
  BY <1>2, <1>3 DEF WholeAs, Outcome

\* Processing a soft job keeps the invariant.
LEMMA SoftWhole ==
  ASSUME NEW s, NEW j, NEW nx, NEW nr, NEW rep, NEW sch, NEW dy,
         Whole(s, j, nx, nr, rep, sch, dy), NEW a \in Atoms, s.atom[a].status = "queued",
         "waiting" \notin s.atom[a].flags, NoWaits(s, a), ~s.atom[a].wf, s.atom[a].kind = "soft",
         ~Has(j.run, a), NEW n \in SoftOutcomes(s, a)
  PROVE  WholeAs(s, j, nx, nr, rep, sch, dy, n, a)
<1>1. s \in HwStates /\ HwInv(s, {}) /\ FailInv(s, dy)
  BY DEF Whole, Disp
<1>2. \/ \E e \in {"done", "fail"} : n = [s EXCEPT !.atom[a].status = "completed", !.atom[a].event = e]
      \/ n = [s EXCEPT !.atom[a].flags = @ \cup {"waiting"}]
  BY DEF SoftOutcomes
<1>3. ASSUME NEW e \in {"done", "fail"},
             n = [s EXCEPT !.atom[a].status = "completed", !.atom[a].event = e]
      PROVE  WholeAs(s, j, nx, nr, rep, sch, dy, n, a)
  <2>1. n = SetEvent(SetStatus(s, a, "completed"), a, e)
    BY <1>1, <1>3 DEF SetEvent, SetStatus, HwStates
  <2>2. e \in Events
    BY DEF Events
  <2>3. EndsAs(s, n, a, e)
    BY <1>1, <2>1, <2>2, EndsAre
  <2>. QED
    BY <2>3, RunEnds
<1>4. ASSUME n = [s EXCEPT !.atom[a].flags = @ \cup {"waiting"}]
      PROVE  WholeAs(s, j, nx, nr, rep, sch, dy, n, a)
  <2>1. PICK f : f = s.atom[a].flags \cup {"waiting"}
    OBVIOUS
  <2>2. f \in SUBSET Flags
    <3>1. s.atom[a].flags \subseteq Flags
      BY <1>1, AtomIs, AtomTypes
    <3>2. "waiting" \in Flags
      BY DEF Flags
    <3>. QED
      BY <2>1, <3>1, <3>2
  <2>3. n = SetFlags(s, a, f)
    BY <1>1, <1>4, <2>1 DEF SetFlags, HwStates
  <2>4. Whole(n, j, nx, nr, rep, sch, dy) /\ n.atom[a].status = "queued"
    BY <2>1, <2>2, <2>3, WaitingWhole
  <2>. QED
    BY <2>4 DEF WholeAs, Outcome
<1>. QED
  BY <1>2, <1>3, <1>4

\* A GPU job is handed to the scheduler.
LEMMA AddJobRuns ==
  ASSUME NEW s, NEW j, NEW nx, NEW nr, NEW rep, NEW sch \in BOOLEAN,
         Whole(s, j, nx, nr, rep, sch, FALSE), NEW a \in Atoms,
         s.atom[a].status = "queued", "waiting" \notin s.atom[a].flags, s.atom[a].kind \in Slots,
         ~Has(j.run, a), NEW n, n = AddJob(s, a)
  PROVE  WholeAs(s, j, nx, nr, rep, sch, FALSE, n, a)
<1>1. AddsWhole(n, j, nx, nr, rep, sch, a)
  BY AddJobWhole
<1>. QED
  BY <1>1 DEF AddsWhole, WholeAs, Outcome

\* jd_run_atom in a context that lives.
LEMMA RunWhole ==
  ASSUME NEW s, NEW j, NEW nx, NEW nr, NEW rep, NEW sch \in BOOLEAN,
         Whole(s, j, nx, nr, rep, sch, FALSE), NEW a \in Atoms, Runnable(s, a, FALSE),
         ~Has(j.run, a), NEW n \in RunOutcomes(s, a)
  PROVE  WholeAs(s, j, nx, nr, rep, sch, FALSE, n, a)
<1>1. s \in HwStates /\ HwInv(s, {}) /\ FailInv(s, FALSE)
  BY DEF Whole, Disp
<1>2. /\ s.atom[a].status = "queued" /\ "waiting" \notin s.atom[a].flags
      /\ s.atom[a].kind \notin Slots => NoWaits(s, a)
  BY DEF Runnable
<1>3. s.atom[a].wf => s.atom[a].event # "done"
  BY <1>1, <1>2 DEF FailInv, MarkInv
<1>4. s.atom[a].kind \in Slots \cup {"soft", "dep"} /\ "soft" \notin Slots /\ "dep" \notin Slots
  BY <1>1, AtomIs, AtomTypes DEF Slots
<1>5. PICK e \in Events : e = s.atom[a].event
  BY <1>1, AtomIs, AtomTypes
<1>6. ASSUME NoWaits(s, a), n = [s EXCEPT !.atom[a].status = "completed"],
             s.atom[a].kind = "dep" \/ s.atom[a].wf
      PROVE  WholeAs(s, j, nx, nr, rep, sch, FALSE, n, a)
  <2>1. n = SetStatus(s, a, "completed")
    BY <1>6 DEF SetStatus
  <2>2. EndsAs(s, n, a, e)
    BY <1>1, <1>5, <1>6, <2>1, EndsAre
  <2>3. e # "done" \/ ~s.atom[a].wf
    BY <1>3, <1>5
  <2>. QED
    BY <1>2, <1>6, <2>2, <2>3, RunEnds
<1>7. CASE s.atom[a].kind = "dep"
  <2>1. n = [s EXCEPT !.atom[a].status = "completed"]
    BY <1>7 DEF RunOutcomes
  <2>. QED
    BY <1>2, <1>4, <1>6, <1>7, <2>1
<1>8. CASE s.atom[a].kind = "soft"
  <2>1. CASE s.atom[a].wf
    <3>1. n = [s EXCEPT !.atom[a].status = "completed"]
      BY <1>8, <2>1 DEF RunOutcomes
    <3>. QED
      BY <1>2, <1>4, <1>6, <1>8, <2>1, <3>1
  <2>2. CASE ~s.atom[a].wf
    <3>1. n \in SoftOutcomes(s, a)
      BY <1>8, <2>2 DEF RunOutcomes
    <3>. QED
      BY <1>2, <1>4, <1>8, <2>2, <3>1, SoftWhole
  <2>. QED
    BY <2>1, <2>2
<1>9. CASE s.atom[a].kind \in Slots
  <2>1. n = AddJob(s, a)
    BY <1>4, <1>9 DEF RunOutcomes
  <2>2. s.atom[a].status = "queued" /\ "waiting" \notin s.atom[a].flags
    BY <1>2
  <2>. QED
    BY <1>9, <2>1, <2>2, AddJobRuns
<1>. QED
  BY <1>4, <1>7, <1>8, <1>9

-----------------------------------------------------------------------------
(* jd_run_atom, jd_submit_atom, and the theorems.                            *)

\* What jd_run_atom, or the end of a job of a dying context, makes of atom a.
RunsAs(s, j, a, dy) ==
  IF dy THEN {SetStatus(SetEvent(s, a, s.atom[j.cur].event), a, "completed")} ELSE RunOutcomes(s, a)

\* jd_run_atom keeps the invariant.
LEMMA RunsWhole ==
  ASSUME NEW s, NEW j, NEW nx, NEW nr, NEW rep, NEW sch \in BOOLEAN, NEW dy \in BOOLEAN,
         Whole(s, j, nx, nr, rep, sch, dy), NEW a \in Atoms, Runnable(s, a, dy),
         ~Has(j.run, a), j.cur \in Atoms, NEW n \in RunsAs(s, j, a, dy)
  PROVE  WholeAs(s, j, nx, nr, rep, sch, dy, n, a)
<1>1. CASE ~dy
  <2>1. dy = FALSE
    BY <1>1
  <2>2. n \in RunOutcomes(s, a)
    BY <1>1 DEF RunsAs
  <2>3. Whole(s, j, nx, nr, rep, sch, FALSE) /\ Runnable(s, a, FALSE)
    BY <2>1
  <2>4. WholeAs(s, j, nx, nr, rep, sch, FALSE, n, a)
    BY <2>2, <2>3, RunWhole
  <2>. QED
    BY <2>1, <2>4
<1>2. CASE dy
  <2>1. s \in HwStates
    BY DEF Whole
  <2>2. PICK e \in Events : e = s.atom[j.cur].event
    BY <2>1, AtomIs, AtomTypes
  <2>3. n = SetStatus(SetEvent(s, a, e), a, "completed")
    BY <1>2, <2>2 DEF RunsAs
  <2>4. s.atom[a].status = "queued" /\ "waiting" \notin s.atom[a].flags /\ NoWaits(s, a)
    BY <1>2 DEF Runnable
  <2>5. EndsAs(s, n, a, e)
    BY <2>1, <2>3, <2>4, EndsAre
  <2>. QED
    BY <1>2, <2>4, <2>5, RunEnds
<1>. QED
  BY <1>1, <1>2

\* The pass after it ran atom a.
NextPass(n, j, a) ==
  IF n.atom[a].status = "completed" THEN Longer(Rest(j), a)
  ELSE IF n.atom[a].status = "in_js" /\ ~n.atom[a].wf THEN Leads(Rest(j), TryDeps(n, Rest(j).run, a))
  ELSE Rest(j)

\* Running the head of the runnable list leaves a right pass.
LEMMA NextPassWhole ==
  ASSUME NEW s, NEW j, NEW nx, NEW nr, NEW rep, NEW sch \in BOOLEAN, NEW dy \in BOOLEAN,
         Whole(s, j, nx, nr, rep, sch, dy), j.run # <<>>, NEW a, a = Head(j.run),
         NEW n \in RunsAs(s, j, a, dy)
  PROVE  Whole(n, NextPass(n, j, a), nx, nr, rep, sch, dy)
<1>1. PICK i : i = Rest(j)
  OBVIOUS
<1>2. /\ Whole(s, i, nx, nr, rep, sch, dy) /\ i.cur = j.cur
      /\ a \in Atoms /\ Runnable(s, a, dy) /\ ~Has(i.run, a) /\ j.cur \in Atoms
  BY <1>1, RestWhole
<1>3. n \in RunsAs(s, i, a, dy)
  BY <1>2 DEF RunsAs
<1>4. WholeAs(s, i, nx, nr, rep, sch, dy, n, a)
  BY <1>2, <1>3, RunsWhole
<1>5. s.atom[a].status = "queued" /\ i.cur # NoAtom
  BY <1>2, NotAtom DEF Runnable
<1>6. CASE n.atom[a].status = "completed"
  <2>1. AllKept(s, n) /\ Finishes(s, n, a, dy)
    BY <1>4, <1>6 DEF WholeAs, Outcome
  <2>2. Whole(n, Longer(i, a), nx, nr, rep, sch, dy)
    BY <1>2, <1>5, <2>1, EndsWhole
  <2>. QED
    BY <1>1, <1>6, <2>2 DEF NextPass
<1>7. CASE n.atom[a].status # "completed"
  <2>1. Whole(n, i, nx, nr, rep, sch, dy)
    BY <1>4, <1>7 DEF WholeAs
  <2>2. CASE ~(n.atom[a].status = "in_js" /\ ~n.atom[a].wf)
    BY <1>1, <1>7, <2>1, <2>2 DEF NextPass
  <2>3. CASE n.atom[a].status = "in_js" /\ ~n.atom[a].wf
    <3>1. dy = FALSE
      <4>1. s \in HwStates
        BY DEF Whole
      <4>2. ASSUME dy PROVE FALSE
        <5>1. n = SetStatus(SetEvent(s, a, s.atom[i.cur].event), a, "completed")
          BY <1>3, <4>2 DEF RunsAs
        <5>2. n.atom[a].status = "completed"
          BY <1>2, <4>1, <5>1 DEF SetStatus, SetEvent, HwStates
        <5>. QED
          BY <1>7, <5>2
      <4>. QED
        BY <4>2
    <3>2. PICK q : q = TryDeps(n, i.run, a)
      OBVIOUS
    <3>3. Whole(n, i, nx, nr, rep, sch, FALSE)
      BY <2>1, <3>1
    <3>4. Whole(n, Leads(i, TryDeps(n, i.run, a)), nx, nr, rep, sch, FALSE)
      BY <1>2, <1>5, <3>3, TryDepsWhole
    <3>5. NextPass(n, j, a) = Leads(i, TryDeps(n, i.run, a))
      BY <1>1, <1>7, <2>3 DEF NextPass
    <3>. QED
      BY <3>1, <3>4, <3>5
  <2>. QED
    BY <2>2, <2>3
<1>. QED
  BY <1>6, <1>7

\* RunNode writes the same pass.
LEMMA NextPassIs ==
  ASSUME NEW j \in Passes, NEW n, NEW a, NEW i,
         i = [j EXCEPT !.done = IF n.atom[a].status = "completed" THEN Append(j.done, a) ELSE j.done,
                       !.run = IF n.atom[a].status = "in_js" /\ ~n.atom[a].wf
                               THEN TryDeps(n, Tail(j.run), a) ELSE Tail(j.run)]
  PROVE  i = NextPass(n, j, a)
<1>1. PICK q : q = Append(j.done, a)
  OBVIOUS
<1>2. PICK t : t = Tail(j.run)
  OBVIOUS
<1>3. PICK f : f = TryDeps(n, t, a)
  OBVIOUS
<1>4. i = [j EXCEPT !.done = IF n.atom[a].status = "completed" THEN q ELSE j.done,
                    !.run = IF n.atom[a].status = "in_js" /\ ~n.atom[a].wf THEN f ELSE t]
  BY <1>1, <1>2, <1>3
<1>5. PICK k : k = [j EXCEPT !.run = t]
  OBVIOUS
<1>6. k = Rest(j) /\ k.run = t /\ k.done = j.done /\ k.cur = j.cur /\ k.by = j.by
  BY <1>2, <1>5 DEF Rest, Passes
<1>7. CASE n.atom[a].status = "completed"
  <2>1. i = [k EXCEPT !.done = q]
    BY <1>4, <1>5, <1>7 DEF Passes
  <2>2. i = Longer(k, a)
    BY <1>1, <1>6, <2>1 DEF Longer
  <2>. QED
    BY <1>6, <1>7, <2>2 DEF NextPass
<1>8. CASE n.atom[a].status # "completed"
  <2>1. CASE n.atom[a].status = "in_js" /\ ~n.atom[a].wf
    <3>1. i = [k EXCEPT !.run = f]
      BY <1>4, <1>5, <2>1 DEF Passes
    <3>2. i = Leads(k, TryDeps(n, k.run, a))
      BY <1>3, <1>6, <3>1 DEF Leads
    <3>. QED
      BY <1>6, <1>8, <2>1, <3>2 DEF NextPass
  <2>2. CASE ~(n.atom[a].status = "in_js" /\ ~n.atom[a].wf)
    <3>1. i = k
      BY <1>4, <1>5, <1>8, <2>2 DEF Passes
    <3>. QED
      BY <1>6, <1>8, <2>2, <3>1 DEF NextPass
  <2>. QED
    BY <2>1, <2>2
<1>. QED
  BY <1>7, <1>8

\* The second half of the loop body of jd_done_nolock keeps the invariant.
LEMMA RunNodeKeeps ==
  ASSUME Inv, RunNode
  PROVE  Inv'
<1>1. PICK a : a = Head(jd.run)
  OBVIOUS
<1>2. S \in HwStates /\ jd \in Passes /\ Whole(S, jd, next, jobNr, Reports, scheduled, dying)
  BY WholeS, Zenon
<1>3. PICK st \in RunsAs(S, jd, a, dying) :
        /\ Becomes(st)
        /\ jd' = [jd EXCEPT
                   !.done = IF st.atom[a].status = "completed" THEN Append(jd.done, a) ELSE jd.done,
                   !.run = IF st.atom[a].status = "in_js" /\ ~st.atom[a].wf
                           THEN TryDeps(st, Tail(jd.run), a) ELSE Tail(jd.run)]
  <2>1. PICK e : e = atom[jd.cur].event
    OBVIOUS
  <2>2. [S EXCEPT !.atom[a].event = e, !.atom[a].status = "completed"]
          = SetStatus(SetEvent(S, a, e), a, "completed")
    BY <1>2 DEF SetStatus, SetEvent, HwStates
  <2>3. RunsAs(S, jd, a, dying) =
          IF dying THEN {[S EXCEPT !.atom[a].event = e, !.atom[a].status = "completed"]} ELSE RunOutcomes(S, a)
    BY <2>1, <2>2, SIs DEF RunsAs
  <2>. QED
    BY <1>1, <2>1, <2>3, Zenon DEF RunNode
<1>4. jd' = NextPass(st, jd, a)
  BY <1>2, <1>3, NextPassIs, Zenon
<1>5. jd.run # <<>> /\ UNCHANGED <<worker, userVars, ctxVars>>
  BY DEF RunNode
<1>6. scheduled \in BOOLEAN /\ dying \in BOOLEAN
  BY DEF Inv, TypeInv
<1>7. Whole(st, NextPass(st, jd, a), next, jobNr, Reports, scheduled, dying)
  BY <1>1, <1>2, <1>5, <1>6, NextPassWhole
<1>8. st \in HwStates
  BY <1>7 DEF Whole
<1>9. S' = st
  BY <1>3, <1>8, BecomesIs
<1>10. Reports' = Reports /\ TypeInv'
  BY <1>5, ReportsKept, WholeS DEF TypeInv, userVars, ctxVars
<1>. QED
  BY <1>4, <1>5, <1>7, <1>9, <1>10 DEF Inv, userVars, ctxVars

-----------------------------------------------------------------------------
(* jd_submit_atom.                                                          *)

\* How a dependency of a newly submitted atom was settled.
Settles(n, a, d) ==
  LET b == n.atom[a].pre[d].id
  IN  /\ Waits(n, a, d) => n.atom[a].dep[d] = n.atom[a].pre[d] /\ b < a
      /\ b \in 1..(a - 1) /\ ~Waits(n, a, d) =>
           Ended(n, b) /\ (n.atom[a].pre[d].type = "data" /\ n.atom[b].event # "done" => n.atom[a].wf)

\* Atom a has been filled in and linked to what it waits for.
Arrives(s, n, a) ==
  /\ n \in HwStates /\ n.tree = s.tree /\ n.rb = s.rb /\ n.wq = s.wq
  /\ \A b \in Atoms : b # a => n.atom[b] = s.atom[b]
  /\ n.atom[a].status = "queued" /\ n.atom[a].flags = {} /\ n.atom[a].rbState = "none"
  /\ n.atom[a].preDep = NoAtom /\ n.atom[a].postDep = NoAtom
  /\ n.atom[a].xPre = NoAtom /\ n.atom[a].xPost = NoAtom
  /\ n.atom[a].wf => n.atom[a].event # "done"
  /\ \A d \in 1..2 : Settles(n, a, d)

\* A new atom keeps the invariant, whatever it waits for.
LEMMA FreshWhole ==
  ASSUME NEW s, NEW j, NEW nx \in Atoms, NEW nr, NEW rep, NEW sch, NEW dy,
         Whole(s, j, nx, nr, rep, sch, dy), NEW n, Arrives(s, n, nx)
  PROVE  Whole(n, j, nx + 1, nr + 1, rep, sch, dy)
<1>1. /\ s \in HwStates /\ HwInv(s, {}) /\ CtxInv(s, sch, dy) /\ j \in Passes /\ n \in HwStates
      /\ QueueInv(s, nx) /\ OrderInv(s) /\ FailInv(s, dy) /\ PassInv(s, j, dy) /\ RepInv(s, j, rep, nr, nx)
  BY DEF Whole, Disp, Arrives
<1>2. nx \in Nat \ {0} /\ \A b \in Atoms : b \in Nat \ {0}
  BY AtomsFinite
<1>3. s.atom[nx].status = "unused"
  BY <1>1, <1>2 DEF QueueInv
<1>4. Outer(n.atom[nx], s.atom[nx])
  BY <1>3 DEF Arrives, Outer
<1>5. ASSUME NEW b \in Atoms PROVE Keeps(s, n, b)
  BY <1>4, StaysSelf DEF Arrives, Keeps
<1>6. AllKept(s, n)
  BY <1>1, <1>5 DEF AllKept, Arrives, WorkKept
<1>7. HwInv(n, {}) /\ CtxInv(n, sch, dy)
  BY <1>1, <1>6, KeptGood, KeptCtx
<1>8. \A b \in Atoms : b # nx => n.atom[b] = s.atom[b]
  BY DEF Arrives
<1>9. n.atom[nx].status = "queued" /\ n.atom[nx].flags = {} /\ (n.atom[nx].wf => n.atom[nx].event # "done")
      /\ \A d \in 1..2 : Settles(n, nx, d)
  BY DEF Arrives
<1>10. QueueInv(n, nx + 1)
  <2>1. ASSUME NEW b \in Atoms
        PROVE  /\ b < nx + 1 <=> n.atom[b].status # "unused"
               /\ \A d \in 1..2 : WaitInv(n, b, d)
               /\ SoftInv(n, b)
    <3>1. CASE b # nx
      <4>1. b < nx + 1 <=> b < nx
        BY <1>2, <3>1
      <4>2. n.atom[b] = s.atom[b]
        BY <1>8, <3>1
      <4>3. /\ b < nx <=> s.atom[b].status # "unused"
            /\ \A d \in 1..2 : WaitInv(s, b, d)
            /\ SoftInv(s, b)
        BY <1>1 DEF QueueInv
      <4>. QED
        BY <4>1, <4>2, <4>3 DEF WaitInv, Waits, SoftInv
    <3>2. CASE b = nx
      <4>1. b < nx + 1
        BY <1>2, <3>2, Z3T(30)
      <4>2. ASSUME NEW d \in 1..2 PROVE WaitInv(n, nx, d)
        BY <1>9, Zenon DEF Settles, WaitInv
      <4>. QED
        BY <1>9, <3>2, <4>1, <4>2 DEF SoftInv
    <3>. QED
      BY <3>1, <3>2
  <2>. QED
    BY <2>1 DEF QueueInv
<1>11. ASSUME NEW b \in Atoms, b # nx, n.atom[b].status # "unused", NEW d \in 1..2, n.atom[b].pre[d].id \in 1..(b - 1)
       PROVE  n.atom[b].pre[d].id \in Atoms /\ n.atom[b].pre[d].id # nx
  <2>1. b < nx
    BY <1>1, <1>8, <1>11 DEF QueueInv
  <2>. QED
    BY <1>1, <1>2, <1>11, <2>1, DepTypes
<1>12. OrderInv(n)
  <2>1. ASSUME NEW b \in Atoms, NEW d \in 1..2,
               n.atom[b].status \notin {"unused", "completed"}, n.atom[b].pre[d].id \in 1..(b - 1)
        PROVE  InOrder(n, b, d)
    <3>1. CASE b # nx
      <4>1. n.atom[b] = s.atom[b] /\ n.atom[n.atom[b].pre[d].id] = s.atom[n.atom[b].pre[d].id]
        BY <1>8, <1>11, <2>1, <3>1, Zenon
      <4>2. InOrder(s, b, d)
        BY <1>1, <2>1, <4>1, Zenon DEF OrderInv
      <4>. QED
        BY <4>1, <4>2 DEF InOrder, Waits, Ended
    <3>2. CASE b = nx
      <4>1. Settles(n, b, d)
        BY <1>9, <3>2
      <4>. QED
        BY <2>1, <4>1 DEF Settles, InOrder
    <3>. QED
      BY <3>1, <3>2, Zenon
  <2>. QED
    BY <2>1 DEF OrderInv
<1>13. FailInv(n, dy)
  <2>1. ASSUME NEW b \in Atoms PROVE MarkInv(n, b)
    BY <1>1, <1>8, <1>9 DEF FailInv, MarkInv
  <2>2. ASSUME NEW b \in Atoms, NEW d \in 1..2, CrossData(n, b, d) PROVE Warned(n, b, d, dy)
    <3>1. CASE b # nx
      <4>1. n.atom[b] = s.atom[b] /\ n.atom[n.atom[b].pre[d].id] = s.atom[n.atom[b].pre[d].id]
        BY <1>8, <1>11, <2>2, <3>1, Zenon DEF CrossData
      <4>2. CrossData(s, b, d)
        BY <2>2, <4>1 DEF CrossData
      <4>3. Warned(s, b, d, dy)
        BY <1>1, <4>2, Zenon DEF FailInv
      <4>. QED
        BY <4>1, <4>3, Zenon DEF Warned, Waits, Failed, Ended, Blocked
    <3>2. CASE b = nx
      <4>1. Settles(n, b, d) /\ n.atom[b].status = "queued"
        BY <1>9, <3>2
      <4>. QED
        BY <2>2, <4>1 DEF Settles, CrossData, Warned, Failed
    <3>. QED
      BY <3>1, <3>2, Zenon
  <2>. QED
    BY <2>1, <2>2 DEF FailInv
<1>14. PassInv(n, j, dy)
  <2>1. ASSUME NEW m \in DOMAIN j.run PROVE Runnable(n, j.run[m], dy)
    <3>1. j.run[m] \in Atoms /\ Runnable(s, j.run[m], dy)
      BY <1>1, <2>1, PassTypes DEF PassInv
    <3>2. j.run[m] # nx
      BY <1>3, <3>1 DEF Runnable
    <3>3. n.atom[j.run[m]] = s.atom[j.run[m]]
      BY <1>8, <3>1, <3>2
    <3>. QED
      BY <3>1, <3>3, Zenon DEF Runnable, NoWaits, Waits
  <2>2. \A b \in Atoms : s.atom[b].status = "completed" => n.atom[b].status = "completed"
    BY <1>3, <1>8
  <2>3. /\ \A m \in DOMAIN j.done : j.done[m] \in Atoms
        /\ j.cur # NoAtom => j.cur \in Atoms
    BY <1>1, PassTypes
  <2>. QED
    BY <1>1, <2>1, <2>2, <2>3, Zenon DEF PassInv
<1>15. rep[nx] = 0
  BY <1>1, <1>3 DEF RepInv
<1>16. nr + 1 = Cardinality({b \in 1..((nx + 1) - 1) : rep[b] = 0})
  <2>. DEFINE A == {b \in 1..(nx - 1) : rep[b] = 0}
              B == {b \in 1..((nx + 1) - 1) : rep[b] = 0}
  <2>1. nr = Cardinality(A)
    BY <1>1 DEF RepInv
  <2>2. IsFiniteSet(A)
    <3>1. IsFiniteSet(1..(nx - 1))
      BY <1>2, FS_Interval
    <3>. QED
      BY <3>1, FS_Subset
  <2>3. nx \notin A
    BY <1>2
  <2>4. B = A \cup {nx}
    <3>1. \A b \in Int : b \in 1..((nx + 1) - 1) <=> b \in 1..(nx - 1) \/ b = nx
      BY <1>2
    <3>. QED
      BY <1>2, <1>15, <3>1
  <2>. HIDE DEF A
  <2>5. Cardinality(A \cup {nx}) = Cardinality(A) + 1
    BY <2>2, <2>3, FS_AddElement
  <2>. QED
    BY <2>1, <2>4, <2>5
<1>17. RepInv(n, j, rep, nr + 1, nx + 1)
  <2>1. \A b \in Atoms : s.atom[b].status = "completed" => n.atom[b].status = "completed"
    BY <1>3, <1>8
  <2>. QED
    BY <1>1, <1>16, <2>1 DEF RepInv
<1>. QED
  BY <1>1, <1>7, <1>10, <1>12, <1>13, <1>14, <1>17 DEF Whole, Disp

\* Two ways to write the new atom: they agree but for status, event and mark.
Rewrites(s, n, a) ==
  /\ n \in HwStates /\ n.tree = s.tree /\ n.rb = s.rb /\ n.wq = s.wq
  /\ \A b \in Atoms : b # a => n.atom[b] = s.atom[b]
  /\ Fixed(n.atom[a], s.atom[a]) /\ n.atom[a].flags = {} /\ n.atom[a].rbState = "none"

\* A new atom that fails, or has nothing to wait for and to run, ends at once.
LEMMA EndedAtOnce ==
  ASSUME NEW s, NEW j, NEW nx, NEW nr, NEW rep, NEW sch, Whole(s, j, nx, nr, rep, sch, FALSE),
         NEW a \in Atoms, s.atom[a].status = "queued", NEW m, Rewrites(s, m, a),
         m.atom[a].event # "done" \/ (NoWaits(s, a) /\ ~s.atom[a].wf),
         NEW n, n = StartDone(m, a)
  PROVE  Whole(n, Pass("submit", a), nx, nr, rep, sch, FALSE)
<1>1. s \in HwStates /\ HwInv(s, {}) /\ FailInv(s, FALSE) /\ m \in HwStates
  BY DEF Whole, Disp, Rewrites
<1>2. StartsDone(m, n, a)
  BY <1>1, StartDoneIs
<1>3. /\ s.atom[a].preDep = NoAtom /\ s.atom[a].xPre = NoAtom
      /\ s.atom[a].postDep = NoAtom /\ s.atom[a].xPost = NoAtom
  BY <1>1, OutsideIs
<1>4. /\ n \in HwStates /\ n.tree = s.tree /\ n.rb = s.rb /\ n.wq = s.wq
      /\ \A b \in Atoms : b # a => n.atom[b] = s.atom[b]
      /\ Fixed(n.atom[a], s.atom[a]) /\ n.atom[a].status = "completed" /\ NoWaits(n, a)
      /\ n.atom[a].event = m.atom[a].event /\ n.atom[a].flags = {} /\ n.atom[a].rbState = "none"
  BY <1>2 DEF StartsDone, Rewrites, Fixed
<1>5. Outer(n.atom[a], s.atom[a])
  BY <1>3, <1>4 DEF Outer, Fixed
<1>6. ASSUME NEW b \in Atoms PROVE Keeps(s, n, b)
  BY <1>4, <1>5, StaysSelf DEF Keeps
<1>7. AllKept(s, n)
  BY <1>1, <1>4, <1>6, Zenon DEF AllKept, WorkKept
<1>8. ASSUME NEW d \in 1..2, CrossData(s, a, d), NoWaits(s, a), ~s.atom[a].wf
      PROVE  Ended(s, s.atom[a].pre[d].id) /\ s.atom[s.atom[a].pre[d].id].event = "done"
  <2>1. Warned(s, a, d, FALSE)
    BY <1>1, <1>8 DEF FailInv
  <2>2. s.atom[a].pre[d].id # NoAtom
    BY <1>8 DEF CrossData, NoAtom
  <2>3. ~Failed(s, a, FALSE) /\ ~Waits(s, a, d)
    BY <1>8, Zenon DEF Failed, NoWaits
  <2>. QED
    BY <1>3, <2>1, <2>2, <2>3 DEF Warned
<1>9. Finishes(s, n, a, FALSE)
  BY <1>4, <1>8 DEF Finishes, Fixed
<1>. QED
  BY <1>7, <1>9, CompletedWhole

\* The new atom's record.
Newcomer(job, dep, e, w) ==
  [UnusedAtom EXCEPT !.kind = job.kind, !.pre = job.pre, !.status = "queued",
                     !.event = e, !.dep = dep, !.wf = w]
Put(s, a, r) == [s EXCEPT !.atom[a] = r]
IsNewcomer(r, job, dep, e, w) ==
  /\ r \in AtomRecords /\ r.kind = job.kind /\ r.pre = job.pre /\ r.status = "queued" /\ r.event = e
  /\ r.dep = dep /\ r.wf = w /\ r.flags = {} /\ r.rbState = "none"
  /\ r.preDep = NoAtom /\ r.postDep = NoAtom /\ r.xPre = NoAtom /\ r.xPost = NoAtom

\* The record of a new atom.
LEMMA NewcomerIs ==
  ASSUME NEW job \in JobRecords, NEW dep \in [1..2 -> Deps], NEW e \in {"done", "fail"}, NEW w \in BOOLEAN
  PROVE  IsNewcomer(Newcomer(job, dep, e, w), job, dep, e, w)
<1>1. job.kind \in Slots \cup {"soft", "dep"} /\ job.pre \in [1..2 -> Deps]
  BY DEF JobRecords
<1>2. NoAtom \in 0..NumAtoms /\ {} \in SUBSET Flags
  BY JobDepsAssumption DEF NoAtom
<1>3. PICK r : r = Newcomer(job, dep, e, w)
  OBVIOUS
<1>4. PICK o : o = <<None, None>>
  OBVIOUS
<1>5. r = [kind |-> job.kind, pre |-> job.pre, status |-> "queued", event |-> e, wf |-> w, dep |-> dep,
           preDep |-> NoAtom, postDep |-> NoAtom, xPre |-> NoAtom, xPost |-> NoAtom, flags |-> {},
           rbState |-> "none", blocked |-> FALSE]
  BY <1>3, <1>4 DEF Newcomer, UnusedAtom
<1>6. r \in AtomRecords
  BY <1>1, <1>2, <1>5 DEF AtomRecords
<1>. QED
  BY <1>3, <1>5, <1>6 DEF IsNewcomer

\* Writing one atom leaves the others.
LEMMA PutIs ==
  ASSUME NEW s \in HwStates, NEW a \in Atoms, NEW r \in AtomRecords, NEW n, n = Put(s, a, r)
  PROVE  /\ n \in HwStates /\ n.tree = s.tree /\ n.rb = s.rb /\ n.wq = s.wq /\ n.atom[a] = r
         /\ \A b \in Atoms : b # a => n.atom[b] = s.atom[b]
<1>1. s.atom \in [Atoms -> AtomRecords]
  BY HwIs
<1>2. PICK t : t = [s.atom EXCEPT ![a] = r]
  OBVIOUS
<1>3. t \in [Atoms -> AtomRecords] /\ t[a] = r /\ \A b \in Atoms : b # a => t[b] = s.atom[b]
  BY <1>1, <1>2
<1>4. n = [s EXCEPT !.atom = t]
  BY <1>1, <1>2 DEF Put
<1>5. n \in HwStates /\ n.atom = t /\ n.tree = s.tree /\ n.rb = s.rb /\ n.wq = s.wq
  BY <1>3, <1>4 DEF HwStates
<1>. QED
  BY <1>3, <1>5

\* Writing one atom twice is writing it once.
LEMMA PutTwice ==
  ASSUME NEW s \in HwStates, NEW a \in Atoms, NEW q, NEW r
  PROVE  [Put(s, a, q) EXCEPT !.atom[a] = r] = Put(s, a, r)
<1>1. s.atom \in [Atoms -> AtomRecords]
  BY HwIs
<1>2. PICK t : t = [s.atom EXCEPT ![a] = q]
  OBVIOUS
<1>3. PICK n : n = [s EXCEPT !.atom = t]
  OBVIOUS
<1>4. n.atom = t
  BY <1>3 DEF HwStates
<1>5. [t EXCEPT ![a] = r] = [s.atom EXCEPT ![a] = r]
  BY <1>1, <1>2
<1>6. PICK u : u = [s.atom EXCEPT ![a] = r]
  OBVIOUS
<1>7. [n EXCEPT !.atom = u] = [s EXCEPT !.atom = u]
  BY <1>3 DEF HwStates
<1>8. Put(s, a, q) = n
  BY <1>2, <1>3 DEF Put
<1>. QED
  BY <1>4, <1>5, <1>6, <1>7, <1>8 DEF Put

\* What jd_submit_atom makes of the dependencies.
Over(s, job, d) == job.pre[d].id = NoAtom \/ s.atom[job.pre[d].id].status \in {"unused", "completed"}
Failing(s, job) ==
  {d \in 1..2 : /\ job.pre[d].id # NoAtom /\ Over(s, job, d)
                /\ s.atom[job.pre[d].id].event # "done" /\ job.pre[d].type = "data"}
DepsLeft(s, job) == [d \in 1..2 |-> IF Over(s, job, d) THEN None ELSE job.pre[d]]

\* The dependencies a new atom still has to wait for.
LEMMA DepsLeftIs ==
  ASSUME NEW s, NEW job \in JobRecords
  PROVE  /\ DepsLeft(s, job) \in [1..2 -> Deps]
         /\ \A d \in 1..2 : DepsLeft(s, job)[d] = IF Over(s, job, d) THEN None ELSE job.pre[d]
BY NoDeps DEF DepsLeft, JobRecords

\* The new atom is linked to what it waits for; w is its mark.
LEMMA PutArrives ==
  ASSUME NEW s \in HwStates, NEW nx \in Atoms, QueueInv(s, nx), NEW job \in JobRecords,
         NEW e \in {"done", "fail"}, NEW w \in BOOLEAN, w => e # "done", Failing(s, job) # {} => w,
         NEW n, n = Put(s, nx, Newcomer(job, DepsLeft(s, job), e, w))
  PROVE  Arrives(s, n, nx)
<1>1. PICK dep : dep = DepsLeft(s, job)
  OBVIOUS
<1>2. dep \in [1..2 -> Deps] /\ \A d \in 1..2 : dep[d] = IF Over(s, job, d) THEN None ELSE job.pre[d]
  BY <1>1, DepsLeftIs
<1>3. PICK r : r = Newcomer(job, dep, e, w)
  OBVIOUS
<1>4. IsNewcomer(r, job, dep, e, w)
  BY <1>2, <1>3, NewcomerIs
<1>5. n = Put(s, nx, r) /\ r \in AtomRecords
  BY <1>1, <1>3, <1>4 DEF IsNewcomer
<1>6. /\ n \in HwStates /\ n.tree = s.tree /\ n.rb = s.rb /\ n.wq = s.wq /\ n.atom[nx] = r
      /\ \A b \in Atoms : b # nx => n.atom[b] = s.atom[b]
  BY <1>5, PutIs
<1>7. ASSUME NEW d \in 1..2 PROVE Settles(n, nx, d)
  <2>1. n.atom[nx].pre[d] = job.pre[d] /\ n.atom[nx].dep[d] = dep[d] /\ n.atom[nx].wf = w
    BY <1>4, <1>6 DEF IsNewcomer
  <2>2. job.pre[d] \in Deps /\ job.pre[d].id \in Atoms \cup {NoAtom}
    BY DEF JobRecords, Deps
  <2>3. nx \in Nat \ {0} /\ \A b \in Atoms : b \in Nat \ {0}
    BY AtomsFinite
  <2>4. CASE Over(s, job, d)
    <3>1. ~Waits(n, nx, d)
      BY <1>2, <2>1, <2>4, NoDeps DEF Waits
    <3>2. ASSUME job.pre[d].id \in 1..(nx - 1)
          PROVE  /\ Ended(n, job.pre[d].id)
                 /\ job.pre[d].type = "data" /\ n.atom[job.pre[d].id].event # "done" => w
      <4>1. job.pre[d].id # NoAtom /\ job.pre[d].id \in Atoms /\ job.pre[d].id < nx
        BY <2>2, <2>3, <3>2 DEF NoAtom
      <4>2. s.atom[job.pre[d].id].status = "completed" /\ n.atom[job.pre[d].id] = s.atom[job.pre[d].id]
        BY <1>6, <2>3, <2>4, <4>1 DEF Over, QueueInv
      <4>3. job.pre[d].type = "data" /\ s.atom[job.pre[d].id].event # "done" => d \in Failing(s, job)
        BY <2>4, <4>1 DEF Failing
      <4>. QED
        BY <4>2, <4>3 DEF Ended
    <3>. QED
      BY <2>1, <3>1, <3>2 DEF Settles
  <2>5. CASE ~Over(s, job, d)
    <3>1. dep[d] = job.pre[d] /\ job.pre[d].id # NoAtom /\ job.pre[d].id \in Atoms
      BY <1>2, <2>2, <2>5 DEF Over
    <3>2. job.pre[d].id < nx
      BY <2>5, <3>1 DEF Over, QueueInv
    <3>. QED
      BY <2>1, <3>1, <3>2 DEF Settles, Waits
  <2>. QED
    BY <2>4, <2>5
<1>. QED
  BY <1>4, <1>6, <1>7 DEF Arrives, IsNewcomer

\* The state once the new atom is linked.
IsPut(s, n, nx, job, e, w) ==
  /\ n \in HwStates /\ IsNewcomer(n.atom[nx], job, DepsLeft(s, job), e, w)
  /\ (\A d \in 1..2 : Over(s, job, d)) => NoWaits(n, nx)

\* A new atom that fails if a data dependency of it has failed keeps the
\* invariant.
LEMMA PutWhole ==
  ASSUME NEW s, NEW j, NEW nx \in Atoms, NEW nr, NEW rep, NEW sch, Whole(s, j, nx, nr, rep, sch, FALSE),
         NEW job \in JobRecords, NEW e \in {"done", "fail"}, NEW w \in BOOLEAN, w => e # "done",
         Failing(s, job) # {} => w, NEW n, n = Put(s, nx, Newcomer(job, DepsLeft(s, job), e, w))
  PROVE  Whole(n, j, nx + 1, nr + 1, rep, sch, FALSE) /\ IsPut(s, n, nx, job, e, w)
<1>1. s \in HwStates /\ QueueInv(s, nx)
  BY DEF Whole, Disp
<1>2. Arrives(s, n, nx)
  BY <1>1, PutArrives
<1>3. Whole(n, j, nx + 1, nr + 1, rep, sch, FALSE)
  BY <1>2, FreshWhole
<1>4. PICK dep : dep = DepsLeft(s, job)
  OBVIOUS
<1>5. dep \in [1..2 -> Deps] /\ \A d \in 1..2 : dep[d] = IF Over(s, job, d) THEN None ELSE job.pre[d]
  BY <1>4, DepsLeftIs
<1>6. PICK r : r = Newcomer(job, dep, e, w)
  OBVIOUS
<1>7. IsNewcomer(r, job, dep, e, w)
  BY <1>5, <1>6, NewcomerIs
<1>8. n \in HwStates /\ n.atom[nx] = r
  <2>1. n = Put(s, nx, r) /\ r \in AtomRecords
    BY <1>4, <1>6, <1>7 DEF IsNewcomer
  <2>. QED
    BY <1>1, <2>1, PutIs
<1>9. (\A d \in 1..2 : Over(s, job, d)) => NoWaits(n, nx)
  BY <1>5, <1>7, <1>8, NoDeps DEF IsNewcomer, NoWaits, Waits
<1>. QED
  BY <1>3, <1>4, <1>7, <1>8, <1>9 DEF IsPut

\* It fails at once, or is a dependency atom with nothing to wait for.
LEMMA SubmitEnds ==
  ASSUME NEW s, NEW j, NEW nx \in Atoms, NEW nr, NEW rep, NEW sch, Whole(s, j, nx, nr, rep, sch, FALSE),
         NEW job \in JobRecords, NEW e \in {"done", "fail"},
         e = "fail" \/ (Failing(s, job) = {} /\ \A d \in 1..2 : Over(s, job, d)),
         NEW n, n = StartDone(Put(s, nx, Newcomer(job, DepsLeft(s, job), e, FALSE)), nx)
  PROVE  Whole(n, Pass("submit", nx), nx + 1, nr + 1, rep, sch, FALSE)
<1>1. PICK dep : dep = DepsLeft(s, job)
  OBVIOUS
<1>2. dep \in [1..2 -> Deps] /\ s \in HwStates
  BY <1>1, DepsLeftIs DEF Whole
<1>3. PICK w \in BOOLEAN : w <=> e = "fail"
  OBVIOUS
<1>4. PICK r : r = Newcomer(job, dep, e, w)
  OBVIOUS
<1>5. PICK q : q = Newcomer(job, dep, e, FALSE)
  OBVIOUS
<1>6. IsNewcomer(r, job, dep, e, w) /\ IsNewcomer(q, job, dep, e, FALSE)
  BY <1>2, <1>4, <1>5, NewcomerIs
<1>7. PICK k : k = Put(s, nx, r)
  OBVIOUS
<1>8. PICK m : m = Put(s, nx, q)
  OBVIOUS
<1>9. Whole(k, j, nx + 1, nr + 1, rep, sch, FALSE) /\ IsPut(s, k, nx, job, e, w)
  <2>1. (w => e # "done") /\ (Failing(s, job) # {} => w)
    BY <1>3
  <2>2. k = Put(s, nx, Newcomer(job, DepsLeft(s, job), e, w))
    BY <1>1, <1>4, <1>7, Zenon
  <2>. QED
    BY <2>1, <2>2, PutWhole, Zenon
<1>10. /\ k.tree = s.tree /\ k.rb = s.rb /\ k.wq = s.wq /\ k.atom[nx] = r
       /\ \A b \in Atoms : b # nx => k.atom[b] = s.atom[b]
  BY <1>2, <1>6, <1>7, PutIs DEF IsNewcomer
<1>11. /\ m \in HwStates /\ m.tree = s.tree /\ m.rb = s.rb /\ m.wq = s.wq /\ m.atom[nx] = q
       /\ \A b \in Atoms : b # nx => m.atom[b] = s.atom[b]
  BY <1>2, <1>6, <1>8, PutIs, Z3T(30) DEF IsNewcomer
<1>12. Rewrites(k, m, nx)
  BY <1>6, <1>10, <1>11 DEF Rewrites, Fixed, IsNewcomer
<1>13. k.atom[nx].status = "queued" /\ (k.atom[nx].wf <=> e = "fail") /\ m.atom[nx].event = e
  BY <1>3, <1>6, <1>10, <1>11 DEF IsNewcomer
<1>14. m.atom[nx].event # "done" \/ (NoWaits(k, nx) /\ ~k.atom[nx].wf)
  BY <1>9, <1>13 DEF IsPut
<1>15. n = StartDone(m, nx)
  BY <1>1, <1>5, <1>8
<1>. QED
  BY <1>9, <1>12, <1>13, <1>14, <1>15, EndedAtOnce

\* A GPU job goes to the scheduler.
LEMMA AddJobStays ==
  ASSUME NEW s, NEW j, NEW nx, NEW nr, NEW rep, NEW sch \in BOOLEAN,
         Whole(s, j, nx, nr, rep, sch, FALSE), NEW a \in Atoms,
         s.atom[a].status = "queued", "waiting" \notin s.atom[a].flags, s.atom[a].kind \in Slots,
         ~Has(j.run, a), NEW n, n = AddJob(s, a)
  PROVE  Whole(n, j, nx, nr, rep, sch, FALSE)
<1>1. AddsWhole(n, j, nx, nr, rep, sch, a)
  BY AddJobWhole
<1>. QED
  BY <1>1 DEF AddsWhole

\* A new GPU job that goes to the scheduler at once keeps the invariant.
LEMMA SubmitAdds ==
  ASSUME NEW s, NEW j, NEW nx \in Atoms, NEW nr, NEW rep, NEW sch \in BOOLEAN,
         Whole(s, j, nx, nr, rep, sch, FALSE), j.run = <<>>,
         NEW job \in JobRecords, Failing(s, job) = {}, job.kind \in Slots,
         NEW n, n = AddJob(Put(s, nx, Newcomer(job, DepsLeft(s, job), "done", FALSE)), nx)
  PROVE  Whole(n, j, nx + 1, nr + 1, rep, sch, FALSE)
<1>1. PICK m : m = Put(s, nx, Newcomer(job, DepsLeft(s, job), "done", FALSE))
  OBVIOUS
<1>2. Whole(m, j, nx + 1, nr + 1, rep, sch, FALSE) /\ IsPut(s, m, nx, job, "done", FALSE)
  BY <1>1, PutWhole
<1>3. m.atom[nx].status = "queued" /\ "waiting" \notin m.atom[nx].flags /\ m.atom[nx].kind \in Slots
  BY <1>2 DEF IsPut, IsNewcomer
<1>4. ~Has(j.run, nx)
  <2>1. <<>> \in Seq(Atoms)
    OBVIOUS
  <2>2. DOMAIN <<>> = 1..0
    BY <2>1, SeqIs
  <2>. QED
    BY <2>2 DEF Has
<1>5. PICK x : x = nx + 1
  OBVIOUS
<1>6. PICK z : z = nr + 1
  OBVIOUS
<1>7. Whole(m, j, x, z, rep, sch, FALSE) /\ n = AddJob(m, nx)
  BY <1>1, <1>2, <1>5, <1>6
<1>8. Whole(n, j, x, z, rep, sch, FALSE)
  <2>. HIDE <1>5, <1>6
  <2>. QED
    BY <1>3, <1>4, <1>7, AddJobStays
<1>. QED
  BY <1>5, <1>6, <1>8

\* A soft job with nothing to wait for runs at once.
LEMMA SubmitSoft ==
  ASSUME NEW s, NEW j, NEW nx \in Atoms, NEW nr, NEW rep, NEW sch, Whole(s, j, nx, nr, rep, sch, FALSE),
         j.run = <<>>, NEW job \in JobRecords, Failing(s, job) = {}, \A d \in 1..2 : Over(s, job, d),
         job.kind = "soft",
         NEW n \in SoftOutcomes(Put(s, nx, Newcomer(job, DepsLeft(s, job), "done", FALSE)), nx)
  PROVE  /\ n.atom[nx].status = "completed" => Whole(StartDone(n, nx), Pass("submit", nx), nx + 1, nr + 1, rep, sch, FALSE)
         /\ n.atom[nx].status # "completed" => Whole(n, j, nx + 1, nr + 1, rep, sch, FALSE)
<1>1. PICK m : m = Put(s, nx, Newcomer(job, DepsLeft(s, job), "done", FALSE))
  OBVIOUS
<1>2. Whole(m, j, nx + 1, nr + 1, rep, sch, FALSE) /\ IsPut(s, m, nx, job, "done", FALSE)
  BY <1>1, PutWhole
<1>3. /\ m.atom[nx].status = "queued" /\ m.atom[nx].flags = {} /\ m.atom[nx].kind = "soft"
      /\ ~m.atom[nx].wf /\ NoWaits(m, nx) /\ m \in HwStates /\ m.atom[nx].rbState = "none"
  BY <1>2 DEF IsPut, IsNewcomer
<1>4. ~Has(j.run, nx)
  <2>1. <<>> \in Seq(Atoms)
    OBVIOUS
  <2>2. DOMAIN <<>> = 1..0
    BY <2>1, SeqIs
  <2>. QED
    BY <2>2 DEF Has
<1>5. n \in SoftOutcomes(m, nx)
  BY <1>1
<1>6. WholeAs(m, j, nx + 1, nr + 1, rep, sch, FALSE, n, nx)
  BY <1>2, <1>3, <1>4, <1>5, SoftWhole
<1>7. ASSUME n.atom[nx].status = "completed"
      PROVE  Whole(StartDone(n, nx), Pass("submit", nx), nx + 1, nr + 1, rep, sch, FALSE)
  <2>1. AllKept(m, n) /\ Finishes(m, n, nx, FALSE)
    BY <1>6, <1>7 DEF WholeAs, Outcome
  <2>2. Rewrites(m, n, nx)
    <3>1. CASE \E e \in {"done", "fail"} : n = [m EXCEPT !.atom[nx].status = "completed", !.atom[nx].event = e]
      <4>1. PICK e \in {"done", "fail"} : n = [m EXCEPT !.atom[nx].status = "completed", !.atom[nx].event = e]
        BY <3>1
      <4>2. n = SetEvent(SetStatus(m, nx, "completed"), nx, e)
        BY <1>3, <4>1 DEF SetEvent, SetStatus, HwStates
      <4>3. e \in Events
        BY DEF Events
      <4>4. EndsAs(m, n, nx, e)
        BY <1>3, <4>2, <4>3, EndsAre
      <4>. QED
        BY <1>3, <4>4 DEF EndsAs, Rewrites
    <3>2. CASE n = [m EXCEPT !.atom[nx].flags = @ \cup {"waiting"}]
      <4>1. m.atom \in [Atoms -> AtomRecords]
        BY <1>3, HwIs
      <4>2. n.atom[nx].status = m.atom[nx].status
        BY <1>3, <3>2, <4>1 DEF HwStates, AtomRecords
      <4>. QED
        BY <1>3, <1>7, <4>2
    <3>. QED
      BY <1>5, <3>1, <3>2 DEF SoftOutcomes
  <2>. QED
    BY <1>2, <1>3, <2>2, EndedAtOnce
<1>8. n.atom[nx].status # "completed" => Whole(n, j, nx + 1, nr + 1, rep, sch, FALSE)
  BY <1>6 DEF WholeAs
<1>. QED
  BY <1>7, <1>8

\* jd_submit_atom by its outcomes.
Ends(st, a) == Becomes(StartDone(st, a)) /\ jd' = Pass("submit", a)
Remains(st) == Becomes(st) /\ UNCHANGED jd
Linking(s, a, job, e, w) == Put(s, a, Newcomer(job, DepsLeft(s, job), e, w))
AllOver(s, job) == \A d \in 1..2 : Over(s, job, d)
Submits(s, a, job) ==
  \/ Failing(s, job) # {} /\ Ends(Linking(s, a, job, "fail", FALSE), a)
  \/ Failing(s, job) # {} /\ Remains(Linking(s, a, job, "fail", TRUE))
  \/ Failing(s, job) = {} /\ Ends(Linking(s, a, job, "fail", FALSE), a)
  \/ Failing(s, job) = {} /\ job.kind \in Slots /\ Remains(AddJob(Linking(s, a, job, "done", FALSE), a))
  \/ Failing(s, job) = {} /\ Remains(Linking(s, a, job, "done", FALSE))
  \/ Failing(s, job) = {} /\ AllOver(s, job) /\ Ends(Linking(s, a, job, "done", FALSE), a)
  \/ /\ Failing(s, job) = {} /\ AllOver(s, job) /\ job.kind = "soft"
     /\ \E st \in SoftOutcomes(Linking(s, a, job, "done", FALSE), a) :
          IF st.atom[a].status = "completed" THEN Ends(st, a) ELSE Remains(st)

Record(job, dep, e, w) ==
  [kind |-> job.kind, pre |-> job.pre, status |-> "queued", event |-> e, wf |-> w, dep |-> dep,
   preDep |-> NoAtom, postDep |-> NoAtom, xPre |-> NoAtom, xPost |-> NoAtom, flags |-> {},
   rbState |-> "none", blocked |-> FALSE]

\* The record of a new atom, field by field.
LEMMA NewcomerRecord ==
  ASSUME NEW job, NEW dep, NEW e, NEW w
  PROVE  Newcomer(job, dep, e, w) = Record(job, dep, e, w)
<1>1. PICK o : o = <<None, None>>
  OBVIOUS
<1>2. PICK r : r = Newcomer(job, dep, e, w)
  OBVIOUS
<1>3. r = Record(job, dep, e, w)
  BY <1>1, <1>2 DEF Newcomer, UnusedAtom, Record
<1>. QED
  BY <1>2, <1>3

\* Marking a new atom as one that will fail.
LEMMA MarkedRecord ==
  ASSUME NEW job, NEW dep, NEW e, NEW w \in BOOLEAN, NEW v \in BOOLEAN
  PROVE  [Record(job, dep, e, w) EXCEPT !.wf = v] = Record(job, dep, e, v)
<1>1. PICK r : r = [Record(job, dep, e, w) EXCEPT !.wf = v]
  OBVIOUS
<1>2. r = Record(job, dep, e, v)
  BY <1>1 DEF Record
<1>. QED
  BY <1>1, <1>2

\* Giving a new atom a failure code.
LEMMA FailedRecord ==
  ASSUME NEW job, NEW dep, NEW e, NEW w \in BOOLEAN
  PROVE  [Record(job, dep, e, w) EXCEPT !.event = "fail"] = Record(job, dep, "fail", w)
<1>1. PICK r : r = [Record(job, dep, e, w) EXCEPT !.event = "fail"]
  OBVIOUS
<1>2. r = Record(job, dep, "fail", w)
  BY <1>1 DEF Record
<1>. QED
  BY <1>1, <1>2

LinkingOf(m, s, a, job, e) ==
  /\ m = Linking(s, a, job, e, FALSE)
  /\ [m EXCEPT !.atom[a].wf = TRUE] = Linking(s, a, job, e, TRUE)
  /\ [m EXCEPT !.atom[a].event = "fail"] = Linking(s, a, job, "fail", FALSE)

\* The new atom while jd_submit_atom links its dependencies.
LEMMA LinkingIs ==
  ASSUME NEW s \in HwStates, NEW a \in Atoms, NEW job \in JobRecords, NEW e \in {"done", "fail"},
         NEW m, m = [s EXCEPT !.atom[a] =
                      [[UnusedAtom EXCEPT !.kind = job.kind, !.pre = job.pre,
                                          !.status = "queued", !.event = "done"]
                        EXCEPT !.dep = DepsLeft(s, job), !.event = e]]
  PROVE  LinkingOf(m, s, a, job, e)
<1>1. PICK dep : dep = DepsLeft(s, job)
  OBVIOUS
<1>2. PICK o : o = <<None, None>>
  OBVIOUS
<1>3. PICK q : q = [[UnusedAtom EXCEPT !.kind = job.kind, !.pre = job.pre,
                                       !.status = "queued", !.event = "done"]
                     EXCEPT !.dep = dep, !.event = e]
  OBVIOUS
<1>11. q = Record(job, dep, e, FALSE)
  BY <1>2, <1>3 DEF UnusedAtom, Record
<1>12. [Record(job, dep, e, FALSE) EXCEPT !.wf = TRUE] = Record(job, dep, e, TRUE)
  BY MarkedRecord
<1>13. [Record(job, dep, e, FALSE) EXCEPT !.event = "fail"] = Record(job, dep, "fail", FALSE)
  BY FailedRecord
<1>4. q = Newcomer(job, dep, e, FALSE)
  BY <1>11, NewcomerRecord
<1>5. [q EXCEPT !.wf = TRUE] = Newcomer(job, dep, e, TRUE)
  BY <1>11, <1>12, NewcomerRecord
<1>6. [q EXCEPT !.event = "fail"] = Newcomer(job, dep, "fail", FALSE)
  BY <1>11, <1>13, NewcomerRecord
<1>7. s.atom \in [Atoms -> AtomRecords]
  BY HwIs
<1>8. m = Put(s, a, q)
  BY <1>1, <1>3 DEF Put
<1>14. m.atom[a] = q
  <2>1. PICK t : t = [s.atom EXCEPT ![a] = q]
    OBVIOUS
  <2>2. m = [s EXCEPT !.atom = t]
    BY <1>8, <2>1 DEF Put
  <2>3. m.atom = t
    BY <2>2 DEF HwStates
  <2>. QED
    BY <1>7, <2>1, <2>3
<1>9. [m EXCEPT !.atom[a].wf = TRUE] = Put(s, a, [q EXCEPT !.wf = TRUE])
  <2>1. PICK r : r = [q EXCEPT !.wf = TRUE]
    OBVIOUS
  <2>2. [m EXCEPT !.atom[a].wf = TRUE] = [m EXCEPT !.atom[a] = r]
    BY <1>14, <2>1
  <2>3. [Put(s, a, q) EXCEPT !.atom[a] = r] = Put(s, a, r)
    BY PutTwice
  <2>4. [m EXCEPT !.atom[a] = r] = Put(s, a, r)
    BY <1>8, <2>3
  <2>. QED
    BY <2>1, <2>2, <2>4
<1>10. [m EXCEPT !.atom[a].event = "fail"] = Put(s, a, [q EXCEPT !.event = "fail"])
  <2>1. PICK r : r = [q EXCEPT !.event = "fail"]
    OBVIOUS
  <2>2. [m EXCEPT !.atom[a].event = "fail"] = [m EXCEPT !.atom[a] = r]
    BY <1>14, <2>1
  <2>3. [Put(s, a, q) EXCEPT !.atom[a] = r] = Put(s, a, r)
    BY PutTwice
  <2>4. [m EXCEPT !.atom[a] = r] = Put(s, a, r)
    BY <1>8, <2>3
  <2>. QED
    BY <2>1, <2>2, <2>4
<1>. QED
  BY <1>1, <1>4, <1>5, <1>6, <1>8, <1>9, <1>10 DEF Linking, LinkingOf

\* Submit's last part, with its local names as parameters.
SubmitsBy(a, job, failing, queued, linked) ==
  CASE failing # {} /\ ~queued -> Ends(linked, a)
    [] failing # {} /\ queued -> Remains([linked EXCEPT !.atom[a].wf = TRUE])
    [] failing = {} /\ ~job.valid -> Ends([linked EXCEPT !.atom[a].event = "fail"], a)
    [] failing = {} /\ job.valid /\ job.kind \in Slots -> Remains(AddJob(linked, a))
    [] failing = {} /\ job.valid /\ job.kind \notin Slots /\ queued -> Remains(linked)
    [] OTHER -> IF job.kind = "dep" THEN Ends(linked, a)
                ELSE \E st \in SoftOutcomes(linked, a) :
                       IF st.atom[a].status = "completed" THEN Ends(st, a) ELSE Remains(st)

\* jd_submit_atom adds one atom in one of its four ways.
LEMMA SubmitIs ==
  ASSUME S \in HwStates, next \in Atoms, NEW job \in JobRecords, Submit(job)
  PROVE  Submits(S, next, job)
<1>1. PICK m : m = [S EXCEPT !.atom[next] =
                     [[UnusedAtom EXCEPT !.kind = job.kind, !.pre = job.pre,
                                         !.status = "queued", !.event = "done"]
                       EXCEPT !.dep = DepsLeft(S, job),
                              !.event = IF Failing(S, job) = {} THEN "done" ELSE "fail"]]
  OBVIOUS
<1>2. PICK e \in {"done", "fail"} : e = IF Failing(S, job) = {} THEN "done" ELSE "fail"
  OBVIOUS
<1>3. /\ m = Linking(S, next, job, e, FALSE)
      /\ [m EXCEPT !.atom[next].wf = TRUE] = Linking(S, next, job, e, TRUE)
      /\ [m EXCEPT !.atom[next].event = "fail"] = Linking(S, next, job, "fail", FALSE)
  <2>1. m = [S EXCEPT !.atom[next] =
              [[UnusedAtom EXCEPT !.kind = job.kind, !.pre = job.pre,
                                  !.status = "queued", !.event = "done"]
                EXCEPT !.dep = DepsLeft(S, job), !.event = e]]
    BY <1>1, <1>2
  <2>2. PICK v \in {"done", "fail"} : v = e
    OBVIOUS
  <2>3. m = [S EXCEPT !.atom[next] =
              [[UnusedAtom EXCEPT !.kind = job.kind, !.pre = job.pre,
                                  !.status = "queued", !.event = "done"]
                EXCEPT !.dep = DepsLeft(S, job), !.event = v]]
    BY <2>1, <2>2
  <2>4. PICK k : k = m
    BY Zenon
  <2>5. LinkingOf(k, S, next, job, v)
    <3>. HIDE <1>2
    <3>. QED
      BY <2>3, <2>4, LinkingIs, Zenon
  <2>. QED
    BY <2>2, <2>4, <2>5 DEF LinkingOf
<1>4. SubmitsBy(next, job, Failing(S, job), \E d \in 1..2 : ~Over(S, job, d), m)
  <2>1. PICK dep : dep = DepsLeft(S, job)
    OBVIOUS
  <2>2. dep = [d \in 1..2 |-> IF job.pre[d].id = NoAtom \/ atom[job.pre[d].id].status \in {"unused", "completed"}
                              THEN None ELSE job.pre[d]]
    BY <2>1, SIs DEF DepsLeft, Over
  <2>3. PICK failing : failing = Failing(S, job)
    OBVIOUS
  <2>4. failing = {d \in 1..2 :
           /\ job.pre[d].id # NoAtom
           /\ job.pre[d].id = NoAtom \/ atom[job.pre[d].id].status \in {"unused", "completed"}
           /\ atom[job.pre[d].id].event # "done" /\ job.pre[d].type = "data"}
    BY <2>3, SIs DEF Failing, Over
  <2>5. PICK queued \in BOOLEAN :
          queued <=> \E d \in 1..2 : ~(job.pre[d].id = NoAtom \/ atom[job.pre[d].id].status \in {"unused", "completed"})
    OBVIOUS
  <2>6. queued = (\E d \in 1..2 : ~Over(S, job, d))
    BY <2>5, SIs DEF Over
  <2>7. SubmitsBy(next, job, failing, queued, m)
    BY <1>1, <2>1, <2>2, <2>3, <2>4, <2>5, Zenon DEF Submit, SubmitsBy, Ends, Remains
  <2>. QED
    BY <2>3, <2>6, <2>7
<1>5. PICK queued \in BOOLEAN : queued = (\E d \in 1..2 : ~Over(S, job, d))
  OBVIOUS
<1>6. PICK failing : failing = Failing(S, job)
  OBVIOUS
<1>7. SubmitsBy(next, job, failing, queued, m)
  BY <1>4, <1>5, <1>6
<1>8. job.kind \in Slots \cup {"soft", "dep"} /\ (~queued <=> AllOver(S, job))
  BY <1>5 DEF JobRecords, AllOver
<1>9. CASE failing # {}
  BY <1>2, <1>3, <1>5, <1>6, <1>7, <1>9 DEF SubmitsBy, Submits
<1>10. CASE failing = {}
  BY <1>2, <1>3, <1>5, <1>6, <1>7, <1>8, <1>10 DEF SubmitsBy, Submits
<1>. QED
  BY <1>9, <1>10

\* jd_submit_atom keeps the invariant.
LEMMA SubmitKeeps ==
  ASSUME Inv, next \in Atoms, NEW job \in JobRecords, Submit(job)
  PROVE  Inv'
<1>1. PICK a \in Atoms : a = next
  OBVIOUS
<1>2. /\ S \in HwStates /\ Whole(S, jd, next, jobNr, Reports, scheduled, dying)
      /\ scheduled \in BOOLEAN /\ dying \in BOOLEAN /\ TypeInv /\ jd \in Passes
  BY WholeS, Zenon
<1>3. /\ ~dying /\ jd.by = "none" /\ next' = next + 1 /\ jobNr' = jobNr + 1
      /\ UNCHANGED <<worker, completed, posted, ctxVars>>
  BY Zenon DEF Submit, JctxFree
<1>4. jd.run = <<>>
  <2>1. jd = Idle
    BY <1>2, <1>3 DEF Whole, Disp, PassInv
  <2>. QED
    BY <2>1 DEF Idle
<1>5. PICK sch \in BOOLEAN : sch = scheduled
  BY <1>2
<1>6. PICK nr : nr = jobNr
  OBVIOUS
<1>7. PICK rep : rep = Reports
  OBVIOUS
<1>8. PICK j : j = jd
  OBVIOUS
<1>9. PICK s \in HwStates : s = S
  BY <1>2
<1>10. dying = FALSE
  BY <1>2, <1>3
<1>11. Whole(s, j, a, nr, rep, sch, FALSE) /\ j.run = <<>>
  BY <1>1, <1>2, <1>4, <1>5, <1>6, <1>7, <1>8, <1>9, <1>10
<1>12. Submits(s, a, job)
  BY <1>1, <1>2, <1>9, SubmitIs
<1>15. UNCHANGED <<completed, posted>>
  BY <1>3
<1>16. ASSUME NEW n, NEW i, Whole(n, i, a + 1, nr + 1, rep, sch, FALSE), Becomes(n), jd' = i
       PROVE  Inv'
  <2>. HIDE <1>12
  <2>1. n \in HwStates
    BY <1>16 DEF Whole
  <2>2. S' = n
    BY <1>16, <2>1, BecomesIs
  <2>3. Reports' = Reports
    BY <1>15, ReportsKept
  <2>4. Whole(S', jd', next', jobNr', Reports', scheduled', dying')
    BY <1>1, <1>3, <1>5, <1>6, <1>7, <1>10, <1>16, <2>2, <2>3 DEF ctxVars
  <2>5. next' \in 1..(NumAtoms + 1) /\ jobNr' \in Int
    BY <1>1, <1>2, <1>3, JobDepsAssumption DEF TypeInv, Atoms
  <2>6. TypeInv'
    BY <1>2, <1>3, <2>5 DEF TypeInv, ctxVars
  <2>. QED
    BY <2>4, <2>6 DEF Inv
<1>17. ASSUME NEW e \in {"done", "fail"}, e = "fail" \/ (Failing(s, job) = {} /\ AllOver(s, job)),
              Ends(Linking(s, a, job, e, FALSE), a)
       PROVE  Inv'
  <2>1. PICK n : n = StartDone(Put(s, a, Newcomer(job, DepsLeft(s, job), e, FALSE)), a)
    OBVIOUS
  <2>2. Whole(n, Pass("submit", a), a + 1, nr + 1, rep, sch, FALSE)
    BY <1>11, <1>17, <2>1, SubmitEnds DEF AllOver
  <2>3. Becomes(n) /\ jd' = Pass("submit", a)
    BY <1>17, <2>1 DEF Ends, Linking
  <2>. QED
    BY <1>16, <2>2, <2>3
<1>18. ASSUME NEW e \in {"done", "fail"}, NEW w \in BOOLEAN, w => e # "done", Failing(s, job) # {} => w,
              Remains(Linking(s, a, job, e, w))
       PROVE  Inv'
  <2>1. PICK n : n = Put(s, a, Newcomer(job, DepsLeft(s, job), e, w))
    OBVIOUS
  <2>2. Whole(n, j, a + 1, nr + 1, rep, sch, FALSE)
    BY <1>11, <1>18, <2>1, PutWhole
  <2>3. Becomes(n) /\ jd' = j
    BY <1>8, <1>18, <2>1 DEF Remains, Linking
  <2>. QED
    BY <1>16, <2>2, <2>3
<1>19. ASSUME Failing(s, job) = {}, job.kind \in Slots, Remains(AddJob(Linking(s, a, job, "done", FALSE), a))
       PROVE  Inv'
  <2>1. PICK n : n = AddJob(Put(s, a, Newcomer(job, DepsLeft(s, job), "done", FALSE)), a)
    OBVIOUS
  <2>2. Whole(n, j, a + 1, nr + 1, rep, sch, FALSE)
    BY <1>11, <1>19, <2>1, SubmitAdds
  <2>3. Becomes(n) /\ jd' = j
    BY <1>8, <1>19, <2>1 DEF Remains, Linking
  <2>. QED
    BY <1>16, <2>2, <2>3
<1>20. ASSUME Failing(s, job) = {}, AllOver(s, job), job.kind = "soft",
              NEW st \in SoftOutcomes(Linking(s, a, job, "done", FALSE), a),
              IF st.atom[a].status = "completed" THEN Ends(st, a) ELSE Remains(st)
       PROVE  Inv'
  <2>1. st \in SoftOutcomes(Put(s, a, Newcomer(job, DepsLeft(s, job), "done", FALSE)), a)
    BY <1>20 DEF Linking
  <2>2. /\ st.atom[a].status = "completed" => Whole(StartDone(st, a), Pass("submit", a), a + 1, nr + 1, rep, sch, FALSE)
        /\ st.atom[a].status # "completed" => Whole(st, j, a + 1, nr + 1, rep, sch, FALSE)
    BY <1>11, <1>20, <2>1, SubmitSoft DEF AllOver
  <2>3. CASE st.atom[a].status = "completed"
    BY <1>16, <1>20, <2>2, <2>3 DEF Ends
  <2>4. CASE st.atom[a].status # "completed"
    BY <1>8, <1>16, <1>20, <2>2, <2>4 DEF Remains
  <2>. QED
    BY <2>3, <2>4
<1>. QED
  BY <1>12, <1>17, <1>18, <1>19, <1>20 DEF Submits

-----------------------------------------------------------------------------
(* The invariant holds, and what follows from it.                           *)

\* The invariant holds of a new context.
LEMMA InitInv ==
  ASSUME Init
  PROVE  Inv
<1>1. PICK u : u = UnusedAtom
  OBVIOUS
<1>2. PICK o : o = <<None, None>>
  OBVIOUS
<1>3. /\ u = [kind |-> "dep", pre |-> o, status |-> "unused", event |-> "fail",
              wf |-> FALSE, dep |-> o, preDep |-> NoAtom, postDep |-> NoAtom,
              xPre |-> NoAtom, xPost |-> NoAtom, flags |-> {}, rbState |-> "none", blocked |-> FALSE]
      /\ o \in [1..2 -> Deps] /\ \A d \in 1..2 : o[d].id = NoAtom
  BY <1>1, <1>2, NoDeps DEF UnusedAtom
<1>4. u \in AtomRecords
  <2>1. NoAtom \in 0..NumAtoms /\ {} \in SUBSET Flags
    BY JobDepsAssumption DEF NoAtom
  <2>. QED
    BY <1>3, <2>1 DEF AtomRecords
<1>5. /\ u.status = "unused" /\ u.flags = {} /\ u.rbState = "none" /\ u.preDep = NoAtom /\ u.postDep = NoAtom
      /\ u.xPre = NoAtom /\ u.xPost = NoAtom /\ u.dep = o
  BY <1>3
<1>6. PICK m : m = <<>>
  OBVIOUS
<1>7. /\ m \in Seq(Atoms) /\ m \in Seq(Items) /\ DOMAIN m = {} /\ Len(m) = 0
  <2>1. <<>> \in Seq(Atoms) /\ <<>> \in Seq(Items)
    OBVIOUS
  <2>2. DOMAIN <<>> = 1..0 /\ Len(<<>>) = 0
    BY <2>1, SeqIs
  <2>. QED
    BY <1>6, <2>1, <2>2
<1>8. /\ S.atom = [a \in Atoms |-> u] /\ S.tree = {} /\ S.rb = [js \in Slots |-> m] /\ S.wq = m
      /\ S.submit = FALSE /\ S.workCount = 0 /\ jd = Idle /\ next = 1 /\ jobNr = 0
      /\ scheduled = FALSE /\ dying = FALSE /\ completed = m /\ posted = [a \in Atoms |-> 0] /\ zap = "no"
      /\ worker = [pc |-> "idle", id |-> NoAtom]
  BY <1>1, <1>6, SIs DEF Init
<1>9. S \in HwStates
  <2>1. S = [atom |-> S.atom, tree |-> S.tree, rb |-> S.rb, wq |-> S.wq, submit |-> S.submit, workCount |-> S.workCount]
    BY DEF S
  <2>2. S.atom \in [Atoms -> AtomRecords] /\ S.rb \in [Slots -> Seq(Atoms)] /\ S.wq \in Seq(Items)
    BY <1>4, <1>7, <1>8
  <2>3. S.tree \in SUBSET Atoms /\ S.submit \in BOOLEAN /\ S.workCount \in Int
    <3>1. S.tree = {} /\ S.submit = FALSE /\ S.workCount = 0
      BY <1>8
    <3>2. S.tree \in SUBSET Atoms
      BY <3>1
    <3>3. S.submit \in BOOLEAN
      BY <3>1
    <3>4. S.workCount \in Int
      BY <3>1
    <3>. QED
      BY <3>2, <3>3, <3>4
  <2>4. PICK fa, ft, fr, fq, fs, fw : fa = S.atom /\ ft = S.tree /\ fr = S.rb /\ fq = S.wq /\ fs = S.submit /\ fw = S.workCount
    OBVIOUS
  <2>5. S = [atom |-> fa, tree |-> ft, rb |-> fr, wq |-> fq, submit |-> fs, workCount |-> fw]
    BY <2>1, <2>4
  <2>6. /\ fa \in [Atoms -> AtomRecords] /\ ft \in SUBSET Atoms /\ fr \in [Slots -> Seq(Atoms)] /\ fq \in Seq(Items)
        /\ fs \in BOOLEAN /\ fw \in Int
    BY <2>2, <2>3, <2>4
  <2>. QED
    BY <2>5, <2>6 DEF HwStates
<1>10. \A a \in Atoms : S.atom[a] = u
  BY <1>8
<1>11. \A js \in Slots : S.rb[js] = m
  BY <1>8
<1>12. HwInv(S, {})
  <2>1. InTree(S, {}) /\ InLimbo(S, {}) /\ InRing(S) /\ InList(S) /\ Somewhere(S, {})
    BY <1>5, <1>8, <1>10 DEF InTree, InLimbo, InRing, InList, Somewhere, InRb, InX
  <2>2. InWork(S)
    BY <1>7, <1>8 DEF InWork
  <2>3. Ringed(S) /\ Behind(S, {})
    BY <1>7, <1>11 DEF Ringed, Behind
  <2>4. Linked(S) /\ Unseen(S)
    BY <1>5, <1>10 DEF Linked, Unseen, Seen, PreLinked, XLinked, PostLinked, Known, InRb
  <2>5. Rings(S)
    BY <1>5, <1>7, <1>10, <1>11 DEF Rings
  <2>. QED
    BY <2>1, <2>2, <2>3, <2>4, <2>5 DEF HwInv
<1>13. CtxInv(S, scheduled, dying)
  BY <1>5, <1>7, <1>8, <1>10 DEF CtxInv, Gone, Clear, InTurn, InRb, InX, Blocked
<1>14. QueueInv(S, 1)
  <2>1. \A a \in Atoms : ~(a < 1)
    BY AtomsFinite
  <2>. QED
    BY <1>3, <1>5, <1>10, <2>1 DEF QueueInv, WaitInv, Waits, SoftInv
<1>15. OrderInv(S) /\ FailInv(S, dying)
  BY <1>5, <1>10 DEF OrderInv, FailInv, MarkInv, CrossData
<1>16. /\ Idle \in Passes /\ Idle.done = m /\ Idle.run = m /\ Idle.cur = NoAtom /\ Idle.by = "none"
  <2>1. NoAtom \in 0..NumAtoms
    BY JobDepsAssumption DEF NoAtom
  <2>2. Idle = [by |-> "none", done |-> m, run |-> m, cur |-> NoAtom]
    BY <1>6 DEF Idle
  <2>. QED
    BY <1>7, <2>1, <2>2 DEF Passes
<1>17. PassInv(S, Idle, dying)
  BY <1>6, <1>7, <1>16 DEF PassInv, Distinct
<1>18. \A a \in Atoms : Reports[a] = 0
  <2>1. \A a \in Atoms : Count(completed, a) = 0
    BY <1>6, <1>7, <1>8, CountIs
  <2>. QED
    BY <1>8, <2>1, ReportsAre
<1>19. RepInv(S, Idle, Reports, 0, 1)
  <2>1. {a \in 1..(1 - 1) : Reports[a] = 0} = {}
    OBVIOUS
  <2>. QED
    BY <1>7, <1>16, <1>18, <2>1, FS_EmptySet DEF RepInv
<1>20. TypeInv
  <2>1. NoAtom \in 0..NumAtoms /\ 1 \in 1..(NumAtoms + 1)
    BY JobDepsAssumption DEF NoAtom
  <2>2. worker \in Workers
    BY <1>8, <2>1 DEF Workers
  <2>3. posted \in [Atoms -> Nat]
    BY <1>8
  <2>4. completed \in Seq(Atoms)
    BY <1>7, <1>8
  <2>5. next \in 1..(NumAtoms + 1) /\ jobNr \in Int
    BY <1>8, <2>1
  <2>6. scheduled \in BOOLEAN /\ dying \in BOOLEAN /\ zap \in {"no", "release", "lock", "soft", "wait", "done"}
    BY <1>8
  <2>. QED
    BY <2>2, <2>3, <2>4, <2>5, <2>6 DEF TypeInv
<1>. QED
  BY <1>8, <1>9, <1>12, <1>13, <1>14, <1>15, <1>16, <1>17, <1>19, <1>20 DEF Inv, Whole, Disp

\* Every step keeps the invariant where a failed job is never run again.
LEMMA NextInv ==
  ASSUME ~Rerun, Inv, [Next]_vars
  PROVE  Inv'
<1>1. CASE next \in Atoms /\ \E job \in Jobs[next] : Submit(job)
  <2>1. Jobs[next] \subseteq JobRecords
    BY <1>1, JobDepsAssumption
  <2>. QED
    BY <1>1, <2>1, SubmitKeeps
<1>2. CASE \E a \in Atoms, event \in {"done", "fail"} : SoftSignal(a, event)
  BY <1>2, SoftSignalKeeps
<1>3. CASE \E js \in Slots : Pull(js)
  BY <1>3, PullKeeps
<1>4. CASE Hardware
  BY <1>4, HardwareKeeps
<1>5. CASE Dispatcher
  BY <1>5, ResolveKeeps, RunNodeKeeps, FinishCurKeeps DEF Dispatcher
<1>6. CASE Worker
  <2>1. ~RerunWork
    BY DEF RerunWork
  <2>. QED
    BY <1>6, <2>1, DoneWorkKeeps, ReleaseWorkKeeps, CountWorkKeeps, PostWorkKeeps, ReturnWorkKeeps,
       ReturnReleaseKeeps, CancelWorkKeeps DEF Worker
<1>7. CASE SchedIn \/ EvictCtx
  BY <1>7, SchedInKeeps, EvictCtxKeeps
<1>8. CASE Zap
  BY <1>8, ZapStartKeeps, ZapReleaseKeeps, ZapLockKeeps, ZapSoftKeeps, ZapDoneKeeps DEF Zap
<1>9. CASE Terminated \/ UNCHANGED vars
  <2>1. UNCHANGED <<jsVars, jd, userVars, scheduled, dying>> /\ worker' = worker /\ zap' = zap
    BY <1>9 DEF Terminated, vars, jsVars, userVars
  <2>. QED
    BY <2>1, WholeS, QuietKeeps DEF TypeInv
<1>. QED
  BY <1>1, <1>2, <1>3, <1>4, <1>5, <1>6, <1>7, <1>8, <1>9 DEF Next

\* The invariant implies the types.
LEMMA InvTypes ==
  ASSUME Inv
  PROVE  TypeOK
<1>1. /\ S.atom \in [Atoms -> AtomRecords] /\ S.tree \subseteq Atoms /\ S.rb \in [Slots -> Seq(Atoms)]
      /\ S.wq \in Seq(Items) /\ S.submit \in BOOLEAN /\ S.workCount \in Int
  BY WholeS, HwIs
<1>2. \A js \in Slots : Len(S.rb[js]) <= 2
  BY WholeS DEF HwInv, Ringed
<1>. QED
  BY <1>1, <1>2, SIs, WholeS DEF TypeOK, TypeInv, Passes, Workers, Items

\* What a job on the GPU has behind it.
LEMMA RunningIs ==
  ASSUME Inv, NEW a \in Running
  PROVE  /\ a \in Atoms /\ S.atom[a].status = "in_js" /\ ~Blocked(S, a) /\ ~S.atom[a].wf
         /\ S.atom[a].preDep # NoAtom => Ended(S, S.atom[a].preDep)
<1>1. PICK js \in Slots : rb[js] # <<>> /\ a = rb[js][1]
  BY DEF Running
<1>2. a \in Atoms /\ S.atom[a].rbState = "submitted"
  BY SIs DEF Running
<1>3. S \in HwStates /\ InRing(S) /\ Rings(S) /\ Behind(S, {})
  BY WholeS DEF HwInv
<1>4. Fed(S, a)
  BY <1>2, <1>3 DEF InRing, InRb
<1>5. ~S.atom[a].wf
  BY <1>2, <1>3 DEF Rings
<1>6. 1 \in DOMAIN S.rb[js]
  <2>1. S.rb[js] \in Seq(Atoms) /\ S.rb[js] # <<>>
    BY <1>1, <1>3, HwIs, SIs
  <2>. QED
    BY <2>1, TailIs
<1>7. Follower(S, {}, js, 1)
  BY <1>3, <1>6 DEF Behind
<1>8. S.atom[a].preDep # NoAtom => Ended(S, S.atom[a].preDep)
  BY <1>1, <1>7, SIs DEF Follower
<1>. QED
  BY <1>2, <1>4, <1>5, <1>8 DEF Fed

\* The invariant implies the order: a running job has what it follows behind
\* it, and is not marked to fail.
LEMMA InvOrder ==
  ASSUME Inv
  PROVE  OrderRespected /\ MarkedNeverRuns
<1>1. /\ S \in HwStates /\ Linked(S) /\ QueueInv(S, next) /\ OrderInv(S)
  BY WholeS DEF HwInv, Disp
<1>2. ASSUME NEW a \in Running, NEW d \in 1..2, Follows(a, d), ~SlotFifoOnly(a, d)
      PROVE  HasEnded(Before(a, d))
  <2>1. /\ a \in Atoms /\ S.atom[a].status = "in_js" /\ ~Blocked(S, a)
        /\ S.atom[a].preDep # NoAtom => Ended(S, S.atom[a].preDep)
    BY RunningIs
  <2>2. PICK b : b = S.atom[a].pre[d].id
    OBVIOUS
  <2>3. b = Before(a, d) /\ b \in 1..(a - 1) /\ b \in Atoms /\ b # NoAtom
    BY <1>1, <1>2, <2>1, <2>2, DepTypes, SIs, NotAtom DEF Before, Follows
  <2>4. InOrder(S, a, d)
    BY <1>1, <2>1, <2>2, <2>3 DEF OrderInv
  <2>5. ~Waits(S, a, d)
    BY <1>1, <2>1 DEF QueueInv, WaitInv
  <2>6. ~(S.atom[a].pre[d].type = "order" /\ S.atom[b].kind = S.atom[a].kind)
    BY <1>2, <2>3, SIs DEF SlotFifoOnly
  <2>7. S.atom[a].xPre = b => Ended(S, b)
    BY <1>1, <2>1, <2>3 DEF Linked, XLinked
  <2>8. Ended(S, b)
    BY <2>1, <2>2, <2>3, <2>4, <2>5, <2>6, <2>7 DEF InOrder
  <2>. QED
    BY <2>3, <2>8, SIs DEF Ended, HasEnded
<1>3. MarkedNeverRuns
  BY RunningIs, SIs DEF MarkedNeverRuns
<1>. QED
  BY <1>2, <1>3 DEF OrderRespected

\* The invariant implies that a failure crosses to the other slot's jobs.
LEMMA InvFailures ==
  ASSUME Inv
  PROVE  FailureCrossesSlots
<1>1. /\ S \in HwStates /\ HwInv(S, {}) /\ QueueInv(S, next) /\ FailInv(S, dying) /\ CtxInv(S, scheduled, dying)
  BY WholeS DEF Disp
<1>2. ASSUME NEW a \in Atoms, NEW d \in 1..2,
             a \in Running \/ (atom[a].status = "completed" /\ atom[a].event = "done" /\ ~dying),
             Follows(a, d), atom[a].pre[d].type = "data", atom[Before(a, d)].kind # atom[a].kind
      PROVE  atom[Before(a, d)].event = "done"
  <2>1. PICK b : b = S.atom[a].pre[d].id
    OBVIOUS
  <2>2. b = Before(a, d) /\ b \in 1..(a - 1)
    BY <1>2, <2>1, SIs DEF Before, Follows
  <2>3. CASE a \in Running
    <3>1. S.atom[a].status = "in_js" /\ ~Blocked(S, a) /\ ~S.atom[a].wf
      BY <2>3, RunningIs
    <3>2. CrossData(S, a, d)
      BY <1>2, <2>1, <2>2, <3>1, SIs DEF CrossData
    <3>3. Warned(S, a, d, dying) /\ ~Waits(S, a, d)
      BY <1>1, <3>1, <3>2 DEF FailInv, QueueInv, WaitInv
    <3>. QED
      BY <2>1, <2>2, <3>1, <3>3, SIs DEF Warned, Failed
  <2>4. CASE atom[a].status = "completed" /\ atom[a].event = "done" /\ ~dying
    <3>1. S.atom[a].status = "completed" /\ S.atom[a].event = "done"
      BY <2>4, SIs
    <3>2. CrossData(S, a, d)
      BY <1>2, <2>1, <2>2, <3>1, SIs DEF CrossData
    <3>3. Warned(S, a, d, dying) /\ ~Waits(S, a, d)
      BY <1>1, <3>1, <3>2 DEF FailInv, QueueInv, WaitInv
    <3>4. ~Blocked(S, a)
      BY <1>1, <2>4, <3>1 DEF CtxInv, Gone, Clear, HwInv, InList
    <3>. QED
      BY <2>1, <2>2, <2>4, <3>1, <3>3, <3>4, SIs DEF Warned, Failed
  <2>. QED
    BY <1>2, <2>3, <2>4
<1>. QED
  BY <1>2 DEF FailureCrossesSlots

\* The invariant implies that each atom is reported once and counted rightly.
LEMMA InvReports ==
  ASSUME Inv
  PROVE  ReportedOnce
<1>1. RepInv(S, jd, Reports, jobNr, next) /\ next \in 1..(NumAtoms + 1)
  BY WholeS DEF Disp, TypeInv
<1>2. \A a \in Atoms : Reports[a] = Reported(a)
  BY DEF Reports
<1>3. 1..(next - 1) \subseteq Atoms
  BY <1>1, JobDepsAssumption DEF Atoms
<1>4. {a \in 1..(next - 1) : Reports[a] = 0} = {a \in 1..(next - 1) : Reported(a) = 0}
  BY <1>2, <1>3
<1>5. \A a \in Atoms : Reported(a) <= 1
  <2>1. ASSUME NEW a \in Atoms
        PROVE  Reported(a) <= 1
    <3>1. PICK r : r = Reported(a)
      OBVIOUS
    <3>2. r \in {0, 1}
      BY <1>1, <1>2, <2>1, <3>1 DEF RepInv
    <3>. QED
      BY <3>1, <3>2
  <2>. QED
    BY <2>1
<1>6. jobNr = Cardinality({a \in 1..(next - 1) : Reported(a) = 0})
  <2>1. jobNr = Cardinality({a \in 1..(next - 1) : Reports[a] = 0})
    BY <1>1 DEF RepInv
  <2>. QED
    BY <1>4, <2>1
<1>. QED
  BY <1>5, <1>6 DEF ReportedOnce

\* Every atom, at every moment, is where its links, its marks and its status
\* say it is.  This is the inductive invariant of the dispatcher, the queues
\* and the slots, on hardware without the rerun workaround.
THEOREM DispatcherInvariant ==
  ASSUME ~Rerun
  PROVE  Spec => []Inv
<1>1. Init => Inv
  BY InitInv
<1>2. Inv /\ [Next]_vars => Inv'
  BY NextInv
<1>. QED
  BY <1>1, <1>2, PTL DEF Spec

\* Atoms run in the order their dependencies demand, and never after they
\* were marked to fail (jd_done_nolock, kbase_js_dep_resolved_submit), unless
\* a failed atom may be sent back to be rerun.
THEOREM OrderIsKept ==
  ASSUME ~Rerun
  PROVE  Spec => []JobsOrdered
<1>1. Inv => JobsOrdered
  BY InvTypes, InvOrder DEF JobsOrdered
<1>. QED
  BY <1>1, DispatcherInvariant, PTL

\* A failure reaches what depends on it on every slot, and user space learns
\* of each atom once (kbase_js_complete_atom, jd_done_nolock), unless a failed
\* atom may be sent back to be rerun.
THEOREM FailuresAreReported ==
  ASSUME ~Rerun
  PROVE  Spec => []FailuresReported
<1>1. Inv => FailuresReported
  BY InvFailures, InvReports DEF FailuresReported
<1>. QED
  BY <1>1, DispatcherInvariant, PTL
=============================================================================
