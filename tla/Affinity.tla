------------------------------ MODULE Affinity ------------------------------
(***************************************************************************)
(* Which shader cores an atom runs on (backend/gpu/mali_kbase_js_affinity.c *)
(* and the core references of backend/gpu/mali_kbase_jm_rb.c), which cores  *)
(* may be used at all (the core availability policies of mali_kbase_pm_ca.c *)
(* and mali_kbase_pm_ca_devfreq.c, the masks user space writes to           *)
(* core_mask) and how the two meet in mali_kbase_pm_policy.c.               *)
(*                                                                         *)
(* Power has one core and looks at the power-off of the GPU; here there are *)
(* several cores in coherent groups, the GPU stays powered but for whole    *)
(* power cycles, and the L2 is up.  hwaccess_lock is held by every action.  *)
(***************************************************************************)
EXTENDS Integers, Sequences, FiniteSets

CONSTANTS
  Groups,      \* Groups[g]: the cores of coherent group g, 1..2
  Atoms, Slot, \* Slot[a]: the job slot of atom a, 0..2
  Req,         \* Req[a]: a subset of {"tiler", "shader", "coherent"}
  DebugMasks,  \* what user space writes to core_mask: functions 0..2 -> cores
  OppMasks,    \* the core masks of the operating points
  MaxCalls,    \* bound on changes from outside
  FaultyPaths  \* "unset": cores_available may be anything after a transition
               \* under way; "apart": masks are written however they meet;
               \* "policy": the policy goes while it keeps cores disabled

Slots == 0..2
Cores == UNION {Groups[g] : g \in DOMAIN Groups}
Tiler == 100
Units == Cores \cup {Tiler}
None == [state |-> "none", cores |-> {}]

VARIABLES
  issue8987,   \* BASE_HW_ISSUE_8987: slot 2 must not run with slots 0 and 1
  xaffinity,   \* BASE_HW_FEATURE_XAFFINITY: the tiler needs no shader core
  pm,          \* the cores: counts, desired, available, ready, ...
  ca,          \* the core availability policy
  atom,        \* gpu_rb_state, coreref_state, affinity of each atom
  owed,        \* the core reference the worker of an atom still has to drop
  slot_count,  \* slot_affinity_refcount
  rmu_flag,    \* rmu_workaround_flag
  changes      \* calls from outside so far
vars == <<issue8987, xaffinity, pm, ca, atom, owed, slot_count, rmu_flag, changes>>

Zero == [u \in Units |-> 0]
Added(count, units, n) == [u \in Units |-> IF u \in units THEN count[u] + n ELSE count[u]]

Init ==
  /\ issue8987 \in BOOLEAN
  /\ xaffinity \in {x \in BOOLEAN : issue8987 => ~x}
  /\ \E policy \in {"fixed", "devfreq"}, mask \in OppMasks \cup {Cores} :
       /\ policy = "fixed" => mask = Cores
       /\ ca = [policy |-> policy, enabled |-> mask, desired |-> mask,
                used |-> IF policy = "devfreq" THEN mask ELSE {}, in_transition |-> FALSE,
                instr |-> FALSE, debug |-> [js \in Slots |-> Cores]]
       /\ LET ready == IF mask = Cores THEN mask ELSE {}
          IN  pm = [needed |-> Zero, inuse |-> Zero, desired |-> mask, pending |-> {},
                    ready |-> ready, trans |-> mask \ ready, seen |-> <<ready, mask \ ready>>,
                    avail |-> mask, cg1_disabled |-> Groups[Len(Groups)] \cap mask = {},
                    halted |-> FALSE, spins |-> FALSE]
  /\ atom = [a \in Atoms |-> [at |-> "out", ref |-> None, flush |-> {}]]
  /\ owed = [a \in Atoms |-> None]
  /\ slot_count = [js \in Slots |-> [c \in Cores |-> 0]]
  /\ rmu_flag = FALSE
  /\ changes = 0

\* What the operators below change, as one record; cur is the state before.
\* `available' is the answer of kbase_pm_check_transitions_nolock;
\* `fresh' and `go' belong to kbasep_js_job_check_ref_cores: the affinity was
\* chosen in this call, and the loop or its fall-through goes on.
S == [pm |-> pm, ca |-> ca, atom |-> atom, slot_count |-> slot_count, rmu_flag |-> rmu_flag,
      available |-> FALSE, fresh |-> FALSE, go |-> FALSE]
Becomes(s) == /\ pm' = s.pm
              /\ ca' = s.ca
              /\ atom' = s.atom
              /\ slot_count' = s.slot_count
              /\ rmu_flag' = s.rmu_flag
              /\ UNCHANGED <<issue8987, xaffinity>>

-----------------------------------------------------------------------------
(* Core availability *)

\* kbase_pm_ca_get_core_mask
CoreMask(s) ==
  (IF s.ca.policy = "devfreq" /\ ~s.ca.instr THEN s.ca.enabled ELSE Cores)
  \cap UNION {s.ca.debug[js] : js \in Slots}

\* kbase_pm_invoke with ACTION_PWRON: the cores start to come up
Invoke(s, cores) == [s EXCEPT !.pm.trans = @ \cup cores]

\* kbase_pm_transition_core_type behind a powered L2: while cores of the type
\* are in transition `available' is not written.
Transition(s, type) ==
  LET moving == s.pm.trans \cap type
      want == (s.pm.desired \cup {u \in Cores : s.pm.inuse[u] > 0}) \cap type
      up == want \ s.pm.ready
      junk == IF "unset" \in FaultyPaths THEN SUBSET type
              ELSE {{}, (moving \cup s.pm.ready) \cap type}
      rest == s.pm.avail \ type
  IN  IF moving # {} THEN {[s EXCEPT !.pm.avail = rest \cup a] : a \in junk}
      ELSE {[Invoke(s, up) EXCEPT !.pm.avail =
               rest \cup ((s.pm.ready \cup up) \cap s.pm.desired \cap type)]}

\* devfreq_update_core_status, told when the powered cores are not those
\* told last: once the cores to go are off the desired ones are enabled,
UpdateCoreStatus(s) ==
  LET used == (s.pm.ready \cup s.pm.trans) \cap Cores
  IN  IF s.ca.policy # "devfreq" THEN s
      ELSE [s EXCEPT !.ca.used = used,
                     !.ca.in_transition = @ /\ s.ca.enabled # s.ca.desired,
                     !.ca.enabled = IF used \subseteq s.ca.desired THEN s.ca.desired ELSE @]
\* and if that changed any, the cores are updated (Update) before the end.
StatusTold(s, Update(_)) ==
  LET told == UpdateCoreStatus(s)
  IN  IF told.ca.enabled = s.ca.enabled THEN {told}
      ELSE {[t EXCEPT !.ca.in_transition = FALSE] : t \in Update(told)}

\* The end of kbase_pm_check_transitions_nolock: group 0 must not be kept
\* off; whether group 1 is, is noted for choose_affinity.
GroupsOff(s) ==
  LET Off(g) == Groups[g] \cap (s.pm.ready \cup s.pm.trans \cup CoreMask(s)) = {}
  IN  [s EXCEPT !.pm.halted = @ \/ Off(1),
                !.pm.cg1_disabled = IF 2 \in DOMAIN Groups THEN Off(2) ELSE TRUE]

\* kbase_pm_check_transitions_nolock
CheckTransitionsWith(s, Update(_)) ==
  LET moved == UNION {Transition(t, Cores) : t \in Transition(s, {Tiler})}
      Now(t) == <<t.pm.ready \cap Cores, t.pm.trans \cap Cores>>
      Told(t) == IF Now(t) = t.pm.seen THEN {t}
                 ELSE StatusTold([t EXCEPT !.pm.seen = Now(t)], Update)
      Answer(t) == t.pm.desired \subseteq t.pm.avail
  IN  UNION {{[GroupsOff(u) EXCEPT !.available = Answer(t)] : u \in Told(t)} : t \in moved}

Needs(s, u) == s.pm.needed[u] + s.pm.inuse[u] > 0

\* kbase_pm_update_cores_state_nolock with the GPU in use.  `want' is worked
\* out before Check, which may come back here and change what is desired.
UpdateCoresWith(s, Check(_)) ==
  LET want == CoreMask(s) \cup {u \in {Tiler} : Needs(s, u)}
              \cup {u \in {0} : Needs(s, Tiler) /\ ~xaffinity}
      off == s.pm.desired \ want
      waiting == [s EXCEPT !.pm.pending = @ \cup off]
      changed == IF ~(want \subseteq s.pm.desired) \/ s.ca.in_transition
                 THEN Check([waiting EXCEPT !.pm.desired = want]) ELSE {waiting}
  IN  {[t EXCEPT !.pm.pending = @ \ (t.pm.desired \cap want)] : t \in changed}

\* The recursion is one level deep: the inner pass finds the cores enabled.
CheckTransitionsInner(s) == CheckTransitionsWith(s, LAMBDA t : {t})
UpdateCoresInner(s) == UpdateCoresWith(s, CheckTransitionsInner)
CheckTransitions(s) == CheckTransitionsWith(s, UpdateCoresInner)
UpdateCores(s) == UpdateCoresWith(s, CheckTransitions)

\* kbasep_pm_do_poweroff_cores
DropCores(s) ==
  LET t == [s EXCEPT !.pm.desired = @ \ s.pm.pending, !.pm.pending = {}]
  IN  IF t.pm.desired # s.pm.desired \/ s.ca.in_transition THEN CheckTransitions(t) ELSE {t}

-----------------------------------------------------------------------------
(* Core references *)

\* A count that leaves or reaches zero has the cores looked at again.
Recounted(s, t) ==
  IF \E u \in Units : (s.pm.needed[u] > 0) # (t.pm.needed[u] > 0)
                      \/ (s.pm.inuse[u] > 0) # (t.pm.inuse[u] > 0)
  THEN UpdateCores(t) ELSE {t}
Unrequested(s, units) == [s EXCEPT !.pm.needed = Added(@, units, -1)]
ReleasedCores(s, units) == [s EXCEPT !.pm.inuse = Added(@, units, -1)]
RequestCores(s, units) == Recounted(s, [s EXCEPT !.pm.needed = Added(@, units, 1)])
UnrequestCores(s, units) == Recounted(s, Unrequested(s, units))

UsesTiler(a) == {u \in {Tiler} : "tiler" \in Req[a]}

\* Mutant of Ready: cores are taken to be up as soon as they are desired.
Ready_Desired(s, a, cores) == IF cores \subseteq s.pm.desired THEN "ready" ELSE "new_affinity"

\* kbase_pm_register_inuse_cores, the power policy installed
Ready(s, a, cores) ==
  IF ~(cores \subseteq s.pm.desired) THEN "new_affinity"
  ELSE IF ~(cores \cup UsesTiler(a) \subseteq s.pm.avail) THEN "not_ready" ELSE "ready"
Register(s, units) ==
  [s EXCEPT !.pm.needed = Added(@, units, -1), !.pm.inuse = Added(@, units, 1)]

\* kbase_js_choose_affinity: the cores, and whether there are any
Choose(s, a) ==
  LET js == Slot[a]
      group == IF js = 0 \/ DOMAIN Groups = {1} THEN 1 ELSE js
      alone == {c \in {0} : ~xaffinity}
      cores == CoreMask(s) \cap s.ca.debug[js]
               \cap (IF "coherent" \in Req[a] THEN Groups[group] ELSE Cores)
  IN  IF CoreMask(s) = {} THEN [ok |-> FALSE, cores |-> {}, fails |-> FALSE]
      ELSE IF Req[a] = {"tiler"} THEN [ok |-> TRUE, cores |-> alone, fails |-> FALSE]
      ELSE IF cores = {}
           THEN [ok |-> FALSE, cores |-> {},
                 fails |-> "coherent" \in Req[a] /\ group = 2 /\ s.pm.cg1_disabled]
           ELSE [ok |-> TRUE, fails |-> FALSE,
                 cores |-> IF "tiler" \in Req[a] THEN cores \cup alone ELSE cores]

\* kbasep_js_job_check_deref_cores_nokatom
Deref(s, a, ref) ==
  LET units == ref.cores \cup UsesTiler(a)
  IN  Recounted(s, CASE ref.state \in {"ready", "recheck"} -> ReleasedCores(s, units)
                     [] ref.state = "waiting" -> Unrequested(s, units)
                     [] OTHER -> s)

\* kbasep_js_job_check_deref_cores
DerefAtom(s, a) == {[t EXCEPT !.atom[a].ref = None] : t \in Deref(s, a, s.atom[a].ref)}

Goes(states) == {[t EXCEPT !.go = TRUE] : t \in states}
SetRef(s, a, state, cores) == [s EXCEPT !.atom[a].ref = [state |-> state, cores |-> cores]]
SlotCores(s, js) == {c \in Cores : s.slot_count[js][c] > 0}

\* Mutant of WouldViolate: only the cores of slot 1 are looked at.
WouldViolate_OneSide(s, js, cores) == js = 2 /\ SlotCores(s, 1) \cap cores # {}

\* kbase_js_affinity_would_violate: slots 1 and 2 on a core in common
WouldViolate(s, js, cores) ==
  LET Used(k) == IF k = js THEN SlotCores(s, k) \cup cores ELSE SlotCores(s, k)
  IN  Used(1) \cap Used(2) # {}

\* The last state: the cores are there, do they get in the way of a slot?
Checked(s, a) ==
  LET cores == s.atom[a].ref.cores
  IN  SetRef(s, a, IF WouldViolate(s, Slot[a], cores) THEN "recheck" ELSE "ready", cores)

\* New cores are registered while the old ones are still held.
Moved(s, a, cores) ==
  LET answer == Ready(s, a, cores)
      held == IF answer = "ready" THEN Register(s, cores \cup UsesTiler(a)) ELSE s
      After(t) ==
        CASE answer = "ready" -> Goes({[SetRef(t, a, "recheck", cores) EXCEPT !.fresh = TRUE]})
          [] answer = "not_ready" -> {SetRef(t, a, "waiting", cores)}
          [] OTHER -> Goes(DerefAtom(SetRef(t, a, "waiting", cores), a))
  IN  UNION {After(t) : t \in Deref(held, a, s.atom[a].ref)}

\* No cores can be chosen: if that is for good, the atom fails.
NoCores(s, a) == [s EXCEPT !.atom[a].at = IF Choose(s, a).fails THEN "failing" ELSE @]

\* KBASE_ATOM_COREREF_STATE_NO_CORES_REQUESTED
FromNone(s, a) ==
  LET cores == Choose(s, a).cores
  IN  IF ~Choose(s, a).ok THEN {NoCores(s, a)}
      ELSE Goes({[SetRef(t, a, "waiting", cores) EXCEPT !.fresh = TRUE] :
                 t \in RequestCores(s, cores \cup UsesTiler(a))})

\* ..._WAITING_FOR_REQUESTED_CORES
FromWaiting(s, a) ==
  LET cores == s.atom[a].ref.cores
  IN  CASE Ready(s, a, cores) = "new_affinity" -> Goes(DerefAtom(s, a))
        [] Ready(s, a, cores) = "not_ready" -> {s}
        [] OTHER -> Goes({SetRef(Register(s, cores \cup UsesTiler(a)), a, "recheck", cores)})

\* ..._RECHECK_AFFINITY: the affinity is chosen again unless it is fresh.
FromRecheck(s, a) ==
  LET cores == Choose(s, a).cores
  IN  CASE s.fresh \/ (Choose(s, a).ok /\ cores = s.atom[a].ref.cores) -> {Checked(s, a)}
        [] ~s.fresh /\ ~Choose(s, a).ok -> {NoCores(t, a) : t \in DerefAtom(s, a)}
        [] OTHER -> UNION {Moved(t, a, cores) : t \in RequestCores(s, cores \cup UsesTiler(a))}

\* kbasep_js_job_check_ref_cores, state by state.  A retry has given
\* everything back: if four in a row do, the loop has no end.
CheckRef(s, a) ==
  LET Step(t) == CASE t.atom[a].ref.state = "none" -> FromNone(t, a)
                   [] t.atom[a].ref.state = "waiting" -> FromWaiting(t, a)
                   [] OTHER -> FromRecheck(t, a)
      step[n \in 0..10] ==
        IF n = 0 THEN Goes({s})
        ELSE UNION {IF t.go THEN Step([t EXCEPT !.go = FALSE]) ELSE {t} : t \in step[n - 1]}
  IN  {[t EXCEPT !.pm.spins = t.go, !.go = FALSE, !.fresh = FALSE] : t \in step[10]}

-----------------------------------------------------------------------------
(* Slots *)

Busy(s, js) == \E a \in Atoms : Slot[a] = js /\ s.atom[a].at \in {"affinity", "hw"}
Submitted(s, js) == \E a \in Atoms : Slot[a] = js /\ s.atom[a].at = "hw"
Others(js) == IF js = 2 THEN {0, 1} ELSE {2}

\* Mutant of RmuWorkaround: what is submitted on the other slots is not looked at.
RmuWorkaround_TurnOnly(s, js) ==
  IF ~issue8987 \/ \A k \in Others(js) : ~Busy(s, k) THEN {s}
  ELSE IF s.rmu_flag # (js = 2) THEN {[s EXCEPT !.rmu_flag = ~@]} ELSE {}

\* kbase_gpu_rmu_workaround: slot 2 and the others take turns
RmuWorkaround(s, js) ==
  IF ~issue8987 \/ \A k \in Others(js) : ~Busy(s, k) THEN {s}
  ELSE IF s.rmu_flag # (js = 2) /\ \A k \in Others(js) : ~Submitted(s, k)
       THEN {[s EXCEPT !.rmu_flag = ~@]} ELSE {}

\* kbase_js_affinity_retain_slot_cores and kbase_js_affinity_release_slot_cores
CountSlot(s, a, n) ==
  [s EXCEPT !.slot_count[Slot[a]] =
     [c \in Cores |-> IF c \in s.atom[a].ref.cores THEN @[c] + n ELSE @[c]]]

\* An atom that waits for its affinity goes on the hardware if it may.
Submit(s, a) ==
  IF RmuWorkaround(s, Slot[a]) = {} THEN {s}
  ELSE {[t EXCEPT !.atom[a].at = "hw"] : t \in RmuWorkaround(s, Slot[a])}

\* The part of kbase_backend_slot_update about one atom
Advance(s, a) ==
  CASE s.atom[a].at = "failing" -> {[s EXCEPT !.atom[a].at = "worker"]}
    [] s.atom[a].at = "affinity" -> Submit(s, a)
    [] s.atom[a].at = "wait" ->
         UNION {IF t.atom[a].ref.state # "ready" THEN {t}
                ELSE Submit(CountSlot([t EXCEPT !.atom[a].at = "affinity"], a, 1), a) :
                t \in CheckRef(s, a)}
    [] OTHER -> {s}

\* kbase_backend_slot_update: atoms are numbered in the order of their slots.
SlotUpdate(states) ==
  LET upTo[n \in 0..Cardinality(Atoms)] ==
        IF n = 0 THEN states ELSE UNION {Advance(t, n) : t \in upTo[n - 1]}
  IN  upTo[Cardinality(Atoms)]

BecomesOneOf(states) == \E s \in states : Becomes(s)

\* An atom is pulled: two in a slot, in order.
Pull(a) ==
  /\ atom[a].at = "out"
  /\ Cardinality({b \in Atoms : Slot[b] = Slot[a] /\ atom[b].at \notin {"out", "worker"}}) < 2
  /\ \A b \in Atoms : Slot[b] = Slot[a] /\ b > a => atom[b].at \in {"out", "worker"}
  /\ BecomesOneOf(SlotUpdate({[S EXCEPT !.atom[a].at = "wait"]}))
  /\ UNCHANGED <<owed, changes>>

\* Mutant of Released: the cores of the slot are kept.
Released_Kept(s, a) == s

\* kbase_gpu_release_atom
Released(s, a) == IF s.atom[a].at \in {"affinity", "hw"} THEN CountSlot(s, a, -1) ELSE s

\* kbase_gpu_complete_hw.  A job that failed keeps its cores for a cache flush.
Complete(a) ==
  /\ atom[a].at = "hw"
  /\ \E flush \in {{}, atom[a].ref.cores} :
       LET done == [Released(S, a) EXCEPT !.atom[a].at = "worker", !.atom[a].flush = flush]
       IN  BecomesOneOf(SlotUpdate(RequestCores(done, flush)))
  /\ UNCHANGED <<owed, changes>>

\* kbase_gpu_remove_atom, on the way to a stop: the atom goes back when the
\* slots are looked at next.
Remove(a) ==
  /\ atom[a].at \in {"wait", "affinity"}
  /\ Becomes([Released(S, a) EXCEPT !.atom[a].at = "failing"])
  /\ UNCHANGED <<owed, changes>>

\* kbase_backend_complete_wq: the flush; the atom may be pulled again before
\* the copy of its reference is dropped.
WorkerStart(a) ==
  /\ atom[a].at = "worker"
  /\ owed[a] = None
  /\ owed' = [owed EXCEPT ![a] = atom[a].ref]
  /\ BecomesOneOf(UnrequestCores([S EXCEPT !.atom[a] = [at |-> "out", ref |-> None, flush |-> {}]],
                                 atom[a].flush))
  /\ UNCHANGED changes

\* kbase_backend_complete_wq_post_sched
WorkerEnd(a) ==
  /\ owed[a] # None
  /\ owed' = [owed EXCEPT ![a] = None]
  /\ BecomesOneOf(Deref(S, a, owed[a]))
  /\ UNCHANGED changes

\* A core or the tiler is up: kbase_pm_power_changed, then the slots if the
\* cores are available.
CorePowered(u) ==
  /\ u \in pm.trans
  /\ LET up == [S EXCEPT !.pm.trans = @ \ {u}, !.pm.ready = @ \cup {u}]
     IN  BecomesOneOf(UNION {IF t.available THEN SlotUpdate({t}) ELSE {t} :
                             t \in CheckTransitions(up)})
  /\ UNCHANGED <<owed, changes>>

\* kbasep_pm_do_gpu_poweroff_callback, the ticks of the cores used up
PoweroffTick ==
  /\ pm.pending # {}
  /\ BecomesOneOf(DropCores(S))
  /\ UNCHANGED <<owed, changes>>

-----------------------------------------------------------------------------
(* From outside *)

Called == changes < MaxCalls /\ changes' = changes + 1 /\ UNCHANGED owed
\* Whether masks that hold may leave group 0 without a core
Meets(s) == "apart" \in FaultyPaths \/
  \A enabled \in {s.ca.enabled, s.ca.desired, Cores}, js \in Slots :
    enabled \cap s.ca.debug[js] \cap Groups[1] # {}

\* kbase_devfreq_set_core_mask, up to the update: cores no longer wanted are
\* disabled; new ones are enabled only once the others are off.
Narrowed(c, mask) ==
  LET wait == ~(c.used \subseteq mask)
  IN  [c EXCEPT !.desired = mask, !.enabled = IF wait THEN @ \cap mask ELSE mask,
                !.in_transition = wait]

\* kbase_devfreq_set_core_mask, with the devfreq policy installed
SetOpp(mask) ==
  /\ Called /\ ca.policy = "devfreq"
  /\ LET s == [S EXCEPT !.ca = Narrowed(@, mask)] IN Meets(s) /\ BecomesOneOf(UpdateCores(s))

\* set_core_mask: every mask must have a core of group 0; then
\* kbase_pm_set_debug_core_mask
SetDebugMask(masks) ==
  /\ Called /\ ca.debug # masks
  /\ \A js \in Slots : masks[js] \subseteq Cores /\ masks[js] \cap Groups[1] # {}
  /\ LET s == [S EXCEPT !.ca.debug = masks] IN Meets(s) /\ BecomesOneOf(UpdateCores(s))

\* devfreq_init, at the operating point with all cores
DevfreqInit(s) ==
  [s EXCEPT !.ca.enabled = Cores, !.ca.desired = Cores, !.ca.used = {}, !.ca.in_transition = FALSE]

\* kbase_pm_ca_set_policy: the old policy is removed; the other is installed
\* with the lock dropped in between.
RemovePolicy ==
  /\ Called /\ ca.policy # "none"
  /\ ca.policy = "devfreq" /\ "policy" \notin FaultyPaths => ca.enabled = Cores
  /\ Becomes([S EXCEPT !.ca.policy = "none"])

InstallPolicy(policy) ==
  /\ ca.policy = "none"
  /\ LET init == [S EXCEPT !.ca.policy = policy]
     IN  BecomesOneOf(UNION {StatusTold(t, UpdateCores) :
                             t \in UpdateCores(IF policy = "devfreq" THEN DevfreqInit(init) ELSE init)})
  /\ UNCHANGED <<owed, changes>>

\* kbase_pm_ca_instr_enable, kbase_pm_ca_instr_disable
Instrument ==
  /\ Called
  /\ BecomesOneOf(UpdateCores([S EXCEPT !.ca.instr = ~@]))

\* Mutant of ResetAtom: an atom that stays keeps its reference.
ResetAtom_KeepsCores(s, a) ==
  IF s.atom[a].at = "hw" THEN {[Released(s, a) EXCEPT !.atom[a].at = "worker"]}
  ELSE IF s.atom[a].at \in {"wait", "affinity", "failing"}
       THEN {[Released(s, a) EXCEPT !.atom[a].at = "wait", !.atom[a].ref = None]} ELSE {s}

\* kbase_backend_reset, one atom: those on the hardware are done, the others
\* stay in their slot and start again.
ResetAtom(s, a) ==
  IF s.atom[a].at = "hw" THEN {[Released(s, a) EXCEPT !.atom[a].at = "worker"]}
  ELSE IF s.atom[a].at \in {"wait", "affinity", "failing"}
       THEN {[t EXCEPT !.atom[a].at = "wait"] : t \in DerefAtom(Released(s, a), a)} ELSE {s}

Unpowered(s) == [s EXCEPT !.pm.ready = {}, !.pm.trans = {}, !.pm.avail = {}]

\* A GPU reset: the atoms, the cores, then both are looked at again.
Reset ==
  /\ Called
  /\ LET upTo[n \in 0..Cardinality(Atoms)] ==
           IF n = 0 THEN {Unpowered(S)} ELSE UNION {ResetAtom(t, n) : t \in upTo[n - 1]}
         on == UNION {UpdateCores(t) : t \in upTo[Cardinality(Atoms)]}
     IN  BecomesOneOf(SlotUpdate(UNION {CheckTransitions(t) : t \in on}))

\* The GPU goes off, nothing being asked of it, and comes back.
PowerCycle ==
  /\ Called
  /\ \A u \in Units : ~Needs(S, u)
  /\ \A a \in Atoms : atom[a].at = "out"
  /\ BecomesOneOf(UpdateCores([Unpowered(S) EXCEPT !.pm.desired = {}, !.pm.pending = {}]))

Outside ==
  \/ \E mask \in OppMasks : SetOpp(mask)
  \/ \E masks \in DebugMasks : SetDebugMask(masks)
  \/ RemovePolicy
  \/ \E policy \in {"fixed", "devfreq"} : InstallPolicy(policy)
  \/ Instrument \/ Reset \/ PowerCycle
Next ==
  \/ \E a \in Atoms : Pull(a) \/ Complete(a) \/ Remove(a) \/ WorkerStart(a) \/ WorkerEnd(a)
  \/ \E u \in Units : CorePowered(u)
  \/ PoweroffTick
  \/ Outside

Spec == Init /\ [][Next]_vars

-----------------------------------------------------------------------------
(* Properties *)

References(a) == {<<a, "atom">>, <<a, "owed">>}
RefOf(r) == IF r[2] = "atom" THEN atom[r[1]].ref ELSE owed[r[1]]
Holders(states, u) ==
  {r \in UNION {References(a) : a \in Atoms} :
     RefOf(r).state \in states /\ u \in RefOf(r).cores \cup UsesTiler(r[1])}

\* Every count is that of the references it stands for: the cores asked for,
\* the cores in use (a worker's copy included) and the cores of each slot.
\* (kbase_pm_request_cores and its three fellows, mali_kbase_js_affinity.c)
CountsExact ==
  /\ \A u \in Units :
       /\ pm.needed[u] = Cardinality(Holders({"waiting"}, u))
                         + Cardinality({a \in Atoms : u \in atom[a].flush})
       /\ pm.inuse[u] = Cardinality(Holders({"recheck", "ready"}, u))
  /\ \A js \in Slots, c \in Cores :
       slot_count[js][c] = Cardinality({a \in Atoms : Slot[a] = js /\ c \in atom[a].ref.cores
                                         /\ atom[a].at \in {"affinity", "hw"}})

\* Jobs of slots 1 and 2 never share a core, and with issue 8987 a job of
\* slot 2 is never on the hardware with one of the others.
\* (kbase_js_affinity_would_violate, kbase_gpu_rmu_workaround)
SlotsApart ==
  \A a, b \in Atoms : Slot[a] = 2 /\ Slot[b] # 2 /\ atom[b].at = "hw" =>
    /\ atom[a].at = "hw" => ~issue8987
    /\ atom[a].at \in {"affinity", "hw"} /\ Slot[b] = 1 => atom[a].ref.cores \cap atom[b].ref.cores = {}

\* A job on the hardware has cores, inside the mask of its slot when it was
\* chosen, that are up or coming up.  (kbase_js_choose_affinity,
\* kbase_pm_register_inuse_cores)
RunsWherePowered ==
  \A a \in Atoms : atom[a].at \in {"affinity", "hw"} =>
    /\ atom[a].ref.state = "ready"
    /\ atom[a].ref.cores # {} \/ Req[a] = {"tiler"}
    /\ atom[a].ref.cores \cup UsesTiler(a) \subseteq pm.ready \cup pm.trans

\* The loop of kbasep_js_job_check_ref_cores ends, and core group 0 is never
\* kept off (the BUG() of kbase_pm_check_transitions_nolock).
NeverStuck == ~pm.spins /\ ~pm.halted
=============================================================================
