----------------------------- MODULE PowerProofs -----------------------------
(***************************************************************************)
(* Proofs about Power, for any atoms, contexts and numbers of ticks: with  *)
(* an immediate power-off under all disturbances, with a deferred one when *)
(* no atom is returned and the policy stays.                               *)
(***************************************************************************)
EXTENDS Power, WellFoundedInduction, TLAPS

Places == {"idle", "slot", "hw", "done", "return"}
Corerefs == {"none", "waiting", "ready"}
Works == [job : Jobs, held : Corerefs,
          step : {"idle", "idling", "release", "check", "update", "drop"}]
HwStates ==
  [refs : SUBSET Holders, gpuPowered : BOOLEAN, offPending : BOOLEAN, waitOff : BOOLEAN,
   onRequired : BOOLEAN, gpuTicksLeft : 0..GpuTicks, timerNeeded : BOOLEAN,
   timerRunning : BOOLEAN, policy : Policies \cup {"none"}, desired : SUBSET Types,
   avail : SUBSET Types, dropping : SUBSET Types, dropTicks : 0..ShaderTicks,
   ready : SUBSET (Types \cup {"l2"}), trans : SUBSET (Types \cup {"l2"}),
   at : [Jobs -> Places], coreref : [Jobs -> Corerefs], worker : [Ctxs -> Works],
   spins : BOOLEAN]

\* The state the lock holder leaves is the next one.
LEMMA BecomesIs ==
  ASSUME NEW s \in HwStates, Becomes(s)
  PROVE  S' = s
BY DEF HwStates, Becomes, S

-----------------------------------------------------------------------------
(* The cores.                                                               *)

\* What looking at the cores leaves alone.
Frame(s, t) ==
  /\ t.refs = s.refs /\ t.gpuPowered = s.gpuPowered /\ t.offPending = s.offPending
  /\ t.waitOff = s.waitOff /\ t.onRequired = s.onRequired
  /\ t.gpuTicksLeft = s.gpuTicksLeft /\ t.timerRunning = s.timerRunning
  /\ t.policy = s.policy /\ t.ready = s.ready /\ t.worker = s.worker
CoreFrame(s, t) ==
  Frame(s, t) /\ t.at = s.at /\ t.coreref = s.coreref /\ t.spins = s.spins

\* Available cores of a GPU that is on are on, or powering on.
Backed(s) ==
  /\ s \in HwStates
  /\ s.gpuPowered => s.avail \subseteq s.ready \cup s.trans

\* While cores are to be dropped their ticks are counted.
CoresInv(s) ==
  /\ Backed(s)
  /\ s.dropping # {} <=> s.dropTicks > 0

\* The shader core stays desired until the GPU goes off.
ShaderKept(s) == s.waitOff \/ ("shader" \in s.desired /\ "shader" \notin s.dropping)

\* An atom, or the worker of one, holds or waits for cores.
Holding(s) == \/ \E j \in Jobs : s.coreref[j] # "none"
              \/ \E c \in Ctxs : s.worker[c].held # "none"

\* The types of the parts of a state.
LEMMA Fields ==
  ASSUME NEW s \in HwStates
  PROVE  /\ s.refs \subseteq Holders /\ s.gpuPowered \in BOOLEAN /\ s.offPending \in BOOLEAN
         /\ s.waitOff \in BOOLEAN /\ s.onRequired \in BOOLEAN /\ s.gpuTicksLeft \in 0..GpuTicks
         /\ s.timerNeeded \in BOOLEAN /\ s.timerRunning \in BOOLEAN
         /\ s.policy \in Policies \cup {"none"} /\ s.desired \subseteq Types
         /\ s.avail \subseteq Types /\ s.dropping \subseteq Types
         /\ s.dropTicks \in 0..ShaderTicks
         /\ s.ready \subseteq Types \cup {"l2"} /\ s.trans \subseteq Types \cup {"l2"}
         /\ s.at \in [Jobs -> Places] /\ s.coreref \in [Jobs -> Corerefs]
         /\ s.worker \in [Ctxs -> Works] /\ s.spins \in BOOLEAN
BY DEF HwStates

\* Cores are needed or in use only if somebody holds them, and whoever holds
\* any holds the shader core.
LEMMA HeldIs ==
  ASSUME NEW s \in HwStates
  PROVE  /\ Needed(s) \subseteq Types /\ InUse(s) \subseteq Types
         /\ Needed(s) \cup InUse(s) # {} => Holding(s)
         /\ Holding(s) => "shader" \in Needed(s) \cup InUse(s)
         /\ \A j \in Jobs : s.coreref[j] = "waiting" => "shader" \in Needed(s)
<1>1. \A j \in Jobs : Needs[j] \subseteq Types /\ "shader" \in Needs[j]
  BY PowerAssumption
<1>2. ASSUME NEW state \in {"waiting", "ready"}
      PROVE  /\ Held(s, state) \subseteq Types
             /\ Held(s, state) # {} => Holding(s)
             /\ \A j \in Jobs : s.coreref[j] = state => "shader" \in Held(s, state)
             /\ \A c \in Ctxs : s.worker[c].held = state => "shader" \in Held(s, state)
  <2>1. \A c \in Ctxs : s.worker[c].job \in Jobs
    BY Fields DEF Works
  <2>2. \A x \in Held(s, state) :
          \/ \E j \in Jobs : s.coreref[j] = state /\ x \in Needs[j]
          \/ \E c \in Ctxs : s.worker[c].held = state /\ x \in Needs[s.worker[c].job]
    BY DEF Held
  <2>3. ASSUME NEW j \in Jobs, s.coreref[j] = state PROVE "shader" \in Held(s, state)
    BY <1>1, <2>3 DEF Held
  <2>4. ASSUME NEW c \in Ctxs, s.worker[c].held = state PROVE "shader" \in Held(s, state)
    BY <1>1, <2>1, <2>4 DEF Held
  <2>. QED
    BY <1>1, <2>1, <2>2, <2>3, <2>4 DEF Holding
<1>3. \A j \in Jobs : s.coreref[j] \in Corerefs
  BY Fields
<1>4. \A c \in Ctxs : s.worker[c].held \in Corerefs
  BY Fields DEF Works
<1>. QED
  BY <1>2, <1>3, <1>4 DEF Needed, InUse, Holding, Corerefs

\* A pass over the cores powers some up and says which are available.
LEMMA TransitionIs ==
  ASSUME NEW s, Backed(s), NEW t \in CheckTransitions(s)
  PROVE  /\ Backed(t) /\ CoreFrame(s, t) /\ s.trans \subseteq t.trans
         /\ t.desired = s.desired /\ t.dropping = s.dropping
         /\ t.dropTicks = s.dropTicks /\ t.timerNeeded = s.timerNeeded
<1>. USE DEF Backed
<1>. DEFINE Changes(tr, av) ==
       /\ t = [s EXCEPT !.trans = tr, !.avail = av]
       /\ s.trans \subseteq tr /\ tr \subseteq Types \cup {"l2"} /\ av \subseteq Types
       /\ s.gpuPowered => av \subseteq s.ready \cup tr
<1>1. PICK tr, av : Changes(tr, av)
  <2>0. s.trans \subseteq Types \cup {"l2"} /\ s.avail \subseteq Types /\ s.desired \subseteq Types
    BY Fields
  <2>1. CASE t = s
    <3>1. s = [s EXCEPT !.trans = s.trans, !.avail = s.avail]
      BY DEF HwStates
    <3>2. Changes(s.trans, s.avail)
      BY <2>0, <2>1, <3>1
    <3>. QED
      BY <3>2
  <2>2. CASE t = [s EXCEPT !.avail = @ \ {"tiler"}]
    <3>1. t = [s EXCEPT !.trans = s.trans, !.avail = s.avail \ {"tiler"}]
      BY <2>2 DEF HwStates
    <3>2. Changes(s.trans, s.avail \ {"tiler"})
      BY <2>0, <3>1
    <3>. QED
      BY <3>2
  <2>3. CASE t = [s EXCEPT !.trans = @ \cup {"l2"}]
    <3>1. t = [s EXCEPT !.trans = s.trans \cup {"l2"}, !.avail = s.avail]
      BY <2>3 DEF HwStates
    <3>2. Changes(s.trans \cup {"l2"}, s.avail)
      BY <2>0, <3>1
    <3>. QED
      BY <3>2
  <2>4. CASE t \in TransitionCores(s)
    <3>. DEFINE up == (s.desired \cup (InUse(s) \cap {"shader"})) \ (s.ready \cup s.trans)
                settled == (s.desired \cap (s.ready \cup up)) \ s.trans
    <3>1. PICK junk \in SUBSET (s.trans \cap Types) :
            t = [s EXCEPT !.trans = @ \cup up, !.avail = settled \cup junk]
      BY <2>4 DEF TransitionCores
    <3>2. up \subseteq Types
      BY <2>0 DEF Types
    <3>3. t = [s EXCEPT !.trans = s.trans \cup up, !.avail = settled \cup junk]
      BY <3>1
    <3>4. Changes(s.trans \cup up, settled \cup junk)
      <4>1. settled \subseteq Types /\ settled \subseteq s.ready \cup up
        BY <2>0
      <4>. HIDE DEF up, settled
      <4>. QED
        BY <2>0, <3>2, <3>3, <4>1
    <3>. QED
      BY <3>4
  <2>. HIDE DEF Changes
  <2>. QED
    BY <2>1, <2>2, <2>3, <2>4 DEF CheckTransitions
<1>2. t \in HwStates
  BY <1>1 DEF HwStates
<1>3. t.trans = tr /\ t.avail = av /\ CoreFrame(s, t)
      /\ t.desired = s.desired /\ t.dropping = s.dropping
      /\ t.dropTicks = s.dropTicks /\ t.timerNeeded = s.timerNeeded
  BY <1>1 DEF HwStates, CoreFrame, Frame
<1>. QED
  BY <1>1, <1>2, <1>3 DEF CoreFrame, Frame

\* Cores that were to be dropped are dropped.
LEMMA DropIs ==
  ASSUME NEW s, Backed(s), NEW t \in DropCores(s)
  PROVE  /\ Backed(t) /\ CoreFrame(s, t) /\ s.trans \subseteq t.trans
         /\ t.desired = s.desired \ s.dropping /\ t.dropping = {}
         /\ t.dropTicks = s.dropTicks /\ t.timerNeeded = s.timerNeeded
<1>. DEFINE u == [s EXCEPT !.desired = @ \ s.dropping, !.dropping = {}]
<1>1. u \in HwStates
  BY DEF Backed, HwStates
<1>2. /\ CoreFrame(s, u) /\ u.trans = s.trans /\ u.avail = s.avail
      /\ u.desired = s.desired \ s.dropping /\ u.dropping = {}
      /\ u.dropTicks = s.dropTicks /\ u.timerNeeded = s.timerNeeded
  BY DEF Backed, HwStates, CoreFrame, Frame
<1>3. Backed(u)
  BY <1>1, <1>2 DEF Backed, CoreFrame, Frame
<1>4. t = u \/ t \in CheckTransitions(u)
  BY DEF DropCores
<1>. HIDE DEF u
<1>5. CASE t = u
  BY <1>2, <1>3, <1>5
<1>6. CASE t \in CheckTransitions(u)
  BY <1>2, <1>3, <1>6, TransitionIs DEF CoreFrame, Frame
<1>. QED
  BY <1>4, <1>5, <1>6

\* What an update of the cores keeps.
Updated(s, t) ==
  /\ CoresInv(t) /\ CoreFrame(s, t) /\ s.trans \subseteq t.trans
  /\ t.timerNeeded = s.timerNeeded \/ (s.refs = {} /\ Holding(s))
  /\ s.refs # {} /\ ShaderKept(s) => ShaderKept(t)

\* An update keeps the shader core while there is a reference, and unless
\* there is no policy it makes it desired.
LEMMA UpdateIs ==
  ASSUME NEW s, CoresInv(s), NEW r \in UpdateCores(s)
  PROVE  /\ Updated(s, r)
         /\ s.refs # {} /\ s.policy # "none" => ShaderKept(r)
<1>0. s \in HwStates /\ Backed(s)
  BY DEF CoresInv, Backed
<1>. DEFINE want == Wanted(s)
            on  == want \ s.desired
            off == s.desired \ want
            later == [s EXCEPT !.dropping = @ \cup off,
                               !.dropTicks = IF off # {} /\ ShaderTicks > 0 THEN ShaderTicks ELSE @]
            quiet == [s EXCEPT !.timerNeeded = @ /\ ~(s.refs = {} /\ Types \subseteq want)]
            changed == IF on # {} THEN CheckTransitions([later EXCEPT !.desired = want])
                       ELSE IF off # {} THEN (IF ShaderTicks > 0 THEN {later} ELSE DropCores(later))
                       ELSE {quiet}
            Keep(t) == LET left == t.dropping \ (t.desired \cap want)
                       IN  [t EXCEPT !.dropping = left,
                                     !.dropTicks = IF t.dropping # {} /\ left = {} THEN 0 ELSE @]
<1>1. /\ want \subseteq Types
      /\ "tiler" \in want => Holding(s)
      /\ s.refs # {} => "shader" \in want
  BY <1>0, HeldIs DEF Wanted, Types
<1>2. ShaderTicks \in Nat /\ s.dropTicks \in 0..ShaderTicks /\ s.desired \subseteq Types
      /\ s.dropping \subseteq Types /\ s.timerNeeded \in BOOLEAN
  BY <1>0, Fields, PowerAssumption
<1>3. /\ later \in HwStates /\ CoreFrame(s, later) /\ later.trans = s.trans /\ later.avail = s.avail
      /\ later.desired = s.desired /\ later.dropping = s.dropping \cup off
      /\ later.dropTicks = IF off # {} /\ ShaderTicks > 0 THEN ShaderTicks ELSE s.dropTicks
      /\ later.timerNeeded = s.timerNeeded
  <2>. HIDE DEF want
  <2>. DEFINE drops == s.dropping \cup off
              ticks == IF off # {} /\ ShaderTicks > 0 THEN ShaderTicks ELSE s.dropTicks
  <2>1. drops \subseteq Types /\ ticks \in 0..ShaderTicks
    BY <1>2
  <2>2. later = [s EXCEPT !.dropping = drops, !.dropTicks = ticks]
    OBVIOUS
  <2>. HIDE DEF off, drops, ticks, later
  <2>3. later \in HwStates
    BY <1>0, <2>1, <2>2 DEF HwStates
  <2>4. /\ CoreFrame(s, later) /\ later.trans = s.trans /\ later.avail = s.avail
        /\ later.desired = s.desired /\ later.timerNeeded = s.timerNeeded
        /\ later.dropping = drops /\ later.dropTicks = ticks
    BY <1>0, <2>2 DEF HwStates, CoreFrame, Frame
  <2>. QED
    BY <2>3, <2>4 DEF drops, ticks
<1>4. ASSUME NEW t, Backed(t)
      PROVE  /\ Backed(Keep(t)) /\ CoreFrame(t, Keep(t))
             /\ Keep(t).trans = t.trans /\ Keep(t).desired = t.desired
             /\ Keep(t).timerNeeded = t.timerNeeded
             /\ Keep(t).dropping = t.dropping \ (t.desired \cap want)
             /\ Keep(t).dropTicks = IF t.dropping # {} /\ Keep(t).dropping = {} THEN 0 ELSE t.dropTicks
  <2>. HIDE DEF want
  <2>. DEFINE left == t.dropping \ (t.desired \cap want)
              ticks == IF t.dropping # {} /\ left = {} THEN 0 ELSE t.dropTicks
  <2>1. left \subseteq Types /\ ticks \in 0..ShaderTicks /\ t \in HwStates
    BY <1>2, <1>4, Fields DEF Backed
  <2>2. Keep(t) = [t EXCEPT !.dropping = left, !.dropTicks = ticks]
    OBVIOUS
  <2>. HIDE DEF left, ticks, Keep
  <2>3. Keep(t) \in HwStates
    BY <2>1, <2>2 DEF HwStates
  <2>4. /\ CoreFrame(t, Keep(t)) /\ Keep(t).trans = t.trans /\ Keep(t).avail = t.avail
        /\ Keep(t).desired = t.desired /\ Keep(t).timerNeeded = t.timerNeeded
        /\ Keep(t).dropping = left /\ Keep(t).dropTicks = ticks
    BY <2>1, <2>2 DEF HwStates, CoreFrame, Frame
  <2>. QED
    BY <1>4, <2>3, <2>4 DEF Backed, CoreFrame, Frame, left, ticks
<1>5. CASE s.policy = "none" \/ s.waitOff
  <2>1. r = s
    BY <1>5 DEF UpdateCores
  <2>. QED
    BY <1>5, <2>1 DEF Updated, CoreFrame, Frame, ShaderKept
<1>6. CASE ~(s.policy = "none" \/ s.waitOff)
  <2>. DEFINE swaps == on # {} /\ off # {} /\ ShaderTicks = 0
  <2>1. \/ ~swaps /\ \E t \in changed : r = Keep(t)
        \/ swaps /\ \E t \in changed : r \in DropCores(Keep(t))
    BY <1>6 DEF UpdateCores
  <2>2. PICK t \in changed :
          \/ ~swaps /\ r = Keep(t)
          \/ swaps /\ r \in DropCores(Keep(t))
    BY <2>1
  <2>3. /\ Backed(t) /\ CoreFrame(s, t) /\ s.trans \subseteq t.trans
        /\ t.timerNeeded = s.timerNeeded \/ (s.refs = {} /\ Holding(s))
        /\ on # {} => t.desired = want /\ t.dropping = s.dropping \cup off
        /\ on # {} \/ ShaderTicks > 0 => t.dropTicks = later.dropTicks
        /\ on = {} /\ off # {} /\ ShaderTicks > 0 => t.desired = s.desired /\ t.dropping = s.dropping \cup off
        /\ on = {} /\ off # {} /\ ShaderTicks = 0
             => t.desired = s.desired \ (s.dropping \cup off) /\ t.dropping = {} /\ t.dropTicks = s.dropTicks
        /\ on = {} /\ off = {} => t.desired = s.desired /\ t.dropping = s.dropping /\ t.dropTicks = s.dropTicks
    <3>1. Backed(later)
      BY <1>0, <1>3 DEF Backed, CoreFrame, Frame
    <3>. HIDE DEF want, on, off, later
    <3>2. CASE on # {}
      <4>. DEFINE u == [later EXCEPT !.desired = want]
      <4>0. u \in HwStates
        BY <1>1, <1>3 DEF HwStates
      <4>1. /\ CoreFrame(later, u) /\ u.trans = later.trans /\ u.avail = later.avail
            /\ u.desired = want /\ u.dropping = later.dropping
            /\ u.dropTicks = later.dropTicks /\ u.timerNeeded = later.timerNeeded
        BY <1>3 DEF HwStates, CoreFrame, Frame
      <4>2. Backed(u)
        BY <3>1, <4>0, <4>1 DEF Backed, CoreFrame, Frame
      <4>3. t \in CheckTransitions(u)
        BY <3>2
      <4>. HIDE DEF u
      <4>4. /\ Backed(t) /\ CoreFrame(u, t) /\ u.trans \subseteq t.trans
            /\ t.desired = u.desired /\ t.dropping = u.dropping
            /\ t.dropTicks = u.dropTicks /\ t.timerNeeded = u.timerNeeded
        BY <4>2, <4>3, TransitionIs
      <4>. QED
        BY <3>2, <4>1, <4>4, <1>3 DEF CoreFrame, Frame
    <3>3. CASE on = {} /\ off # {} /\ ShaderTicks > 0
      <4>1. t = later
        BY <3>3
      <4>. QED
        BY <3>1, <3>3, <4>1, <1>3
    <3>4. CASE on = {} /\ off # {} /\ ~(ShaderTicks > 0)
      <4>1. t \in DropCores(later)
        BY <3>4
      <4>2. /\ Backed(t) /\ CoreFrame(later, t) /\ later.trans \subseteq t.trans
            /\ t.desired = later.desired \ later.dropping /\ t.dropping = {}
            /\ t.dropTicks = later.dropTicks /\ t.timerNeeded = later.timerNeeded
        BY <3>1, <4>1, DropIs
      <4>. QED
        BY <3>4, <4>2, <1>3 DEF CoreFrame, Frame
    <3>5. CASE on = {} /\ off = {}
      <4>1. t = quiet
        BY <3>5
      <4>. DEFINE needed == s.timerNeeded /\ ~(s.refs = {} /\ Types \subseteq want)
      <4>2. t = [s EXCEPT !.timerNeeded = needed] /\ needed \in BOOLEAN
        BY <4>1, <1>2
      <4>3. needed = s.timerNeeded \/ (s.refs = {} /\ Holding(s))
        <5>1. CASE s.refs = {} /\ Types \subseteq want
          <6>1. "tiler" \in want
            BY <5>1 DEF Types
          <6>. QED
            BY <5>1, <6>1, <1>1
        <5>2. CASE ~(s.refs = {} /\ Types \subseteq want)
          BY <5>2, <1>2
        <5>. QED
          BY <5>1, <5>2
      <4>. HIDE DEF needed
      <4>4. t \in HwStates
        BY <1>0, <4>2 DEF HwStates
      <4>5. /\ CoreFrame(s, t) /\ t.trans = s.trans /\ t.avail = s.avail /\ t.desired = s.desired
            /\ t.dropping = s.dropping /\ t.dropTicks = s.dropTicks /\ t.timerNeeded = needed
        BY <1>0, <4>2 DEF HwStates, CoreFrame, Frame
      <4>6. Backed(t)
        BY <1>0, <4>4, <4>5 DEF Backed, CoreFrame, Frame
      <4>7. (on # {}) = FALSE /\ (off # {}) = FALSE
        BY <3>5
      <4>. QED
        BY <1>3, <3>5, <4>3, <4>5, <4>6 DEF CoreFrame, Frame
    <3>. QED
      BY <3>2, <3>3, <3>4, <3>5
  <2>. DEFINE k == Keep(t)
  <2>4. /\ Backed(k) /\ CoreFrame(t, k) /\ k.trans = t.trans /\ k.desired = t.desired
        /\ k.timerNeeded = t.timerNeeded /\ k.dropping = t.dropping \ (t.desired \cap want)
        /\ k.dropTicks = IF t.dropping # {} /\ k.dropping = {} THEN 0 ELSE t.dropTicks
    BY <2>3, <1>4
  <2>5. (~swaps /\ r = k) \/ (swaps /\ r \in DropCores(k))
    BY <2>2
  <2>. HIDE DEF k, Keep, want
  <2>6. s.dropping # {} <=> s.dropTicks > 0
    BY DEF CoresInv
  <2>7. ShaderTicks = 0 => s.dropping = {} /\ s.dropTicks = 0
    BY <1>2, <2>6
  <2>8. s.refs # {} => "shader" \in t.desired /\ "shader" \notin t.dropping \ (t.desired \cap want)
    <3>1. "shader" \in want /\ "shader" \in s.desired => "shader" \notin off
      OBVIOUS
    <3>2. on = {} => want \subseteq s.desired
      OBVIOUS
    <3>. QED
      BY <3>1, <3>2, <2>3, <2>7, <1>1, <1>2
  <2>9. CASE ~swaps /\ r = k
    <3>1. CoreFrame(s, k)
      BY <2>3, <2>4 DEF CoreFrame, Frame
    <3>2. k.dropping # {} <=> k.dropTicks > 0
      <4>1. later.dropTicks = IF off # {} /\ ShaderTicks > 0 THEN ShaderTicks ELSE s.dropTicks
        BY <1>3
      <4>2. t.dropping # {} <=> t.dropTicks > 0
        <5>. HIDE DEF later, on, off
        <5>1. CASE off = {}
          BY <5>1, <4>1, <2>3, <2>6
        <5>2. CASE off # {} /\ ShaderTicks > 0
          BY <5>2, <4>1, <2>3, <2>6
        <5>3. CASE off # {} /\ ~(ShaderTicks > 0)
          <6>1. ShaderTicks = 0
            BY <5>3, <1>2
          <6>. QED
            BY <5>3, <6>1, <2>3, <2>7, <2>9
        <5>. QED
          BY <5>1, <5>2, <5>3
      <4>. QED
        BY <4>2, <2>4
    <3>. QED
      BY <2>9, <3>1, <3>2, <2>3, <2>4, <2>8 DEF Updated, CoresInv, ShaderKept
  <2>10. CASE swaps /\ r \in DropCores(k)
    <3>1. /\ Backed(r) /\ CoreFrame(k, r) /\ k.trans \subseteq r.trans
          /\ r.desired = k.desired \ k.dropping /\ r.dropping = {}
          /\ r.dropTicks = k.dropTicks /\ r.timerNeeded = k.timerNeeded
      BY <2>4, <2>10, DropIs
    <3>2. CoreFrame(s, r)
      BY <2>3, <2>4, <3>1 DEF CoreFrame, Frame
    <3>3. ~(r.dropTicks > 0)
      <4>1. r.dropTicks \in 0..ShaderTicks
        BY <3>1, Fields DEF Backed
      <4>. QED
        BY <2>10, <4>1
    <3>. QED
      BY <3>1, <3>2, <3>3, <2>3, <2>4, <2>8 DEF Updated, CoresInv, ShaderKept
  <2>. QED
    BY <2>5, <2>9, <2>10
<1>. QED
  BY <1>5, <1>6

-----------------------------------------------------------------------------
(* The slots.                                                               *)

\* A deferred power-off has its timer, and a GPU that is on to power off.
Ticking(s) ==
  s.gpuTicksLeft > 0 => s.timerNeeded /\ s.timerRunning /\ s.gpuPowered
                        /\ (s.waitOff => s.onRequired)

\* An atom that is pulled keeps its context and the GPU.
Placed(s) == \A j \in Jobs :
  /\ s.at[j] = "idle" => s.coreref[j] = "none"
  /\ s.at[j] # "idle" => s.gpuPowered /\ Context(CtxOf[j]) \in s.refs
  /\ s.at[j] = "slot" => s.coreref[j] # "ready"
  /\ s.at[j] = "hw" => Needs[j] \subseteq s.ready \cup s.trans

\* What a deferred power-off relies on.
Deferred(s) == GpuTicks > 0 =>
  /\ s.policy = "coarse_demand"
  /\ Holding(s) => s.refs # {} /\ ShaderKept(s)
  /\ \A j \in Jobs : s.at[j] # "return"
  /\ \A c \in Ctxs : s.worker[c].step \notin {"idling", "update"}

Good(s) == CoresInv(s) /\ Ticking(s) /\ Placed(s) /\ Deferred(s) /\ ~s.spins

\* The state in which atoms in slots may be looked at.
SlotPre(s) == /\ Good(s) /\ s.refs # {}
              /\ ShaderKept(s) \/ (~Holding(s) /\ s.policy # "none")

\* What that leaves alone.
SlotFrame(s, t) ==
  /\ Frame(s, t) /\ (ShaderKept(s) => ShaderKept(t))
  /\ \A j \in Jobs : t.at[j] = s.at[j] \/ (s.at[j] = "slot" /\ t.at[j] = "hw")

\* A look at the cores keeps all that is good.
LEMMA UpdatedIsGood ==
  ASSUME NEW s, NEW t, Good(s), Updated(s, t)
  PROVE  Good(t)
<1>1. s \in HwStates /\ t \in HwStates
  BY DEF Good, Updated, CoresInv, Backed
<1>2. Ticking(t)
  <2>1. SUFFICES ASSUME s.gpuTicksLeft > 0 PROVE Ticking(t)
    BY DEF Updated, CoreFrame, Frame, Ticking
  <2>2. GpuTicks > 0
    BY <1>1, <2>1, Fields, PowerAssumption
  <2>3. ~(s.refs = {} /\ Holding(s))
    BY <2>2 DEF Good, Deferred
  <2>. QED
    BY <2>3 DEF Good, Updated, CoreFrame, Frame, Ticking
<1>3. Placed(t)
  BY DEF Good, Updated, CoreFrame, Frame, Placed
<1>4. Deferred(t)
  BY DEF Good, Updated, CoreFrame, Frame, Deferred, Holding
<1>. QED
  BY <1>2, <1>3, <1>4 DEF Good, Updated, CoreFrame

\* An atom in a slot that has asked for its cores holds them, or waits for
\* them with the shader core desired.
LEMMA RequestIs ==
  ASSUME NEW s, SlotPre(s), NEW j \in Jobs, s.at[j] = "slot", NEW t \in Request(s, j)
  PROVE  /\ Good(t) /\ Frame(s, t) /\ ShaderKept(t) /\ t.at = s.at
         /\ t.coreref[j] = "waiting"
<1>0. s \in HwStates
  BY DEF SlotPre, Good, CoresInv, Backed
<1>1. CASE s.coreref[j] # "none"
  <2>1. t = s
    BY <1>1 DEF Request
  <2>2. s.coreref[j] = "waiting"
    BY <1>0, <1>1, Fields DEF SlotPre, Good, Placed, Corerefs
  <2>. QED
    BY <1>1, <2>1, <2>2 DEF SlotPre, Frame, Holding
<1>2. CASE s.coreref[j] = "none"
  <2>. DEFINE u == [s EXCEPT !.coreref[j] = "waiting"]
  <2>1. t \in Recount(s, u)
    BY <1>2 DEF Request, SetCoreref
  <2>2. u \in HwStates
    BY <1>0 DEF HwStates, Corerefs
  <2>3. /\ Frame(s, u) /\ u.at = s.at /\ u.spins = s.spins /\ u.trans = s.trans
        /\ u.avail = s.avail /\ u.desired = s.desired /\ u.dropping = s.dropping
        /\ u.dropTicks = s.dropTicks /\ u.timerNeeded = s.timerNeeded
        /\ u.coreref = [s.coreref EXCEPT ![j] = "waiting"]
    BY <1>0 DEF HwStates, Frame
  <2>. HIDE DEF u
  <2>4. /\ u.coreref[j] = "waiting"
        /\ \A k \in Jobs : k # j => u.coreref[k] = s.coreref[k]
    BY <1>0, <2>3, Fields
  <2>5. CoresInv(u)
    BY <2>2, <2>3 DEF SlotPre, Good, CoresInv, Backed, Frame
  <2>6. Updated(u, t) /\ ShaderKept(t)
    <3>1. CASE t = u
      <4>1. Updated(u, t)
        BY <2>5, <3>1 DEF Updated, CoreFrame, Frame
      <4>2. ShaderKept(s) => ShaderKept(u)
        BY <2>3 DEF ShaderKept, Frame
      <4>3. CASE ShaderKept(s)
        BY <3>1, <4>1, <4>2, <4>3
      <4>4. CASE ~ShaderKept(s)
        <5>1. ~Holding(s) /\ s.policy # "none"
          BY <4>4 DEF SlotPre
        <5>2. Needed(s) # Needed(u)
          BY <1>0, <2>2, <2>4, <5>1, HeldIs
        <5>3. t \in UpdateCores(u)
          BY <2>1, <5>2 DEF Recount
        <5>4. ShaderKept(t)
          BY <2>3, <2>5, <5>1, <5>3, UpdateIs DEF Frame, SlotPre
        <5>. QED
          BY <4>1, <5>4
      <4>. QED
        BY <4>3, <4>4
    <3>2. CASE t \in UpdateCores(u)
      <4>1. Updated(u, t) /\ (u.refs # {} /\ u.policy # "none" => ShaderKept(t))
        BY <2>5, <3>2, UpdateIs
      <4>2. u.refs # {} /\ (ShaderKept(s) => ShaderKept(u)) /\ u.policy = s.policy
        BY <2>3 DEF SlotPre, Frame, ShaderKept
      <4>. QED
        BY <4>1, <4>2 DEF Updated, SlotPre
    <3>. QED
      BY <2>1, <3>1, <3>2 DEF Recount
  <2>7. /\ Frame(s, t) /\ t.at = s.at /\ t.coreref = u.coreref /\ s.trans \subseteq t.trans
        /\ t.timerNeeded = s.timerNeeded /\ t.spins = s.spins
    BY <2>3, <2>6 DEF Updated, CoreFrame, Frame, SlotPre
  <2>8. Ticking(t)
    BY <2>7 DEF SlotPre, Good, Ticking, Frame
  <2>9. Placed(t)
    <3>. SUFFICES ASSUME NEW k \in Jobs
                  PROVE  /\ t.at[k] = "idle" => t.coreref[k] = "none"
                         /\ t.at[k] # "idle" => t.gpuPowered /\ Context(CtxOf[k]) \in t.refs
                         /\ t.at[k] = "slot" => t.coreref[k] # "ready"
                         /\ t.at[k] = "hw" => Needs[k] \subseteq t.ready \cup t.trans
      BY DEF Placed
    <3>. QED
      BY <2>4, <2>7 DEF SlotPre, Good, Placed, Frame
  <2>10. Deferred(t)
    BY <2>6, <2>7 DEF SlotPre, Good, Deferred, Frame
  <2>. QED
    BY <2>4, <2>6, <2>7, <2>8, <2>9, <2>10 DEF Good, Updated, SlotPre
<1>. QED
  BY <1>1, <1>2

\* Each slot in turn: the loop that looks for an affinity ends, and an atom
\* goes on the hardware with its cores.
LEMMA AdvanceIs ==
  ASSUME NEW s, SlotPre(s), NEW j \in Jobs, NEW r \in Advance(s, j)
  PROVE  SlotPre(r) /\ SlotFrame(s, r)
<1>1. CASE s.at[j] # "slot"
  BY <1>1 DEF Advance, SlotFrame, Frame
<1>2. CASE s.at[j] = "slot"
  <2>1. PICK v \in CheckRefCores(s, j) :
          r = IF v.coreref[j] = "ready" THEN [v EXCEPT !.at[j] = "hw"] ELSE v
    BY <1>2 DEF Advance
  <2>2. PICK t \in Request(s, j) :
          v \in IF CoresReady(t, j) # "new_affinity" THEN {Register(t, j)}
                ELSE {IF CoresReady(u, j) # "new_affinity" THEN Register(u, j)
                      ELSE [u EXCEPT !.spins = TRUE] :
                        u \in UNION {Request(w, j) : w \in SetCoreref(t, j, "none")}}
    BY <2>1 DEF CheckRefCores
  <2>3. /\ Good(t) /\ Frame(s, t) /\ ShaderKept(t) /\ t.at = s.at
        /\ t.coreref[j] = "waiting"
    BY <1>2, RequestIs
  <2>4. CoresReady(t, j) # "new_affinity"
    BY <2>3 DEF CoresReady, ShaderKept
  <2>5. v = Register(t, j)
    BY <2>2, <2>4
  <2>6. t \in HwStates
    BY <2>3 DEF Good, CoresInv, Backed
  <2>7. CASE CoresReady(t, j) # "ready"
    <3>1. r = t
      BY <2>1, <2>3, <2>5, <2>7 DEF Register
    <3>. QED
      BY <2>3, <3>1 DEF SlotPre, SlotFrame, Frame
  <2>8. CASE CoresReady(t, j) = "ready"
    <3>. DEFINE w == [t EXCEPT !.coreref[j] = "ready"]
    <3>1. r = [w EXCEPT !.at[j] = "hw"]
      <4>1. v.coreref[j] = "ready" /\ v = w
        BY <2>5, <2>6, <2>8 DEF Register, HwStates
      <4>. QED
        BY <2>1, <4>1
    <3>2. r \in HwStates
      BY <2>6, <3>1 DEF HwStates, Corerefs, Places
    <3>3. /\ Frame(t, r) /\ r.spins = t.spins /\ r.trans = t.trans
          /\ r.avail = t.avail /\ r.desired = t.desired /\ r.dropping = t.dropping
          /\ r.dropTicks = t.dropTicks /\ r.timerNeeded = t.timerNeeded
          /\ r.coreref = [t.coreref EXCEPT ![j] = "ready"]
          /\ r.at = [t.at EXCEPT ![j] = "hw"]
      BY <2>6, <3>1 DEF HwStates, Frame
    <3>. HIDE DEF w
    <3>4. /\ r.coreref[j] = "ready" /\ r.at[j] = "hw"
          /\ \A k \in Jobs : k # j => r.coreref[k] = t.coreref[k] /\ r.at[k] = t.at[k]
      BY <2>6, <3>3, Fields
    <3>5. Needs[j] \subseteq t.avail
      BY <2>8 DEF CoresReady
    <3>6. t.gpuPowered /\ Context(CtxOf[j]) \in t.refs
      BY <1>2, <2>3 DEF Good, Placed
    <3>7. Needs[j] \subseteq r.ready \cup r.trans
      BY <2>3, <3>3, <3>5, <3>6 DEF Good, CoresInv, Backed, Frame
    <3>8. CoresInv(r)
      BY <2>3, <3>2, <3>3 DEF Good, CoresInv, Backed, Frame
    <3>9. Ticking(r)
      BY <2>3, <3>3 DEF Good, Ticking, Frame
    <3>10. Placed(r)
      <4>. SUFFICES ASSUME NEW k \in Jobs
                    PROVE  /\ r.at[k] = "idle" => r.coreref[k] = "none"
                           /\ r.at[k] # "idle" => r.gpuPowered /\ Context(CtxOf[k]) \in r.refs
                           /\ r.at[k] = "slot" => r.coreref[k] # "ready"
                           /\ r.at[k] = "hw" => Needs[k] \subseteq r.ready \cup r.trans
        BY DEF Placed
      <4>1. CASE k = j
        BY <3>3, <3>4, <3>6, <3>7, <4>1 DEF Frame
      <4>2. CASE k # j
        BY <2>3, <3>3, <3>4, <4>2 DEF Good, Placed, Frame
      <4>. QED
        BY <4>1, <4>2
    <3>11. ShaderKept(r)
      BY <2>3, <3>3 DEF ShaderKept, Frame
    <3>12. Deferred(r)
      <4>1. t.refs # {}
        BY <3>6
      <4>. QED
        BY <2>3, <3>3, <3>4, <3>11, <4>1 DEF Good, Deferred, Frame
    <3>13. SlotPre(r)
      BY <2>3, <3>3, <3>8, <3>9, <3>10, <3>11, <3>12 DEF SlotPre, Good, Frame
    <3>14. SlotFrame(s, r)
      BY <1>2, <2>3, <3>3, <3>4, <3>11 DEF SlotFrame, Frame
    <3>. QED
      BY <3>13, <3>14
  <2>. QED
    BY <2>7, <2>8
<1>. QED
  BY <1>1, <1>2

\* The least of a set of numbers.
LEMMA Least ==
  ASSUME NEW T, T \subseteq Nat, T # {}
  PROVE  \E m \in T : \A l \in T : m <= l
<1>. DEFINE R == OpToRel(<, Nat)
<1>1. \A x, y \in Nat : <<x, y>> \in R <=> x < y
  BY DEF OpToRel
<1>2. IsWellFoundedOn(R, Nat)
  BY NatLessThanWellFounded
<1>. HIDE DEF R
<1>3. PICK m \in T : \A l \in T : ~(<<l, m>> \in R)
  BY <1>2, WFMin
<1>4. ASSUME NEW l \in T PROVE m <= l
  <2>1. l \in Nat /\ m \in Nat /\ ~(l < m)
    BY <1>1, <1>3
  <2>. QED
    BY <2>1
<1>. QED
  BY <1>4

\* The slots one after the other: the states after n of them.
Turns(s, f, n) ==
  f = [i \in 0..n |-> IF i = 0 THEN {s} ELSE UNION {Advance(t, i) : t \in f[i - 1]}]

LEMMA TurnsExist ==
  ASSUME NEW s, NEW n \in Nat PROVE \E f : Turns(s, f, n)
<1>. DEFINE Bad == {m \in Nat : ~ \E f : Turns(s, f, m)}
<1>1. SUFFICES ASSUME Bad # {} PROVE FALSE
  OBVIOUS
<1>2. PICK m \in Bad : \A l \in Bad : m <= l
  <2>. HIDE DEF Bad
  <2>1. Bad \subseteq Nat
    BY DEF Bad
  <2>. QED
    BY <1>1, <2>1, Least
<1>3. CASE m = 0
  <2>1. Turns(s, [i \in 0..m |-> {s}], m)
    BY <1>3 DEF Turns
  <2>. QED
    BY <2>1
<1>4. CASE m # 0
  <2>1. m \in Nat /\ m - 1 \in Nat /\ ~(m <= m - 1)
    BY <1>4
  <2>2. m - 1 \notin Bad
    BY <1>2, <2>1
  <2>3. PICK f : Turns(s, f, m - 1)
    BY <2>1, <2>2
  <2>. DEFINE g == [i \in 0..m |-> IF i = m THEN UNION {Advance(t, i) : t \in f[m - 1]} ELSE f[i]]
  <2>4. ASSUME NEW i \in 0..m
        PROVE  g[i] = IF i = 0 THEN {s} ELSE UNION {Advance(t, i) : t \in g[i - 1]}
    <3>1. CASE i = m
      <4>1. m - 1 \in 0..m /\ m - 1 # m
        BY <2>1
      <4>2. g[m - 1] = f[m - 1] /\ g[i] = UNION {Advance(t, i) : t \in f[m - 1]}
        BY <3>1, <4>1
      <4>. HIDE DEF g
      <4>. QED
        BY <1>4, <3>1, <4>2
    <3>2. CASE i # m
      <4>1. i \in 0..(m - 1) /\ (i # 0 => i - 1 \in 0..m /\ i - 1 # m)
        BY <2>1, <3>2
      <4>2. f[i] = IF i = 0 THEN {s} ELSE UNION {Advance(t, i) : t \in f[i - 1]}
        BY <2>3, <4>1 DEF Turns
      <4>3. g[i] = f[i] /\ (i # 0 => g[i - 1] = f[i - 1])
        BY <3>2, <4>1
      <4>. HIDE DEF g
      <4>. QED
        BY <4>2, <4>3
    <3>. QED
      BY <3>1, <3>2
  <2>5. Turns(s, g, m)
    <3>1. g = [i \in 0..m |-> g[i]]
      OBVIOUS
    <3>. HIDE DEF g
    <3>. QED
      BY <2>4, <3>1 DEF Turns
  <2>. QED
    BY <2>5
<1>. QED
  BY <1>3, <1>4

\* What a look at all slots comes to.
LEMMA SlotUpdateIs ==
  ASSUME NEW s
  PROVE  \E f : Turns(s, f, NumJobs) /\ SlotUpdate(s) = f[NumJobs]
<1>1. PICK f : Turns(s, f, NumJobs)
  BY TurnsExist, PowerAssumption
<1>. DEFINE upTo[n \in 0..NumJobs] ==
       IF n = 0 THEN {s} ELSE UNION {Advance(t, n) : t \in upTo[n - 1]}
<1>2. SlotUpdate(s) = upTo[NumJobs]
  BY DEF SlotUpdate
<1>3. Turns(s, upTo, NumJobs)
  BY <1>1 DEF Turns
<1>. HIDE DEF upTo
<1>. QED
  BY <1>2, <1>3

LEMMA SlotFrameIsTransitive ==
  ASSUME NEW s, NEW t, NEW u, SlotFrame(s, t), SlotFrame(t, u)
  PROVE  SlotFrame(s, u)
<1>1. Frame(s, u) /\ (ShaderKept(s) => ShaderKept(u))
  BY DEF SlotFrame, Frame
<1>2. ASSUME NEW j \in Jobs PROVE u.at[j] = s.at[j] \/ (s.at[j] = "slot" /\ u.at[j] = "hw")
  <2>1. t.at[j] = s.at[j] \/ (s.at[j] = "slot" /\ t.at[j] = "hw")
    BY DEF SlotFrame
  <2>2. u.at[j] = t.at[j] \/ (t.at[j] = "slot" /\ u.at[j] = "hw")
    BY DEF SlotFrame
  <2>. QED
    BY <2>1, <2>2
<1>. QED
  BY <1>1, <1>2 DEF SlotFrame

\* A look at all slots keeps all that is good.
LEMMA SlotsAreGood ==
  ASSUME NEW s, SlotPre(s), NEW r \in SlotUpdate(s)
  PROVE  SlotPre(r) /\ SlotFrame(s, r)
<1>1. PICK f : Turns(s, f, NumJobs) /\ SlotUpdate(s) = f[NumJobs]
  BY SlotUpdateIs
<1>. DEFINE Holds(n) == \A t \in f[n] : SlotPre(t) /\ SlotFrame(s, t)
            Bad == {n \in 0..NumJobs : ~Holds(n)}
<1>2. SUFFICES ASSUME Bad # {} PROVE FALSE
  <2>1. NumJobs \in 0..NumJobs
    BY PowerAssumption
  <2>. QED
    BY <1>1, <2>1
<1>3. PICK m \in Bad : \A l \in Bad : m <= l
  <2>1. Bad \subseteq Nat
    BY PowerAssumption
  <2>. HIDE DEF Bad
  <2>. QED
    BY <1>2, <2>1, Least
<1>4. m \in 0..NumJobs /\ m \in Nat /\ NumJobs \in Nat /\ ~Holds(m)
  BY PowerAssumption
<1>. HIDE DEF Holds
<1>5. f[m] = IF m = 0 THEN {s} ELSE UNION {Advance(t, m) : t \in f[m - 1]}
  BY <1>1, <1>4 DEF Turns
<1>6. CASE m = 0
  <2>1. SlotFrame(s, s)
    BY DEF SlotFrame, Frame
  <2>. QED
    BY <1>4, <1>5, <1>6, <2>1 DEF Holds
<1>7. CASE m # 0
  <2>1. m - 1 \in 0..NumJobs /\ ~(m <= m - 1) /\ m \in Jobs
    BY <1>4, <1>7 DEF Jobs
  <2>2. Holds(m - 1)
    BY <1>3, <2>1
  <2>3. ASSUME NEW t \in f[m] PROVE SlotPre(t) /\ SlotFrame(s, t)
    <3>1. PICK u \in f[m - 1] : t \in Advance(u, m)
      BY <1>5, <1>7
    <3>2. SlotPre(u) /\ SlotFrame(s, u)
      BY <2>2 DEF Holds
    <3>. QED
      BY <2>1, <3>1, <3>2, AdvanceIs, SlotFrameIsTransitive
  <2>. QED
    BY <1>4, <2>3 DEF Holds
<1>. QED
  BY <1>6, <1>7

\* Nothing happens while no atom is in a slot.
LEMMA NothingInSlots ==
  ASSUME NEW s, \A j \in Jobs : s.at[j] = "idle", NEW r \in SlotUpdate(s)
  PROVE  r = s
<1>1. PICK f : Turns(s, f, NumJobs) /\ SlotUpdate(s) = f[NumJobs]
  BY SlotUpdateIs
<1>. DEFINE Holds(n) == f[n] = {s}
            Bad == {n \in 0..NumJobs : ~Holds(n)}
<1>2. SUFFICES ASSUME Bad # {} PROVE FALSE
  <2>1. NumJobs \in 0..NumJobs
    BY PowerAssumption
  <2>. QED
    BY <1>1, <2>1
<1>3. PICK m \in Bad : \A l \in Bad : m <= l
  <2>1. Bad \subseteq Nat
    BY PowerAssumption
  <2>. HIDE DEF Bad
  <2>. QED
    BY <1>2, <2>1, Least
<1>4. m \in 0..NumJobs /\ m \in Nat /\ NumJobs \in Nat /\ ~Holds(m)
  BY PowerAssumption
<1>5. f[m] = IF m = 0 THEN {s} ELSE UNION {Advance(t, m) : t \in f[m - 1]}
  BY <1>1, <1>4 DEF Turns
<1>6. m # 0
  BY <1>4, <1>5
<1>7. m - 1 \in 0..NumJobs /\ ~(m <= m - 1) /\ m \in Jobs
  BY <1>4, <1>6 DEF Jobs
<1>8. f[m - 1] = {s}
  BY <1>3, <1>7
<1>9. Advance(s, m) = {s}
  BY <1>7 DEF Advance
<1>. QED
  BY <1>4, <1>5, <1>6, <1>8, <1>9

-----------------------------------------------------------------------------
(* Power on and off.                                                        *)

\* What a decision about the power leaves alone.
Same(s, t) ==
  /\ t.refs = s.refs /\ t.gpuPowered = s.gpuPowered /\ t.offPending = s.offPending
  /\ t.waitOff = s.waitOff /\ t.policy = s.policy /\ t.desired = s.desired
  /\ t.avail = s.avail /\ t.ready = s.ready /\ t.trans = s.trans /\ t.at = s.at
  /\ t.coreref = s.coreref /\ t.worker = s.worker /\ t.spins = s.spins

\* With a reference the GPU is powered on, or about to be, or a power-off
\* under way is told; without one it is powered off at once, or by the timer.
LEMMA UpdateActiveIs ==
  ASSUME NEW s, CoresInv(s)
  PROVE  LET u == UpdateActive(s) IN
         /\ u.step \in {"done", "clock_on", "power_off"}
         /\ CoresInv(u.st) /\ Same(s, u.st)
         /\ u.st.dropping \subseteq s.dropping
         /\ s.onRequired => u.st.onRequired
         /\ u.step = "power_off" => s.refs = {} /\ s.gpuPowered /\ GpuTicks = 0
         /\ u.step = "clock_on" => ~s.waitOff
         /\ s.refs # {} => \/ u.step = "clock_on"
                           \/ s.waitOff /\ u.st.onRequired
                           \/ s.gpuTicksLeft > 0
         /\ Ticking(s) /\ (GpuTicks > 0 /\ s.refs = {} /\ s.waitOff => s.onRequired)
              => Ticking(u.st)
<1>. DEFINE u == UpdateActive(s)
            cancelled == [s EXCEPT !.gpuTicksLeft = 0]
            starts == ~s.timerRunning /\ ~s.gpuPowered /\ GpuTicks + ShaderTicks > 0
            timed == [cancelled EXCEPT !.timerNeeded = @ \/ starts, !.timerRunning = @ \/ starts]
            idle == [s EXCEPT !.dropping = {}, !.dropTicks = IF s.dropping # {} THEN 0 ELSE @]
            told == [timed EXCEPT !.onRequired = TRUE]
            defer == [idle EXCEPT !.gpuTicksLeft = GpuTicks, !.timerNeeded = TRUE, !.timerRunning = TRUE]
<1>0. s \in HwStates /\ GpuTicks \in Nat /\ ShaderTicks \in Nat
  BY PowerAssumption DEF CoresInv, Backed
<1>1. /\ CoresInv(cancelled) /\ Same(s, cancelled) /\ cancelled.dropping = s.dropping
      /\ cancelled.onRequired = s.onRequired /\ cancelled.gpuTicksLeft = 0
  <2>1. cancelled \in HwStates
    BY <1>0 DEF HwStates
  <2>2. /\ Same(s, cancelled) /\ cancelled.dropping = s.dropping /\ cancelled.dropTicks = s.dropTicks
        /\ cancelled.onRequired = s.onRequired /\ cancelled.gpuTicksLeft = 0
    BY <1>0 DEF HwStates, Same
  <2>. QED
    BY <2>1, <2>2 DEF CoresInv, Backed, Same
<1>2. /\ CoresInv(timed) /\ Same(s, timed) /\ timed.dropping = s.dropping
      /\ timed.onRequired = s.onRequired /\ timed.gpuTicksLeft = 0
  <2>1. starts \in BOOLEAN /\ cancelled \in HwStates
    BY <1>1 DEF CoresInv, Backed
  <2>2. s.timerNeeded \in BOOLEAN /\ s.timerRunning \in BOOLEAN
        /\ cancelled.timerNeeded = s.timerNeeded /\ cancelled.timerRunning = s.timerRunning
    BY <1>0 DEF HwStates
  <2>. DEFINE needed == s.timerNeeded \/ starts
              running == s.timerRunning \/ starts
  <2>a. needed \in BOOLEAN /\ running \in BOOLEAN
    BY <2>1, <2>2
  <2>b. timed = [cancelled EXCEPT !.timerNeeded = needed, !.timerRunning = running]
    BY <2>2
  <2>. HIDE DEF starts, cancelled, needed, running, timed
  <2>3. timed \in HwStates
    BY <2>1, <2>a, <2>b DEF HwStates
  <2>4. /\ Same(cancelled, timed) /\ timed.dropping = cancelled.dropping
        /\ timed.dropTicks = cancelled.dropTicks
        /\ timed.onRequired = cancelled.onRequired /\ timed.gpuTicksLeft = cancelled.gpuTicksLeft
    BY <2>1, <2>b DEF HwStates, Same
  <2>. QED
    BY <1>1, <2>3, <2>4 DEF CoresInv, Backed, Same
<1>3. /\ CoresInv(told) /\ Same(s, told) /\ told.dropping = s.dropping
      /\ told.onRequired /\ told.gpuTicksLeft = 0
  <2>. HIDE DEF timed
  <2>1. timed \in HwStates
    BY <1>2 DEF CoresInv, Backed
  <2>2. told \in HwStates
    BY <2>1 DEF HwStates
  <2>3. /\ Same(timed, told) /\ told.dropping = timed.dropping /\ told.dropTicks = timed.dropTicks
        /\ told.onRequired /\ told.gpuTicksLeft = timed.gpuTicksLeft
    BY <2>1 DEF HwStates, Same
  <2>. QED
    BY <1>2, <2>2, <2>3 DEF CoresInv, Backed, Same
<1>4. /\ CoresInv(idle) /\ Same(s, idle) /\ idle.dropping = {}
      /\ idle.onRequired = s.onRequired /\ idle.gpuTicksLeft = s.gpuTicksLeft
      /\ idle.timerNeeded = s.timerNeeded /\ idle.timerRunning = s.timerRunning
  <2>. DEFINE ticks == IF s.dropping # {} THEN 0 ELSE s.dropTicks
  <2>1. ticks \in 0..ShaderTicks /\ ~(ticks > 0)
    BY <1>0, Fields DEF CoresInv
  <2>2. idle = [s EXCEPT !.dropping = {}, !.dropTicks = ticks]
    OBVIOUS
  <2>. HIDE DEF ticks, idle
  <2>3. idle \in HwStates
    BY <1>0, <2>1, <2>2 DEF HwStates
  <2>4. /\ Same(s, idle) /\ idle.dropping = {} /\ idle.dropTicks = ticks
        /\ idle.onRequired = s.onRequired /\ idle.gpuTicksLeft = s.gpuTicksLeft
        /\ idle.timerNeeded = s.timerNeeded /\ idle.timerRunning = s.timerRunning
    BY <1>0, <2>2 DEF HwStates, Same
  <2>. QED
    BY <2>1, <2>3, <2>4 DEF CoresInv, Backed, Same
<1>5. /\ CoresInv(defer) /\ Same(s, defer) /\ defer.dropping = {}
      /\ defer.onRequired = s.onRequired /\ defer.timerNeeded /\ defer.timerRunning
  <2>. HIDE DEF idle
  <2>1. idle \in HwStates
    BY <1>4 DEF CoresInv, Backed
  <2>a. GpuTicks \in 0..GpuTicks
    BY <1>0
  <2>2. defer \in HwStates
    BY <2>1, <2>a DEF HwStates
  <2>3. /\ Same(idle, defer) /\ defer.dropping = idle.dropping /\ defer.dropTicks = idle.dropTicks
        /\ defer.onRequired = idle.onRequired /\ defer.timerNeeded /\ defer.timerRunning
    BY <2>1 DEF HwStates, Same
  <2>. QED
    BY <1>4, <2>2, <2>3 DEF CoresInv, Backed, Same
<1>. HIDE DEF cancelled, starts, timed, idle, told, defer
<1>6. CoreActive(s) <=> ~(s.policy # "always_on" /\ s.refs = {} /\ Needed(s) = {} /\ InUse(s) = {})
  BY DEF CoreActive
<1>7. CASE CoreActive(s) /\ s.gpuTicksLeft > 0 /\ ~s.offPending
  <2>1. u = [st |-> cancelled, step |-> "done"]
    BY <1>7 DEF UpdateActive, cancelled, starts, timed, idle, told, defer
  <2>. QED
    BY <1>1, <1>7, <2>1 DEF Ticking
<1>8. CASE CoreActive(s) /\ ~(s.gpuTicksLeft > 0 /\ ~s.offPending) /\ s.waitOff
  <2>1. u = [st |-> told, step |-> "done"]
    BY <1>8 DEF UpdateActive, cancelled, starts, timed, idle, told, defer
  <2>. QED
    BY <1>3, <1>8, <2>1 DEF Ticking
<1>9. CASE CoreActive(s) /\ ~(s.gpuTicksLeft > 0 /\ ~s.offPending) /\ ~s.waitOff
  <2>1. u = [st |-> timed, step |-> "clock_on"]
    BY <1>9 DEF UpdateActive, cancelled, starts, timed, idle, told, defer
  <2>. QED
    BY <1>2, <1>9, <2>1 DEF Ticking
<1>10. CASE ~CoreActive(s) /\ ~s.gpuPowered
  <2>1. u = [st |-> idle, step |-> "done"]
    BY <1>10 DEF UpdateActive, cancelled, starts, timed, idle, told, defer
  <2>. QED
    BY <1>4, <1>6, <1>10, <2>1 DEF Ticking, Same
<1>11. CASE ~CoreActive(s) /\ s.gpuPowered /\ GpuTicks = 0
  <2>1. u = [st |-> idle, step |-> "power_off"]
    BY <1>11 DEF UpdateActive, cancelled, starts, timed, idle, told, defer
  <2>2. Ticking(s) => Ticking(idle)
    BY <1>4 DEF Ticking, Same
  <2>3. u.st = idle /\ u.step = "power_off" /\ s.refs = {}
    BY <1>6, <1>11, <2>1
  <2>. QED
    BY <1>4, <1>11, <2>2, <2>3
<1>12. CASE ~CoreActive(s) /\ s.gpuPowered /\ GpuTicks # 0
  <2>1. u = [st |-> defer, step |-> "done"]
    BY <1>12 DEF UpdateActive, cancelled, starts, timed, idle, told, defer
  <2>2. GpuTicks > 0
    BY <1>0, <1>12
  <2>3. (s.waitOff => s.onRequired) => Ticking(defer)
    BY <1>5, <1>12 DEF Ticking, Same
  <2>4. u.st = defer /\ u.step = "done" /\ s.refs = {}
    BY <1>6, <1>12, <2>1
  <2>. QED
    BY <1>5, <2>2, <2>3, <2>4
<1>. QED
  BY <1>7, <1>8, <1>9, <1>10, <1>11, <1>12

-----------------------------------------------------------------------------
(* The invariant.                                                           *)

RestSteps == {"done", "clock_on", "resume_clock_on", "update_cores", "power_off", "no_policy"}
ControlTypes ==
  /\ suspending \in BOOLEAN /\ tickWork \in BOOLEAN /\ powerIrq \in BOOLEAN /\ faults \in BOOLEAN
  /\ sched \in [ctx : Ctxs, fresh : BOOLEAN] \cup {NoCtx}
  /\ rest \in [by : Holders \cup {Nobody}, step : RestSteps]
  /\ offWork \in {"idle", "queued", "faults"}
  /\ susp \in {"up", "stopping", "waiting", "powering_off", "down", "resuming", "resumed"}
  /\ setter \in {"idle", "active", "installed"} \cup Policies

\* The power-off that is waited for is the worker's.
PoweringOff(s) == s.waitOff <=> offWork # "idle"

\* From the time a suspend has seen no reference there is none.
Suspending(s) ==
  /\ suspending <=> susp \in {"stopping", "waiting", "powering_off", "down"}
  /\ susp \in {"powering_off", "down"} => s.refs = {}
  /\ susp = "resumed" => Suspender \in s.refs
  /\ s.waitOff => s.gpuPowered \/ susp = "powering_off"

\* What the holder of pm.lock has left to do is still right.
Resting(s) ==
  /\ rest.step = "done" => rest = Free
  /\ rest.step = "power_off" => s.refs = {} /\ s.gpuPowered /\ GpuTicks = 0
  /\ rest.step = "resume_clock_on" => s.refs = {}
  /\ rest.step = "clock_on" => ~s.waitOff
  /\ s.policy = "none" => rest.step = "no_policy"

Setting(s) == setter # "idle" => PolicySetter \in s.refs /\ PolicyChanges

\* The context in hand is active; one that was not has no atom yet.
Scheduling(s) == sched # NoCtx =>
  /\ Context(sched.ctx) \in s.refs
  /\ sched.fresh => \A j \in Jobs : CtxOf[j] = sched.ctx => s.at[j] = "idle"

\* With a reference the GPU is on and stays on, or somebody is turning it on
\* before anything is done with it.
Settled(s) == s.gpuPowered /\ (s.waitOff => s.onRequired) /\ (GpuTicks = 0 => ShaderKept(s))
Arriving(s) ==
  /\ rest.step = "clock_on" \/ (rest.step = "update_cores" /\ s.gpuPowered)
  /\ ~s.waitOff
  /\ \A j \in Jobs : s.at[j] = "idle"
  /\ \A c \in Ctxs : Context(c) \in s.refs => rest.by = QueueHolder
Awake(s) == s.refs # {} => Settled(s) \/ Arriving(s)

\* With a deferred power-off a worker keeps a reference until it is done.
Counted(s) == GpuTicks > 0 => \A c \in Ctxs : s.worker[c] # NoWork =>
  \/ Worker(c) \in s.refs
  \/ Context(c) \in s.refs /\ ~(sched.ctx = c /\ sched.fresh)

PowerInv ==
  /\ ControlTypes /\ Good(S) /\ PoweringOff(S) /\ Suspending(S) /\ Resting(S)
  /\ Setting(S) /\ Scheduling(S) /\ Awake(S) /\ Counted(S)

LEMMA Parts ==
  /\ S.refs = refs /\ S.gpuPowered = gpuPowered /\ S.offPending = offPending
  /\ S.waitOff = waitOff /\ S.onRequired = onRequired /\ S.gpuTicksLeft = gpuTicksLeft
  /\ S.timerNeeded = timerNeeded /\ S.timerRunning = timerRunning /\ S.policy = policy
  /\ S.desired = desired /\ S.avail = avail /\ S.dropping = dropping
  /\ S.dropTicks = dropTicks /\ S.ready = ready /\ S.trans = trans /\ S.at = at
  /\ S.coreref = coreref /\ S.worker = worker /\ S.spins = spins
BY DEF S

LEMMA NothingChanged == ASSUME UNCHANGED hwVars PROVE S' = S
BY DEF hwVars, S

LEMMA Names ==
  /\ \A c, d \in Ctxs : Context(c) = Context(d) => c = d
  /\ \A c \in Ctxs : /\ Context(c) \in Holders /\ Worker(c) \in Holders
                     /\ Context(c) \notin {QueueHolder, Suspender, PolicySetter, Nobody}
                     /\ Worker(c) \notin {QueueHolder, Suspender, PolicySetter, Nobody}
  /\ \A c, d \in Ctxs : Context(c) # Worker(d)
  /\ \A c, d \in Ctxs : Worker(c) = Worker(d) => c = d
  /\ QueueHolder \in Holders /\ Suspender \in Holders /\ PolicySetter \in Holders
  /\ QueueHolder # Suspender /\ QueueHolder # PolicySetter /\ Suspender # PolicySetter
  /\ \A j \in Jobs : CtxOf[j] \in Ctxs
BY DEF Holders, Context, Worker, QueueHolder, Suspender, PolicySetter, Nobody, Ctxs

LEMMA StateIs == ASSUME PowerInv PROVE S \in HwStates /\ CoresInv(S)
BY DEF PowerInv, Good, CoresInv, Backed

\* Without pm.lock held the GPU is on while there is a reference.
LEMMA UnlockedIsSettled ==
  ASSUME PowerInv, ~Locked
  PROVE  /\ S.refs # {} => Settled(S)
         /\ S.policy # "none" /\ rest.step = "done"
BY DEF PowerInv, Awake, Arriving, Locked, Free, Resting

\* A step that leaves the power and whoever counts on it alone.
Still(s, t) ==
  /\ t.refs = s.refs /\ t.gpuPowered = s.gpuPowered /\ t.waitOff = s.waitOff
  /\ t.onRequired = s.onRequired /\ t.policy = s.policy
  /\ s.refs # {} /\ ShaderKept(s) => ShaderKept(t)

LEMMA StillStep ==
  ASSUME PowerInv, ControlTypes', Good(S'), Still(S, S'),
         UNCHANGED <<suspending, susp, setter, offWork, rest>>,
         sched' = sched \/ sched' = NoCtx,
         (\A j \in Jobs : S.at[j] = "idle" => S'.at[j] = "idle") \/ (Settled(S) /\ sched' = NoCtx),
         \A c \in Ctxs : S'.worker[c] # NoWork => S.worker[c] # NoWork
  PROVE  PowerInv'
<1>1. PoweringOff(S)'
  BY DEF PowerInv, PoweringOff, Still
<1>2. Suspending(S)'
  BY DEF PowerInv, Suspending, Still
<1>3. Resting(S)'
  BY DEF PowerInv, Resting, Still
<1>4. Setting(S)'
  BY DEF PowerInv, Setting, Still
<1>5. Scheduling(S)'
  BY DEF PowerInv, Scheduling, Still
<1>6. Awake(S)'
  <2>. SUFFICES ASSUME S'.refs # {} PROVE Settled(S)' \/ Arriving(S)'
    BY DEF Awake
  <2>1. Settled(S) => Settled(S)'
    BY DEF Settled, Still
  <2>2. Arriving(S) /\ (\A j \in Jobs : S.at[j] = "idle" => S'.at[j] = "idle") => Arriving(S)'
    BY DEF Arriving, Still
  <2>. QED
    BY <2>1, <2>2 DEF PowerInv, Awake, Still
<1>7. Counted(S)'
  <2>1. sched'.fresh => sched' = sched
    BY DEF NoCtx
  <2>. QED
    BY <2>1 DEF PowerInv, Counted, Still
<1>. QED
  BY <1>1, <1>2, <1>3, <1>4, <1>5, <1>6, <1>7 DEF PowerInv

\* A section that ends with kbase_pm_update_active.
LEMMA RunIs ==
  ASSUME NEW s, NEW who \in Holders, RunUpdateActive(s, who), Good(s), s.policy # "none",
         GpuTicks > 0 /\ s.refs = {} /\ s.waitOff => s.onRequired,
         s.refs # {} => \/ Settled(s)
                        \/ /\ s.waitOff => s.gpuPowered
                           /\ \A j \in Jobs : s.at[j] = "idle"
                           /\ \A c \in Ctxs : Context(c) \in s.refs => who = QueueHolder
  PROVE  /\ Good(S') /\ Same(s, S') /\ Resting(S)' /\ Awake(S)'
         /\ rest' \in [by : Holders \cup {Nobody}, step : RestSteps]
<1>. DEFINE u == UpdateActive(s)
<1>1. /\ u.step \in {"done", "clock_on", "power_off"}
      /\ CoresInv(u.st) /\ Same(s, u.st)
      /\ u.st.dropping \subseteq s.dropping
      /\ s.onRequired => u.st.onRequired
      /\ u.step = "power_off" => s.refs = {} /\ s.gpuPowered /\ GpuTicks = 0
      /\ u.step = "clock_on" => ~s.waitOff
      /\ s.refs # {} => \/ u.step = "clock_on"
                        \/ s.waitOff /\ u.st.onRequired
                        \/ s.gpuTicksLeft > 0
      /\ Ticking(s) /\ (GpuTicks > 0 /\ s.refs = {} /\ s.waitOff => s.onRequired)
           => Ticking(u.st)
  BY UpdateActiveIs DEF Good
<1>2. Becomes(u.st) /\ rest' = IF u.step = "done" THEN Free ELSE [by |-> who, step |-> u.step]
  BY DEF RunUpdateActive
<1>. HIDE DEF u
<1>3. S' = u.st
  BY <1>1, <1>2, BecomesIs DEF CoresInv, Backed
<1>4. ShaderKept(s) => ShaderKept(S')
  BY <1>1, <1>3 DEF ShaderKept, Same
<1>5. Good(S')
  <2>1. Placed(S')
    BY <1>1, <1>3 DEF Good, Placed, Same
  <2>2. Deferred(S')
    BY <1>1, <1>3, <1>4 DEF Good, Deferred, Same, Holding
  <2>. QED
    BY <1>1, <1>3, <2>1, <2>2 DEF Good, Same
<1>6. rest' \in [by : Holders \cup {Nobody}, step : RestSteps]
  BY <1>1, <1>2 DEF Free, RestSteps
<1>7. /\ u.step = "done" => rest'.step = "done" /\ rest' = Free
      /\ u.step # "done" => rest'.step = u.step /\ rest'.by = who
  BY <1>2 DEF Free
<1>8. Resting(S)'
  BY <1>1, <1>3, <1>7 DEF Resting, Same
<1>9. Awake(S)'
  <2>. SUFFICES ASSUME s.refs # {} PROVE Settled(S)' \/ Arriving(S)'
    BY <1>1, <1>3 DEF Awake, Same
  <2>1. CASE Settled(s)
    BY <1>1, <1>3, <1>4, <2>1 DEF Settled, Same
  <2>2. CASE /\ s.waitOff => s.gpuPowered
             /\ \A j \in Jobs : s.at[j] = "idle"
             /\ \A c \in Ctxs : Context(c) \in s.refs => who = QueueHolder
    <3>1. CASE u.step = "clock_on"
      <4>1. Arriving(S)'
        BY <1>1, <1>3, <1>7, <2>2, <3>1 DEF Arriving, Same
      <4>. QED
        BY <4>1
    <3>2. CASE s.waitOff /\ u.st.onRequired
      BY <1>1, <1>3, <2>2, <3>2 DEF Settled, Same, ShaderKept
    <3>3. CASE s.gpuTicksLeft > 0
      <4>1. ~(GpuTicks = 0)
        BY <3>3, Fields, PowerAssumption DEF Good, CoresInv, Backed
      <4>. QED
        BY <1>1, <1>3, <3>3, <4>1 DEF Settled, Same, Good, Ticking
    <3>. QED
      BY <1>1, <3>1, <3>2, <3>3
  <2>. QED
    BY <2>1, <2>2
<1>. QED
  BY <1>1, <1>3, <1>5, <1>6, <1>8, <1>9

-----------------------------------------------------------------------------
(* References.                                                              *)

\* A reference is taken.
LEMMA GetIs ==
  ASSUME PowerInv, NEW ref \in Holders, NEW who \in Holders, GetRef(S, ref, who),
         susp # "powering_off", \A c \in Ctxs : ref = Context(c) => who = QueueHolder
  PROVE  /\ Good(S') /\ Resting(S)' /\ Awake(S)'
         /\ rest' \in [by : Holders \cup {Nobody}, step : RestSteps]
         /\ S'.refs = S.refs \cup {ref} /\ S'.gpuPowered = S.gpuPowered
         /\ S'.waitOff = S.waitOff /\ S'.policy = S.policy
         /\ S'.at = S.at /\ S'.worker = S.worker
<1>. DEFINE t == [S EXCEPT !.refs = @ \cup {ref}]
<1>0. S \in HwStates /\ ~Locked
  BY StateIs DEF GetRef
<1>1. t \in HwStates
  BY <1>0 DEF HwStates
<1>2. /\ t.refs = S.refs \cup {ref} /\ t.gpuPowered = S.gpuPowered /\ t.waitOff = S.waitOff
      /\ t.onRequired = S.onRequired /\ t.gpuTicksLeft = S.gpuTicksLeft
      /\ t.timerNeeded = S.timerNeeded /\ t.timerRunning = S.timerRunning
      /\ t.policy = S.policy /\ t.desired = S.desired
      /\ t.avail = S.avail /\ t.dropping = S.dropping /\ t.dropTicks = S.dropTicks
      /\ t.ready = S.ready /\ t.trans = S.trans /\ t.at = S.at
      /\ t.coreref = S.coreref /\ t.worker = S.worker /\ t.spins = S.spins
  BY <1>0 DEF HwStates
<1>3. IF S.refs = {} THEN RunUpdateActive(t, who) ELSE Becomes(t) /\ UNCHANGED rest
  BY DEF GetRef
<1>. HIDE DEF t
<1>4. Good(S)
  BY DEF PowerInv
<1>5. ShaderKept(S) => ShaderKept(t)
  BY <1>2 DEF ShaderKept
<1>6. Good(t)
  <2>1. CoresInv(t) /\ Ticking(t)
    BY <1>1, <1>2, <1>4 DEF Good, CoresInv, Backed, Ticking
  <2>2. Placed(t)
    BY <1>2, <1>4 DEF Good, Placed
  <2>3. Deferred(t)
    BY <1>2, <1>4, <1>5 DEF Good, Deferred, Holding
  <2>. QED
    BY <1>2, <1>4, <2>1, <2>2, <2>3 DEF Good
<1>7. S.policy # "none" /\ (S.refs # {} => Settled(S)) /\ rest.step = "done"
  BY <1>0, UnlockedIsSettled
<1>8. CASE S.refs = {}
  <2>1. RunUpdateActive(t, who)
    BY <1>3, <1>8
  <2>2. t.refs # {}
    BY <1>2
  <2>3. t.waitOff => t.gpuPowered
    BY <1>2 DEF PowerInv, Suspending
  <2>4. \A j \in Jobs : t.at[j] = "idle"
    BY <1>2, <1>4, <1>8 DEF Good, Placed
  <2>5. \A c \in Ctxs : Context(c) \in t.refs => who = QueueHolder
    BY <1>2, <1>8
  <2>6. /\ Good(S') /\ Same(t, S') /\ Resting(S)' /\ Awake(S)'
        /\ rest' \in [by : Holders \cup {Nobody}, step : RestSteps]
    BY <1>2, <1>6, <1>7, <2>1, <2>2, <2>3, <2>4, <2>5, RunIs
  <2>. QED
    BY <1>2, <2>6 DEF Same
<1>9. CASE S.refs # {}
  <2>1. Becomes(t) /\ rest' = rest
    BY <1>3, <1>9
  <2>2. S' = t
    BY <1>1, <2>1, BecomesIs
  <2>3. Settled(S)'
    BY <1>2, <1>5, <1>7, <1>9, <2>2 DEF Settled
  <2>4. Resting(S)'
    BY <1>2, <1>7, <1>9, <2>1, <2>2 DEF PowerInv, Resting
  <2>. QED
    BY <1>2, <1>6, <2>1, <2>2, <2>3, <2>4 DEF Awake, PowerInv, ControlTypes
<1>. QED
  BY <1>8, <1>9

\* A reference is given back, by a step that leaves state s without it.
LEMMA PutIs ==
  ASSUME PowerInv, NEW ref, NEW who \in Holders, NEW s, PutRef(s, ref, who), Good(s),
         Still(S, s), ref \in S.refs,
         \A j \in Jobs : s.at[j] # "idle" => Context(CtxOf[j]) # ref,
         GpuTicks > 0 /\ Holding(s) => S.refs \ {ref} # {}
  PROVE  /\ Good(S') /\ Resting(S)' /\ Awake(S)'
         /\ rest' \in [by : Holders \cup {Nobody}, step : RestSteps]
         /\ S'.refs = S.refs \ {ref} /\ S'.gpuPowered = S.gpuPowered
         /\ S'.waitOff = S.waitOff /\ S'.policy = S.policy
         /\ S'.at = s.at /\ S'.worker = s.worker
<1>. DEFINE t == [s EXCEPT !.refs = @ \ {ref}]
<1>0. s \in HwStates /\ ~Locked
  BY DEF Good, CoresInv, Backed, PutRef
<1>1. t \in HwStates
  BY <1>0 DEF HwStates
<1>2. /\ t.refs = S.refs \ {ref} /\ t.gpuPowered = s.gpuPowered /\ t.waitOff = s.waitOff
      /\ t.onRequired = s.onRequired /\ t.gpuTicksLeft = s.gpuTicksLeft
      /\ t.timerNeeded = s.timerNeeded /\ t.timerRunning = s.timerRunning
      /\ t.policy = s.policy /\ t.desired = s.desired
      /\ t.avail = s.avail /\ t.dropping = s.dropping /\ t.dropTicks = s.dropTicks
      /\ t.ready = s.ready /\ t.trans = s.trans /\ t.at = s.at
      /\ t.coreref = s.coreref /\ t.worker = s.worker /\ t.spins = s.spins
  BY <1>0 DEF HwStates, Still
<1>3. IF t.refs = {} THEN RunUpdateActive(t, who) ELSE Becomes(t) /\ UNCHANGED rest
  BY DEF PutRef
<1>. HIDE DEF t
<1>4. ShaderKept(s) => ShaderKept(t)
  BY <1>2 DEF ShaderKept
<1>5. Good(t)
  <2>1. CoresInv(t) /\ Ticking(t)
    BY <1>1, <1>2 DEF Good, CoresInv, Backed, Ticking
  <2>2. Placed(t)
    BY <1>2 DEF Good, Placed, Still
  <2>3. Deferred(t)
    BY <1>2, <1>4 DEF Good, Deferred, Holding
  <2>. QED
    BY <1>2, <2>1, <2>2, <2>3 DEF Good
<1>6. S.policy # "none" /\ Settled(S) /\ rest.step = "done"
  BY <1>0, UnlockedIsSettled
<1>7. CASE t.refs = {}
  <2>1. RunUpdateActive(t, who)
    BY <1>3, <1>7
  <2>2. t.policy # "none" /\ (t.waitOff => t.onRequired)
    BY <1>2, <1>6 DEF Still, Settled
  <2>3. /\ Good(S') /\ Same(t, S') /\ Resting(S)' /\ Awake(S)'
        /\ rest' \in [by : Holders \cup {Nobody}, step : RestSteps]
    BY <1>5, <1>7, <2>1, <2>2, RunIs
  <2>. QED
    BY <1>2, <2>3 DEF Same, Still
<1>8. CASE t.refs # {}
  <2>1. Becomes(t) /\ rest' = rest
    BY <1>3, <1>8
  <2>2. S' = t
    BY <1>1, <2>1, BecomesIs
  <2>3. Settled(S)'
    BY <1>2, <1>4, <1>6, <2>2 DEF Settled, Still
  <2>4. Resting(S)'
    BY <1>2, <1>6, <2>1, <2>2 DEF PowerInv, Resting, Still
  <2>. QED
    BY <1>2, <1>5, <2>1, <2>2, <2>3, <2>4 DEF Awake, PowerInv, ControlTypes, Still
<1>. QED
  BY <1>7, <1>8

\* The end of a power-off: if it has to be undone the cores come back and the
\* slots are looked at.
LEMMA EndIs ==
  ASSUME NEW s, Good(s), s.policy # "none",
         s.refs # {} => s.gpuPowered /\ s.onRequired,
         NEW r \in EndPoweroff(s)
  PROVE  /\ Good(r) /\ r.refs = s.refs /\ r.gpuPowered = s.gpuPowered /\ ~r.waitOff
         /\ r.policy = s.policy /\ r.worker = s.worker
         /\ \A j \in Jobs : s.at[j] = "idle" => r.at[j] = "idle"
         /\ r.refs # {} => Settled(r)
<1>. DEFINE t == [s EXCEPT !.waitOff = FALSE, !.onRequired = FALSE]
<1>0. s \in HwStates
  BY DEF Good, CoresInv, Backed
<1>1. t \in HwStates
  BY <1>0 DEF HwStates
<1>2. /\ t.refs = s.refs /\ t.gpuPowered = s.gpuPowered /\ t.waitOff = FALSE
      /\ t.onRequired = FALSE /\ t.gpuTicksLeft = s.gpuTicksLeft
      /\ t.timerNeeded = s.timerNeeded /\ t.timerRunning = s.timerRunning
      /\ t.policy = s.policy /\ t.desired = s.desired
      /\ t.avail = s.avail /\ t.dropping = s.dropping /\ t.dropTicks = s.dropTicks
      /\ t.ready = s.ready /\ t.trans = s.trans /\ t.at = s.at
      /\ t.coreref = s.coreref /\ t.worker = s.worker /\ t.spins = s.spins
  BY <1>0 DEF HwStates
<1>3. r \in IF s.onRequired THEN UNION {SlotUpdate(u) : u \in UpdateCores(t)} ELSE {t}
  BY DEF EndPoweroff
<1>. HIDE DEF t
<1>4. CoresInv(t) /\ Ticking(t) /\ Placed(t)
  BY <1>1, <1>2 DEF Good, CoresInv, Backed, Ticking, Placed
<1>5. CASE s.refs = {}
  <2>1. \A j \in Jobs : s.at[j] = "idle"
    BY <1>5 DEF Good, Placed
  <2>2. Good(t)
    <3>1. Deferred(t)
      BY <1>2, <1>5 DEF Good, Deferred, Holding
    <3>. QED
      BY <1>2, <1>4, <3>1 DEF Good
  <2>3. CASE ~s.onRequired
    BY <1>2, <1>3, <1>5, <2>2, <2>3
  <2>4. CASE s.onRequired
    <3>1. PICK u \in UpdateCores(t) : r \in SlotUpdate(u)
      BY <1>3, <2>4
    <3>2. Updated(t, u)
      BY <1>4, <3>1, UpdateIs
    <3>3. Good(u)
      BY <2>2, <3>2, UpdatedIsGood
    <3>4. \A j \in Jobs : u.at[j] = "idle"
      BY <1>2, <2>1, <3>2 DEF Updated, CoreFrame
    <3>5. r = u
      BY <3>1, <3>4, NothingInSlots
    <3>. QED
      BY <1>2, <1>5, <3>2, <3>3, <3>4, <3>5 DEF Updated, CoreFrame, Frame
  <2>. QED
    BY <2>3, <2>4
<1>6. CASE s.refs # {}
  <2>1. PICK u \in UpdateCores(t) : r \in SlotUpdate(u)
    BY <1>3, <1>6
  <2>2. Updated(t, u) /\ ShaderKept(u)
    BY <1>2, <1>4, <1>6, <2>1, UpdateIs
  <2>3. /\ Frame(t, u) /\ u.at = t.at /\ u.coreref = t.coreref /\ u.spins = t.spins
        /\ t.trans \subseteq u.trans /\ u.timerNeeded = t.timerNeeded /\ CoresInv(u)
    BY <1>2, <1>6, <2>2 DEF Updated, CoreFrame, Frame
  <2>4. Ticking(u)
    BY <1>4, <2>3 DEF Ticking, Frame
  <2>5. Placed(u)
    BY <1>4, <2>3 DEF Placed, Frame
  <2>6. Deferred(u)
    BY <1>2, <1>6, <2>2, <2>3 DEF Good, Deferred, Frame, Holding
  <2>7. SlotPre(u)
    BY <1>2, <1>6, <2>2, <2>3, <2>4, <2>5, <2>6 DEF SlotPre, Good, Frame
  <2>8. SlotPre(r) /\ SlotFrame(u, r)
    BY <2>1, <2>7, SlotsAreGood
  <2>9. ShaderKept(r) /\ Frame(u, r)
    BY <2>2, <2>8 DEF SlotFrame
  <2>10. Settled(r)
    BY <1>2, <1>6, <2>3, <2>9 DEF Settled, Frame
  <2>11. \A j \in Jobs : s.at[j] = "idle" => r.at[j] = "idle"
    BY <1>2, <2>3, <2>8 DEF SlotFrame
  <2>. QED
    BY <1>2, <2>3, <2>8, <2>9, <2>10, <2>11 DEF SlotPre, Frame
<1>. QED
  BY <1>5, <1>6

-----------------------------------------------------------------------------
(* Atoms and timers.                                                        *)

LEMMA SettledPre ==
  ASSUME NEW s, Good(s), s.refs # {}, Settled(s)
  PROVE  SlotPre(s)
<1>1. GpuTicks = 0 \/ GpuTicks > 0
  BY PowerAssumption
<1>. QED
  BY <1>1 DEF SlotPre, Settled, Good, Deferred

LEMMA StillIs ==
  ASSUME NEW s, NEW t, NEW r, Still(s, t), SlotFrame(t, r)
  PROVE  /\ Still(s, r)
         /\ \A j \in Jobs : t.at[j] = "idle" => r.at[j] = "idle"
         /\ r.worker = t.worker
BY DEF Still, SlotFrame, Frame

\* An atom moves on.
LEMMA PlaceIs ==
  ASSUME NEW s, Good(s), NEW j \in Jobs, NEW place \in {"slot", "done", "return"},
         s.gpuPowered, Context(CtxOf[j]) \in s.refs,
         place = "slot" => s.coreref[j] # "ready",
         place = "return" => GpuTicks = 0
  PROVE  LET t == [s EXCEPT !.at[j] = place] IN
         /\ t \in HwStates /\ Good(t) /\ Still(s, t) /\ t.worker = s.worker
         /\ \A k \in Jobs : k # j => t.at[k] = s.at[k]
         /\ Settled(s) => Settled(t)
<1>. DEFINE t == [s EXCEPT !.at[j] = place]
<1>0. s \in HwStates
  BY DEF Good, CoresInv, Backed
<1>1. t \in HwStates
  BY <1>0 DEF HwStates, Places
<1>2. /\ t.refs = s.refs /\ t.gpuPowered = s.gpuPowered /\ t.waitOff = s.waitOff
      /\ t.onRequired = s.onRequired /\ t.gpuTicksLeft = s.gpuTicksLeft
      /\ t.timerNeeded = s.timerNeeded /\ t.timerRunning = s.timerRunning
      /\ t.policy = s.policy /\ t.desired = s.desired
      /\ t.avail = s.avail /\ t.dropping = s.dropping /\ t.dropTicks = s.dropTicks
      /\ t.ready = s.ready /\ t.trans = s.trans /\ t.at = [s.at EXCEPT ![j] = place]
      /\ t.coreref = s.coreref /\ t.worker = s.worker /\ t.spins = s.spins
  BY <1>0 DEF HwStates
<1>. HIDE DEF t
<1>3. t.at[j] = place /\ \A k \in Jobs : k # j => t.at[k] = s.at[k]
  BY <1>0, <1>2, Fields
<1>4. CoresInv(t) /\ Ticking(t)
  BY <1>1, <1>2 DEF Good, CoresInv, Backed, Ticking
<1>5. Placed(t)
  <2>. SUFFICES ASSUME NEW k \in Jobs
                PROVE  /\ t.at[k] = "idle" => t.coreref[k] = "none"
                       /\ t.at[k] # "idle" => t.gpuPowered /\ Context(CtxOf[k]) \in t.refs
                       /\ t.at[k] = "slot" => t.coreref[k] # "ready"
                       /\ t.at[k] = "hw" => Needs[k] \subseteq t.ready \cup t.trans
    BY DEF Placed
  <2>1. CASE k = j
    BY <1>2, <1>3, <2>1
  <2>2. CASE k # j
    BY <1>2, <1>3, <2>2 DEF Good, Placed
  <2>. QED
    BY <2>1, <2>2
<1>6. ShaderKept(t) <=> ShaderKept(s)
  BY <1>2 DEF ShaderKept
<1>7. Deferred(t)
  <2>1. SUFFICES ASSUME GpuTicks > 0 PROVE Deferred(t)
    BY DEF Deferred
  <2>2. place # "return"
    BY <2>1
  <2>3. \A k \in Jobs : t.at[k] # "return"
    BY <1>3, <2>1, <2>2 DEF Good, Deferred
  <2>. QED
    BY <1>2, <1>6, <2>1, <2>3 DEF Good, Deferred, Holding
<1>. QED
  <2>1. Good(t)
    BY <1>2, <1>4, <1>5, <1>7 DEF Good
  <2>2. Still(s, t)
    BY <1>2, <1>6 DEF Still
  <2>3. Settled(s) => Settled(t)
    BY <1>2, <1>6 DEF Settled
  <2>4. t.worker = s.worker
    BY <1>2
  <2>. QED
    BY <1>1, <1>3, <2>1, <2>2, <2>3, <2>4 DEF t

\* A worker moves on.
LEMMA WorkIs ==
  ASSUME NEW s, Good(s), NEW c \in Ctxs, NEW w \in Works,
         w.held \in {"none", s.worker[c].held},
         GpuTicks > 0 => w.step \notin {"idling", "update"}
  PROVE  LET t == [s EXCEPT !.worker[c] = w] IN
         /\ t \in HwStates /\ Good(t) /\ Still(s, t) /\ t.at = s.at
         /\ t.worker[c] = w /\ \A d \in Ctxs : d # c => t.worker[d] = s.worker[d]
         /\ Settled(s) => Settled(t)
         /\ Holding(t) => Holding(s)
<1>. DEFINE t == [s EXCEPT !.worker[c] = w]
<1>0. s \in HwStates
  BY DEF Good, CoresInv, Backed
<1>1. t \in HwStates
  BY <1>0 DEF HwStates
<1>2. /\ t.refs = s.refs /\ t.gpuPowered = s.gpuPowered /\ t.waitOff = s.waitOff
      /\ t.onRequired = s.onRequired /\ t.gpuTicksLeft = s.gpuTicksLeft
      /\ t.timerNeeded = s.timerNeeded /\ t.timerRunning = s.timerRunning
      /\ t.policy = s.policy /\ t.desired = s.desired
      /\ t.avail = s.avail /\ t.dropping = s.dropping /\ t.dropTicks = s.dropTicks
      /\ t.ready = s.ready /\ t.trans = s.trans /\ t.at = s.at
      /\ t.coreref = s.coreref /\ t.worker = [s.worker EXCEPT ![c] = w] /\ t.spins = s.spins
  BY <1>0 DEF HwStates
<1>. HIDE DEF t
<1>3. t.worker[c] = w /\ \A d \in Ctxs : d # c => t.worker[d] = s.worker[d]
  BY <1>0, <1>2, Fields
<1>4. CoresInv(t) /\ Ticking(t)
  BY <1>1, <1>2 DEF Good, CoresInv, Backed, Ticking
<1>5. Placed(t)
  BY <1>2 DEF Good, Placed
<1>6. ShaderKept(t) <=> ShaderKept(s)
  BY <1>2 DEF ShaderKept
<1>7. Holding(t) => Holding(s)
  BY <1>2, <1>3 DEF Holding
<1>8. Deferred(t)
  <2>1. SUFFICES ASSUME GpuTicks > 0 PROVE Deferred(t)
    BY DEF Deferred
  <2>2. \A d \in Ctxs : t.worker[d].step \notin {"idling", "update"}
    BY <1>3, <2>1 DEF Good, Deferred
  <2>. QED
    BY <1>2, <1>6, <1>7, <2>1, <2>2 DEF Good, Deferred
<1>. QED
  <2>1. Good(t)
    BY <1>2, <1>4, <1>5, <1>8 DEF Good
  <2>2. Still(s, t)
    BY <1>2, <1>6 DEF Still
  <2>3. Settled(s) => Settled(t)
    BY <1>2, <1>6 DEF Settled
  <2>4. t.at = s.at
    BY <1>2
  <2>. QED
    BY <1>1, <1>3, <1>7, <2>1, <2>2, <2>3, <2>4 DEF t

LEMMA PullStep == ASSUME PowerInv, NEW j \in Jobs, Pull(j) PROVE PowerInv'
<1>. DEFINE t == [S EXCEPT !.at[j] = "slot"]
<1>1. /\ sched # NoCtx /\ sched.ctx = CtxOf[j] /\ rest.by # QueueHolder /\ at[j] = "idle"
      /\ sched' = NoCtx /\ BecomesOneOf(SlotUpdate(t))
      /\ UNCHANGED <<other, rest>>
  BY DEF Pull, Returned
<1>2. Good(S) /\ Context(CtxOf[j]) \in S.refs
  BY <1>1 DEF PowerInv, Scheduling
<1>3. Settled(S)
  BY <1>1, <1>2, Names DEF PowerInv, Awake, Arriving
<1>4. S.coreref[j] = "none"
  BY <1>1, <1>2, Parts DEF Good, Placed
<1>5. Good(t) /\ Still(S, t) /\ t.worker = S.worker /\ Settled(t)
  BY <1>2, <1>3, <1>4, PlaceIs DEF Settled
<1>. HIDE DEF t
<1>6. SlotPre(t)
  BY <1>2, <1>5, SettledPre DEF Still
<1>7. PICK r \in SlotUpdate(t) : Becomes(r)
  BY <1>1 DEF BecomesOneOf
<1>8. SlotPre(r) /\ SlotFrame(t, r)
  BY <1>6, <1>7, SlotsAreGood
<1>9. S' = r
  BY <1>7, <1>8, BecomesIs DEF SlotPre, Good, CoresInv, Backed
<1>10. ControlTypes'
  BY <1>1 DEF PowerInv, ControlTypes, other
<1>. QED
  BY <1>1, <1>3, <1>5, <1>8, <1>9, <1>10, StillIs, StillStep DEF SlotPre, other

\* An atom that is on the hardware is there with the power settled.
LEMMA PulledIsSettled ==
  ASSUME PowerInv, NEW j \in Jobs, S.at[j] # "idle"
  PROVE  Settled(S) /\ S.gpuPowered /\ Context(CtxOf[j]) \in S.refs
BY DEF PowerInv, Good, Placed, Awake, Arriving

LEMMA JobIrqStep == ASSUME Undisturbed, PowerInv, NEW j \in Jobs, JobIrq(j) PROVE PowerInv'
<1>1. PICK end \in {"done"} \cup (IF Returns THEN {"return"} ELSE {}) :
        BecomesOneOf(SlotUpdate([S EXCEPT !.at[j] = end]))
  BY DEF JobIrq
<1>2. /\ at[j] = "hw" /\ UNCHANGED <<other, rest, sched>>
  BY DEF JobIrq
<1>. DEFINE t == [S EXCEPT !.at[j] = end]
<1>3. Good(S) /\ S.at[j] = "hw"
  BY <1>2, Parts DEF PowerInv
<1>4. Settled(S) /\ S.gpuPowered /\ Context(CtxOf[j]) \in S.refs
  BY <1>3, PulledIsSettled
<1>5. end \in {"slot", "done", "return"} /\ end # "slot" /\ end # "idle"
      /\ (end = "return" => GpuTicks = 0)
  BY DEF Undisturbed
<1>6. /\ Good(t) /\ Still(S, t) /\ t.worker = S.worker /\ Settled(t)
      /\ \A k \in Jobs : k # j => t.at[k] = S.at[k]
  BY <1>3, <1>4, <1>5, PlaceIs
<1>. HIDE DEF t
<1>7. SlotPre(t)
  BY <1>4, <1>6, SettledPre DEF Still
<1>8. PICK r \in SlotUpdate(t) : Becomes(r)
  BY <1>1 DEF BecomesOneOf, t
<1>9. SlotPre(r) /\ SlotFrame(t, r)
  BY <1>7, <1>8, SlotsAreGood
<1>10. S' = r
  BY <1>8, <1>9, BecomesIs DEF SlotPre, Good, CoresInv, Backed
<1>11. ControlTypes'
  BY <1>2 DEF PowerInv, ControlTypes, other
<1>12. \A k \in Jobs : S.at[k] = "idle" => S'.at[k] = "idle"
  BY <1>3, <1>6, <1>9, <1>10, StillIs
<1>. QED
  BY <1>2, <1>6, <1>9, <1>10, <1>11, <1>12, StillIs, StillStep DEF SlotPre, other

LEMMA EvictStep == ASSUME Undisturbed, PowerInv, NEW j \in Jobs, Evict(j) PROVE PowerInv'
<1>. DEFINE t == [S EXCEPT !.at[j] = "return"]
<1>1. Returns /\ at[j] = "slot" /\ Becomes(t) /\ UNCHANGED <<other, rest, sched>>
  BY DEF Evict
<1>2. Good(S) /\ S.at[j] = "slot" /\ GpuTicks = 0
  BY <1>1, Parts DEF PowerInv, Undisturbed
<1>3. S.gpuPowered /\ Context(CtxOf[j]) \in S.refs
  BY <1>2, PulledIsSettled
<1>4. /\ t \in HwStates /\ Good(t) /\ Still(S, t) /\ t.worker = S.worker
      /\ \A k \in Jobs : k # j => t.at[k] = S.at[k]
  BY <1>2, <1>3, PlaceIs
<1>. HIDE DEF t
<1>5. S' = t
  BY <1>1, <1>4, BecomesIs
<1>6. ControlTypes'
  BY <1>1 DEF PowerInv, ControlTypes, other
<1>7. \A k \in Jobs : S.at[k] = "idle" => S'.at[k] = "idle"
  BY <1>2, <1>4, <1>5
<1>. QED
  BY <1>1, <1>4, <1>5, <1>6, <1>7, StillStep DEF other

\* A worker that only moves on.
LEMMA WorkStep ==
  ASSUME PowerInv, NEW c \in Ctxs, NEW w \in Works, Becomes([S EXCEPT !.worker[c] = w]),
         w.held \in {"none", S.worker[c].held}, S.worker[c] # NoWork,
         GpuTicks > 0 => w.step \notin {"idling", "update"},
         UNCHANGED <<other, rest, sched>>
  PROVE  PowerInv'
<1>. DEFINE t == [S EXCEPT !.worker[c] = w]
<1>1. Good(S)
  BY DEF PowerInv
<1>2. /\ t \in HwStates /\ Good(t) /\ Still(S, t) /\ t.at = S.at
      /\ \A d \in Ctxs : d # c => t.worker[d] = S.worker[d]
  BY <1>1, WorkIs
<1>. HIDE DEF t
<1>3. S' = t
  BY <1>2, BecomesIs DEF t
<1>4. ControlTypes'
  BY DEF PowerInv, ControlTypes, other
<1>5. \A d \in Ctxs : S'.worker[d] # NoWork => S.worker[d] # NoWork
  BY <1>2, <1>3
<1>. QED
  BY <1>2, <1>3, <1>4, <1>5, StillStep DEF other

LEMMA ReturnUnlockStep == ASSUME PowerInv, NEW c \in Ctxs, ReturnUnlock(c) PROVE PowerInv'
<1>. DEFINE w == [S.worker[c] EXCEPT !.step = "release"]
<1>1. worker[c].step = "idling" /\ Becomes([S EXCEPT !.worker[c] = w]) /\ UNCHANGED <<other, rest, sched>>
  BY DEF ReturnUnlock
<1>2. S.worker[c] \in Works
  BY StateIs, Fields
<1>3. w \in Works /\ w.held = S.worker[c].held /\ w.step = "release"
  BY <1>2 DEF Works
<1>4. S.worker[c] # NoWork
  BY <1>1, Parts DEF NoWork
<1>. HIDE DEF w
<1>. QED
  BY <1>1, <1>3, <1>4, WorkStep

LEMMA PostCheckStep == ASSUME PowerInv, NEW c \in Ctxs, PostCheck(c) PROVE PowerInv'
<1>. DEFINE next == IF refs = {} THEN "update" ELSE "drop"
            w == [S.worker[c] EXCEPT !.step = next]
<1>1. worker[c].step = "check" /\ Becomes([S EXCEPT !.worker[c] = w]) /\ UNCHANGED <<other, rest, sched>>
  BY DEF PostCheck
<1>2. S.worker[c] \in Works
  BY StateIs, Fields
<1>3. S.worker[c] # NoWork
  BY <1>1, Parts DEF NoWork
<1>4. GpuTicks > 0 => next = "drop"
  BY <1>3, Parts DEF PowerInv, Counted
<1>5. next \in {"update", "drop"}
  OBVIOUS
<1>. HIDE DEF next
<1>6. w \in Works /\ w.held = S.worker[c].held /\ w.step = next
  BY <1>2, <1>5 DEF Works
<1>. HIDE DEF w
<1>. QED
  BY <1>1, <1>3, <1>4, <1>6, WorkStep

LEMMA PostReleaseStep == ASSUME PowerInv, NEW c \in Ctxs, PostRelease(c) PROVE PowerInv'
<1>. DEFINE w == [S.worker[c] EXCEPT !.held = "none", !.step = "check"]
            t == [S EXCEPT !.worker[c] = w]
<1>1. /\ worker[c].step = "release" /\ UNCHANGED <<other, rest, sched>>
      /\ BecomesOneOf(Recount(S, [S EXCEPT !.worker[c].held = "none", !.worker[c].step = "check"]))
  BY DEF PostRelease
<1>2. S.worker[c] \in Works /\ S \in HwStates
  BY StateIs, Fields
<1>3. t = [S EXCEPT !.worker[c].held = "none", !.worker[c].step = "check"]
  BY <1>2 DEF HwStates
<1>4. w \in Works /\ w.held = "none" /\ w.step = "check"
  BY <1>2 DEF Works, Corerefs
<1>5. S.worker[c] # NoWork
  BY <1>1, Parts DEF NoWork
<1>. HIDE DEF w
<1>6. /\ Good(t) /\ Still(S, t) /\ t.at = S.at
      /\ \A d \in Ctxs : d # c => t.worker[d] = S.worker[d]
  BY <1>4, WorkIs DEF PowerInv
<1>7. PICK r \in Recount(S, t) : Becomes(r)
  BY <1>1, <1>3 DEF BecomesOneOf
<1>. HIDE DEF t
<1>8. Good(r) /\ Still(S, r) /\ r.at = t.at /\ r.worker = t.worker
  <2>1. CASE r = t
    BY <1>6, <2>1
  <2>2. CASE r \in UpdateCores(t)
    <3>1. Updated(t, r)
      BY <1>6, <2>2, UpdateIs DEF Good
    <3>2. Good(r)
      BY <1>6, <3>1, UpdatedIsGood
    <3>. QED
      BY <1>6, <3>1, <3>2 DEF Updated, CoreFrame, Frame, Still
  <2>. QED
    BY <1>7, <2>1, <2>2 DEF Recount
<1>9. S' = r
  BY <1>7, <1>8, BecomesIs DEF Good, CoresInv, Backed
<1>10. ControlTypes'
  BY <1>1 DEF PowerInv, ControlTypes, other
<1>11. \A d \in Ctxs : S'.worker[d] # NoWork => S.worker[d] # NoWork
  BY <1>5, <1>6, <1>8, <1>9
<1>. QED
  BY <1>1, <1>6, <1>8, <1>9, <1>10, <1>11, StillStep DEF other

LEMMA TimerTickStep == ASSUME PowerInv, TimerTick PROVE PowerInv'
<1>. DEFINE ticks == IF dropping = {} THEN dropTicks ELSE dropTicks - 1
            counted == [S EXCEPT !.dropTicks = ticks]
            dropped == IF dropping # {} /\ counted.dropTicks = 0 THEN DropCores(counted) ELSE {counted}
<1>1. /\ BecomesOneOf({[t EXCEPT !.timerRunning = t.timerNeeded] : t \in dropped})
      /\ tickWork' = (tickWork \/ gpuTicksLeft > 0)
      /\ UNCHANGED <<sched, suspending, rest, offWork, powerIrq, faults, susp, setter>>
  <2>1. S.dropTicks = dropTicks
    BY Parts
  <2>2. counted = [S EXCEPT !.dropTicks = IF dropping = {} THEN @ ELSE @ - 1]
    BY <2>1
  <2>. QED
    BY <2>2 DEF TimerTick
<1>2. /\ S \in HwStates /\ (dropping # {} <=> dropTicks > 0) /\ Backed(S) /\ Good(S)
      /\ dropTicks \in 0..ShaderTicks /\ ShaderTicks \in Nat
  BY StateIs, Parts, Fields, PowerAssumption DEF CoresInv, PowerInv
<1>3. ticks \in 0..ShaderTicks /\ (dropping = {} => ticks = 0)
  BY <1>2
<1>4. /\ Backed(counted) /\ CoreFrame(S, counted) /\ counted.trans = S.trans
      /\ counted.desired = S.desired /\ counted.dropping = S.dropping
      /\ counted.dropTicks = ticks /\ counted.timerNeeded = S.timerNeeded
  <2>. HIDE DEF ticks
  <2>1. counted \in HwStates
    BY <1>2, <1>3 DEF HwStates
  <2>2. /\ CoreFrame(S, counted) /\ counted.trans = S.trans /\ counted.avail = S.avail
        /\ counted.desired = S.desired /\ counted.dropping = S.dropping
        /\ counted.dropTicks = ticks /\ counted.timerNeeded = S.timerNeeded
    BY <1>2 DEF HwStates, CoreFrame, Frame
  <2>. QED
    BY <1>2, <2>1, <2>2 DEF Backed, CoreFrame, Frame
<1>5. PICK t \in dropped : Becomes([t EXCEPT !.timerRunning = t.timerNeeded])
  BY <1>1 DEF BecomesOneOf
<1>. HIDE DEF counted
<1>6. /\ CoresInv(t) /\ CoreFrame(S, t) /\ S.trans \subseteq t.trans
      /\ t.timerNeeded = S.timerNeeded /\ (ShaderKept(S) => ShaderKept(t))
  <2>1. CASE dropping # {} /\ counted.dropTicks = 0
    <3>1. t \in DropCores(counted)
      BY <1>5, <2>1
    <3>2. /\ Backed(t) /\ CoreFrame(counted, t) /\ counted.trans \subseteq t.trans
          /\ t.desired = counted.desired \ counted.dropping /\ t.dropping = {}
          /\ t.dropTicks = counted.dropTicks /\ t.timerNeeded = counted.timerNeeded
      BY <1>4, <3>1, DropIs
    <3>. QED
      BY <1>4, <2>1, <3>2 DEF CoresInv, CoreFrame, Frame, ShaderKept
  <2>2. CASE ~(dropping # {} /\ counted.dropTicks = 0)
    <3>1. t = counted
      BY <1>5, <2>2
    <3>2. t.dropping # {} <=> t.dropTicks > 0
      <4>. HIDE DEF ticks
      <4>1. t.dropping = dropping /\ t.dropTicks = ticks /\ ticks \in 0..ShaderTicks
        BY <1>3, <1>4, <3>1, Parts
      <4>2. dropping # {} => ticks # 0
        BY <1>4, <2>2
      <4>. QED
        BY <1>2, <1>3, <4>1, <4>2
    <3>. QED
      BY <1>4, <3>1, <3>2 DEF CoresInv, CoreFrame, Frame, ShaderKept
  <2>. QED
    BY <2>1, <2>2
<1>. DEFINE r == [t EXCEPT !.timerRunning = t.timerNeeded]
<1>7. t \in HwStates
  BY <1>6 DEF CoresInv, Backed
<1>8. r \in HwStates
  BY <1>7 DEF HwStates
<1>9. /\ r.refs = t.refs /\ r.gpuPowered = t.gpuPowered /\ r.waitOff = t.waitOff
      /\ r.onRequired = t.onRequired /\ r.gpuTicksLeft = t.gpuTicksLeft
      /\ r.timerNeeded = t.timerNeeded /\ r.timerRunning = t.timerNeeded
      /\ r.policy = t.policy /\ r.desired = t.desired
      /\ r.avail = t.avail /\ r.dropping = t.dropping /\ r.dropTicks = t.dropTicks
      /\ r.ready = t.ready /\ r.trans = t.trans /\ r.at = t.at
      /\ r.coreref = t.coreref /\ r.worker = t.worker /\ r.spins = t.spins
  BY <1>7 DEF HwStates
<1>10. S' = r
  BY <1>5, <1>8, BecomesIs
<1>. HIDE DEF r, dropped
<1>11. Good(r)
  <2>1. CoresInv(r)
    BY <1>6, <1>8, <1>9 DEF CoresInv, Backed
  <2>2. Ticking(r)
    BY <1>2, <1>6, <1>9 DEF Good, Ticking, CoreFrame, Frame
  <2>3. Placed(r)
    BY <1>2, <1>6, <1>9 DEF Good, Placed, CoreFrame, Frame
  <2>4. Deferred(r)
    BY <1>2, <1>6, <1>9 DEF Good, Deferred, CoreFrame, Frame, Holding, ShaderKept
  <2>. QED
    BY <1>2, <1>6, <1>9, <2>1, <2>2, <2>3, <2>4 DEF Good, CoreFrame
<1>12. Still(S, r) /\ r.at = S.at /\ r.worker = S.worker
  BY <1>6, <1>9 DEF Still, CoreFrame, Frame, ShaderKept
<1>13. ControlTypes'
  BY <1>1 DEF PowerInv, ControlTypes
<1>. QED
  BY <1>1, <1>10, <1>11, <1>12, <1>13, StillStep

LEMMA CorePoweredStep == ASSUME PowerInv, NEW u, CorePowered(u) PROVE PowerInv'
<1>. DEFINE on == S.ready \cup {u}
            left == S.trans \ {u}
            t == [S EXCEPT !.ready = on, !.trans = left]
<1>0. S \in HwStates /\ Good(S)
  BY StateIs DEF PowerInv
<1>1. /\ u \in trans /\ powerIrq' = IrqsOn
      /\ UNCHANGED <<sched, suspending, rest, offWork, tickWork, faults, susp, setter>>
  BY DEF CorePowered
<1>3. u \in S.trans /\ on \subseteq Types \cup {"l2"} /\ left \subseteq Types \cup {"l2"}
      /\ on \cup left = S.ready \cup S.trans
  BY <1>0, <1>1, Parts, Fields
<1>. HIDE DEF on, left
<1>4. t \in HwStates
  BY <1>0, <1>3 DEF HwStates
<1>5. /\ t.refs = S.refs /\ t.gpuPowered = S.gpuPowered /\ t.waitOff = S.waitOff
      /\ t.onRequired = S.onRequired /\ t.gpuTicksLeft = S.gpuTicksLeft
      /\ t.timerNeeded = S.timerNeeded /\ t.timerRunning = S.timerRunning
      /\ t.policy = S.policy /\ t.desired = S.desired
      /\ t.avail = S.avail /\ t.dropping = S.dropping /\ t.dropTicks = S.dropTicks
      /\ t.ready = on /\ t.trans = left /\ t.offPending = S.offPending
      /\ t.timerRunning = S.timerRunning /\ t.at = S.at
      /\ t.coreref = S.coreref /\ t.worker = S.worker /\ t.spins = S.spins
  BY <1>0 DEF HwStates
<1>. HIDE DEF t
<1>2. S' = t
  <2>1. Becomes(t)
    BY <1>5, Parts DEF CorePowered, Becomes, on, left
  <2>. QED
    BY <1>4, <2>1, BecomesIs
<1>6. Good(t)
  <2>1. CoresInv(t) /\ Ticking(t)
    BY <1>0, <1>3, <1>4, <1>5 DEF Good, CoresInv, Backed, Ticking
  <2>2. Placed(t)
    BY <1>0, <1>3, <1>5 DEF Good, Placed
  <2>3. Deferred(t)
    BY <1>0, <1>5 DEF Good, Deferred, Holding, ShaderKept
  <2>. QED
    BY <1>0, <1>5, <2>1, <2>2, <2>3 DEF Good
<1>7. Still(S, t)
  BY <1>5 DEF Still, ShaderKept
<1>8. ControlTypes'
  <2>1. IrqsOn \in BOOLEAN
    BY DEF IrqsOn
  <2>. QED
    BY <1>1, <2>1 DEF PowerInv, ControlTypes
<1>. QED
  BY <1>1, <1>2, <1>5, <1>6, <1>7, <1>8, StillStep

LEMMA PowerIrqStep == ASSUME PowerInv, PowerIrq PROVE PowerInv'
<1>1. PICK t \in CheckTransitions(S) :
        \E r \in IF t.desired \subseteq t.avail THEN SlotUpdate(t) ELSE {t} : Becomes(r)
  BY DEF PowerIrq, BecomesOneOf
<1>2. PICK r \in IF t.desired \subseteq t.avail THEN SlotUpdate(t) ELSE {t} : Becomes(r)
  BY <1>1
<1>3. /\ powerIrq' = FALSE
      /\ UNCHANGED <<sched, suspending, rest, offWork, tickWork, faults, susp, setter>>
  BY DEF PowerIrq
<1>4. Good(S) /\ CoresInv(S) /\ Backed(S)
  BY DEF PowerInv, Good, CoresInv
<1>5. /\ Backed(t) /\ CoreFrame(S, t) /\ S.trans \subseteq t.trans
      /\ t.desired = S.desired /\ t.dropping = S.dropping
      /\ t.dropTicks = S.dropTicks /\ t.timerNeeded = S.timerNeeded
  BY <1>4, TransitionIs
<1>6. ShaderKept(S) => ShaderKept(t)
  BY <1>5 DEF ShaderKept, CoreFrame, Frame
<1>7. Updated(S, t) /\ Good(t)
  <2>1. Updated(S, t)
    BY <1>4, <1>5, <1>6 DEF Updated, CoresInv
  <2>. QED
    BY <1>4, <2>1, UpdatedIsGood
<1>8. Still(S, t) /\ t.at = S.at /\ t.worker = S.worker
  BY <1>5, <1>6 DEF Still, CoreFrame, Frame
<1>9. Good(r) /\ Still(S, r) /\ r.worker = S.worker
      /\ \A j \in Jobs : S.at[j] = "idle" => r.at[j] = "idle"
  <2>1. CASE r = t
    BY <1>7, <1>8, <2>1
  <2>2. CASE r \in SlotUpdate(t)
    <3>1. CASE \A j \in Jobs : S.at[j] = "idle"
      <4>1. r = t
        BY <1>8, <2>2, <3>1, NothingInSlots
      <4>. QED
        BY <1>7, <1>8, <4>1
    <3>2. CASE \E j \in Jobs : S.at[j] # "idle"
      <4>1. Settled(S) /\ S.refs # {}
        BY <3>2, PulledIsSettled
      <4>2. Settled(t)
        BY <1>6, <1>8, <4>1 DEF Settled, Still
      <4>3. SlotPre(t)
        BY <1>7, <1>8, <4>1, <4>2, SettledPre DEF Still
      <4>4. SlotPre(r) /\ SlotFrame(t, r)
        BY <2>2, <4>3, SlotsAreGood
      <4>. QED
        BY <1>8, <4>4, StillIs DEF SlotPre
    <3>. QED
      BY <3>1, <3>2
  <2>. QED
    BY <1>2, <2>1, <2>2
<1>10. S' = r
  BY <1>2, <1>9, BecomesIs DEF Good, CoresInv, Backed
<1>11. ControlTypes'
  BY <1>3 DEF PowerInv, ControlTypes
<1>. QED
  BY <1>3, <1>9, <1>10, <1>11, StillStep

\* Steps that leave what hwaccess_lock protects alone.
LEMMA FaultStep == ASSUME PowerInv, Fault \/ FaultHandled PROVE PowerInv'
<1>1. /\ UNCHANGED hwVars /\ faults' \in BOOLEAN
      /\ UNCHANGED <<sched, suspending, rest, offWork, tickWork, powerIrq, susp, setter>>
  BY DEF Fault, FaultHandled
<1>2. S' = S
  BY <1>1, NothingChanged
<1>3. Still(S, S') /\ Good(S')
  BY <1>2 DEF Still, PowerInv
<1>4. ControlTypes'
  BY <1>1 DEF PowerInv, ControlTypes
<1>. QED
  BY <1>1, <1>2, <1>3, <1>4, StillStep

-----------------------------------------------------------------------------
(* The power-off and its worker.                                            *)

LEMMA EmptyStep ==
  ASSUME PowerInv, ControlTypes', Good(S'), PoweringOff(S)', Suspending(S)', Resting(S)',
         S.refs = {}, S'.refs = {}, S'.worker = S.worker, UNCHANGED <<sched, setter>>
  PROVE  PowerInv'
<1>1. sched = NoCtx /\ setter = "idle"
  BY DEF PowerInv, Scheduling, Setting
<1>2. Setting(S)' /\ Scheduling(S)' /\ Awake(S)'
  BY <1>1 DEF Setting, Scheduling, Awake
<1>3. Counted(S)'
  BY DEF PowerInv, Counted
<1>. QED
  BY <1>2, <1>3 DEF PowerInv

\* A power-off begins when nobody holds a reference.
LEMMA DoPoweroffIs ==
  ASSUME NEW s, Good(s), s.refs = {}, s.gpuTicksLeft = 0
  PROVE  LET t == DoPoweroff(s) IN
         /\ t \in HwStates /\ Good(t) /\ t.refs = {} /\ t.gpuPowered = s.gpuPowered /\ t.waitOff
         /\ t.policy = s.policy /\ t.at = s.at /\ t.worker = s.worker
<1>. DEFINE t == [s EXCEPT !.desired = {}, !.avail = {}, !.waitOff = TRUE]
<1>0. s \in HwStates
  BY DEF Good, CoresInv, Backed
<1>1. CASE s.waitOff
  BY <1>0, <1>1 DEF DoPoweroff
<1>2. CASE ~s.waitOff
  <2>0. DoPoweroff(s) = t
    BY <1>2 DEF DoPoweroff
  <2>1. t \in HwStates
    BY <1>0 DEF HwStates
  <2>2. /\ t.refs = s.refs /\ t.gpuPowered = s.gpuPowered /\ t.waitOff = TRUE
        /\ t.onRequired = s.onRequired /\ t.gpuTicksLeft = s.gpuTicksLeft
        /\ t.policy = s.policy /\ t.desired = {} /\ t.avail = {}
        /\ t.dropping = s.dropping /\ t.dropTicks = s.dropTicks
        /\ t.ready = s.ready /\ t.trans = s.trans /\ t.at = s.at
        /\ t.coreref = s.coreref /\ t.worker = s.worker /\ t.spins = s.spins
    BY <1>0 DEF HwStates
  <2>. HIDE DEF t
  <2>3. CoresInv(t) /\ Ticking(t)
    BY <2>1, <2>2 DEF Good, CoresInv, Backed, Ticking
  <2>4. Placed(t)
    BY <2>2 DEF Good, Placed
  <2>5. Deferred(t)
    BY <2>2 DEF Good, Deferred, Holding
  <2>6. Good(t)
    BY <2>2, <2>3, <2>4, <2>5 DEF Good
  <2>. QED
    BY <2>0, <2>1, <2>2, <2>6
<1>. QED
  BY <1>1, <1>2

LEMMA RestPowerOffStep == ASSUME PowerInv, RestPowerOff PROVE PowerInv'
<1>1. /\ rest.step = "power_off" /\ Becomes(DoPoweroff(S)) /\ rest' = Free
      /\ offWork' = IF waitOff THEN offWork ELSE "queued"
      /\ UNCHANGED <<sched, suspending, tickWork, powerIrq, faults, susp, setter>>
  BY DEF RestPowerOff
<1>2. Good(S) /\ S.refs = {} /\ S.gpuPowered /\ GpuTicks = 0 /\ S.policy # "none"
  BY <1>1 DEF PowerInv, Resting
<1>3. S.gpuTicksLeft = 0
  BY <1>2, StateIs, Fields
<1>. DEFINE t == DoPoweroff(S)
<1>4. /\ t \in HwStates /\ Good(t) /\ t.refs = {} /\ t.gpuPowered = S.gpuPowered /\ t.waitOff
      /\ t.policy = S.policy /\ t.at = S.at /\ t.worker = S.worker
  BY <1>2, <1>3, DoPoweroffIs
<1>. HIDE DEF t
<1>5. S' = t
  BY <1>1, <1>4, BecomesIs DEF t
<1>6. PoweringOff(S)'
  BY <1>1, <1>4, <1>5, Parts DEF PowerInv, PoweringOff
<1>7. Suspending(S)'
  BY <1>1, <1>2, <1>4, <1>5 DEF PowerInv, Suspending
<1>8. Resting(S)'
  BY <1>1, <1>2, <1>4, <1>5 DEF Resting, Free
<1>9. ControlTypes'
  BY <1>1 DEF PowerInv, ControlTypes, Free, RestSteps
<1>. QED
  BY <1>1, <1>2, <1>4, <1>5, <1>6, <1>7, <1>8, <1>9, EmptyStep

LEMMA TickWorkStep == ASSUME PowerInv, TickWork PROVE PowerInv'
<1>. DEFINE left == IF S.gpuTicksLeft = 0 THEN 0 ELSE S.gpuTicksLeft - 1
            counted == [S EXCEPT !.gpuTicksLeft = left]
            expired == gpuTicksLeft = 1 /\ ~CoreActive(S)
            idle == [counted EXCEPT !.timerNeeded = FALSE, !.timerRunning = FALSE]
<1>1. /\ ~Locked /\ tickWork' = FALSE
      /\ Becomes(IF expired THEN DoPoweroff(idle) ELSE counted)
      /\ offWork' = IF expired /\ ~waitOff THEN "queued" ELSE offWork
      /\ UNCHANGED <<sched, suspending, rest, powerIrq, faults, susp, setter>>
  BY DEF TickWork
<1>2. S \in HwStates /\ Good(S) /\ S.gpuTicksLeft \in 0..GpuTicks /\ GpuTicks \in Nat
  BY StateIs, Fields, PowerAssumption DEF PowerInv
<1>3. left \in 0..GpuTicks /\ (left > 0 => S.gpuTicksLeft > 0)
  BY <1>2
<1>. HIDE DEF expired
<1>4. counted \in HwStates
  <2>. HIDE DEF left
  <2>. QED
    BY <1>2, <1>3 DEF HwStates
<1>5. /\ counted.refs = S.refs /\ counted.gpuPowered = S.gpuPowered /\ counted.waitOff = S.waitOff
      /\ counted.onRequired = S.onRequired /\ counted.gpuTicksLeft = left
      /\ counted.timerNeeded = S.timerNeeded /\ counted.timerRunning = S.timerRunning
      /\ counted.policy = S.policy /\ counted.desired = S.desired
      /\ counted.avail = S.avail /\ counted.dropping = S.dropping /\ counted.dropTicks = S.dropTicks
      /\ counted.ready = S.ready /\ counted.trans = S.trans /\ counted.at = S.at
      /\ counted.coreref = S.coreref /\ counted.worker = S.worker /\ counted.spins = S.spins
  BY <1>2 DEF HwStates
<1>. HIDE DEF counted
<1>6. Good(counted)
  <2>1. CoresInv(counted)
    BY <1>2, <1>4, <1>5 DEF Good, CoresInv, Backed
  <2>2. Ticking(counted)
    <3>. HIDE DEF left
    <3>. QED
      BY <1>2, <1>3, <1>5 DEF Good, Ticking
  <2>3. Placed(counted)
    BY <1>2, <1>5 DEF Good, Placed
  <2>4. Deferred(counted)
    BY <1>2, <1>5 DEF Good, Deferred, Holding, ShaderKept
  <2>. QED
    BY <1>2, <1>5, <2>1, <2>2, <2>3, <2>4 DEF Good
<1>7. CASE ~expired
  <2>1. S' = counted
    BY <1>1, <1>4, <1>7, BecomesIs
  <2>2. Still(S, S') /\ S'.at = S.at /\ S'.worker = S.worker
    BY <1>5, <2>1 DEF Still, ShaderKept
  <2>3. ControlTypes' /\ offWork' = offWork
    BY <1>1, <1>7 DEF PowerInv, ControlTypes
  <2>. QED
    BY <1>1, <1>6, <2>1, <2>2, <2>3, StillStep
<1>8. CASE expired
  <2>1. S.refs = {} /\ S.gpuTicksLeft = 1
    BY <1>8, Parts DEF expired, CoreActive
  <2>2. S.gpuPowered /\ left = 0
    BY <1>2, <2>1 DEF Good, Ticking
  <2>3. idle \in HwStates
    BY <1>4 DEF HwStates
  <2>4. /\ idle.refs = S.refs /\ idle.gpuPowered = S.gpuPowered /\ idle.waitOff = S.waitOff
        /\ idle.onRequired = S.onRequired /\ idle.gpuTicksLeft = 0
        /\ idle.policy = S.policy /\ idle.desired = S.desired
        /\ idle.avail = S.avail /\ idle.dropping = S.dropping /\ idle.dropTicks = S.dropTicks
        /\ idle.ready = S.ready /\ idle.trans = S.trans /\ idle.at = S.at
        /\ idle.coreref = S.coreref /\ idle.worker = S.worker /\ idle.spins = S.spins
    BY <1>4, <1>5, <2>2 DEF HwStates
  <2>. HIDE DEF idle
  <2>5. Good(idle)
    <3>1. CoresInv(idle) /\ Ticking(idle)
      BY <1>2, <2>3, <2>4 DEF Good, CoresInv, Backed, Ticking
    <3>2. Placed(idle)
      BY <1>2, <2>4 DEF Good, Placed
    <3>3. Deferred(idle)
      BY <1>2, <2>4 DEF Good, Deferred, Holding, ShaderKept
    <3>. QED
      BY <1>2, <2>4, <3>1, <3>2, <3>3 DEF Good
  <2>. DEFINE t == DoPoweroff(idle)
  <2>6. /\ t \in HwStates /\ Good(t) /\ t.refs = {} /\ t.gpuPowered = S.gpuPowered /\ t.waitOff
        /\ t.policy = S.policy /\ t.at = S.at /\ t.worker = S.worker
    BY <2>1, <2>4, <2>5, DoPoweroffIs
  <2>. HIDE DEF t
  <2>7. S' = t
    BY <1>1, <1>8, <2>6, BecomesIs DEF t
  <2>8. PoweringOff(S)'
    BY <1>1, <1>8, <2>6, <2>7, Parts DEF PowerInv, PoweringOff
  <2>9. Suspending(S)'
    BY <1>1, <2>1, <2>2, <2>6, <2>7 DEF PowerInv, Suspending
  <2>10. Resting(S)'
    <3>1. rest'.step = "done" /\ rest' = rest /\ S.policy # "none"
      BY <1>1, UnlockedIsSettled
    <3>. QED
      BY <2>6, <2>7, <3>1 DEF PowerInv, Resting
  <2>11. ControlTypes'
    BY <1>1 DEF PowerInv, ControlTypes
  <2>. QED
    BY <1>1, <2>1, <2>6, <2>7, <2>8, <2>9, <2>10, <2>11, EmptyStep
<1>. QED
  BY <1>7, <1>8

\* The worker's power-off comes to its end.
LEMMA PoweroffEnds ==
  ASSUME PowerInv, ~Locked, NEW s, Good(s), s.policy = S.policy, s.refs = S.refs, s.at = S.at,
         s.worker = S.worker,
         s.refs # {} => s.gpuPowered /\ s.onRequired,
         BecomesOneOf(EndPoweroff(s)), offWork' = "idle",
         powerIrq' \in BOOLEAN, UNCHANGED <<sched, suspending, rest, tickWork, faults, susp, setter>>
  PROVE  PowerInv'
<1>1. S.policy # "none" /\ rest.step = "done"
  BY UnlockedIsSettled
<1>2. PICK r \in EndPoweroff(s) : Becomes(r)
  BY DEF BecomesOneOf
<1>3. /\ Good(r) /\ r.refs = s.refs /\ r.gpuPowered = s.gpuPowered /\ ~r.waitOff
      /\ r.policy = s.policy /\ r.worker = s.worker
      /\ \A j \in Jobs : s.at[j] = "idle" => r.at[j] = "idle"
      /\ r.refs # {} => Settled(r)
  BY <1>1, <1>2, EndIs
<1>4. S' = r
  BY <1>2, <1>3, BecomesIs DEF Good, CoresInv, Backed
<1>5. ControlTypes'
  BY DEF PowerInv, ControlTypes
<1>6. PoweringOff(S)' /\ Suspending(S)' /\ Resting(S)'
  BY <1>1, <1>3, <1>4 DEF PowerInv, PoweringOff, Suspending, Resting
<1>7. Setting(S)' /\ Scheduling(S)'
  BY <1>3, <1>4 DEF PowerInv, Setting, Scheduling
<1>8. Awake(S)'
  BY <1>3, <1>4 DEF Awake
<1>9. Counted(S)'
  BY <1>3, <1>4 DEF PowerInv, Counted
<1>. QED
  BY <1>3, <1>4, <1>5, <1>6, <1>7, <1>8, <1>9 DEF PowerInv

\* The clock goes off only when nobody holds a reference.
LEMMA ClockOffIs ==
  ASSUME PowerInv, ~Locked, S.waitOff, ~S.onRequired
  PROVE  LET t == ClockOff(S) IN
         /\ Good(t) /\ t.refs = {} /\ S.refs = {} /\ t.policy = S.policy /\ t.at = S.at
         /\ t.worker = S.worker /\ t.onRequired = S.onRequired
<1>. DEFINE t == ClockOff(S)
<1>1. S.refs = {}
  BY UnlockedIsSettled DEF Settled
<1>2. S \in HwStates /\ Good(S)
  BY StateIs DEF PowerInv
<1>3. t \in HwStates
  BY <1>2 DEF HwStates, ClockOff
<1>4. /\ t.refs = S.refs /\ ~t.gpuPowered /\ t.waitOff = S.waitOff
      /\ t.onRequired = S.onRequired /\ t.gpuTicksLeft = S.gpuTicksLeft
      /\ t.policy = S.policy /\ t.dropping = S.dropping /\ t.dropTicks = S.dropTicks
      /\ t.at = S.at /\ t.coreref = S.coreref /\ t.worker = S.worker /\ t.spins = S.spins
  BY <1>2 DEF HwStates, ClockOff
<1>. HIDE DEF t
<1>5. CoresInv(t) /\ Ticking(t)
  BY <1>2, <1>3, <1>4 DEF Good, CoresInv, Backed, Ticking
<1>6. Placed(t)
  BY <1>1, <1>2, <1>4 DEF Good, Placed
<1>7. Deferred(t)
  BY <1>1, <1>2, <1>4 DEF Good, Deferred, Holding
<1>8. Good(t)
  BY <1>2, <1>4, <1>5, <1>6, <1>7 DEF Good
<1>. QED
  BY <1>1, <1>4, <1>8 DEF t

\* The IRQ mask is set or cleared.
LEMMA MaskIs ==
  ASSUME NEW s, Good(s), NEW b \in BOOLEAN
  PROVE  LET t == [s EXCEPT !.offPending = b] IN
         /\ t \in HwStates /\ Good(t) /\ Still(s, t) /\ t.at = s.at /\ t.worker = s.worker
<1>. DEFINE t == [s EXCEPT !.offPending = b]
<1>0. s \in HwStates
  BY DEF Good, CoresInv, Backed
<1>1. t \in HwStates
  BY <1>0 DEF HwStates
<1>2. /\ t.refs = s.refs /\ t.gpuPowered = s.gpuPowered /\ t.waitOff = s.waitOff
      /\ t.onRequired = s.onRequired /\ t.gpuTicksLeft = s.gpuTicksLeft
      /\ t.timerNeeded = s.timerNeeded /\ t.timerRunning = s.timerRunning
      /\ t.policy = s.policy /\ t.desired = s.desired
      /\ t.avail = s.avail /\ t.dropping = s.dropping /\ t.dropTicks = s.dropTicks
      /\ t.ready = s.ready /\ t.trans = s.trans /\ t.at = s.at
      /\ t.coreref = s.coreref /\ t.worker = s.worker /\ t.spins = s.spins
  BY <1>0 DEF HwStates
<1>. HIDE DEF t
<1>3. CoresInv(t) /\ Ticking(t)
  BY <1>1, <1>2 DEF Good, CoresInv, Backed, Ticking
<1>4. Placed(t)
  BY <1>2 DEF Good, Placed
<1>5. Deferred(t)
  BY <1>2 DEF Good, Deferred, Holding, ShaderKept
<1>6. Good(t)
  BY <1>2, <1>3, <1>4, <1>5 DEF Good
<1>7. Still(s, t)
  BY <1>2 DEF Still, ShaderKept
<1>. QED
  BY <1>1, <1>2, <1>6, <1>7 DEF t

LEMMA PoweroffWaitStep == ASSUME PowerInv, PoweroffWait PROVE PowerInv'
<1>1. /\ offWork = "queued" /\ ~Locked
      /\ UNCHANGED <<sched, suspending, rest, tickWork, faults, susp, setter>>
  BY DEF PoweroffWait
<1>2. Good(S) /\ S.waitOff /\ (S.refs # {} => Settled(S))
  BY <1>1, UnlockedIsSettled DEF PowerInv, PoweringOff
<1>3. CASE onRequired
  <2>1. BecomesOneOf(EndPoweroff(S)) /\ offWork' = "idle" /\ powerIrq' \in BOOLEAN
    BY <1>3 DEF PoweroffWait, PowerInv, ControlTypes
  <2>. QED
    BY <1>1, <1>2, <1>3, <2>1, Parts, PoweroffEnds DEF Settled
<1>4. CASE ~onRequired /\ faults /\ gpuPowered
  <2>. DEFINE t == [S EXCEPT !.offPending = TRUE]
  <2>1. Becomes(t) /\ offWork' = "faults" /\ powerIrq' = FALSE
    BY <1>4 DEF PoweroffWait
  <2>2. t \in HwStates /\ Good(t) /\ Still(S, t) /\ t.at = S.at /\ t.worker = S.worker
    BY <1>2, MaskIs
  <2>. HIDE DEF t
  <2>3. S' = t
    BY <2>1, <2>2, BecomesIs
  <2>4. S.refs = {}
    BY <1>2, <1>4, Parts DEF Settled
  <2>5. PoweringOff(S)' /\ Suspending(S)' /\ Resting(S)'
    BY <1>1, <1>2, <2>1, <2>2, <2>3 DEF PowerInv, PoweringOff, Suspending, Resting, Still
  <2>6. ControlTypes'
    BY <1>1, <2>1 DEF PowerInv, ControlTypes
  <2>. QED
    BY <1>1, <2>2, <2>3, <2>4, <2>5, <2>6, EmptyStep DEF Still
<1>5. CASE ~onRequired /\ ~(faults /\ gpuPowered)
  <2>1. BecomesOneOf(EndPoweroff(ClockOff(S))) /\ offWork' = "idle" /\ powerIrq' = FALSE
    BY <1>5 DEF PoweroffWait
  <2>2. /\ Good(ClockOff(S)) /\ ClockOff(S).refs = {} /\ S.refs = {}
        /\ ClockOff(S).policy = S.policy /\ ClockOff(S).at = S.at
        /\ ClockOff(S).worker = S.worker
    BY <1>1, <1>2, <1>5, Parts, ClockOffIs
  <2>. QED
    BY <1>1, <2>1, <2>2, PoweroffEnds
<1>. QED
  BY <1>3, <1>4, <1>5

LEMMA PoweroffFlushedStep == ASSUME PowerInv, PoweroffFlushed PROVE PowerInv'
<1>1. /\ offWork = "faults" /\ ~Locked /\ powerIrq' = FALSE /\ offWork' = "idle"
      /\ UNCHANGED <<sched, suspending, rest, tickWork, faults, susp, setter>>
  BY DEF PoweroffFlushed
<1>2. Good(S) /\ S.waitOff /\ (S.refs # {} => Settled(S))
  BY <1>1, UnlockedIsSettled DEF PowerInv, PoweringOff
<1>3. CASE onRequired
  <2>. DEFINE t == [S EXCEPT !.offPending = FALSE]
  <2>1. BecomesOneOf(EndPoweroff(t))
    BY <1>3 DEF PoweroffFlushed
  <2>2. Good(t) /\ Still(S, t) /\ t.at = S.at /\ t.worker = S.worker
    BY <1>2, MaskIs
  <2>. HIDE DEF t
  <2>3. t.refs # {} => t.gpuPowered /\ t.onRequired
    BY <1>2, <2>2 DEF Settled, Still
  <2>. QED
    BY <1>1, <2>1, <2>2, <2>3, PoweroffEnds DEF Still
<1>4. CASE ~onRequired
  <2>1. BecomesOneOf(EndPoweroff(ClockOff(S)))
    BY <1>4 DEF PoweroffFlushed
  <2>2. /\ Good(ClockOff(S)) /\ ClockOff(S).refs = {} /\ S.refs = {}
        /\ ClockOff(S).policy = S.policy /\ ClockOff(S).at = S.at
        /\ ClockOff(S).worker = S.worker
    BY <1>1, <1>2, <1>4, Parts, ClockOffIs
  <2>. QED
    BY <1>1, <2>1, <2>2, PoweroffEnds
<1>. QED
  BY <1>3, <1>4

-----------------------------------------------------------------------------
(* What the holder of pm.lock has left to do.                               *)

LEMMA LockStep ==
  ASSUME PowerInv, ControlTypes', Good(S'), Suspending(S)', Resting(S)', Awake(S)',
         S'.refs = S.refs, S'.waitOff = S.waitOff, S'.worker = S.worker,
         \A j \in Jobs : S.at[j] = "idle" => S'.at[j] = "idle",
         UNCHANGED <<sched, offWork, setter>>
  PROVE  PowerInv'
<1>1. PoweringOff(S)' /\ Setting(S)' /\ Scheduling(S)' /\ Counted(S)'
  BY DEF PowerInv, PoweringOff, Setting, Scheduling, Counted
<1>. QED
  BY <1>1 DEF PowerInv

\* The clock goes on, and the GPU starts with all its cores off.
LEMMA ClockOnIs ==
  ASSUME NEW s, Good(s), ~s.gpuPowered
  PROVE  LET t == ClockOn(s) IN
         /\ t \in HwStates /\ Good(t) /\ t.refs = s.refs /\ t.gpuPowered
         /\ t.waitOff = s.waitOff /\ t.policy = s.policy /\ t.at = s.at /\ t.worker = s.worker
<1>. DEFINE t == ClockOn(s)
<1>1. s \in HwStates
  BY DEF Good, CoresInv, Backed
<1>2. t \in HwStates
  BY <1>1 DEF HwStates, ClockOn
<1>3. /\ t.refs = s.refs /\ t.gpuPowered /\ t.waitOff = s.waitOff
      /\ t.onRequired = s.onRequired /\ t.gpuTicksLeft = s.gpuTicksLeft
      /\ t.policy = s.policy /\ t.desired = s.desired /\ t.avail = {}
      /\ t.dropping = s.dropping /\ t.dropTicks = s.dropTicks
      /\ t.at = s.at /\ t.coreref = s.coreref /\ t.worker = s.worker /\ t.spins = s.spins
  BY <1>1 DEF HwStates, ClockOn
<1>. HIDE DEF t
<1>4. CoresInv(t) /\ Ticking(t)
  BY <1>2, <1>3 DEF Good, CoresInv, Backed, Ticking
<1>5. Placed(t)
  BY <1>3 DEF Good, Placed
<1>6. Deferred(t)
  BY <1>3 DEF Good, Deferred, Holding, ShaderKept
<1>7. Good(t)
  BY <1>3, <1>4, <1>5, <1>6 DEF Good
<1>. QED
  BY <1>2, <1>3, <1>7 DEF t

LEMMA RestClockOnStep == ASSUME PowerInv, RestClockOn PROVE PowerInv'
<1>1. /\ rest.step \in {"clock_on", "resume_clock_on"}
      /\ rest' = [rest EXCEPT !.step = "update_cores"]
      /\ UNCHANGED <<sched, suspending, offWork, tickWork, faults, susp, setter>>
  BY DEF RestClockOn
<1>2. rest'.step = "update_cores" /\ rest'.by = rest.by
      /\ rest' \in [by : Holders \cup {Nobody}, step : RestSteps]
  BY <1>1 DEF PowerInv, ControlTypes, RestSteps
<1>3. Good(S) /\ S.policy # "none"
  BY <1>1 DEF PowerInv, Resting
<1>. DEFINE m == [S EXCEPT !.offPending = FALSE]
<1>4. m \in HwStates /\ Good(m) /\ Still(S, m) /\ m.at = S.at /\ m.worker = S.worker
  BY <1>3, MaskIs
<1>. HIDE DEF m
<1>5. CASE gpuPowered
  <2>1. Becomes(m) /\ powerIrq' \in BOOLEAN
    BY <1>5 DEF RestClockOn, m
  <2>2. S' = m
    BY <1>4, <2>1, BecomesIs
  <2>3. ControlTypes'
    BY <1>1, <1>2, <2>1 DEF PowerInv, ControlTypes
  <2>4. Suspending(S)' /\ Resting(S)'
    BY <1>1, <1>2, <1>3, <1>4, <2>2 DEF PowerInv, Suspending, Resting, Still
  <2>5. Awake(S)'
    <3>. SUFFICES ASSUME S'.refs # {} PROVE Settled(S)' \/ Arriving(S)'
      BY DEF Awake
    <3>1. S.refs # {} /\ S'.gpuPowered
      BY <1>4, <1>5, <2>2, Parts DEF Still
    <3>2. Settled(S) => Settled(S)'
      BY <1>4, <2>2, <3>1 DEF Settled, Still
    <3>3. Arriving(S) => Arriving(S)'
      BY <1>2, <1>4, <2>2, <3>1 DEF Arriving, Still
    <3>. QED
      BY <3>1, <3>2, <3>3 DEF PowerInv, Awake
  <2>. QED
    BY <1>1, <1>4, <2>2, <2>3, <2>4, <2>5, LockStep DEF Still
<1>6. CASE ~gpuPowered /\ rest.step = "resume_clock_on"
  <2>1. Becomes(m) /\ powerIrq' = powerIrq
    BY <1>6 DEF RestClockOn, m
  <2>2. S' = m
    BY <1>4, <2>1, BecomesIs
  <2>3. ControlTypes'
    BY <1>1, <1>2, <2>1 DEF PowerInv, ControlTypes
  <2>4. S.refs = {}
    BY <1>6 DEF PowerInv, Resting
  <2>5. Suspending(S)' /\ Resting(S)' /\ Awake(S)'
    BY <1>1, <1>2, <1>3, <1>4, <2>2, <2>4 DEF PowerInv, Suspending, Resting, Awake, Still
  <2>. QED
    BY <1>1, <1>4, <2>2, <2>3, <2>5, LockStep DEF Still
<1>7. CASE ~gpuPowered /\ rest.step = "clock_on"
  <2>. DEFINE t == ClockOn(S)
  <2>1. Becomes(t) /\ powerIrq' = FALSE
    BY <1>7 DEF RestClockOn
  <2>2. /\ t \in HwStates /\ Good(t) /\ t.refs = S.refs /\ t.gpuPowered
        /\ t.waitOff = S.waitOff /\ t.policy = S.policy /\ t.at = S.at /\ t.worker = S.worker
    BY <1>3, <1>7, Parts, ClockOnIs
  <2>. HIDE DEF t
  <2>3. S' = t
    BY <2>1, <2>2, BecomesIs
  <2>4. ControlTypes'
    BY <1>1, <1>2, <2>1 DEF PowerInv, ControlTypes
  <2>5. Suspending(S)' /\ Resting(S)'
    BY <1>1, <1>2, <1>3, <2>2, <2>3 DEF PowerInv, Suspending, Resting
  <2>6. Awake(S)'
    <3>1. ~Settled(S)
      BY <1>7, Parts DEF Settled
    <3>2. Arriving(S) => Arriving(S)'
      BY <1>2, <2>2, <2>3 DEF Arriving
    <3>. QED
      BY <2>2, <2>3, <3>1, <3>2 DEF PowerInv, Awake
  <2>. QED
    BY <1>1, <2>2, <2>3, <2>4, <2>5, <2>6, LockStep
<1>. QED
  BY <1>1, <1>5, <1>6, <1>7

LEMMA RestUpdateCoresStep == ASSUME PowerInv, RestUpdateCores PROVE PowerInv'
<1>1. /\ rest.step = "update_cores" /\ BecomesOneOf(UpdateCores(S)) /\ rest' = Free
      /\ UNCHANGED <<sched, suspending, offWork, tickWork, powerIrq, faults, susp, setter>>
  BY DEF RestUpdateCores
<1>2. Good(S) /\ S.policy # "none"
  BY <1>1 DEF PowerInv, Resting
<1>3. PICK r \in UpdateCores(S) : Becomes(r)
  BY <1>1 DEF BecomesOneOf
<1>4. Updated(S, r) /\ (S.refs # {} => ShaderKept(r))
  BY <1>2, <1>3, UpdateIs DEF Good
<1>5. Good(r)
  BY <1>2, <1>4, UpdatedIsGood
<1>6. S' = r
  BY <1>3, <1>5, BecomesIs DEF Good, CoresInv, Backed
<1>7. CoreFrame(S, r)
  BY <1>4 DEF Updated
<1>8. ControlTypes'
  BY <1>1 DEF PowerInv, ControlTypes, Free, RestSteps
<1>9. Suspending(S)' /\ Resting(S)'
  BY <1>1, <1>2, <1>6, <1>7 DEF PowerInv, Suspending, Resting, CoreFrame, Frame, Free
<1>10. Awake(S)'
  <2>. SUFFICES ASSUME S'.refs # {} PROVE Settled(S)'
    BY DEF Awake
  <2>1. S.refs # {}
    BY <1>6, <1>7 DEF CoreFrame, Frame
  <2>2. Settled(S) \/ Arriving(S)
    BY <2>1 DEF PowerInv, Awake
  <2>3. S.gpuPowered /\ (S.waitOff => S.onRequired)
    BY <1>1, <2>2 DEF Settled, Arriving
  <2>. QED
    BY <1>4, <1>6, <1>7, <2>1, <2>3 DEF Settled, CoreFrame, Frame
<1>. QED
  BY <1>1, <1>5, <1>6, <1>7, <1>8, <1>9, <1>10, LockStep DEF CoreFrame, Frame

-----------------------------------------------------------------------------
(* Suspend and resume.                                                      *)

LEMMA SuspendStep ==
  ASSUME PowerInv, Suspend \/ JsSuspend \/ SuspendDone
  PROVE  PowerInv'
<1>1. UNCHANGED hwVars /\ UNCHANGED <<sched, rest, offWork, tickWork, powerIrq, faults, setter>>
  BY DEF Suspend, JsSuspend, SuspendDone
<1>2. S' = S
  BY <1>1, NothingChanged
<1>3. /\ suspending' \in BOOLEAN
      /\ susp' \in {"up", "stopping", "waiting", "powering_off", "down", "resuming", "resumed"}
      /\ Suspending(S)'
  <2>1. CASE Suspend
    BY <1>2, <2>1 DEF Suspend, PowerInv, Suspending
  <2>2. CASE JsSuspend
    BY <1>2, <2>2 DEF JsSuspend, PowerInv, Suspending, ControlTypes
  <2>3. CASE SuspendDone
    BY <1>2, <2>3, Parts DEF SuspendDone, PowerInv, Suspending, ControlTypes
  <2>. QED
    BY <2>1, <2>2, <2>3
<1>4. ControlTypes'
  BY <1>1, <1>3 DEF PowerInv, ControlTypes
<1>5. Resting(S)' /\ Awake(S)' /\ Good(S')
  BY <1>1, <1>2 DEF PowerInv, Resting, Awake, Arriving
<1>. QED
  BY <1>1, <1>2, <1>3, <1>4, <1>5, LockStep

LEMMA ResumeStep == ASSUME PowerInv, Resume PROVE PowerInv'
<1>1. /\ susp = "down" /\ ~Locked /\ suspending' = FALSE /\ susp' = "resuming"
      /\ rest' = [by |-> Suspender, step |-> "resume_clock_on"] /\ UNCHANGED hwVars
      /\ UNCHANGED <<sched, offWork, tickWork, powerIrq, faults, setter>>
  BY DEF Resume
<1>2. S' = S
  BY <1>1, NothingChanged
<1>3. S.refs = {} /\ (S.waitOff => S.gpuPowered) /\ S.policy # "none"
  BY <1>1, UnlockedIsSettled DEF PowerInv, Suspending
<1>4. ControlTypes'
  BY <1>1, Names DEF PowerInv, ControlTypes, RestSteps
<1>5. Suspending(S)' /\ Resting(S)' /\ PoweringOff(S)' /\ Good(S')
  BY <1>1, <1>2, <1>3 DEF PowerInv, Suspending, Resting, PoweringOff
<1>. QED
  BY <1>1, <1>2, <1>3, <1>4, <1>5, EmptyStep

LEMMA SuspendPoweroffStep == ASSUME PowerInv, SuspendPoweroff PROVE PowerInv'
<1>. DEFINE s == CancelDeferredPoweroff(S)
            t == DoPoweroff(s)
<1>1. /\ susp = "waiting" /\ refs = {} /\ ~Locked /\ Becomes(t)
      /\ offWork' = IF waitOff THEN offWork ELSE "queued"
      /\ susp' = "powering_off"
      /\ UNCHANGED <<sched, suspending, rest, tickWork, powerIrq, faults, setter>>
  BY DEF SuspendPoweroff
<1>2. S \in HwStates /\ Good(S) /\ S.refs = {} /\ S.policy # "none" /\ rest.step = "done"
  BY <1>1, StateIs, Parts, UnlockedIsSettled DEF PowerInv
<1>3. s \in HwStates
  <2>1. GpuTicks \in Nat /\ ShaderTicks \in Nat /\ 0 \in 0..GpuTicks /\ 0 \in 0..ShaderTicks
    BY PowerAssumption
  <2>. QED
    BY <1>2, <2>1 DEF HwStates, CancelDeferredPoweroff
<1>4. /\ s.refs = S.refs /\ s.gpuPowered = S.gpuPowered /\ s.waitOff = S.waitOff
      /\ s.onRequired = S.onRequired /\ s.gpuTicksLeft = 0
      /\ s.policy = S.policy /\ s.desired = S.desired
      /\ s.avail = S.avail /\ s.dropping = {} /\ s.dropTicks = 0
      /\ s.ready = S.ready /\ s.trans = S.trans /\ s.at = S.at
      /\ s.coreref = S.coreref /\ s.worker = S.worker /\ s.spins = S.spins
  BY <1>2 DEF HwStates, CancelDeferredPoweroff
<1>. HIDE DEF s
<1>5. Good(s)
  <2>1. CoresInv(s) /\ Ticking(s)
    BY <1>2, <1>3, <1>4 DEF Good, CoresInv, Backed, Ticking
  <2>2. Placed(s)
    BY <1>2, <1>4 DEF Good, Placed
  <2>3. Deferred(s)
    BY <1>2, <1>4 DEF Good, Deferred, Holding
  <2>. QED
    BY <1>2, <1>4, <2>1, <2>2, <2>3 DEF Good
<1>6. /\ t \in HwStates /\ Good(t) /\ t.refs = {} /\ t.gpuPowered = S.gpuPowered /\ t.waitOff
      /\ t.policy = S.policy /\ t.at = S.at /\ t.worker = S.worker
  BY <1>2, <1>4, <1>5, DoPoweroffIs
<1>. HIDE DEF t
<1>7. S' = t
  BY <1>1, <1>6, BecomesIs
<1>8. PoweringOff(S)' /\ Suspending(S)' /\ Resting(S)'
  BY <1>1, <1>2, <1>6, <1>7, Parts DEF PowerInv, PoweringOff, Suspending, Resting
<1>9. ControlTypes'
  BY <1>1 DEF PowerInv, ControlTypes
<1>. QED
  BY <1>1, <1>2, <1>6, <1>7, <1>8, <1>9, EmptyStep

-----------------------------------------------------------------------------
(* The scheduler and the workers.                                           *)

\* Whoever holds cores has somebody with a reference.
LEMMA HoldersAreCounted ==
  ASSUME PowerInv, GpuTicks > 0
  PROVE  /\ \A j \in Jobs : S.coreref[j] # "none" => Context(CtxOf[j]) \in S.refs /\ S.at[j] # "idle"
         /\ \A c \in Ctxs : S.worker[c].held # "none" => S.worker[c] # NoWork
         /\ \A c \in Ctxs : S.worker[c] # NoWork =>
              \/ Worker(c) \in S.refs
              \/ Context(c) \in S.refs /\ ~(sched.ctx = c /\ sched.fresh)
BY DEF PowerInv, Good, Placed, Counted, NoWork

LEMMA ActivateStep == ASSUME PowerInv, NEW c \in Ctxs, Activate(c) PROVE PowerInv'
<1>1. sched' = [ctx |-> c, fresh |-> Context(c) \notin refs] /\ UNCHANGED other
  BY DEF Activate
<1>2. CASE Context(c) \in refs
  <2>1. S' = S /\ rest' = rest
    BY <1>2, NothingChanged DEF Activate
  <2>2. ~sched'.fresh /\ sched'.ctx = c /\ Context(c) \in S.refs
    BY <1>1, <1>2, Parts
  <2>3. ControlTypes'
    BY <1>1, <2>1 DEF PowerInv, ControlTypes, other
  <2>4. Scheduling(S)' /\ Counted(S)'
    BY <2>1, <2>2 DEF PowerInv, Scheduling, Counted
  <2>5. Suspending(S)' /\ Resting(S)' /\ Setting(S)' /\ Awake(S)' /\ PoweringOff(S)' /\ Good(S')
    BY <1>1, <2>1 DEF PowerInv, Suspending, Resting, Setting, Awake, Arriving, PoweringOff, other
  <2>. QED
    BY <2>3, <2>4, <2>5 DEF PowerInv
<1>3. CASE Context(c) \notin refs
  <2>1. ~suspending /\ GetRef(S, Context(c), QueueHolder)
    BY <1>3 DEF Activate
  <2>2. susp \notin {"powering_off", "down"} /\ Context(c) \notin S.refs
    BY <1>3, <2>1, Parts DEF PowerInv, Suspending
  <2>3. /\ Good(S') /\ Resting(S)' /\ Awake(S)'
        /\ rest' \in [by : Holders \cup {Nobody}, step : RestSteps]
        /\ S'.refs = S.refs \cup {Context(c)} /\ S'.gpuPowered = S.gpuPowered
        /\ S'.waitOff = S.waitOff /\ S'.policy = S.policy
        /\ S'.at = S.at /\ S'.worker = S.worker
    BY <2>1, <2>2, Names, GetIs
  <2>4. sched'.fresh /\ sched'.ctx = c
    BY <1>1, <1>3
  <2>5. ControlTypes'
    BY <1>1, <2>3 DEF PowerInv, ControlTypes, other
  <2>6. Scheduling(S)'
    <3>1. \A j \in Jobs : CtxOf[j] = c => S.at[j] = "idle"
      BY <2>2, PulledIsSettled
    <3>. QED
      BY <2>3, <2>4, <3>1 DEF Scheduling
  <2>7. Counted(S)'
    BY <2>2, <2>3, <2>4 DEF PowerInv, Counted
  <2>8. Suspending(S)' /\ Setting(S)' /\ PoweringOff(S)'
    BY <1>1, <2>2, <2>3 DEF PowerInv, Suspending, Setting, PoweringOff, other
  <2>. QED
    BY <2>3, <2>5, <2>6, <2>7, <2>8 DEF PowerInv
<1>. QED
  BY <1>2, <1>3

LEMMA NothingPulledStep == ASSUME PowerInv, NothingPulled PROVE PowerInv'
<1>1. sched # NoCtx /\ sched' = NoCtx /\ UNCHANGED other
  BY DEF NothingPulled
<1>2. CASE ~sched.fresh
  <2>1. S' = S /\ rest' = rest
    BY <1>2, NothingChanged DEF NothingPulled
  <2>2. ControlTypes'
    BY <1>1, <2>1 DEF PowerInv, ControlTypes, other
  <2>3. Good(S') /\ Still(S, S')
    BY <2>1 DEF PowerInv, Still
  <2>. QED
    BY <1>1, <2>1, <2>2, <2>3, StillStep DEF other
<1>3. CASE sched.fresh
  <2>. DEFINE c == sched.ctx
  <2>1. PutRef(S, Context(c), QueueHolder)
    BY <1>3 DEF NothingPulled
  <2>2. c \in Ctxs /\ Context(c) \in S.refs /\ \A j \in Jobs : CtxOf[j] = c => S.at[j] = "idle"
    BY <1>1, <1>3 DEF PowerInv, ControlTypes, Scheduling
  <2>. HIDE DEF c
  <2>3. Good(S) /\ Still(S, S)
    BY DEF PowerInv, Still
  <2>4. \A j \in Jobs : S.at[j] # "idle" => Context(CtxOf[j]) # Context(c)
    BY <2>2, Names
  <2>5. ASSUME GpuTicks > 0, NEW d \in Ctxs, S.worker[d] # NoWork
        PROVE  /\ Worker(d) \in S.refs \/ (Context(d) \in S.refs /\ d # c)
               /\ Worker(d) # Context(c) /\ (d # c => Context(d) # Context(c))
    <3>1. Worker(d) \in S.refs \/ (Context(d) \in S.refs /\ d # c)
      BY <1>3, <2>5, HoldersAreCounted DEF c
    <3>. QED
      BY <2>2, <3>1, Names
  <2>6. GpuTicks > 0 /\ Holding(S) => S.refs \ {Context(c)} # {}
    BY <2>4, <2>5, HoldersAreCounted DEF Holding
  <2>7. /\ Good(S') /\ Resting(S)' /\ Awake(S)'
        /\ rest' \in [by : Holders \cup {Nobody}, step : RestSteps]
        /\ S'.refs = S.refs \ {Context(c)} /\ S'.gpuPowered = S.gpuPowered
        /\ S'.waitOff = S.waitOff /\ S'.policy = S.policy
        /\ S'.at = S.at /\ S'.worker = S.worker
    BY <2>1, <2>2, <2>3, <2>4, <2>6, Names, PutIs
  <2>8. ControlTypes'
    BY <1>1, <2>7 DEF PowerInv, ControlTypes, other
  <2>9. Counted(S)'
    <3>1. ~sched'.fresh
      BY <1>1 DEF NoCtx
    <3>2. GpuTicks > 0 => \A d \in Ctxs : S.worker[d] # NoWork =>
            Worker(d) \in S'.refs \/ Context(d) \in S'.refs
      BY <2>5, <2>7
    <3>. QED
      BY <2>7, <3>1, <3>2 DEF Counted
  <2>10. Suspending(S)' /\ Setting(S)' /\ PoweringOff(S)' /\ Scheduling(S)'
    BY <1>1, <2>2, <2>7, Names DEF PowerInv, Suspending, Setting, PoweringOff, Scheduling, other
  <2>. QED
    BY <2>7, <2>8, <2>9, <2>10 DEF PowerInv
<1>. QED
  BY <1>2, <1>3 DEF PowerInv, ControlTypes, NoCtx

\* A worker has taken over the core references of an atom.
LEMMA FinishedIs ==
  ASSUME PowerInv, NEW j \in Jobs, NEW next \in {"release", "idling"},
         S.at[j] # "idle", next = "idling" => GpuTicks = 0
  PROVE  LET t == Finished(j, next)
             c == CtxOf[j]
         IN
         /\ t \in HwStates /\ Good(t) /\ Still(S, t)
         /\ t.at[j] = "idle" /\ \A k \in Jobs : k # j => t.at[k] = S.at[k]
         /\ \A d \in Ctxs : d # c => t.worker[d] = S.worker[d]
         /\ Context(c) \in S.refs /\ Settled(S)
<1>. DEFINE c == CtxOf[j]
            w == [job |-> j, held |-> S.coreref[j], step |-> next]
            t == [S EXCEPT !.at[j] = "idle", !.coreref[j] = "none", !.worker[c] = w]
<1>0. S \in HwStates /\ Good(S) /\ c \in Ctxs
  BY StateIs, Names DEF PowerInv
<1>1. Finished(j, next) = t
  BY Parts DEF Finished
<1>2. Context(c) \in S.refs /\ Settled(S) /\ S.coreref[j] \in Corerefs
  BY <1>0, PulledIsSettled, Fields
<1>3. w \in Works /\ w.held = S.coreref[j] /\ w.step = next
  BY <1>2 DEF Works
<1>. HIDE DEF w
<1>4. t \in HwStates
  BY <1>0, <1>3 DEF HwStates, Places, Corerefs
<1>5. /\ t.refs = S.refs /\ t.gpuPowered = S.gpuPowered /\ t.waitOff = S.waitOff
      /\ t.onRequired = S.onRequired /\ t.gpuTicksLeft = S.gpuTicksLeft
      /\ t.timerNeeded = S.timerNeeded /\ t.timerRunning = S.timerRunning
      /\ t.policy = S.policy /\ t.desired = S.desired
      /\ t.avail = S.avail /\ t.dropping = S.dropping /\ t.dropTicks = S.dropTicks
      /\ t.ready = S.ready /\ t.trans = S.trans /\ t.at = [S.at EXCEPT ![j] = "idle"]
      /\ t.coreref = [S.coreref EXCEPT ![j] = "none"]
      /\ t.worker = [S.worker EXCEPT ![c] = w] /\ t.spins = S.spins
  BY <1>0 DEF HwStates
<1>. HIDE DEF t, c
<1>6. /\ t.at[j] = "idle" /\ t.coreref[j] = "none" /\ t.worker[c] = w
      /\ \A k \in Jobs : k # j => t.at[k] = S.at[k] /\ t.coreref[k] = S.coreref[k]
      /\ \A d \in Ctxs : d # c => t.worker[d] = S.worker[d]
  BY <1>0, <1>5, Fields
<1>7. CoresInv(t) /\ Ticking(t)
  BY <1>0, <1>4, <1>5 DEF Good, CoresInv, Backed, Ticking
<1>8. Placed(t)
  <2>. SUFFICES ASSUME NEW k \in Jobs
                PROVE  /\ t.at[k] = "idle" => t.coreref[k] = "none"
                       /\ t.at[k] # "idle" => t.gpuPowered /\ Context(CtxOf[k]) \in t.refs
                       /\ t.at[k] = "slot" => t.coreref[k] # "ready"
                       /\ t.at[k] = "hw" => Needs[k] \subseteq t.ready \cup t.trans
    BY DEF Placed
  <2>1. CASE k = j
    BY <1>6, <2>1
  <2>2. CASE k # j
    BY <1>0, <1>5, <1>6, <2>2 DEF Good, Placed
  <2>. QED
    BY <2>1, <2>2
<1>9. Holding(t) => Holding(S)
  BY <1>3, <1>6 DEF Holding
<1>10. ShaderKept(t) <=> ShaderKept(S)
  BY <1>5 DEF ShaderKept
<1>11. Deferred(t)
  <2>1. SUFFICES ASSUME GpuTicks > 0 PROVE Deferred(t)
    BY DEF Deferred
  <2>2. next = "release"
    BY <2>1
  <2>3. \A d \in Ctxs : t.worker[d].step \notin {"idling", "update"}
    BY <1>0, <1>3, <1>6, <2>1, <2>2 DEF Good, Deferred
  <2>4. \A k \in Jobs : t.at[k] # "return"
    BY <1>0, <1>6, <2>1 DEF Good, Deferred
  <2>. QED
    BY <1>0, <1>5, <1>9, <1>10, <2>1, <2>3, <2>4 DEF Good, Deferred
<1>12. Good(t) /\ Still(S, t)
  BY <1>0, <1>5, <1>7, <1>8, <1>10, <1>11 DEF Good, Still
<1>. QED
  BY <1>1, <1>2, <1>4, <1>6, <1>12 DEF c

\* A worker that starts leaves who is counted among those that were.
LEMMA StartStep ==
  ASSUME PowerInv, NEW c \in Ctxs, Context(c) \in S.refs, sched = NoCtx,
         Good(S'), Resting(S)', Awake(S)',
         rest' \in [by : Holders \cup {Nobody}, step : RestSteps],
         S'.gpuPowered = S.gpuPowered, S'.waitOff = S.waitOff,
         \A x \in S.refs : x # Context(c) => x \in S'.refs,
         \A d \in Ctxs : d # c => S'.worker[d] = S.worker[d],
         GpuTicks > 0 => Worker(c) \in S'.refs \/ Context(c) \in S'.refs,
         UNCHANGED <<other, sched>>
  PROVE  PowerInv'
<1>1. ControlTypes'
  BY DEF PowerInv, ControlTypes, other
<1>2. PoweringOff(S)' /\ Suspending(S)' /\ Setting(S)' /\ Scheduling(S)'
  BY Names DEF PowerInv, PoweringOff, Suspending, Setting, Scheduling, other
<1>3. Counted(S)'
  <2>. SUFFICES ASSUME GpuTicks > 0, NEW d \in Ctxs, S'.worker[d] # NoWork
                PROVE  Worker(d) \in S'.refs \/ (Context(d) \in S'.refs /\ ~sched'.fresh)
    BY DEF Counted
  <2>1. ~sched'.fresh
    BY DEF NoCtx
  <2>2. CASE d = c
    BY <2>1, <2>2
  <2>3. CASE d # c
    BY <2>1, <2>3, Names DEF PowerInv, Counted
  <2>. QED
    BY <2>2, <2>3
<1>. QED
  BY <1>1, <1>2, <1>3 DEF PowerInv

LEMMA DoneStartStep == ASSUME PowerInv, NEW j \in Jobs, DoneStart(j) PROVE PowerInv'
<1>. DEFINE c == CtxOf[j]
            t == Finished(j, "release")
            moved == [t EXCEPT !.refs = (@ \ {Context(c)}) \cup {Worker(c)}]
<1>1. /\ at[j] = "done" /\ sched = NoCtx
      /\ Becomes(IF Pulled(t, c) = {} /\ Context(c) \in refs THEN moved ELSE t)
      /\ UNCHANGED <<other, rest, sched>>
  BY DEF DoneStart, QueueFree
<1>2. S.at[j] # "idle" /\ c \in Ctxs
  BY <1>1, Parts, Names
<1>3. /\ t \in HwStates /\ Good(t) /\ Still(S, t)
      /\ \A d \in Ctxs : d # c => t.worker[d] = S.worker[d]
      /\ Context(c) \in S.refs /\ Settled(S)
  BY <1>2, FinishedIs
<1>4. rest \in [by : Holders \cup {Nobody}, step : RestSteps]
  BY DEF PowerInv, ControlTypes
<1>. HIDE DEF t, c
<1>5. CASE ~(Pulled(t, c) = {} /\ Context(c) \in refs)
  <2>1. S' = t
    BY <1>1, <1>3, <1>5, BecomesIs
  <2>2. Resting(S)' /\ Settled(S)'
    BY <1>1, <1>3, <2>1 DEF PowerInv, Resting, Still, Settled
  <2>3. Awake(S)'
    BY <2>2 DEF Awake
  <2>. QED
    BY <1>1, <1>2, <1>3, <1>4, <2>1, <2>2, <2>3, StartStep DEF Still
<1>6. CASE Pulled(t, c) = {} /\ Context(c) \in refs
  <2>0. (S.refs \ {Context(c)}) \cup {Worker(c)} \subseteq Holders
    BY <1>2, <1>3, Names, Fields DEF Still
  <2>1. moved \in HwStates
    BY <1>3, <2>0 DEF HwStates, Still
  <2>2. /\ moved.refs = (S.refs \ {Context(c)}) \cup {Worker(c)}
        /\ moved.gpuPowered = t.gpuPowered /\ moved.waitOff = t.waitOff
        /\ moved.onRequired = t.onRequired /\ moved.gpuTicksLeft = t.gpuTicksLeft
        /\ moved.timerNeeded = t.timerNeeded /\ moved.timerRunning = t.timerRunning
        /\ moved.policy = t.policy /\ moved.desired = t.desired
        /\ moved.avail = t.avail /\ moved.dropping = t.dropping /\ moved.dropTicks = t.dropTicks
        /\ moved.ready = t.ready /\ moved.trans = t.trans /\ moved.at = t.at
        /\ moved.coreref = t.coreref /\ moved.worker = t.worker /\ moved.spins = t.spins
    BY <1>3 DEF HwStates, Still
  <2>3. S' = moved
    BY <1>1, <1>6, <2>1, BecomesIs
  <2>. HIDE DEF moved
  <2>4. ShaderKept(t) <=> ShaderKept(moved)
    BY <2>2 DEF ShaderKept
  <2>5. Good(moved)
    <3>1. CoresInv(moved) /\ Ticking(moved)
      BY <1>3, <2>1, <2>2 DEF Good, CoresInv, Backed, Ticking
    <3>2. Placed(moved)
      <4>1. \A k \in Jobs : t.at[k] # "idle" => CtxOf[k] # c
        BY <1>6 DEF Pulled
      <4>2. \A k \in Jobs : t.at[k] # "idle" => Context(CtxOf[k]) # Context(c)
        BY <1>2, <4>1, Names
      <4>. QED
        BY <1>3, <2>2, <4>2 DEF Good, Placed, Still
    <3>3. Deferred(moved)
      BY <1>3, <2>2, <2>4 DEF Good, Deferred, Holding
    <3>. QED
      BY <1>3, <2>2, <3>1, <3>2, <3>3 DEF Good
  <2>6. Settled(S)'
    BY <1>3, <2>2, <2>3, <2>4 DEF Settled, Still
  <2>7. Resting(S)' /\ Awake(S)'
    BY <1>1, <1>3, <2>2, <2>3, <2>6 DEF PowerInv, Resting, Still, Awake
  <2>. QED
    BY <1>1, <1>2, <1>3, <1>4, <2>2, <2>3, <2>5, <2>7, StartStep DEF Still
<1>. QED
  BY <1>5, <1>6

LEMMA ReturnStartStep == ASSUME PowerInv, NEW j \in Jobs, ReturnStart(j) PROVE PowerInv'
<1>. DEFINE c == CtxOf[j]
            t == Finished(j, "idling")
<1>1. /\ at[j] = "return" /\ sched = NoCtx
      /\ IF Pulled(t, c) = {} THEN PutRef(t, Context(c), Worker(c))
         ELSE Becomes(t) /\ UNCHANGED rest
      /\ UNCHANGED <<other, sched>>
  BY DEF ReturnStart, QueueFree
<1>2. S.at[j] = "return" /\ c \in Ctxs
  BY <1>1, Parts, Names
<1>3. GpuTicks = 0
  <2>1. ~(GpuTicks > 0)
    BY <1>2 DEF PowerInv, Good, Deferred
  <2>. QED
    BY <2>1, PowerAssumption
<1>4. /\ t \in HwStates /\ Good(t) /\ Still(S, t)
      /\ \A d \in Ctxs : d # c => t.worker[d] = S.worker[d]
      /\ Context(c) \in S.refs /\ Settled(S)
  BY <1>2, <1>3, FinishedIs
<1>5. rest \in [by : Holders \cup {Nobody}, step : RestSteps]
  BY DEF PowerInv, ControlTypes
<1>. HIDE DEF t, c
<1>6. CASE Pulled(t, c) # {}
  <2>1. S' = t /\ rest' = rest
    BY <1>1, <1>4, <1>6, BecomesIs
  <2>2. Resting(S)' /\ Settled(S)'
    BY <1>4, <2>1 DEF PowerInv, Resting, Still, Settled
  <2>3. Awake(S)'
    BY <2>2 DEF Awake
  <2>. QED
    BY <1>1, <1>2, <1>3, <1>4, <1>5, <2>1, <2>2, <2>3, StartStep DEF Still
<1>7. CASE Pulled(t, c) = {}
  <2>1. PutRef(t, Context(c), Worker(c)) /\ Worker(c) \in Holders
    BY <1>1, <1>2, <1>7, Names
  <2>2. \A k \in Jobs : t.at[k] # "idle" => Context(CtxOf[k]) # Context(c)
    <3>1. \A k \in Jobs : t.at[k] # "idle" => CtxOf[k] # c
      BY <1>7 DEF Pulled
    <3>. QED
      BY <1>2, <3>1, Names
  <2>3. /\ Good(S') /\ Resting(S)' /\ Awake(S)'
        /\ rest' \in [by : Holders \cup {Nobody}, step : RestSteps]
        /\ S'.refs = S.refs \ {Context(c)} /\ S'.gpuPowered = S.gpuPowered
        /\ S'.waitOff = S.waitOff /\ S'.policy = S.policy
        /\ S'.at = t.at /\ S'.worker = t.worker
    <3>1. GpuTicks > 0 /\ Holding(t) => S.refs \ {Context(c)} # {}
      BY <1>3
    <3>. QED
      BY <1>4, <2>1, <2>2, <3>1, PutIs
  <2>. QED
    BY <1>1, <1>2, <1>3, <1>4, <2>3, StartStep
<1>. QED
  BY <1>6, <1>7

LEMMA PostUpdateStep == ASSUME PowerInv, NEW c \in Ctxs, PostUpdate(c) PROVE PowerInv'
<1>. DEFINE w == [S.worker[c] EXCEPT !.step = "drop"]
            t == [S EXCEPT !.worker[c] = w]
<1>1. /\ worker[c].step = "update" /\ ~Locked /\ RunUpdateActive(t, Worker(c))
      /\ UNCHANGED <<other, sched>>
  BY DEF PostUpdate
<1>2. S.worker[c] \in Works /\ Good(S)
  BY StateIs, Fields DEF PowerInv
<1>3. w \in Works /\ w.held = S.worker[c].held /\ w.step = "drop"
  BY <1>2 DEF Works
<1>4. GpuTicks = 0
  <2>1. ~(GpuTicks > 0)
    BY <1>1, <1>2, Parts DEF Good, Deferred
  <2>. QED
    BY <2>1, PowerAssumption
<1>. HIDE DEF w
<1>5. /\ Good(t) /\ Still(S, t) /\ t.at = S.at
      /\ \A d \in Ctxs : d # c => t.worker[d] = S.worker[d]
      /\ Settled(S) => Settled(t)
  BY <1>2, <1>3, WorkIs
<1>. HIDE DEF t
<1>6. t.policy # "none" /\ (t.refs # {} => Settled(t))
  BY <1>1, <1>5, UnlockedIsSettled DEF Still
<1>7. ~(GpuTicks > 0)
  BY <1>4
<1>8. /\ Good(S') /\ Same(t, S') /\ Resting(S)' /\ Awake(S)'
      /\ rest' \in [by : Holders \cup {Nobody}, step : RestSteps]
  BY <1>1, <1>5, <1>6, <1>7, Names, RunIs
<1>9. /\ S'.refs = S.refs /\ S'.gpuPowered = S.gpuPowered /\ S'.waitOff = S.waitOff /\ S'.at = S.at
  BY <1>5, <1>8 DEF Same, Still
<1>10. ControlTypes'
  BY <1>1, <1>8 DEF PowerInv, ControlTypes, other
<1>11. PoweringOff(S)' /\ Suspending(S)' /\ Setting(S)' /\ Scheduling(S)'
  BY <1>1, <1>9 DEF PowerInv, PoweringOff, Suspending, Setting, Scheduling, other
<1>12. Counted(S)'
  BY <1>7 DEF Counted
<1>. QED
  BY <1>8, <1>10, <1>11, <1>12 DEF PowerInv

LEMMA WorkerEndStep == ASSUME PowerInv, NEW c \in Ctxs, WorkerEnd(c) PROVE PowerInv'
<1>. DEFINE t == [S EXCEPT !.worker[c] = NoWork]
<1>1. /\ worker[c].step = "drop" /\ UNCHANGED <<other, sched>>
      /\ IF Worker(c) \in refs THEN PutRef(t, Worker(c), Worker(c))
         ELSE Becomes(t) /\ UNCHANGED rest
  BY DEF WorkerEnd
<1>2. NoWork \in Works /\ NoWork.held = "none" /\ NoWork.step \notin {"idling", "update"}
  BY PowerAssumption DEF NoWork, Works, Corerefs, Jobs
<1>3. S.worker[c] # NoWork /\ Good(S)
  BY <1>1, Parts DEF NoWork, PowerInv
<1>4. CASE Worker(c) \notin refs
  <2>1. Becomes(t) /\ UNCHANGED <<other, rest, sched>>
    BY <1>1, <1>4
  <2>. QED
    BY <1>2, <1>3, <2>1, WorkStep
<1>5. CASE Worker(c) \in refs
  <2>1. PutRef(t, Worker(c), Worker(c)) /\ Worker(c) \in S.refs
    BY <1>1, <1>5, Parts
  <2>2. /\ Good(t) /\ Still(S, t) /\ t.at = S.at /\ t.worker[c] = NoWork
        /\ \A d \in Ctxs : d # c => t.worker[d] = S.worker[d]
        /\ Holding(t) => Holding(S)
    BY <1>2, <1>3, WorkIs
  <2>2a. t.coreref = S.coreref
    BY StateIs DEF HwStates
  <2>. HIDE DEF t
  <2>3. \A j \in Jobs : Context(CtxOf[j]) # Worker(c)
    BY Names
  <2>4. ASSUME GpuTicks > 0, NEW d \in Ctxs, t.worker[d] # NoWork
        PROVE  /\ d # c
               /\ \/ Worker(d) \in S.refs \ {Worker(c)}
                  \/ Context(d) \in S.refs \ {Worker(c)} /\ ~(sched.ctx = d /\ sched.fresh)
    <3>1. d # c /\ S.worker[d] # NoWork
      BY <2>2, <2>4
    <3>2. Worker(d) \in S.refs \/ (Context(d) \in S.refs /\ ~(sched.ctx = d /\ sched.fresh))
      BY <2>4, <3>1, HoldersAreCounted
    <3>3. Worker(d) # Worker(c) /\ Context(d) # Worker(c)
      BY <3>1, Names
    <3>. QED
      BY <3>1, <3>2, <3>3
  <2>5. GpuTicks > 0 /\ Holding(t) => S.refs \ {Worker(c)} # {}
    <3>. SUFFICES ASSUME GpuTicks > 0, Holding(t) PROVE S.refs \ {Worker(c)} # {}
      OBVIOUS
    <3>1. CASE \E j \in Jobs : t.coreref[j] # "none"
      BY <2>2a, <2>3, <3>1, HoldersAreCounted
    <3>2. CASE \E d \in Ctxs : t.worker[d].held # "none"
      <4>1. PICK d \in Ctxs : t.worker[d] # NoWork
        BY <1>2, <3>2
      <4>. QED
        BY <2>4, <4>1
    <3>. QED
      BY <3>1, <3>2 DEF Holding
  <2>6. /\ Good(S') /\ Resting(S)' /\ Awake(S)'
        /\ rest' \in [by : Holders \cup {Nobody}, step : RestSteps]
        /\ S'.refs = S.refs \ {Worker(c)} /\ S'.gpuPowered = S.gpuPowered
        /\ S'.waitOff = S.waitOff /\ S'.policy = S.policy
        /\ S'.at = t.at /\ S'.worker = t.worker
    BY <2>1, <2>2, <2>3, <2>5, Names, PutIs
  <2>7. ControlTypes'
    BY <1>1, <2>6 DEF PowerInv, ControlTypes, other
  <2>8. PoweringOff(S)' /\ Suspending(S)' /\ Setting(S)'
    BY <1>1, <2>6, Names DEF PowerInv, PoweringOff, Suspending, Setting, other
  <2>9. Scheduling(S)'
    <3>1. sched # NoCtx => sched.ctx \in Ctxs
      BY DEF PowerInv, ControlTypes
    <3>. QED
      BY <1>1, <2>2, <2>6, <3>1, Names DEF PowerInv, Scheduling
  <2>10. Counted(S)'
    BY <1>1, <2>4, <2>6 DEF Counted
  <2>. QED
    BY <2>6, <2>7, <2>8, <2>9, <2>10 DEF PowerInv
<1>. QED
  BY <1>4, <1>5

-----------------------------------------------------------------------------
(* The references of resume and of policy changes.                          *)

LEMMA ResumeActiveStep == ASSUME PowerInv, ResumeActive PROVE PowerInv'
<1>1. /\ susp = "resuming" /\ susp' = "resumed" /\ GetRef(S, Suspender, Suspender)
      /\ UNCHANGED <<sched, suspending, offWork, tickWork, powerIrq, faults, setter>>
  BY DEF ResumeActive
<1>2. /\ Good(S') /\ Resting(S)' /\ Awake(S)'
      /\ rest' \in [by : Holders \cup {Nobody}, step : RestSteps]
      /\ S'.refs = S.refs \cup {Suspender} /\ S'.gpuPowered = S.gpuPowered
      /\ S'.waitOff = S.waitOff /\ S'.policy = S.policy
      /\ S'.at = S.at /\ S'.worker = S.worker
  BY <1>1, Names, GetIs
<1>3. ControlTypes'
  BY <1>1, <1>2 DEF PowerInv, ControlTypes
<1>4. PoweringOff(S)' /\ Suspending(S)' /\ Setting(S)' /\ Scheduling(S)' /\ Counted(S)'
  BY <1>1, <1>2 DEF PowerInv, PoweringOff, Suspending, Setting, Scheduling, Counted
<1>. QED
  BY <1>2, <1>3, <1>4 DEF PowerInv

LEMMA SetPolicyActiveStep == ASSUME PowerInv, SetPolicyActive PROVE PowerInv'
<1>1. /\ PolicyChanges /\ ~suspending /\ setter' = "active" /\ GetRef(S, PolicySetter, PolicySetter)
      /\ UNCHANGED <<sched, suspending, offWork, tickWork, powerIrq, faults, susp>>
  BY DEF SetPolicyActive
<1>2. susp \notin {"powering_off", "down"}
  BY <1>1 DEF PowerInv, Suspending
<1>3. /\ Good(S') /\ Resting(S)' /\ Awake(S)'
      /\ rest' \in [by : Holders \cup {Nobody}, step : RestSteps]
      /\ S'.refs = S.refs \cup {PolicySetter} /\ S'.gpuPowered = S.gpuPowered
      /\ S'.waitOff = S.waitOff /\ S'.policy = S.policy
      /\ S'.at = S.at /\ S'.worker = S.worker
  BY <1>1, <1>2, Names, GetIs
<1>4. ControlTypes'
  BY <1>1, <1>3 DEF PowerInv, ControlTypes
<1>5. PoweringOff(S)' /\ Suspending(S)' /\ Setting(S)' /\ Scheduling(S)' /\ Counted(S)'
  BY <1>1, <1>2, <1>3 DEF PowerInv, PoweringOff, Suspending, Setting, Scheduling, Counted
<1>. QED
  BY <1>3, <1>4, <1>5 DEF PowerInv

\* A thread gives back the reference it holds of its own.
LEMMA OwnRefStep ==
  ASSUME PowerInv, NEW ref \in {Suspender, PolicySetter}, ref \in S.refs, PutRef(S, ref, ref),
         ref # Suspender => susp' = susp, ref = Suspender => susp' = "up" /\ ~suspending,
         setter' # "idle" => setter' = setter /\ ref # PolicySetter,
         UNCHANGED <<sched, suspending, offWork, tickWork, powerIrq, faults>>,
         setter' \in {setter, "idle"}
  PROVE  PowerInv'
<1>1. Good(S) /\ Still(S, S) /\ ref \in Holders
  BY Names DEF PowerInv, Still
<1>2. \A c \in Ctxs : Context(c) # ref /\ Worker(c) # ref
  BY Names
<1>3. \A j \in Jobs : CtxOf[j] \in Ctxs
  BY Names
<1>4. GpuTicks > 0 /\ Holding(S) => S.refs \ {ref} # {}
  BY <1>2, <1>3, HoldersAreCounted DEF Holding
<1>5. /\ Good(S') /\ Resting(S)' /\ Awake(S)'
      /\ rest' \in [by : Holders \cup {Nobody}, step : RestSteps]
      /\ S'.refs = S.refs \ {ref} /\ S'.gpuPowered = S.gpuPowered
      /\ S'.waitOff = S.waitOff /\ S'.policy = S.policy
      /\ S'.at = S.at /\ S'.worker = S.worker
  BY <1>1, <1>2, <1>3, <1>4, PutIs
<1>6. susp' = susp \/ susp' = "up"
  OBVIOUS
<1>7. ControlTypes'
  BY <1>5, <1>6 DEF PowerInv, ControlTypes
<1>8. PoweringOff(S)' /\ Suspending(S)' /\ Setting(S)'
  BY <1>5 DEF PowerInv, PoweringOff, Suspending, Setting
<1>9. sched # NoCtx => sched.ctx \in Ctxs
  BY DEF PowerInv, ControlTypes
<1>10. Scheduling(S)' /\ Counted(S)'
  BY <1>2, <1>5, <1>9 DEF PowerInv, Scheduling, Counted
<1>. QED
  BY <1>5, <1>7, <1>8, <1>10 DEF PowerInv

LEMMA ResumeIdleStep == ASSUME PowerInv, ResumeIdle PROVE PowerInv'
<1>1. /\ susp = "resumed" /\ susp' = "up" /\ PutRef(S, Suspender, Suspender)
      /\ UNCHANGED <<sched, suspending, offWork, tickWork, powerIrq, faults, setter>>
  BY DEF ResumeIdle
<1>2. Suspender \in S.refs /\ ~suspending /\ Suspender # PolicySetter
  BY <1>1, Names DEF PowerInv, Suspending
<1>. QED
  BY <1>1, <1>2, OwnRefStep

LEMMA SetPolicyIdleStep == ASSUME PowerInv, SetPolicyIdle PROVE PowerInv'
<1>1. /\ setter = "installed" /\ setter' = "idle" /\ PutRef(S, PolicySetter, PolicySetter)
      /\ UNCHANGED <<sched, suspending, offWork, tickWork, powerIrq, faults, susp>>
  BY DEF SetPolicyIdle
<1>2. PolicySetter \in S.refs /\ Suspender # PolicySetter
  BY <1>1, Names DEF PowerInv, Setting
<1>. QED
  BY <1>1, <1>2, OwnRefStep

\* The policy is replaced.
LEMMA PolicyIs ==
  ASSUME NEW s, Good(s), NEW p \in Policies \cup {"none"}, GpuTicks = 0
  PROVE  LET t == [s EXCEPT !.policy = p] IN
         /\ t \in HwStates /\ Good(t) /\ t.refs = s.refs /\ t.gpuPowered = s.gpuPowered
         /\ t.waitOff = s.waitOff /\ t.onRequired = s.onRequired /\ t.policy = p
         /\ t.at = s.at /\ t.worker = s.worker
         /\ ShaderKept(s) => ShaderKept(t)
<1>. DEFINE t == [s EXCEPT !.policy = p]
<1>0. s \in HwStates
  BY DEF Good, CoresInv, Backed
<1>1. t \in HwStates
  BY <1>0 DEF HwStates
<1>2. /\ t.refs = s.refs /\ t.gpuPowered = s.gpuPowered /\ t.waitOff = s.waitOff
      /\ t.onRequired = s.onRequired /\ t.gpuTicksLeft = s.gpuTicksLeft
      /\ t.timerNeeded = s.timerNeeded /\ t.timerRunning = s.timerRunning
      /\ t.policy = p /\ t.desired = s.desired
      /\ t.avail = s.avail /\ t.dropping = s.dropping /\ t.dropTicks = s.dropTicks
      /\ t.ready = s.ready /\ t.trans = s.trans /\ t.at = s.at
      /\ t.coreref = s.coreref /\ t.worker = s.worker /\ t.spins = s.spins
  BY <1>0 DEF HwStates
<1>. HIDE DEF t
<1>3. CoresInv(t) /\ Ticking(t)
  BY <1>1, <1>2 DEF Good, CoresInv, Backed, Ticking
<1>4. Placed(t)
  BY <1>2 DEF Good, Placed
<1>5. ~(GpuTicks > 0)
  OBVIOUS
<1>6. Good(t)
  BY <1>2, <1>3, <1>4, <1>5 DEF Good, Deferred
<1>7. ShaderKept(s) => ShaderKept(t)
  BY <1>2 DEF ShaderKept
<1>. QED
  BY <1>1, <1>2, <1>6, <1>7 DEF t

\* Policy changes come with an immediate power-off.
LEMMA SetterIs ==
  ASSUME Undisturbed, PowerInv, setter # "idle"
  PROVE  GpuTicks = 0 /\ PolicySetter \in S.refs
BY DEF PowerInv, Setting, Undisturbed

LEMMA PolicyStep ==
  ASSUME PowerInv, ControlTypes', Good(S'), Resting(S)', Settled(S)', setter # "idle",
         S'.refs = S.refs, S'.gpuPowered = S.gpuPowered, S'.waitOff = S.waitOff, S'.at = S.at,
         S'.worker = S.worker,
         UNCHANGED <<sched, suspending, offWork, tickWork, powerIrq, faults, susp>>
  PROVE  PowerInv'
<1>1. Awake(S)'
  BY DEF Awake
<1>2. PoweringOff(S)' /\ Suspending(S)' /\ Setting(S)' /\ Scheduling(S)' /\ Counted(S)'
  BY DEF PowerInv, PoweringOff, Suspending, Setting, Scheduling, Counted
<1>. QED
  BY <1>1, <1>2 DEF PowerInv

LEMMA SetPolicyRemoveStep == ASSUME Undisturbed, PowerInv, SetPolicyRemove PROVE PowerInv'
<1>. DEFINE t == [S EXCEPT !.policy = "none"]
<1>1. /\ setter = "active" /\ ~Locked /\ Becomes(t)
      /\ rest' = [by |-> PolicySetter, step |-> "no_policy"]
      /\ setter' \in Policies
      /\ UNCHANGED <<sched, suspending, offWork, tickWork, powerIrq, faults, susp>>
  BY DEF SetPolicyRemove, Policies
<1>2. GpuTicks = 0 /\ S.refs # {} /\ Good(S) /\ Settled(S)
  BY <1>1, SetterIs, UnlockedIsSettled DEF PowerInv
<1>3. /\ t \in HwStates /\ Good(t) /\ t.refs = S.refs /\ t.gpuPowered = S.gpuPowered
      /\ t.waitOff = S.waitOff /\ t.onRequired = S.onRequired /\ t.policy = "none"
      /\ t.at = S.at /\ t.worker = S.worker
      /\ ShaderKept(S) => ShaderKept(t)
  BY <1>2, PolicyIs
<1>. HIDE DEF t
<1>4. S' = t
  BY <1>1, <1>3, BecomesIs
<1>5. Settled(S)' /\ Resting(S)'
  BY <1>1, <1>2, <1>3, <1>4 DEF Settled, Resting
<1>6. ControlTypes'
  BY <1>1, Names DEF PowerInv, ControlTypes, RestSteps
<1>. QED
  BY <1>1, <1>3, <1>4, <1>5, <1>6, PolicyStep

LEMMA SetPolicyInstallStep == ASSUME Undisturbed, PowerInv, SetPolicyInstall PROVE PowerInv'
<1>. DEFINE t == [S EXCEPT !.policy = setter]
            u == UpdateActive(t)
<1>1. /\ setter \in Policies /\ rest = [by |-> PolicySetter, step |-> "no_policy"]
      /\ Becomes(u.st)
      /\ rest' = [by |-> PolicySetter, step |-> IF u.step = "done" THEN "update_cores" ELSE u.step]
      /\ setter' = "installed"
      /\ UNCHANGED <<sched, suspending, offWork, tickWork, powerIrq, faults, susp>>
  BY DEF SetPolicyInstall
<1>2. setter # "idle" /\ setter # "none"
  BY <1>1 DEF Policies
<1>3. GpuTicks = 0 /\ S.refs # {} /\ Good(S)
  BY <1>2, SetterIs DEF PowerInv
<1>4. Settled(S)
  BY <1>1, <1>3 DEF PowerInv, Awake, Arriving
<1>5. /\ t \in HwStates /\ Good(t) /\ t.refs = S.refs /\ t.gpuPowered = S.gpuPowered
      /\ t.waitOff = S.waitOff /\ t.onRequired = S.onRequired /\ t.policy = setter
      /\ t.at = S.at /\ t.worker = S.worker
      /\ ShaderKept(S) => ShaderKept(t)
  BY <1>1, <1>3, PolicyIs
<1>. HIDE DEF t
<1>6. ~(GpuTicks > 0)
  BY <1>3
<1>7. /\ u.step \in {"done", "clock_on", "power_off"}
      /\ CoresInv(u.st) /\ Same(t, u.st)
      /\ u.st.dropping \subseteq t.dropping
      /\ t.onRequired => u.st.onRequired
      /\ u.step = "power_off" => t.refs = {} /\ t.gpuPowered /\ GpuTicks = 0
      /\ u.step = "clock_on" => ~t.waitOff
      /\ Ticking(u.st)
  BY <1>5, <1>6, UpdateActiveIs DEF Good
<1>. HIDE DEF u
<1>8. S' = u.st
  BY <1>1, <1>7, BecomesIs DEF CoresInv, Backed
<1>9. Good(S')
  <2>1. Placed(S')
    BY <1>5, <1>7, <1>8 DEF Good, Placed, Same
  <2>. QED
    BY <1>5, <1>6, <1>7, <1>8, <2>1 DEF Good, Deferred, Same
<1>10. Settled(S)'
  BY <1>4, <1>5, <1>7, <1>8 DEF Settled, ShaderKept, Same
<1>11. rest'.step \in {"update_cores", "clock_on"} /\ (rest'.step = "clock_on" => ~t.waitOff)
       /\ rest' \in [by : Holders \cup {Nobody}, step : RestSteps]
  BY <1>1, <1>3, <1>5, <1>7, Names DEF RestSteps
<1>12. Resting(S)'
  BY <1>2, <1>5, <1>7, <1>8, <1>11 DEF Resting, Same
<1>13. ControlTypes'
  BY <1>1, <1>11 DEF PowerInv, ControlTypes
<1>. QED
  BY <1>1, <1>2, <1>5, <1>7, <1>8, <1>9, <1>10, <1>12, <1>13, PolicyStep DEF Same

-----------------------------------------------------------------------------
(* The theorems.                                                            *)

LEMMA InitInv == ASSUME Init PROVE PowerInv
<1>1. GpuTicks \in Nat /\ ShaderTicks \in Nat /\ 0 \in 0..GpuTicks /\ 0 \in 0..ShaderTicks
  BY PowerAssumption
<1>2. 1 \in Jobs
  BY PowerAssumption DEF Jobs
<1>3. at \in [Jobs -> Places] /\ coreref \in [Jobs -> Corerefs] /\ worker \in [Ctxs -> Works]
  BY <1>2 DEF Init, Places, Corerefs, Works, NoWork
<1>4. S \in HwStates
  <2>1. /\ refs \subseteq Holders /\ gpuPowered \in BOOLEAN /\ offPending \in BOOLEAN
        /\ waitOff \in BOOLEAN /\ onRequired \in BOOLEAN /\ gpuTicksLeft \in 0..GpuTicks
        /\ timerNeeded \in BOOLEAN /\ timerRunning \in BOOLEAN /\ policy \in Policies \cup {"none"}
        /\ desired \subseteq Types /\ avail \subseteq Types /\ dropping \subseteq Types
        /\ dropTicks \in 0..ShaderTicks /\ ready \subseteq Types \cup {"l2"}
        /\ trans \subseteq Types \cup {"l2"} /\ spins \in BOOLEAN
    BY <1>1 DEF Init, Policies
  <2>. QED
    BY <1>3, <2>1 DEF S, HwStates
<1>5. CoresInv(S) /\ Ticking(S)
  BY <1>4, Parts DEF Init, CoresInv, Backed, Ticking
<1>6. Placed(S) /\ ~S.spins
  BY Parts DEF Init, Placed
<1>7. Deferred(S)
  BY Parts DEF Init, Deferred, Holding, NoWork
<1>8. ControlTypes
  BY DEF Init, ControlTypes, RestSteps, Free
<1>9. PoweringOff(S) /\ Suspending(S) /\ Resting(S) /\ Setting(S) /\ Scheduling(S) /\ Awake(S)
  BY Parts DEF Init, PoweringOff, Suspending, Resting, Setting, Scheduling, Awake, Free
<1>10. Counted(S)
  BY Parts DEF Init, Counted
<1>. QED
  BY <1>5, <1>6, <1>7, <1>8, <1>9, <1>10 DEF PowerInv, Good

LEMMA NextInv == ASSUME Undisturbed, PowerInv, Next PROVE PowerInv'
<1>1. CASE \E c \in Ctxs : Activate(c) \/ WorkerNext(c)
  BY <1>1, ActivateStep, DoneStartStep, ReturnStartStep, ReturnUnlockStep, PostReleaseStep,
     PostCheckStep, PostUpdateStep, WorkerEndStep DEF WorkerNext
<1>2. CASE \E j \in Jobs : JobIrq(j) \/ Evict(j)
  BY <1>2, JobIrqStep, EvictStep
<1>3. CASE SchedNext \/ LockNext
  BY <1>3, NothingPulledStep, PullStep, RestClockOnStep, RestUpdateCoresStep, RestPowerOffStep
     DEF SchedNext, LockNext
<1>4. CASE TimerTick \/ TickWork \/ PoweroffNext
  BY <1>4, TimerTickStep, TickWorkStep, PoweroffWaitStep, PoweroffFlushedStep DEF PoweroffNext
<1>5. CASE CoresNext \/ PowerIrq \/ Fault \/ FaultHandled
  BY <1>5, CorePoweredStep, PowerIrqStep, FaultStep DEF CoresNext
<1>6. CASE Suspend \/ Resume \/ SuspendNext
  BY <1>6, SuspendStep, ResumeStep, SuspendPoweroffStep, ResumeActiveStep, ResumeIdleStep DEF SuspendNext
<1>7. CASE SetPolicyActive \/ SetPolicyNext
  BY <1>7, SetPolicyActiveStep, SetPolicyRemoveStep, SetPolicyInstallStep, SetPolicyIdleStep
     DEF SetPolicyNext
<1>. QED
  BY <1>1, <1>2, <1>3, <1>4, <1>5, <1>6, <1>7 DEF Next

\* The invariant of power management holds, for any atoms, contexts and ticks.
\* (kbase_pm_update_active, kbase_pm_gpu_poweroff_wait_wq)
THEOREM PowerInvariant == ASSUME Undisturbed PROVE Spec => []PowerInv
<1>1. Init => PowerInv
  BY InitInv
<1>2. PowerInv /\ [Next]_vars => PowerInv'
  <2>. SUFFICES ASSUME PowerInv, [Next]_vars PROVE PowerInv'
    OBVIOUS
  <2>1. CASE Next
    BY <2>1, NextInv
  <2>2. CASE UNCHANGED vars
    <3>1. UNCHANGED hwVars
      BY <2>2 DEF vars
    <3>2. S' = S
      BY <3>1, NothingChanged
    <3>3. Good(S') /\ Still(S, S') /\ ControlTypes'
      BY <2>2, <3>2 DEF PowerInv, Still, ControlTypes, vars
    <3>. QED
      BY <2>2, <3>2, <3>3, StillStep DEF vars
  <2>. QED
    BY <2>1, <2>2
<1>. QED
  BY <1>1, <1>2, PTL DEF Spec

LEMMA TypesHold == ASSUME PowerInv PROVE TypeOK
<1>1. S \in HwStates
  BY StateIs
<1>2. /\ refs \subseteq Holders /\ gpuPowered \in BOOLEAN /\ offPending \in BOOLEAN
      /\ waitOff \in BOOLEAN /\ onRequired \in BOOLEAN /\ gpuTicksLeft \in 0..GpuTicks
      /\ timerNeeded \in BOOLEAN /\ timerRunning \in BOOLEAN /\ policy \in Policies \cup {"none"}
      /\ desired \subseteq Types /\ avail \subseteq Types /\ dropping \subseteq Types
      /\ dropTicks \in 0..ShaderTicks /\ ready \subseteq Types \cup {"l2"}
      /\ trans \subseteq Types \cup {"l2"} /\ spins \in BOOLEAN
      /\ at \in [Jobs -> Places] /\ coreref \in [Jobs -> Corerefs] /\ worker \in [Ctxs -> Works]
  BY <1>1, Parts, Fields
<1>3. ControlTypes /\ rest.by \in Holders \cup {Nobody}
  BY DEF PowerInv, ControlTypes
<1>4. {suspending, gpuPowered, offPending, waitOff, onRequired,
       timerNeeded, timerRunning, spins, tickWork, powerIrq, faults} \subseteq BOOLEAN
  BY <1>2, <1>3 DEF ControlTypes
<1>. QED
  BY <1>2, <1>3, <1>4 DEF TypeOK, ControlTypes, Places, Corerefs, Works

LEMMA ActiveHasPower == ASSUME PowerInv PROVE ActiveIsPowered
<1>. SUFFICES ASSUME refs # {}, ~Locked PROVE gpuPowered /\ (waitOff => onRequired)
  BY DEF ActiveIsPowered
<1>1. S.refs # {}
  BY Parts
<1>2. S.gpuPowered /\ (S.waitOff => S.onRequired)
  BY <1>1, UnlockedIsSettled DEF Settled
<1>. QED
  BY <1>2, Parts

\* No job runs without power under it, and an active context has the GPU on.
\* (kbase_pm_request_cores, kbase_pm_context_active)
THEOREM PowerFollows == ASSUME Undisturbed PROVE Spec => []PowerFollowsWork
<1>1. PowerInv => PowerFollowsWork
  <2>. SUFFICES ASSUME PowerInv PROVE PowerFollowsWork
    OBVIOUS
  <2>1. JobsHavePower
    BY Parts DEF JobsHavePower, PowerInv, Good, Placed
  <2>. QED
    BY <2>1, TypesHold, ActiveHasPower DEF PowerFollowsWork
<1>. QED
  BY <1>1, PowerInvariant, PTL

\* The loop that asks again for the affinity of a job comes to an end.
\* (kbasep_js_job_check_ref_cores)
THEOREM AffinityIsFound == ASSUME Undisturbed PROVE Spec => []NeverSpins
<1>1. PowerInv => NeverSpins
  BY Parts DEF NeverSpins, PowerInv, Good
<1>. QED
  BY <1>1, PowerInvariant, PTL

\* The GPU goes off by the timer alone, and stays powered until then.
\* (kbase_pm_update_active, kbasep_pm_do_gpu_poweroff_callback)
THEOREM PoweroffsAreTimed == ASSUME Undisturbed PROVE Spec => []IdlePoweroff
<1>1. PowerInv => IdlePoweroff
  <2>. SUFFICES ASSUME PowerInv PROVE IdlePoweroff
    OBVIOUS
  <2>1. PoweroffIsTimed
    BY Parts DEF PoweroffIsTimed, PowerInv, Good, Ticking
  <2>. QED
    BY <2>1, ActiveHasPower DEF IdlePoweroff
<1>. QED
  BY <1>1, PowerInvariant, PTL
=============================================================================
