---------------------------- MODULE VinstrProofs ----------------------------
(***************************************************************************)
(* Proofs about Vinstr, for any clients, ring size and bounds.             *)
(***************************************************************************)
EXTENDS Vinstr, FiniteSetTheorems, TLAPS

States == {"IDLE", "DUMPING", "SUSPENDING", "SUSPENDED", "RESUMING"}
VRec == [state : States, cnt : Nat, needSuspend : BOOLEAN, needResume : BOOLEAN,
         works : SUBSET {"suspend", "resume"}]
Lists == {"none", "idle", "waiting", "expired", "suspended"}
ClRec == [list : Lists, pending : BOOLEAN, due : BOOLEAN, waits : BOOLEAN]
Index == 0 .. Modulus - 1
RingRec == [write : Index, read : Index, meta : Index]
Ops == {"none", "attach", "detach", "dump", "clear", "service", "suspend",
  "resume"}
Pcs == {"none", "enable", "setup", "cleaning", "disable", "unref", "request",
        "sampling", "dumped", "collect", "collected", "serve", "served", "fill",
        "notify", "reprogram", "reenable", "reprogrammed", "create", "created",
        "join", "destroy", "destroyed", "suspended", "resumed"}
HRec == [who : Clients \cup {"none", "service", "suspend", "resume"}, op : Ops,
         pc : Pcs, ret : Pcs, cli : Clients \cup {"none"}, err : BOOLEAN]
BRec == [state : {"DISABLED", "IDLE", "DUMPING", "REQUEST_CLEAN", "CLEANING",
                  "CLEANED", "FAULT"}, triggered : BOOLEAN]
HwRec == [sampling : BOOLEAN, cleanQueued : BOOLEAN, cleaning : BOOLEAN,
  irq : BOOLEAN]
ResetAt == {"off", "want", "held", "resetting", "finishing", "releasing"}
PmAt == {"off", "want", "held"}
ProtectedAt == {"off", "want", "entering", "entered", "leaving"}

\* What the users' places are drawn from.
UsersTyped ==
    /\ users \in [{"reset", "pm", "protected"} -> ResetAt \cup ProtectedAt]
    /\ users["reset"] \in ResetAt /\ users["pm"] \in PmAt
    /\ users["protected"] \in ProtectedAt

\* The types of the variables, the count unbounded.
Shape ==
    /\ v \in VRec /\ cl \in [Clients -> ClRec] /\ ring \in [Readers -> RingRec]
    /\ holder \in HRec /\ UsersTyped /\ b \in BRec /\ hw \in HwRec
    /\ kctx \in BOOLEAN /\ present \in BOOLEAN /\ reprogram \in BOOLEAN
    /\ bitmap \subseteq Clients /\ programmed \subseteq Clients
    /\ asleep \subseteq Sleepers /\ others \in 0 .. 1
         /\ changes \in 0 .. MaxChanges
    /\ fault \in BOOLEAN /\ faults \in 0 .. MaxFaults

Enabling == {"enable", "setup", "cleaning"}
Disabling == {"disable", "unref"}
Dumping == {"request", "sampling", "dumped"}
Updating == {"collect", "collected", "fill", "notify", "reprogram", "reenable",
             "reprogrammed"}

\* The steps a call goes through, and where enabling and disabling return to.
Place ==
    /\ holder.op = "none" => holder.pc = "none"
    /\ holder.op = "attach" =>
         \/ holder.pc \in {"create", "created", "join", "destroy", "destroyed"}
         \/ holder.pc \in Enabling /\ holder.ret = "created"
         \/ holder.pc \in Disabling /\ holder.ret = "destroyed"
    /\ holder.op = "detach" =>
         \/ holder.pc \in {"destroy", "destroyed"}
         \/ holder.pc \in Disabling /\ holder.ret = "destroyed"
    /\ holder.op \in {"dump", "clear", "service"} =>
         \/ holder.pc \in Updating \cup Dumping
         \/ holder.pc \in {"serve", "served"} /\ holder.op = "service"
         \/ holder.pc \in Enabling /\ holder.ret = "reprogrammed"
         \/ holder.pc \in Disabling /\ holder.ret = "reenable"
    /\ holder.op = "suspend" =>
         \/ holder.pc = "suspended"
         \/ holder.pc \in Disabling /\ holder.ret = "suspended"
    /\ holder.op = "resume" =>
         \/ holder.pc = "resumed"
         \/ holder.pc \in Enabling /\ holder.ret = "resumed"
    /\ holder.op \in {"attach", "detach"} => holder.cli \in Readers
    /\ holder.op \in {"dump", "clear"} => holder.cli \in Clients
    /\ holder.op = "service" /\ holder.pc \in {"fill", "notify", "served"} =>
         holder.cli \in Clients /\ cl[holder.cli].list # "none"

\* A worker is queued or runs only in the state it is to end; only a dump is
\* under way in DUMPING; the count is taken in SUSPENDED and keeps it there.
Phases ==
    /\ "suspend" \in v.works =>
         v.state = "SUSPENDING" /\ holder.op # "suspend"
           /\ holder.pc \notin Dumping
    /\ "resume" \in v.works => v.state = "RESUMING" /\ holder.op # "resume"
    /\ holder.op = "suspend" => v.state = "SUSPENDING"
    /\ holder.op = "resume" => v.state = "RESUMING"
    /\ holder.pc \in Dumping => v.state \in {"DUMPING", "SUSPENDING"}
    /\ v.state = "DUMPING" => holder.pc \in Dumping
    /\ v.cnt > 0 => v.state = "SUSPENDED"

\* The count covers every user; what it has too many are the suspensions of
\* protected jobs that a reset has killed, and those stay below the bound.
Share(u) == IF users[u] \in {"off", "want"} THEN 0 ELSE 1
Leaked == v.cnt - (Share("reset") + Share("pm") + Share("protected"))
Hung ==
    IF users["protected"] = "entered" /\ users["reset"] \in {"want", "held",
      "resetting"}
    THEN 1 ELSE 0
Shares ==
    /\ Leaked >= 0
    /\ Leaked + Hung = 0 \/ Leaked + Hung <= MaxCount - 1
    /\ users["reset"] \in {"want", "held", "resetting"} =>
         users["protected"] \in {"off", "entered", "leaving"}

\* The kernel context is there as long as a client is, but while the first
\* one comes and the last one goes.
Changing == holder.op \in {"attach", "detach"}
Dying == Changing /\ holder.pc \in Disabling \cup {"destroyed"}
Contexts ==
    /\ present <=> kctx /\ ~Dying
    /\ ~Changing => (kctx <=> Attached # {})
    /\ Changing /\ holder.pc = "create" => ~kctx
    /\ Changing /\ holder.pc # "create" => kctx
    /\ Changing /\ holder.pc # "join" => Attached = {}
    /\ holder.op \in {"dump", "clear", "service"} => kctx
    /\ holder.pc \in Enabling \cup Disabling => kctx
    /\ Attached \subseteq bitmap
    /\ holder.op = "attach" /\ holder.pc \in Enabling \cup {"create",
         "created", "join"} =>
         holder.cli \in bitmap

\* Whether the counters are on, and with them the references, follows from the
\* state and from the step of the call under way.
On == programmed # {}
Counters ==
    /\ pmRefs = IF On \/ holder.pc \in {"setup", "cleaning",
         "unref"} THEN 1 ELSE 0
    /\ holder.pc \in Enabling \cup {"create", "unref", "reenable", "destroyed",
         "suspended"}
         => ~On
    /\ holder.pc = "created" /\ holder.err => ~On
    /\ On => kctx
    /\ b.state = "DISABLED" => ~On
    /\ b.state = "IDLE" => On \/ holder.pc = "cleaning"
    /\ holder.pc = "sampling" \/ (holder.pc = "dumped" /\ ~holder.err) => On
    /\ holder.op # "resume" /\ holder.pc \in Enabling \cup {"reenable"} =>
         v.state \in {"IDLE", "SUSPENDING"}
    /\ holder.pc \in Disabling /\ holder.ret = "reenable"
         => v.state \in {"IDLE", "SUSPENDING"}
    /\ v.state \in {"SUSPENDED", "RESUMING"} /\ holder.op # "resume" /\ ~Dying
         => ~On
    /\ holder.pc = "resumed" /\ kctx => On \/ b.state = "FAULT"
    /\ /\ v.state \in {"IDLE", "DUMPING"} /\ present
       /\ holder.pc \notin Enabling \cup {"unref", "reenable"}
       /\ ~(holder.pc = "created" /\ holder.err)
       => On \/ b.state = "FAULT"

\* The hardware has at most one thing to do, and someone waits for it.
Device ==
    /\ hw.sampling \/ hw.cleanQueued \/ hw.cleaning =>
         holder.pc \in {"cleaning", "sampling"} /\ ~b.triggered
    /\ ~(hw.sampling /\ hw.cleanQueued) /\ ~(hw.sampling /\ hw.cleaning)
    /\ ~(hw.cleanQueued /\ hw.cleaning)
    /\ b.state = "DUMPING" => hw.sampling
    /\ b.state = "REQUEST_CLEAN" => hw.cleanQueued
    /\ b.state \in {"CLEANING", "CLEANED"} => hw.cleaning

\* A client without counters in the hardware is marked as pending.
Fresh ==
    /\ On => \A c \in Clients :
         /\ ~cl[c].pending
         /\ cl[c].list # "none" \/ (holder.pc = "join" /\ holder.cli = c)
         => c \in programmed
    /\ holder.pc = "created" /\ On => holder.cli \in programmed
    /\ holder.pc = "reprogrammed" /\ ~holder.err
         => Attached \subseteq programmed

\* What is unread fits the ring, a buffer taken is unread, and the one that is
\* being filled leaves room.
Ahead(x, y) == IF x >= y THEN x - y ELSE x - y + Modulus
Rings ==
    /\ \A r \in Readers :
         /\ Ahead(ring[r].write, ring[r].read) <= BufferCount
         /\ ring[r].meta # ring[r].read =>
              Ahead(ring[r].meta, ring[r].read) = 1
                /\ ring[r].write # ring[r].read
    /\ holder.pc = "notify" /\ holder.cli \in Readers =>
         Ahead(ring[holder.cli].write, ring[holder.cli].read) < BufferCount

VinstrInv ==
    /\ Shape /\ Place /\ Phases /\ Shares /\ Contexts /\ Counters /\ Device
    /\ Fresh /\ Rings

-----------------------------------------------------------------------------
(* What the helpers do *)

\* The state machine is nudged by a client, a user or a power callback: the
\* transitions that neither a worker nor a dump makes.
Nudged ==
    /\ v' \in VRec
    /\ v'.cnt > 0 => v'.state = "SUSPENDED"
    /\ \/ v'.state = v.state /\ v'.works = v.works
       \/ v.state = "SUSPENDED" /\ v'.state = "RESUMING"
            /\ v'.works = v.works \cup {"resume"}
       \/ v.state = "SUSPENDED" /\ v'.state = "IDLE" /\ v'.works = v.works
            /\ ~present
       \/ v.state = "IDLE" /\ v'.state = "SUSPENDING"
            /\ v'.works = v.works \cup {"suspend"}
       \/ v.state = "IDLE" /\ v'.state = "SUSPENDED" /\ v'.works = v.works
            /\ ~present
       \/ v.state = "DUMPING" /\ v'.state = "SUSPENDING" /\ v'.works = v.works

\* No client comes or goes, and none is pending or not that was not.
ClientsKept ==
    /\ cl' \in [Clients -> ClRec]
    /\ \A c \in Clients : /\ cl'[c].list = "none" <=> cl[c].list = "none"
                          /\ cl'[c].pending <=> cl[c].pending

\* A client that comes, goes or changes with the power only nudges the state.
LEMMA UpdateSuspendNudges ==
  ASSUME v \in VRec, v.cnt > 0 => v.state = "SUSPENDED", NEW n,
         v' = UpdateSuspend(v, n)
  PROVE  Nudged /\ v'.cnt = v.cnt
<1>1. /\ v' \in VRec /\ v'.cnt = v.cnt
      /\ \/ v'.state = v.state /\ v'.works = v.works
         \/ v.state = "SUSPENDED" /\ v.cnt = 0 /\ v'.state = "RESUMING"
              /\ v'.works = v.works \cup {"resume"}
         \/ v.state = "IDLE" /\ v'.state = "SUSPENDING"
              /\ v'.works = v.works \cup {"suspend"}
         \/ v.state = "DUMPING" /\ v'.state = "SUSPENDING" /\ v'.works = v.works
  BY DEF UpdateSuspend, VRec, States
<1> QED
  BY <1>1 DEF Nudged

\* A try to suspend takes the count or asks for it.
LEMMA TrySuspendNudges ==
  ASSUME v \in VRec, v.cnt > 0 => v.state = "SUSPENDED", present \in BOOLEAN,
         v' = TrySuspend(v)
  PROVE  Nudged /\ v'.cnt \in {v.cnt, v.cnt + 1}
<1>1. CASE v.state = "SUSPENDED"
  <2>1. v' = [v EXCEPT !.cnt = @ + 1]
    BY <1>1 DEF TrySuspend
  <2> QED
    BY <1>1, <2>1 DEF Nudged, VRec
<1>2. CASE v.state = "IDLE" /\ present
  <2>1. v' = [v EXCEPT !.state = "SUSPENDING", !.works = @ \cup {"suspend"}]
    BY <1>2 DEF TrySuspend
  <2> QED
    BY <1>2, <2>1 DEF Nudged, VRec, States
<1>3. CASE v.state = "IDLE" /\ ~present
  <2>1. PICK n \in Nat : n = v.cnt + 1
    BY DEF VRec
  <2>2. v' = [v EXCEPT !.state = "SUSPENDED", !.cnt = n]
    BY <1>3, <2>1 DEF TrySuspend
  <2>3. v' \in VRec /\ v'.cnt = n /\ v'.state = "SUSPENDED"
          /\ v'.works = v.works
    BY <2>2 DEF VRec, States
  <2> QED
    BY <1>3, <2>1, <2>3 DEF Nudged
<1>4. CASE v.state \in {"DUMPING", "RESUMING", "SUSPENDING"}
  <2>1. CASE v.state = "DUMPING"
    <3>1. v' = [v EXCEPT !.state = "SUSPENDING"]
      BY <2>1 DEF TrySuspend
    <3> QED
      BY <2>1, <3>1 DEF Nudged, VRec, States
  <2>2. CASE v.state = "RESUMING"
    <3>1. v' = [v EXCEPT !.needSuspend = TRUE]
      BY <2>2 DEF TrySuspend
    <3> QED
      BY <2>2, <3>1 DEF Nudged, VRec, States
  <2>3. CASE v.state = "SUSPENDING"
    <3>1. v' = v
      BY <2>3 DEF TrySuspend
    <3> QED
      BY <2>3, <3>1 DEF Nudged
  <2> QED
    BY <1>4, <2>1, <2>2, <2>3
<1> QED
  BY <1>1, <1>2, <1>3, <1>4 DEF VRec, States

\* A resume gives the count back; the last one queues the resume worker.
LEMMA ResumeNudges ==
  ASSUME v \in VRec, v.cnt > 0, v.state = "SUSPENDED", present \in BOOLEAN,
         v' = Resume(v)
  PROVE  Nudged /\ v'.cnt = v.cnt - 1
<1>1. CASE v.cnt > 1
  <2>1. v' = [v EXCEPT !.cnt = @ - 1]
    BY <1>1 DEF Resume
  <2> QED
    BY <1>1, <2>1 DEF Nudged, VRec
<1>2. CASE v.cnt = 1
  <2>1. CASE present
    <3>1. PICK w \in SUBSET {"suspend", "resume"} : w = v.works \cup {"resume"}
      BY DEF VRec
    <3>2. PICK n \in Nat : n = 0
      OBVIOUS
    <3>3. v' = [v EXCEPT !.cnt = n, !.state = "RESUMING", !.works = w]
      BY <1>2, <2>1, <3>1, <3>2 DEF Resume
    <3>4. v' \in VRec /\ v'.cnt = n /\ v'.state = "RESUMING" /\ v'.works = w
      BY <3>3 DEF VRec, States
    <3> QED
      BY <1>2, <3>1, <3>2, <3>4 DEF Nudged
  <2>2. CASE ~present
    <3>1. PICK n \in Nat : n = 0
      OBVIOUS
    <3>2. v' = [v EXCEPT !.cnt = n, !.state = "IDLE"]
      BY <1>2, <2>2, <3>1 DEF Resume
    <3>3. v' \in VRec /\ v'.cnt = n /\ v'.state = "IDLE" /\ v'.works = v.works
      BY <3>2 DEF VRec, States
    <3> QED
      BY <1>2, <2>2, <3>1, <3>3 DEF Nudged
  <2> QED
    BY <2>1, <2>2
<1> QED
  BY <1>1, <1>2 DEF VRec

\* To leave the state alone is a nudge.
LEMMA SameNudges ==
  ASSUME v \in VRec, v.cnt > 0 => v.state = "SUSPENDED", v' = v
  PROVE  Nudged /\ v'.cnt = v.cnt
BY DEF Nudged

\* The IPA model, where it is used, is a client.
LEMMA IpaClient == ASSUME UseIpa PROVE "ipa" \in Clients
BY DEF Clients

\* Its client changes list, but does not come or go.
LEMMA MoveIpaKeeps ==
  ASSUME cl \in [Clients -> ClRec], "ipa" \in Clients,
           NEW l \in Lists \ {"none"},
         cl["ipa"].list # "none", cl' = MoveIpa(l)
  PROVE  ClientsKept
BY DEF MoveIpa, ClientsKept, ClRec, Lists

\* The power callbacks move the IPA model's client and nudge the state.
LEMMA PowerNudges ==
  ASSUME v \in VRec, v.cnt > 0 => v.state = "SUSPENDED",
           cl \in [Clients -> ClRec],
         GpuActive \/ \E n : GpuIdle(n)
  PROVE  Nudged /\ v'.cnt = v.cnt /\ ClientsKept
<1>1. CASE UNCHANGED <<cl, v>>
  BY <1>1, SameNudges DEF ClientsKept
<1>2. CASE ~UNCHANGED <<cl, v>>
  <2>1. UseIpa /\ cl["ipa"].list \in {"idle", "suspended"}
    BY <1>2 DEF GpuActive, GpuIdle
  <2>2. \E l \in Lists \ {"none"} : cl' = MoveIpa(l)
    BY <1>2 DEF GpuActive, GpuIdle, Lists
  <2>3. ClientsKept
    BY <2>1, <2>2, MoveIpaKeeps, IpaClient
  <2>4. \E n : v' = UpdateSuspend(v, n)
    BY <1>2 DEF GpuActive, GpuIdle
  <2> QED
    BY <2>3, <2>4, UpdateSuspendNudges
<1> QED
  BY <1>1, <1>2

\* No client comes or goes, so the same ones are attached.
LEMMA AttachedKept == ASSUME ClientsKept PROVE Attached' = Attached
BY DEF ClientsKept, Attached

\* What a call leaves of its record as it goes on.
LEMMA GotoMoves ==
  ASSUME holder \in HRec, NEW pc \in Pcs, Goto(pc)
  PROVE  /\ holder' \in HRec /\ holder'.pc = pc /\ holder'.op = holder.op
         /\ holder'.ret = holder.ret /\ holder'.cli = holder.cli
              /\ holder'.err = holder.err
BY DEF Goto, HRec

\* A routine is entered with its return label, and no error yet.
LEMMA CallMoves ==
  ASSUME holder \in HRec, NEW pc \in Pcs, NEW ret \in Pcs, Call(pc, ret)
  PROVE  /\ holder' \in HRec /\ holder'.pc = pc /\ holder'.op = holder.op
         /\ holder'.ret = ret /\ holder'.cli = holder.cli /\ holder'.err = FALSE
BY DEF Call, HRec

\* It returns to the label with its result.
LEMMA ReturnMoves ==
  ASSUME holder \in HRec, NEW err \in BOOLEAN, Return(err)
  PROVE  /\ holder' \in HRec /\ holder'.pc = holder.ret
              /\ holder'.op = holder.op
         /\ holder'.ret = holder.ret /\ holder'.cli = holder.cli
         /\ holder'.err <=> err
BY DEF Return, HRec

\* The lock is let go.
LEMMA ReleaseMoves ==
  ASSUME Release
  PROVE  holder' \in HRec /\ holder'.pc = "none" /\ holder'.op = "none"
BY DEF Release, Nobody, HRec, Pcs, Ops

\* The lock is taken by one who finds it free.
LEMMA TakeMoves ==
  ASSUME NEW op \in Ops, NEW who \in Clients \cup {"service"},
         NEW c \in Clients \cup {"none"}, NEW pc \in Pcs, Take(who, op, c, pc)
  PROVE  /\ holder.pc = "none" /\ holder.op = "none"
         /\ holder' \in HRec /\ holder'.pc = pc /\ holder'.op = op
              /\ holder'.cli = c
BY DEF Take, Nobody, HRec, Pcs, Ops

-----------------------------------------------------------------------------
(* Steps of one kind *)

\* A step that leaves the call under way and the hardware alone, and nudges the
\* state machine, disturbs only the shares.
LEMMA NudgeKeeps ==
  ASSUME VinstrInv, Nudged, ClientsKept,
         UNCHANGED <<ctxVars, holder, pmRefs, hwVars>>
  PROVE  Place' /\ Phases' /\ Contexts' /\ Counters' /\ Device' /\ Fresh'
<1>1. Attached' = Attached
  BY AttachedKept
<1>2. UNCHANGED <<kctx, present, bitmap, holder, pmRefs, b, programmed, hw>>
  BY DEF ctxVars, hwVars
<1>3. Place'
  BY <1>2 DEF VinstrInv, Place, ClientsKept
<1>4. Phases'
  BY <1>2 DEF VinstrInv, Shape, VRec, Place, Contexts, Phases, Nudged, Dying,
     Changing
<1>5. Contexts'
  BY <1>1, <1>2 DEF VinstrInv, Contexts, Dying, Changing
<1>6. Counters'
  <2>1. /\ On' = On /\ Dying' = Dying
    BY <1>2 DEF On, Dying, Changing
  <2>2. /\ v'.state \in {"IDLE", "DUMPING"} /\ present => v.state \in {"IDLE",
             "DUMPING"}
        /\ v.state \in {"IDLE", "SUSPENDING"} /\ present
             => v'.state \in {"IDLE", "SUSPENDING"}
        /\ v'.state \in {"SUSPENDED", "RESUMING"} => v.state \in {"SUSPENDED",
             "RESUMING"} \/ ~present
    BY DEF Nudged, VinstrInv, Contexts, Dying, Counters
  <2>3. ~present => ~kctx \/ Dying
    BY DEF VinstrInv, Contexts
  <2>4. /\ holder.pc \in Enabling => present
        /\ holder.pc = "reenable" => present
        /\ holder.pc \in Disabling /\ holder.ret = "reenable" => present
    <3>1. holder.op \in Ops /\ holder.pc \in Pcs
      BY DEF VinstrInv, Shape, HRec
    <3>2. holder.pc \in Enabling => kctx /\ ~Dying
      BY DEF VinstrInv, Contexts, Enabling, Disabling, Dying
    <3>3. holder.pc = "reenable" => ~Changing /\ kctx
      BY <3>1 DEF VinstrInv, Contexts, Place, Enabling, Disabling, Changing, Ops
    <3>4. holder.pc \in Disabling /\ holder.ret = "reenable" => ~Changing
            /\ kctx
      BY <3>1 DEF VinstrInv, Contexts, Place, Enabling, Disabling, Changing, Ops
    <3> QED
      BY <3>2, <3>3, <3>4 DEF VinstrInv, Contexts, Dying
  <2> QED
    BY <1>2, <2>1, <2>2, <2>3, <2>4 DEF VinstrInv, Counters
<1>7. Device' /\ Fresh'
  BY <1>1, <1>2 DEF VinstrInv, Device, Fresh, On, ClientsKept
<1> QED
  BY <1>3, <1>4, <1>5, <1>6, <1>7

\* Between the steps that deal with the hardware or the context.
Plain == {"none", "collect", "collected", "serve", "served", "fill", "notify",
  "reprogram"}

\* Steps between those keep all that is said of the counters.
LEMMA PlainKeeps ==
  ASSUME VinstrInv, ClientsKept, UNCHANGED <<v, ctxVars, pmRefs, hwVars>>,
         holder.pc \in Plain, holder'.pc \in Plain,
         holder.op \in {"none", "dump", "clear", "service"},
         holder'.op \in {"none", "dump", "clear", "service"},
         holder'.op # "none" => kctx
  PROVE  Phases' /\ Contexts' /\ Counters' /\ Device' /\ Fresh'
<1>1. Attached' = Attached
  BY AttachedKept
<1>2. UNCHANGED <<v, kctx, present, bitmap, pmRefs, b, programmed, hw>>
  BY DEF ctxVars, hwVars
<1>3. ~Dying /\ ~Dying' /\ ~Changing /\ ~Changing' /\ On' = On
  BY <1>2 DEF Dying, Changing, On
<1>4. Phases'
  BY <1>2 DEF VinstrInv, Phases, Plain, Dumping
<1>5. Contexts'
  BY <1>1, <1>2, <1>3 DEF VinstrInv, Contexts, Plain, Enabling, Disabling,
     Changing
<1>6. Counters'
  BY <1>2, <1>3 DEF VinstrInv, Counters, Plain, Enabling, Disabling, Contexts
<1>7. Device' /\ Fresh'
  BY <1>1, <1>2, <1>3 DEF VinstrInv, Device, Fresh, ClientsKept, Plain
<1> QED
  BY <1>4, <1>5, <1>6, <1>7

\* The shares depend on the count and the users alone.
LEMMA SharesKept ==
  ASSUME Shares, v'.cnt = v.cnt, UNCHANGED users
  PROVE  Shares'
BY DEF Shares, Leaked, Share, Hung

\* The rings are safe as long as none changes and none is about to be filled.
LEMMA RingsKept ==
  ASSUME Rings, UNCHANGED ring, UNCHANGED holder \/ holder'.pc # "notify"
  PROVE  Rings'
BY DEF Rings, Ahead

-----------------------------------------------------------------------------
(* The users of the suspend protocol, and the power callbacks *)

\* A step that only nudges keeps the invariant if the shares still add up.
LEMMA NudgeInv ==
  ASSUME VinstrInv, Nudged, ClientsKept,
         UNCHANGED <<ctxVars, ring, holder, pmRefs, hwVars>>,
         Shares', UsersTyped', asleep' \subseteq Sleepers, others' \in 0 .. 1,
         changes' \in 0 .. MaxChanges
  PROVE  VinstrInv'
<1>1. Place' /\ Phases' /\ Contexts' /\ Counters' /\ Device' /\ Fresh'
  BY NudgeKeeps
<1>2. Rings'
  BY RingsKept DEF VinstrInv
<1>3. Shape'
  BY DEF VinstrInv, Shape, Nudged, ClientsKept, ctxVars, hwVars
<1> QED
  BY <1>1, <1>2, <1>3 DEF VinstrInv

\* What the leaves below read of the invariant.
LEMMA Basics ==
  ASSUME VinstrInv
  PROVE  /\ v \in VRec /\ v.cnt \in Nat /\ (v.cnt > 0 => v.state = "SUSPENDED")
         /\ cl \in [Clients -> ClRec] /\ holder \in HRec /\ present \in BOOLEAN
         /\ UsersTyped /\ asleep \subseteq Sleepers /\ others \in 0 .. 1
         /\ changes \in 0 .. MaxChanges /\ Shares
BY DEF VinstrInv, Shape, VRec, Phases

\* To leave the clients alone keeps them.
LEMMA SameClients == ASSUME cl \in [Clients -> ClRec],
  UNCHANGED cl PROVE ClientsKept
BY DEF ClientsKept

\* A share is one or none, before and after.
LEMMA ShareTyped ==
  /\ \A u \in {"reset", "pm", "protected"} : Share(u) \in 0 .. 1
       /\ Share(u)' \in 0 .. 1
  /\ Hung \in 0 .. 1 /\ Hung' \in 0 .. 1
BY DEF Share, Hung

\* One who holds a share finds the count above zero, and so SUSPENDED.
LEMMA ShareCounts ==
  ASSUME VinstrInv, \E u \in {"reset", "pm", "protected"} : Share(u) = 1
  PROVE  v.cnt > 0 /\ v.state = "SUSPENDED"
<1>1. v.cnt \in Nat /\ Leaked >= 0
  BY Basics DEF Shares
<1>2. /\ Share("reset") \in 0 .. 1 /\ Share("pm") \in 0 .. 1
      /\ Share("protected") \in 0 .. 1
  BY DEF Share
<1>3. v.cnt > 0
  BY <1>1, <1>2 DEF Leaked
<1> QED
  BY <1>3, Basics

\* The power callbacks, with nothing else.
LEMMA OtherContextInv == ASSUME VinstrInv, OtherContext PROVE VinstrInv'
<1>1. GpuActive \/ \E n : GpuIdle(n)
  BY DEF OtherContext
<1>2. Nudged /\ v'.cnt = v.cnt /\ ClientsKept
  BY <1>1, Basics, PowerNudges
<1>3. UNCHANGED <<ctxVars, ring, holder, pmRefs, hwVars, users, asleep>>
  BY DEF OtherContext
<1>4. others' \in 0 .. 1 /\ changes' \in 0 .. MaxChanges
  BY Basics, BoundsAssumption DEF OtherContext
<1>5. Shares' /\ UsersTyped' /\ asleep' \subseteq Sleepers
  BY <1>2, <1>3, SharesKept, Basics DEF UsersTyped
<1> QED
  BY <1>2, <1>3, <1>4, <1>5, NudgeInv

\* A user that tries to suspend vinstr takes its share when the count grows.
LEMMA SuspendTryInv ==
  ASSUME VinstrInv, SlotUpdate \/ \E u \in {"reset", "pm"} : SuspendTry(u)
  PROVE  VinstrInv'
<1>1. v' = TrySuspend(v)
  BY DEF SlotUpdate, SuspendTry
<1>2. Nudged /\ v'.cnt \in {v.cnt, v.cnt + 1}
  BY <1>1, Basics, TrySuspendNudges
<1>3. UNCHANGED <<ctxVars, ring, holder, pmRefs, hwVars, cl, others, changes>>
  BY DEF SlotUpdate, SuspendTry
<1>4. asleep' \subseteq Sleepers
  BY Basics DEF SlotUpdate, SuspendTry, Sleepers
<1>5. CASE SlotUpdate
  <2>1. users["protected"] = "want"
          /\ users' = IF v'.cnt > v.cnt THEN [users EXCEPT !["protected"] = "entering"] ELSE users
    BY <1>5 DEF SlotUpdate, Become
  <2>2. UsersTyped'
    BY <2>1, Basics DEF UsersTyped, ProtectedAt
  <2>3. /\ Share("protected")' = Share("protected") + (v'.cnt - v.cnt)
        /\ Share("reset")' = Share("reset") /\ Share("pm")' = Share("pm")
        /\ Hung' = Hung
    BY <1>2, <2>1, Basics DEF UsersTyped, Share, Hung
  <2>4. users'["reset"] \notin {"want", "held", "resetting"}
    BY <2>1, Basics DEF UsersTyped, Shares
  <2>5. Shares'
    BY <1>2, <2>3, <2>4, Basics, ShareTyped DEF Shares, Leaked
  <2> QED
    BY <1>2, <1>3, <1>4, <2>2, <2>5, Basics, SameClients, NudgeInv
<1>6. ASSUME NEW u \in {"reset", "pm"}, SuspendTry(u) PROVE VinstrInv'
  <2>1. users[u] = "want"
          /\ users' = IF v'.cnt > v.cnt THEN [users EXCEPT ![u] = "held"] ELSE users
    BY <1>6 DEF SuspendTry, Become
  <2>2. UsersTyped'
    BY <2>1, Basics DEF UsersTyped, ResetAt, PmAt
  <2>3. /\ Share(u)' = Share(u) + (v'.cnt - v.cnt)
        /\ \A x \in {"reset", "pm", "protected"} \ {u} : Share(x)' = Share(x)
        /\ Hung' = Hung
    BY <1>2, <2>1, Basics DEF UsersTyped, Share, Hung
  <2>4. users'["reset"] \in {"want", "held", "resetting"} =>
          users'["protected"] \in {"off", "entered", "leaving"}
    BY <2>1, Basics DEF UsersTyped, Shares
  <2>5. Share("reset")' + Share("pm")' + Share("protected")' =
          Share("reset") + Share("pm") + Share("protected") + (v'.cnt - v.cnt)
    <3>1. CASE u = "reset"
      BY <2>3, <3>1, <1>2, Basics, ShareTyped
    <3>2. CASE u = "pm"
      BY <2>3, <3>2, <1>2, Basics, ShareTyped
    <3> QED
      BY <3>1, <3>2
  <2>6. Leaked' = Leaked
    BY <1>2, <2>5, Basics, ShareTyped DEF Leaked
  <2>7. Shares'
    BY <2>3, <2>4, <2>6, Basics DEF Shares
  <2> QED
    BY <1>2, <1>3, <1>4, <2>2, <2>7, Basics, SameClients, NudgeInv
<1> QED
  BY <1>5, <1>6

\* A user changes its place without the count.
LEMMA UserMovesInv ==
  ASSUME VinstrInv,
         ProtectedAtom \/ ExitProtected \/ GpuHangs \/ SystemSuspend
  PROVE  VinstrInv'
<1>1. UNCHANGED <<v, cl, ctxVars, ring, holder, pmRefs, hwVars, asleep, others,
        changes>>
  BY DEF ProtectedAtom, ExitProtected, GpuHangs, SystemSuspend
<1>2. UsersTyped' /\ Shares'
  <2>1. CASE ProtectedAtom
    <3>1. /\ users' = [users EXCEPT !["protected"] = "want"]
          /\ users["protected"] = "off" /\ users["reset"] \in {"off",
               "finishing", "releasing"}
      BY <2>1 DEF ProtectedAtom, Become
    <3> QED
      BY <1>1, <3>1, Basics DEF UsersTyped, ProtectedAt, Shares, Leaked, Share,
         Hung
  <2>2. CASE ExitProtected
    <3>1. /\ users' = [users EXCEPT !["protected"] = "leaving",
               !["reset"] = "want"]
          /\ users["protected"] = "entered" /\ users["reset"] = "off"
      BY <2>2 DEF ExitProtected
    <3> QED
      BY <1>1, <3>1, Basics DEF UsersTyped, ProtectedAt, ResetAt, Shares,
         Leaked, Share, Hung
  <2>3. CASE GpuHangs
    <3>1. /\ users' = [users EXCEPT !["reset"] = "want"]
          /\ users["reset"] = "off"
          /\ users["protected"] = "off" \/ (users["protected"] = "entered"
               /\ v.cnt < MaxCount)
      BY <2>3 DEF GpuHangs, Become
    <3>2. UsersTyped'
      BY <3>1, Basics DEF UsersTyped, ResetAt
    <3>3. /\ \A u \in {"reset", "pm", "protected"} : Share(u)' = Share(u)
          /\ Hung' = Share("protected") /\ Hung = 0
      BY <3>1, Basics DEF UsersTyped, Share, Hung
    <3>4. users'["protected"] \in {"off", "entered", "leaving"}
      BY <3>1, Basics DEF UsersTyped
    <3>5. Share("protected") = 1 => v.cnt < MaxCount
      BY <3>1 DEF Share
    <3>6. Shares'
      BY <1>1, <3>3, <3>4, <3>5, Basics, ShareTyped, BoundsAssumption
         DEF Shares, Leaked
    <3> QED
      BY <3>2, <3>6
  <2>4. CASE SystemSuspend
    <3>1. users' = [users EXCEPT !["pm"] = "want"] /\ users["pm"] = "off"
      BY <2>4 DEF SystemSuspend, Become
    <3>2. UsersTyped'
      BY <3>1, Basics DEF UsersTyped, PmAt, ResetAt
    <3>3. Shares'
      BY <1>1, <3>1, Basics DEF UsersTyped, Shares, Leaked, Share, Hung
    <3> QED
      BY <3>2, <3>3
  <2> QED
    BY <2>1, <2>2, <2>3, <2>4
<1> QED
  BY <1>1, <1>2, Basics, SameNudges, SameClients, NudgeInv

\* A user gives its share back: it finds the count above zero and SUSPENDED.
LEMMA GiveBackInv ==
  ASSUME VinstrInv, NEW u \in {"reset", "pm", "protected"},
         users[u] \notin {"off", "want"}, users' = [users EXCEPT ![u] = "off"],
         u = "protected" => users[u] # "entered", v' = Resume(v),
         UNCHANGED <<cl, ctxVars, ring, holder, pmRefs, hwVars, asleep, others,
           changes>>
  PROVE  VinstrInv'
<1>1. v.cnt > 0 /\ v.state = "SUSPENDED"
  BY ShareCounts DEF Share
<1>2. Nudged /\ v'.cnt = v.cnt - 1
  BY <1>1, Basics, ResumeNudges
<1>3. UsersTyped'
  BY Basics DEF UsersTyped, ResetAt, PmAt, ProtectedAt
<1>4. /\ Share(u)' = Share(u) - 1
      /\ \A x \in {"reset", "pm", "protected"} \ {u} : Share(x)' = Share(x)
      /\ Hung' \in {Hung, 0}
  BY Basics DEF UsersTyped, Share, Hung
<1>5. users'["reset"] \in {"want", "held", "resetting"} =>
        users'["protected"] \in {"off", "entered", "leaving"}
  BY Basics DEF UsersTyped, Shares
<1>6. Share("reset")' + Share("pm")' + Share("protected")' =
        Share("reset") + Share("pm") + Share("protected") - 1
  <2>1. CASE u = "reset"
    BY <1>4, <2>1, ShareTyped
  <2>2. CASE u = "pm"
    BY <1>4, <2>2, ShareTyped
  <2>3. CASE u = "protected"
    BY <1>4, <2>3, ShareTyped
  <2> QED
    BY <2>1, <2>2, <2>3
<1>7. Leaked' = Leaked
  BY <1>2, <1>6, Basics, ShareTyped DEF Leaked
<1>8. Shares'
  <2>1. Leaked \in Int
    BY Basics, ShareTyped DEF Leaked
  <2>2. Leaked >= 0 /\ (Leaked + Hung = 0 \/ Leaked + Hung <= MaxCount - 1)
    BY Basics DEF Shares
  <2>3. Leaked' + Hung' \in {Leaked + Hung, Leaked}
    BY <1>4, <1>7, <2>1
  <2>4. Leaked' + Hung' = 0 \/ Leaked' + Hung' <= MaxCount - 1
    BY <2>1, <2>2, <2>3, ShareTyped, BoundsAssumption
  <2> QED
    BY <2>2, <2>4, <1>5, <1>7 DEF Shares
<1> QED
  BY <1>2, <1>3, <1>8, Basics, SameClients, NudgeInv

\* ... as a protected job does, a reset that ends and the system that resumes.
LEMMA ResumeInv ==
  ASSUME VinstrInv,
         EnterProtected \/ ProtectedRemoved \/ ResetEnds \/ SystemResume
  PROVE  VinstrInv'
<1>1. UNCHANGED <<cl, ctxVars, ring, holder, pmRefs, hwVars, asleep, others,
        changes>>
  BY DEF EnterProtected, ProtectedRemoved, ResetEnds, SystemResume
<1>2. CASE v' = Resume(v) /\ \E u \in {"reset", "pm", "protected"} :
             /\ users[u] \notin {"off", "want"}
                  /\ users' = [users EXCEPT ![u] = "off"]
             /\ u = "protected" => users[u] # "entered"
  BY <1>1, <1>2, GiveBackInv
<1>3. CASE v' = v /\ \/ /\ users["protected"] = "entering"
                        /\ users' = [users EXCEPT !["protected"] = "entered"]
                     \/ /\ users["protected"] = "want"
                        /\ users' = [users EXCEPT !["protected"] = "off"]
  <2>1. UsersTyped'
    BY <1>3, Basics DEF UsersTyped, ProtectedAt
  <2>2. Shares'
    BY <1>3, Basics, BoundsAssumption DEF UsersTyped, Shares, Leaked, Share,
       Hung
  <2> QED
    BY <1>1, <1>3, <2>1, <2>2, Basics, SameNudges, SameClients, NudgeInv
<1> QED
  BY <1>2, <1>3 DEF EnterProtected, ProtectedRemoved, ResetEnds, SystemResume,
     Become

\* The reset: its power reference nudges, and what it kills in protected mode
\* leaves its suspension behind.
LEMMA ResetBeginsInv == ASSUME VinstrInv, ResetBegins PROVE VinstrInv'
<1>1. UNCHANGED <<ctxVars, ring, holder, pmRefs, hwVars, asleep, others,
        changes>>
  BY DEF ResetBegins
<1>2. CASE users' = [users EXCEPT !["reset"] = "off"] /\ v' = Resume(v)
             /\ UNCHANGED cl
  BY <1>1, <1>2, GiveBackInv DEF ResetBegins
<1>3. CASE users' = [users EXCEPT !["reset"] = "resetting"] /\ GpuActive
  <2>1. Nudged /\ v'.cnt = v.cnt /\ ClientsKept
    BY <1>3, Basics, PowerNudges
  <2>2. UsersTyped'
    BY <1>3, Basics DEF UsersTyped, ResetAt
  <2>3. Shares'
    BY <1>3, <2>1, Basics DEF ResetBegins, UsersTyped, Shares, Leaked, Share,
       Hung
  <2> QED
    BY <1>1, <2>1, <2>2, <2>3, Basics, NudgeInv
<1> QED
  BY <1>2, <1>3 DEF ResetBegins, Become

\* The reset gives its power reference back and still holds vinstr.
LEMMA ResetIdlesInv == ASSUME VinstrInv, ResetIdles PROVE VinstrInv'
<1>1. UNCHANGED <<ctxVars, ring, holder, pmRefs, hwVars, asleep, others,
        changes>>
        /\ users["reset"] = "finishing"
             /\ users' = [users EXCEPT !["reset"] = "releasing"]
  BY DEF ResetIdles, Become
<1>2. \E n : GpuIdle(n)
  BY DEF ResetIdles
<1>3. Nudged /\ v'.cnt = v.cnt /\ ClientsKept
  BY <1>2, Basics, PowerNudges
<1>4. UsersTyped'
  BY <1>1, Basics DEF UsersTyped, ResetAt
<1>5. Shares'
  BY <1>1, <1>3, Basics DEF UsersTyped, Shares, Leaked, Share, Hung
<1> QED
  BY <1>1, <1>3, <1>4, <1>5, Basics, NudgeInv

\* The reset takes the protected atom out: it resumes vinstr only if it was
\* leaving, else its suspension is leaked.
LEMMA ResetJobsInv == ASSUME VinstrInv, ResetJobs PROVE VinstrInv'
<1>1. /\ UNCHANGED <<cl, ctxVars, ring, holder, pmRefs, hwVars, asleep, others,
           changes>>
      /\ users["reset"] = "resetting"
      /\ users' = [users EXCEPT !["reset"] = "finishing",
           !["protected"] = "off"]
  BY DEF ResetJobs
<1>2. users["protected"] \in {"off", "entered", "leaving"}
  BY <1>1, Basics DEF Shares
<1>3. UsersTyped'
  BY <1>1, Basics DEF UsersTyped, ResetAt, ProtectedAt
<1>4. /\ Share("reset")' = Share("reset") /\ Share("pm")' = Share("pm")
      /\ Share("protected")' = 0 /\ Hung' = 0
      /\ Share("protected") = IF users["protected"] = "off" THEN 0 ELSE 1
      /\ Hung = IF users["protected"] = "entered" THEN 1 ELSE 0
  BY <1>1, <1>2, Basics DEF UsersTyped, Share, Hung
<1>5. users'["reset"] = "finishing"
  BY <1>1, Basics DEF UsersTyped
<1>6. CASE users["protected"] = "leaving"
  <2>1. v' = Resume(v)
    BY <1>6 DEF ResetJobs
  <2>2. Nudged /\ v'.cnt = v.cnt - 1
    BY <1>4, <1>6, <2>1, Basics, ShareCounts, ResumeNudges
  <2>3. Leaked' = Leaked /\ Hung = 0
    BY <1>4, <1>6, <2>2, Basics, ShareTyped DEF Leaked
  <2>4. Shares'
    BY <1>4, <1>5, <2>3, Basics DEF Shares
  <2> QED
    BY <1>1, <1>3, <2>2, <2>4, Basics, SameClients, NudgeInv
<1>7. CASE users["protected"] # "leaving"
  <2>1. v' = v
    BY <1>7 DEF ResetJobs
  <2>2. Shares'
    BY <1>2, <1>4, <1>5, <1>7, <2>1, Basics, ShareTyped DEF Shares, Leaked
  <2> QED
    BY <1>1, <1>3, <2>1, <2>2, Basics, SameNudges, SameClients, NudgeInv
<1> QED
  BY <1>6, <1>7

\* The readers' calls without the lock, and the service's clock.
LEMMA ReaderInv ==
  ASSUME VinstrInv,
         \E r \in Readers : \/ Due(r) \/ WaitForReady(r)
                           \/ \E on \in BOOLEAN : SetInterval(r, on)
  PROVE  VinstrInv'
<1>1. UNCHANGED <<v, ctxVars, ring, holder, users, others, changes, pmRefs,
        hwVars>>
  BY DEF Due, WaitForReady, SetInterval, Outside
<1>2. ClientsKept
  <2>1. ASSUME NEW r \in Readers, Due(r) \/ WaitForReady(r) PROVE ClientsKept
    <3>1. \/ cl' = [cl EXCEPT ![r].due = TRUE] \/ cl' = [cl EXCEPT ![r].waits = FALSE]
          \/ cl' = cl
      BY <2>1 DEF Due, WaitForReady
    <3>2. r \in Clients /\ cl \in [Clients -> ClRec]
      BY Basics DEF Clients
    <3>3. CASE cl' = [cl EXCEPT ![r].due = TRUE]
      BY <3>2, <3>3 DEF ClientsKept, ClRec
    <3>4. CASE cl' = [cl EXCEPT ![r].waits = FALSE]
      BY <3>2, <3>4 DEF ClientsKept, ClRec
    <3> QED
      BY <3>1, <3>2, <3>3, <3>4, SameClients
  <2>2. ASSUME NEW r \in Readers, NEW on \in BOOLEAN, SetInterval(r,
                 on) PROVE ClientsKept
    <3>1. PICK l \in {"idle", "waiting"} : cl' = [cl EXCEPT ![r].list = l,
                 ![r].due = FALSE]
      BY <2>2 DEF SetInterval
    <3>2. cl[r].list # "none" /\ r \in Clients
      BY <2>2 DEF SetInterval, Clients
    <3> QED
      BY <3>1, <3>2, Basics DEF ClientsKept, ClRec, Lists
  <2> QED
    BY <2>1, <2>2
<1>3. asleep' \subseteq Sleepers
  BY Basics DEF Due, WaitForReady, SetInterval, Sleepers
<1>4. Nudged /\ v'.cnt = v.cnt
  BY <1>1, Basics, SameNudges
<1>5. Shares' /\ UsersTyped'
  BY <1>1, <1>4, Basics, SharesKept DEF UsersTyped
<1> QED
  BY <1>1, <1>2, <1>3, <1>4, <1>5, Basics, NudgeInv

-----------------------------------------------------------------------------
(* The hardware and the page-fault worker *)

\* A step of theirs keeps the invariant if it leaves the backend's state in
\* accord with the counters.
LEMMA HardwareInv ==
  ASSUME VinstrInv, UNCHANGED SoftVars, b' \in BRec, hw' \in HwRec,
         fault' \in BOOLEAN, faults' \in 0 .. MaxFaults, Device',
         b'.state = "DISABLED" => b.state = "DISABLED",
         b'.state = "IDLE" => b.state = "IDLE" \/ On \/ holder.pc = "cleaning",
         b.state = "FAULT" => b'.state = "FAULT" \/ On \/ holder.pc = "cleaning"
  PROVE  VinstrInv'
<1>1. UNCHANGED <<v, kctx, present, bitmap, reprogram, cl, ring, holder,
        asleep, users,
                  others, changes, pmRefs, programmed>>
  BY DEF SoftVars, ctxVars, Outside
<1>2. Attached' = Attached /\ On' = On
  BY <1>1 DEF Attached, On
<1>3. Shape'
  BY <1>1 DEF VinstrInv, Shape, UsersTyped
<1>4. Place' /\ Phases' /\ Contexts' /\ Fresh' /\ Rings'
  BY <1>1, <1>2 DEF VinstrInv, Place, Phases, Contexts, Fresh, Rings, Changing,
     Dying, Ahead
<1>5. Shares'
  BY <1>1, SharesKept DEF VinstrInv
<1>6. Counters'
  BY <1>1, <1>2 DEF VinstrInv, Counters, Changing, Dying, Enabling
<1> QED
  BY <1>3, <1>4, <1>5, <1>6 DEF VinstrInv

\* Interrupts and the cache clean: what the hardware did was waited for.
LEMMA InterruptInv == ASSUME VinstrInv, Hardware PROVE VinstrInv'
<1>1. b \in BRec /\ hw \in HwRec /\ fault \in BOOLEAN
        /\ faults \in 0 .. MaxFaults /\ Device
        /\ (holder.pc = "sampling" => On)
  BY DEF VinstrInv, Shape, Counters
<1>2. UNCHANGED SoftVars /\ UNCHANGED <<fault, faults>>
  BY DEF Hardware, SampleDone, CleanWorkerStarts, CleanIrq, CleanWorkerEnds
<1>3. CASE SampleDone
  <2>1. hw' \in HwRec /\ hw'.sampling = FALSE /\ hw'.cleaning = hw.cleaning
          /\ b' \in BRec /\ hw.sampling
    BY <1>1, <1>3 DEF SampleDone, HwRec, BRec
  <2>2. \/ /\ b.state = "FAULT" /\ b'.state = "FAULT"
                /\ hw'.cleanQueued = hw.cleanQueued
        \/ /\ b.state = "DUMPING" /\ b'.state = "REQUEST_CLEAN"
                /\ hw'.cleanQueued = TRUE
           /\ b'.triggered = b.triggered
        \/ /\ b.state \notin {"FAULT", "DUMPING"} /\ b' = b
                /\ hw'.cleanQueued = hw.cleanQueued
    BY <1>1, <1>3 DEF SampleDone, HwRec, BRec
  <2>3. Device'
    BY <1>1, <1>2, <2>1, <2>2 DEF Device, SoftVars, HwRec
  <2> QED
    BY <1>1, <1>2, <2>1, <2>2, <2>3, HardwareInv
<1>4. CASE CleanWorkerStarts
  <2>1. /\ hw' \in HwRec /\ hw'.sampling = hw.sampling
             /\ hw'.cleanQueued = FALSE
        /\ hw'.cleaning = TRUE /\ hw.cleanQueued
    BY <1>1, <1>4 DEF CleanWorkerStarts, HwRec
  <2>2. b' \in BRec /\ b'.state = "CLEANING" /\ b'.triggered = b.triggered
    BY <1>1, <1>4 DEF CleanWorkerStarts, BRec
  <2>3. Device'
    BY <1>1, <1>2, <2>1, <2>2 DEF Device, SoftVars
  <2> QED
    BY <1>1, <1>2, <2>1, <2>2, <2>3, HardwareInv DEF Device
<1>5. CASE CleanIrq
  <2>1. /\ hw' \in HwRec /\ hw'.sampling = hw.sampling
             /\ hw'.cleaning = hw.cleaning
        /\ hw'.cleanQueued = hw.cleanQueued
    BY <1>1, <1>5 DEF CleanIrq, HwRec
  <2>2. b' \in BRec /\ b'.triggered = b.triggered
          /\ b'.state = IF b.state = "CLEANING" THEN "CLEANED" ELSE b.state
    BY <1>1, <1>5 DEF CleanIrq, BRec
  <2>3. Device'
    BY <1>1, <1>2, <2>1, <2>2 DEF Device, SoftVars
  <2> QED
    BY <1>1, <1>2, <2>1, <2>2, <2>3, HardwareInv
<1>6. CASE CleanWorkerEnds
  <2>1. /\ hw' \in HwRec /\ hw'.sampling = hw.sampling /\ hw'.cleaning = FALSE
        /\ hw'.cleanQueued = hw.cleanQueued /\ hw.cleaning
    BY <1>1, <1>6 DEF CleanWorkerEnds, HwRec
  <2>2. b' \in BRec /\ b'.state = "IDLE"
    BY <1>1, <1>6 DEF CleanWorkerEnds, BRec
  <2>3. Device'
    BY <1>1, <1>2, <2>1, <2>2 DEF Device, SoftVars
  <2> QED
    BY <1>1, <1>2, <2>1, <2>2, <2>3, HardwareInv DEF Device
<1> QED
  BY <1>3, <1>4, <1>5, <1>6 DEF Hardware

\* A fault is only added to what the backend has to report.
LEMMA FaultInv == ASSUME VinstrInv, FaultSeen \/ FaultSet PROVE VinstrInv'
<1>1. b \in BRec /\ hw \in HwRec /\ faults \in 0 .. MaxFaults /\ Device
  BY DEF VinstrInv, Shape
<1>2. UNCHANGED SoftVars /\ UNCHANGED hw
  BY DEF FaultSeen, FaultSet
<1>3. fault' \in BOOLEAN /\ faults' \in 0 .. MaxFaults
  <2>1. CASE FaultSeen
    BY <1>1, <2>1, BoundsAssumption DEF FaultSeen
  <2>2. CASE FaultSet
    BY <1>1, <2>2 DEF FaultSet
  <2> QED
    BY <2>1, <2>2
<1>4. b' \in BRec /\ b'.triggered = b.triggered /\ b'.state \in {b.state,
        "FAULT"}
  BY <1>1 DEF FaultSeen, FaultSet, BRec
<1>5. Device'
  BY <1>1, <1>2, <1>4 DEF Device, SoftVars
<1> QED
  BY <1>1, <1>2, <1>3, <1>4, <1>5, HardwareInv

-----------------------------------------------------------------------------
(* The steps of a dump that touch neither the hardware nor the context *)

\* Such a step keeps the invariant if the call is where it belongs.
LEMMA PlainInv ==
  ASSUME VinstrInv, ClientsKept,
         UNCHANGED <<v, ctxVars, asleep, Outside, pmRefs, hwVars>>,
         holder.pc \in Plain, holder'.pc \in Plain, holder' \in HRec,
         holder.op \in {"none", "dump", "clear", "service"},
         holder'.op \in {"none", "dump", "clear", "service"},
         holder'.op # "none" => kctx,
         Place', Rings', ring' \in [Readers -> RingRec]
  PROVE  VinstrInv'
<1>1. Phases' /\ Contexts' /\ Counters' /\ Device' /\ Fresh'
  BY PlainKeeps
<1>2. Shares'
  BY SharesKept DEF VinstrInv, Outside
<1>3. Shape'
  BY DEF VinstrInv, Shape, ClientsKept, UsersTyped, ctxVars, Outside, hwVars
<1> QED
  BY <1>1, <1>2, <1>3 DEF VinstrInv

\* A dump starts: a client that dumps, or is waited for, has the context.
LEMMA StartDumpInv ==
  ASSUME VinstrInv,
         ServiceWakes \/ \E c \in Clients, op \in {"dump",
           "clear"} : DumpCall(c, op)
  PROVE  VinstrInv'
<1>1. UNCHANGED <<v, ctxVars, cl, ring, asleep, Outside, pmRefs, hwVars>>
  BY DEF ServiceWakes, DumpCall
<1>2. /\ holder.pc = "none" /\ holder.op = "none" /\ holder' \in HRec
      /\ holder'.pc = "collect" /\ holder'.op \in {"dump", "clear", "service"}
      /\ holder'.op # "service" => holder'.cli \in Clients
  <2>1. CASE ServiceWakes
    BY <2>1, TakeMoves DEF ServiceWakes, Ops, Pcs
  <2>2. CASE \E c \in Clients, op \in {"dump", "clear"} : DumpCall(c, op)
    <3>1. PICK c \in Clients, op \in {"dump", "clear"} : Take(c, op, c,
                 "collect")
      BY <2>2 DEF DumpCall
    <3> QED
      BY <3>1, TakeMoves DEF Ops, Pcs
  <2> QED
    BY <2>1, <2>2
<1>3. kctx
  <2>1. kctx \/ Attached # {}
    BY DEF ServiceWakes, DumpCall, Attached
  <2> QED
    BY <1>2, <2>1 DEF VinstrInv, Contexts, Changing
<1>4. Place'
  BY <1>2 DEF Place, Updating
<1>5. Rings'
  BY <1>1, <1>2, RingsKept DEF VinstrInv
<1>6. ring' \in [Readers -> RingRec]
  BY <1>1 DEF VinstrInv, Shape
<1> QED
  BY <1>1, <1>2, <1>3, <1>4, <1>5, <1>6, Basics, SameClients, PlainInv DEF Plain

\* The indices of a ring: how far one is ahead of another, and the next one.
LEMMA ModulusIs ==
  /\ BufferCount \in Nat \ {0} /\ Modulus \in Nat /\ Modulus >= BufferCount + 1
  /\ \E k \in Nat : Modulus = k * BufferCount
<1>1. PICK k \in 2 .. Modulus : Modulus = k * BufferCount
  BY RingAssumption
<1>2. BufferCount \in Nat /\ BufferCount >= 1
  BY RingAssumption
<1>3. k \in Nat /\ k >= 2
  BY <1>1
<1>4. PICK j \in Nat : k = j + 2
  BY <1>3
<1>5. PICK p \in Nat : p = j * BufferCount
  BY <1>2, <1>4
<1>6. k * BufferCount = p + BufferCount + BufferCount
  BY <1>2, <1>4, <1>5
<1> QED
  BY <1>1, <1>2, <1>3, <1>6

\* How far ahead, modulo the modulus.
LEMMA AheadIs ==
  ASSUME NEW x \in Index, NEW y \in Index
  PROVE  (x - y) % Modulus = Ahead(x, y) /\ Ahead(x, y) \in Index
BY ModulusIs DEF Index, Ahead

\* The next index wraps at the modulus.
LEMMA NextIndex ==
  ASSUME NEW x \in Index
  PROVE  (x + 1) % Modulus = (IF x + 1 = Modulus THEN 0 ELSE x + 1)
         /\ (x + 1) % Modulus \in Index
BY ModulusIs DEF Index

\* Who fills, updates or reprograms is a dump, a clear or the service.
Serving == {"collect", "collected", "serve", "served", "fill", "notify",
  "reprogram",
            "reenable", "reprogrammed"} \cup Dumping

\* They are in a call that dumps, with the context there.
LEMMA DumpOps ==
  ASSUME VinstrInv, holder.pc \in Serving
  PROVE  /\ holder.op \in {"dump", "clear", "service"} /\ kctx /\ ~Changing
         /\ holder.pc \in {"serve", "served"} => holder.op = "service"
<1>1. holder.op \in Ops
  BY Basics DEF HRec
<1>2. holder.op \in {"dump", "clear", "service"}
  BY <1>1 DEF VinstrInv, Place, Serving, Dumping, Enabling, Disabling, Ops
<1> QED
  BY <1>2 DEF VinstrInv, Contexts, Changing, Place, Updating, Dumping,
     Enabling, Disabling

\* A client served by the service has a list, before and after.
LEMMA ServedClient ==
  ASSUME VinstrInv, holder.pc \in {"fill", "notify", "served"}
  PROVE  holder.cli \in Clients /\ (holder.op = "service"
           => cl[holder.cli].list # "none")
BY DumpOps DEF VinstrInv, Place, Serving

\* After a client's update the service goes on, a call reprograms or ends.
LEMMA AfterUpdateMoves ==
  ASSUME VinstrInv, holder.pc \in {"fill", "notify"}, NEW err \in BOOLEAN,
           AfterUpdate(err)
  PROVE  /\ holder' \in HRec /\ holder'.pc \in {"none", "served", "reprogram"}
         /\ holder'.op \in {"none", holder.op} /\ (holder'.op = "none"
              <=> holder'.pc = "none")
         /\ holder'.pc # "none" => holder'.op = holder.op
              /\ holder'.cli = holder.cli
         /\ holder'.pc = "served" => holder.op = "service"
<1>1. holder \in HRec /\ holder.op \in {"dump", "clear", "service"}
  BY Basics, DumpOps DEF Serving
<1>2. CASE Release
  BY <1>1, <1>2, ReleaseMoves
<1>3. CASE Goto("reprogram")
  BY <1>1, <1>3, GotoMoves DEF Pcs
<1>4. CASE holder.op = "service" /\ Goto("served")
  BY <1>1, <1>4, GotoMoves DEF Pcs
<1> QED
  BY <1>2, <1>3, <1>4 DEF AfterUpdate

\* A dump that does not sample, or has, serves its clients and lets go.
LEMMA ServeInv ==
  ASSUME VinstrInv,
         \/ Collect /\ v.state # "IDLE"
         \/ Collected \/ ServedAll \/ Served \/ \E c \in Clients : Serve(c)
         \/ Fill
         \/ Reprogram /\ ~(v.state = "IDLE" /\ reprogram)
  PROVE  VinstrInv'
<1>1. /\ UNCHANGED <<v, ctxVars, asleep, Outside, pmRefs, hwVars, ring>>
      /\ holder.pc \in {"collect", "collected", "serve", "served", "fill",
           "reprogram"}
  BY DEF Collect, Collected, ServedAll, Served, Serve, Fill, Reprogram, At
<1>2. holder.op \in {"dump", "clear", "service"} /\ kctx
  BY <1>1, DumpOps DEF Serving
<1>3. ClientsKept
  <2>1. CASE UNCHANGED cl
    BY <2>1, Basics, SameClients
  <2>2. CASE Served
    <3>1. holder.cli \in Clients /\ cl[holder.cli].list # "none"
      BY <2>2, DumpOps, ServedClient DEF Served, At, Serving
    <3>2. cl' = [cl EXCEPT ![holder.cli].list = "waiting",
            ![holder.cli].due = FALSE]
      BY <2>2 DEF Served
    <3> QED
      BY <3>1, <3>2, Basics DEF ClientsKept, ClRec, Lists
  <2>3. CASE Collected /\ holder.op = "service"
    <3>1. cl' = [c \in Clients |-> IF cl[c].list = "waiting" /\ cl[c].due
                                  THEN [cl[c] EXCEPT !.list = "expired"] ELSE cl[c]]
      BY <2>3 DEF Collected
    <3> QED
      BY <3>1, Basics DEF ClientsKept, ClRec, Lists
  <2> QED
    BY <1>2, <2>1, <2>2, <2>3 DEF Collect, Collected, ServedAll, Serve, Fill,
       Reprogram
<1>4. /\ holder' \in HRec /\ holder'.pc \in Plain
      /\ \/ holder'.op = "none" /\ holder'.pc = "none"
         \/ /\ holder'.op = holder.op /\ holder'.pc # "none"
            /\ holder'.op # "service" =>
                 holder'.cli = holder.cli /\ holder'.pc \notin {"serve",
                   "served"}
            /\ holder'.op = "service" /\ holder'.pc \in {"fill", "notify",
                 "served"} =>
                 holder'.cli \in Clients /\ cl[holder'.cli].list # "none"
      /\ holder'.pc = "notify" /\ holder'.cli \in Readers =>
           holder'.cli = holder.cli /\ holder.pc = "fill"
             /\ ~RingFull(ring[holder.cli])
  <2>1. CASE Collect /\ v.state # "IDLE"
    <3>1. holder' = [holder EXCEPT !.pc = "collected", !.err = TRUE]
      BY <2>1 DEF Collect
    <3> QED
      BY <3>1, <1>2, Basics DEF HRec, Pcs, Plain
  <2>2. CASE Collected
    <3>1. \/ holder.op = "service" /\ Goto("serve")
          \/ holder.op # "service"
               /\ (Release \/ Goto("fill") \/ Goto("reprogram"))
      BY <2>2, <1>2 DEF Collected
    <3> QED
      BY <3>1, <1>1, <1>2, Basics, GotoMoves, ReleaseMoves DEF Pcs, Plain
  <2>3. CASE \E c \in Clients : Serve(c)
    <3>1. PICK c \in Clients : Serve(c)
      BY <2>3
    <3>2. /\ holder' = [holder EXCEPT !.cli = c,
               !.pc = IF holder.err THEN "served" ELSE "fill"]
          /\ cl[c].list # "none" /\ holder.pc = "serve"
      BY <3>1 DEF Serve, At
    <3>3. holder.op = "service"
      BY <3>2, DumpOps DEF Serving
    <3> QED
      BY <3>2, <3>3, Basics DEF HRec, Pcs, Plain
  <2>4. CASE ServedAll \/ Served
    <3>1. holder.op = "service" /\ (Goto("reprogram") \/ Goto("serve"))
      BY <2>4, DumpOps DEF ServedAll, Served, At, Serving
    <3> QED
      BY <3>1, Basics, GotoMoves DEF Pcs, Plain
  <2>5. CASE Fill
    <3>1. holder.pc = "fill"
      BY <2>5 DEF Fill, At
    <3>2. holder.cli \in Clients /\ (holder.op = "service"
            => cl[holder.cli].list # "none")
      BY <3>1, ServedClient
    <3>3. CASE holder.cli \in Readers /\ RingFull(ring[holder.cli])
      <4>1. AfterUpdate(TRUE)
        BY <2>5, <3>3 DEF Fill
      <4>2. /\ holder' \in HRec /\ holder'.pc \in {"none", "served",
                 "reprogram"}
            /\ holder'.op \in {"none", holder.op} /\ (holder'.op = "none"
                 <=> holder'.pc = "none")
            /\ holder'.pc # "none" => holder'.op = holder.op
                 /\ holder'.cli = holder.cli
            /\ holder'.pc = "served" => holder.op = "service"
        BY <4>1, <3>1, AfterUpdateMoves
      <4> QED
        BY <4>2, <3>2, <1>2 DEF Plain
    <3>4. CASE ~(holder.cli \in Readers /\ RingFull(ring[holder.cli]))
      <4>1. Goto("notify")
        BY <2>5, <3>4 DEF Fill
      <4> QED
        BY <4>1, <3>1, <3>2, <3>4, <1>2, Basics, GotoMoves DEF Pcs, Plain
    <3> QED
      BY <3>3, <3>4
  <2>6. CASE Reprogram /\ ~(v.state = "IDLE" /\ reprogram)
    <3>1. Release
      BY <2>6 DEF Reprogram
    <3> QED
      BY <3>1, ReleaseMoves DEF Plain
  <2> QED
    BY <2>1, <2>2, <2>3, <2>4, <2>5, <2>6
<1>5. Place'
  <2>1. holder.op # "service" => holder.cli \in Clients
    BY <1>2 DEF VinstrInv, Place
  <2>2. \A c \in Clients : cl[c].list # "none" => cl'[c].list # "none"
    BY <1>3 DEF ClientsKept
  <2> QED
    BY <1>2, <1>4, <2>1, <2>2 DEF Place, Plain, Updating
<1>6. Rings'
  <2>1. CASE holder'.pc = "notify" /\ holder'.cli \in Readers
    <3> DEFINE q == ring[holder.cli]
    <3>1. q \in RingRec /\ Ahead(q.write, q.read) <= BufferCount
      BY <1>4, <2>1 DEF VinstrInv, Shape, Rings
    <3>2. Ahead(q.write, q.read) # BufferCount /\ Ahead(q.write,
            q.read) \in Index
      BY <1>4, <2>1, <3>1, AheadIs DEF RingFull, RingRec
    <3>3. Ahead(q.write, q.read) < BufferCount
      BY <3>1, <3>2, ModulusIs DEF Index
    <3> QED
      BY <1>1, <1>4, <2>1, <3>3 DEF VinstrInv, Rings, Ahead
  <2>2. CASE ~(holder'.pc = "notify" /\ holder'.cli \in Readers)
    BY <1>1, <2>2 DEF VinstrInv, Rings, Ahead
  <2> QED
    BY <2>1, <2>2
<1>7. ring' \in [Readers -> RingRec]
  BY <1>1 DEF VinstrInv, Shape
<1> QED
  BY <1>1, <1>2, <1>3, <1>4, <1>5, <1>6, <1>7, PlainInv DEF Plain

\* One index moves on: it is one further ahead of the others, they one less.
LEMMA AheadNext ==
  ASSUME NEW x \in Index, NEW y \in Index, Ahead(x, y) < BufferCount
  PROVE  Ahead((x + 1) % Modulus, y) = Ahead(x, y) + 1
BY NextIndex, ModulusIs DEF Index, Ahead

\* What is read is no longer ahead.
LEMMA AheadLess ==
  ASSUME NEW x \in Index, NEW y \in Index, x # y
  PROVE  Ahead(x, (y + 1) % Modulus) = Ahead(x, y) - 1
BY NextIndex, ModulusIs DEF Index, Ahead

\* Not ahead is equal.
LEMMA AheadZero ==
  ASSUME NEW x \in Index, NEW y \in Index
  PROVE  Ahead(x, y) = 0 <=> x = y
BY ModulusIs DEF Index, Ahead

\* A buffer is filled, taken or put back.
LEMMA NotifyInv == ASSUME VinstrInv, Notify PROVE VinstrInv'
<1>1. holder.pc = "notify" /\ UNCHANGED <<v, ctxVars, cl, asleep, Outside,
        pmRefs, hwVars>>
  BY DEF Notify, At
<1>2. holder.op \in {"dump", "clear", "service"} /\ kctx
  BY <1>1, DumpOps DEF Serving
<1>3. holder.cli \in Clients /\ (holder.op = "service"
        => cl[holder.cli].list # "none")
  BY <1>1, ServedClient
<1>4. \E err \in BOOLEAN : AfterUpdate(err)
  BY <1>1 DEF Notify
<1>5. /\ holder' \in HRec /\ holder'.pc \in {"none", "served", "reprogram"}
      /\ holder'.op \in {"none", holder.op} /\ (holder'.op = "none"
           <=> holder'.pc = "none")
      /\ holder'.pc # "none" => holder'.op = holder.op
           /\ holder'.cli = holder.cli
      /\ holder'.pc = "served" => holder.op = "service"
  BY <1>1, <1>4, AfterUpdateMoves
<1>6. Place'
  BY <1>1, <1>2, <1>3, <1>5 DEF Place, Updating
<1>7. ring' \in [Readers -> RingRec] /\ Rings'
  <2>1. CASE holder.cli \notin Readers
    BY <1>1, <1>5, <2>1 DEF Notify, VinstrInv, Shape, Rings, Ahead
  <2>2. CASE holder.cli \in Readers
    <3> DEFINE q == ring[holder.cli]
    <3>1. ring \in [Readers -> RingRec] /\ q \in RingRec
      BY <2>2 DEF VinstrInv, Shape
    <3>2. /\ Ahead(q.write, q.read) < BufferCount
          /\ q.meta # q.read => Ahead(q.meta, q.read) = 1
      BY <1>1, <2>2 DEF VinstrInv, Rings
    <3>3. PICK n \in Index : n = (q.write + 1) % Modulus
      BY <3>1, NextIndex DEF RingRec
    <3>4. ring' = [ring EXCEPT ![holder.cli].write = n]
      BY <1>1, <2>2, <3>3 DEF Notify
    <3>5. ring' \in [Readers -> RingRec]
      BY <2>2, <3>1, <3>4 DEF RingRec
    <3>6. Ahead(n, q.read) = Ahead(q.write, q.read) + 1
      BY <3>1, <3>2, <3>3, AheadNext DEF RingRec
    <3>7. Ahead(q.write, q.read) \in Nat
      <4>1. q.write \in Index /\ q.read \in Index
        BY <3>1 DEF RingRec
      <4>2. Ahead(q.write, q.read) \in Index
        BY <4>1, AheadIs
      <4> QED
        BY <4>2 DEF Index
    <3>8. Ahead(n, q.read) <= BufferCount /\ n # q.read
      BY <3>1, <3>2, <3>6, <3>7, AheadZero, ModulusIs DEF RingRec
    <3>9. /\ ring'[holder.cli].write = n /\ ring'[holder.cli].read = q.read
          /\ ring'[holder.cli].meta = q.meta
          /\ \A r \in Readers \ {holder.cli} : ring'[r] = ring[r]
      BY <2>2, <3>1, <3>4 DEF RingRec
    <3>10. ASSUME NEW r \in Readers
           PROVE  /\ Ahead(ring'[r].write, ring'[r].read) <= BufferCount
                  /\ ring'[r].meta # ring'[r].read =>
                       Ahead(ring'[r].meta, ring'[r].read) = 1
                         /\ ring'[r].write # ring'[r].read
      <4>1. CASE r = holder.cli
        BY <3>2, <3>8, <3>9, <4>1
      <4>2. CASE r # holder.cli
        BY <3>9, <4>2 DEF VinstrInv, Rings
      <4> QED
        BY <4>1, <4>2
    <3> QED
      BY <1>5, <3>5, <3>10 DEF Rings, Ahead
  <2> QED
    BY <2>1, <2>2
<1> QED
  BY <1>1, <1>2, <1>5, <1>6, <1>7, Basics, SameClients, PlainInv DEF Plain

\* A reader takes the buffer that is next, and puts back the one it took.
LEMMA BufferInv ==
  ASSUME VinstrInv, NEW r \in Readers, GetBuffer(r) \/ PutBuffer(r)
  PROVE  VinstrInv'
<1>1. UNCHANGED <<v, ctxVars, cl, holder, asleep, Outside, pmRefs, hwVars>>
  BY DEF GetBuffer, PutBuffer
<1>2. UNCHANGED <<v, kctx, present, bitmap, reprogram, cl, holder, asleep,
        users,
                  others, changes, pmRefs, b, programmed, hw, fault, faults>>
  BY <1>1 DEF ctxVars, Outside, hwVars
<1> DEFINE q == ring[r]
<1>3. ring \in [Readers -> RingRec] /\ q \in RingRec
  BY DEF VinstrInv, Shape
<1>4. /\ Ahead(q.write, q.read) <= BufferCount
      /\ q.meta # q.read => Ahead(q.meta, q.read) = 1 /\ q.write # q.read
      /\ holder.pc = "notify" /\ holder.cli = r => Ahead(q.write,
           q.read) < BufferCount
  BY DEF VinstrInv, Rings
<1>5. Ahead(q.write, q.read) \in Nat /\ Ahead(q.read, q.read) = 0
  BY <1>3, AheadIs, AheadZero DEF RingRec, Index
<1>6. /\ ring' \in [Readers -> RingRec] /\ ring'[r].write = q.write
      /\ \A s \in Readers \ {r} : ring'[s] = ring[s]
      /\ Ahead(q.write, ring'[r].read) <= Ahead(q.write, q.read)
      /\ ring'[r].meta # ring'[r].read =>
           Ahead(ring'[r].meta, ring'[r].read) = 1 /\ q.write # ring'[r].read
  <2>1. CASE GetBuffer(r)
    <3>1. PICK n \in Index : n = (q.meta + 1) % Modulus
      BY <1>3, NextIndex DEF RingRec
    <3>2. ring' = [ring EXCEPT ![r].meta = n] /\ q.write # q.read
            /\ q.read = q.meta
      BY <2>1, <3>1 DEF GetBuffer
    <3>3. /\ ring' \in [Readers -> RingRec] /\ ring'[r].write = q.write
          /\ ring'[r].read = q.read /\ ring'[r].meta = n
          /\ \A s \in Readers \ {r} : ring'[s] = ring[s]
      BY <1>3, <3>2 DEF RingRec
    <3>4. Ahead(n, q.read) = 1
      BY <1>3, <1>5, <3>1, <3>2, AheadNext, ModulusIs DEF RingRec
    <3> QED
      BY <1>5, <3>2, <3>3, <3>4
  <2>2. CASE PutBuffer(r)
    <3>1. PICK n \in Index : n = (q.read + 1) % Modulus
      BY <1>3, NextIndex DEF RingRec
    <3>2. ring' = [ring EXCEPT ![r].read = n] /\ q.meta # q.read
      BY <2>2, <3>1 DEF PutBuffer
    <3>3. /\ ring' \in [Readers -> RingRec] /\ ring'[r].write = q.write
          /\ ring'[r].read = n /\ ring'[r].meta = q.meta
          /\ \A s \in Readers \ {r} : ring'[s] = ring[s]
      BY <1>3, <3>2 DEF RingRec
    <3>4. Ahead(q.meta, n) = 0 /\ Ahead(q.write, n) = Ahead(q.write, q.read) - 1
      BY <1>3, <1>4, <3>1, <3>2, AheadLess DEF RingRec
    <3>5. q.meta = n
      BY <1>3, <3>4, AheadZero DEF RingRec
    <3> QED
      BY <1>5, <3>3, <3>4, <3>5
  <2> QED
    BY <2>1, <2>2
<1>7. Rings'
  <2>1. ASSUME NEW s \in Readers
        PROVE  /\ Ahead(ring'[s].write, ring'[s].read) <= BufferCount
               /\ ring'[s].meta # ring'[s].read =>
                    Ahead(ring'[s].meta, ring'[s].read) = 1
                      /\ ring'[s].write # ring'[s].read
               /\ holder.pc = "notify" /\ holder.cli = s =>
                    Ahead(ring'[s].write, ring'[s].read) < BufferCount
    <3>1. CASE s = r
      <4>1. Ahead(q.write, ring'[r].read) \in Nat
        BY <1>3, <1>6, AheadIs DEF RingRec, Index
      <4> QED
        BY <1>4, <1>5, <1>6, <3>1, <4>1, ModulusIs
    <3>2. CASE s # r
      BY <1>6, <3>2 DEF VinstrInv, Rings
    <3> QED
      BY <3>1, <3>2
  <2> QED
    BY <1>2, <2>1 DEF Rings, Ahead
<1>8. Attached' = Attached /\ On' = On
  BY <1>2 DEF Attached, On
<1>9. Shape' /\ Shares'
  BY <1>2, <1>6, SharesKept DEF VinstrInv, Shape, UsersTyped
<1>10. Place' /\ Phases' /\ Contexts' /\ Counters' /\ Device' /\ Fresh'
  BY <1>2, <1>8 DEF VinstrInv, Place, Phases, Contexts, Counters, Device,
     Fresh, Changing, Dying
<1> QED
  BY <1>7, <1>9, <1>10 DEF VinstrInv

-----------------------------------------------------------------------------
(* Enabling and disabling the counters *)

\* Where a nudge may come from, as far as the counters care.
LEMMA NudgeFrom ==
  ASSUME Nudged
  PROVE  /\ v'.state \in {"IDLE", "DUMPING"} /\ present => v.state \in {"IDLE",
              "DUMPING"}
         /\ v.state \in {"IDLE", "SUSPENDING"} /\ present
              => v'.state \in {"IDLE", "SUSPENDING"}
         /\ v'.state \in {"SUSPENDED", "RESUMING"} =>
              v.state \in {"SUSPENDED", "RESUMING"} \/ ~present
         /\ v.state = "SUSPENDING" => v'.state = "SUSPENDING"
         /\ v.state = "RESUMING" => v'.state = "RESUMING"
BY DEF Nudged

\* A nudge while the call goes on within enabling and disabling.
LEMMA PhasesGoOn ==
  ASSUME VinstrInv, Nudged, holder'.op = holder.op,
         holder.pc \notin Dumping, holder'.pc \notin Dumping
  PROVE  Phases'
BY DEF VinstrInv, Shape, VRec, Phases, Nudged

\* While the counters are enabled the context is there and they are off.
LEMMA EnablingIs ==
  ASSUME VinstrInv, holder.pc \in Enabling
  PROVE  /\ ~On /\ kctx /\ present /\ ~Dying /\ bitmap # {}
         /\ holder.op \in {"attach", "dump", "clear", "service", "resume"}
         /\ holder.op = "attach" => holder.ret = "created" /\ Attached = {}
         /\ holder.op = "resume" => holder.ret = "resumed"
         /\ holder.op \in {"dump", "clear", "service"}
              => holder.ret = "reprogrammed"
         /\ holder.op # "resume" => v.state \in {"IDLE", "SUSPENDING"}
<1>1. holder.op \in Ops
  BY Basics DEF HRec
<1>2. /\ holder.op \in {"attach", "dump", "clear", "service", "resume"}
      /\ holder.op = "attach" => holder.ret = "created"
      /\ holder.op = "resume" => holder.ret = "resumed"
      /\ holder.op \in {"dump", "clear", "service"}
           => holder.ret = "reprogrammed"
  BY <1>1 DEF VinstrInv, Place, Enabling, Disabling, Updating, Dumping, Ops
<1>3. kctx /\ ~On /\ (holder.op # "resume" => v.state \in {"IDLE",
        "SUSPENDING"})
  BY DEF VinstrInv, Contexts, Counters
<1>4. ~Dying /\ present
  BY <1>3 DEF VinstrInv, Contexts, Dying, Enabling, Disabling
<1>5. holder.op = "attach" => Attached = {}
  BY DEF VinstrInv, Contexts, Changing, Enabling
<1>6. bitmap # {}
  BY <1>2, <1>3 DEF VinstrInv, Contexts, Changing, Enabling
<1> QED
  BY <1>2, <1>3, <1>4, <1>5, <1>6

\* The references are taken before the counters are set up.
LEMMA EnableRefsInv == ASSUME VinstrInv, EnableRefs PROVE VinstrInv'
<1>1. /\ UNCHANGED <<kctx, present, bitmap, reprogram, ring, asleep, users,
           others, changes,
                     b, programmed, hw, fault, faults>>
      /\ holder.pc = "enable" /\ pmRefs' = pmRefs + 1
  BY DEF EnableRefs, At, ctxVars, Outside, hwVars
<1>2. Nudged /\ v'.cnt = v.cnt /\ ClientsKept
  BY Basics, PowerNudges DEF EnableRefs
<1>3. /\ holder' \in HRec /\ holder'.pc = "setup" /\ holder'.op = holder.op
      /\ holder'.ret = holder.ret /\ holder'.cli = holder.cli
           /\ holder'.err = holder.err
  BY Basics, GotoMoves DEF EnableRefs, Pcs
<1>4. Attached' = Attached /\ On' = On
  BY <1>1, <1>2, AttachedKept DEF On
<1>5. /\ ~On /\ kctx /\ present /\ ~Dying
      /\ holder.op # "resume" => v.state \in {"IDLE", "SUSPENDING"}
  BY <1>1, EnablingIs DEF Enabling
<1>6. ~Dying' /\ (Changing' <=> Changing)
  BY <1>3 DEF Dying, Changing, Disabling
<1>7. Shape'
  BY <1>1, <1>2, <1>3 DEF VinstrInv, Shape, Nudged, ClientsKept, UsersTyped
<1>8. Place'
  BY <1>1, <1>3 DEF VinstrInv, Place, Enabling, Disabling, Updating, Dumping
<1>9. Phases'
  BY <1>1, <1>2, <1>3, PhasesGoOn DEF Dumping
<1>10. Shares'
  BY <1>1, <1>2, SharesKept DEF VinstrInv
<1>11. Contexts'
  BY <1>1, <1>3, <1>4, <1>5, <1>6 DEF VinstrInv, Contexts, Enabling, Disabling
<1>12. Counters'
  BY <1>1, <1>2, <1>3, <1>4, <1>5, <1>6, NudgeFrom DEF VinstrInv, Counters,
     Enabling, Disabling
<1>13. Device' /\ Fresh'
  BY <1>1, <1>3, <1>4, <1>5 DEF VinstrInv, Device, Fresh
<1>14. Rings'
  BY <1>1, <1>3, RingsKept DEF VinstrInv
<1> QED
  BY <1>7, <1>8, <1>9, <1>10, <1>11, <1>12, <1>13, <1>14 DEF VinstrInv

\* The cache clean is queued, and the call waits for it.
LEMMA EnableSetupInv == ASSUME VinstrInv, EnableSetup PROVE VinstrInv'
<1>1. /\ UNCHANGED <<v, kctx, present, bitmap, reprogram, cl, ring, asleep,
           users, others,
                     changes, pmRefs, programmed, fault, faults>>
      /\ holder.pc = "setup" /\ b' = [state |-> "REQUEST_CLEAN",
           triggered |-> FALSE]
  BY DEF EnableSetup, At, ctxVars, Outside
<1>2. /\ hw' \in HwRec /\ hw'.sampling = hw.sampling
           /\ hw'.cleaning = hw.cleaning
      /\ hw'.cleanQueued = TRUE /\ b' \in BRec
  <2>1. hw \in HwRec /\ hw' = [hw EXCEPT !.cleanQueued = TRUE]
    BY DEF EnableSetup, VinstrInv, Shape
  <2>2. b' \in BRec
    BY <1>1 DEF BRec
  <2> QED
    BY <2>1, <2>2 DEF HwRec
<1>3. /\ holder' \in HRec /\ holder'.pc = "cleaning" /\ holder'.op = holder.op
      /\ holder'.ret = holder.ret /\ holder'.cli = holder.cli
           /\ holder'.err = holder.err
  BY Basics, GotoMoves DEF EnableSetup, Pcs
<1>4. Attached' = Attached /\ On' = On
  BY <1>1 DEF On, Attached
<1>5. /\ ~On /\ kctx /\ present /\ ~Dying
      /\ holder.op # "resume" => v.state \in {"IDLE", "SUSPENDING"}
  BY <1>1, EnablingIs DEF Enabling
<1>6. ~Dying' /\ (Changing' <=> Changing)
  BY <1>3 DEF Dying, Changing, Disabling
<1>7. Shape'
  BY <1>1, <1>2, <1>3 DEF VinstrInv, Shape, UsersTyped
<1>8. Place' /\ Phases'
  BY <1>1, <1>3 DEF VinstrInv, Place, Phases, Enabling, Disabling, Updating,
     Dumping
<1>9. Shares'
  BY <1>1, SharesKept DEF VinstrInv
<1>10. Contexts'
  BY <1>1, <1>3, <1>4, <1>5, <1>6 DEF VinstrInv, Contexts, Enabling, Disabling
<1>11. Counters'
  BY <1>1, <1>3, <1>4, <1>5, <1>6 DEF VinstrInv, Counters, Enabling, Disabling
<1>12. Device' /\ Fresh'
  BY <1>1, <1>2, <1>3, <1>4, <1>5 DEF VinstrInv, Device, Fresh
<1>13. Rings'
  BY <1>1, <1>3, RingsKept DEF VinstrInv
<1> QED
  BY <1>7, <1>8, <1>9, <1>10, <1>11, <1>12, <1>13 DEF VinstrInv

\* Instrumentation is enabled already: only a late fault can be the reason.
LEMMA EnableFailsInv == ASSUME VinstrInv, EnableFails PROVE VinstrInv'
<1>1. /\ UNCHANGED <<kctx, present, bitmap, reprogram, ring, asleep, users,
           others, changes,
                     b, programmed, hw, fault, faults>>
      /\ holder.pc = "setup" /\ pmRefs' = pmRefs - 1 /\ b.state # "DISABLED"
  BY DEF EnableFails, At, ctxVars, Outside, hwVars
<1>2. Nudged /\ v'.cnt = v.cnt /\ ClientsKept
  <2>1. \E n : GpuIdle(n)
    BY DEF EnableFails
  <2> QED
    BY <2>1, Basics, PowerNudges
<1>3. /\ holder' \in HRec /\ holder'.pc = holder.ret /\ holder'.op = holder.op
      /\ holder'.ret = holder.ret /\ holder'.cli = holder.cli /\ holder'.err
  BY Basics, ReturnMoves DEF EnableFails
<1>4. Attached' = Attached /\ On' = On
  BY <1>1, <1>2, AttachedKept DEF On
<1>5. /\ ~On /\ kctx /\ present /\ ~Dying
      /\ holder.op \in {"attach", "dump", "clear", "service", "resume"}
      /\ holder.op = "attach" => holder.ret = "created" /\ Attached = {}
      /\ holder.op = "resume" => holder.ret = "resumed"
      /\ holder.op \in {"dump", "clear", "service"}
           => holder.ret = "reprogrammed"
      /\ holder.op # "resume" => v.state \in {"IDLE", "SUSPENDING"}
  BY <1>1, EnablingIs DEF Enabling
<1>6. ~Dying' /\ (Changing' <=> Changing)
  BY <1>3, <1>5 DEF Dying, Changing, Disabling
<1>7. b.state = "FAULT" /\ pmRefs' = 0
  <2>1. ~hw.sampling /\ ~hw.cleanQueued /\ ~hw.cleaning
    BY <1>1 DEF VinstrInv, Device
  <2>2. b.state \notin {"DUMPING", "REQUEST_CLEAN", "CLEANING", "CLEANED",
          "IDLE"}
    BY <1>1, <1>5, <2>1 DEF VinstrInv, Device, Counters
  <2>3. b.state = "FAULT"
    BY <1>1, <2>2 DEF VinstrInv, Shape, BRec
  <2>4. pmRefs = 1
    BY <1>1 DEF VinstrInv, Counters
  <2> QED
    BY <1>1, <2>3, <2>4
<1>8. Shape'
  BY <1>1, <1>2, <1>3 DEF VinstrInv, Shape, Nudged, ClientsKept, UsersTyped
<1>9. Place'
  BY <1>1, <1>3, <1>5 DEF VinstrInv, Place, Updating
<1>10. Phases'
  BY <1>1, <1>2, <1>3, <1>5, PhasesGoOn DEF Dumping
<1>11. Shares'
  BY <1>1, <1>2, SharesKept DEF VinstrInv
<1>12. Contexts'
  BY <1>1, <1>3, <1>4, <1>5, <1>6 DEF VinstrInv, Contexts, Enabling, Disabling,
     Changing
<1>13. Counters'
  BY <1>1, <1>2, <1>3, <1>4, <1>5, <1>6, <1>7, NudgeFrom
     DEF VinstrInv, Counters, Enabling, Disabling
<1>14. Device' /\ Fresh'
  BY <1>1, <1>3, <1>4, <1>5 DEF VinstrInv, Device, Fresh
<1>15. Rings'
  BY <1>1, <1>3, <1>5, RingsKept DEF VinstrInv
<1> QED
  BY <1>8, <1>9, <1>10, <1>11, <1>12, <1>13, <1>14, <1>15 DEF VinstrInv

\* The counters are set up with every client's.
LEMMA EnableConfigureInv == ASSUME VinstrInv, EnableConfigure PROVE VinstrInv'
<1>1. /\ UNCHANGED <<v, kctx, present, bitmap, reprogram, cl, ring, asleep,
           users, others,
                     changes, pmRefs, hw, fault, faults>>
      /\ holder.pc = "cleaning" /\ b.triggered /\ programmed' = bitmap
      /\ b' = [state |-> "IDLE", triggered |-> TRUE]
  BY DEF EnableConfigure, At, ctxVars, Outside
<1>2. b' \in BRec /\ b'.state = "IDLE" /\ b'.triggered = TRUE
  BY <1>1 DEF BRec
<1>3. /\ holder' \in HRec /\ holder'.pc = holder.ret /\ holder'.op = holder.op
      /\ holder'.ret = holder.ret /\ holder'.cli = holder.cli /\ ~holder'.err
  BY Basics, ReturnMoves DEF EnableConfigure
<1>4. /\ ~On /\ kctx /\ present /\ ~Dying /\ bitmap # {}
      /\ holder.op \in {"attach", "dump", "clear", "service", "resume"}
      /\ holder.op = "attach" => holder.ret = "created" /\ Attached = {}
      /\ holder.op = "resume" => holder.ret = "resumed"
      /\ holder.op \in {"dump", "clear", "service"}
           => holder.ret = "reprogrammed"
      /\ holder.op # "resume" => v.state \in {"IDLE", "SUSPENDING"}
  BY <1>1, EnablingIs DEF Enabling
<1>5. Attached' = Attached /\ On'
  BY <1>1, <1>4 DEF On, Attached
<1>6. ~Dying' /\ (Changing' <=> Changing)
  BY <1>3, <1>4 DEF Dying, Changing, Disabling
<1>7. /\ Attached \subseteq bitmap /\ pmRefs = 1
      /\ holder.op = "attach" => holder.cli \in bitmap
      /\ ~hw.sampling /\ ~hw.cleanQueued /\ ~hw.cleaning
  BY <1>1 DEF VinstrInv, Contexts, Counters, Device, Enabling
<1>8. Shape'
  BY <1>1, <1>2, <1>3 DEF VinstrInv, Shape, UsersTyped
<1>9. Place'
  BY <1>1, <1>3, <1>4 DEF VinstrInv, Place, Updating
<1>10. Phases'
  BY <1>1, <1>3, <1>4 DEF VinstrInv, Phases, Dumping
<1>11. Shares'
  BY <1>1, SharesKept DEF VinstrInv
<1>12. Contexts'
  BY <1>1, <1>3, <1>4, <1>5, <1>6, <1>7 DEF VinstrInv, Contexts, Enabling,
     Disabling, Changing
<1>13. Counters'
  BY <1>1, <1>2, <1>3, <1>4, <1>5, <1>6, <1>7
     DEF VinstrInv, Counters, Enabling, Disabling
<1>14. Device'
  BY <1>1, <1>2, <1>7 DEF Device
<1>15. Fresh'
  BY <1>1, <1>3, <1>4, <1>5, <1>7 DEF Fresh, Attached
<1>16. Rings'
  BY <1>1, <1>3, <1>4, RingsKept DEF VinstrInv
<1> QED
  BY <1>8, <1>9, <1>10, <1>11, <1>12, <1>13, <1>14, <1>15, <1>16 DEF VinstrInv

\* While they are disabled the context is there.
LEMMA DisablingIs ==
  ASSUME VinstrInv, holder.pc \in Disabling
  PROVE  /\ kctx /\ (Changing <=> Dying) /\ (present <=> ~Dying)
         /\ holder.op \in {"attach", "detach", "dump", "clear", "service",
              "suspend"}
         /\ Changing <=> holder.ret = "destroyed"
         /\ Changing => Attached = {}
         /\ holder.op = "suspend" => holder.ret = "suspended"
              /\ v.state = "SUSPENDING"
         /\ holder.op \in {"dump", "clear", "service"} =>
              holder.ret = "reenable" /\ v.state \in {"IDLE", "SUSPENDING"}
<1>1. holder.op \in Ops
  BY Basics DEF HRec
<1>2. /\ holder.op \in {"attach", "detach", "dump", "clear", "service",
           "suspend"}
      /\ Changing <=> holder.ret = "destroyed"
      /\ holder.op = "suspend" => holder.ret = "suspended"
      /\ holder.op \in {"dump", "clear", "service"} => holder.ret = "reenable"
  BY <1>1 DEF VinstrInv, Place, Enabling, Disabling, Updating, Dumping, Ops,
     Changing
<1>3. kctx /\ (Changing <=> Dying) /\ (present <=> ~Dying)
  BY DEF VinstrInv, Contexts, Dying
<1>4. Changing => Attached = {}
  BY DEF VinstrInv, Contexts, Disabling
<1>5. /\ holder.op = "suspend" => v.state = "SUSPENDING"
      /\ holder.ret = "reenable" => v.state \in {"IDLE", "SUSPENDING"}
  BY DEF VinstrInv, Phases, Counters
<1> QED
  BY <1>2, <1>3, <1>4, <1>5

\* The backend is found off, or is turned off, or is waited for.
LEMMA DisableCountersInv == ASSUME VinstrInv, DisableCounters PROVE VinstrInv'
<1>1. /\ UNCHANGED <<v, kctx, present, bitmap, reprogram, cl, ring, asleep,
           users, others,
                     changes, pmRefs, hw, fault, faults>>
      /\ holder.pc = "disable"
  BY DEF DisableCounters, At, ctxVars, Outside
<1>2. /\ kctx /\ (Changing <=> Dying) /\ (present <=> ~Dying)
      /\ holder.op \in {"attach", "detach", "dump", "clear", "service",
           "suspend"}
      /\ Changing <=> holder.ret = "destroyed"
      /\ Changing => Attached = {}
      /\ holder.op = "suspend" => holder.ret = "suspended"
           /\ v.state = "SUSPENDING"
      /\ holder.op \in {"dump", "clear", "service"} =>
           holder.ret = "reenable" /\ v.state \in {"IDLE", "SUSPENDING"}
  BY <1>1, DisablingIs DEF Disabling
<1>3. Attached' = Attached
  BY <1>1 DEF Attached
<1>4. ~hw.sampling /\ ~hw.cleanQueued /\ ~hw.cleaning
  BY <1>1 DEF VinstrInv, Device
<1>5. Shares'
  BY <1>1, SharesKept DEF VinstrInv
<1>6. CASE b.state = "DISABLED"
  <2>1. Return(TRUE) /\ UNCHANGED <<b, programmed>>
    BY <1>6 DEF DisableCounters
  <2>2. /\ holder' \in HRec /\ holder'.pc = holder.ret /\ holder'.op = holder.op
        /\ holder'.ret = holder.ret /\ holder'.cli = holder.cli /\ holder'.err
    BY <2>1, Basics, ReturnMoves
  <2>3. ~On /\ ~On' /\ pmRefs = 0
    BY <1>1, <1>6, <2>1 DEF VinstrInv, Counters, On
  <2>4. (Changing' <=> Changing) /\ (Dying' <=> Dying)
    BY <1>1, <1>2, <2>2 DEF Changing, Dying
  <2>5. Shape'
    BY <1>1, <2>1, <2>2 DEF VinstrInv, Shape, UsersTyped
  <2>6. Place'
    BY <1>1, <1>2, <2>2 DEF VinstrInv, Place, Updating, Changing
  <2>7. Phases'
    BY <1>1, <1>2, <2>2 DEF VinstrInv, Phases, Dumping, Changing
  <2>8. Contexts'
    BY <1>1, <1>2, <1>3, <2>2, <2>4 DEF VinstrInv, Contexts, Enabling,
       Disabling, Changing
  <2>9. Counters'
    BY <1>1, <1>2, <1>6, <2>1, <2>2, <2>3, <2>4
       DEF VinstrInv, Counters, Enabling, Disabling, Changing
  <2>10. Device' /\ Fresh'
    BY <1>1, <1>2, <1>4, <2>1, <2>2, <2>3 DEF VinstrInv, Device, Fresh, Changing
  <2>11. Rings'
    BY <1>1, <1>2, <2>2, RingsKept DEF VinstrInv, Changing
  <2> QED
    BY <1>5, <2>5, <2>6, <2>7, <2>8, <2>9, <2>10, <2>11 DEF VinstrInv
<1>7. CASE b.state = "IDLE"
  <2>1. Goto("unref") /\ b' = [state |-> "DISABLED", triggered |-> FALSE]
          /\ programmed' = {}
    BY <1>7 DEF DisableCounters
  <2>2. /\ holder' \in HRec /\ holder'.pc = "unref" /\ holder'.op = holder.op
        /\ holder'.ret = holder.ret /\ holder'.cli = holder.cli
    BY <2>1, Basics, GotoMoves DEF Pcs
  <2>3. On /\ ~On' /\ pmRefs = 1 /\ b' \in BRec /\ b'.state = "DISABLED"
    BY <1>1, <1>7, <2>1 DEF VinstrInv, Counters, On, BRec
  <2>4. (Changing' <=> Changing) /\ (Dying' <=> Dying)
    BY <1>1, <1>2, <2>2 DEF Changing, Dying, Disabling
  <2>5. Shape'
    BY <1>1, <2>1, <2>2, <2>3 DEF VinstrInv, Shape, UsersTyped
  <2>6. Place'
    BY <1>1, <1>2, <2>2 DEF VinstrInv, Place, Disabling, Changing
  <2>7. Phases'
    BY <1>1, <1>2, <2>2 DEF VinstrInv, Phases, Dumping, Changing
  <2>8. Contexts'
    BY <1>1, <1>2, <1>3, <2>2, <2>4 DEF VinstrInv, Contexts, Enabling,
       Disabling, Changing
  <2>9. Counters'
    BY <1>1, <1>2, <2>2, <2>3, <2>4 DEF VinstrInv, Counters, Enabling,
       Disabling, Changing
  <2>10. Device' /\ Fresh'
    BY <1>1, <1>4, <2>1, <2>2, <2>3 DEF VinstrInv, Device, Fresh
  <2>11. Rings'
    BY <1>1, <2>2, RingsKept DEF VinstrInv
  <2> QED
    BY <1>5, <2>5, <2>6, <2>7, <2>8, <2>9, <2>10, <2>11 DEF VinstrInv
<1>8. CASE b.state \notin {"DISABLED", "IDLE"}
  <2>1. UNCHANGED <<holder, b, programmed>>
    BY <1>8 DEF DisableCounters
  <2>2. On' = On /\ Changing' = Changing /\ Dying' = Dying
    BY <2>1 DEF On, Changing, Dying
  <2>3. Shape' /\ Place' /\ Phases' /\ Device' /\ Rings'
    BY <1>1, <2>1 DEF VinstrInv, Shape, Place, Phases, Device, Rings,
       UsersTyped, Ahead
  <2>4. Contexts' /\ Counters' /\ Fresh'
    BY <1>1, <1>3, <2>1, <2>2 DEF VinstrInv, Contexts, Counters, Fresh
  <2> QED
    BY <1>5, <2>3, <2>4 DEF VinstrInv
<1> QED
  BY <1>6, <1>7, <1>8

\* The references are given back after the counters are off.
LEMMA DisableRefsInv == ASSUME VinstrInv, DisableRefs PROVE VinstrInv'
<1>1. /\ UNCHANGED <<kctx, present, bitmap, reprogram, ring, asleep, users,
           others, changes,
                     b, programmed, hw, fault, faults>>
      /\ holder.pc = "unref" /\ pmRefs' = pmRefs - 1
  BY DEF DisableRefs, At, ctxVars, Outside, hwVars
<1>2. Nudged /\ v'.cnt = v.cnt /\ ClientsKept
  <2>1. \E n : GpuIdle(n)
    BY DEF DisableRefs
  <2> QED
    BY <2>1, Basics, PowerNudges
<1>3. /\ holder' \in HRec /\ holder'.pc = holder.ret /\ holder'.op = holder.op
      /\ holder'.ret = holder.ret /\ holder'.cli = holder.cli /\ ~holder'.err
  BY Basics, ReturnMoves DEF DisableRefs
<1>4. Attached' = Attached /\ On' = On
  BY <1>1, <1>2, AttachedKept DEF On
<1>5. /\ kctx /\ (Changing <=> Dying) /\ (present <=> ~Dying)
      /\ holder.op \in {"attach", "detach", "dump", "clear", "service",
           "suspend"}
      /\ Changing <=> holder.ret = "destroyed"
      /\ Changing => Attached = {}
      /\ holder.op = "suspend" => holder.ret = "suspended"
           /\ v.state = "SUSPENDING"
      /\ holder.op \in {"dump", "clear", "service"} =>
           holder.ret = "reenable" /\ v.state \in {"IDLE", "SUSPENDING"}
  BY <1>1, DisablingIs DEF Disabling
<1>6. (Changing' <=> Changing) /\ (Dying' <=> Dying)
  BY <1>1, <1>3, <1>5 DEF Changing, Dying
<1>7. ~On /\ pmRefs' = 0
  BY <1>1 DEF VinstrInv, Counters
<1>8. Shape'
  BY <1>1, <1>2, <1>3 DEF VinstrInv, Shape, Nudged, ClientsKept, UsersTyped
<1>9. Place'
  BY <1>1, <1>3, <1>5 DEF VinstrInv, Place, Updating, Changing
<1>10. Phases'
  BY <1>1, <1>2, <1>3, <1>5, PhasesGoOn DEF Dumping, Changing
<1>11. Shares'
  BY <1>1, <1>2, SharesKept DEF VinstrInv
<1>12. Contexts'
  BY <1>1, <1>3, <1>4, <1>5, <1>6 DEF VinstrInv, Contexts, Enabling, Disabling,
     Changing
<1>13. Counters'
  BY <1>1, <1>2, <1>3, <1>4, <1>5, <1>6, <1>7, NudgeFrom
     DEF VinstrInv, Counters, Enabling, Disabling, Changing
<1>14. Device' /\ Fresh'
  BY <1>1, <1>3, <1>4, <1>5, <1>7 DEF VinstrInv, Device, Fresh, Changing
<1>15. Rings'
  BY <1>1, <1>3, <1>5, RingsKept DEF VinstrInv, Changing
<1> QED
  BY <1>8, <1>9, <1>10, <1>11, <1>12, <1>13, <1>14, <1>15 DEF VinstrInv

-----------------------------------------------------------------------------
(* The steps of a dump that deal with the hardware *)

\* An idle vinstr starts to dump; the counters are on, or a late fault is set.
LEMMA CollectInv == ASSUME VinstrInv, Collect, v.state = "IDLE" PROVE VinstrInv'
<1>1. /\ UNCHANGED <<kctx, present, bitmap, reprogram, cl, ring, asleep, users,
           others,
                     changes, pmRefs, b, programmed, hw, fault, faults>>
      /\ holder.pc = "collect" /\ Goto("request")
           /\ v' = [v EXCEPT !.state = "DUMPING"]
  BY DEF Collect, At, ctxVars, Outside, hwVars
<1>2. /\ v' \in VRec /\ v'.state = "DUMPING" /\ v'.cnt = v.cnt
           /\ v'.works = v.works
  BY <1>1, Basics DEF VRec, States
<1>3. /\ holder' \in HRec /\ holder'.pc = "request" /\ holder'.op = holder.op
      /\ holder'.ret = holder.ret /\ holder'.cli = holder.cli
  BY <1>1, Basics, GotoMoves DEF Pcs
<1>4. holder.op \in {"dump", "clear", "service"} /\ kctx /\ ~Changing
  BY <1>1, DumpOps DEF Serving
<1>5. Attached' = Attached /\ On' = On /\ ~Changing' /\ ~Dying /\ ~Dying'
  BY <1>1, <1>3, <1>4 DEF Attached, On, Changing, Dying
<1>6. /\ v.cnt = 0 /\ v.works = {}
  BY Basics DEF VinstrInv, Phases, VRec
<1>7. Shape'
  BY <1>1, <1>2, <1>3 DEF VinstrInv, Shape, UsersTyped
<1>8. Place'
  BY <1>1, <1>3, <1>4 DEF VinstrInv, Place, Dumping
<1>9. Phases'
  BY <1>2, <1>3, <1>4, <1>6 DEF Phases, Dumping
<1>10. Shares'
  BY <1>1, <1>2, SharesKept DEF VinstrInv
<1>11. Contexts'
  BY <1>1, <1>3, <1>4, <1>5 DEF VinstrInv, Contexts, Enabling, Disabling
<1>12. Counters'
  BY <1>1, <1>2, <1>3, <1>4, <1>5 DEF VinstrInv, Counters, Enabling, Disabling
<1>13. Device' /\ Fresh'
  BY <1>1, <1>3, <1>5 DEF VinstrInv, Device, Fresh
<1>14. Rings'
  BY <1>1, <1>3, RingsKept DEF VinstrInv
<1> QED
  BY <1>7, <1>8, <1>9, <1>10, <1>11, <1>12, <1>13, <1>14 DEF VinstrInv

\* The backend takes the sample if it is idle, and then the counters are on.
LEMMA RequestDumpInv == ASSUME VinstrInv, RequestDump PROVE VinstrInv'
<1>1. /\ UNCHANGED <<v, kctx, present, bitmap, reprogram, cl, ring, asleep,
           users, others,
                     changes, pmRefs, programmed, fault, faults>>
      /\ holder.pc = "request"
  BY DEF RequestDump, At, ctxVars, Outside
<1>2. /\ holder.op \in {"dump", "clear", "service"} /\ kctx /\ ~Changing
      /\ v.state \in {"DUMPING", "SUSPENDING"} /\ "suspend" \notin v.works
      /\ "resume" \notin v.works
  BY <1>1, DumpOps DEF Serving, VinstrInv, Phases, Dumping
<1>3. /\ ~hw.sampling /\ ~hw.cleanQueued /\ ~hw.cleaning
  BY <1>1 DEF VinstrInv, Device
<1>4. /\ holder' \in HRec /\ holder'.op = holder.op /\ holder'.cli = holder.cli
      /\ b' \in BRec /\ hw' \in HwRec
      /\ \/ /\ b.state = "IDLE" /\ holder'.pc = "sampling"
                 /\ b'.state = "DUMPING"
            /\ b'.triggered = FALSE /\ hw'.sampling = TRUE
                 /\ hw'.cleanQueued = FALSE
            /\ hw'.cleaning = FALSE
         \/ /\ holder'.pc = "dumped" /\ holder'.err = TRUE /\ b' = b /\ hw' = hw
            /\ b.state # "IDLE"
  <2>1. holder \in HRec /\ b \in BRec /\ hw \in HwRec
    BY DEF VinstrInv, Shape
  <2>2. CASE b.state = "IDLE"
    <3>1. /\ Goto("sampling") /\ b' = [state |-> "DUMPING", triggered |-> FALSE]
          /\ hw' = [hw EXCEPT !.sampling = TRUE]
      BY <2>2 DEF RequestDump
    <3>2. hw' \in HwRec /\ hw'.sampling = TRUE /\ hw'.cleanQueued = FALSE
            /\ hw'.cleaning = FALSE
      BY <1>3, <2>1, <3>1 DEF HwRec
    <3>3. b' \in BRec /\ b'.state = "DUMPING" /\ b'.triggered = FALSE
      BY <3>1 DEF BRec
    <3> QED
      BY <2>1, <2>2, <3>1, <3>2, <3>3, GotoMoves DEF Pcs
  <2>3. CASE b.state # "IDLE"
    <3>1. holder' = [holder EXCEPT !.pc = "dumped", !.err = TRUE] /\ b' = b
            /\ hw' = hw
      BY <2>3 DEF RequestDump
    <3> QED
      BY <2>1, <2>3, <3>1 DEF HRec, Pcs
  <2> QED
    BY <2>2, <2>3
<1>5. Attached' = Attached /\ On' = On /\ ~Changing' /\ ~Dying /\ ~Dying'
  BY <1>1, <1>2, <1>4 DEF Attached, On, Changing, Dying
<1>6. b.state = "IDLE" => On
  BY <1>1 DEF VinstrInv, Counters
<1>7. holder'.pc \in {"sampling", "dumped"}
  BY <1>4
<1>8. Shape'
  BY <1>1, <1>4 DEF VinstrInv, Shape, UsersTyped
<1>9. Place'
  BY <1>2, <1>4, <1>7 DEF VinstrInv, Place, Dumping
<1>10. Phases'
  BY <1>1, <1>2, <1>4, <1>7 DEF VinstrInv, Phases, Dumping
<1>11. Shares'
  BY <1>1, SharesKept DEF VinstrInv
<1>12. Contexts'
  BY <1>1, <1>2, <1>4, <1>5, <1>7 DEF VinstrInv, Contexts, Enabling, Disabling
<1>13. Counters'
  BY <1>1, <1>2, <1>4, <1>5, <1>6, <1>7 DEF VinstrInv, Counters, Enabling,
     Disabling
<1>14. Device'
  BY <1>1, <1>3, <1>4 DEF VinstrInv, Device
<1>15. Fresh'
  BY <1>1, <1>5, <1>7 DEF VinstrInv, Fresh
<1>16. Rings'
  BY <1>1, <1>7, RingsKept DEF VinstrInv
<1> QED
  BY <1>8, <1>9, <1>10, <1>11, <1>12, <1>13, <1>14, <1>15, <1>16 DEF VinstrInv

\* The sample and the clean after it have ended, or a fault has.
LEMMA WaitForDumpInv == ASSUME VinstrInv, WaitForDump PROVE VinstrInv'
<1>1. /\ UNCHANGED <<v, kctx, present, bitmap, reprogram, cl, ring, asleep,
           users, others,
                     changes, pmRefs, hw, programmed, fault, faults>>
      /\ holder.pc = "sampling" /\ b.triggered
  BY DEF WaitForDump, At, ctxVars, Outside
<1>2. /\ holder.op \in {"dump", "clear", "service"} /\ kctx /\ ~Changing
      /\ v.state \in {"DUMPING", "SUSPENDING"} /\ "suspend" \notin v.works
      /\ "resume" \notin v.works
  BY <1>1, DumpOps DEF Serving, VinstrInv, Phases, Dumping
<1>3. /\ ~hw.sampling /\ ~hw.cleanQueued /\ ~hw.cleaning /\ On
  BY <1>1 DEF VinstrInv, Device, Counters
<1>4. /\ holder' \in HRec /\ holder'.op = holder.op /\ holder'.cli = holder.cli
      /\ holder'.pc = "dumped"
  BY Basics DEF WaitForDump, HRec, Pcs
<1>5. /\ b' \in BRec /\ b'.state \in {b.state, "IDLE"}
  <2>1. b \in BRec
          /\ b' = IF b.state = "FAULT" THEN [b EXCEPT !.state = "IDLE"] ELSE b
    BY DEF WaitForDump, VinstrInv, Shape
  <2> QED
    BY <2>1 DEF BRec
<1>6. Attached' = Attached /\ On' = On /\ ~Changing' /\ ~Dying /\ ~Dying'
  BY <1>1, <1>2, <1>4 DEF Attached, On, Changing, Dying
<1>7. Shape'
  BY <1>1, <1>4, <1>5 DEF VinstrInv, Shape, UsersTyped
<1>8. Place'
  BY <1>2, <1>4 DEF VinstrInv, Place, Dumping
<1>9. Phases'
  BY <1>1, <1>2, <1>4 DEF VinstrInv, Phases, Dumping
<1>10. Shares'
  BY <1>1, SharesKept DEF VinstrInv
<1>11. Contexts'
  BY <1>1, <1>2, <1>4, <1>6 DEF VinstrInv, Contexts, Enabling, Disabling
<1>12. Counters'
  BY <1>1, <1>2, <1>3, <1>4, <1>5, <1>6 DEF VinstrInv, Counters, Enabling,
     Disabling
<1>13. Device'
  BY <1>1, <1>3, <1>5 DEF VinstrInv, Device
<1>14. Fresh'
  BY <1>1, <1>4, <1>6 DEF VinstrInv, Fresh
<1>15. Rings'
  BY <1>1, <1>4, RingsKept DEF VinstrInv
<1> QED
  BY <1>7, <1>8, <1>9, <1>10, <1>11, <1>12, <1>13, <1>14, <1>15 DEF VinstrInv

\* The state moves on; only now may the suspend that came meanwhile be queued.
LEMMA DumpedInv == ASSUME VinstrInv, Dumped PROVE VinstrInv'
<1>1. /\ UNCHANGED <<kctx, present, bitmap, reprogram, cl, ring, users, others,
                     changes, pmRefs, b, programmed, hw, fault, faults>>
      /\ holder.pc = "dumped" /\ Goto("collected")
  BY DEF Dumped, At, ctxVars, Outside, hwVars
<1>2. /\ holder.op \in {"dump", "clear", "service"} /\ kctx /\ ~Changing
      /\ v.state \in {"DUMPING", "SUSPENDING"} /\ v.works = {} /\ v.cnt = 0
  BY <1>1, Basics, DumpOps DEF Serving, VinstrInv, Phases, Dumping, VRec
<1>3. /\ holder' \in HRec /\ holder'.pc = "collected" /\ holder'.op = holder.op
      /\ holder'.ret = holder.ret /\ holder'.cli = holder.cli
  BY <1>1, Basics, GotoMoves DEF Pcs
<1>4. /\ v' \in VRec /\ v'.cnt = v.cnt
      /\ \/ v.state = "SUSPENDING" /\ v'.state = "SUSPENDING"
              /\ v'.works = {"suspend"}
         \/ v.state = "DUMPING" /\ v'.state = "IDLE" /\ v'.works = {}
  <2>1. CASE v.state = "SUSPENDING"
    <3>1. v' = [v EXCEPT !.works = {"suspend"}]
      BY <1>2, <2>1 DEF Dumped
    <3> QED
      BY <2>1, <3>1, Basics DEF VRec
  <2>2. CASE v.state = "DUMPING"
    <3>1. v' = [v EXCEPT !.state = "IDLE"]
      BY <2>2 DEF Dumped
    <3> QED
      BY <1>2, <2>2, <3>1, Basics DEF VRec, States
  <2> QED
    BY <1>2, <2>1, <2>2
<1>5. asleep' \subseteq Sleepers
  BY Basics DEF Dumped, WakeAll
<1>6. Attached' = Attached /\ On' = On /\ ~Changing' /\ ~Dying /\ ~Dying'
  BY <1>1, <1>2, <1>3 DEF Attached, On, Changing, Dying
<1>7. Shape'
  BY <1>1, <1>3, <1>4, <1>5 DEF VinstrInv, Shape, UsersTyped
<1>8. Place'
  BY <1>2, <1>3 DEF VinstrInv, Place, Updating
<1>9. Phases'
  BY <1>2, <1>3, <1>4 DEF Phases, Dumping
<1>10. Shares'
  BY <1>1, <1>4, SharesKept DEF VinstrInv
<1>11. Contexts'
  BY <1>1, <1>2, <1>3, <1>6 DEF VinstrInv, Contexts, Enabling, Disabling
<1>12. Counters'
  BY <1>1, <1>2, <1>3, <1>4, <1>6 DEF VinstrInv, Counters, Enabling, Disabling
<1>13. Device' /\ Fresh'
  BY <1>1, <1>3, <1>6 DEF VinstrInv, Device, Fresh
<1>14. Rings'
  BY <1>1, <1>3, RingsKept DEF VinstrInv
<1> QED
  BY <1>7, <1>8, <1>9, <1>10, <1>11, <1>12, <1>13, <1>14 DEF VinstrInv

\* The counters are disabled and enabled again, by an idle vinstr.
LEMMA ReprogramInv ==
  ASSUME VinstrInv, Reenable \/ (Reprogram /\ v.state = "IDLE" /\ reprogram)
  PROVE  VinstrInv'
<1>1. /\ UNCHANGED <<v, kctx, present, bitmap, reprogram, cl, ring, asleep,
           users, others,
                     changes, pmRefs, b, programmed, hw, fault, faults>>
      /\ \/ holder.pc = "reprogram" /\ v.state = "IDLE" /\ Call("disable",
              "reenable")
         \/ holder.pc = "reenable" /\ Call("enable", "reprogrammed")
  BY DEF Reenable, Reprogram, At, ctxVars, Outside, hwVars
<1>2. holder.op \in {"dump", "clear", "service"} /\ kctx /\ ~Changing
  BY <1>1, DumpOps DEF Serving
<1>3. /\ holder' \in HRec /\ holder'.op = holder.op /\ holder'.cli = holder.cli
      /\ ~holder'.err
      /\ \/ /\ holder.pc = "reprogram" /\ v.state = "IDLE"
            /\ holder'.pc = "disable" /\ holder'.ret = "reenable"
         \/ /\ holder.pc = "reenable" /\ holder'.pc = "enable"
            /\ holder'.ret = "reprogrammed"
  BY <1>1, Basics, CallMoves DEF Pcs
<1>4. Attached' = Attached /\ On' = On /\ ~Changing' /\ ~Dying /\ ~Dying'
  BY <1>1, <1>2, <1>3 DEF Attached, On, Changing, Dying
<1>5. Shape'
  BY <1>1, <1>3 DEF VinstrInv, Shape, UsersTyped
<1>6. Place'
  BY <1>2, <1>3 DEF VinstrInv, Place, Enabling, Disabling
<1>7. Phases' /\ Shares'
  BY <1>1, <1>2, <1>3, SharesKept DEF VinstrInv, Phases, Dumping
<1>8. Contexts'
  BY <1>1, <1>2, <1>3, <1>4 DEF VinstrInv, Contexts
<1>9. Counters'
  BY <1>1, <1>2, <1>3, <1>4 DEF VinstrInv, Counters, Enabling, Disabling
<1>10. Device' /\ Fresh'
  BY <1>1, <1>3, <1>4 DEF VinstrInv, Device, Fresh
<1>11. Rings'
  BY <1>1, <1>3, RingsKept DEF VinstrInv
<1> QED
  BY <1>5, <1>6, <1>7, <1>8, <1>9, <1>10, <1>11 DEF VinstrInv

\* What has been programmed is no longer pending.
LEMMA ReprogrammedInv == ASSUME VinstrInv, Reprogrammed PROVE VinstrInv'
<1>1. /\ UNCHANGED <<v, kctx, present, bitmap, ring, asleep, users, others,
                     changes, pmRefs, b, programmed, hw, fault, faults>>
      /\ holder.pc = "reprogrammed" /\ reprogram' \in BOOLEAN
  BY DEF Reprogrammed, At, Outside, hwVars, VinstrInv, Shape
<1>2. holder.op \in {"dump", "clear", "service"} /\ kctx /\ ~Changing
  BY <1>1, DumpOps DEF Serving
<1>3. holder' \in HRec /\ holder'.pc = "none" /\ holder'.op = "none"
  BY ReleaseMoves DEF Reprogrammed
<1>4. /\ cl' \in [Clients -> ClRec]
      /\ \A c \in Clients :
           /\ cl'[c].list = cl[c].list
           /\ ~cl'[c].pending =>
                ~cl[c].pending \/ (cl[c].list \in {"idle", "waiting"}
                  /\ ~holder.err)
  <2>1. CASE holder.err
    BY <2>1, Basics DEF Reprogrammed
  <2>2. CASE ~holder.err
    <3>1. cl' = [c \in Clients |-> IF cl[c].list \in {"idle", "waiting"}
                                   THEN [cl[c] EXCEPT !.pending = FALSE] ELSE cl[c]]
      BY <2>2 DEF Reprogrammed
    <3> QED
      BY <2>2, <3>1, Basics DEF ClRec
  <2> QED
    BY <2>1, <2>2
<1>5. Attached' = Attached
  BY <1>4 DEF Attached
<1>6. On' = On /\ ~Changing' /\ ~Dying /\ ~Dying'
  BY <1>1, <1>2, <1>3 DEF On, Changing, Dying
<1>7. Shape'
  BY <1>1, <1>3, <1>4 DEF VinstrInv, Shape, UsersTyped
<1>8. Place'
  BY <1>3 DEF Place
<1>9. Phases' /\ Shares'
  BY <1>1, <1>3, SharesKept DEF VinstrInv, Phases, Dumping
<1>10. Contexts'
  BY <1>1, <1>2, <1>3, <1>5, <1>6 DEF VinstrInv, Contexts, Enabling, Disabling
<1>11. Counters'
  BY <1>1, <1>2, <1>3, <1>6 DEF VinstrInv, Counters, Enabling, Disabling
<1>12. Device'
  BY <1>1, <1>3 DEF VinstrInv, Device
<1>13. Fresh'
  BY <1>1, <1>3, <1>4, <1>6 DEF VinstrInv, Fresh, Attached
<1>14. Rings'
  BY <1>1, <1>3, RingsKept DEF VinstrInv
<1> QED
  BY <1>7, <1>8, <1>9, <1>10, <1>11, <1>12, <1>13, <1>14 DEF VinstrInv

-----------------------------------------------------------------------------
(* The workers *)

\* A worker takes the lock; its work was queued in the state it is to end.
LEMMA WorkerStartsInv ==
  ASSUME VinstrInv, NEW w \in {"suspend", "resume"}, WorkerStarts(w)
  PROVE  VinstrInv'
<1>1. /\ UNCHANGED <<kctx, present, bitmap, reprogram, cl, ring, asleep, users,
           others,
                     changes, pmRefs, b, programmed, hw, fault, faults>>
      /\ holder.pc = "none" /\ holder.op = "none" /\ w \in v.works
  BY DEF WorkerStarts, Nobody, ctxVars, Outside, hwVars
<1>2. /\ v' \in VRec /\ v'.state = v.state /\ v'.cnt = v.cnt
           /\ v'.works = v.works \ {w}
      /\ v.works \subseteq {"suspend", "resume"}
  <2>1. v' = [v EXCEPT !.works = @ \ {w}]
    BY DEF WorkerStarts
  <2> QED
    BY <2>1, Basics DEF VRec
<1>3. /\ w = "suspend" => v.state = "SUSPENDING" /\ "resume" \notin v.works
      /\ w = "resume" => v.state = "RESUMING" /\ "suspend" \notin v.works /\ ~On
      /\ On => kctx
  <2>1. ~Dying
    BY <1>1 DEF Dying, Changing
  <2> QED
    BY <1>1, <2>1 DEF VinstrInv, Phases, Counters
<1>4. /\ holder' \in HRec /\ holder'.op = w
      /\ \/ w = "suspend" /\ ~kctx /\ holder'.pc = "suspended"
         \/ w = "suspend" /\ kctx /\ holder'.pc = "disable"
              /\ holder'.ret = "suspended"
         \/ w = "resume" /\ ~kctx /\ holder'.pc = "resumed"
         \/ w = "resume" /\ kctx /\ holder'.pc = "enable"
              /\ holder'.ret = "resumed"
  <2>1. CASE w = "suspend"
    <3>1. holder' = [Nobody EXCEPT !.who = "suspend", !.op = "suspend",
                       !.pc = IF ~kctx THEN "suspended" ELSE "disable",
                         !.ret = "suspended"]
      BY <2>1 DEF WorkerStarts
    <3> QED
      BY <2>1, <3>1 DEF Nobody, HRec, Pcs, Ops
  <2>2. CASE w = "resume"
    <3>1. holder' = [Nobody EXCEPT !.who = "resume", !.op = "resume",
                       !.pc = IF ~kctx THEN "resumed" ELSE "enable",
                         !.ret = "resumed"]
      BY <2>2 DEF WorkerStarts
    <3> QED
      BY <2>2, <3>1 DEF Nobody, HRec, Pcs, Ops
  <2> QED
    BY <2>1, <2>2
<1>5. /\ Attached' = Attached /\ On' = On
      /\ ~Changing /\ ~Changing' /\ ~Dying /\ ~Dying'
  BY <1>1, <1>4 DEF Attached, On, Changing, Dying
<1>6. Shape'
  BY <1>1, <1>2, <1>4 DEF VinstrInv, Shape, UsersTyped
<1>7. Place'
  BY <1>4 DEF Place, Enabling, Disabling
<1>8. Phases'
  BY <1>1, <1>2, <1>3, <1>4 DEF VinstrInv, Phases, Dumping
<1>9. Shares'
  BY <1>1, <1>2, SharesKept DEF VinstrInv
<1>10. Contexts'
  BY <1>1, <1>4, <1>5 DEF VinstrInv, Contexts, Enabling, Disabling
<1>11. Counters'
  BY <1>1, <1>2, <1>3, <1>4, <1>5 DEF VinstrInv, Counters, Enabling, Disabling
<1>12. Device' /\ Fresh'
  BY <1>1, <1>4, <1>5 DEF VinstrInv, Device, Fresh
<1>13. Rings'
  BY <1>1, <1>4, RingsKept DEF VinstrInv
<1> QED
  BY <1>6, <1>7, <1>8, <1>9, <1>10, <1>11, <1>12, <1>13 DEF VinstrInv

\* A worker ends in its new state, or in the opposite asked for meanwhile.
LEMMA WorkerEndsInv == ASSUME VinstrInv, Suspended \/ Resumed PROVE VinstrInv'
<1>1. /\ UNCHANGED <<kctx, present, bitmap, reprogram, cl, ring, users, others,
                     changes, pmRefs, b, programmed, hw, fault, faults>>
      /\ asleep' = {} /\ Release
      /\ (holder.pc = "suspended" /\ Suspended) \/ (holder.pc = "resumed"
           /\ Resumed)
  BY DEF Suspended, Resumed, At, WakeAll, ctxVars, Outside, hwVars
<1>2. /\ holder.pc = "suspended" => holder.op = "suspend"
           /\ v.state = "SUSPENDING"
      /\ holder.pc = "resumed" => holder.op = "resume" /\ v.state = "RESUMING"
      /\ v.works = {} /\ v.cnt = 0
  <2>1. holder.op \in Ops
    BY Basics DEF HRec
  <2>2. /\ holder.pc = "suspended" => holder.op = "suspend"
        /\ holder.pc = "resumed" => holder.op = "resume"
    BY <2>1 DEF VinstrInv, Place, Ops, Enabling, Disabling, Updating, Dumping
  <2> QED
    BY <1>1, <2>2, Basics DEF VinstrInv, Phases, VRec
<1>3. holder' \in HRec /\ holder'.pc = "none" /\ holder'.op = "none"
  BY <1>1, ReleaseMoves
<1>4. /\ v' \in VRec /\ v'.cnt = 0
      /\ \/ holder.pc = "suspended" /\ v'.state = "RESUMING"
              /\ v'.works = {"resume"}
         \/ holder.pc = "suspended" /\ v'.state = "SUSPENDED" /\ v'.works = {}
         \/ holder.pc = "resumed" /\ v'.state = "SUSPENDING"
              /\ v'.works = {"suspend"}
         \/ holder.pc = "resumed" /\ v'.state = "IDLE" /\ v'.works = {}
  <2>1. CASE holder.pc = "suspended" /\ v.needResume
    <3>1. v' = [v EXCEPT !.needResume = FALSE, !.state = "RESUMING",
            !.works = {"resume"}]
      BY <1>1, <1>2, <2>1 DEF Suspended
    <3> QED
      BY <1>2, <2>1, <3>1, Basics DEF VRec, States
  <2>2. CASE holder.pc = "suspended" /\ ~v.needResume
    <3>1. v' = [v EXCEPT !.state = "SUSPENDED"]
      BY <1>1, <2>2 DEF Suspended
    <3> QED
      BY <1>2, <2>2, <3>1, Basics DEF VRec, States
  <2>3. CASE holder.pc = "resumed" /\ v.needSuspend
    <3>1. v' = [v EXCEPT !.needSuspend = FALSE, !.state = "SUSPENDING",
            !.works = {"suspend"}]
      BY <1>1, <1>2, <2>3 DEF Resumed
    <3> QED
      BY <1>2, <2>3, <3>1, Basics DEF VRec, States
  <2>4. CASE holder.pc = "resumed" /\ ~v.needSuspend
    <3>1. v' = [v EXCEPT !.state = "IDLE"]
      BY <1>1, <2>4 DEF Resumed
    <3> QED
      BY <1>2, <2>4, <3>1, Basics DEF VRec, States
  <2> QED
    BY <1>1, <2>1, <2>2, <2>3, <2>4
<1>5. /\ Attached' = Attached /\ On' = On
      /\ ~Changing /\ ~Changing' /\ ~Dying /\ ~Dying'
  BY <1>1, <1>2, <1>3 DEF Attached, On, Changing, Dying
<1>6. Shape'
  BY <1>1, <1>3, <1>4 DEF VinstrInv, Shape, UsersTyped
<1>7. Place' /\ Phases'
  BY <1>3, <1>4 DEF Place, Phases, Dumping
<1>8. Shares'
  BY <1>1, <1>2, <1>4, SharesKept DEF VinstrInv
<1>9. Contexts'
  BY <1>1, <1>3, <1>5 DEF VinstrInv, Contexts, Enabling, Disabling
<1>10. Counters'
  BY <1>1, <1>2, <1>3, <1>4, <1>5 DEF VinstrInv, Counters, Enabling, Disabling,
     Contexts
<1>11. Device' /\ Fresh'
  BY <1>1, <1>3, <1>5 DEF VinstrInv, Device, Fresh
<1>12. Rings'
  BY <1>1, <1>3, RingsKept DEF VinstrInv
<1> QED
  BY <1>6, <1>7, <1>8, <1>9, <1>10, <1>11, <1>12 DEF VinstrInv

-----------------------------------------------------------------------------
(* Attaching and detaching *)

\* Who creates, joins or destroys is a call that attaches or detaches a reader.
LEMMA ChangingIs ==
  ASSUME VinstrInv, holder.pc \in {"create", "created", "join", "destroy",
           "destroyed"}
  PROVE  /\ Changing /\ holder.op \in {"attach", "detach"}
              /\ holder.cli \in Readers
         /\ holder.pc \in {"create", "created", "join"} => holder.op = "attach"
         /\ kctx <=> holder.pc # "create"
         /\ holder.pc # "join" => Attached = {}
         /\ Dying <=> holder.pc = "destroyed"
         /\ v.state # "DUMPING"
         /\ holder.op = "attach" /\ holder.pc \in {"create", "created",
              "join"} =>
              holder.cli \in bitmap
<1>1. holder.op \in Ops
  BY Basics DEF HRec
<1>2. /\ holder.op \in {"attach", "detach"}
      /\ holder.pc \in {"create", "created", "join"} => holder.op = "attach"
  BY <1>1 DEF VinstrInv, Place, Ops, Enabling, Disabling, Updating, Dumping
<1>3. Changing /\ holder.cli \in Readers
  BY <1>2 DEF VinstrInv, Place, Changing
<1>4. Dying <=> holder.pc = "destroyed"
  BY <1>3 DEF Dying, Disabling
<1>5. v.state # "DUMPING"
  BY DEF VinstrInv, Phases, Dumping
<1> QED
  BY <1>2, <1>3, <1>4, <1>5 DEF VinstrInv, Contexts

\* A step of such a call that neither nudges the state machine nor touches the
\* hardware keeps the parts about them.
LEMMA ChangeKeeps ==
  ASSUME VinstrInv, Outside' = Outside,
         UNCHANGED <<v, ring, asleep, pmRefs, hwVars>>,
         holder.pc \in {"create", "created", "join", "destroy", "destroyed"},
         holder'.pc \in {"none", "enable", "disable", "created", "join",
           "destroy", "destroyed"},
         holder'.op \in {"none", holder.op}
  PROVE  Phases' /\ Shares' /\ Device' /\ Rings'
<1>1. holder.op \in {"attach", "detach"} /\ v.state # "DUMPING"
  BY ChangingIs
<1>2. UNCHANGED <<b, hw, users>>
  BY DEF hwVars, Outside
<1> QED
  BY <1>1, <1>2, SharesKept, RingsKept DEF VinstrInv, Phases, Device, Dumping

\* A reader's call takes the lock; the first one finds no context.
LEMMA AttachInv == ASSUME VinstrInv, NEW r \in Readers,
  Attach(r) PROVE VinstrInv'
<1>1. /\ UNCHANGED <<v, kctx, present, asleep, users, others, pmRefs, b,
           programmed, hw,
                     fault, faults>>
      /\ cl[r].list = "none" /\ reprogram' = TRUE
      /\ bitmap' = IF Attached = {} THEN {r} ELSE bitmap \cup {r}
      /\ cl' = [cl EXCEPT ![r] = NewClient]
      /\ ring' = [ring EXCEPT ![r] = [write |-> 0, read |-> 0, meta |-> 0]]
  BY DEF Attach, hwVars
<1>2. changes' \in 0 .. MaxChanges
  BY Basics, BoundsAssumption DEF Attach
<1>3. r \in Clients
  BY DEF Clients
<1>4. /\ holder.pc = "none" /\ holder.op = "none" /\ holder' \in HRec
      /\ holder'.op = "attach" /\ holder'.cli = r
      /\ holder'.pc = IF Attached = {} THEN "create" ELSE "join"
  BY <1>3, TakeMoves DEF Attach, Ops, Pcs
<1>5. /\ cl' \in [Clients -> ClRec] /\ cl'[r].list = "none" /\ cl'[r].pending
      /\ \A c \in Clients \ {r} : cl'[c] = cl[c]
  <2>1. NewClient \in ClRec
    BY DEF NewClient, ClRec, Lists
  <2> QED
    BY <1>1, <1>3, <2>1, Basics DEF NewClient
<1>6. Attached' = Attached
  BY <1>1, <1>5 DEF Attached
<1>7. /\ On' = On /\ ~Changing /\ Changing' /\ ~Dying /\ ~Dying'
      /\ kctx <=> Attached # {}
      /\ On => kctx
  BY <1>1, <1>4 DEF On, Changing, Dying, Disabling, VinstrInv, Contexts,
     Counters
<1>8. /\ ring' \in [Readers -> RingRec] /\ ring'[r] = [write |-> 0, read |-> 0,
           meta |-> 0]
      /\ \A s \in Readers \ {r} : ring'[s] = ring[s]
  <2>1. [write |-> 0, read |-> 0, meta |-> 0] \in RingRec
    BY ModulusIs DEF RingRec, Index
  <2>2. ring \in [Readers -> RingRec]
    BY DEF VinstrInv, Shape
  <2> QED
    BY <1>1, <2>1, <2>2
<1>9. Shape'
  <2>1. bitmap' \subseteq Clients
    BY <1>1, <1>3 DEF VinstrInv, Shape
  <2> QED
    BY <1>1, <1>2, <1>4, <1>5, <1>8, <2>1 DEF VinstrInv, Shape, UsersTyped
<1>10. Place'
  BY <1>4 DEF Place
<1>11. Phases' /\ Shares'
  BY <1>1, <1>4, SharesKept DEF VinstrInv, Phases, Dumping
<1>12. Contexts'
  <2>1. Attached \subseteq bitmap' /\ r \in bitmap'
    BY <1>1 DEF VinstrInv, Contexts
  <2> QED
    BY <1>1, <1>4, <1>6, <1>7, <2>1 DEF VinstrInv, Contexts, Enabling, Disabling
<1>13. Counters'
  BY <1>1, <1>4, <1>7 DEF VinstrInv, Counters, Enabling, Disabling
<1>14. Device'
  BY <1>1, <1>4 DEF VinstrInv, Device
<1>15. Fresh'
  BY <1>1, <1>4, <1>5, <1>7 DEF VinstrInv, Fresh
<1>16. Rings'
  <2>1. Ahead(0, 0) = 0
    BY DEF Ahead
  <2>2. ASSUME NEW s \in Readers
        PROVE  /\ Ahead(ring'[s].write, ring'[s].read) <= BufferCount
               /\ ring'[s].meta # ring'[s].read =>
                    Ahead(ring'[s].meta, ring'[s].read) = 1
                      /\ ring'[s].write # ring'[s].read
    BY <1>8, <2>1, ModulusIs DEF VinstrInv, Rings
  <2> QED
    BY <1>4, <2>2 DEF Rings, Ahead
<1> QED
  BY <1>9, <1>10, <1>11, <1>12, <1>13, <1>14, <1>15, <1>16 DEF VinstrInv

\* The context is created; the counters are enabled when vinstr is idle.
LEMMA CreateKctxInv == ASSUME VinstrInv, CreateKctx PROVE VinstrInv'
<1>1. /\ UNCHANGED <<v, bitmap, reprogram, cl, ring, asleep, users, others,
           changes, pmRefs,
                     b, programmed, hw, fault, faults>>
      /\ holder.pc = "create" /\ kctx' = TRUE /\ present' = TRUE
  BY DEF CreateKctx, At, Outside, hwVars
<1>2. /\ Changing /\ holder.op = "attach" /\ holder.cli \in Readers /\ ~kctx
      /\ Attached = {} /\ v.state # "DUMPING" /\ holder.cli \in bitmap
  BY <1>1, ChangingIs
<1>3. /\ holder' \in HRec /\ holder'.op = "attach" /\ holder'.cli = holder.cli
      /\ holder'.err = FALSE
      /\ \/ v.state = "IDLE" /\ holder'.pc = "enable" /\ holder'.ret = "created"
         \/ v.state # "IDLE" /\ holder'.pc = "created"
  <2>1. CASE v.state = "IDLE"
    <3>1. Call("enable", "created")
      BY <2>1 DEF CreateKctx
    <3> QED
      BY <1>2, <2>1, <3>1, Basics, CallMoves DEF Pcs
  <2>2. CASE v.state # "IDLE"
    <3>1. Call("created", "none")
      BY <2>2 DEF CreateKctx
    <3> QED
      BY <1>2, <2>2, <3>1, Basics, CallMoves DEF Pcs
  <2> QED
    BY <2>1, <2>2
<1>4. /\ Attached' = Attached /\ ~On /\ ~On' /\ Changing' /\ ~Dying'
  BY <1>1, <1>2, <1>3 DEF Attached, On, Changing, Dying, Disabling, VinstrInv,
     Counters
<1>5. Shape'
  BY <1>1, <1>3 DEF VinstrInv, Shape, UsersTyped
<1>6. Place'
  BY <1>2, <1>3 DEF Place, Enabling
<1>7. Phases' /\ Shares' /\ Device' /\ Rings'
  BY <1>1, <1>2, <1>3, ChangeKeeps DEF Outside, hwVars
<1>8. Contexts'
  BY <1>1, <1>2, <1>3, <1>4 DEF VinstrInv, Contexts, Enabling, Disabling
<1>9. Counters'
  BY <1>1, <1>2, <1>3, <1>4 DEF VinstrInv, Counters, Enabling, Disabling
<1>10. Fresh'
  BY <1>3, <1>4 DEF Fresh
<1> QED
  BY <1>5, <1>6, <1>7, <1>8, <1>9, <1>10 DEF VinstrInv

\* The context stays if the counters could be enabled or were not to be.
LEMMA CreatedKctxInv == ASSUME VinstrInv, CreatedKctx PROVE VinstrInv'
<1>1. /\ UNCHANGED <<v, bitmap, ring, asleep, users, others, changes, pmRefs,
                     b, programmed, hw, fault, faults>>
      /\ holder.pc = "created" /\ reprogram' \in BOOLEAN
  BY DEF CreatedKctx, At, Outside, hwVars, VinstrInv, Shape
<1>2. /\ Changing /\ holder.op = "attach" /\ holder.cli \in Readers /\ kctx
           /\ ~Dying
      /\ Attached = {} /\ v.state # "DUMPING" /\ holder.cli \in bitmap
  BY <1>1, ChangingIs
<1>3. holder.cli \in Clients
  BY <1>2 DEF Clients
<1>4. CASE holder.err
  <2>1. kctx' = FALSE /\ present' = FALSE /\ cl' = cl
    BY <1>4 DEF CreatedKctx
  <2>2. holder' \in HRec /\ holder'.pc = "none" /\ holder'.op = "none"
    BY <1>4, ReleaseMoves DEF CreatedKctx
  <2>3. /\ Attached' = Attached /\ ~On /\ ~On' /\ ~Changing' /\ ~Dying'
    BY <1>1, <1>4, <2>1, <2>2 DEF Attached, On, Changing, Dying, VinstrInv,
       Counters
  <2>4. Shape'
    BY <1>1, <2>1, <2>2 DEF VinstrInv, Shape, UsersTyped
  <2>5. Place' /\ Fresh'
    BY <2>2, <2>3 DEF Place, Fresh
  <2>6. Phases' /\ Shares' /\ Device' /\ Rings'
    BY <1>1, <1>2, <2>2, ChangeKeeps DEF Outside, hwVars
  <2>7. Contexts'
    BY <1>1, <1>2, <2>1, <2>2, <2>3 DEF VinstrInv, Contexts, Enabling, Disabling
  <2>8. Counters'
    BY <1>1, <1>2, <2>1, <2>2, <2>3 DEF VinstrInv, Counters, Enabling, Disabling
  <2> QED
    BY <2>4, <2>5, <2>6, <2>7, <2>8 DEF VinstrInv
<1>5. CASE ~holder.err
  <2>1. UNCHANGED <<kctx, present>>
          /\ cl' = [cl EXCEPT ![holder.cli].pending = FALSE]
    BY <1>5 DEF CreatedKctx
  <2>2. /\ holder' \in HRec /\ holder'.pc = "join" /\ holder'.op = "attach"
        /\ holder'.cli = holder.cli
    BY <1>2, <1>5, Basics, GotoMoves DEF CreatedKctx, Pcs
  <2>3. /\ cl' \in [Clients -> ClRec]
        /\ \A c \in Clients : cl'[c].list = cl[c].list
        /\ \A c \in Clients \ {holder.cli} : cl'[c] = cl[c]
    BY <1>3, <2>1, Basics DEF ClRec
  <2>4. /\ Attached' = Attached /\ On' = On /\ Changing' /\ ~Dying'
    BY <1>1, <2>2, <2>3 DEF Attached, On, Changing, Dying, Disabling
  <2>5. Shape'
    BY <1>1, <2>1, <2>2, <2>3 DEF VinstrInv, Shape, UsersTyped
  <2>6. Place'
    BY <1>2, <2>2 DEF Place
  <2>7. Phases' /\ Shares' /\ Device' /\ Rings'
    BY <1>1, <1>2, <2>2, ChangeKeeps DEF Outside, hwVars
  <2>8. Contexts'
    BY <1>1, <1>2, <2>1, <2>2, <2>4 DEF VinstrInv, Contexts, Enabling, Disabling
  <2>9. Counters'
    BY <1>1, <1>2, <1>5, <2>1, <2>2, <2>4 DEF VinstrInv, Counters, Enabling,
       Disabling
  <2>10. Fresh'
    BY <1>1, <1>2, <2>2, <2>3, <2>4 DEF VinstrInv, Fresh, Attached
  <2> QED
    BY <2>5, <2>6, <2>7, <2>8, <2>9, <2>10 DEF VinstrInv
<1> QED
  BY <1>4, <1>5

\* A reader that could not be given its memory leaves, and the context with it.
LEMMA AttachFailsInv == ASSUME VinstrInv, AttachFails PROVE VinstrInv'
<1>1. /\ UNCHANGED <<v, kctx, present, bitmap, reprogram, cl, ring, asleep,
           users, others,
                     changes, pmRefs, b, programmed, hw, fault, faults>>
      /\ holder.pc = "join"
      /\ IF Attached = {} THEN Call("destroy", "none") ELSE Release
  BY DEF AttachFails, At, ctxVars, Outside, hwVars
<1>2. /\ Changing /\ holder.op = "attach" /\ holder.cli \in Readers /\ kctx
           /\ ~Dying
      /\ v.state # "DUMPING"
  BY <1>1, ChangingIs
<1>3. /\ holder' \in HRec
      /\ \/ Attached # {} /\ holder'.pc = "none" /\ holder'.op = "none"
         \/ /\ Attached = {} /\ holder'.pc = "destroy" /\ holder'.op = "attach"
            /\ holder'.cli = holder.cli
  <2>1. CASE Attached = {}
    <3>1. Call("destroy", "none")
      BY <1>1, <2>1
    <3> QED
      BY <1>2, <2>1, <3>1, Basics, CallMoves DEF Pcs
  <2>2. CASE Attached # {}
    BY <1>1, <2>2, ReleaseMoves
  <2> QED
    BY <2>1, <2>2
<1>4. Attached' = Attached /\ On' = On /\ ~Dying'
  BY <1>1, <1>3 DEF Attached, On, Dying, Disabling, Changing
<1>5. Shape'
  BY <1>1, <1>3 DEF VinstrInv, Shape, UsersTyped
<1>6. Place'
  BY <1>2, <1>3 DEF Place
<1>7. Phases' /\ Shares' /\ Device' /\ Rings'
  BY <1>1, <1>2, <1>3, ChangeKeeps DEF Outside, hwVars
<1>8. Contexts'
  BY <1>1, <1>2, <1>3, <1>4 DEF VinstrInv, Contexts, Enabling, Disabling,
     Changing
<1>9. Counters'
  BY <1>1, <1>2, <1>3, <1>4 DEF VinstrInv, Counters, Enabling, Disabling
<1>10. Fresh'
  BY <1>1, <1>3, <1>4 DEF VinstrInv, Fresh
<1> QED
  BY <1>5, <1>6, <1>7, <1>8, <1>9, <1>10 DEF VinstrInv

\* The reader joins the clients: its counters are in the bitmap, and pending.
LEMMA JoinInv == ASSUME VinstrInv, Join PROVE VinstrInv'
<1>1. /\ UNCHANGED <<kctx, present, bitmap, reprogram, ring, asleep, users,
           others,
                     changes, pmRefs, b, programmed, hw, fault, faults>>
      /\ holder.pc = "join" /\ Release
      /\ cl' = [cl EXCEPT ![holder.cli].list = "idle",
           ![holder.cli].waits = TRUE]
      /\ v' = UpdateSuspend(v, Cardinality(Active(cl')))
  BY DEF Join, At, ctxVars, Outside, hwVars
<1>2. /\ Changing /\ holder.op = "attach" /\ holder.cli \in Readers /\ kctx
           /\ ~Dying
      /\ v.state # "DUMPING" /\ holder.cli \in bitmap
  BY <1>1, ChangingIs
<1>3. holder' \in HRec /\ holder'.pc = "none" /\ holder'.op = "none"
  BY <1>1, ReleaseMoves
<1>4. Nudged /\ v'.cnt = v.cnt
  BY <1>1, Basics, UpdateSuspendNudges
<1>5. /\ cl' \in [Clients -> ClRec] /\ holder.cli \in Clients
      /\ cl'[holder.cli].list = "idle" /\ (cl'[holder.cli].pending
           <=> cl[holder.cli].pending)
      /\ \A c \in Clients \ {holder.cli} : cl'[c] = cl[c]
  <2>1. holder.cli \in Clients
    BY <1>2 DEF Clients
  <2> QED
    BY <1>1, <2>1, Basics DEF ClRec, Lists
<1>6. Attached' = Attached \cup {holder.cli}
  BY <1>5 DEF Attached
<1>7. On' = On /\ ~Changing' /\ ~Dying' /\ present
  BY <1>1, <1>2, <1>3 DEF On, Changing, Dying, VinstrInv, Contexts
<1>8. Shape'
  BY <1>1, <1>3, <1>4, <1>5 DEF VinstrInv, Shape, UsersTyped, Nudged
<1>9. Place'
  BY <1>3 DEF Place
<1>10. Phases'
  BY <1>2, <1>3, <1>4 DEF VinstrInv, Shape, VRec, Phases, Nudged, Dumping
<1>11. Shares'
  BY <1>1, <1>4, SharesKept DEF VinstrInv
<1>12. Contexts'
  BY <1>1, <1>2, <1>3, <1>6, <1>7 DEF VinstrInv, Contexts, Enabling, Disabling
<1>13. Counters'
  BY <1>1, <1>2, <1>3, <1>4, <1>7, NudgeFrom DEF VinstrInv, Counters, Enabling,
     Disabling
<1>14. Device'
  BY <1>1, <1>3 DEF VinstrInv, Device
<1>15. Fresh'
  BY <1>1, <1>3, <1>5, <1>7 DEF VinstrInv, Fresh
<1>16. Rings'
  BY <1>1, <1>3, RingsKept DEF VinstrInv
<1> QED
  BY <1>8, <1>9, <1>10, <1>11, <1>12, <1>13, <1>14, <1>15, <1>16 DEF VinstrInv

\* A reader leaves; the last one goes on to take down the context.
LEMMA DetachInv == ASSUME VinstrInv, NEW r \in Readers,
  Detach(r) PROVE VinstrInv'
<1>1. /\ UNCHANGED <<kctx, present, ring, asleep, users, others, pmRefs, b,
           programmed, hw,
                     fault, faults>>
      /\ cl[r].list # "none" /\ reprogram' = TRUE
      /\ bitmap' = {c \in Clients : cl'[c].list # "none"}
      /\ cl' = [cl EXCEPT ![r] = NewClient]
      /\ v' = UpdateSuspend(v, Cardinality(Active(cl')))
  BY DEF Detach, hwVars
<1>2. changes' \in 0 .. MaxChanges
  BY Basics, BoundsAssumption DEF Detach
<1>3. r \in Clients /\ r \in Attached
  BY <1>1 DEF Clients, Attached
<1>4. /\ holder.pc = "none" /\ holder.op = "none" /\ holder' \in HRec
      /\ \/ /\ Attached = {r} /\ holder'.op = "detach" /\ holder'.cli = r
            /\ holder'.pc = "destroy"
         \/ Attached # {r} /\ holder'.pc = "none" /\ holder'.op = "none"
  <2>1. CASE Attached = {r}
    <3>1. Take(r, "detach", r, "destroy")
      BY <2>1 DEF Detach
    <3> QED
      BY <1>3, <2>1, <3>1, TakeMoves DEF Ops, Pcs
  <2>2. CASE Attached # {r}
    <3>1. holder = Nobody /\ holder' = holder
      BY <2>2 DEF Detach
    <3> QED
      BY <2>2, <3>1, Basics DEF Nobody
  <2> QED
    BY <2>1, <2>2
<1>5. /\ cl' \in [Clients -> ClRec] /\ cl'[r].list = "none" /\ cl'[r].pending
      /\ \A c \in Clients \ {r} : cl'[c] = cl[c]
  <2>1. NewClient \in ClRec
    BY DEF NewClient, ClRec, Lists
  <2> QED
    BY <1>1, <1>3, <2>1, Basics DEF NewClient
<1>6. Attached' = Attached \ {r} /\ bitmap' = Attached'
  BY <1>1, <1>5 DEF Attached
<1>7. Nudged /\ v'.cnt = v.cnt
  BY <1>1, Basics, UpdateSuspendNudges
<1>8. On' = On /\ ~Changing /\ ~Dying /\ ~Dying' /\ kctx /\ present
  BY <1>1, <1>3, <1>4 DEF On, Changing, Dying, Disabling, VinstrInv, Contexts
<1>9. Shape'
  <2>1. bitmap' \subseteq Clients
    BY <1>1
  <2> QED
    BY <1>1, <1>2, <1>4, <1>5, <1>7, <2>1 DEF VinstrInv, Shape, UsersTyped,
       Nudged
<1>10. Place'
  BY <1>4 DEF Place
<1>11. Phases'
  BY <1>4, <1>7 DEF VinstrInv, Shape, VRec, Phases, Nudged, Dumping
<1>12. Shares'
  BY <1>1, <1>7, SharesKept DEF VinstrInv
<1>13. Contexts'
  BY <1>1, <1>3, <1>4, <1>6, <1>8 DEF Contexts, Enabling, Disabling, Changing
<1>14. Counters'
  BY <1>1, <1>4, <1>7, <1>8, NudgeFrom DEF VinstrInv, Counters, Enabling,
     Disabling
<1>15. Device'
  BY <1>1, <1>4 DEF VinstrInv, Device
<1>16. Fresh'
  BY <1>1, <1>4, <1>5, <1>8 DEF VinstrInv, Fresh
<1>17. Rings'
  BY <1>1, <1>4, RingsKept DEF VinstrInv
<1> QED
  BY <1>9, <1>10, <1>11, <1>12, <1>13, <1>14, <1>15, <1>16, <1>17 DEF VinstrInv

\* The counters of the last client are off already, or are disabled.
LEMMA DestroyKctxInv == ASSUME VinstrInv, DestroyKctx PROVE VinstrInv'
<1>1. /\ UNCHANGED <<v, kctx, bitmap, reprogram, cl, ring, asleep, users,
           others, changes,
                     pmRefs, b, programmed, hw, fault, faults>>
      /\ holder.pc = "destroy" /\ present' = FALSE
      /\ IF v.state \in {"SUSPENDED", "RESUMING"} THEN Call("destroyed", "none")
                                                  ELSE Call("disable",
                                                    "destroyed")
  BY DEF DestroyKctx, At, Outside, hwVars
<1>2. /\ Changing /\ holder.op \in {"attach", "detach"}
           /\ holder.cli \in Readers /\ kctx
      /\ ~Dying /\ Attached = {} /\ v.state # "DUMPING"
  BY <1>1, ChangingIs
<1>3. v.state \in {"SUSPENDED", "RESUMING"} => ~On
  BY <1>2 DEF VinstrInv, Counters
<1>4. /\ holder' \in HRec /\ holder'.op = holder.op /\ holder'.cli = holder.cli
      /\ \/ v.state \in {"SUSPENDED", "RESUMING"} /\ holder'.pc = "destroyed"
         \/ holder'.pc = "disable" /\ holder'.ret = "destroyed"
  <2>1. CASE v.state \in {"SUSPENDED", "RESUMING"}
    <3>1. Call("destroyed", "none")
      BY <1>1, <2>1
    <3> QED
      BY <2>1, <3>1, Basics, CallMoves DEF Pcs
  <2>2. CASE v.state \notin {"SUSPENDED", "RESUMING"}
    <3>1. Call("disable", "destroyed")
      BY <1>1, <2>2
    <3> QED
      BY <3>1, Basics, CallMoves DEF Pcs
  <2> QED
    BY <2>1, <2>2
<1>5. Attached' = Attached /\ On' = On /\ Changing' /\ Dying'
  BY <1>1, <1>2, <1>4 DEF Attached, On, Dying, Disabling, Changing
<1>6. Shape'
  BY <1>1, <1>4 DEF VinstrInv, Shape, UsersTyped
<1>7. Place'
  BY <1>2, <1>4 DEF Place, Disabling
<1>8. Phases' /\ Shares' /\ Device' /\ Rings'
  BY <1>1, <1>2, <1>4, ChangeKeeps DEF Outside, hwVars
<1>9. Contexts'
  BY <1>1, <1>2, <1>4, <1>5 DEF VinstrInv, Contexts, Enabling, Disabling
<1>10. Counters'
  BY <1>1, <1>2, <1>3, <1>4, <1>5 DEF VinstrInv, Counters, Enabling, Disabling
<1>11. Fresh'
  BY <1>1, <1>4, <1>5 DEF VinstrInv, Fresh
<1> QED
  BY <1>6, <1>7, <1>8, <1>9, <1>10, <1>11 DEF VinstrInv

\* The context goes; no counter was on for it.
LEMMA DestroyedKctxInv == ASSUME VinstrInv, DestroyedKctx PROVE VinstrInv'
<1>1. /\ UNCHANGED <<v, present, bitmap, reprogram, cl, ring, asleep, users,
           others, changes,
                     pmRefs, b, programmed, hw, fault, faults>>
      /\ holder.pc = "destroyed" /\ kctx' = FALSE /\ Release
  BY DEF DestroyedKctx, At, Outside, hwVars
<1>2. /\ holder.op \in {"attach", "detach"} /\ Dying /\ Attached = {}
           /\ v.state # "DUMPING"
  BY <1>1, ChangingIs
<1>3. ~On /\ ~present
  BY <1>1, <1>2 DEF VinstrInv, Counters, Contexts
<1>4. holder' \in HRec /\ holder'.pc = "none" /\ holder'.op = "none"
  BY <1>1, ReleaseMoves
<1>5. Attached' = Attached /\ ~On' /\ ~Changing' /\ ~Dying'
  BY <1>1, <1>3, <1>4 DEF Attached, On, Dying, Changing
<1>6. Shape'
  BY <1>1, <1>4 DEF VinstrInv, Shape, UsersTyped
<1>7. Place' /\ Fresh'
  BY <1>4, <1>5 DEF Place, Fresh
<1>8. Phases' /\ Shares' /\ Device' /\ Rings'
  BY <1>1, <1>4, ChangeKeeps DEF Outside, hwVars
<1>9. Contexts'
  BY <1>1, <1>2, <1>3, <1>4, <1>5 DEF VinstrInv, Contexts, Enabling, Disabling
<1>10. Counters'
  BY <1>1, <1>2, <1>3, <1>4, <1>5 DEF VinstrInv, Counters, Enabling, Disabling
<1> QED
  BY <1>6, <1>7, <1>8, <1>9, <1>10 DEF VinstrInv

-----------------------------------------------------------------------------
(* The invariant *)

\* Nobody holds the lock or the suspension; the IPA model's client is suspended.
LEMMA InitInv == Init => VinstrInv
<1> SUFFICES ASSUME Init PROVE VinstrInv
  OBVIOUS
<1>1. /\ kctx \in BOOLEAN /\ (kctx => UseIpa) /\ present = kctx
      /\ v = [state |-> IF kctx THEN "SUSPENDED" ELSE "IDLE", cnt |-> 0,
              needSuspend |-> FALSE, needResume |-> FALSE, works |-> {}]
      /\ bitmap = IF kctx THEN {"ipa"} ELSE {}
      /\ holder = Nobody /\ asleep = {} /\ others = 0 /\ pmRefs = 0
           /\ changes = 0
      /\ programmed = {} /\ fault = FALSE /\ faults = 0 /\ reprogram = FALSE
  <2>1. kctx \in BOOLEAN /\ (kctx => UseIpa)
    <3>1. kctx \in {FALSE, UseIpa}
      BY DEF Init
    <3>2. UseIpa \in BOOLEAN
      BY ClientsAssumption
    <3>3. CASE kctx = FALSE
      BY <3>3
    <3>4. CASE kctx = UseIpa
      BY <3>2, <3>4
    <3> QED
      BY <3>1, <3>3, <3>4
  <2> QED
    BY <2>1 DEF Init
<1>2. v \in VRec /\ v.cnt = 0 /\ v.works = {} /\ v.state \in {"SUSPENDED",
        "IDLE"}
      /\ (v.state = "IDLE" <=> ~kctx)
  BY <1>1 DEF VRec, States
<1>3. holder \in HRec /\ holder.pc = "none" /\ holder.op = "none"
  BY <1>1 DEF Nobody, HRec, Pcs, Ops
<1>4. /\ cl \in [Clients -> ClRec]
      /\ \A c \in Clients : cl[c].list # "none" <=> c = "ipa" /\ kctx
  <2>1. cl = [c \in Clients |-> IF c = "ipa" /\ kctx
               THEN [NewClient EXCEPT !.list = "suspended",
                 !.pending = FALSE] ELSE NewClient]
    BY DEF Init
  <2> QED
    BY <2>1 DEF NewClient, ClRec, Lists
<1>5. Attached = IF kctx THEN {"ipa"} ELSE {}
  BY <1>1, <1>4, IpaClient DEF Attached
<1>6. /\ users \in [{"reset", "pm", "protected"} -> ResetAt \cup ProtectedAt]
      /\ \A u \in {"reset", "pm", "protected"} : users[u] = "off"
  BY DEF Init, ResetAt
<1>7. /\ ring \in [Readers -> RingRec]
      /\ \A r \in Readers : ring[r] = [write |-> 0, read |-> 0, meta |-> 0]
  BY ModulusIs DEF Init, RingRec, Index
<1>8. b \in BRec /\ b.state = "DISABLED"
  BY DEF Init, BRec
<1>9. hw \in HwRec /\ ~hw.sampling /\ ~hw.cleanQueued /\ ~hw.cleaning
  BY DEF Init, HwRec
<1>10. ~On /\ ~Changing /\ ~Dying
  BY <1>1, <1>3 DEF On, Changing, Dying
<1>11. Shape
  <2>1. UsersTyped
    BY <1>6 DEF UsersTyped, ResetAt, PmAt, ProtectedAt
  <2>2. bitmap \subseteq Clients
    BY <1>1, IpaClient
  <2>3. changes \in 0 .. MaxChanges /\ faults \in 0 .. MaxFaults
          /\ others \in 0 .. 1
    BY <1>1, BoundsAssumption
  <2>4. present \in BOOLEAN /\ reprogram \in BOOLEAN /\ fault \in BOOLEAN
          /\ kctx \in BOOLEAN
    BY <1>1
  <2>5. asleep \subseteq Sleepers /\ programmed \subseteq Clients
    BY <1>1
  <2> QED
    BY <1>2, <1>3, <1>4, <1>7, <1>8, <1>9, <2>1, <2>2, <2>3, <2>4, <2>5
       DEF Shape
<1>12. Place /\ Phases
  BY <1>2, <1>3 DEF Place, Phases, Dumping
<1>13. Shares
  BY <1>2, <1>6 DEF Shares, Leaked, Share, Hung
<1>14. Contexts
  BY <1>1, <1>3, <1>5, <1>10 DEF Contexts, Enabling, Disabling
<1>15. Counters
  BY <1>1, <1>2, <1>3, <1>8, <1>10 DEF Counters, Enabling, Disabling
<1>16. Device /\ Fresh
  BY <1>3, <1>8, <1>9, <1>10 DEF Device, Fresh
<1>17. Rings
  <2>1. Ahead(0, 0) = 0
    BY DEF Ahead
  <2> QED
    BY <1>3, <1>7, <2>1, ModulusIs DEF Rings
<1> QED
  BY <1>11, <1>12, <1>13, <1>14, <1>15, <1>16, <1>17 DEF VinstrInv

\* The steps of whoever holds the lock.
LEMMA HolderInv == ASSUME VinstrInv, HolderStep PROVE VinstrInv'
<1>1. CASE EnableRefs
  BY <1>1, EnableRefsInv
<1>2. CASE EnableSetup
  BY <1>2, EnableSetupInv
<1>3. CASE EnableFails
  BY <1>3, EnableFailsInv
<1>4. CASE EnableConfigure
  BY <1>4, EnableConfigureInv
<1>5. CASE DisableCounters
  BY <1>5, DisableCountersInv
<1>6. CASE DisableRefs
  BY <1>6, DisableRefsInv
<1>7. CASE CreateKctx
  BY <1>7, CreateKctxInv
<1>8. CASE CreatedKctx
  BY <1>8, CreatedKctxInv
<1>9. CASE Join
  BY <1>9, JoinInv
<1>10. CASE DestroyKctx
  BY <1>10, DestroyKctxInv
<1>11. CASE DestroyedKctx
  BY <1>11, DestroyedKctxInv
<1>12. CASE Collect
  BY <1>12, CollectInv, ServeInv
<1>13. CASE RequestDump
  BY <1>13, RequestDumpInv
<1>14. CASE WaitForDump
  BY <1>14, WaitForDumpInv
<1>15. CASE Dumped
  BY <1>15, DumpedInv
<1>16. CASE Collected \/ ServedAll \/ Served \/ Fill
  <2>1. CASE Collected
    BY <2>1, ServeInv
  <2>2. CASE ServedAll
    BY <2>2, ServeInv
  <2>3. CASE Served
    BY <2>3, ServeInv
  <2>4. CASE Fill
    BY <2>4, ServeInv
  <2> QED
    BY <1>16, <2>1, <2>2, <2>3, <2>4
<1>22. CASE \E c \in Clients : Serve(c)
  BY <1>22, ServeInv
<1>17. CASE Notify
  BY <1>17, NotifyInv
<1>18. CASE Reprogram
  BY <1>18, ReprogramInv, ServeInv
<1>19. CASE Reenable
  BY <1>19, ReprogramInv
<1>20. CASE Reprogrammed
  BY <1>20, ReprogrammedInv
<1>21. CASE Suspended \/ Resumed
  BY <1>21, WorkerEndsInv
<1> QED
  BY <1>1, <1>2, <1>3, <1>4, <1>5, <1>6, <1>7, <1>8, <1>9, <1>10, <1>11, <1>12,
     <1>13,
     <1>14, <1>15, <1>16, <1>17, <1>18, <1>19, <1>20, <1>21,
       <1>22 DEF HolderStep

\* A step that changes nothing.
LEMMA StutterInv == ASSUME VinstrInv, UNCHANGED vars PROVE VinstrInv'
<1>1. UNCHANGED <<v, ctxVars, cl, ring, holder, asleep, users, others, pmRefs,
        hwVars, changes>>
  BY DEF vars
<1> QED
  BY <1>1, Basics, SameNudges, SameClients, SharesKept, NudgeInv DEF UsersTyped

\* Every step keeps the invariant.
LEMMA NextInv == VinstrInv /\ [Next]_vars => VinstrInv'
<1> SUFFICES ASSUME VinstrInv, [Next]_vars PROVE VinstrInv'
  OBVIOUS
<1>1. CASE HolderStep
  BY <1>1, HolderInv
<1>2. CASE Calls
  <2>1. CASE \E r \in Readers : Attach(r)
    BY <2>1, AttachInv
  <2>2. CASE \E r \in Readers : Detach(r)
    BY <2>2, DetachInv
  <2>3. CASE \E r \in Readers : GetBuffer(r) \/ PutBuffer(r)
    BY <2>3, BufferInv
  <2>4. CASE \E r \in Readers, on \in BOOLEAN : SetInterval(r, on)
    BY <2>4, ReaderInv
  <2>5. CASE \E c \in Clients, op \in {"dump", "clear"} : DumpCall(c, op)
    BY <2>5, StartDumpInv
  <2>6. CASE AttachFails
    BY <2>6, AttachFailsInv
  <2> QED
    BY <1>2, <2>1, <2>2, <2>3, <2>4, <2>5, <2>6 DEF Calls
<1>3. CASE Users
  <2>1. CASE OtherContext
    BY <2>1, OtherContextInv
  <2>2. CASE ProtectedAtom \/ ExitProtected \/ GpuHangs \/ SystemSuspend
    BY <2>2, UserMovesInv
  <2>3. CASE SlotUpdate
    BY <2>3, SuspendTryInv
  <2>4. CASE EnterProtected \/ ProtectedRemoved \/ SystemResume
    BY <2>4, ResumeInv
  <2> QED
    BY <1>3, <2>1, <2>2, <2>3, <2>4 DEF Users
<1>4. CASE Reset
  <2>1. CASE ResetBegins
    BY <2>1, ResetBeginsInv
  <2>2. CASE ResetJobs
    BY <2>2, ResetJobsInv
  <2>3. CASE ResetIdles
    BY <2>3, ResetIdlesInv
  <2>4. CASE ResetEnds
    BY <2>4, ResumeInv
  <2> QED
    BY <1>4, <2>1, <2>2, <2>3, <2>4 DEF Reset
<1>5. CASE Hardware \/ FaultSeen \/ FaultSet
  BY <1>5, InterruptInv, FaultInv
<1>6. CASE ServiceWakes
  BY <1>6, StartDumpInv
<1>7. CASE \E r \in Readers : Due(r) \/ WaitForReady(r)
  BY <1>7, ReaderInv
<1>8. CASE \E w \in {"suspend", "resume"} : WorkerStarts(w)
  BY <1>8, WorkerStartsInv
<1>9. CASE \E u \in {"reset", "pm"} : SuspendTry(u)
  BY <1>9, SuspendTryInv
<1>10. CASE UNCHANGED vars
  BY <1>10, StutterInv
<1> QED
  BY <1>1, <1>2, <1>3, <1>4, <1>5, <1>6, <1>7, <1>8, <1>9, <1>10 DEF Next

\* Wherever the holder of the lock is, the state, the kernel context, the
\* counters and the references are the ones that step expects, the count covers
\* the users of the suspend protocol, and the rings have room.
\* (mali_kbase_vinstr.c, mali_kbase_instr_backend.c)
THEOREM VinstrInvariant == Spec => []VinstrInv
BY InitInv, NextInv, PTL DEF Spec

-----------------------------------------------------------------------------
(* What follows from it *)

\* Each holder has one share.
LEMMA HoldersAreShares ==
  Cardinality(Holders) = Share("reset") + Share("pm") + Share("protected")
<1> DEFINE One(u) == IF Share(u) = 1 THEN {u} ELSE {}
           Two == One("reset") \cup One("pm")
<1>1. \A u \in {"reset", "pm", "protected"} : u \in Holders <=> Share(u) = 1
  BY DEF Holders, Share
<1>2. Holders = Two \cup One("protected")
  BY <1>1 DEF Holders
<1>3. IsFiniteSet(One("reset")) /\ Cardinality(One("reset")) = Share("reset")
  BY FS_EmptySet, FS_Singleton, ShareTyped
<1>4. IsFiniteSet(Two) /\ Cardinality(Two) = Share("reset") + Share("pm")
  <2>1. CASE Share("pm") = 1
    <3>1. Two = One("reset") \cup {"pm"} /\ "pm" \notin One("reset")
      BY <2>1
    <3>2. IsFiniteSet(Two) /\ Cardinality(Two) = Cardinality(One("reset")) + 1
      BY <1>3, <3>1, FS_AddElement
    <3> QED
      BY <1>3, <2>1, <3>2
  <2>2. CASE Share("pm") = 0
    <3>1. Two = One("reset")
      BY <2>2
    <3> QED
      BY <1>3, <2>2, <3>1, ShareTyped
  <2> QED
    BY <2>1, <2>2, ShareTyped
<1>5. CASE Share("protected") = 1
  <2>1. Holders = Two \cup {"protected"} /\ "protected" \notin Two
    BY <1>2, <1>5
  <2>2. Cardinality(Holders) = Cardinality(Two) + 1
    BY <1>4, <2>1, FS_AddElement
  <2> QED
    BY <1>4, <1>5, <2>2
<1>6. CASE Share("protected") = 0
  <2>1. Holders = Two
    BY <1>2, <1>6
  <2> QED
    BY <1>4, <1>6, <2>1, ShareTyped
<1> QED
  BY <1>5, <1>6, ShareTyped

\* Two numbers less than n apart, and not equal, differ modulo n.
LEMMA NearbyDiffer ==
  ASSUME NEW n \in Nat \ {0}, NEW x \in Nat, NEW y \in Nat, x < y, y < x + n
  PROVE  x % n # y % n
<1> SUFFICES ASSUME x % n = y % n PROVE FALSE
  OBVIOUS
<1> DEFINE p == x \div n
           q == y \div n
<1>1. /\ p \in Nat /\ q \in Nat /\ x % n \in 0 .. n - 1
      /\ x = (n * p) + (x % n) /\ y = (n * q) + (y % n)
  OBVIOUS
<1> HIDE DEF p, q
<1>2. PICK s \in Nat, t \in Nat : s = n * p /\ t = n * q
  BY <1>1
<1>3. s < t /\ t < s + n
  BY <1>1, <1>2
<1>4. CASE p >= q
  <2>1. s >= t
    BY <1>1, <1>2, <1>4
  <2> QED
    BY <1>3, <2>1
<1>5. CASE q >= p + 1
  <2>1. PICK k \in Nat : q = p + 1 + k
    BY <1>1, <1>5
  <2>2. t = s + n + (n * k)
    BY <1>1, <1>2, <2>1
  <2>3. n * k >= 0
    OBVIOUS
  <2> QED
    BY <1>3, <2>2, <2>3
<1> QED
  BY <1>1, <1>4, <1>5

\* A multiple of n does not change the remainder.
LEMMA MultipleAway ==
  ASSUME NEW n \in Nat \ {0}, NEW x \in Nat, NEW k \in Nat
  PROVE  (x + k * n) % n = x % n
<1> DEFINE p == x \div n
           y == x + k * n
           q == y \div n
<1>1. k * n \in Nat
  OBVIOUS
<1>2. /\ p \in Nat /\ x % n \in 0 .. n - 1 /\ x = (n * p) + (x % n)
  OBVIOUS
<1>3. y \in Nat
  BY <1>1
<1>4. /\ q \in Nat /\ y % n \in 0 .. n - 1 /\ y = (n * q) + (y % n)
  BY <1>3
<1>5. y = x + k * n
  OBVIOUS
<1> HIDE DEF p, q, y
<1>6. y = n * (p + k) + (x % n)
  BY <1>2, <1>5
<1>7. PICK d \in Int : d = q - (p + k)
  BY <1>2, <1>4
<1>8. n * d = (x % n) - (y % n)
  <2>1. n * d = (n * q) - (n * (p + k))
    BY <1>2, <1>4, <1>7
  <2>2. PICK s \in Nat, t \in Nat : s = n * q /\ t = n * (p + k)
    BY <1>2, <1>4
  <2> QED
    BY <1>2, <1>4, <1>5, <1>6, <2>1, <2>2
<1>9. d = 0
  <2>1. CASE d >= 1
    <3>1. n * d >= n
      BY <2>1, <1>7
    <3> QED
      BY <1>2, <1>4, <1>8, <3>1
  <2>2. CASE d <= -1
    <3>1. n * d <= -n
      BY <2>2, <1>7
    <3> QED
      BY <1>2, <1>4, <1>8, <3>1
  <2> QED
    BY <1>7, <2>1, <2>2
<1> QED
  BY <1>2, <1>4, <1>8, <1>9 DEF y

\* The count is never above its bound, and covers its holders.
LEMMA CountsSound == ASSUME VinstrInv PROVE TypeOK /\ HoldersKeepItSuspended
<1>1. /\ Share("reset") \in 0 .. 1 /\ Share("pm") \in 0 .. 1
      /\ Share("protected") \in 0 .. 1 /\ Hung \in 0 .. 1
  BY DEF Share, Hung
<1>2. v \in VRec /\ v.cnt \in Nat /\ Shares
  BY Basics
<1>3. v.cnt <= MaxCount + 2
  <2>1. MaxCount \in Nat /\ MaxCount >= 1
    BY BoundsAssumption
  <2>2. Leaked = 0 \/ Leaked <= MaxCount - 1
    <3>1. Leaked \in Int
      BY <1>1, <1>2 DEF Leaked
    <3> QED
      BY <1>1, <1>2, <2>1, <3>1 DEF Shares
  <2> QED
    BY <1>1, <1>2, <2>1, <2>2 DEF Leaked
<1>4. v.cnt >= Share("reset") + Share("pm") + Share("protected")
  BY <1>1, <1>2 DEF Shares, Leaked
<1>5. HoldersKeepItSuspended
  <2> SUFFICES ASSUME Holders # {}
               PROVE  v.state = "SUSPENDED" /\ v.cnt >= Cardinality(Holders)
    BY DEF HoldersKeepItSuspended
  <2>1. \E u \in {"reset", "pm", "protected"} : Share(u) = 1
    BY DEF Holders, Share
  <2> QED
    BY <1>4, <2>1, ShareCounts, HoldersAreShares
<1>6. TypeOK
  <2>1. v \in [state : {"IDLE", "DUMPING", "SUSPENDING", "SUSPENDED",
          "RESUMING"},
               cnt : 0 .. MaxCount + 2, needSuspend : BOOLEAN,
                 needResume : BOOLEAN,
               works : SUBSET {"suspend", "resume"}]
    <3>1. v.cnt \in 0 .. MaxCount + 2
      BY <1>2, <1>3, BoundsAssumption
    <3> QED
      BY <1>2, <3>1 DEF VRec, States
  <2>2. pmRefs \in 0 .. 1
    BY DEF VinstrInv, Counters
  <2>3. cl \in [Clients -> [list : {"none", "idle", "waiting", "expired",
          "suspended"},
                            pending : BOOLEAN, due : BOOLEAN, waits : BOOLEAN]]
    BY DEF VinstrInv, Shape, ClRec, Lists
  <2>4. ring \in [Readers -> [write : 0 .. Modulus - 1, read : 0 .. Modulus - 1,
                              meta : 0 .. Modulus - 1]]
    BY DEF VinstrInv, Shape, RingRec, Index
  <2>5. /\ b.state \in {"DISABLED", "IDLE", "DUMPING", "REQUEST_CLEAN",
             "CLEANING",
                        "CLEANED", "FAULT"}
        /\ b.triggered \in BOOLEAN
        /\ hw \in [sampling : BOOLEAN, cleanQueued : BOOLEAN,
             cleaning : BOOLEAN,
                   irq : BOOLEAN]
    BY DEF VinstrInv, Shape, BRec, HwRec
  <2>6. /\ kctx \in BOOLEAN /\ present \in BOOLEAN /\ reprogram \in BOOLEAN
        /\ bitmap \subseteq Clients /\ programmed \subseteq Clients
        /\ asleep \subseteq Sleepers /\ others \in 0 .. 1
             /\ changes \in 0 .. MaxChanges
        /\ fault \in BOOLEAN /\ faults \in 0 .. MaxFaults
    BY DEF VinstrInv, Shape
  <2>7. /\ users["reset"] \in {"off", "want", "held", "resetting", "finishing",
             "releasing"}
        /\ users["pm"] \in {"off", "want", "held"}
        /\ users["protected"] \in {"off", "want", "entering", "entered",
             "leaving"}
    BY DEF VinstrInv, Shape, UsersTyped, ResetAt, PmAt, ProtectedAt
  <2> QED
    BY <2>1, <2>2, <2>3, <2>4, <2>5, <2>6, <2>7 DEF TypeOK
<1> QED
  BY <1>5, <1>6

\* Who holds vinstr suspended finds it SUSPENDED, and the counters are off then
\* for every call but the one that takes down the context.
LEMMA QuietSound == ASSUME VinstrInv PROVE SuspendedIsQuiet
<1> SUFFICES ASSUME Holders # {}, ~BeingDestroyed
             PROVE  /\ programmed = {} /\ pmRefs = 0
                    /\ ~hw.sampling /\ ~hw.cleanQueued /\ ~hw.cleaning
                    /\ holder.pc \notin {"reenable", "enable", "setup",
                         "cleaning",
                                        "request", "sampling"}
                    /\ ~(holder.pc = "disable" /\ holder.ret = "reenable")
  BY DEF SuspendedIsQuiet
<1>1. v.state = "SUSPENDED"
  <2>1. \E u \in {"reset", "pm", "protected"} : Share(u) = 1
    BY DEF Holders, Share
  <2> QED
    BY <2>1, ShareCounts
<1>2. holder.op # "resume" /\ holder.op # "suspend" /\ holder.pc \notin Dumping
  BY <1>1 DEF VinstrInv, Phases
<1>3. /\ holder.pc \notin Enabling \cup {"reenable"}
      /\ ~(holder.pc \in Disabling /\ holder.ret = "reenable")
  BY <1>1, <1>2 DEF VinstrInv, Counters
<1>4. holder.pc \notin Disabling
  <2> SUFFICES ASSUME holder.pc \in Disabling PROVE FALSE
    OBVIOUS
  <2>1. /\ holder.op \in {"attach", "detach", "dump", "clear", "service",
             "suspend"}
        /\ holder.ret # "destroyed"
        /\ Changing <=> holder.ret = "destroyed"
        /\ holder.op \in {"dump", "clear", "service"} => holder.ret = "reenable"
    BY DisablingIs DEF BeingDestroyed, Disabling
  <2> QED
    BY <1>2, <1>3, <2>1 DEF Changing
<1>5. Dying => holder.pc = "destroyed"
  BY <1>4 DEF Dying
<1>6. ~On
  BY <1>1, <1>2, <1>5 DEF VinstrInv, Counters
<1>7. holder.pc \notin {"setup", "cleaning", "unref", "sampling", "request",
        "disable",
                        "enable"}
  BY <1>2, <1>3, <1>4 DEF Enabling, Disabling, Dumping
<1>8. pmRefs = 0
  BY <1>6, <1>7 DEF VinstrInv, Counters
<1>9. ~hw.sampling /\ ~hw.cleanQueued /\ ~hw.cleaning
  BY <1>7 DEF VinstrInv, Device
<1> QED
  BY <1>3, <1>6, <1>7, <1>8, <1>9 DEF On

\* The references and the sample are those of the counters that are on.
LEMMA CountersSound == ASSUME VinstrInv PROVE RefsMatchCounters
  /\ AccumulatedIsProgrammed
<1>1. RefsMatchCounters
  <2> SUFFICES ASSUME holder = Nobody
               PROVE  /\ pmRefs = IF programmed # {} THEN 1 ELSE 0
                      /\ v.state = "IDLE" /\ present /\ b.state # "FAULT"
                           => programmed # {}
                      /\ programmed # {} => kctx
    BY DEF RefsMatchCounters
  <2>1. holder.pc = "none"
    BY DEF Nobody
  <2> QED
    BY <2>1 DEF VinstrInv, Counters, On, Enabling
<1>2. AccumulatedIsProgrammed
  BY DEF VinstrInv, Counters, Fresh, AccumulatedIsProgrammed, At
<1> QED
  BY <1>1, <1>2

\* The indices that are unread and the one being filled are fewer than the
\* buffers apart, and the modulus is a multiple of their number.
LEMMA RingsSound == ASSUME VinstrInv PROVE FilledIsFree
<1> SUFFICES ASSUME holder.pc = "notify", holder.cli \in Readers
             PROVE  LET q == ring[holder.cli]
                        unread == (q.write - q.read) % Modulus
                    IN /\ (q.meta - q.read) % Modulus \in 0 .. 1
                       /\ \A i \in 0 .. unread - 1 :
                             (q.read + i) % BufferCount # q.write % BufferCount
  BY DEF FilledIsFree, At
<1> DEFINE q == ring[holder.cli]
<1>1. q.write \in Index /\ q.read \in Index /\ q.meta \in Index
  BY DEF VinstrInv, Shape, RingRec
<1>2. /\ Ahead(q.write, q.read) < BufferCount
      /\ q.meta # q.read => Ahead(q.meta, q.read) = 1
  BY DEF VinstrInv, Rings
<1> HIDE DEF q
<1>3. (q.meta - q.read) % Modulus \in 0 .. 1
  <2>1. (q.meta - q.read) % Modulus = Ahead(q.meta, q.read)
    BY <1>1, AheadIs
  <2>2. q.meta = q.read => Ahead(q.meta, q.read) = 0
    BY <1>1 DEF Ahead, Index
  <2> QED
    BY <1>2, <2>1, <2>2
<1>4. PICK d \in Nat : d = Ahead(q.write, q.read)
             /\ d = (q.write - q.read) % Modulus
  <2>1. /\ (q.write - q.read) % Modulus = Ahead(q.write, q.read)
        /\ Ahead(q.write, q.read) \in Index
    BY <1>1, AheadIs
  <2>2. Index \subseteq Nat
    BY DEF Index
  <2> QED
    BY <2>1, <2>2
<1>5. PICK k \in Nat : Modulus = k * BufferCount
  BY ModulusIs
<1>6. q.write \in Nat /\ q.read \in Nat /\ BufferCount \in Nat \ {0}
        /\ Modulus \in Nat
  BY <1>1, ModulusIs DEF Index
<1>7. q.write % BufferCount = (q.read + d) % BufferCount
  <2>1. CASE q.write = q.read + d
    BY <2>1
  <2>2. CASE q.read + d = q.write + Modulus
    <3>1. (q.write + k * BufferCount) % BufferCount = q.write % BufferCount
      BY <1>6, MultipleAway
    <3>2. q.read + d = q.write + k * BufferCount
      BY <1>5, <2>2
    <3> QED
      BY <3>1, <3>2
  <2> QED
    BY <1>4, <1>6, <2>1, <2>2 DEF Ahead
<1>8. ASSUME NEW i \in 0 .. d - 1
      PROVE  (q.read + i) % BufferCount # q.write % BufferCount
  <2>1. PICK x \in Nat, y \in Nat : x = q.read + i /\ y = q.read + d
    BY <1>6
  <2>2. x < y /\ y < x + BufferCount
    BY <1>2, <1>4, <1>6, <2>1
  <2>3. x % BufferCount # y % BufferCount
    BY <1>6, <2>2, NearbyDiffer
  <2> QED
    BY <1>7, <2>1, <2>3
<1> QED
  BY <1>3, <1>4, <1>8 DEF q

\* A reset, a system suspend or a protected job that holds vinstr suspended
\* finds the counters off and nothing outstanding, the references match the
\* counters, what is accumulated was programmed, and a buffer handed out is not
\* written.  (kbase_vinstr_suspend, kbasep_vinstr_update_client)
THEOREM VinstrIsSound == Spec => []VinstrSound
<1>1. VinstrInv => VinstrSound
  BY CountsSound, QuietSound, CountersSound, RingsSound DEF VinstrSound
<1> QED
  BY <1>1, VinstrInvariant, PTL
=============================================================================
