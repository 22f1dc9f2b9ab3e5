--------------------------- MODULE RunPoolProofs ---------------------------
(***************************************************************************)
(* Proofs about RunPool, for every set of contexts, every number of        *)
(* address spaces and every bound on atoms and pending releases.           *)
(***************************************************************************)
EXTENDS RunPool, WellFoundedInduction, TLAPS

USE PoolAssumption, BoundsAssumption, InstrAssumption DEF AS, CS!AS, NoAS,
  CS!NoAS

Pcs == {"idle", "use", "retain", "find", "evict", "retry", "assign",
        "forceout", "kick", "fail"}
SchedStates == [pc : Pcs, c : Ctx \cup {NoCtx}, v : Ctx \cup {NoCtx},
                scan : 0 .. NumAS, wasIdle : BOOLEAN]
SuspStates == [pc : {"off", "retain", "next", "release", "revived"},
               mask : SUBSET AS, i : AS, c : Ctx \cup {NoCtx}]

\* TypeOK without the bound on the reference counts, which follows from
\* RefsAccounted.
Shape ==
  /\ asFree \in SUBSET AS
  /\ asToCtx \in [AS -> Ctx \cup {NoCtx}]
  /\ asNr \in [Ctx -> AS \cup {NoAS}]
  /\ refcount \in [Ctx -> Int]
  /\ submit \in SUBSET AS
  /\ scheduled \in SUBSET Ctx /\ privileged \in SUBSET Ctx
  /\ dying \in SUBSET Ctx /\ active \in SUBSET Ctx
  /\ activeKctx \in Ctx \cup {NoCtx}
  /\ atoms \in [Ctx -> 0 .. MaxAtoms]
  /\ owed \in [Ctx -> 0 .. MaxOwed]
  /\ suspending \in BOOLEAN
  /\ sched \in SchedStates
  /\ susp \in SuspStates

\* A typed state has that shape.
LEMMA TypeShape == TypeOK => Shape
<1> SUFFICES ASSUME TypeOK PROVE Shape
  OBVIOUS
<1>1. refcount \in [Ctx -> 0 .. MaxRefs]
  BY DEF TypeOK, CS!TypeOK
<1>2. refcount \in [Ctx -> Int]
  BY <1>1
<1>3. asFree \in SUBSET AS /\ asToCtx \in [AS -> Ctx \cup {NoCtx}]
        /\ asNr \in [Ctx -> AS \cup {NoAS}]
  BY DEF TypeOK, CS!TypeOK
<1> QED
  BY <1>2, <1>3 DEF TypeOK, Shape, SchedStates, SuspStates, Pcs

\* Each reference has a holder, so a bound on the holders bounds the references.
LEMMA ShapeType == Shape /\ RefsAccounted => TypeOK
<1> SUFFICES ASSUME Shape, RefsAccounted PROVE TypeOK
  OBVIOUS
<1>1. \A c \in Ctx : refcount[c] \in 0 .. MaxRefs
  <2> TAKE c \in Ctx
  <2>1. atoms[c] \in 0 .. MaxAtoms /\ owed[c] \in 0 .. MaxOwed
    BY DEF Shape
  <2> QED
    BY <2>1 DEF RefsAccounted, PoolHolds, SchedHolds, SuspendHolds, B
<1>2. refcount \in [Ctx -> 0 .. MaxRefs]
  BY <1>1 DEF Shape
<1> QED
  BY <1>2 DEF TypeOK, CS!TypeOK, Shape, SchedStates, SuspStates, Pcs

\* What each kind of holder holds.
LEMMA HoldsTyped ==
  ASSUME NEW c
  PROVE  PoolHolds(c) \in Nat /\ SchedHolds(c) \in Nat
           /\ SuspendHolds(c) \in Nat
BY DEF PoolHolds, SchedHolds, SuspendHolds, B

\* The invariant, in the form the steps prove it.
Parts ==
  /\ Shape /\ RefsAccounted /\ SubmitBelongsToOwner /\ ActiveIsScheduled
  /\ TablesAgree /\ HeldIsScheduled /\ FlagsAgree /\ RunningIsActive
  /\ SchedPlace /\ SuspPlace

\* Both forms say the same.
LEMMA PartsInv == PoolInv <=> Parts
BY TypeShape, ShapeType DEF PoolInv, LeasesSound, Parts

\* A referenced context owns an AS, which is not free.
LEMMA HasAs ==
  ASSUME Parts, Alive, NEW c \in Ctx, refcount[c] > 0
  PROVE  asNr[c] \in AS /\ asToCtx[asNr[c]] = c /\ asNr[c] \notin asFree
BY DEF Parts, Shape, TablesAgree, CS!OwnersAgree, CS!FreeIffUnreferenced,
   CS!ReferencedHasAs, CS!Referenced

\* A scheduled context is referenced, one that runs atoms too.
LEMMA Held ==
  ASSUME Parts, NEW c \in Ctx
  PROVE  /\ refcount[c] \in Int
         /\ refcount[c] >= B(c \in scheduled) + atoms[c] + owed[c]
         /\ refcount[c] >= 0
<1>1. atoms[c] \in Nat /\ owed[c] \in Nat /\ refcount[c] \in Int
  BY DEF Parts, Shape
<1> QED BY <1>1 DEF Parts, RefsAccounted, PoolHolds, SchedHolds, SuspendHolds, B

\* A context that is scheduled in is referenced.
LEMMA ScheduledHeld ==
  ASSUME Parts, NEW c \in scheduled
  PROVE  c \in Ctx /\ c # NoCtx /\ refcount[c] > 0
<1>1. c \in Ctx /\ c # NoCtx /\ atoms[c] \in Nat /\ owed[c] \in Nat
  BY DEF Parts, Shape
<1> QED
  BY <1>1, Held DEF B

\* Initially nobody is scheduled in and nothing is referenced.
LEMMA InitInv == Init => Parts
<1> SUFFICES ASSUME Init PROVE Parts
  OBVIOUS
<1>1. Shape
  <2>1. SchedIdle \in SchedStates
    BY DEF SchedIdle, SchedStates, Pcs
  <2>2. SuspOff \in SuspStates
    BY DEF SuspOff, SuspStates
  <2>3. 0 \in 0 .. MaxAtoms /\ 0 \in 0 .. MaxOwed
    OBVIOUS
  <2>4. atoms \in [Ctx -> 0 .. MaxAtoms] /\ owed \in [Ctx -> 0 .. MaxOwed]
    BY <2>3 DEF Init
  <2>5. asToCtx \in [AS -> Ctx \cup {NoCtx}]
          /\ asNr \in [Ctx -> AS \cup {NoAS}] /\ refcount \in [Ctx -> Int]
    BY DEF Init
  <2> QED
    BY <2>1, <2>2, <2>4, <2>5 DEF Init, Shape
<1>2. RefsAccounted
  BY DEF Init, RefsAccounted, PoolHolds, SchedHolds, SuspendHolds, B,
     SchedIdle, SuspOff
<1>3. TablesAgree
  BY DEF Init, TablesAgree, CS!OwnersAgree, CS!FreeIffUnreferenced,
     CS!ReferencedHasAs, CS!Referenced
<1> QED
  BY <1>1, <1>2, <1>3 DEF Init, Parts, SubmitBelongsToOwner, ActiveIsScheduled,
     HeldIsScheduled, FlagsAgree, RunningIsActive, SchedPlace, SuspPlace,
     SchedIdle, SuspOff

\* The scheduler picks a context, which is active from then on.
LEMMA PickInv ==
  ASSUME Parts, NEW c \in Ctx, Pick(c)
  PROVE  Parts'
<1> USE DEF Parts, Pick, asVars, flagVars, QueueMutexFree, At
<1>1. sched'.pc = "use" /\ sched'.c = c /\ (sched'.wasIdle => c \notin active)
  OBVIOUS
<1>2. Shape'
  <2>1. \A b \in BOOLEAN : [pc |-> "use", c |-> c, v |-> NoCtx, scan |-> 0,
          wasIdle |-> b] \in SchedStates
    BY DEF SchedStates, Pcs
  <2>2. (c \notin active) \in BOOLEAN
    OBVIOUS
  <2>3. sched' \in SchedStates
    BY <2>1, <2>2, Zenon
  <2> QED
    BY <2>3 DEF Shape
<1>3. RefsAccounted'
  BY <1>1 DEF RefsAccounted, PoolHolds, SchedHolds, SuspendHolds, B
<1>4. SubmitBelongsToOwner' /\ ActiveIsScheduled' /\ FlagsAgree' /\ TablesAgree'
  BY DEF SubmitBelongsToOwner, ActiveIsScheduled, FlagsAgree, TablesAgree,
     CS!OwnersAgree, CS!FreeIffUnreferenced, CS!ReferencedHasAs, CS!Referenced,
     Alive
<1>5. HeldIsScheduled' /\ RunningIsActive'
  BY <1>1 DEF HeldIsScheduled, RunningIsActive, Arriving, Alive
<1>6. SchedPlace'
  BY <1>1 DEF SchedPlace, RunningIsActive, Shape
<1>7. SuspPlace'
  BY DEF SuspPlace, Alive
<1> QED
  BY <1>2, <1>3, <1>4, <1>5, <1>6, <1>7

\* The tables agree as long as the same contexts are referenced.
LEMMA TablesHold ==
  ASSUME TablesAgree, Shape, UNCHANGED <<asFree, asToCtx, asNr>>,
         Alive' => Alive /\ \A c \in Ctx : refcount'[c] > 0 <=> refcount[c] > 0
  PROVE  TablesAgree'
<1>1. CS!OwnersAgree'
  BY DEF TablesAgree, CS!OwnersAgree
<1>2. ASSUME Alive' PROVE CS!FreeIffUnreferenced' /\ CS!ReferencedHasAs'
  BY <1>2 DEF TablesAgree, Shape, CS!FreeIffUnreferenced, CS!ReferencedHasAs,
     CS!Referenced
<1> QED
  BY <1>1, <1>2 DEF TablesAgree

\* So they do while a suspend does not move.
LEMMA TablesKept ==
  ASSUME TablesAgree, Shape, UNCHANGED <<asFree, asToCtx, asNr, susp>>,
         \A c \in Ctx : refcount'[c] > 0 <=> refcount[c] > 0
  PROVE  TablesAgree'
BY TablesHold DEF Alive

\* A suspend is not disturbed by more references.
LEMMA SuspKept ==
  ASSUME SuspPlace, Shape, UNCHANGED <<susp, suspending, asToCtx, dying,
           privileged, scheduled>>,
         \A c \in Ctx : refcount'[c] \in Int /\ refcount'[c] >= refcount[c]
  PROVE  SuspPlace'
<1>1. refcount \in [Ctx -> Int] /\ scheduled \subseteq Ctx
        /\ susp.c \in Ctx \cup {NoCtx} /\ susp.mask \subseteq AS
      /\ \A a \in AS : asToCtx[a] \in Ctx \cup {NoCtx}
  BY DEF Shape, SuspStates
<1> QED
  BY <1>1 DEF SuspPlace, Alive

\* The references still have their holders when a worker's or an atom's one is added.
LEMMA HoldersKept ==
  ASSUME RefsAccounted, Shape, NEW c \in Ctx,
         \A d \in Ctx : d # c => refcount'[d] = refcount[d]
           /\ atoms'[d] = atoms[d] /\ owed'[d] = owed[d],
         \A d \in Ctx : PoolHolds(d)' = PoolHolds(d)
           /\ SchedHolds(d)' = SchedHolds(d)
           /\ SuspendHolds(d)' = SuspendHolds(d),
         refcount'[c] \in Int, atoms'[c] \in Int, owed'[c] \in Int,
         refcount'[c] - atoms'[c] - owed'[c] = refcount[c] - atoms[c] - owed[c]
  PROVE  RefsAccounted'
<1> SUFFICES ASSUME NEW d \in Ctx
             PROVE  refcount'[d] = PoolHolds(d)' + SchedHolds(d)' + atoms'[d] + owed'[d] + SuspendHolds(d)'
  BY DEF RefsAccounted
<1>1. PoolHolds(d) \in Nat /\ SchedHolds(d) \in Nat /\ SuspendHolds(d) \in Nat
  BY HoldsTyped
<1>2. atoms[d] \in Int /\ owed[d] \in Int /\ refcount[d] \in Int
  BY DEF Shape
<1>3. refcount[d] = PoolHolds(d) + SchedHolds(d) + atoms[d] + owed[d] + SuspendHolds(d)
  BY DEF RefsAccounted
<1>4. PoolHolds(d)' = PoolHolds(d) /\ SchedHolds(d)' = SchedHolds(d)
        /\ SuspendHolds(d)' = SuspendHolds(d)
  OBVIOUS
<1>5. refcount'[d] - atoms'[d] - owed'[d] = refcount[d] - atoms[d] - owed[d]
  BY <1>2
<1>6. atoms'[d] \in Int /\ owed'[d] \in Int /\ refcount'[d] \in Int
  BY <1>2
<1> QED
  BY <1>1, <1>2, <1>3, <1>4, <1>5, <1>6

\* One more reference to a context that has one.
LEMMA CountedUp ==
  ASSUME Parts, NEW c \in Ctx, refcount[c] > 0, AddRefs(c, 1)
  PROVE  /\ refcount' \in [Ctx -> Int]
         /\ refcount'[c] = refcount[c] + 1
         /\ \A d \in Ctx : d # c => refcount'[d] = refcount[d]
         /\ \A d \in Ctx : refcount'[d] > 0 <=> refcount[d] > 0
         /\ \A d \in Ctx : refcount[d] \in Int /\ refcount'[d] >= refcount[d]
<1>1. refcount \in [Ctx -> Int]
  BY DEF Parts, Shape
<1> QED
  BY <1>1 DEF AddRefs

\* A step of the scheduling thread that only changes its place.
LEMMA StepTyped ==
  ASSUME sched \in SchedStates, NEW p \in Pcs, Step(p)
  PROVE  /\ sched' \in SchedStates
         /\ sched'.pc = p /\ sched'.c = sched.c /\ sched'.v = sched.v
         /\ sched'.wasIdle <=> sched.wasIdle
BY DEF Step, SchedStates

\* The scheduling thread has finished.
LEMMA IdleTyped == SchedIdle \in SchedStates /\ SchedIdle.pc = "idle"
  /\ SchedIdle.c = NoCtx
BY DEF SchedIdle, SchedStates, Pcs

\* kbase_js_use_ctx: only a scheduled owner of an AS becomes active.
LEMMA UseCtxInv ==
  ASSUME Parts, UseCtx
  PROVE  Parts'
<1> USE DEF Parts, UseCtx, asVars, flagVars, At
<1>1. sched \in SchedStates /\ sched.c \in Ctx /\ sched.c \in active
  BY DEF Shape, SchedPlace
<1>2. CASE sched.c \in scheduled /\ \E a \in AS : asToCtx[a] = sched.c
  <2>1. /\ sched' \in SchedStates
        /\ sched'.pc = "kick" /\ sched'.c = sched.c /\ sched'.v = sched.v
        /\ sched'.wasIdle <=> sched.wasIdle
    BY <1>1, <1>2, StepTyped DEF Pcs
  <2>2. Shape'
    BY <1>1, <1>2, <2>1 DEF Shape
  <2>3. RefsAccounted'
    BY <2>1 DEF RefsAccounted, PoolHolds, SchedHolds, SuspendHolds, B
  <2>4. ActiveIsScheduled'
    BY <1>1, <1>2 DEF ActiveIsScheduled, Shape, TablesAgree, CS!OwnersAgree
  <2>5. SubmitBelongsToOwner' /\ FlagsAgree' /\ TablesAgree'
    BY DEF SubmitBelongsToOwner, FlagsAgree, TablesAgree, CS!OwnersAgree,
       CS!FreeIffUnreferenced, CS!ReferencedHasAs, CS!Referenced, Alive
  <2>6. HeldIsScheduled' /\ RunningIsActive'
    BY <1>1, <1>2, <2>1 DEF HeldIsScheduled, RunningIsActive, Arriving, Alive
  <2>7. SchedPlace'
    BY <1>1, <1>2, <2>1 DEF SchedPlace
  <2>8. SuspPlace'
    BY DEF SuspPlace, Alive
  <2> QED
    BY <2>2, <2>3, <2>4, <2>5, <2>6, <2>7, <2>8
<1>3. CASE ~(sched.c \in scheduled /\ \E a \in AS : asToCtx[a] = sched.c)
  <2>1. /\ sched' \in SchedStates
        /\ sched'.pc = "retain" /\ sched'.c = sched.c /\ sched'.v = sched.v
        /\ sched'.wasIdle <=> sched.wasIdle
    BY <1>1, <1>3, StepTyped DEF Pcs
  <2>2. Shape' /\ activeKctx' = activeKctx
    BY <1>1, <1>3, <2>1 DEF Shape
  <2>3. RefsAccounted'
    BY <2>1 DEF RefsAccounted, PoolHolds, SchedHolds, SuspendHolds, B
  <2>5. SubmitBelongsToOwner' /\ FlagsAgree' /\ TablesAgree'
          /\ ActiveIsScheduled'
    BY <2>2 DEF SubmitBelongsToOwner, FlagsAgree, TablesAgree, CS!OwnersAgree,
       CS!FreeIffUnreferenced, CS!ReferencedHasAs, CS!Referenced, Alive,
       ActiveIsScheduled
  <2>6. HeldIsScheduled' /\ RunningIsActive'
    BY <2>1, <2>2 DEF HeldIsScheduled, RunningIsActive, Arriving, Alive
  <2>7. sched.c \notin scheduled
    <3> SUFFICES ASSUME sched.c \in scheduled PROVE FALSE
      OBVIOUS
    <3>1. refcount[sched.c] > 0
      BY <1>1, Held DEF B, Shape
    <3> QED
      BY <1>1, <1>3, <3>1, HasAs
  <2>8. SchedPlace'
    BY <1>1, <2>1, <2>7 DEF SchedPlace
  <2>9. SuspPlace'
    BY DEF SuspPlace, Alive
  <2> QED
    BY <2>2, <2>3, <2>5, <2>6, <2>8, <2>9
<1> QED
  BY <1>2, <1>3

\* An atom of a scheduled, active context starts.
LEMMA PullInv ==
  ASSUME Parts, Alive, NEW c \in scheduled \cap active, CanPull(c),
         atoms' = [atoms EXCEPT ![c] = @ + 1], AddRefs(c, 1),
         sched' \in SchedStates, sched'.pc = "idle", sched.pc \notin {"evict",
           "assign", "forceout"},
         UNCHANGED <<asFree, asToCtx, asNr, submit, flagVars, active,
           activeKctx, owed, suspending,
                 susp>>
  PROVE  Parts'
<1>1. c \in Ctx /\ refcount[c] \in Int /\ atoms[c] \in Nat /\ owed[c] \in Nat
  BY DEF Parts, Shape
<1>2. refcount[c] > 0
  BY <1>1, Held DEF B
<1>3. /\ refcount' \in [Ctx -> Int]
      /\ refcount'[c] = refcount[c] + 1
      /\ \A d \in Ctx : d # c => refcount'[d] = refcount[d]
      /\ \A d \in Ctx : refcount'[d] > 0 <=> refcount[d] > 0
      /\ \A d \in Ctx : refcount[d] \in Int /\ refcount'[d] >= refcount[d]
  BY <1>1, <1>2, CountedUp
<1>4. /\ atoms' \in [Ctx -> 0 .. MaxAtoms]
      /\ atoms'[c] = atoms[c] + 1
      /\ \A d \in Ctx : d # c => atoms'[d] = atoms[d]
  BY <1>1 DEF Parts, Shape, CanPull
<1>5. Shape'
  BY <1>3, <1>4 DEF Parts, Shape, flagVars
<1>6. RefsAccounted'
  <2>1. \A d \in Ctx : PoolHolds(d)' = PoolHolds(d)
          /\ SchedHolds(d)' = SchedHolds(d)
          /\ SuspendHolds(d)' = SuspendHolds(d)
    BY DEF PoolHolds, SchedHolds, SuspendHolds, B, flagVars
  <2> QED
    BY <1>1, <1>3, <1>4, <2>1, HoldersKept DEF Parts
<1>7. ActiveIsScheduled' /\ SubmitBelongsToOwner' /\ FlagsAgree'
  BY DEF Parts, ActiveIsScheduled, SubmitBelongsToOwner, FlagsAgree, flagVars
<1>8. TablesAgree'
  BY <1>3, TablesKept DEF Parts
<1>9. HeldIsScheduled' /\ RunningIsActive'
  BY <1>3, <1>4 DEF Parts, HeldIsScheduled, RunningIsActive, Arriving, Alive,
     flagVars
<1>10. SchedPlace'
  BY DEF SchedPlace
<1>11. SuspPlace'
  BY <1>3, SuspKept DEF Parts, flagVars
<1> QED
  BY <1>5, <1>6, <1>7, <1>8, <1>9, <1>10, <1>11 DEF Parts

\* The scheduler starts an atom, or the context goes idle again.
LEMMA KickInv ==
  ASSUME Parts, Kick
  PROVE  Parts'
<1> USE DEF Parts, Kick, asVars, flagVars, At
<1>1. sched \in SchedStates /\ sched.c \in Ctx /\ sched.c \in active
        /\ sched.c \in scheduled
  BY DEF Shape, SchedPlace
<1>2. sched' \in SchedStates /\ sched'.pc = "idle" /\ sched'.c = NoCtx
  BY IdleTyped
<1>3. CASE CanPull(sched.c) /\ atoms' = [atoms EXCEPT ![sched.c] = @ + 1]
             /\ AddRefs(sched.c, 1) /\ UNCHANGED <<active, activeKctx>>
  BY <1>1, <1>2, <1>3, PullInv
<1>4. CASE /\ UNCHANGED <<atoms, refcount>>
           /\ IF sched.wasIdle
             THEN /\ active' = active \ {sched.c}
                  /\ activeKctx' = IF activeKctx = sched.c THEN NoCtx
                                                           ELSE activeKctx
             ELSE UNCHANGED <<active, activeKctx>>
  <2>2. Shape'
    BY <1>2, <1>4 DEF Shape
  <2>3. RefsAccounted'
    BY <1>2, <1>4 DEF RefsAccounted, PoolHolds, SchedHolds, SuspendHolds, B
  <2>4. ActiveIsScheduled' /\ SubmitBelongsToOwner' /\ FlagsAgree'
    BY <1>4 DEF ActiveIsScheduled, SubmitBelongsToOwner, FlagsAgree
  <2>5. TablesAgree'
    BY <1>4 DEF TablesAgree, CS!OwnersAgree, CS!FreeIffUnreferenced,
       CS!ReferencedHasAs, CS!Referenced, Alive
  <2>6. HeldIsScheduled'
    BY <1>2, <1>4 DEF HeldIsScheduled, Arriving, Alive
  <2>7. RunningIsActive'
    BY <1>4 DEF RunningIsActive, SchedPlace
  <2>8. SchedPlace'
    BY <1>2 DEF SchedPlace
  <2>9. SuspPlace'
    BY <1>4 DEF SuspPlace, Alive
  <2> QED
    BY <2>2, <2>3, <2>4, <2>5, <2>6, <2>7, <2>8, <2>9
<1> QED
  BY <1>3, <1>4

\* The scheduler gives a context up: it is not the active one.
LEMMA GiveUpInv ==
  ASSUME Parts, GiveUp
  PROVE  Parts'
<1> USE DEF Parts, GiveUp, asVars, flagVars, At
<1>1. sched' \in SchedStates /\ sched'.pc = "idle" /\ sched'.c = NoCtx
  BY IdleTyped
<1>2. Shape'
  BY <1>1 DEF Shape
<1>3. RefsAccounted'
  BY <1>1 DEF RefsAccounted, PoolHolds, SchedHolds, SuspendHolds, B
<1>4. ActiveIsScheduled' /\ SubmitBelongsToOwner' /\ FlagsAgree'
  BY DEF ActiveIsScheduled, SubmitBelongsToOwner, FlagsAgree
<1>5. TablesAgree'
  BY DEF TablesAgree, CS!OwnersAgree, CS!FreeIffUnreferenced,
     CS!ReferencedHasAs, CS!Referenced, Alive
<1>6. HeldIsScheduled'
  BY <1>1 DEF HeldIsScheduled, Arriving, Alive
<1>7. RunningIsActive'
  BY DEF RunningIsActive, SchedPlace, ActiveIsScheduled
<1>8. SchedPlace' /\ SuspPlace'
  BY <1>1 DEF SchedPlace, SuspPlace, Alive
<1> QED
  BY <1>2, <1>3, <1>4, <1>5, <1>6, <1>7, <1>8

\* An interrupt starts an atom of the active context.
LEMMA FastStartInv ==
  ASSUME Parts, NEW c \in Ctx, FastStart(c)
  PROVE  Parts'
<1>1. c \in scheduled \cap active
  BY DEF Parts, ActiveIsScheduled, RunningIsActive, FastStart, CanPull
<1> QED
  BY <1>1, PullInv DEF FastStart, QueueMutexFree, At, Parts, Shape

\* A fault retains the context of a running atom.
LEMMA FaultInv ==
  ASSUME Parts, NEW a \in AS, Fault(a)
  PROVE  Parts'
<1> DEFINE c == asToCtx[a]
<1>1. c \in Ctx /\ atoms[c] > 0 /\ atoms[c] \in Nat /\ owed[c] \in Nat
        /\ owed[c] < MaxOwed /\ refcount[c] \in Int
  BY DEF Parts, Shape, Fault
<1> HIDE DEF c
<1>2. refcount[c] > 0
  BY <1>1, Held DEF B
<1>3. /\ refcount' \in [Ctx -> Int]
      /\ refcount'[c] = refcount[c] + 1
      /\ \A d \in Ctx : d # c => refcount'[d] = refcount[d]
      /\ \A d \in Ctx : refcount'[d] > 0 <=> refcount[d] > 0
      /\ \A d \in Ctx : refcount[d] \in Int /\ refcount'[d] >= refcount[d]
  BY <1>1, <1>2, CountedUp DEF Fault, c
<1>4. /\ owed' \in [Ctx -> 0 .. MaxOwed]
      /\ owed'[c] = owed[c] + 1
      /\ \A d \in Ctx : d # c => owed'[d] = owed[d]
  BY <1>1 DEF Parts, Shape, Fault, c
<1>0. Alive /\ UNCHANGED <<asFree, asToCtx, asNr, submit, flagVars, active,
        activeKctx, atoms, suspending,
                 sched, susp>>
  BY DEF Fault
<1>5. Shape'
  BY <1>0, <1>3, <1>4 DEF Parts, Shape, flagVars
<1>6. RefsAccounted'
  <2>1. \A d \in Ctx : PoolHolds(d)' = PoolHolds(d)
          /\ SchedHolds(d)' = SchedHolds(d)
          /\ SuspendHolds(d)' = SuspendHolds(d)
    BY <1>0 DEF PoolHolds, SchedHolds, SuspendHolds, B, flagVars
  <2> QED
    BY <1>0, <1>1, <1>3, <1>4, <2>1, HoldersKept DEF Parts
<1>7. ActiveIsScheduled' /\ SubmitBelongsToOwner' /\ FlagsAgree'
  BY <1>0 DEF Parts, ActiveIsScheduled, SubmitBelongsToOwner, FlagsAgree,
     flagVars
<1>8. TablesAgree'
  BY <1>0, <1>3, TablesKept DEF Parts
<1>9. HeldIsScheduled' /\ RunningIsActive'
  BY <1>0, <1>3 DEF Parts, HeldIsScheduled, RunningIsActive, Arriving, Alive,
     flagVars
<1>10. SchedPlace'
  BY <1>0, <1>1, <1>3, <1>4 DEF Parts, Shape, SchedPlace, flagVars
<1>11. SuspPlace'
  BY <1>0, <1>3, SuspKept DEF Parts, flagVars
<1> QED
  BY <1>5, <1>6, <1>7, <1>8, <1>9, <1>10, <1>11 DEF Parts

\* An atom is done; its reference passes to the worker.
LEMMA AtomDoneInv ==
  ASSUME Parts, NEW c \in Ctx, AtomDone(c)
  PROVE  Parts'
<1>0. /\ Alive /\ sched.pc = "idle" /\ atoms[c] > 0 /\ owed[c] < MaxOwed
      /\ atoms' = [atoms EXCEPT ![c] = @ - 1]
      /\ owed' = [owed EXCEPT ![c] = @ + 1]
      /\ UNCHANGED <<asVars, flagVars, suspending, sched, susp>>
  BY DEF AtomDone, QueueMutexFree, At
<1>1. atoms[c] \in Nat /\ owed[c] \in Nat /\ refcount[c] \in Int
  BY DEF Parts, Shape
<1>2. refcount[c] > 0
  BY <1>0, <1>1, Held DEF B
<1>3. asNr[c] \in AS /\ asToCtx[asNr[c]] = c /\ asNr[c] \notin asFree
  BY <1>0, <1>2, HasAs
<1>4. c \in scheduled
  BY <1>0, <1>2 DEF Parts, HeldIsScheduled, Arriving
<1>5. /\ atoms' \in [Ctx -> 0 .. MaxAtoms] /\ owed' \in [Ctx -> 0 .. MaxOwed]
      /\ atoms'[c] = atoms[c] - 1 /\ owed'[c] = owed[c] + 1
      /\ \A d \in Ctx : d # c => atoms'[d] = atoms[d] /\ owed'[d] = owed[d]
  <2>1. atoms[c] - 1 \in 0 .. MaxAtoms /\ owed[c] + 1 \in 0 .. MaxOwed
    BY <1>0, <1>1 DEF Parts, Shape
  <2> QED
    BY <1>0, <2>1 DEF Parts, Shape
<1>6. /\ active' \in {active, active \ {c}} /\ (atoms'[c] > 0
           => active' = active)
      /\ activeKctx' \in {activeKctx, NoCtx} /\ (active' # active
           => activeKctx' # c)
      /\ submit' \in {submit, submit \cup {asNr[c]}} /\ (c \in dying
           => submit' = submit)
  BY <1>1, <1>5 DEF AtomDone, Parts, Shape
<1>7. Shape'
  BY <1>0, <1>3, <1>5, <1>6 DEF Parts, Shape, asVars, flagVars
<1>8. RefsAccounted'
  <2>1. \A d \in Ctx : PoolHolds(d)' = PoolHolds(d)
          /\ SchedHolds(d)' = SchedHolds(d)
          /\ SuspendHolds(d)' = SuspendHolds(d)
    BY <1>0 DEF PoolHolds, SchedHolds, SuspendHolds, B, asVars, flagVars
  <2> QED
    BY <1>0, <1>1, <1>5, <2>1, HoldersKept DEF Parts, asVars
<1>9. ActiveIsScheduled' /\ SubmitBelongsToOwner' /\ FlagsAgree'
  BY <1>0, <1>3, <1>4, <1>6 DEF Parts, ActiveIsScheduled, SubmitBelongsToOwner,
     FlagsAgree, flagVars, asVars
<1>10. TablesAgree' /\ HeldIsScheduled'
  BY <1>0, TablesKept DEF Parts, asVars, flagVars, HeldIsScheduled, Alive,
     Arriving
<1>11. RunningIsActive'
  BY <1>0, <1>5, <1>6 DEF Parts, RunningIsActive
<1>12. SchedPlace' /\ SuspPlace'
  BY <1>0 DEF Parts, SchedPlace, SuspPlace, asVars, flagVars, Alive
<1> QED
  BY <1>7, <1>8, <1>9, <1>10, <1>11, <1>12 DEF Parts

\* The privileged user retains a context that is scheduled in.
LEMMA SchedulePrivilegedInv ==
  ASSUME Parts, NEW c \in Ctx, SchedulePrivileged(c)
  PROVE  Parts'
<1>0. /\ Alive /\ sched.pc = "idle" /\ ~suspending /\ c = InstrCtx
           /\ c \notin privileged /\ c \notin dying
      /\ privileged' = {c}
      /\ IF c \in scheduled THEN AddRefs(c, 1) ELSE UNCHANGED refcount
      /\ UNCHANGED <<asFree, asToCtx, asNr, submit, scheduled, dying, active,
                 activeKctx, atoms, owed, suspending, sched, susp>>
  BY DEF SchedulePrivileged, QueueMutexFree, At
<1>1. \A d \in Ctx : atoms[d] \in Nat /\ owed[d] \in Nat /\ refcount[d] \in Int
  BY DEF Parts, Shape
<1>2. c \in scheduled => refcount[c] > 0
  BY <1>1, Held DEF B
<1>3. /\ refcount' \in [Ctx -> Int]
      /\ refcount'[c] = refcount[c] + B(c \in scheduled)
      /\ \A d \in Ctx : d # c => refcount'[d] = refcount[d]
      /\ \A d \in Ctx : refcount'[d] > 0 <=> refcount[d] > 0
      /\ \A d \in Ctx : refcount[d] \in Int /\ refcount'[d] >= refcount[d]
  <2>1. CASE c \in scheduled
    BY <1>0, <1>2, <2>1, CountedUp DEF B
  <2>2. CASE c \notin scheduled
    BY <1>0, <1>1, <2>2 DEF Parts, Shape, B
  <2> QED
    BY <2>1, <2>2
<1>4. Shape'
  BY <1>0, <1>3 DEF Parts, Shape
<1>5. RefsAccounted'
  <2> SUFFICES ASSUME NEW d \in Ctx
               PROVE  refcount'[d] = PoolHolds(d)' + SchedHolds(d)' + atoms'[d] + owed'[d] + SuspendHolds(d)'
    BY DEF RefsAccounted
  <2>1. PoolHolds(d) \in Nat /\ SchedHolds(d) \in Nat /\ SuspendHolds(d) \in Nat
    BY HoldsTyped
  <2>2. SchedHolds(d)' = SchedHolds(d) /\ SuspendHolds(d)' = SuspendHolds(d)
    BY <1>0 DEF SchedHolds, SuspendHolds, B
  <2>3. PoolHolds(d)' = PoolHolds(d) + (IF d = c THEN B(c \in scheduled) ELSE 0)
    BY <1>0 DEF PoolHolds, B, Parts, FlagsAgree
  <2>4. refcount'[d] = refcount[d] + (IF d = c THEN B(c \in scheduled) ELSE 0)
    BY <1>1, <1>3
  <2>5. refcount[d] = PoolHolds(d) + SchedHolds(d) + atoms[d] + owed[d] + SuspendHolds(d)
    BY DEF RefsAccounted, Parts
  <2>6. B(c \in scheduled) \in Nat
    BY DEF B
  <2> QED
    BY <1>0, <1>1, <2>1, <2>2, <2>3, <2>4, <2>5, <2>6
<1>6. ActiveIsScheduled' /\ SubmitBelongsToOwner' /\ FlagsAgree'
  BY <1>0 DEF Parts, ActiveIsScheduled, SubmitBelongsToOwner, FlagsAgree
<1>7. TablesAgree' /\ HeldIsScheduled'
  BY <1>0, <1>3, TablesKept DEF Parts, HeldIsScheduled, Alive, Arriving
<1>8. RunningIsActive' /\ SchedPlace'
  BY <1>0 DEF Parts, RunningIsActive, SchedPlace
<1>9. SuspPlace'
  BY <1>0, <1>3 DEF Parts, SuspPlace, Alive
<1> QED
  BY <1>4, <1>5, <1>6, <1>7, <1>8, <1>9 DEF Parts

\* The reference of the privileged user passes to a release.
LEMMA ReleasePrivilegedInv ==
  ASSUME Parts, NEW c \in Ctx, ReleasePrivileged(c)
  PROVE  Parts'
<1>0. /\ Alive /\ sched.pc = "idle" /\ c \in privileged /\ c \in scheduled
           /\ owed[c] < MaxOwed
      /\ privileged' = {}
      /\ owed' = [owed EXCEPT ![c] = @ + 1]
      /\ UNCHANGED <<asVars, submit, scheduled, dying, active, activeKctx,
           atoms,
                 suspending, sched, susp>>
  BY DEF ReleasePrivileged, QueueMutexFree, At
<1>1. \A d \in Ctx : atoms[d] \in Nat /\ owed[d] \in Nat /\ refcount[d] \in Int
  BY DEF Parts, Shape
<1>2. privileged = {c}
  BY <1>0 DEF Parts, FlagsAgree
<1>3. /\ owed' \in [Ctx -> 0 .. MaxOwed]
      /\ \A d \in Ctx : owed'[d] = owed[d] + (IF d = c THEN 1 ELSE 0)
  <2>1. owed[c] + 1 \in 0 .. MaxOwed
    BY <1>0, <1>1 DEF Parts, Shape
  <2> QED
    BY <1>0, <1>1, <2>1 DEF Parts, Shape
<1>4. Shape'
  BY <1>0, <1>3 DEF Parts, Shape, asVars
<1>5. RefsAccounted'
  <2> SUFFICES ASSUME NEW d \in Ctx
               PROVE  refcount'[d] = PoolHolds(d)' + SchedHolds(d)' + atoms'[d] + owed'[d] + SuspendHolds(d)'
    BY DEF RefsAccounted
  <2>1. PoolHolds(d)' \in Nat /\ SchedHolds(d) \in Nat
          /\ SuspendHolds(d) \in Nat
    BY HoldsTyped DEF PoolHolds, B
  <2>2. SchedHolds(d)' = SchedHolds(d) /\ SuspendHolds(d)' = SuspendHolds(d)
    BY <1>0 DEF SchedHolds, SuspendHolds, B, asVars
  <2>3. PoolHolds(d) = PoolHolds(d)' + (IF d = c THEN 1 ELSE 0)
    BY <1>0, <1>2 DEF PoolHolds, B
  <2>4. refcount[d] = PoolHolds(d) + SchedHolds(d) + atoms[d] + owed[d] + SuspendHolds(d)
    BY DEF RefsAccounted, Parts
  <2> QED
    BY <1>0, <1>1, <1>3, <2>1, <2>2, <2>3, <2>4 DEF asVars
<1>6. ActiveIsScheduled' /\ SubmitBelongsToOwner' /\ FlagsAgree'
  BY <1>0 DEF Parts, ActiveIsScheduled, SubmitBelongsToOwner, FlagsAgree, asVars
<1>7. TablesAgree' /\ HeldIsScheduled'
  BY <1>0, TablesKept DEF Parts, HeldIsScheduled, Alive, Arriving, asVars
<1>8. RunningIsActive' /\ SchedPlace'
  BY <1>0 DEF Parts, RunningIsActive, SchedPlace
<1>9. SuspPlace'
  BY <1>0 DEF Parts, SuspPlace, Alive, asVars
<1> QED
  BY <1>4, <1>5, <1>6, <1>7, <1>8, <1>9 DEF Parts

\* A dying context may not submit and is retained for one more release.
LEMMA ZapInv ==
  ASSUME Parts, NEW c \in Ctx, Zap(c)
  PROVE  Parts'
<1>0. /\ Alive /\ sched.pc = "idle" /\ ~suspending /\ c \notin dying
           /\ c \notin privileged
      /\ dying' = dying \cup {c}
      /\ UNCHANGED <<asFree, asToCtx, asNr, scheduled, privileged, active,
                 activeKctx, atoms, suspending, sched, susp>>
  BY DEF Zap, QueueMutexFree, At
<1>1. \A d \in Ctx : atoms[d] \in Nat /\ owed[d] \in Nat /\ refcount[d] \in Int
  BY DEF Parts, Shape
<1>2. c \in scheduled => refcount[c] > 0
  BY <1>1, Held DEF B
<1>3. /\ refcount' \in [Ctx -> Int] /\ owed' \in [Ctx -> 0 .. MaxOwed]
      /\ submit' \subseteq submit
      /\ refcount'[c] - owed'[c] = refcount[c] - owed[c]
      /\ \A d \in Ctx : d # c => refcount'[d] = refcount[d]
           /\ owed'[d] = owed[d]
      /\ \A d \in Ctx : refcount'[d] > 0 <=> refcount[d] > 0
      /\ \A d \in Ctx : refcount[d] \in Int /\ refcount'[d] >= refcount[d]
      /\ c \notin scheduled \/ asNr[c] \notin submit'
  <2>1. CASE c \in scheduled
    <3>1. owed[c] < MaxOwed /\ owed' = [owed EXCEPT ![c] = @ + 1] /\ AddRefs(c,
            1)
          /\ submit' = submit \ {asNr[c]}
      BY <2>1 DEF Zap
    <3>2. owed[c] + 1 \in 0 .. MaxOwed
      BY <1>1, <3>1 DEF Parts, Shape
    <3>3. /\ owed' \in [Ctx -> 0 .. MaxOwed] /\ owed'[c] = owed[c] + 1
          /\ \A d \in Ctx : d # c => owed'[d] = owed[d]
      BY <3>1, <3>2 DEF Parts, Shape
    <3> QED
      BY <1>1, <1>2, <2>1, <3>1, <3>3, CountedUp
  <2>2. CASE c \notin scheduled
    BY <1>1, <2>2 DEF Zap, Parts, Shape
  <2> QED
    BY <2>1, <2>2
<1>4. Shape'
  BY <1>0, <1>3 DEF Parts, Shape
<1>5. RefsAccounted'
  <2>1. \A d \in Ctx : PoolHolds(d)' = PoolHolds(d)
          /\ SchedHolds(d)' = SchedHolds(d)
          /\ SuspendHolds(d)' = SuspendHolds(d)
    BY <1>0 DEF PoolHolds, SchedHolds, SuspendHolds, B
  <2>2. owed'[c] \in Int /\ refcount'[c] \in Int
    BY <1>3
  <2>3. refcount'[c] - atoms'[c] - owed'[c] = refcount[c] - atoms[c] - owed[c]
    BY <1>0, <1>1, <1>3, <2>2
  <2> QED
    BY <1>0, <1>1, <1>3, <2>1, <2>2, <2>3, HoldersKept DEF Parts
<1>6. SubmitBelongsToOwner'
  <2> SUFFICES ASSUME NEW a \in submit' PROVE asToCtx[a] # c
    BY <1>0, <1>3 DEF Parts, SubmitBelongsToOwner
  <2> QED
    BY <1>3 DEF Parts, SubmitBelongsToOwner
<1>7. ActiveIsScheduled' /\ FlagsAgree'
  BY <1>0 DEF Parts, ActiveIsScheduled, FlagsAgree
<1>8. TablesAgree' /\ HeldIsScheduled'
  BY <1>0, <1>3, TablesKept DEF Parts, HeldIsScheduled, Alive, Arriving
<1>9. RunningIsActive' /\ SchedPlace'
  BY <1>0 DEF Parts, RunningIsActive, SchedPlace
<1>10. SuspPlace'
  BY <1>0, <1>3 DEF Parts, SuspPlace, Alive
<1> QED
  BY <1>4, <1>5, <1>6, <1>7, <1>8, <1>9, <1>10 DEF Parts

\* A suspend starts when nobody dies or is privileged.
LEMMA SuspendStartInv ==
  ASSUME Parts, SuspendStart
  PROVE  Parts'
<1>0. /\ susp.pc = "off" /\ dying = {} /\ privileged = {} /\ suspending' = TRUE
      /\ susp' \in SuspStates /\ susp'.pc = "retain" /\ susp'.mask = {}
           /\ susp'.c = NoCtx
      /\ UNCHANGED <<asVars, submit, flagVars, active, activeKctx, atoms, owed,
           sched>>
  BY DEF SuspendStart, SuspOff, SuspStates
<1>1. susp.mask = {} /\ susp.c = NoCtx /\ ~suspending
  BY <1>0 DEF Parts, SuspPlace, Shape, SuspStates
<1>2. Shape'
  BY <1>0 DEF Parts, Shape, asVars, flagVars
<1>3. RefsAccounted'
  BY <1>0, <1>1 DEF Parts, RefsAccounted, PoolHolds, SchedHolds, SuspendHolds,
     B, asVars, flagVars
<1>4. SubmitBelongsToOwner' /\ ActiveIsScheduled' /\ FlagsAgree'
        /\ RunningIsActive' /\ SchedPlace'
  BY <1>0 DEF Parts, SubmitBelongsToOwner, ActiveIsScheduled, FlagsAgree,
     RunningIsActive, SchedPlace, asVars, flagVars
<1>5. TablesAgree' /\ HeldIsScheduled'
  BY <1>0 DEF Parts, TablesAgree, CS!OwnersAgree, CS!FreeIffUnreferenced,
     CS!ReferencedHasAs, CS!Referenced, HeldIsScheduled, Alive, Arriving,
     asVars, flagVars
<1>6. SuspPlace'
  BY <1>0 DEF SuspPlace, Alive, flagVars
<1> QED
  BY <1>2, <1>3, <1>4, <1>5, <1>6 DEF Parts

\* A step that leaves the ASs of referenced contexts alone.
ReferencedKept ==
  /\ \A c \in Ctx : refcount[c] > 0 => asNr'[c] = asNr[c]
  /\ \A a \in AS : asToCtx[a] # NoCtx /\ refcount[asToCtx[a]] > 0
       => asToCtx'[a] = asToCtx[a]

\* ... keeps whatever is said about those: who may submit, who is active, and
\* what the suspending thread holds.
LEMMA KeptHolds ==
  ASSUME Parts, Alive, ReferencedKept, NEW d \in Ctx
  PROVE  (\E a \in susp.mask : asToCtx'[a] = d)
           <=> (\E a \in susp.mask : asToCtx[a] = d)
BY DEF Parts, Shape, SuspStates, ReferencedKept, SuspPlace

\* Who may submit and who is active stay referenced.
LEMMA KeptSubmit ==
  ASSUME Parts, ReferencedKept, UNCHANGED <<submit, scheduled, dying,
           activeKctx>>,
         \A a \in AS : a \notin asFree /\ asToCtx[a] # NoCtx => a \notin asFree'
  PROVE  SubmitBelongsToOwner' /\ ActiveIsScheduled'
<1>1. \A c \in scheduled : c \in Ctx /\ c # NoCtx /\ refcount[c] > 0
  BY ScheduledHeld
<1>2. SubmitBelongsToOwner'
  <2> SUFFICES ASSUME NEW a \in submit
               PROVE  asToCtx'[a] \in scheduled \ dying
                        /\ asNr'[asToCtx'[a]] = a /\ a \notin asFree'
    BY DEF SubmitBelongsToOwner
  <2>1. a \in AS /\ asToCtx[a] \in scheduled \ dying /\ asNr[asToCtx[a]] = a
          /\ a \notin asFree
    BY DEF Parts, Shape, SubmitBelongsToOwner
  <2>2. asToCtx[a] # NoCtx /\ refcount[asToCtx[a]] > 0 /\ asToCtx[a] \in Ctx
    BY <1>1, <2>1
  <2>3. asToCtx'[a] = asToCtx[a] /\ asNr'[asToCtx[a]] = asNr[asToCtx[a]]
    BY <2>1, <2>2 DEF ReferencedKept
  <2> QED
    BY <2>1, <2>2, <2>3
<1>3. ActiveIsScheduled'
  BY <1>1 DEF Parts, ActiveIsScheduled, ReferencedKept
<1> QED
  BY <1>2, <1>3

\* kbase_ctx_sched_restore_all_as takes their AS from idle owners only.
LEMMA DropIdle ==
  ASSUME Parts, Alive, CS!DropIdleOwners, UNCHANGED <<asFree, refcount>>
  PROVE  /\ ReferencedKept
         /\ asNr' \in [Ctx -> AS \cup {NoAS}]
              /\ asToCtx' \in [AS -> Ctx \cup {NoCtx}]
         /\ TablesAgree'
<1>1. /\ asNr \in [Ctx -> AS \cup {NoAS}]
           /\ asToCtx \in [AS -> Ctx \cup {NoCtx}]
      /\ refcount \in [Ctx -> Int]
      /\ CS!OwnersAgree /\ CS!FreeIffUnreferenced /\ CS!ReferencedHasAs
  BY DEF Parts, Shape, TablesAgree
<1>2. /\ asNr' = [c \in Ctx |-> IF asNr[c] # NoAS /\ CS!IdleOwner(asNr[c])
                              THEN NoAS ELSE asNr[c]]
      /\ asToCtx' = [a \in AS |-> IF CS!IdleOwner(a) THEN NoCtx ELSE asToCtx[a]]
  BY DEF CS!DropIdleOwners
<1>3. asNr' \in [Ctx -> AS \cup {NoAS}] /\ asToCtx' \in [AS -> Ctx \cup {NoCtx}]
  BY <1>1, <1>2
<1>4. ReferencedKept
  BY <1>1, <1>2 DEF ReferencedKept, CS!IdleOwner, CS!OwnersAgree
<1>5. CS!OwnersAgree'
  BY <1>1, <1>2 DEF CS!OwnersAgree
<1>6. CS!FreeIffUnreferenced'
  BY <1>1, <1>2 DEF CS!FreeIffUnreferenced, CS!Referenced, CS!IdleOwner
<1>7. CS!ReferencedHasAs'
  BY <1>1, <1>4 DEF CS!ReferencedHasAs, ReferencedKept
<1> QED
  BY <1>3, <1>4, <1>5, <1>6, <1>7 DEF TablesAgree

\* Restoring the ASs disturbs no referenced context.
LEMMA RestoreInv ==
  ASSUME Parts, Restore
  PROVE  Parts'
<1>0. Alive /\ CS!DropIdleOwners
      /\ UNCHANGED <<asFree, refcount, submit, scheduled, privileged, dying,
           active, activeKctx, atoms,
                 owed, suspending, sched, susp>>
  BY DEF Restore, flagVars
<1>1. /\ ReferencedKept
      /\ asNr' \in [Ctx -> AS \cup {NoAS}]
           /\ asToCtx' \in [AS -> Ctx \cup {NoCtx}]
      /\ TablesAgree'
  BY <1>0, DropIdle
<1>2. Shape'
  BY <1>0, <1>1 DEF Parts, Shape
<1>3. RefsAccounted'
  <2>1. \A d \in Ctx : PoolHolds(d)' = PoolHolds(d)
          /\ SchedHolds(d)' = SchedHolds(d)
    BY <1>0 DEF PoolHolds, SchedHolds, B
  <2>2. \A d \in Ctx : SuspendHolds(d)' = SuspendHolds(d)
    BY <1>0, <1>1, KeptHolds DEF SuspendHolds, B
  <2> QED
    BY <1>0, <2>1, <2>2 DEF Parts, RefsAccounted
<1>4. SubmitBelongsToOwner' /\ ActiveIsScheduled'
  BY <1>0, <1>1, KeptSubmit
<1>5. FlagsAgree' /\ RunningIsActive' /\ HeldIsScheduled'
  BY <1>0 DEF Parts, FlagsAgree, RunningIsActive, HeldIsScheduled, Arriving,
     Alive
<1>6. SchedPlace'
  BY <1>0, <1>1 DEF Parts, SchedPlace, ReferencedKept
<1>7. SuspPlace'
  BY <1>0, <1>1 DEF Parts, Shape, SuspStates, SuspPlace, Alive, ReferencedKept
<1> QED
  BY <1>1, <1>2, <1>3, <1>4, <1>5, <1>6, <1>7 DEF Parts

\* When the suspend is through and the PM references are gone, the run pool is
\* empty and nobody is scheduling.
LEMMA EmptyPool ==
  ASSUME Parts, Suspended
  PROVE  sched.pc = "idle" /\ scheduled = {}
<1>1. susp.pc = "next" /\ susp.mask = {} /\ susp.c = NoCtx /\ active = {}
        /\ privileged = {}
      /\ \A c \in Ctx : owed[c] = 0 /\ atoms[c] = 0
  BY DEF Parts, Suspended, SuspPlace, Shape, RunningIsActive
<1>2. sched.pc = "idle"
  BY <1>1 DEF Parts, SchedPlace
<1>3. ASSUME NEW c \in scheduled PROVE FALSE
  <2>1. c \in Ctx /\ c # NoCtx /\ refcount[c] >= 2
    BY <1>1 DEF Parts, Shape, SuspPlace
  <2>2. refcount[c] = PoolHolds(c) + SchedHolds(c) + atoms[c] + owed[c] + SuspendHolds(c)
    BY <2>1 DEF Parts, RefsAccounted
  <2>3. PoolHolds(c) = 1 /\ SchedHolds(c) = 0 /\ SuspendHolds(c) = 0
    BY <1>1, <1>2, <2>1 DEF PoolHolds, SchedHolds, SuspendHolds, B
  <2> QED
    BY <1>1, <2>1, <2>2, <2>3
<1> QED
  BY <1>2, <1>3

\* After the resume the run pool is empty, so nothing is disturbed.
LEMMA ResumeInv ==
  ASSUME Parts, Resume
  PROVE  Parts'
<1>0. /\ Suspended /\ Alive /\ susp.pc = "next" /\ susp.mask = {} /\ active = {}
      /\ ~suspending' /\ CS!DropIdleOwners
      /\ susp'.pc = "off" /\ susp'.mask = {} /\ susp'.c = NoCtx
           /\ susp' \in SuspStates
      /\ UNCHANGED <<asFree, refcount, submit, scheduled, privileged, dying,
           active, activeKctx, atoms,
                 owed, sched>>
  BY DEF Resume, flagVars, Suspended, Alive, SuspOff, SuspStates
<1>1. /\ ReferencedKept
      /\ asNr' \in [Ctx -> AS \cup {NoAS}]
           /\ asToCtx' \in [AS -> Ctx \cup {NoCtx}]
      /\ TablesAgree'
  BY <1>0, DropIdle
<1>2. sched.pc = "idle" /\ scheduled = {} /\ activeKctx = NoCtx
        /\ susp.c = NoCtx
  BY <1>0, EmptyPool DEF Parts, ActiveIsScheduled, SuspPlace
<1>3. Shape'
  BY <1>0, <1>1 DEF Parts, Shape, Resume
<1>4. RefsAccounted'
  <2>1. \A d \in Ctx : PoolHolds(d)' = PoolHolds(d)
          /\ SchedHolds(d)' = SchedHolds(d)
    BY <1>0 DEF PoolHolds, SchedHolds, B
  <2>2. \A d \in Ctx : SuspendHolds(d)' = SuspendHolds(d)
    BY <1>0, <1>2 DEF SuspendHolds, B
  <2> QED
    BY <1>0, <2>1, <2>2 DEF Parts, RefsAccounted
<1>5. SubmitBelongsToOwner' /\ ActiveIsScheduled'
  BY <1>0, <1>1, KeptSubmit
<1>6. FlagsAgree' /\ RunningIsActive' /\ HeldIsScheduled' /\ SchedPlace'
  BY <1>0, <1>2 DEF Parts, FlagsAgree, RunningIsActive, HeldIsScheduled,
     Arriving, Alive, SchedPlace
<1>7. SuspPlace'
  BY <1>0 DEF SuspPlace
<1> QED
  BY <1>1, <1>3, <1>4, <1>5, <1>6, <1>7 DEF Parts

\* Who is destroyed has no reference, so its AS is free.
LEMMA DestroyInv ==
  ASSUME Parts, NEW c \in Ctx, Destroy(c)
  PROVE  Parts'
<1>0. /\ Alive /\ sched.pc = "idle" /\ c \in dying /\ c \notin scheduled
      /\ atoms[c] = 0 /\ owed[c] = 0 /\ CS!RemoveCtx(c) /\ dying' = dying \ {c}
      /\ UNCHANGED <<asFree, refcount, submit, scheduled, privileged, active,
                 activeKctx, atoms, owed, suspending, sched, susp>>
  BY DEF Destroy, QueueMutexFree, At
<1>1. refcount[c] = 0 /\ susp.mask = {} /\ ~suspending
  <2>1. refcount[c] \in Int /\ refcount[c] >= 0
    BY Held
  <2> QED
    BY <1>0, <2>1 DEF Parts, HeldIsScheduled, Arriving, SuspPlace, Shape
<1>2. /\ asNr \in [Ctx -> AS \cup {NoAS}]
           /\ asToCtx \in [AS -> Ctx \cup {NoCtx}]
      /\ CS!OwnersAgree /\ CS!FreeIffUnreferenced /\ CS!ReferencedHasAs
  BY <1>0 DEF Parts, Shape, TablesAgree
<1>3. /\ ReferencedKept
      /\ asNr' \in [Ctx -> AS \cup {NoAS}]
           /\ asToCtx' \in [AS -> Ctx \cup {NoCtx}]
      /\ TablesAgree'
  <2>1. CASE asNr[c] = NoAS
    <3>1. UNCHANGED <<asToCtx, asNr>>
      BY <2>1, <1>0 DEF CS!RemoveCtx
    <3> QED
      BY <1>0, <1>2, <3>1, TablesKept DEF ReferencedKept, Parts
  <2>2. CASE asNr[c] # NoAS
    <3>1. asNr[c] \in AS /\ asToCtx[asNr[c]] = c
      BY <1>2, <2>2 DEF CS!OwnersAgree
    <3>2. /\ asToCtx' = [asToCtx EXCEPT ![asNr[c]] = NoCtx]
          /\ asNr' = [asNr EXCEPT ![c] = NoAS]
      BY <1>0, <2>2 DEF CS!RemoveCtx
    <3>3. ReferencedKept
      BY <1>1, <1>2, <3>1, <3>2 DEF ReferencedKept
    <3>4. asNr' \in [Ctx -> AS \cup {NoAS}]
            /\ asToCtx' \in [AS -> Ctx \cup {NoCtx}]
      BY <1>2, <3>1, <3>2
    <3>5. CS!OwnersAgree'
      BY <1>2, <3>1, <3>2 DEF CS!OwnersAgree
    <3>6. CS!FreeIffUnreferenced' /\ CS!ReferencedHasAs'
      BY <1>0, <1>1, <1>2, <3>1, <3>2 DEF CS!FreeIffUnreferenced,
         CS!ReferencedHasAs, CS!Referenced
    <3> QED
      BY <3>3, <3>4, <3>5, <3>6 DEF TablesAgree
  <2> QED
    BY <2>1, <2>2
<1>4. Shape'
  BY <1>0, <1>3 DEF Parts, Shape
<1>5. RefsAccounted'
  <2>1. \A d \in Ctx : PoolHolds(d)' = PoolHolds(d)
          /\ SchedHolds(d)' = SchedHolds(d)
          /\ SuspendHolds(d)' = SuspendHolds(d)
    BY <1>0, <1>1 DEF PoolHolds, SchedHolds, SuspendHolds, B
  <2> QED
    BY <1>0, <2>1 DEF Parts, RefsAccounted
<1>6. SubmitBelongsToOwner' /\ ActiveIsScheduled'
  <2>1. \A d \in scheduled : d \in Ctx /\ refcount[d] > 0 /\ d # NoCtx
    BY ScheduledHeld
  <2>2. \A a \in submit : a \in AS /\ asToCtx[a] # NoCtx
          /\ refcount[asToCtx[a]] > 0 /\ asToCtx[a] \in Ctx
    BY <2>1 DEF Parts, Shape, SubmitBelongsToOwner
  <2>3. \A a \in submit : asToCtx'[a] = asToCtx[a]
          /\ asNr'[asToCtx[a]] = asNr[asToCtx[a]]
    BY <1>3, <2>2 DEF ReferencedKept
  <2> QED
    BY <1>0, <1>3, <2>1, <2>3 DEF Parts, SubmitBelongsToOwner,
       ActiveIsScheduled, ReferencedKept
<1>7. FlagsAgree' /\ RunningIsActive' /\ HeldIsScheduled' /\ SchedPlace'
  BY <1>0 DEF Parts, FlagsAgree, RunningIsActive, HeldIsScheduled, Arriving,
     Alive, SchedPlace
<1>8. SuspPlace'
  BY <1>0, <1>1 DEF Parts, SuspPlace, Alive
<1> QED
  BY <1>3, <1>4, <1>5, <1>6, <1>7, <1>8 DEF Parts

\* The suspend retains the owners of ASs; the model goes on if none was idle.
LEMMA SuspendRetainInv ==
  ASSUME Parts, SuspendRetain
  PROVE  Parts'
<1> DEFINE Owns(c) == \E a \in Owned : asToCtx[a] = c
<1>0. /\ susp.pc = "retain" /\ submit' = {}
      /\ refcount' = [c \in Ctx |-> refcount[c] + IF Owns(c) THEN 1 ELSE 0]
      /\ UNCHANGED <<asFree, asToCtx, asNr, scheduled, privileged, dying,
           active, activeKctx, atoms,
                 owed, suspending, sched>>
  BY DEF SuspendRetain, flagVars
<1>1. susp \in SuspStates /\ susp.mask = {} /\ susp.c = NoCtx /\ suspending
        /\ Alive
  BY <1>0 DEF Parts, Shape, SuspPlace, Alive
<1>2. Owned \subseteq AS
  BY DEF Owned
<1>3. /\ susp' \in SuspStates /\ susp'.mask = Owned /\ susp'.c = NoCtx
      /\ susp'.pc \in {"next", "revived"}
      /\ Alive' => Owned \cap asFree = {}
  <2>1. susp' = [susp EXCEPT !.mask = Owned,
          !.pc = IF CachedOwners = {} THEN "next" ELSE "revived"]
    BY DEF SuspendRetain
  <2>2. CASE CachedOwners = {}
    <3>1. Owned \cap asFree = {}
      BY <2>2 DEF CachedOwners
    <3> QED
      BY <1>1, <1>2, <2>1, <2>2, <3>1 DEF SuspStates
  <2>3. CASE CachedOwners # {}
    BY <1>1, <1>2, <2>1, <2>3 DEF SuspStates, Alive
  <2> QED
    BY <2>2, <2>3
<1>4. /\ refcount' \in [Ctx -> Int]
      /\ \A c \in Ctx : refcount[c] \in Int
           /\ refcount'[c] = refcount[c] + IF Owns(c) THEN 1 ELSE 0
      /\ \A c \in Ctx : refcount[c] >= 0
  <2>1. \A c \in Ctx : refcount[c] \in Int /\ (IF Owns(c) THEN 1 ELSE 0) \in Int
    BY DEF Parts, Shape
  <2>2. \A c \in Ctx : refcount[c] >= 0
    BY Held
  <2> HIDE DEF Owns
  <2> QED
    BY <1>0, <2>1, <2>2
<1>5. \A c \in Ctx : Owns(c) <=> \E a \in susp'.mask : asToCtx'[a] = c
  BY <1>0, <1>3
<1>6. ASSUME Alive', NEW c \in Ctx, Owns(c) PROVE refcount[c] > 0
  <2>1. PICK a \in Owned : asToCtx[a] = c
    BY <1>6
  <2>2. a \in AS /\ a \notin asFree
    BY <1>2, <1>3, <1>6
  <2> QED
    BY <1>1, <2>1, <2>2 DEF Parts, TablesAgree, CS!FreeIffUnreferenced,
       CS!Referenced
<1>7. ASSUME NEW c \in Ctx, refcount[c] > 0 PROVE Owns(c)
  <2>1. asNr[c] \in AS /\ asToCtx[asNr[c]] = c
    BY <1>1, <1>7, HasAs
  <2> QED
    BY <2>1 DEF Owned
<1>8. Shape'
  BY <1>0, <1>3, <1>4 DEF Parts, Shape
<1>9. RefsAccounted'
  <2> SUFFICES ASSUME NEW c \in Ctx
               PROVE  refcount'[c] = PoolHolds(c)' + SchedHolds(c)' + atoms'[c] + owed'[c] + SuspendHolds(c)'
    BY DEF RefsAccounted
  <2>1. PoolHolds(c) \in Nat /\ SchedHolds(c) \in Nat /\ atoms[c] \in Int
          /\ owed[c] \in Int
    BY HoldsTyped DEF Parts, Shape
  <2>2. PoolHolds(c)' = PoolHolds(c) /\ SchedHolds(c)' = SchedHolds(c)
    BY <1>0 DEF PoolHolds, SchedHolds, B
  <2>3. SuspendHolds(c) = 0 /\ SuspendHolds(c)' = IF Owns(c) THEN 1 ELSE 0
    <3> HIDE DEF Owns
    <3> QED
      BY <1>1, <1>3, <1>5 DEF SuspendHolds, B
  <2>4. refcount[c] = PoolHolds(c) + SchedHolds(c) + atoms[c] + owed[c] + SuspendHolds(c)
    BY DEF RefsAccounted, Parts
  <2> HIDE DEF Owns
  <2> QED
    BY <1>0, <1>4, <2>1, <2>2, <2>3, <2>4
<1>10. SubmitBelongsToOwner' /\ ActiveIsScheduled' /\ FlagsAgree'
         /\ RunningIsActive'
  BY <1>0 DEF Parts, SubmitBelongsToOwner, ActiveIsScheduled, FlagsAgree,
     RunningIsActive
<1> HIDE DEF Owns
<1>11. TablesAgree'
  <2>1. Alive' => \A c \in Ctx : refcount'[c] > 0 <=> refcount[c] > 0
    BY <1>4, <1>6
  <2> QED
    BY <1>0, <1>1, <2>1, TablesHold DEF Parts
<1>12. HeldIsScheduled'
  BY <1>0, <1>1, <1>4, <1>6 DEF Parts, HeldIsScheduled, Arriving
<1>13. SchedPlace'
  BY <1>0, <1>4 DEF Parts, Shape, SchedPlace
<1>14. SuspPlace'
  <2>1. \A a \in Owned : asToCtx[a] # NoCtx /\ asToCtx[a] \in Ctx
    BY DEF Owned, Parts, Shape
  <2>2. \A a \in Owned : refcount'[asToCtx[a]] > 0
    BY <1>4, <1>5, <1>0, <1>3, <2>1
  <2>3. \A c \in scheduled : refcount'[c] >= 2
    BY <1>4, <1>7, ScheduledHeld
  <2> QED
    BY <1>0, <1>1, <1>3, <2>1, <2>2, <2>3 DEF Parts, SuspPlace
<1> QED
  BY <1>8, <1>9, <1>10, <1>11, <1>12, <1>13, <1>14 DEF Parts

\* The lowest of a set of ASs is one of them.
LEMMA MinAs ==
  ASSUME NEW S \in SUBSET AS, S # {}
  PROVE  Min(S) \in S /\ \A a \in S : Min(S) <= a
<1> DEFINE R == OpToRel(<, Nat)
<1>1. \A x, y \in Nat : <<x, y>> \in R <=> x < y
  BY DEF OpToRel
<1> HIDE DEF R
<1>2. IsWellFoundedOn(R, Nat)
  BY NatLessThanWellFounded DEF R
<1>3. S \subseteq Nat
  OBVIOUS
<1>4. PICK m \in S : \A a \in S : ~(<<a, m>> \in R)
  BY <1>2, <1>3, WFMin
<1>5. \A a \in S : m <= a
  <2> TAKE a \in S
  <2>1. a \in Nat /\ m \in Nat
    BY <1>3
  <2>2. ~(<<a, m>> \in R)
    BY <1>4
  <2>3. ~(a < m)
    BY <1>1, <2>1, <2>2
  <2> QED
    BY <2>1, <2>3
<1> QED
  BY <1>5 DEF Min

\* The suspending thread looks up the owner of the next AS.
LEMMA SuspendNextInv ==
  ASSUME Parts, SuspendNext
  PROVE  Parts'
<1> DEFINE i == Min(susp.mask)
<1>0. /\ susp.pc = "next" /\ susp.mask # {} /\ Alive
      /\ susp' = [pc |-> "release", mask |-> susp.mask \ {i}, i |-> i,
           c |-> asToCtx[i]]
      /\ UNCHANGED <<asFree, asToCtx, asNr, refcount, submit, scheduled,
           privileged, dying, active, activeKctx, atoms, owed,
                 suspending, sched>>
  BY DEF SuspendNext, asVars, flagVars, Alive
<1>1. susp \in SuspStates /\ susp.mask \subseteq AS /\ susp.c = NoCtx
  BY <1>0 DEF Parts, Shape, SuspStates, SuspPlace
<1>2. i \in susp.mask
  BY <1>0, <1>1, MinAs
<1> HIDE DEF i
<1>3. i \in AS /\ asToCtx[i] \in Ctx /\ asToCtx[i] # NoCtx
        /\ refcount[asToCtx[i]] > 0
  BY <1>0, <1>1, <1>2 DEF Parts, SuspPlace, Shape
<1>4. /\ susp' \in SuspStates /\ susp'.pc = "release"
           /\ susp'.mask = susp.mask \ {i}
      /\ susp'.c = asToCtx[i] /\ Alive'
  BY <1>0, <1>1, <1>3 DEF SuspStates, Alive
<1>5. Shape'
  BY <1>0, <1>4 DEF Parts, Shape
<1>6. RefsAccounted'
  <2>1. \A d \in Ctx : PoolHolds(d)' = PoolHolds(d)
          /\ SchedHolds(d)' = SchedHolds(d)
    BY <1>0 DEF PoolHolds, SchedHolds, B
  <2>2. ASSUME NEW d \in Ctx PROVE SuspendHolds(d)' = SuspendHolds(d)
    <3>1. \A a \in susp.mask : asToCtx[a] = d => asNr[d] = a
      BY <1>1 DEF Parts, TablesAgree, CS!OwnersAgree
    <3>2. CASE asToCtx[i] = d
      <4>1. ~\E a \in susp.mask \ {i} : asToCtx[a] = d
        BY <1>2, <3>1, <3>2
      <4> QED
        BY <1>0, <1>1, <1>2, <1>4, <3>2, <4>1 DEF SuspendHolds, B
    <3>3. CASE asToCtx[i] # d
      <4>1. (\E a \in susp.mask \ {i} : asToCtx[a] = d)
              <=> (\E a \in susp.mask : asToCtx[a] = d)
        BY <3>3
      <4> QED
        BY <1>0, <1>1, <1>4, <3>3, <4>1 DEF SuspendHolds, B
    <3> QED
      BY <3>2, <3>3
  <2> QED
    BY <1>0, <2>1, <2>2 DEF Parts, RefsAccounted
<1>7. SubmitBelongsToOwner' /\ ActiveIsScheduled' /\ FlagsAgree'
        /\ RunningIsActive' /\ SchedPlace'
  BY <1>0 DEF Parts, SubmitBelongsToOwner, ActiveIsScheduled, FlagsAgree,
     RunningIsActive, SchedPlace
<1>8. TablesAgree'
  BY <1>0, TablesHold DEF Parts
<1>9. HeldIsScheduled'
  BY <1>0 DEF Parts, HeldIsScheduled, Arriving
<1>10. SuspPlace'
  BY <1>0, <1>3, <1>4 DEF Parts, SuspPlace
<1> QED
  BY <1>5, <1>6, <1>7, <1>8, <1>9, <1>10 DEF Parts

\* A first reference takes a free AS: that of the context, or one whose owner,
\* if any, is idle.
LEMMA TakeKept ==
  ASSUME Parts, Alive, Alive', NEW c \in Ctx, NEW a \in asFree, refcount[c] = 0,
         asNr[c] \in asFree => a = asNr[c],
         CS!TakeAs(c, a), refcount' = [refcount EXCEPT ![c] = 1]
  PROVE  /\ ReferencedKept /\ TablesAgree'
         /\ asNr' \in [Ctx -> AS \cup {NoAS}]
              /\ asToCtx' \in [AS -> Ctx \cup {NoCtx}]
         /\ asFree' = asFree \ {a} /\ asNr'[c] # NoAS
<1>1. /\ asNr \in [Ctx -> AS \cup {NoAS}]
           /\ asToCtx \in [AS -> Ctx \cup {NoCtx}]
      /\ refcount \in [Ctx -> Int] /\ a \in AS /\ a # NoAS
      /\ CS!OwnersAgree /\ CS!FreeIffUnreferenced /\ CS!ReferencedHasAs
  BY DEF Parts, Shape, TablesAgree
<1>2. refcount'[c] = 1 /\ \A d \in Ctx : d # c => refcount'[d] = refcount[d]
  BY <1>1
<1>3. asFree' = asFree \ {a}
  BY DEF CS!TakeAs
<1>4. CASE a = asNr[c]
  <2>1. UNCHANGED <<asToCtx, asNr>> /\ asToCtx[a] = c
    BY <1>1, <1>4 DEF CS!TakeAs, CS!OwnersAgree
  <2>2. ReferencedKept
    BY <2>1 DEF ReferencedKept
  <2>3. CS!OwnersAgree'
    BY <1>1, <2>1 DEF CS!OwnersAgree
  <2>4. CS!FreeIffUnreferenced'
    <3> SUFFICES ASSUME NEW b \in AS PROVE (b \notin asFree'
      <=> CS!Referenced(b)')
      BY DEF CS!FreeIffUnreferenced
    <3>1. CASE b = a
      BY <1>1, <1>2, <1>3, <2>1, <3>1 DEF CS!Referenced
    <3>2. CASE b # a
      <4>1. asToCtx[b] # c
        BY <1>1, <1>4, <3>2 DEF CS!OwnersAgree
      <4> QED
        BY <1>1, <1>2, <1>3, <2>1, <3>2, <4>1 DEF CS!FreeIffUnreferenced,
           CS!Referenced
    <3> QED
      BY <3>1, <3>2
  <2>5. CS!ReferencedHasAs'
    BY <1>1, <1>2, <1>4, <2>1 DEF CS!ReferencedHasAs
  <2> QED
    BY <1>1, <1>3, <1>4, <2>1, <2>2, <2>3, <2>4, <2>5 DEF TablesAgree
<1>5. CASE a # asNr[c]
  \* c would have preferred an AS of its own, so it has none.
  <2>1. asNr[c] = NoAS
    <3>1. asNr[c] \notin asFree
      BY <1>5
    <3>2. asNr[c] \in AS => asToCtx[asNr[c]] = c
      BY <1>1 DEF CS!OwnersAgree
    <3>3. asNr[c] \notin AS
      BY <1>1, <3>1, <3>2 DEF CS!FreeIffUnreferenced, CS!Referenced
    <3> QED
      BY <1>1, <3>3
  <2>2. \A b \in AS : asToCtx[b] # c
    BY <1>1, <2>1 DEF CS!OwnersAgree
  <2>3. asToCtx[a] # NoCtx => ~(refcount[asToCtx[a]] > 0)
    BY <1>1 DEF CS!FreeIffUnreferenced, CS!Referenced
  <2>4. /\ asNr' = [x \in Ctx |-> IF x = c THEN a ELSE IF x = asToCtx[a] THEN NoAS ELSE asNr[x]]
        /\ asToCtx' = [asToCtx EXCEPT ![a] = c]
    BY <1>5 DEF CS!TakeAs
  <2>5. ReferencedKept
    BY <1>1, <2>2, <2>3, <2>4 DEF ReferencedKept
  <2>6. asNr' \in [Ctx -> AS \cup {NoAS}]
          /\ asToCtx' \in [AS -> Ctx \cup {NoCtx}]
    BY <1>1, <2>4
  <2>7. CS!OwnersAgree'
    BY <1>1, <2>2, <2>4 DEF CS!OwnersAgree
  <2>8. CS!FreeIffUnreferenced'
    BY <1>1, <1>2, <1>3, <2>2, <2>4 DEF CS!FreeIffUnreferenced, CS!Referenced
  <2>9. CS!ReferencedHasAs'
    <3> SUFFICES ASSUME NEW d \in Ctx, refcount'[d] > 0 PROVE asNr'[d] # NoAS
      BY DEF CS!ReferencedHasAs
    <3>1. CASE d = c
      BY <1>1, <2>4, <3>1
    <3>2. CASE d # c
      BY <1>1, <1>2, <2>5, <3>2 DEF ReferencedKept, CS!ReferencedHasAs
    <3> QED
      BY <3>1, <3>2
  <2> QED
    BY <1>1, <1>3, <2>4, <2>5, <2>6, <2>7, <2>8, <2>9 DEF TablesAgree
<1> QED
  BY <1>4, <1>5

\* The scheduler looks for an AS: it takes a free one or there is none.
LEMMA RetainAsInv ==
  ASSUME Parts, RetainAs
  PROVE  Parts'
<1> DEFINE c == sched.c
<1>0. /\ Alive /\ sched.pc \in {"retain", "retry"} /\ CS!RetainCtx(c)
      /\ UNCHANGED <<submit, scheduled, privileged, dying, active, activeKctx,
           atoms, owed, suspending, susp>>
  BY DEF RetainAs, At, flagVars
<1>1. c \in Ctx /\ c \in active /\ c \notin scheduled /\ sched \in SchedStates
        /\ Alive'
      /\ (sched.wasIdle => atoms[c] = 0)
  BY <1>0 DEF Parts, SchedPlace, Shape, Alive
<1>2. refcount[c] = 0 /\ atoms[c] = 0 /\ owed[c] = 0
        /\ refcount \in [Ctx -> Int]
  <2>1. refcount[c] \in Int /\ refcount[c] >= atoms[c] + owed[c]
          /\ refcount[c] >= 0 /\ atoms[c] \in Nat /\ owed[c] \in Nat
    BY <1>1, Held DEF B, Parts, Shape
  <2>2. ~(refcount[c] > 0)
    BY <1>0, <1>1 DEF Parts, HeldIsScheduled, Arriving
  <2> QED
    BY <2>1, <2>2 DEF Parts, Shape
<1>3. FlagsAgree' /\ RunningIsActive'
  BY <1>0 DEF Parts, FlagsAgree, RunningIsActive
<1>4. CASE \E a \in CS!FindAs(c) : CS!TakeAs(c, a)
             /\ refcount' = [refcount EXCEPT ![c] = 1]
  <2>1. PICK a \in CS!FindAs(c) : CS!TakeAs(c, a)
               /\ refcount' = [refcount EXCEPT ![c] = 1]
    BY <1>4
  <2>2. a \in asFree /\ (asNr[c] \in asFree => a = asNr[c])
    BY <2>1 DEF CS!FindAs
  <2>3. /\ ReferencedKept /\ TablesAgree'
        /\ asNr' \in [Ctx -> AS \cup {NoAS}]
             /\ asToCtx' \in [AS -> Ctx \cup {NoCtx}]
        /\ asFree' = asFree \ {a} /\ asNr'[c] # NoAS
    BY <1>0, <1>1, <1>2, <2>1, <2>2, TakeKept
  <2>4. Step("assign")
    BY <2>3 DEF RetainAs
  <2>5. /\ sched' \in SchedStates
        /\ sched'.pc = "assign" /\ sched'.c = c /\ sched'.v = sched.v
        /\ sched'.wasIdle <=> sched.wasIdle
    BY <1>1, <2>4, StepTyped DEF Pcs
  <2>6. refcount'[c] = 1 /\ refcount' \in [Ctx -> Int] /\ \A d \in Ctx : d # c
          => refcount'[d] = refcount[d]
    BY <1>1, <1>2, <2>1
  <2> HIDE DEF c
  <2>7. Shape'
    BY <1>0, <2>3, <2>5, <2>6 DEF Parts, Shape
  <2>8. RefsAccounted'
    <3> SUFFICES ASSUME NEW d \in Ctx
                 PROVE  refcount'[d] = PoolHolds(d)' + SchedHolds(d)' + atoms'[d] + owed'[d] + SuspendHolds(d)'
      BY DEF RefsAccounted
    <3>1. PoolHolds(d) \in Nat /\ SuspendHolds(d) \in Nat /\ atoms[d] \in Int
            /\ owed[d] \in Int /\ refcount[d] \in Int
      BY HoldsTyped DEF Parts, Shape
    <3>2. PoolHolds(d)' = PoolHolds(d)
      BY <1>0 DEF PoolHolds, B
    <3>3. SuspendHolds(d)' = SuspendHolds(d)
      BY <1>0, <2>3, KeptHolds DEF SuspendHolds, B
    <3>4. SchedHolds(d) = 0 /\ SchedHolds(d)' = IF d = c THEN 1 ELSE 0
      BY <1>0, <2>5 DEF SchedHolds, B, c
    <3>5. refcount[d] = PoolHolds(d) + SchedHolds(d) + atoms[d] + owed[d] + SuspendHolds(d)
      BY DEF RefsAccounted, Parts
    <3>6. refcount'[d] = refcount[d] + IF d = c THEN 1 ELSE 0
      BY <1>2, <2>6, <3>1
    <3> QED
      BY <1>0, <3>1, <3>2, <3>3, <3>4, <3>5, <3>6
  <2>9. SubmitBelongsToOwner' /\ ActiveIsScheduled'
    BY <1>0, <2>3, KeptSubmit
  <2>10. HeldIsScheduled'
    BY <1>0, <1>1, <2>5, <2>6 DEF Parts, HeldIsScheduled, Arriving
  <2>11. SchedPlace'
    BY <1>0, <1>1, <1>2, <2>3, <2>5, <2>6 DEF SchedPlace
  <2>12. SuspPlace'
    <3>1. \A d \in Ctx : refcount[d] > 0 => refcount'[d] = refcount[d]
      BY <1>2, <2>6
    <3>2. susp.mask \subseteq AS /\ susp.c \in Ctx \cup {NoCtx}
            /\ \A a_1 \in AS : asToCtx[a_1] \in Ctx \cup {NoCtx}
      BY DEF Parts, Shape, SuspStates
    <3>3. \A d \in scheduled : d \in Ctx /\ refcount'[d] = refcount[d]
      BY <3>1, ScheduledHeld
    <3> QED
      BY <1>0, <1>1, <2>3, <3>1, <3>2, <3>3 DEF Parts, SuspPlace, ReferencedKept
  <2> QED
    BY <1>3, <2>3, <2>7, <2>8, <2>9, <2>10, <2>11, <2>12 DEF Parts
<1>5. CASE CS!FindAs(c) = {} /\ UNCHANGED <<asFree, asToCtx, asNr, refcount>>
  <2>1. asNr[c] = NoAS
    <3>1. asNr[c] \notin asFree
      BY <1>5 DEF CS!FindAs
    <3>2. asNr[c] \in AS => asToCtx[asNr[c]] = c
      BY <1>1 DEF Parts, TablesAgree, CS!OwnersAgree
    <3>3. asNr[c] \notin AS
      BY <1>0, <1>1, <1>2, <3>1, <3>2 DEF Parts, TablesAgree,
         CS!FreeIffUnreferenced, CS!Referenced
    <3> QED
      BY <1>1, <3>3 DEF Parts, Shape
  <2>2. \E p \in {"find", "fail"} : Step(p)
    BY <1>0, <1>5, <2>1 DEF RetainAs, Step
  <2>3. /\ sched' \in SchedStates
        /\ sched'.pc \in {"find", "fail"} /\ sched'.c = c /\ sched'.v = sched.v
        /\ sched'.wasIdle <=> sched.wasIdle
    BY <1>1, <2>2, StepTyped DEF Pcs
  <2> HIDE DEF c
  <2>4. Shape'
    BY <1>0, <1>5, <2>3 DEF Parts, Shape
  <2>5. RefsAccounted'
    <3>1. \A d \in Ctx : PoolHolds(d)' = PoolHolds(d)
            /\ SchedHolds(d)' = SchedHolds(d)
            /\ SuspendHolds(d)' = SuspendHolds(d)
      BY <1>0, <1>5, <2>3 DEF PoolHolds, SchedHolds, SuspendHolds, B
    <3> QED
      BY <1>0, <1>5, <3>1 DEF Parts, RefsAccounted
  <2>6. SubmitBelongsToOwner' /\ ActiveIsScheduled'
    BY <1>0, <1>5 DEF Parts, SubmitBelongsToOwner, ActiveIsScheduled
  <2>7. TablesAgree'
    BY <1>0, <1>5, TablesHold DEF Parts
  <2>8. HeldIsScheduled'
    BY <1>0, <1>5 DEF Parts, HeldIsScheduled, Arriving
  <2>9. SchedPlace'
    BY <1>0, <1>1, <2>3 DEF SchedPlace
  <2>10. SuspPlace'
    BY <1>0, <1>5 DEF Parts, SuspPlace, Alive
  <2> QED
    BY <1>3, <2>4, <2>5, <2>6, <2>7, <2>8, <2>9, <2>10 DEF Parts
<1> QED
  BY <1>0, <1>2, <1>4, <1>5 DEF CS!RetainCtx

\* The victim: an owner with nothing but the run pool's reference.
LEMMA FindVictimInv ==
  ASSUME Parts, FindVictim
  PROVE  Parts'
<1> DEFINE cands == {a \in AS : a >= sched.scan /\ Evictable(a)}
           m == Min(cands)
           v == asToCtx[m]
<1>0. /\ Alive /\ sched.pc = "find"
      /\ UNCHANGED <<asFree, asToCtx, asNr, scheduled, privileged, dying,
           active, activeKctx, atoms,
                 owed, suspending, susp>>
  BY DEF FindVictim, At, flagVars
<1>1. sched.c \in Ctx /\ sched.c \in active /\ sched.c \notin scheduled
        /\ sched \in SchedStates /\ Alive'
      /\ (sched.wasIdle => atoms[sched.c] = 0)
  BY <1>0 DEF Parts, SchedPlace, Shape, Alive
<1>2. FlagsAgree' /\ RunningIsActive' /\ ActiveIsScheduled'
  BY <1>0 DEF Parts, FlagsAgree, RunningIsActive, ActiveIsScheduled
<1>3. CASE cands = {}
  <2>1. Step("fail") /\ UNCHANGED <<refcount, submit>>
    BY <1>3 DEF FindVictim
  <2>2. /\ sched' \in SchedStates
        /\ sched'.pc = "fail" /\ sched'.c = sched.c /\ sched'.v = sched.v
        /\ sched'.wasIdle <=> sched.wasIdle
    BY <1>1, <2>1, StepTyped DEF Pcs
  <2>3. Shape'
    BY <1>0, <2>1, <2>2 DEF Parts, Shape
  <2>4. RefsAccounted'
    <3>1. \A d \in Ctx : PoolHolds(d)' = PoolHolds(d)
            /\ SchedHolds(d)' = SchedHolds(d)
            /\ SuspendHolds(d)' = SuspendHolds(d)
      BY <1>0, <2>1, <2>2 DEF PoolHolds, SchedHolds, SuspendHolds, B
    <3> QED
      BY <1>0, <2>1, <3>1 DEF Parts, RefsAccounted
  <2>5. SubmitBelongsToOwner'
    BY <1>0, <2>1 DEF Parts, SubmitBelongsToOwner
  <2>6. TablesAgree'
    BY <1>0, <2>1, TablesHold DEF Parts
  <2>7. HeldIsScheduled' /\ SchedPlace'
    BY <1>0, <1>1, <2>1, <2>2 DEF Parts, HeldIsScheduled, Arriving, SchedPlace
  <2>8. SuspPlace'
    BY <1>0, <2>1 DEF Parts, SuspPlace, Alive
  <2> QED
    BY <1>2, <2>3, <2>4, <2>5, <2>6, <2>7, <2>8 DEF Parts
<1>4. CASE cands # {}
  <2>1. m \in cands
    BY <1>4, MinAs
  <2>2. m \in AS /\ v # NoCtx /\ refcount[v] = 1 /\ v \in Ctx
    BY <2>1 DEF Evictable, Parts, Shape
  <2>3. v \in scheduled
    BY <1>0, <2>2 DEF Parts, HeldIsScheduled, Arriving
  <2>4. AddRefs(v, 1) /\ submit' = submit \ {asNr[v]}
        /\ sched' = [sched EXCEPT !.pc = "evict", !.v = v, !.scan = m + 1]
    BY <1>4 DEF FindVictim
  <2>5. m + 1 \in 0 .. NumAS /\ "evict" \in Pcs
    BY <2>2 DEF Pcs
  <2> HIDE DEF v, m, cands
  <2>6. /\ sched' \in SchedStates
        /\ sched'.pc = "evict" /\ sched'.c = sched.c /\ sched'.v = v
        /\ sched'.wasIdle <=> sched.wasIdle
    BY <1>1, <2>2, <2>4, <2>5 DEF SchedStates
  <2>7. /\ refcount' \in [Ctx -> Int]
        /\ refcount'[v] = refcount[v] + 1
        /\ \A d \in Ctx : d # v => refcount'[d] = refcount[d]
        /\ \A d \in Ctx : refcount'[d] > 0 <=> refcount[d] > 0
        /\ \A d \in Ctx : refcount[d] \in Int /\ refcount'[d] >= refcount[d]
    BY <2>2, <2>4, CountedUp
  <2>8. Shape'
    BY <1>0, <2>4, <2>6, <2>7 DEF Parts, Shape
  <2>9. RefsAccounted'
    <3> SUFFICES ASSUME NEW d \in Ctx
                 PROVE  refcount'[d] = PoolHolds(d)' + SchedHolds(d)' + atoms'[d] + owed'[d] + SuspendHolds(d)'
      BY DEF RefsAccounted
    <3>1. PoolHolds(d) \in Nat /\ SuspendHolds(d) \in Nat /\ atoms[d] \in Int
            /\ owed[d] \in Int /\ refcount[d] \in Int
      BY HoldsTyped DEF Parts, Shape
    <3>2. PoolHolds(d)' = PoolHolds(d) /\ SuspendHolds(d)' = SuspendHolds(d)
      BY <1>0 DEF PoolHolds, SuspendHolds, B
    <3>3. SchedHolds(d) = 0 /\ SchedHolds(d)' = IF d = v THEN 1 ELSE 0
      BY <1>0, <2>6 DEF SchedHolds, B
    <3>4. refcount[d] = PoolHolds(d) + SchedHolds(d) + atoms[d] + owed[d] + SuspendHolds(d)
      BY DEF RefsAccounted, Parts
    <3>5. refcount'[d] = refcount[d] + IF d = v THEN 1 ELSE 0
      BY <2>7, <3>1
    <3> QED
      BY <1>0, <3>1, <3>2, <3>3, <3>4, <3>5
  <2>10. SubmitBelongsToOwner'
    BY <1>0, <2>4 DEF Parts, SubmitBelongsToOwner
  <2>11. TablesAgree'
    BY <1>0, <2>7, TablesHold DEF Parts
  <2>12. HeldIsScheduled' /\ SchedPlace'
    BY <1>0, <1>1, <2>3, <2>6, <2>7 DEF Parts, HeldIsScheduled, Arriving,
       SchedPlace
  <2>13. SuspPlace'
    BY <1>0, <2>7, SuspKept DEF Parts
  <2> QED
    BY <1>2, <2>8, <2>9, <2>10, <2>11, <2>12, <2>13 DEF Parts
<1> QED
  BY <1>3, <1>4

\* The transaction of kbasep_js_schedule_ctx, or its rollback.
LEMMA AssignAsInv ==
  ASSUME Parts, AssignAs
  PROVE  Parts'
<1> DEFINE c == sched.c
<1>0. /\ Alive /\ sched.pc = "assign"
      /\ UNCHANGED <<asToCtx, asNr, privileged, dying, active, atoms, owed,
           suspending, susp>>
  BY DEF AssignAs, At, CS!ReleaseCtx
<1>1. /\ c \in Ctx /\ c \in active /\ c \notin scheduled
           /\ sched \in SchedStates /\ Alive'
      /\ (sched.wasIdle => atoms[c] = 0)
      /\ asNr[c] # NoAS /\ refcount[c] > 0 /\ atoms[c] = 0 /\ owed[c] = 0
  BY <1>0 DEF Parts, SchedPlace, Shape, Alive
<1>2. activeKctx # c
  BY <1>1 DEF Parts, ActiveIsScheduled, Shape
<1>3. asNr[c] \in AS /\ asToCtx[asNr[c]] = c /\ asNr[c] \notin asFree
  BY <1>0, <1>1, HasAs
<1>4. \A d \in Ctx : refcount[d] \in Int /\ atoms[d] \in Int /\ owed[d] \in Int
  BY DEF Parts, Shape
<1>5. refcount[c] = 1 + SuspendHolds(c) /\ SuspendHolds(c) \in Nat
  <2>1. PoolHolds(c) = 0 /\ SchedHolds(c) = 1
    BY <1>0, <1>1 DEF PoolHolds, SchedHolds, B
  <2>2. SuspendHolds(c) \in Nat
    BY HoldsTyped
  <2>3. refcount[c] = PoolHolds(c) + SchedHolds(c) + atoms[c] + owed[c] + SuspendHolds(c)
    BY <1>1 DEF Parts, RefsAccounted
  <2> QED
    BY <1>1, <2>1, <2>2, <2>3
<1>6. CASE c \in dying
  <2>1. CS!ReleaseCtx(c) /\ Step("fail") /\ UNCHANGED <<submit, scheduled,
          activeKctx>>
    BY <1>6 DEF AssignAs
  <2>2. /\ sched' \in SchedStates
        /\ sched'.pc = "fail" /\ sched'.c = c /\ sched'.v = sched.v
        /\ sched'.wasIdle <=> sched.wasIdle
    BY <1>1, <2>1, StepTyped DEF Pcs
  <2>3. ~suspending /\ susp.pc = "off" /\ susp.mask = {} /\ susp.c = NoCtx
    BY <1>6 DEF Parts, SuspPlace, Shape
  <2>4. refcount[c] = 1
    BY <1>1, <1>5, <2>3 DEF SuspendHolds, B
  <2> HIDE DEF c
  <2>5. /\ refcount' \in [Ctx -> Int] /\ refcount'[c] = 0
        /\ \A d \in Ctx : d # c => refcount'[d] = refcount[d]
        /\ asFree' = asFree \cup {asNr[c]}
    BY <1>1, <2>1, <2>4 DEF CS!ReleaseCtx, Parts, Shape
  <2>6. Shape'
    BY <1>0, <1>3, <2>1, <2>2, <2>5 DEF Parts, Shape
  <2>7. RefsAccounted'
    <3> SUFFICES ASSUME NEW d \in Ctx
                 PROVE  refcount'[d] = PoolHolds(d)' + SchedHolds(d)' + atoms'[d] + owed'[d] + SuspendHolds(d)'
      BY DEF RefsAccounted
    <3>1. PoolHolds(d) \in Nat /\ SuspendHolds(d) \in Nat
      BY HoldsTyped
    <3>2. PoolHolds(d)' = PoolHolds(d) /\ SuspendHolds(d)' = SuspendHolds(d)
      BY <1>0, <2>1 DEF PoolHolds, SuspendHolds, B
    <3>3. SchedHolds(d)' = 0 /\ SchedHolds(d) = IF d = c THEN 1 ELSE 0
      BY <1>0, <2>2 DEF SchedHolds, B, c
    <3>4. refcount[d] = PoolHolds(d) + SchedHolds(d) + atoms[d] + owed[d] + SuspendHolds(d)
      BY DEF RefsAccounted, Parts
    <3>5. refcount'[d] = refcount[d] - IF d = c THEN 1 ELSE 0
      BY <1>4, <2>4, <2>5
    <3> QED
      BY <1>0, <1>4, <3>1, <3>2, <3>3, <3>4, <3>5
  <2>8. SubmitBelongsToOwner'
    <3> SUFFICES ASSUME NEW a \in submit PROVE a # asNr[c]
      BY <1>0, <2>1, <2>5 DEF Parts, SubmitBelongsToOwner
    <3> QED
      BY <1>1, <1>3 DEF Parts, SubmitBelongsToOwner
  <2>9. ActiveIsScheduled' /\ FlagsAgree' /\ RunningIsActive'
    BY <1>0, <2>1 DEF Parts, ActiveIsScheduled, FlagsAgree, RunningIsActive
  <2>10. TablesAgree'
    <3>1. CS!OwnersAgree'
      BY <1>0 DEF Parts, TablesAgree, CS!OwnersAgree
    <3>2. CS!ReferencedHasAs'
      BY <1>0, <2>5 DEF Parts, TablesAgree, CS!ReferencedHasAs
    <3>3. CS!FreeIffUnreferenced'
      <4> SUFFICES ASSUME NEW a \in AS PROVE a \notin asFree'
        <=> CS!Referenced(a)'
        BY DEF CS!FreeIffUnreferenced
      <4>1. a \notin asFree <=> CS!Referenced(a)
        BY <1>0 DEF Parts, TablesAgree, CS!FreeIffUnreferenced
      <4>2. CASE a = asNr[c]
        BY <1>0, <1>3, <2>5, <4>2, <1>1 DEF CS!Referenced
      <4>3. CASE a # asNr[c]
        <5>1. asToCtx[a] # c
          BY <1>1, <4>3 DEF Parts, TablesAgree, CS!OwnersAgree
        <5> QED
          BY <1>0, <2>5, <4>1, <4>3, <5>1 DEF CS!Referenced, Parts, Shape
      <4> QED
        BY <4>2, <4>3
    <3> QED
      BY <3>1, <3>2, <3>3 DEF TablesAgree
  <2>11. HeldIsScheduled'
    BY <1>0, <1>1, <2>1, <2>2, <2>5 DEF Parts, HeldIsScheduled, Arriving, c
  <2>12. SchedPlace'
    BY <1>0, <1>1, <2>1, <2>2 DEF SchedPlace
  <2>13. SuspPlace'
    BY <1>0, <2>1, <2>3 DEF Parts, SuspPlace, Alive
  <2> QED
    BY <2>6, <2>7, <2>8, <2>9, <2>10, <2>11, <2>12, <2>13 DEF Parts
<1>7. CASE c \notin dying
  <2> DEFINE n == (IF c \in privileged THEN 1 ELSE 0) + IF suspending THEN 1 ELSE 0
  <2>1. /\ scheduled' = scheduled \cup {c} /\ activeKctx' = c
        /\ UNCHANGED asFree
        /\ \/ suspending /\ submit' = submit \ {asNr[c]} /\ Step("forceout")
           \/ ~suspending /\ submit' = submit \cup {asNr[c]} /\ Step("kick")
    BY <1>2, <1>7 DEF AssignAs
  <2>2. /\ sched' \in SchedStates
        /\ sched'.pc = (IF suspending THEN "forceout" ELSE "kick")
             /\ sched'.c = c /\ sched'.v = sched.v
        /\ sched'.wasIdle <=> sched.wasIdle
    BY <1>1, <2>1, StepTyped DEF Pcs
  <2>3. AddRefs(c, n) /\ n \in Nat
    <3>1. CASE suspending
      BY <1>2, <1>7, <3>1 DEF AssignAs
    <3>2. CASE ~suspending
      BY <1>2, <1>7, <3>2 DEF AssignAs, AddRefs
    <3> QED
      BY <3>1, <3>2
  <2> HIDE DEF c
  <2>4. /\ refcount' \in [Ctx -> Int] /\ refcount'[c] = refcount[c] + n
        /\ \A d \in Ctx : d # c => refcount'[d] = refcount[d]
    <3> HIDE DEF n
    <3> QED
      BY <1>1, <2>3 DEF AddRefs, Parts, Shape
  <2>5. (suspending => privileged = {}) /\ (suspending => n = 1)
    BY DEF Parts, SuspPlace
  <2>6. Shape'
    BY <1>0, <1>1, <1>3, <2>1, <2>2, <2>4 DEF Parts, Shape
  <2>7. RefsAccounted'
    <3> SUFFICES ASSUME NEW d \in Ctx
                 PROVE  refcount'[d] = PoolHolds(d)' + SchedHolds(d)' + atoms'[d] + owed'[d] + SuspendHolds(d)'
      BY DEF RefsAccounted
    <3>1. SuspendHolds(d) \in Nat /\ SuspendHolds(d)' = SuspendHolds(d)
      BY <1>0, HoldsTyped DEF SuspendHolds, B
    <3>2. refcount[d] = PoolHolds(d) + SchedHolds(d) + atoms[d] + owed[d] + SuspendHolds(d)
      BY DEF RefsAccounted, Parts
    <3>3. CASE d = c
      <4>1. PoolHolds(d)' = 1 + IF d \in privileged THEN 1 ELSE 0
        BY <1>0, <2>1, <3>3 DEF PoolHolds, B
      <4>2. SchedHolds(d)' = IF suspending THEN 1 ELSE 0
        BY <2>2, <3>3 DEF SchedHolds, B
      <4> QED
        BY <1>0, <1>1, <1>5, <2>4, <3>1, <3>3, <4>1, <4>2
    <3>4. CASE d # c
      <4>1. PoolHolds(d)' = PoolHolds(d)
        BY <1>0, <2>1, <3>4 DEF PoolHolds, B
      <4>2. SchedHolds(d)' = SchedHolds(d)
        BY <1>0, <2>2, <3>4 DEF SchedHolds, B, c
      <4> QED
        BY <1>0, <2>4, <3>1, <3>2, <3>4, <4>1, <4>2
    <3> QED
      BY <3>3, <3>4
  <2>8. SubmitBelongsToOwner'
    BY <1>0, <1>1, <1>3, <1>7, <2>1 DEF Parts, SubmitBelongsToOwner
  <2>9. ActiveIsScheduled' /\ FlagsAgree' /\ RunningIsActive'
    BY <1>0, <1>1, <2>1 DEF Parts, ActiveIsScheduled, FlagsAgree,
       RunningIsActive
  <2>10. \A d \in Ctx : refcount'[d] >= refcount[d] /\ (refcount'[d] > 0
           <=> refcount[d] > 0)
    <3> HIDE DEF n
    <3> QED
      BY <1>1, <1>4, <2>3, <2>4
  <2>11. TablesAgree'
    BY <1>0, <2>1, <2>10, TablesHold DEF Parts
  <2>12. HeldIsScheduled'
    BY <1>0, <2>1, <2>10 DEF Parts, HeldIsScheduled, Arriving, c
  <2>13. SchedPlace'
    BY <1>0, <1>1, <2>1, <2>2 DEF SchedPlace
  <2>14. SuspPlace'
    <3>1. \A d \in scheduled : d \in Ctx
      BY DEF Parts, Shape
    <3>2. suspending => refcount'[c] >= 2
      BY <1>1, <1>4, <2>4, <2>5
    <3>3. susp.mask \subseteq AS /\ susp.c \in Ctx \cup {NoCtx}
            /\ \A a \in AS : asToCtx[a] \in Ctx \cup {NoCtx}
      BY DEF Parts, Shape, SuspStates
    <3> HIDE DEF n
    <3> QED
      BY <1>0, <1>1, <1>4, <2>1, <2>4, <2>10, <3>1, <3>2, <3>3 DEF Parts,
         SuspPlace
  <2> QED
    BY <2>6, <2>7, <2>8, <2>9, <2>11, <2>12, <2>13, <2>14 DEF Parts
<1> QED
  BY <1>6, <1>7

\* kbasep_js_runpool_release_ctx_internal for a context that another holder
\* than the run pool has a reference to: the context leaves with its last
\* reference, or it stays, referenced.
LEMMA Released ==
  ASSUME Parts, Alive, Alive', NEW c \in scheduled, ReleaseInternal(c),
         refcount[c] >= 2, c \in privileged => refcount[c] >= 3,
         sched.pc # "assign",
         UNCHANGED <<asToCtx, asNr, privileged, dying>>
  PROVE  /\ refcount' \in [Ctx -> Int] /\ asFree' \in SUBSET AS
              /\ submit' \in SUBSET AS
         /\ activeKctx' \in {activeKctx, NoCtx}
         /\ scheduled' \in {scheduled, scheduled \ {c}}
         /\ \A d \in Ctx : d # c => refcount'[d] = refcount[d]
         /\ \A d \in Ctx : PoolHolds(d)' - refcount'[d] = PoolHolds(d) - refcount[d] + IF d = c THEN 1 ELSE 0
         /\ c \in scheduled' => refcount'[c] >= (IF suspending THEN 2 ELSE 1)
              /\ scheduled' = scheduled
         /\ c \notin scheduled' => refcount[c] = 2 /\ refcount'[c] = 0
              /\ asFree' # {} /\ c \notin privileged
         /\ SubmitBelongsToOwner' /\ ActiveIsScheduled' /\ TablesAgree'
         /\ \A d \in Ctx : refcount'[d] > 0 => d \in scheduled'
<1>1. c \in Ctx /\ c # NoCtx /\ refcount[c] \in Int /\ refcount \in [Ctx -> Int]
  BY DEF Parts, Shape
<1>2. asNr[c] \in AS /\ asToCtx[asNr[c]] = c /\ asNr[c] \notin asFree
  BY <1>1, HasAs
<1>3. \A d \in Ctx : refcount[d] > 0 => d \in scheduled
  BY DEF Parts, HeldIsScheduled, Arriving
<1>4. /\ asFree \in SUBSET AS /\ submit \in SUBSET AS
      /\ CS!OwnersAgree /\ CS!FreeIffUnreferenced /\ CS!ReferencedHasAs
  BY DEF Parts, Shape, TablesAgree
<1>5. CASE LeavesRunPool(c)
  <2>1. /\ AddRefs(c, -2)
        /\ asFree' = asFree \cup {asNr[c]}
        /\ submit' = submit \ {asNr[c]}
        /\ activeKctx' = IF activeKctx = c THEN NoCtx ELSE activeKctx
        /\ scheduled' = scheduled \ {c}
        /\ refcount[c] = 2 /\ c \notin privileged
    BY <1>5 DEF ReleaseInternal, LeavesRunPool
  <2>2. /\ refcount' \in [Ctx -> Int] /\ refcount'[c] = 0
        /\ \A d \in Ctx : d # c => refcount'[d] = refcount[d]
    BY <1>1, <2>1 DEF AddRefs
  <2>3. \A d \in Ctx : PoolHolds(d)' - refcount'[d] = PoolHolds(d) - refcount[d] + IF d = c THEN 1 ELSE 0
    <3> TAKE d \in Ctx
    <3>1. CASE d = c
      <4>1. PoolHolds(c) = 1 /\ PoolHolds(c)' = 0
        BY <2>1 DEF PoolHolds, B
      <4> QED
        BY <2>1, <2>2, <3>1, <4>1
    <3>2. CASE d # c
      <4>1. PoolHolds(d)' = PoolHolds(d) /\ PoolHolds(d) \in Nat
        BY <2>1, <3>2, HoldsTyped DEF PoolHolds, B
      <4> QED
        BY <1>1, <2>2, <3>2, <4>1
    <3> QED
      BY <3>1, <3>2
  <2>4. SubmitBelongsToOwner'
    <3> SUFFICES ASSUME NEW a \in submit, a # asNr[c] PROVE asToCtx[a] # c
      BY <2>1 DEF Parts, SubmitBelongsToOwner
    <3> QED
      BY DEF Parts, SubmitBelongsToOwner
  <2>5. ActiveIsScheduled'
    BY <2>1 DEF Parts, ActiveIsScheduled
  <2>6. TablesAgree'
    <3>1. CS!OwnersAgree' /\ CS!ReferencedHasAs'
      BY <1>4, <2>2 DEF CS!OwnersAgree, CS!ReferencedHasAs
    <3>2. CS!FreeIffUnreferenced'
      <4> SUFFICES ASSUME NEW a \in AS PROVE a \notin asFree'
        <=> CS!Referenced(a)'
        BY DEF CS!FreeIffUnreferenced
      <4>1. a \notin asFree <=> CS!Referenced(a)
        BY <1>4 DEF CS!FreeIffUnreferenced
      <4>2. CASE a = asNr[c]
        BY <1>2, <2>1, <2>2, <4>2 DEF CS!Referenced
      <4>3. CASE a # asNr[c]
        <5>1. asToCtx[a] # c
          BY <1>1, <1>4, <4>3 DEF CS!OwnersAgree
        <5> QED
          BY <2>1, <2>2, <4>1, <4>3, <5>1 DEF CS!Referenced, Parts, Shape
      <4> QED
        BY <4>2, <4>3
    <3> QED
      BY <3>1, <3>2 DEF TablesAgree
  <2> QED
    BY <1>2, <1>3, <1>4, <2>1, <2>2, <2>3, <2>4, <2>5, <2>6
<1>6. CASE ~LeavesRunPool(c)
  <2>1. /\ AddRefs(c, -1) /\ asFree' = asFree /\ UNCHANGED <<activeKctx,
             scheduled>>
        /\ \/ submit' = submit
           \/ c \in privileged /\ submit' = submit \cup {asNr[c]}
        /\ suspending => refcount[c] # 2
    BY <1>1, <1>6 DEF ReleaseInternal, LeavesRunPool
  <2>2. /\ refcount' \in [Ctx -> Int] /\ refcount'[c] = refcount[c] - 1
        /\ \A d \in Ctx : d # c => refcount'[d] = refcount[d]
    BY <1>1, <2>1 DEF AddRefs
  <2>3. \A d \in Ctx : PoolHolds(d)' - refcount'[d] = PoolHolds(d) - refcount[d] + IF d = c THEN 1 ELSE 0
    <3> TAKE d \in Ctx
    <3>1. PoolHolds(d)' = PoolHolds(d) /\ PoolHolds(d) \in Nat
            /\ refcount[d] \in Int
      BY <1>1, <2>1, HoldsTyped DEF PoolHolds, B
    <3> QED
      BY <1>1, <2>2, <3>1
  <2>4. SubmitBelongsToOwner' /\ ActiveIsScheduled'
    BY <1>2, <2>1 DEF Parts, SubmitBelongsToOwner, ActiveIsScheduled, FlagsAgree
  <2>5. \A d \in Ctx : refcount'[d] > 0 <=> refcount[d] > 0
    BY <1>1, <2>2
  <2>6. TablesAgree'
    BY <2>1, <2>5, TablesHold DEF Parts
  <2>7. refcount'[c] >= (IF suspending THEN 2 ELSE 1)
    BY <1>1, <2>1, <2>2
  <2> QED
    BY <1>2, <1>3, <1>4, <2>1, <2>2, <2>3, <2>4, <2>5, <2>6, <2>7
<1> QED
  BY <1>5, <1>6

\* The run pool's books balance when the releasing holder is one less.
LEMMA ReleaseBalances ==
  ASSUME Parts, NEW c, refcount' \in [Ctx -> Int],
         \A d \in Ctx : PoolHolds(d)' - refcount'[d] = PoolHolds(d) - refcount[d] + IF d = c THEN 1 ELSE 0,
         \A d \in Ctx : atoms'[d] \in Nat /\ owed'[d] \in Nat
                       /\ SchedHolds(d) + atoms[d] + owed[d] + SuspendHolds(d)
                          = SchedHolds(d)' + atoms'[d] + owed'[d] + SuspendHolds(d)' + IF d = c THEN 1 ELSE 0
  PROVE  RefsAccounted'
<1> SUFFICES ASSUME NEW d \in Ctx
             PROVE  refcount'[d] = PoolHolds(d)' + SchedHolds(d)' + atoms'[d] + owed'[d] + SuspendHolds(d)'
  BY DEF RefsAccounted
<1>1. PoolHolds(d) \in Nat /\ SuspendHolds(d) \in Nat /\ SchedHolds(d) \in Nat
  BY HoldsTyped
<1>2. PoolHolds(d)' \in Nat /\ SuspendHolds(d)' \in Nat
        /\ SchedHolds(d)' \in Nat
  BY DEF PoolHolds, SuspendHolds, SchedHolds, B
<1>3. refcount'[d] \in Int /\ refcount[d] \in Int /\ atoms[d] \in Int
        /\ owed[d] \in Int
  BY DEF Parts, Shape
<1>4. refcount[d] = PoolHolds(d) + SchedHolds(d) + atoms[d] + owed[d] + SuspendHolds(d)
  BY DEF RefsAccounted, Parts
<1>5. PICK e \in Nat : e = IF d = c THEN 1 ELSE 0
  OBVIOUS
<1>6. PoolHolds(d)' - refcount'[d] = PoolHolds(d) - refcount[d] + e
  BY <1>5
<1>7. /\ atoms'[d] \in Nat /\ owed'[d] \in Nat
      /\ SchedHolds(d) + atoms[d] + owed[d] + SuspendHolds(d)
         = SchedHolds(d)' + atoms'[d] + owed'[d] + SuspendHolds(d)' + e
  BY <1>5
<1> QED
  BY <1>1, <1>2, <1>3, <1>4, <1>6, <1>7

\* A release leaves what the suspending thread still holds alone.
LEMMA ReleaseSusp ==
  ASSUME Parts, Alive, Alive', NEW c \in scheduled,
         UNCHANGED <<asToCtx, privileged, dying, suspending>>,
         \/ susp' = susp
         \/ susp.pc = "release" /\ susp'.pc = "next" /\ susp'.mask = susp.mask
              /\ susp'.c = NoCtx,
         refcount' \in [Ctx -> Int],
         scheduled' \in {scheduled, scheduled \ {c}},
         \A d \in Ctx : d # c => refcount'[d] = refcount[d],
         c \in scheduled' => refcount'[c] >= (IF suspending THEN 2 ELSE 1),
         c \notin scheduled' => refcount[c] = 2,
         refcount[c] >= 2 + SuspendHolds(c)'
  PROVE  SuspPlace'
<1>1. /\ susp.mask \subseteq AS /\ susp.c \in Ctx \cup {NoCtx}
           /\ \A a \in AS : asToCtx[a] \in Ctx \cup {NoCtx}
      /\ susp'.mask = susp.mask /\ susp'.c \in {susp.c, NoCtx}
  BY DEF Parts, Shape, SuspStates
<1>2. c \in Ctx /\ c # NoCtx /\ refcount[c] \in Int /\ scheduled \subseteq Ctx
  BY DEF Parts, Shape
<1>3. SuspendHolds(c)' \in Nat
  BY DEF SuspendHolds, B
<1>4. SuspendHolds(c)' > 0 => refcount'[c] > 0
  BY <1>2, <1>3
<1>5. \A a \in susp.mask : asToCtx[a] = c => SuspendHolds(c)' > 0
  BY <1>1 DEF SuspendHolds, B
<1>6. susp'.c = c => SuspendHolds(c)' > 0
  BY DEF SuspendHolds, B
<1>7. \A a \in susp.mask : asToCtx[a] # NoCtx /\ refcount'[asToCtx[a]] > 0
  BY <1>1, <1>4, <1>5 DEF Parts, SuspPlace
<1>8. susp'.c # NoCtx => refcount'[susp'.c] > 0
  BY <1>1, <1>4, <1>6 DEF Parts, SuspPlace
<1>9. susp.pc \in {"next", "release"} => \A d \in scheduled' : refcount'[d] >= 2
  <2> SUFFICES ASSUME susp.pc \in {"next", "release"},
    NEW d \in scheduled' PROVE refcount'[d] >= 2
    OBVIOUS
  <2>1. suspending
    BY DEF Parts, SuspPlace
  <2>2. d \in scheduled
    OBVIOUS
  <2>3. CASE d = c
    BY <2>1, <2>3
  <2>4. CASE d # c
    BY <1>2, <2>2, <2>4 DEF Parts, SuspPlace
  <2> QED
    BY <2>3, <2>4
<1>10. susp'.pc \in {"next", "release"} => susp.pc \in {"next", "release"}
  OBVIOUS
<1>11. /\ suspending' <=> susp'.pc # "off"
       /\ susp'.pc \in {"off", "retain"} => susp'.mask = {}
       /\ susp'.pc = "release" <=> susp'.c # NoCtx
       /\ suspending' => dying' = {} /\ privileged' = {}
  BY DEF Parts, SuspPlace
<1> QED
  BY <1>1, <1>7, <1>8, <1>9, <1>10, <1>11 DEF SuspPlace

\* The scheduling thread releases its victim.
LEMMA EvictVictimInv ==
  ASSUME Parts, EvictVictim
  PROVE  Parts'
<1> DEFINE v == sched.v
           p == IF v \in scheduled' THEN "find" ELSE "retry"
<1>0. /\ Alive /\ sched.pc = "evict" /\ ReleaseInternal(v)
      /\ sched' = [sched EXCEPT !.v = NoCtx, !.pc = p]
      /\ UNCHANGED <<asToCtx, asNr, privileged, dying, active, atoms, owed,
           suspending, susp>>
  BY DEF EvictVictim, At
<1>1. /\ v \in scheduled /\ v \in Ctx /\ sched \in SchedStates /\ Alive'
      /\ sched.c \in Ctx /\ sched.c \in active /\ (sched.wasIdle
           => atoms[sched.c] = 0)
      /\ sched.c \notin scheduled
  BY <1>0 DEF Parts, SchedPlace, Shape, Alive
<1>2. /\ sched' \in SchedStates /\ sched'.pc = p /\ sched'.c = sched.c
           /\ sched'.v = NoCtx
      /\ sched'.wasIdle <=> sched.wasIdle
  <2>1. p \in Pcs
    BY DEF Pcs
  <2> HIDE DEF p, v
  <2> QED
    BY <1>0, <1>1, <2>1 DEF SchedStates
<1>3. \A d \in Ctx : refcount[d] \in Int /\ atoms[d] \in Nat /\ owed[d] \in Nat
  BY DEF Parts, Shape
<1>4. refcount[v] >= 2 + SuspendHolds(v) /\ refcount[v] >= 2
        /\ (v \in privileged => refcount[v] >= 3)
  <2>1. refcount[v] = PoolHolds(v) + SchedHolds(v) + atoms[v] + owed[v] + SuspendHolds(v)
    BY <1>1 DEF Parts, RefsAccounted
  <2>2. SuspendHolds(v) \in Nat
    BY HoldsTyped
  <2>3. SchedHolds(v) = 1
          /\ PoolHolds(v) = 1 + IF v \in privileged THEN 1 ELSE 0
    BY <1>0, <1>1 DEF SchedHolds, PoolHolds, B
  <2> QED
    BY <1>1, <1>3, <2>1, <2>2, <2>3
<1> HIDE DEF v
<1>5. /\ refcount' \in [Ctx -> Int] /\ asFree' \in SUBSET AS
           /\ submit' \in SUBSET AS
      /\ activeKctx' \in {activeKctx, NoCtx}
      /\ scheduled' \in {scheduled, scheduled \ {v}}
      /\ \A d \in Ctx : d # v => refcount'[d] = refcount[d]
      /\ \A d \in Ctx : PoolHolds(d)' - refcount'[d] = PoolHolds(d) - refcount[d] + IF d = v THEN 1 ELSE 0
      /\ v \in scheduled' => refcount'[v] >= (IF suspending THEN 2 ELSE 1)
           /\ scheduled' = scheduled
      /\ v \notin scheduled' => refcount[v] = 2 /\ refcount'[v] = 0
           /\ asFree' # {} /\ v \notin privileged
      /\ SubmitBelongsToOwner' /\ ActiveIsScheduled' /\ TablesAgree'
      /\ \A d \in Ctx : refcount'[d] > 0 => d \in scheduled'
  BY <1>0, <1>1, <1>4, Released
<1>6. Shape'
  BY <1>0, <1>2, <1>5 DEF Parts, Shape
<1>7. RefsAccounted'
  <2>1. \A d \in Ctx : SchedHolds(d)' = 0
          /\ SchedHolds(d) = IF d = v THEN 1 ELSE 0
    BY <1>0, <1>2 DEF SchedHolds, B, v, p
  <2>2. \A d \in Ctx : SuspendHolds(d)' = SuspendHolds(d)
          /\ atoms'[d] = atoms[d] /\ owed'[d] = owed[d]
    BY <1>0 DEF SuspendHolds, B
  <2>3. \A d \in Ctx : SuspendHolds(d) \in Nat
    BY HoldsTyped
  <2>4. \A d \in Ctx : atoms'[d] \in Nat /\ owed'[d] \in Nat
                       /\ SchedHolds(d) + atoms[d] + owed[d] + SuspendHolds(d)
                          = SchedHolds(d)' + atoms'[d] + owed'[d] + SuspendHolds(d)' + IF d = v THEN 1 ELSE 0
    BY <1>3, <2>1, <2>2, <2>3
  <2> QED
    BY <1>5, <2>4, ReleaseBalances
<1>8. HeldIsScheduled'
  BY <1>5 DEF HeldIsScheduled
<1>9. FlagsAgree' /\ RunningIsActive'
  BY <1>0, <1>5 DEF Parts, FlagsAgree, RunningIsActive
<1>10. SchedPlace'
  BY <1>0, <1>1, <1>2, <1>5 DEF SchedPlace, v
<1>11. SuspPlace'
  <2>1. \A d \in Ctx : SuspendHolds(d)' = SuspendHolds(d)
    BY <1>0 DEF SuspendHolds, B
  <2>2. refcount[v] >= 2 + SuspendHolds(v)
    BY <1>4
  <2>3. PICK d \in Ctx : d = v
    BY <1>1
  <2>4. refcount[d] >= 2 + SuspendHolds(d)'
    BY <2>1, <2>2, <2>3
  <2> QED
    BY <1>0, <1>1, <1>3, <1>4, <1>5, <2>3, <2>4, ReleaseSusp
<1> QED
  BY <1>5, <1>6, <1>7, <1>8, <1>9, <1>10, <1>11 DEF Parts

\* The scheduling thread forces the context out that it scheduled in during a
\* suspend.
LEMMA ForceOutInv ==
  ASSUME Parts, ForceOut
  PROVE  Parts'
<1> DEFINE c == sched.c
<1>0. /\ Alive /\ sched.pc = "forceout" /\ ReleaseInternal(c) /\ Step("fail")
      /\ UNCHANGED <<asToCtx, asNr, privileged, dying, active, atoms, owed,
           suspending, susp>>
  BY DEF ForceOut, At
<1>1. /\ c \in scheduled /\ c \in Ctx /\ sched \in SchedStates /\ Alive'
           /\ suspending
      /\ c \in active /\ (sched.wasIdle => atoms[c] = 0)
  BY <1>0 DEF Parts, SchedPlace, Shape, Alive
<1>2. /\ sched' \in SchedStates
      /\ sched'.pc = "fail" /\ sched'.c = c /\ sched'.v = sched.v
      /\ sched'.wasIdle <=> sched.wasIdle
  BY <1>0, <1>1, StepTyped DEF Pcs
<1>3. \A d \in Ctx : refcount[d] \in Int /\ atoms[d] \in Nat /\ owed[d] \in Nat
  BY DEF Parts, Shape
<1>4. refcount[c] >= 2 + SuspendHolds(c) /\ refcount[c] >= 2
        /\ (c \in privileged => refcount[c] >= 3)
  <2>1. refcount[c] = PoolHolds(c) + SchedHolds(c) + atoms[c] + owed[c] + SuspendHolds(c)
    BY <1>1 DEF Parts, RefsAccounted
  <2>2. SuspendHolds(c) \in Nat
    BY HoldsTyped
  <2>3. SchedHolds(c) = 1
          /\ PoolHolds(c) = 1 + IF c \in privileged THEN 1 ELSE 0
    BY <1>0, <1>1 DEF SchedHolds, PoolHolds, B
  <2> QED
    BY <1>1, <1>3, <2>1, <2>2, <2>3
<1> HIDE DEF c
<1>5. /\ refcount' \in [Ctx -> Int] /\ asFree' \in SUBSET AS
           /\ submit' \in SUBSET AS
      /\ activeKctx' \in {activeKctx, NoCtx}
      /\ scheduled' \in {scheduled, scheduled \ {c}}
      /\ \A d \in Ctx : d # c => refcount'[d] = refcount[d]
      /\ \A d \in Ctx : PoolHolds(d)' - refcount'[d] = PoolHolds(d) - refcount[d] + IF d = c THEN 1 ELSE 0
      /\ c \in scheduled' => refcount'[c] >= (IF suspending THEN 2 ELSE 1)
           /\ scheduled' = scheduled
      /\ c \notin scheduled' => refcount[c] = 2 /\ refcount'[c] = 0
           /\ asFree' # {} /\ c \notin privileged
      /\ SubmitBelongsToOwner' /\ ActiveIsScheduled' /\ TablesAgree'
      /\ \A d \in Ctx : refcount'[d] > 0 => d \in scheduled'
  BY <1>0, <1>1, <1>4, Released
<1>6. Shape'
  BY <1>0, <1>2, <1>5 DEF Parts, Shape
<1>7. RefsAccounted'
  <2>1. \A d \in Ctx : SchedHolds(d)' = 0
          /\ SchedHolds(d) = IF d = c THEN 1 ELSE 0
    BY <1>0, <1>2 DEF SchedHolds, B, c
  <2>2. \A d \in Ctx : SuspendHolds(d)' = SuspendHolds(d)
          /\ atoms'[d] = atoms[d] /\ owed'[d] = owed[d]
    BY <1>0 DEF SuspendHolds, B
  <2>3. \A d \in Ctx : SuspendHolds(d) \in Nat
    BY HoldsTyped
  <2>4. \A d \in Ctx : atoms'[d] \in Nat /\ owed'[d] \in Nat
                       /\ SchedHolds(d) + atoms[d] + owed[d] + SuspendHolds(d)
                          = SchedHolds(d)' + atoms'[d] + owed'[d] + SuspendHolds(d)' + IF d = c THEN 1 ELSE 0
    BY <1>3, <2>1, <2>2, <2>3
  <2> QED
    BY <1>5, <2>4, ReleaseBalances
<1>8. HeldIsScheduled'
  BY <1>5 DEF HeldIsScheduled
<1>9. FlagsAgree' /\ RunningIsActive'
  BY <1>0, <1>5 DEF Parts, FlagsAgree, RunningIsActive
<1>10. SchedPlace'
  BY <1>0, <1>1, <1>2 DEF SchedPlace
<1>11. SuspPlace'
  <2>1. \A d \in Ctx : SuspendHolds(d)' = SuspendHolds(d)
    BY <1>0 DEF SuspendHolds, B
  <2>2. refcount[c] >= 2 + SuspendHolds(c)
    BY <1>4
  <2>3. PICK d \in Ctx : d = c
    BY <1>1
  <2>4. refcount[d] >= 2 + SuspendHolds(d)'
    BY <2>1, <2>2, <2>3
  <2> QED
    BY <1>0, <1>1, <1>3, <1>4, <1>5, <2>3, <2>4, ReleaseSusp
<1> QED
  BY <1>5, <1>6, <1>7, <1>8, <1>9, <1>10, <1>11 DEF Parts

\* A worker that is done with a context releases it.
LEMMA ReleaseInv ==
  ASSUME Parts, NEW c \in Ctx, Release(c)
  PROVE  Parts'
<1>0. /\ Alive /\ sched.pc = "idle" /\ owed[c] > 0
           /\ owed' = [owed EXCEPT ![c] = @ - 1] /\ ReleaseInternal(c)
      /\ UNCHANGED <<asToCtx, asNr, privileged, dying, active, atoms,
           suspending, sched, susp>>
  BY DEF Release, QueueMutexFree, At
<1>1. \A d \in Ctx : refcount[d] \in Int /\ atoms[d] \in Nat /\ owed[d] \in Nat
  BY DEF Parts, Shape
<1>2. c \in scheduled /\ Alive'
  <2>1. refcount[c] > 0
    BY <1>0, <1>1, Held DEF B
  <2> QED
    BY <1>0, <2>1 DEF Parts, HeldIsScheduled, Arriving, Alive
<1>3. /\ owed' \in [Ctx -> 0 .. MaxOwed]
      /\ \A d \in Ctx : owed'[d] = owed[d] - IF d = c THEN 1 ELSE 0
  <2>1. owed[c] - 1 \in 0 .. MaxOwed
    BY <1>0, <1>1 DEF Parts, Shape
  <2> QED
    BY <1>0, <1>1, <2>1 DEF Parts, Shape
<1>4. refcount[c] >= 2 + SuspendHolds(c) /\ refcount[c] >= 2
        /\ (c \in privileged => refcount[c] >= 3)
  <2>1. refcount[c] = PoolHolds(c) + SchedHolds(c) + atoms[c] + owed[c] + SuspendHolds(c)
    BY <1>1 DEF Parts, RefsAccounted
  <2>2. SuspendHolds(c) \in Nat /\ SchedHolds(c) \in Nat
    BY HoldsTyped
  <2>3. PoolHolds(c) = 1 + IF c \in privileged THEN 1 ELSE 0
    BY <1>2 DEF PoolHolds, B
  <2> QED
    BY <1>0, <1>1, <2>1, <2>2, <2>3
<1>5. /\ refcount' \in [Ctx -> Int] /\ asFree' \in SUBSET AS
           /\ submit' \in SUBSET AS
      /\ activeKctx' \in {activeKctx, NoCtx}
      /\ scheduled' \in {scheduled, scheduled \ {c}}
      /\ \A d \in Ctx : d # c => refcount'[d] = refcount[d]
      /\ \A d \in Ctx : PoolHolds(d)' - refcount'[d] = PoolHolds(d) - refcount[d] + IF d = c THEN 1 ELSE 0
      /\ c \in scheduled' => refcount'[c] >= (IF suspending THEN 2 ELSE 1)
           /\ scheduled' = scheduled
      /\ c \notin scheduled' => refcount[c] = 2 /\ refcount'[c] = 0
           /\ asFree' # {} /\ c \notin privileged
      /\ SubmitBelongsToOwner' /\ ActiveIsScheduled' /\ TablesAgree'
      /\ \A d \in Ctx : refcount'[d] > 0 => d \in scheduled'
  BY <1>0, <1>2, <1>4, Released
<1>6. Shape'
  BY <1>0, <1>3, <1>5 DEF Parts, Shape
<1>7. RefsAccounted'
  <2>1. \A d \in Ctx : SchedHolds(d)' = SchedHolds(d)
          /\ SuspendHolds(d)' = SuspendHolds(d) /\ atoms'[d] = atoms[d]
    BY <1>0 DEF SchedHolds, SuspendHolds, B
  <2>2. \A d \in Ctx : SuspendHolds(d) \in Nat /\ SchedHolds(d) \in Nat
    BY HoldsTyped
  <2>3. \A d \in Ctx : atoms'[d] \in Nat /\ owed'[d] \in Nat
                       /\ SchedHolds(d) + atoms[d] + owed[d] + SuspendHolds(d)
                          = SchedHolds(d)' + atoms'[d] + owed'[d] + SuspendHolds(d)' + IF d = c THEN 1 ELSE 0
    BY <1>1, <1>3, <2>1, <2>2
  <2> QED
    BY <1>5, <2>3, ReleaseBalances
<1>8. HeldIsScheduled'
  BY <1>5 DEF HeldIsScheduled
<1>9. FlagsAgree' /\ RunningIsActive' /\ SchedPlace'
  BY <1>0, <1>5 DEF Parts, FlagsAgree, RunningIsActive, SchedPlace
<1>10. SuspPlace'
  <2>1. \A d \in Ctx : SuspendHolds(d)' = SuspendHolds(d)
    BY <1>0 DEF SuspendHolds, B
  <2>2. refcount[c] >= 2 + SuspendHolds(c)
    BY <1>4
  <2>3. PICK d \in Ctx : d = c
    BY <1>0
  <2>4. refcount[d] >= 2 + SuspendHolds(d)'
    BY <2>1, <2>2, <2>3
  <2> QED
    BY <1>0, <1>2, <1>4, <1>5, <2>3, <2>4, ReleaseSusp
<1> QED
  BY <1>5, <1>6, <1>7, <1>8, <1>9, <1>10 DEF Parts

\* The suspending thread releases the owner it has just looked up.
LEMMA SuspendReleaseInv ==
  ASSUME Parts, SuspendRelease
  PROVE  Parts'
<1>a. PICK c : c = susp.c
  OBVIOUS
<1>0. /\ Alive /\ sched.pc = "idle" /\ susp.pc = "release" /\ ReleaseInternal(c)
      /\ susp' = [susp EXCEPT !.pc = "next", !.i = 0, !.c = NoCtx]
      /\ UNCHANGED <<asToCtx, asNr, privileged, dying, active, atoms, owed,
           suspending, sched>>
  BY <1>a DEF SuspendRelease, QueueMutexFree, At
<1>1. \A d \in Ctx : refcount[d] \in Int /\ atoms[d] \in Nat /\ owed[d] \in Nat
  BY DEF Parts, Shape
<1>2. /\ susp \in SuspStates /\ susp' \in SuspStates /\ susp'.pc = "next"
           /\ susp'.c = NoCtx /\ susp'.mask = susp.mask
      /\ susp.mask \subseteq AS /\ Alive' /\ suspending
  <2>1. susp \in SuspStates /\ suspending
    BY <1>0 DEF Parts, Shape, SuspPlace
  <2>2. 0 \in AS
    OBVIOUS
  <2> QED
    BY <1>0, <2>1, <2>2 DEF SuspStates, Alive
<1>3. c \in Ctx /\ c # NoCtx /\ c \in scheduled
  <2>1. c \in Ctx /\ c # NoCtx /\ refcount[c] > 0
    BY <1>0, <1>2, <1>a DEF Parts, SuspPlace, SuspStates
  <2> QED
    BY <1>0, <2>1 DEF Parts, HeldIsScheduled, Arriving
<1>4. \A d \in Ctx : SuspendHolds(d)' \in Nat
        /\ SuspendHolds(d) = SuspendHolds(d)' + IF d = c THEN 1 ELSE 0
  BY <1>0, <1>2, <1>a DEF SuspendHolds, B
<1>5. refcount[c] >= 2 + SuspendHolds(c)' /\ refcount[c] >= 2
        /\ (c \in privileged => refcount[c] >= 3)
  <2>1. refcount[c] = PoolHolds(c) + SchedHolds(c) + atoms[c] + owed[c] + SuspendHolds(c)
    BY <1>3 DEF Parts, RefsAccounted
  <2>2. SchedHolds(c) \in Nat
    BY HoldsTyped
  <2>3. PoolHolds(c) = 1 + IF c \in privileged THEN 1 ELSE 0
    BY <1>3 DEF PoolHolds, B
  <2>4. SuspendHolds(c)' \in Nat /\ SuspendHolds(c) = SuspendHolds(c)' + 1
    BY <1>3, <1>4
  <2> QED
    BY <1>1, <1>3, <2>1, <2>2, <2>3, <2>4
<1>6. /\ refcount' \in [Ctx -> Int] /\ asFree' \in SUBSET AS
           /\ submit' \in SUBSET AS
      /\ activeKctx' \in {activeKctx, NoCtx}
      /\ scheduled' \in {scheduled, scheduled \ {c}}
      /\ \A d \in Ctx : d # c => refcount'[d] = refcount[d]
      /\ \A d \in Ctx : PoolHolds(d)' - refcount'[d] = PoolHolds(d) - refcount[d] + IF d = c THEN 1 ELSE 0
      /\ c \in scheduled' => refcount'[c] >= (IF suspending THEN 2 ELSE 1)
           /\ scheduled' = scheduled
      /\ c \notin scheduled' => refcount[c] = 2 /\ refcount'[c] = 0
           /\ asFree' # {} /\ c \notin privileged
      /\ SubmitBelongsToOwner' /\ ActiveIsScheduled' /\ TablesAgree'
      /\ \A d \in Ctx : refcount'[d] > 0 => d \in scheduled'
  BY <1>0, <1>2, <1>3, <1>5, Released
<1>7. Shape'
  BY <1>0, <1>2, <1>6 DEF Parts, Shape
<1>8. RefsAccounted'
  <2>1. \A d \in Ctx : SchedHolds(d)' = SchedHolds(d) /\ atoms'[d] = atoms[d]
          /\ owed'[d] = owed[d]
    BY <1>0 DEF SchedHolds, B
  <2>2. \A d \in Ctx : SuspendHolds(d) \in Nat /\ SchedHolds(d) \in Nat
    BY HoldsTyped
  <2>3. \A d \in Ctx : atoms'[d] \in Nat /\ owed'[d] \in Nat
                       /\ SchedHolds(d) + atoms[d] + owed[d] + SuspendHolds(d)
                          = SchedHolds(d)' + atoms'[d] + owed'[d] + SuspendHolds(d)' + IF d = c THEN 1 ELSE 0
    BY <1>1, <1>4, <2>1, <2>2
  <2> QED
    BY <1>6, <2>3, ReleaseBalances
<1>9. HeldIsScheduled'
  BY <1>6 DEF HeldIsScheduled
<1>10. FlagsAgree' /\ RunningIsActive' /\ SchedPlace'
  BY <1>0, <1>6 DEF Parts, FlagsAgree, RunningIsActive, SchedPlace
<1>11. SuspPlace'
  BY <1>0, <1>2, <1>3, <1>5, <1>6, ReleaseSusp
<1> QED
  BY <1>6, <1>7, <1>8, <1>9, <1>10, <1>11 DEF Parts

----------------------------------------------------------------------------

\* Nothing happens.
LEMMA StutterInv ==
  ASSUME Parts, UNCHANGED vars
  PROVE  Parts'
<1> USE DEF vars
<1>1. Shape' /\ RefsAccounted'
  BY DEF Parts, Shape, RefsAccounted, PoolHolds, SchedHolds, SuspendHolds, B
<1>2. SubmitBelongsToOwner' /\ ActiveIsScheduled' /\ HeldIsScheduled'
        /\ FlagsAgree' /\ RunningIsActive'
  BY DEF Parts, SubmitBelongsToOwner, ActiveIsScheduled, HeldIsScheduled,
     FlagsAgree, RunningIsActive, Arriving, Alive
<1>3. TablesAgree'
  BY TablesHold DEF Parts, Alive
<1>4. SchedPlace' /\ SuspPlace'
  BY DEF Parts, SchedPlace, SuspPlace, Alive
<1> QED
  BY <1>1, <1>2, <1>3, <1>4 DEF Parts

\* Every step preserves the invariant.
LEMMA NextInv == Parts /\ [Next]_vars => Parts'
<1> SUFFICES ASSUME Parts, [Next]_vars PROVE Parts'
  OBVIOUS
<1>1. CASE UNCHANGED vars
  BY <1>1, StutterInv
<1>2. ASSUME NEW c \in Ctx,
             \/ Pick(c) \/ FastStart(c) \/ AtomDone(c) \/ Release(c)
             \/ SchedulePrivileged(c) \/ ReleasePrivileged(c) \/ Zap(c) \/ Destroy(c)
      PROVE  Parts'
  BY <1>2, PickInv, FastStartInv, AtomDoneInv, ReleaseInv,
     SchedulePrivilegedInv, ReleasePrivilegedInv, ZapInv, DestroyInv
<1>3. ASSUME NEW a \in AS, Fault(a) PROVE Parts'
  BY <1>3, FaultInv
<1>4. CASE SchedNext
  BY <1>4, UseCtxInv, RetainAsInv, FindVictimInv, EvictVictimInv, AssignAsInv,
     ForceOutInv, KickInv, GiveUpInv DEF SchedNext
<1>5. CASE SuspNext
  BY <1>5, SuspendRetainInv, SuspendNextInv, SuspendReleaseInv, ResumeInv
     DEF SuspNext
<1>6. CASE SuspendStart \/ Restore
  BY <1>6, SuspendStartInv, RestoreInv
<1>7. CASE Stopped
  BY <1>7, StutterInv DEF Stopped
<1> HIDE DEF AS, CS!AS
<1> QED
  BY <1>1, <1>2, <1>3, <1>4, <1>5, <1>6, <1>7 DEF Next

\* The inductive invariant holds in every reachable state.
THEOREM PoolInvariant == Spec => []PoolInv
<1>1. Spec => []Parts
  BY InitInv, NextInv, PTL DEF Spec
<1> QED
  BY <1>1, PartsInv, PTL

\* Every reference to a context has a holder that will drop it; who may submit
\* owns its AS and is not being destroyed; the active context is scheduled in.
THEOREM LeasesAreSound == Spec => []LeasesSound
<1>1. PoolInv => LeasesSound
  BY DEF PoolInv
<1> QED
  BY <1>1, PoolInvariant, PTL

\* The second attempt of kbasep_js_schedule_ctx finds the AS of the victim, and
\* a suspend that is through leaves nobody in the run pool.
THEOREM RetriesSucceedAndSuspendsEmpty == Spec => []RetryAndSuspend
<1>1. ASSUME Parts PROVE RetrySucceeds
  <2> SUFFICES ASSUME asFree # {} PROVE CS!FindAs(sched.c) # {}
    BY <1>1 DEF Parts, SchedPlace, RetrySucceeds
  <2>1. asFree \in SUBSET AS
    BY <1>1 DEF Parts, Shape
  <2>2. Min(asFree) \in asFree /\ \A a \in asFree : Min(asFree) <= a
    BY <2>1, MinAs
  <2> QED
    BY <2>2 DEF CS!FindAs
<1>2. ASSUME Parts PROVE SuspendEmptiesRunpool
  BY <1>2, EmptyPool DEF SuspendEmptiesRunpool
<1>3. PoolInv => RetryAndSuspend
  BY <1>1, <1>2, PartsInv DEF RetryAndSuspend
<1> QED
  BY <1>3, PoolInvariant, PTL

\* No step takes the AS from a context that runs atoms.
THEOREM RunningContextsKeepTheirAs == Spec => RunningKeepsAs
<1> DEFINE Keeps == \A c \in Ctx : atoms[c] > 0 => asNr'[c] = asNr[c]
<1>1. Parts /\ [Next]_vars => [Keeps]_vars
  <2> SUFFICES ASSUME Parts, Next PROVE Keeps
    OBVIOUS
  <2> SUFFICES ASSUME NEW c \in Ctx, atoms[c] > 0 PROVE asNr'[c] = asNr[c]
    OBVIOUS
  <2>1. refcount[c] > 0
    <3>1. atoms[c] \in Nat /\ owed[c] \in Nat
      BY DEF Parts, Shape
    <3> QED
      BY <3>1, Held DEF B
  <2>2. CASE Restore \/ Resume
    <3>1. Alive /\ CS!DropIdleOwners /\ UNCHANGED <<asFree, refcount>>
      BY <2>2 DEF Restore, Resume, Suspended, Alive
    <3> QED
      BY <2>1, <3>1, DropIdle DEF ReferencedKept
  <2>3. CASE RetainAs
    <3> DEFINE x == sched.c
    <3>0. Alive /\ Alive' /\ x \in Ctx /\ x \notin scheduled /\ ~Arriving(x)
      BY <2>3 DEF RetainAs, At, Parts, SchedPlace, Alive, Arriving
    <3>1. CASE UNCHANGED asNr
      BY <3>1
    <3>2. CASE \E a \in CS!FindAs(x) : CS!TakeAs(x, a) /\ refcount[x] = 0
                 /\ refcount' = [refcount EXCEPT ![x] = 1]
      <4>1. PICK a \in CS!FindAs(x) : CS!TakeAs(x, a) /\ refcount[x] = 0
                   /\ refcount' = [refcount EXCEPT ![x] = 1]
        BY <3>2
      <4>2. a \in asFree /\ (asNr[x] \in asFree => a = asNr[x])
        BY <4>1 DEF CS!FindAs
      <4>3. ReferencedKept
        BY <3>0, <4>1, <4>2, TakeKept
      <4> QED
        BY <2>1, <4>3 DEF ReferencedKept
    <3>3. CS!RetainCtx(x)
      BY <2>3 DEF RetainAs
    <3> QED
      BY <3>1, <3>2, <3>3 DEF CS!RetainCtx
  <2>4. ASSUME NEW x \in Ctx, Destroy(x) PROVE asNr'[c] = asNr[c]
    <3>1. x # c
      BY <2>4 DEF Destroy
    <3> QED
      BY <2>4, <3>1 DEF Destroy, CS!RemoveCtx, Parts, Shape
  <2>5. CASE UNCHANGED asNr
    BY <2>5
  <2>6. \/ Restore \/ Resume \/ RetainAs \/ \E x \in Ctx : Destroy(x)
        \/ UNCHANGED asNr
    BY DEF Next, SchedNext, SuspNext, Pick, FastStart, AtomDone, Release,
       SchedulePrivileged, ReleasePrivileged,
           Zap, Fault, UseCtx, FindVictim, EvictVictim, AssignAs, ForceOut,
             Kick, GiveUp, SuspendStart,
           SuspendRetain, SuspendNext, SuspendRelease, Stopped, asVars, vars,
             CS!ReleaseCtx
  <2> QED
    BY <2>2, <2>3, <2>4, <2>5, <2>6
<1>2. PoolInv <=> Parts
  BY PartsInv
<1> QED
  BY <1>1, <1>2, PoolInvariant, PTL DEF Spec, RunningKeepsAs
=============================================================================
