-------------------------- MODULE SchedTimerProofs --------------------------
(****************************************************************************)
(* Proofs about three units of the driver: SchedTimer, for all timeouts,    *)
(* periods and contexts; AsPoke, for any finite set of atoms; JobFault, for *)
(* any atoms, contexts and number of reads.                                 *)
(****************************************************************************)
EXTENDS SchedTimer, Sequences, FiniteSetTheorems, WellFoundedInduction, TLAPS

\* The state the configuration, the callback and its starter share.
TimerTyped ==
  /\ timer \in [running : BOOLEAN, at : {"off", "armed", "fired"}]
  /\ sync \in {"free", "check", "lower", "cancel", "second", "start"}
  /\ owed \in Nat

\* Where the starter of the timer is tells how far it has got, and whether the
\* timer is needed if nobody has changed a count since it looked.
TimerPlace ==
  /\ sync \in {"free", "check", "lower", "second"} =>
       (timer.running <=> timer.at # "off")
  /\ sync = "cancel" => ~timer.running
  /\ sync = "start" => timer.running /\ timer.at = "off"
  /\ owed = 0 =>
       /\ sync = "free" => (timer.running <=> ShouldRun)
       /\ sync = "second" /\ timer.running => ShouldRun
       /\ sync = "start" => ShouldRun

Started == TimerTyped /\ TimerPlace

\* Whether the timer is needed only changes with the contexts or a suspend.
LEMMA StillNeeded ==
  ASSUME UNCHANGED <<contexts, suspend_timer>>
  PROVE  ShouldRun' <=> ShouldRun
BY DEF contexts, ShouldRun

\* The timer is off at first, and not needed.
LEMMA InitStarted ==
  ASSUME Init PROVE Started
<1>1. ~ShouldRun
  <2>1. Cardinality(runnable) = 0 /\ Cardinality((Compute \cap scheduled) \ turned) = 0
    BY FS_EmptySet DEF Init
  <2> QED
    BY <2>1 DEF ShouldRun
<1> QED
  BY <1>1 DEF Init, Started, TimerTyped, TimerPlace

\* A count that changes is owed a report; a suspend looks again.
LEMMA ChangeStarted ==
  ASSUME Started, FaultyPaths = {},
         \/ \E c \in Ctxs : CountChange(c) \/ AttrChange(c)
         \/ SyncBegin \/ Suspend \/ Resume
  PROVE  Started'
<1>1. CASE \E c \in Ctxs : CountChange(c) \/ AttrChange(c)
  <2>1. owed' = owed + 1 /\ timer' = timer /\ sync' = sync
    BY <1>1 DEF CountChange, AttrChange
  <2> QED
    BY <2>1 DEF Started, TimerTyped, TimerPlace
<1>2. CASE SyncBegin \/ Suspend \/ Resume
  <2>1. /\ sync = "free" /\ sync' = "check" /\ timer' = timer
    BY <1>2 DEF SyncBegin, Suspend, Resume
  <2>2. owed' \in Nat
    BY <1>2 DEF SyncBegin, Suspend, Resume, Started, TimerTyped
  <2> QED
    BY <2>1, <2>2 DEF Started, TimerTyped, TimerPlace
<1> QED
  BY <1>1, <1>2

\* The starter takes its steps.
LEMMA SyncStarted ==
  ASSUME Started,
         SyncCheck \/ SyncLower \/ SyncCancel \/ SyncSecond \/ SyncStart
  PROVE  Started'
<1>1. UNCHANGED <<contexts, suspend_timer, owed>>
  BY DEF SyncCheck, SyncLower, SyncCancel, SyncSecond, SyncStart
<1>2. ShouldRun' <=> ShouldRun
  BY <1>1, StillNeeded
<1>3. timer \in [running : BOOLEAN, at : {"off", "armed", "fired"}]
  BY DEF Started, TimerTyped
<1>4. CASE SyncCheck
  <2>1. UNCHANGED timer /\ sync = "check"
          /\ sync' = IF ShouldRun THEN "second" ELSE "lower"
    BY <1>4 DEF SyncCheck
  <2> QED
    BY <2>1, <1>1, <1>2 DEF Started, TimerTyped, TimerPlace
<1>5. CASE SyncLower
  <2>1. timer' \in [running : BOOLEAN, at : {"off", "armed", "fired"}]
          /\ timer'.running = FALSE /\ sync' = "cancel"
    BY <1>5, <1>3 DEF SyncLower
  <2> QED
    BY <2>1, <1>1 DEF Started, TimerTyped, TimerPlace
<1>6. CASE SyncCancel
  <2>1. /\ timer' \in [running : BOOLEAN, at : {"off", "armed", "fired"}]
        /\ timer'.running = timer.running /\ timer'.at = "off"
        /\ sync = "cancel" /\ sync' = "second"
    BY <1>6, <1>3 DEF SyncCancel, Cancelled
  <2> QED
    BY <2>1, <1>1 DEF Started, TimerTyped, TimerPlace
<1>7. CASE SyncSecond
  <2>1. /\ timer' \in [running : BOOLEAN, at : {"off", "armed", "fired"}]
        /\ timer'.running <=> timer.running \/ SecondLook
        /\ timer'.at = timer.at
        /\ sync = "second" /\ sync' = IF SecondLook THEN "start" ELSE "free"
    BY <1>7, <1>3 DEF SyncSecond
  <2> QED
    BY <2>1, <1>1, <1>2 DEF Started, TimerTyped, TimerPlace, SecondLook
<1>8. CASE SyncStart
  <2>1. /\ timer' \in [running : BOOLEAN, at : {"off", "armed", "fired"}]
        /\ timer'.running = timer.running /\ timer'.at = "armed"
        /\ sync = "start" /\ sync' = "free"
    BY <1>8, <1>3 DEF SyncStart
  <2> QED
    BY <2>1, <1>1, <1>2 DEF Started, TimerTyped, TimerPlace
<1> QED
  BY <1>4, <1>5, <1>6, <1>7, <1>8

\* The timer expires, its callback starts it again unless it is to stop.
LEMMA CallbackStarted ==
  ASSUME Started, Expire \/ Callback PROVE Started'
<1>1. ShouldRun' <=> ShouldRun
  BY StillNeeded DEF Expire, Callback
<1>2. timer \in [running : BOOLEAN, at : {"off", "armed", "fired"}]
  BY DEF Started, TimerTyped
<1>3. /\ timer' \in [running : BOOLEAN, at : {"off", "armed", "fired"}]
      /\ timer'.running = timer.running /\ timer.at # "off"
  <2>1. \E pc \in {"off", "armed", "fired"} : timer' = [timer EXCEPT !.at = pc]
    BY <1>2 DEF Expire, Callback
  <2>2. timer.at # "off"
    BY DEF Expire, Callback
  <2> QED
    BY <1>2, <2>1, <2>2
<1>4. UNCHANGED <<owed, sync>>
  BY DEF Expire, Callback
<1>5. CASE Expire
  <2>1. timer'.at = "fired"
    BY <1>2, <1>5 DEF Expire
  <2> QED
    BY <2>1, <1>1, <1>3, <1>4 DEF Started, TimerTyped, TimerPlace
<1>6. CASE Callback
  <2>1. timer'.at = IF timer.running THEN "armed" ELSE "off"
    BY <1>2, <1>6 DEF Callback
  <2> QED
    BY <2>1, <1>1, <1>3, <1>4 DEF Started, TimerTyped, TimerPlace
<1> QED
  BY <1>5, <1>6

\* Every step keeps the timer under way.
LEMMA NextStarted ==
  ASSUME Started, FaultyPaths = {}, [Next]_vars PROVE Started'
<1>1. CASE UNCHANGED vars
  <2>1. UNCHANGED <<contexts, suspend_timer, timer, sync, owed>>
    BY <1>1 DEF vars, contexts
  <2> QED
    BY <2>1, StillNeeded DEF Started, TimerTyped, TimerPlace
<1>2. CASE \/ \E c \in Classes : Pull(c)
           \/ Leave
           \/ \E c \in Classes, w \in Writes : SetTimeouts(c, w)
           \/ \E ms \in Periods : SetPeriod(ms)
  <2>1. UNCHANGED <<contexts, suspend_timer, timer, sync, owed>>
    BY <1>2 DEF Pull, Leave, SetTimeouts, SetPeriod
  <2> QED
    BY <2>1, StillNeeded DEF Started, TimerTyped, TimerPlace
<1> QED
  BY <1>1, <1>2, ChangeStarted, SyncStarted, CallbackStarted DEF Next
-----------------------------------------------------------------------------
(* The timeouts.                                                            *)

\* The larger and the smaller of two numbers.
LEMMA MaxOfTwo ==
  ASSUME NEW x \in Int, NEW y \in Int
  PROVE  Max({x, y}) = IF x >= y THEN x ELSE y
<1> DEFINE m == IF x >= y THEN x ELSE y
<1>1. m \in {x, y} /\ \A z \in {x, y} : m >= z
  OBVIOUS
<1>2. \A n \in {x, y} : (\A z \in {x, y} : n >= z) => n = m
  OBVIOUS
<1> QED
  BY <1>1, <1>2 DEF Max

LEMMA MinOfTwo ==
  ASSUME NEW x \in Int, NEW y \in Int
  PROVE  Min({x, y}) = IF x <= y THEN x ELSE y
<1> DEFINE m == IF x <= y THEN x ELSE y
<1>1. m \in {x, y} /\ \A z \in {x, y} : m <= z
  OBVIOUS
<1>2. \A n \in {x, y} : (\A z \in {x, y} : n <= z) => n = m
  OBVIOUS
<1> QED
  BY <1>1, <1>2 DEF Min

\* Whole multiples of a period fit into the time they are cut from.
LEMMA DivTimes ==
  ASSUME NEW x \in Nat, NEW p \in Nat \ {0}
  PROVE  x \div p \in Nat /\ (x \div p) * p <= x
<1>1. x >= p * (x \div p)
  BY Z3
<1>2. x \div p \in Nat
  OBVIOUS
<1> QED
  BY <1>1, <1>2

\* Multiples keep the order of what is multiplied.
LEMMA TimesOrder ==
  ASSUME NEW x \in Nat, NEW y \in Nat, NEW p \in Nat, x <= y
  PROVE  x * p \in Nat /\ y * p \in Nat /\ x * p <= y * p
<1> PICK k \in Nat : y = x + k
  <2>1. y - x \in Nat /\ y = x + (y - x)
    OBVIOUS
  <2> QED
    BY <2>1
<1>1. y * p = x * p + k * p
  OBVIOUS
<1>2. k * p \in Nat /\ x * p \in Nat
  OBVIOUS
<1> QED
  BY <1>1, <1>2

\* What is known of the timeouts in force and of what was asked.
TimesTyped ==
  /\ ticks \in [Classes -> [Stops -> Nat \ {0}]]
  /\ asked \in [Classes -> [Stops -> Nat]]
  /\ period \in Periods \cup {Period} /\ period \in Nat \ {0}
  /\ oops = FALSE /\ updated \in BOOLEAN

\* The timeouts are in order and no longer than asked; no atom is watched for
\* so long.
TimesKept ==
  /\ \A c \in Classes : Ordered(ticks[c])
  /\ \A c \in Classes, s \in Stops :
       Shown(c, s) <= asked[c][s] /\ asked[c][s] <= MaxTime

\* The atom has been at the head of its slot for as many periods as it has
\* ticks, unless that is too long to be counted, and has met the timeouts that
\* its ticks have passed.
AtomKept ==
  atom # NoAtom =>
    /\ atom \in [ticks : Nat, class : Classes, time : Nat, seen : SUBSET Stops,
                 early : BOOLEAN]
    /\ ~atom.early
    /\ atom.ticks * period <= atom.time \/ atom.time = MaxTime
    /\ ~updated =>
         \A s \in Stops : atom.ticks > ticks[atom.class][s] => s \in atom.seen

Kept == TimesTyped /\ TimesKept /\ AtomKept

\* The longest time an atom is watched for.
LEMMA MaxTimeNat ==
  ASSUME TimerAssumption PROVE MaxTime \in Nat
<1>1. \A p \in Periods \cup {Period} : p \in Nat
  BY DEF TimerAssumption
<1>2. Max(Periods \cup {Period}) \in Periods \cup {Period}
  \* The one that is farthest below a bound of them all.
  <2> DEFINE Ps == Periods \cup {Period}
             b == Wrap + Period
             R == OpToRel(<, Nat)
             T == {n \in Nat : \E p \in Ps : n = b - p}
  <2>1. b \in Nat /\ \A p \in Ps : p \in Nat /\ p <= b
    BY <1>1 DEF TimerAssumption
  <2>2. \A x, y \in Nat : <<x, y>> \in R <=> x < y
    BY DEF OpToRel
  <2> HIDE DEF R, b
  <2>3. b - Period \in T
    BY <2>1
  <2>4. IsWellFoundedOn(R, Nat)
    BY NatLessThanWellFounded DEF R
  <2>5. PICK y \in T : \A z \in T : ~(<<z, y>> \in R)
    BY <2>3, <2>4, WFMin
  <2>6. PICK m \in Ps : y = b - m
    BY <2>5
  <2>7. ASSUME NEW p \in Ps PROVE m >= p
    <3>1. b - p \in T
      BY <2>1
    <3>2. ~(b - p < y) /\ y \in Nat
      BY <2>2, <2>5, <3>1
    <3> QED
      BY <2>1, <2>6, <3>2
  <2> QED
    BY <2>7 DEF Max
<1>3. MaxTicks \in Nat
  BY DEF TimerAssumption
<1> QED
  BY <1>1, <1>2, <1>3 DEF MaxTime

\* The defaults are in order.
LEMMA InitKept ==
  ASSUME TimerAssumption, Init PROVE Kept
<1>1. TimesTyped
  <2>1. /\ Default \in [Stops -> Nat \ {0}]
        /\ Period \in Periods \cup {Period} /\ Period \in Nat \ {0}
    BY DEF TimerAssumption
  <2>2. \A s \in Stops : Default[s] * Period \in Nat
    BY <2>1
  <2>3. asked \in [Classes -> [Stops -> Nat]]
    BY <2>2 DEF Init
  <2> QED
    BY <2>1, <2>3 DEF Init, TimesTyped
<1>2. AtomKept
  BY DEF Init, AtomKept
<1>3. TimesKept
  <2>1. \A c \in Classes : ticks[c] = Default
    BY DEF Init
  <2>2. \A c \in Classes, s \in Stops : asked[c][s] = Default[s] * Period
    BY DEF Init
  <2> QED
    BY <2>1, <2>2 DEF Init, TimesKept, Shown, TimerAssumption
<1> QED
  BY <1>1, <1>2, <1>3 DEF Kept

\* A write of new timeouts: each is the whole number of periods that fit into
\* what was asked, or one.
LEMMA SetTimeoutsKept ==
  ASSUME TimerAssumption, Kept, NEW c \in Classes, NEW w \in Writes,
         SetTimeouts(c, w)
  PROVE  Kept'
<1> DEFINE new == [s \in Stops |-> MsToTicks(w[s], Default[s], ticks[c][s])]
           ask == [s \in Stops |-> IF w[s] > 0 THEN Max({w[s], period})
                                   ELSE IF w[s] < 0 THEN Default[s] * period
                                   ELSE asked[c][s]]
<1>1. /\ Ordered(new) /\ ticks' = [ticks EXCEPT ![c] = new]
      /\ asked' = [asked EXCEPT ![c] = ask]
      /\ updated' = TRUE /\ UNCHANGED <<atom, period, oops>>
  BY DEF SetTimeouts, TimerAssumption
<1>2. /\ ticks \in [Classes -> [Stops -> Nat \ {0}]]
      /\ asked \in [Classes -> [Stops -> Nat]]
      /\ period \in Periods \cup {Period} /\ period \in Nat \ {0}
      /\ oops = FALSE
  BY DEF Kept, TimesTyped
<1>3. ASSUME NEW s \in Stops
      PROVE  /\ new[s] \in Nat \ {0} /\ ask[s] \in Nat
             /\ new[s] * period <= ask[s] /\ ask[s] <= MaxTime
  <2>1. w[s] \in Int /\ w[s] <= MaxTime /\ period <= MaxTime
    BY <1>2 DEF TimerAssumption
  <2>2. CASE w[s] > 0
    <3> DEFINE n == w[s] \div period
    <3>1. PICK v \in Nat \ {0} : v = w[s]
      BY <2>1, <2>2
    <3>2. v \div period \in Nat /\ (v \div period) * period <= v
      BY <1>2, DivTimes
    <3>3. n \in Nat /\ n * period <= w[s]
      BY <3>1, <3>2
    <3>4. new[s] = Max({n, 1}) /\ ask[s] = Max({w[s], period})
      <4>1. new[s] = MsToTicks(w[s], Default[s], ticks[c][s])
        OBVIOUS
      <4>2. ask[s] = IF w[s] > 0 THEN Max({w[s], period})
                     ELSE IF w[s] < 0 THEN Default[s] * period
                     ELSE asked[c][s]
        OBVIOUS
      <4> QED
        BY <2>1, <2>2, <4>1, <4>2 DEF MsToTicks
    <3> HIDE DEF n, new, ask
    <3>5. new[s] = IF n >= 1 THEN n ELSE 1
      BY <3>3, <3>4, MaxOfTwo
    <3>6. ask[s] = IF w[s] >= period THEN w[s] ELSE period
      <4>1. Max({v, period}) = IF v >= period THEN v ELSE period
        BY <1>2, MaxOfTwo
      <4> QED
        BY <3>1, <3>4, <4>1
    <3>7. new[s] \in Nat \ {0} /\ ask[s] \in Nat /\ ask[s] <= MaxTime
      BY <1>2, <2>1, <2>2, <3>3, <3>5, <3>6, MaxTimeNat
    <3>8. new[s] * period <= ask[s]
      <4>1. CASE n >= 1
        <5>1. new[s] * period <= w[s]
          BY <3>3, <3>5, <4>1
        <5>2. w[s] <= ask[s]
          BY <1>2, <2>1, <3>6
        <5>3. new[s] * period \in Int
          BY <1>2, <3>7
        <5> QED
          BY <2>1, <3>7, <5>1, <5>2, <5>3
      <4>2. CASE ~(n >= 1)
        <5>1. new[s] * period = period
          BY <1>2, <3>5, <4>2
        <5> QED
          BY <1>2, <2>1, <3>6, <5>1
      <4> QED
        BY <4>1, <4>2
    <3> QED
      BY <3>7, <3>8
  <2>3. CASE w[s] < 0
    <3>1. new[s] = Default[s] /\ ask[s] = Default[s] * period
      BY <2>1, <2>3 DEF MsToTicks
    <3>2. Default[s] \in Nat \ {0} /\ Default[s] * period <= MaxTime
      BY <1>2 DEF TimerAssumption
    <3>3. Default[s] * period \in Nat
      BY <1>2, <3>2
    <3> QED
      BY <3>1, <3>2, <3>3
  <2>4. CASE w[s] = 0
    <3>1. new[s] = ticks[c][s] /\ ask[s] = asked[c][s]
      BY <2>1, <2>4 DEF MsToTicks
    <3> QED
      BY <1>2, <3>1 DEF Kept, TimesKept, Shown
  <2> QED
    BY <2>1, <2>2, <2>3, <2>4
<1> HIDE DEF new, ask
<1>4. new \in [Stops -> Nat \ {0}] /\ ask \in [Stops -> Nat]
  <2>1. new = [s \in Stops |-> new[s]] /\ ask = [s \in Stops |-> ask[s]]
    BY DEF new, ask
  <2> QED
    BY <2>1, <1>3
<1>5. TimesTyped'
  BY <1>1, <1>2, <1>4 DEF TimesTyped
<1>6. TimesKept'
  <2>1. ASSUME NEW d \in Classes
        PROVE  ticks'[d] = IF d = c THEN new ELSE ticks[d]
    BY <1>1, <1>2
  <2>2. ASSUME NEW d \in Classes
        PROVE  asked'[d] = IF d = c THEN ask ELSE asked[d]
    BY <1>1, <1>2
  <2>3. ASSUME NEW d \in Classes, NEW s \in Stops
        PROVE  ticks'[d][s] * period' <= asked'[d][s] /\ asked'[d][s] <= MaxTime
    BY <1>1, <1>3, <2>1, <2>2 DEF Kept, TimesKept, Shown
  <2>4. \A d \in Classes : Ordered(ticks'[d])
    BY <1>1, <2>1 DEF Kept, TimesKept
  <2> QED
    BY <2>3, <2>4 DEF TimesKept, Shown, Ordered
<1>7. AtomKept'
  BY <1>1 DEF Kept, AtomKept
<1> QED
  BY <1>5, <1>6, <1>7 DEF Kept

\* A write of a new period rescales what is in force.
LEMMA SetPeriodKept ==
  ASSUME TimerAssumption, Kept, NEW ms \in Periods, SetPeriod(ms)
  PROVE  Kept'
<1> DEFINE scaled == [c \in Classes |-> [s \in Stops |-> Rescaled(ticks[c][s], ms)]]
           ask == [c \in Classes |-> [s \in Stops |-> Max({asked[c][s], ms})]]
<1>1. ms \in Nat \ {0} /\ ms <= MaxTime /\ ms % Wrap = ms
  <2>1. ms \in Nat /\ ms > 0 /\ ms < Wrap /\ Wrap \in Nat /\ ms <= MaxTime
    <3>1. Wrap \in Nat /\ ms \in Nat /\ ms < Wrap /\ ms <= MaxTime
      BY DEF TimerAssumption, Stops
    <3>2. ms > 0
      BY DEF SetPeriod
    <3> QED
      BY <3>1, <3>2
  <2> QED
    BY <2>1
<1>2. /\ ticks' = scaled /\ period' = ms /\ asked' = ask /\ updated' = TRUE
      /\ (\A c \in Classes : Ordered(scaled[c])) /\ atom = NoAtom
      /\ UNCHANGED <<oops, atom>>
  BY <1>1 DEF SetPeriod, TimerAssumption
<1>3. /\ ticks \in [Classes -> [Stops -> Nat \ {0}]]
      /\ asked \in [Classes -> [Stops -> Nat]]
      /\ period \in Nat \ {0} /\ oops = FALSE
  BY DEF Kept, TimesTyped
<1>4. ASSUME NEW c \in Classes, NEW s \in Stops
      PROVE  /\ scaled[c][s] \in Nat \ {0} /\ ask[c][s] \in Nat
             /\ scaled[c][s] * ms <= ask[c][s] /\ ask[c][s] <= MaxTime
  <2> DEFINE old == period * ticks[c][s]
             n == old \div ms
  <2>1. old \in Nat /\ old <= asked[c][s] /\ asked[c][s] \in Nat
          /\ asked[c][s] <= MaxTime
    <3>1. ticks[c][s] * period \in Nat /\ old = ticks[c][s] * period
      BY <1>3
    <3> QED
      BY <1>3, <3>1 DEF Kept, TimesKept, Shown
  <2>2. scaled[c][s] = Max({n, 1}) /\ ask[c][s] = Max({asked[c][s], ms})
    BY DEF Rescaled
  <2> HIDE DEF old, scaled, ask
  <2>3. n \in Nat /\ n * ms <= old
    BY <1>1, <2>1, DivTimes
  <2> HIDE DEF n
  <2>4. scaled[c][s] = IF n >= 1 THEN n ELSE 1
    BY <2>2, <2>3, MaxOfTwo
  <2>5. ask[c][s] = IF asked[c][s] >= ms THEN asked[c][s] ELSE ms
    BY <1>1, <2>1, <2>2, MaxOfTwo
  <2>6. CASE n >= 1
    BY <1>1, <2>1, <2>3, <2>4, <2>5, <2>6, MaxTimeNat
  <2>7. CASE ~(n >= 1)
    <3>1. scaled[c][s] * ms = ms
      BY <1>1, <2>4, <2>7
    <3> QED
      BY <1>1, <2>1, <2>4, <2>5, <2>7, <3>1, MaxTimeNat
  <2> QED
    BY <2>6, <2>7
<1> HIDE DEF scaled, ask
<1>5. /\ scaled \in [Classes -> [Stops -> Nat \ {0}]]
      /\ ask \in [Classes -> [Stops -> Nat]]
  <2>1. /\ scaled = [c \in Classes |-> [s \in Stops |-> scaled[c][s]]]
        /\ ask = [c \in Classes |-> [s \in Stops |-> ask[c][s]]]
    BY DEF scaled, ask
  <2> QED
    BY <2>1, <1>4
<1>6. TimesTyped'
  BY <1>1, <1>2, <1>3, <1>5 DEF TimesTyped
<1>7. TimesKept'
  BY <1>2, <1>4 DEF TimesKept, Shown, Ordered
<1>8. AtomKept'
  BY <1>2 DEF AtomKept
<1> QED
  BY <1>6, <1>7, <1>8 DEF Kept

\* Of three ordered timeouts a number of ticks is equal to one at most.
LEMMA HitExact ==
  ASSUME NEW t \in [Stops -> Nat \ {0}], Ordered(t), NEW n \in Nat
  PROVE  /\ Hit(t, n) \in Stops \cup {"none"}
         /\ Hit(t, n) # "none" => t[Hit(t, n)] = n
         /\ \A s \in Stops : n = t[s] => Hit(t, n) = s
BY DEF Stops, Ordered, Hit

\* One tick of the atom at the head of the slot.
LEMMA TickKept ==
  ASSUME TimerAssumption, Kept, atom # NoAtom, atom' = Tick(atom),
         updated' = FALSE, UNCHANGED <<ticks, period>>
  PROVE  AtomKept'
<1> DEFINE t == ticks[atom.class]
           now == Ticked(atom)
           hit == Hit(t, now)
           last == atom.time + period
           time == IF last <= MaxTime THEN last ELSE MaxTime
           next == IF now = atom.ticks
                   THEN IF now + 1 <= MaxTicks THEN now + 1 ELSE MaxTicks
                   ELSE now
<1>1. /\ atom \in [ticks : Nat, class : Classes, time : Nat, seen : SUBSET Stops,
                   early : BOOLEAN]
      /\ ~atom.early
      /\ atom.ticks * period <= atom.time \/ atom.time = MaxTime
      /\ ~updated =>
           \A s \in Stops : atom.ticks > ticks[atom.class][s] => s \in atom.seen
  BY DEF Kept, AtomKept
<1>2. /\ ticks \in [Classes -> [Stops -> Nat \ {0}]]
      /\ period \in Nat \ {0} /\ MaxTicks \in Nat \ {0} /\ MaxTime \in Nat
  BY MaxTimeNat DEF Kept, TimesTyped, TimerAssumption
<1>3. /\ t \in [Stops -> Nat \ {0}] /\ Ordered(t)
      /\ \A s \in Stops : t[s] * period <= MaxTime
  <2>1. atom.class \in Classes
    BY <1>1
  <2>2. \A s \in Stops : Shown(atom.class, s) \in Nat
    BY <1>2, <2>1 DEF Shown
  <2>3. \A s \in Stops : asked[atom.class][s] \in Nat
    BY <2>1 DEF Kept, TimesTyped
  <2> QED
    BY <1>2, <2>1, <2>2, <2>3 DEF Kept, TimesKept, Shown
<1>4. /\ now \in Nat /\ now <= atom.ticks
      /\ now # atom.ticks => now = t["soft"] /\ updated
      /\ updated => now <= t["soft"]
  BY <1>1, <1>3 DEF Ticked, Stops
<1>5. /\ hit \in Stops \cup {"none"}
      /\ hit # "none" => t[hit] = now
      /\ \A s \in Stops : now = t[s] => hit = s
  BY <1>3, <1>4, HitExact
<1>6. last \in Nat /\ time \in Nat /\ next \in Nat /\ next <= now + 1
        /\ time <= MaxTime /\ (time = MaxTime \/ time = last)
  BY <1>1, <1>2, <1>4
<1>7. Min({last, MaxTime}) = time
  BY <1>2, <1>6, MinOfTwo
<1>8. (IF now = atom.ticks THEN Min({now + 1, MaxTicks}) ELSE now) = next
  <2>1. Min({now + 1, MaxTicks})
          = IF now + 1 <= MaxTicks THEN now + 1 ELSE MaxTicks
    BY <1>2, <1>4, MinOfTwo
  <2> QED
    BY <2>1
<1>9. /\ atom'.ticks = next /\ atom'.class = atom.class /\ atom'.time = time
      /\ atom'.seen = atom.seen \cup ({hit} \ {"none"})
      /\ atom'.early = (atom.early \/ (hit # "none" /\ time < t[hit] * period))
      /\ DOMAIN atom' = {"ticks", "class", "time", "seen", "early"}
  BY <1>7, <1>8 DEF Tick
<1>seen. ~updated => \A s \in Stops : atom.ticks > t[s] => s \in atom.seen
  BY <1>1
<1>same. ticks'[atom'.class] = t
  BY <1>9
<1> HIDE DEF t, now, hit, last, time, next
\* Multiples of the period, as numbers.
<1>10. now * period \in Nat /\ next * period <= now * period + period
         /\ now * period <= atom.ticks * period /\ atom.ticks * period \in Nat
  <2>1. now * period \in Nat /\ now * period <= atom.ticks * period
          /\ atom.ticks * period \in Nat
    BY <1>1, <1>2, <1>4, TimesOrder
  <2>2. next * period <= (now + 1) * period
    BY <1>2, <1>4, <1>6, TimesOrder
  <2>3. (now + 1) * period = now * period + period
    BY <1>2, <1>4
  <2> QED
    BY <2>1, <2>2, <2>3
<1>11. next * period <= time \/ time = MaxTime
  <2>1. CASE time = last
    <3>1. CASE atom.time = MaxTime
      BY <1>1, <1>2, <1>6, <2>1, <3>1 DEF last
    <3>2. CASE atom.ticks * period <= atom.time
      <4>1. now * period + period <= last
        BY <1>1, <1>2, <1>10, <3>2 DEF last
      <4>2. PICK u \in Nat : u = next * period
        BY <1>2, <1>6
      <4>3. PICK v \in Nat : v = now * period
        BY <1>10
      <4>4. u <= v + period /\ v + period <= last
        BY <1>10, <4>1, <4>2, <4>3
      <4>5. u <= last
        BY <1>2, <1>6, <4>4
      <4> QED
        BY <2>1, <4>2, <4>5
    <3> QED
      BY <1>1, <3>1, <3>2
  <2> QED
    BY <1>6, <2>1
<1>12. ~(hit # "none" /\ time < t[hit] * period)
  <2> SUFFICES ASSUME hit # "none" PROVE t[hit] * period <= time
    <3>1. hit # "none" => t[hit] * period \in Nat
      BY <1>2, <1>3, <1>5
    <3> QED
      BY <1>6, <3>1
  <2>1. t[hit] = now /\ t[hit] * period <= MaxTime
    BY <1>3, <1>5
  <2>2. CASE time = last /\ atom.ticks * period <= atom.time
    BY <1>1, <1>2, <1>10, <2>1, <2>2 DEF last
  <2>3. CASE time = MaxTime
    BY <2>1, <2>3
  <2>4. CASE time = last /\ atom.time = MaxTime
    BY <1>2, <1>6, <2>4 DEF last
  <2> QED
    BY <1>1, <1>6, <2>2, <2>3, <2>4
<1>13. \A s \in Stops : next > t[s] => s \in atom'.seen
  <2> SUFFICES ASSUME NEW s \in Stops, next > t[s] PROVE s \in atom'.seen
    OBVIOUS
  <2>1. t[s] \in Nat /\ t[s] <= now
    BY <1>3, <1>4, <1>6
  <2>2. CASE t[s] = now
    BY <1>5, <1>9, <2>2
  <2>3. CASE t[s] < now
    <3>1. t["soft"] <= t[s]
      BY <1>3 DEF Stops, Ordered
    <3>2. ~updated /\ now = atom.ticks
      BY <1>3, <1>4, <2>1, <2>3, <3>1 DEF Stops
    <3> QED
      BY <1>seen, <1>9, <2>3, <3>2
  <2> QED
    BY <1>4, <2>1, <2>2, <2>3
<1>14. atom' \in [ticks : Nat, class : Classes, time : Nat, seen : SUBSET Stops,
                  early : BOOLEAN]
  <2>1. atom' = [ticks |-> next, class |-> atom.class, time |-> time,
                 seen |-> atom.seen \cup ({hit} \ {"none"}),
                 early |-> FALSE]
    BY <1>1, <1>7, <1>8, <1>12 DEF Tick, t, now, hit, last
  <2>2. atom.seen \cup ({hit} \ {"none"}) \in SUBSET Stops
    BY <1>1, <1>5
  <2>3. atom.class \in Classes
    BY <1>1
  <2> QED
    BY <1>6, <2>1, <2>2, <2>3
<1> QED
  BY <1>same, <1>1, <1>2, <1>9, <1>11, <1>12, <1>13, <1>14 DEF AtomKept

\* Every step keeps the timeouts.
LEMMA NextKept ==
  ASSUME TimerAssumption, Kept, [Next]_vars PROVE Kept'
<1>1. CASE UNCHANGED <<atom, config>>
  BY <1>1 DEF config, Kept, TimesTyped, TimesKept, AtomKept, Shown, Ordered
<1>2. ASSUME NEW c \in Classes, Pull(c) PROVE Kept'
  <2>1. UNCHANGED <<ticks, period, asked, updated, oops>>
    BY <1>2 DEF Pull, config
  <2>2. atom' = [ticks |-> 0, class |-> c, time |-> 0, seen |-> {}, early |-> FALSE]
    BY <1>2 DEF Pull
  <2>3. \A s \in Stops : ~(0 > ticks[c][s])
    BY DEF Kept, TimesTyped
  <2>4. 0 * period <= 0
    BY DEF Kept, TimesTyped
  <2>5. AtomKept'
    BY <2>1, <2>2, <2>3, <2>4 DEF AtomKept
  <2> QED
    BY <2>1, <2>5 DEF Kept, TimesTyped, TimesKept, Shown, Ordered
<1>3. CASE Leave
  <2>1. UNCHANGED <<ticks, period, asked, updated, oops>> /\ atom' = NoAtom
    BY <1>3 DEF Leave, config
  <2> QED
    BY <2>1 DEF Kept, TimesTyped, TimesKept, AtomKept, Shown, Ordered
<1>4. CASE Callback
  <2>1. UNCHANGED <<ticks, period, asked, oops>> /\ updated' = FALSE
    BY <1>4 DEF Callback
  <2>2. AtomKept'
    <3>1. CASE atom = NoAtom
      BY <1>4, <3>1 DEF Callback, AtomKept
    <3>2. CASE atom # NoAtom
      BY <1>4, <2>1, <3>2, TickKept DEF Callback
    <3> QED
      BY <3>1, <3>2
  <2> QED
    BY <2>1, <2>2 DEF Kept, TimesTyped, TimesKept, Shown, Ordered
<1>5. CASE \/ \E c \in Ctxs : CountChange(c) \/ AttrChange(c)
           \/ SyncBegin \/ Suspend \/ Resume
           \/ SyncCheck \/ SyncLower \/ SyncCancel \/ SyncSecond \/ SyncStart
           \/ Expire
  BY <1>1, <1>5 DEF CountChange, AttrChange, SyncBegin, Suspend, Resume,
     SyncCheck, SyncLower, SyncCancel, SyncSecond, SyncStart, Expire
<1>6. CASE UNCHANGED vars
  BY <1>1, <1>6 DEF vars, config
<1> QED
  BY <1>2, <1>3, <1>4, <1>5, <1>6, SetTimeoutsKept, SetPeriodKept DEF Next

\* The timer runs exactly while it is needed, no timeout is missed or taken
\* before its time, and none gets longer than what was asked, for all timeouts
\* and periods.  (timer_callback, kbase_backend_ctx_count_changed)
THEOREM EveryTimeoutKept ==
  ASSUME TimerAssumption PROVE Spec => []TimeoutsKept
<1>1. Init => Started /\ Kept
  BY InitStarted, InitKept
<1>2. FaultyPaths = {}
  BY DEF TimerAssumption
<1>3. Started /\ Kept /\ [Next]_vars => Started' /\ Kept'
  BY <1>2, NextStarted, NextKept
<1>4. Started /\ Kept => TimeoutsKept
  <2> SUFFICES ASSUME Started, Kept PROVE TimeoutsKept
    OBVIOUS
  <2>1. TimerAsNeeded
    <3>1. timer.running \in BOOLEAN
      BY DEF Started, TimerTyped
    <3>2. ShouldRun \in BOOLEAN
      BY DEF ShouldRun
    <3>3. sync = "free" /\ owed = 0 =>
            /\ timer.running <=> ShouldRun
            /\ timer.running <=> timer.at # "off"
      BY DEF Started, TimerPlace
    <3> QED
      BY <3>1, <3>2, <3>3 DEF TimerAsNeeded
  <2>2. NoTimeoutMissed
    BY DEF Kept, AtomKept, NoTimeoutMissed
  <2>3. NeverEarly
    BY DEF Kept, AtomKept, NeverEarly
  <2>4. TimeoutsAsAsked
    BY DEF Kept, TimesTyped, TimesKept, TimeoutsAsAsked
  <2> QED
    BY <2>1, <2>2, <2>3, <2>4 DEF TimeoutsKept
<1> QED
  BY <1>1, <1>3, <1>4, PTL DEF Spec
-----------------------------------------------------------------------------
(* The poke timer of an address space, for any finite set of atoms.  The    *)
(* job-done workqueue of a context releases them one at a time.             *)

CONSTANTS
  PokeAtoms,
  Releasers

VARIABLES
  poking, poke_refcount, poke_state, poke_timer, poke_queued, poke_worker, poke_clash

Pk == INSTANCE AsPoke WITH
  Atoms <- PokeAtoms, timer <- poke_timer, queued <- poke_queued, worker <- poke_worker,
  clash <- poke_clash

\* Counting is the same in either module.
LEMMA SameCounts ==
  \A S : (Pk!IsFiniteSet(S) <=> IsFiniteSet(S)) /\ Pk!Cardinality(S) = Cardinality(S)
BY DEF Pk!IsFiniteSet, IsFiniteSet, Pk!Cardinality, Cardinality

PokePcs == {"no", "yes", "cancel", "flush", "check"}

Poked == {a \in PokeAtoms : poking[a] = "yes"}
Releasing == {a \in PokeAtoms : poking[a] \in {"cancel", "flush", "check"}}

PokeTyped ==
  /\ poking \in [PokeAtoms -> PokePcs]
  /\ poke_state \in SUBSET {"in flight", "killing"}
  /\ poke_timer \in BOOLEAN /\ poke_queued \in BOOLEAN /\ poke_clash = FALSE
  /\ poke_worker \in {"idle", "poked"}

\* At most one release is under way, and the count is that of the poked atoms.
PokesCounted ==
  /\ poke_refcount = Cardinality(Poked)
  /\ \A a, b \in Releasing : a = b

\* The poke is in one place: the timer, the queue or the worker.
OnePoke ==
  /\ ~(poke_timer /\ poke_queued)
  /\ poke_worker = "poked" => ~poke_timer /\ ~poke_queued

\* The flags and the place of the poke follow from the release under way: none
\* with no atom left, none with atoms left, or one at each of its steps.
PokeFlags ==
  /\ Releasing = {} /\ Poked = {} => poke_state = {} /\ ~Pk!Active
  /\ Releasing = {} /\ Poked # {} => poke_state = {"in flight"} /\ Pk!Active
  /\ Releasing # {} => poke_state = {"in flight", "killing"}
  /\ \A a \in Releasing :
       /\ poking[a] = "flush" => ~poke_timer
       /\ poking[a] = "check" => ~Pk!Active

PokeInv == PokeTyped /\ PokesCounted /\ OnePoke /\ PokeFlags

\* The number of poked atoms tells whether there is one.
LEMMA PokeCountTells ==
  ASSUME IsFiniteSet(PokeAtoms)
  PROVE  /\ Cardinality(Poked) \in Nat /\ (Cardinality(Poked) = 0 <=> Poked = {})
         /\ IsFiniteSet(Poked) /\ IsFiniteSet(Releasing)
<1>1. IsFiniteSet(Poked) /\ IsFiniteSet(Releasing)
  BY FS_Subset DEF Poked, Releasing
<1> QED
  BY <1>1, FS_CardinalityType, FS_EmptySet

\* Nobody is released and nothing is poked at first.
LEMMA InitPoke ==
  ASSUME IsFiniteSet(PokeAtoms), Pk!Init PROVE PokeInv
<1>1. Poked = {} /\ Releasing = {}
  BY DEF Pk!Init, Poked, Releasing
<1> QED
  BY <1>1, FS_EmptySet
     DEF Pk!Init, PokeInv, PokeTyped, PokesCounted, OnePoke, PokeFlags, Pk!Active, PokePcs

\* An atom asks for pokes.
LEMMA RetainPoke ==
  ASSUME IsFiniteSet(PokeAtoms), PokeInv, NEW a \in PokeAtoms, Pk!Retain(a)
  PROVE  PokeInv'
<1>1. Poked' = Poked \cup {a} /\ a \notin Poked /\ Releasing' = Releasing
  BY DEF Pk!Retain, Poked, Releasing, PokeInv, PokeTyped
<1>2. Cardinality(Poked') = Cardinality(Poked) + 1
  BY <1>1, PokeCountTells, FS_AddElement
<1>3. PokesCounted'
  BY <1>1, <1>2 DEF Pk!Retain, PokeInv, PokesCounted
<1>4. PokeTyped'
  BY DEF Pk!Retain, Pk!Queue, PokeInv, PokeTyped, PokePcs
<1>5. poke_refcount = 0 <=> Poked = {}
  BY PokeCountTells DEF PokeInv, PokesCounted
<1>6. OnePoke' /\ PokeFlags'
  <2>1. CASE poke_refcount = 0 /\ poke_state = {}
    <3>1. Releasing = {} /\ Poked = {} /\ ~Pk!Active
      BY <2>1, <1>5 DEF PokeInv, PokeFlags
    <3> QED
      BY <2>1, <3>1, <1>1 DEF Pk!Retain, Pk!Queue, PokeInv, PokeTyped, OnePoke, PokeFlags,
         Pk!Active
  <2>2. CASE poke_refcount # 0 \/ poke_state # {}
    <3>1. UNCHANGED <<poke_state, poke_timer, poke_queued, poke_worker>>
      BY <2>2 DEF Pk!Retain
    <3>2. \A b \in Releasing : poking'[b] = poking[b]
      BY DEF Pk!Retain, PokeInv, PokeTyped, Releasing
    <3>3. Poked # {} \/ Releasing # {}
      BY <2>2, <1>5 DEF PokeInv, PokeFlags
    <3> QED
      BY <3>1, <3>2, <3>3, <1>1 DEF PokeInv, OnePoke, PokeFlags, Pk!Active
  <2> QED
    BY <2>1, <2>2
<1> QED
  BY <1>3, <1>4, <1>6 DEF PokeInv

\* An atom is released; only the last one has to kill the timer.
LEMMA ReleasePoke ==
  ASSUME Pk!PokeAssumption, PokeInv, NEW a \in PokeAtoms,
         Pk!Release(a)
  PROVE  PokeInv'
<1>a. IsFiniteSet(PokeAtoms) /\ Releasers = 1
  BY SameCounts DEF Pk!PokeAssumption
<1>1. Releasing = {}
  <2>1. {b \in PokeAtoms : poking[b] \in {"cancel", "flush", "check"}} = Releasing
    BY DEF Releasing
  <2>2. Cardinality(Releasing) < 1
    BY <2>1, <1>a, SameCounts DEF Pk!Release
  <2> QED
    BY <1>a, <2>2, PokeCountTells, FS_CardinalityType, FS_EmptySet
<1>2. Poked' = Poked \ {a} /\ a \in Poked
  BY DEF Pk!Release, Poked, PokeInv, PokeTyped
<1>3. Cardinality(Poked') = Cardinality(Poked) - 1
  BY <1>2, <1>a, PokeCountTells, FS_RemoveElement
<1>4. poke_state = {"in flight"} /\ Pk!Active
  BY <1>1, <1>2 DEF PokeInv, PokeFlags
<1>5. PokeTyped' /\ OnePoke'
  BY DEF Pk!Release, PokeInv, PokeTyped, OnePoke, PokePcs
<1>6. UNCHANGED <<poke_timer, poke_queued, poke_worker>> /\ Pk!Active'
  BY <1>4 DEF Pk!Release, Pk!Active
<1>7. CASE poke_refcount = 1
  <2>1. Releasing' = {a} /\ poking'[a] = "cancel"
          /\ poke_state' = {"in flight", "killing"}
    <3>1. poking' = [poking EXCEPT ![a] = "cancel"]
            /\ poke_state' = poke_state \cup {"killing"}
      BY <1>7 DEF Pk!Release
    <3> QED
      BY <3>1, <1>1, <1>4 DEF Releasing, PokeInv, PokeTyped
  <2> QED
    BY <2>1, <1>3, <1>5 DEF Pk!Release, PokeInv, PokesCounted, PokeFlags
<1>8. CASE poke_refcount > 1
  <2>1. Releasing' = {} /\ UNCHANGED poke_state
    <3>1. poking' = [poking EXCEPT ![a] = "no"] /\ UNCHANGED poke_state
      BY <1>8 DEF Pk!Release
    <3> QED
      BY <3>1, <1>1 DEF Releasing, PokeInv, PokeTyped
  <2>2. Cardinality(Poked') > 0 /\ Cardinality({}) = 0
    BY <1>3, <1>8, <1>a, PokeCountTells, FS_EmptySet DEF PokeInv, PokesCounted
  <2>3. Poked' # {}
    BY <2>2
  <2> QED
    BY <2>1, <2>3, <1>3, <1>4, <1>5, <1>6 DEF Pk!Release, PokeInv, PokesCounted, PokeFlags
<1> QED
  BY <1>7, <1>8 DEF Pk!Release

\* The releaser waits for the timer and then for the work.
LEMMA WaitPoke ==
  ASSUME PokeInv, NEW a \in PokeAtoms, Pk!Cancel(a) \/ Pk!Flush(a)
  PROVE  PokeInv'
<1>1. Poked' = Poked /\ Releasing' = Releasing /\ a \in Releasing
  BY DEF Pk!Cancel, Pk!Flush, Poked, Releasing, PokeInv, PokeTyped
<1>2. \A b \in Releasing : b = a
  BY <1>1 DEF PokeInv, PokesCounted
<1>3. PokeTyped' /\ OnePoke'
  <2>1. CASE Pk!Cancel(a)
    BY <2>1 DEF Pk!Cancel, PokeInv, PokeTyped, OnePoke, PokePcs
  <2>2. CASE Pk!Flush(a)
    BY <2>2 DEF Pk!Flush, PokeInv, PokeTyped, OnePoke, PokePcs
  <2> QED
    BY <2>1, <2>2
<1>4. PokesCounted'
  BY <1>1 DEF Pk!Cancel, Pk!Flush, PokeInv, PokesCounted
<1>5. poking'[a] = "flush" => ~poke_timer'
  BY DEF Pk!Cancel, Pk!Flush, PokeInv, PokeTyped
<1>6. poking'[a] = "check" => ~poke_timer' /\ ~poke_queued' /\ poke_worker' = "idle"
  BY <1>1 DEF Pk!Cancel, Pk!Flush, PokeInv, PokeTyped, PokeFlags
<1>7. UNCHANGED poke_state
  BY DEF Pk!Cancel, Pk!Flush
<1>8. PokeFlags'
  BY <1>1, <1>2, <1>5, <1>6, <1>7 DEF PokeInv, PokeFlags, Pk!Active
<1> QED
  BY <1>3, <1>4, <1>8 DEF PokeInv

\* Once the poke has stopped the releaser looks for atoms that asked meanwhile.
LEMMA CheckPoke ==
  ASSUME IsFiniteSet(PokeAtoms), PokeInv, NEW a \in PokeAtoms, Pk!Check(a)
  PROVE  PokeInv'
<1>1. a \in Releasing /\ Poked' = Poked
  BY DEF Pk!Check, Poked, Releasing, PokeInv, PokeTyped
<1>2. Releasing' = {}
  BY <1>1 DEF Pk!Check, Releasing, PokeInv, PokeTyped, PokesCounted
<1>3. ~Pk!Active /\ poke_state = {"in flight", "killing"}
  BY <1>1 DEF Pk!Check, PokeInv, PokeFlags
<1>4. PokeTyped' /\ OnePoke'
  BY <1>3 DEF Pk!Check, Pk!Queue, PokeInv, PokeTyped, OnePoke, Pk!Active, PokePcs
<1>5. PokesCounted'
  BY <1>1, <1>2 DEF Pk!Check, PokeInv, PokesCounted
<1>6. poke_refcount = 0 <=> Poked = {}
  BY PokeCountTells DEF PokeInv, PokesCounted
<1>7. poke_refcount > 0 => poke_state' = {"in flight"} /\ poke_queued'
  <2>1. poke_refcount > 0 => poke_state' = poke_state \ {"killing"} /\ poke_queued'
    BY DEF Pk!Check, Pk!Queue
  <2> QED
    BY <2>1, <1>3
<1>8. poke_refcount = 0 => poke_state' = {} /\ ~Pk!Active'
  <2>1. UNCHANGED <<poke_timer, poke_worker>>
    BY DEF Pk!Check
  <2>2. poke_refcount = 0 => poke_state' = {} /\ poke_queued' = poke_queued
    BY DEF Pk!Check
  <2> QED
    BY <2>1, <2>2, <1>3 DEF Pk!Active
<1>9. PokeFlags'
  BY <1>1, <1>2, <1>6, <1>7, <1>8 DEF Pk!Check, PokeFlags, Pk!Active
<1> QED
  BY <1>4, <1>5, <1>9 DEF PokeInv

\* The poke goes round: the worker pokes, starts the timer, which queues it.
LEMMA RoundPoke ==
  ASSUME IsFiniteSet(PokeAtoms), PokeInv, Pk!Poke \/ Pk!Restart \/ Pk!Timer
  PROVE  PokeInv'
<1>1. Poked' = Poked /\ Releasing' = Releasing
        /\ UNCHANGED <<poking, poke_refcount, poke_state>>
  BY DEF Pk!Poke, Pk!Restart, Pk!Timer, Poked, Releasing
<1>2. Pk!Active
  BY DEF Pk!Poke, Pk!Restart, Pk!Timer, Pk!Active
<1>3. "in flight" \in poke_state
  BY <1>2 DEF PokeInv, PokeFlags
<1>4. PokeTyped' /\ OnePoke'
  <2>1. CASE Pk!Poke
    BY <2>1, <1>3 DEF Pk!Poke, PokeInv, PokeTyped, OnePoke
  <2>2. CASE Pk!Restart
    BY <2>2 DEF Pk!Restart, Pk!Needed, PokeInv, PokeTyped, OnePoke
  <2>3. CASE Pk!Timer
    BY <2>3 DEF Pk!Timer, Pk!Queue, PokeInv, PokeTyped, OnePoke
  <2> QED
    BY <2>1, <2>2, <2>3
<1>5. PokesCounted'
  BY <1>1 DEF PokeInv, PokesCounted
<1>6. \A a \in Releasing :
        /\ poking[a] # "check"
        /\ poking[a] = "flush" => ~poke_timer'
  BY <1>2 DEF Pk!Poke, Pk!Restart, Pk!Timer, Pk!Needed, PokeInv, PokeFlags
<1>7. Releasing = {} => Pk!Active'
  <2> SUFFICES ASSUME Releasing = {} PROVE Pk!Active'
    OBVIOUS
  <2>1. Poked # {} /\ poke_state = {"in flight"}
    BY <1>2 DEF PokeInv, PokeFlags
  <2>2. poke_refcount > 0
    <3>1. Cardinality(Poked) \in Nat /\ Cardinality(Poked) # 0
      BY <2>1, PokeCountTells
    <3> QED
      BY <3>1 DEF PokeInv, PokesCounted
  <2> QED
    BY <2>1, <2>2 DEF Pk!Poke, Pk!Restart, Pk!Timer, Pk!Needed, Pk!Queue, Pk!Active
<1>8. PokeFlags'
  BY <1>1, <1>2, <1>6, <1>7 DEF PokeInv, PokeFlags
<1> QED
  BY <1>4, <1>5, <1>8 DEF PokeInv

\* Every step keeps the invariant.
LEMMA NextPoke ==
  ASSUME Pk!PokeAssumption, PokeInv, [Pk!Next]_(Pk!vars)
  PROVE  PokeInv'
<1>1. CASE UNCHANGED Pk!vars
  BY <1>1 DEF Pk!vars, PokeInv, PokeTyped, PokesCounted, OnePoke, PokeFlags, Pk!Active, Poked,
     Releasing
<1>2. CASE Pk!Next
  BY <1>2, SameCounts, RetainPoke, ReleasePoke, WaitPoke, CheckPoke, RoundPoke
     DEF Pk!Next, Pk!PokeAssumption
<1> QED
  BY <1>1, <1>2

\* Pokes go on while an atom needs them and stop with the last one, and no
\* assertion of the workaround fails, for any number of atoms.
\* (kbase_as_poking_timer_retain_atom and _release_atom)
THEOREM PokesGoOn ==
  ASSUME Pk!PokeAssumption
  PROVE  Pk!Spec => []Pk!PokesWhileNeeded
<1>1. Pk!Init => PokeInv
  BY InitPoke, SameCounts DEF Pk!PokeAssumption
<1>2. PokeInv /\ [Pk!Next]_(Pk!vars) => PokeInv'
  BY NextPoke
<1>3. PokeInv => Pk!PokesWhileNeeded
  <2> SUFFICES ASSUME PokeInv PROVE Pk!PokesWhileNeeded
    OBVIOUS
  <2>1. poke_refcount = Cardinality({a \in PokeAtoms : poking[a] = "yes"}) /\ ~poke_clash
    BY DEF PokeInv, PokesCounted, Poked, PokeTyped
  <2>2. (\E a \in PokeAtoms : poking[a] = "yes")
          /\ (\A a \in PokeAtoms : poking[a] \in {"no", "yes"}) => Pk!Active
    BY DEF PokeInv, PokeFlags, Poked, Releasing
  <2>3. (\A a \in PokeAtoms : poking[a] = "no") => ~Pk!Active /\ poke_state = {}
    BY DEF PokeInv, PokeFlags, Poked, Releasing
  <2> QED
    BY <2>1, <2>2, <2>3, SameCounts DEF Pk!PokesWhileNeeded
<1> QED
  BY <1>1, <1>2, <1>3, PTL DEF Pk!Spec
-----------------------------------------------------------------------------
(* The dump of faulty jobs, for any atoms, contexts and number of reads, by *)
(* one daemon.                                                              *)

CONSTANTS
  FaultAtoms, FaultCtx, NoDump, FaultReaders, MaxReads

VARIABLES
  fault_atom, fault_work, fault_irq, job_fault_debug, fault_list,
  fault_count, fault_resume, fault_reader, fault_event,
  fault_reads, fault_wrong, fault_second, fault_late

Jf == INSTANCE JobFault WITH
  Atoms <- FaultAtoms, Ctx <- FaultCtx, Readers <- FaultReaders,
  atom <- fault_atom, work <- fault_work, irq <- fault_irq,
  event_list <- fault_list, count <- fault_count,
  resume_list <- fault_resume, reader <- fault_reader,
  event <- fault_event, reads <- fault_reads, wrong <- fault_wrong,
  second <- fault_second, late <- fault_late

Places == {"running", "held", "posted", "ready", "done"}
Works == {"no", "waiting", "woken", "emptying"}
Readings == {"closed", "open", "waiting", "woken", "showing", "ended", "stopping", "over", "closing"}
HeldAtoms == [atom : FaultAtoms, during : FaultAtoms \cup {Jf!None}]

FaultTyped ==
  /\ fault_atom \in [FaultAtoms -> Places] /\ fault_work \in [FaultAtoms -> Works]
  /\ fault_irq \in FaultAtoms \cup {Jf!None} /\ job_fault_debug \in BOOLEAN
  /\ fault_list \in Seq(FaultAtoms) /\ fault_count \in [Jf!Contexts -> {0, 1}]
  /\ fault_resume \in [Jf!Contexts -> Seq(HeldAtoms)]
  /\ fault_reader \in [FaultReaders -> Readings]
  /\ fault_event \in [FaultReaders -> FaultAtoms \cup {Jf!None}]
  /\ fault_second \subseteq FaultAtoms /\ fault_late \subseteq FaultAtoms

Woken(a) == fault_work[a] \in {"woken", "emptying"}

\* A context has one dump that waits, while its count says so, and has a work
\* while it holds atoms back; a fault being processed is the first, unless the
\* context is still being let out of another dump.
OneDump ==
  /\ \A a, b \in FaultAtoms : FaultCtx[a] = FaultCtx[b] /\ fault_work[a] = "waiting" /\ fault_work[b] = "waiting" => a = b
  /\ \A a \in FaultAtoms : fault_work[a] = "waiting" => fault_count[FaultCtx[a]] = 1
  /\ \A c \in Jf!Contexts : fault_count[c] = 1
       => \E a \in FaultAtoms : FaultCtx[a] = c /\ fault_work[a] = "waiting"
  /\ \A c \in Jf!Contexts : fault_resume[c] # <<>>
       => \E a \in FaultAtoms : FaultCtx[a] = c /\ fault_work[a] # "no"
  /\ \A a \in FaultAtoms : fault_atom[a] = "running" => fault_work[a] = "no"

FirstFault ==
  fault_irq # Jf!None =>
    /\ fault_atom[fault_irq] = "running"
    /\ \A a \in FaultAtoms : FaultCtx[a] = FaultCtx[fault_irq]
         => fault_work[a] # "waiting" /\ (Woken(a) => fault_irq \in fault_second)

\* Works of one context meet only after such a second fault.
SecondFaults ==
  /\ \A a, b \in FaultAtoms : FaultCtx[a] = FaultCtx[b] /\ fault_work[a] = "waiting" /\ Woken(b) => a \in fault_second
  /\ \A a, b \in FaultAtoms : FaultCtx[a] = FaultCtx[b] /\ Woken(a) /\ Woken(b) /\ a # b
       => \E s \in fault_second : FaultCtx[s] = FaultCtx[a]

\* An event on the list has its work waiting, and is there once.
EventsWait ==
  /\ \A k \in DOMAIN fault_list : fault_work[fault_list[k]] = "waiting"
  /\ \A k, l \in DOMAIN fault_list : fault_list[k] = fault_list[l] => k = l

\* The reader has what it was woken for; while the file is closed only late
\* events are listed.
ReaderKnows ==
  /\ \A r \in FaultReaders :
       /\ fault_reader[r] \in {"woken", "showing", "ended"} => fault_list # <<>>
       /\ fault_reader[r] \in {"showing", "ended"} => fault_event[r] = Head(fault_list)
  /\ (\A r \in FaultReaders : fault_reader[r] = "closed")
       => \A k \in DOMAIN fault_list : fault_list[k] \in fault_late

WrongIsSecond ==
  \A w \in fault_wrong :
    \/ w[1] = "disturbed" /\ w[2] \in fault_second
    \/ w[1] = "two users" /\ \E a \in fault_second : FaultCtx[a] = w[2]

FaultInv ==
  /\ FaultTyped /\ OneDump /\ FirstFault /\ SecondFaults /\ EventsWait /\ ReaderKnows
  /\ WrongIsSecond

\* A context has one event at most, and then its work waits.
LEMMA EventIs ==
  ASSUME FaultInv, NEW c \in Jf!Contexts
  PROVE  /\ \A k, l \in Jf!Events(c) : k = l
         /\ Jf!EventOf(c) \in FaultAtoms \cup {Jf!None}
         /\ Jf!EventOf(c) # Jf!None
              => FaultCtx[Jf!EventOf(c)] = c /\ fault_work[Jf!EventOf(c)] = "waiting"
         /\ Jf!EventOf(c) = Jf!None /\ Jf!None \notin FaultAtoms
              => \A k \in DOMAIN fault_list : FaultCtx[fault_list[k]] # c
<1>1. \A k \in DOMAIN fault_list : fault_list[k] \in FaultAtoms
  BY DEF FaultInv, FaultTyped
<1>2. \A k, l \in Jf!Events(c) : k = l
  BY <1>1 DEF FaultInv, OneDump, EventsWait, Jf!Events
<1>3. ASSUME Jf!Events(c) # {}
      PROVE  \E k \in Jf!Events(c) : Jf!EventOf(c) = fault_list[k]
  <2>1. PICK k \in Jf!Events(c) : TRUE
    BY <1>3
  <2>2. k \in Int
    BY DEF Jf!Events, FaultInv, FaultTyped
  <2>3. \A l \in Jf!Events(c) : k <= l
    BY <1>2, <2>2
  <2>. DEFINE m == CHOOSE n \in Jf!Events(c) : \A l \in Jf!Events(c) : n <= l
  <2>4. m \in Jf!Events(c)
    BY <2>1, <2>3
  <2>. QED
    BY <1>3, <2>4 DEF Jf!EventOf
<1>4. Jf!Events(c) = {} => Jf!EventOf(c) = Jf!None
  BY DEF Jf!EventOf
<1>. QED
  BY <1>1, <1>2, <1>3, <1>4 DEF Jf!Events, FaultInv, EventsWait

\* Nothing has failed at first.
LEMMA InitFault == ASSUME Jf!FaultAssumption, Jf!Init PROVE FaultInv
<1>1. FaultTyped
  <2>1. fault_atom \in [FaultAtoms -> Places] /\ fault_work \in [FaultAtoms -> Works]
          /\ fault_reader \in [FaultReaders -> Readings]
    BY DEF Jf!Init, Places, Works, Readings
  <2>2. fault_event \in [FaultReaders -> FaultAtoms \cup {Jf!None}]
          /\ fault_irq \in FaultAtoms \cup {Jf!None} /\ job_fault_debug \in BOOLEAN
          /\ fault_second \subseteq FaultAtoms /\ fault_late \subseteq FaultAtoms
    BY DEF Jf!Init
  <2>3. fault_list \in Seq(FaultAtoms)
    BY DEF Jf!Init
  <2>4. fault_count \in [Jf!Contexts -> {0, 1}]
    BY DEF Jf!Init
  <2>5. fault_resume \in [Jf!Contexts -> Seq(HeldAtoms)]
    <3>1. <<>> \in Seq(HeldAtoms)
      OBVIOUS
    <3>. QED
      BY <3>1 DEF Jf!Init
  <2>. QED
    BY <2>1, <2>2, <2>3, <2>4, <2>5 DEF FaultTyped
<1>2. /\ \A a \in FaultAtoms : fault_work[a] = "no"
      /\ \A c \in Jf!Contexts : fault_count[c] = 0 /\ fault_resume[c] = <<>>
      /\ fault_irq = Jf!None /\ fault_list = <<>> /\ fault_wrong = {}
      /\ \A r \in FaultReaders : fault_reader[r] = "closed"
  BY DEF Jf!Init
<1>3. DOMAIN fault_list = {}
  BY <1>2
<1>4. OneDump /\ FirstFault /\ SecondFaults
  BY <1>2 DEF OneDump, FirstFault, SecondFaults, Woken
<1>5. EventsWait /\ ReaderKnows /\ WrongIsSecond
  BY <1>2, <1>3 DEF EventsWait, ReaderKnows, WrongIsSecond
<1>. QED
  BY <1>1, <1>4, <1>5 DEF FaultInv

\* An atom ends: it is held, processed or let through.
LEMMA DoneFault ==
  ASSUME Jf!FaultAssumption, FaultInv, NEW a \in FaultAtoms, NEW failed \in BOOLEAN, Jf!Done(a, failed)
  PROVE  FaultInv'
<1>. DEFINE c == FaultCtx[a]
<1>0. c \in Jf!Contexts
  BY DEF Jf!Contexts
<1>1. /\ fault_irq = Jf!None /\ fault_atom[a] = "running"
      /\ UNCHANGED <<fault_work, fault_list, fault_count, fault_late, Jf!file>>
  BY DEF Jf!Done
<1>2. EventsWait' /\ ReaderKnows'
  BY <1>1 DEF FaultInv, EventsWait, ReaderKnows, Jf!file
<1>3. CASE /\ Jf!Dumping(c) /\ fault_resume' = Jf!Queued(a)
           /\ fault_atom' = [fault_atom EXCEPT ![a] = "held"]
           /\ fault_wrong' = fault_wrong \cup Jf!Clash(c, Jf!Resuming(c))
           /\ UNCHANGED <<fault_irq, fault_second>>
  <2>1. PICK b \in FaultAtoms : FaultCtx[b] = c /\ fault_work[b] = "waiting"
    <3>1. fault_count[c] \in {0, 1}
      BY <1>0 DEF FaultInv, FaultTyped
    <3>2. fault_count[c] > 0
      BY <1>3 DEF Jf!Dumping
    <3>3. fault_count[c] = 1
      <4>. HIDE DEF c
      <4>. QED
        BY <3>1, <3>2
    <3>. QED
      BY <1>0, <3>3 DEF FaultInv, OneDump
  <2>2. FaultTyped'
    <3>. DEFINE e == [atom |-> a, during |-> Jf!EventOf(c)]
    <3>1. e \in HeldAtoms
      BY <1>0, EventIs DEF HeldAtoms
    <3>2. fault_resume' = [fault_resume EXCEPT ![c] = Append(@, e)]
      BY <1>3 DEF Jf!Queued
    <3>3. fault_resume' \in [Jf!Contexts -> Seq(HeldAtoms)]
      <4>. HIDE DEF e, c
      <4>. QED
        BY <1>0, <3>1, <3>2 DEF FaultInv, FaultTyped
    <3>4. fault_atom' \in [FaultAtoms -> Places]
      BY <1>3 DEF FaultInv, FaultTyped, Places
    <3>. QED
      BY <1>1, <1>3, <3>3, <3>4 DEF FaultInv, FaultTyped, Jf!file
  <2>3. \A d \in Jf!Contexts \ {c} : fault_resume'[d] = fault_resume[d]
    BY <1>3 DEF Jf!Queued, FaultInv, FaultTyped
  <2>4. \A x \in FaultAtoms : fault_atom'[x] = "running" => fault_atom[x] = "running"
    BY <1>3 DEF FaultInv, FaultTyped
  <2>5. OneDump'
    <3>1. \A d \in Jf!Contexts : fault_resume'[d] # <<>>
            => \E x \in FaultAtoms : FaultCtx[x] = d /\ fault_work[x] # "no"
      BY <2>1, <2>3 DEF FaultInv, OneDump
    <3>2. fault_work' = fault_work /\ fault_count' = fault_count
      BY <1>1
    <3>. QED
      BY <2>4, <3>1, <3>2 DEF FaultInv, OneDump
  <2>6. FirstFault' /\ SecondFaults'
    BY <1>1, <1>3 DEF FaultInv, FirstFault, SecondFaults, Woken
  <2>7. WrongIsSecond'
    <3>1. Jf!Resuming(c) # {} => b \in fault_second
      BY <2>1 DEF Jf!Resuming, FaultInv, SecondFaults, Woken
    <3>2. ASSUME NEW w \in Jf!Clash(c, Jf!Resuming(c)) PROVE w[1] = "two users" /\ w[2] = c /\ b \in fault_second
      <4>1. w = <<"two users", c>> /\ Jf!Resuming(c) # {}
        BY <3>2 DEF Jf!Clash
      <4>. QED
        BY <3>1, <4>1
    <3>3. ASSUME NEW w \in fault_wrong'
          PROVE  \/ w[1] = "disturbed" /\ w[2] \in fault_second
                 \/ w[1] = "two users" /\ \E s \in fault_second : FaultCtx[s] = w[2]
      BY <1>3, <2>1, <3>2, <3>3 DEF FaultInv, WrongIsSecond
    <3>. QED
      BY <1>3, <3>3 DEF WrongIsSecond
  <2>. QED
    BY <1>2, <2>2, <2>5, <2>6, <2>7 DEF FaultInv
<1>4. CASE /\ ~Jf!Dumping(c) /\ fault_irq' = a
           /\ fault_second' = IF Jf!Resuming(c) = {} THEN fault_second ELSE fault_second \cup {a}
           /\ UNCHANGED <<fault_atom, fault_resume, fault_wrong>>
  <2>1. \A b \in FaultAtoms : FaultCtx[b] = c => fault_work[b] # "waiting"
    BY <1>0, <1>4 DEF Jf!Dumping, FaultInv, OneDump
  <2>2. fault_second \subseteq fault_second' /\ fault_second' \subseteq FaultAtoms
    BY <1>4 DEF FaultInv, FaultTyped
  <2>3. \A b \in FaultAtoms : FaultCtx[b] = c /\ Woken(b) => a \in fault_second'
    BY <1>4 DEF Jf!Resuming, Woken
  <2>4. FaultTyped'
    BY <1>1, <1>4, <2>2 DEF FaultInv, FaultTyped, Jf!file
  <2>5. OneDump' /\ FirstFault'
    BY <1>1, <1>4, <2>1, <2>3 DEF FaultInv, OneDump, FirstFault, Woken
  <2>6. SecondFaults' /\ WrongIsSecond'
    BY <1>1, <1>4, <2>2 DEF FaultInv, SecondFaults, Woken, WrongIsSecond
  <2>. QED
    BY <1>2, <2>4, <2>5, <2>6 DEF FaultInv
<1>5. CASE fault_atom' = [fault_atom EXCEPT ![a] = "ready"]
           /\ UNCHANGED <<fault_irq, fault_resume, fault_wrong, fault_second>>
  <2>1. FaultTyped'
    BY <1>1, <1>5 DEF FaultInv, FaultTyped, Places, Jf!file
  <2>2. \A x \in FaultAtoms : fault_atom'[x] = "running" => fault_atom[x] = "running"
    BY <1>5 DEF FaultInv, FaultTyped
  <2>3. OneDump'
    BY <1>1, <1>5, <2>2 DEF FaultInv, OneDump
  <2>4. FirstFault' /\ SecondFaults' /\ WrongIsSecond'
    BY <1>1, <1>5 DEF FaultInv, FirstFault, SecondFaults, Woken, WrongIsSecond
  <2>. QED
    BY <1>2, <2>1, <2>3, <2>4 DEF FaultInv
<1>. QED
  BY <1>3, <1>4, <1>5 DEF Jf!Done

\* The fault is put on the list, perhaps after the file was closed.
LEMMA PostFault == ASSUME Jf!FaultAssumption, FaultInv, Jf!Post PROVE FaultInv'
<1>. DEFINE f == fault_irq
            c == FaultCtx[f]
<1>0. f # Jf!None /\ f \in FaultAtoms /\ c \in Jf!Contexts /\ fault_irq' = Jf!None
        /\ fault_atom[f] = "running" /\ fault_work[f] = "no"
  BY DEF Jf!Post, FaultInv, FaultTyped, Jf!Contexts, OneDump, FirstFault
<1>1. /\ fault_list' = Append(fault_list, f)
      /\ fault_work' = [fault_work EXCEPT ![f] = "waiting"]
      /\ fault_atom' = [fault_atom EXCEPT ![f] = "posted"]
      /\ fault_count' = [fault_count EXCEPT ![c] = @ + 1]
      /\ fault_late' = IF \A r \in FaultReaders : fault_reader[r] = "closed"
                       THEN fault_late \cup {f} ELSE fault_late
      /\ UNCHANGED <<fault_resume, fault_wrong, fault_second, Jf!file>>
  BY DEF Jf!Post
<1>2. \A a \in FaultAtoms : FaultCtx[a] = c => fault_work[a] # "waiting" /\ (Woken(a) => f \in fault_second)
  BY <1>0 DEF FaultInv, FirstFault
<1>3. fault_count[c] = 0
  <2>1. fault_count[c] \in {0, 1}
    BY <1>0 DEF FaultInv, FaultTyped
  <2>2. fault_count[c] # 1
    BY <1>0, <1>2 DEF FaultInv, OneDump
  <2>. QED
    BY <2>1, <2>2
<1>4. fault_work'[f] = "waiting" /\ \A a \in FaultAtoms \ {f} : fault_work'[a] = fault_work[a]
  BY <1>0, <1>1 DEF FaultInv, FaultTyped
<1>5. fault_count'[c] = 1 /\ \A d \in Jf!Contexts \ {c} : fault_count'[d] = fault_count[d]
  BY <1>0, <1>1, <1>3 DEF FaultInv, FaultTyped
<1>6. FaultTyped'
  <2>1. fault_atom' \in [FaultAtoms -> Places] /\ fault_work' \in [FaultAtoms -> Works]
    BY <1>1 DEF FaultInv, FaultTyped, Works, Places
  <2>2. fault_count' \in [Jf!Contexts -> {0, 1}]
    BY <1>0, <1>1, <1>3 DEF FaultInv, FaultTyped
  <2>3. fault_list' \in Seq(FaultAtoms) /\ fault_late' \subseteq FaultAtoms
    BY <1>0, <1>1 DEF FaultInv, FaultTyped
  <2>. QED
    BY <1>0, <1>1, <2>1, <2>2, <2>3 DEF FaultInv, FaultTyped, Jf!file
<1>7. OneDump'
  <2>1. \A a, b \in FaultAtoms : FaultCtx[a] = FaultCtx[b] /\ fault_work'[a] = "waiting" /\ fault_work'[b] = "waiting" => a = b
    BY <1>0, <1>2, <1>4 DEF FaultInv, OneDump
  <2>2. \A a \in FaultAtoms : fault_work'[a] = "waiting" => fault_count'[FaultCtx[a]] = 1
    BY <1>4, <1>5 DEF FaultInv, OneDump, Jf!Contexts
  <2>3. \A d \in Jf!Contexts : fault_count'[d] = 1
          => \E a \in FaultAtoms : FaultCtx[a] = d /\ fault_work'[a] = "waiting"
    <3>. SUFFICES ASSUME NEW d \in Jf!Contexts, fault_count'[d] = 1
                  PROVE  \E a \in FaultAtoms : FaultCtx[a] = d /\ fault_work'[a] = "waiting"
      OBVIOUS
    <3>1. CASE d = c
      BY <3>1, <1>0, <1>4
    <3>2. CASE d # c
      <4>1. PICK a \in FaultAtoms : FaultCtx[a] = d /\ fault_work[a] = "waiting"
        BY <3>2, <1>5 DEF FaultInv, OneDump
      <4>. QED
        BY <4>1, <3>2, <1>4
    <3>. QED
      BY <3>1, <3>2
  <2>4. \A d \in Jf!Contexts : fault_resume'[d] # <<>>
          => \E a \in FaultAtoms : FaultCtx[a] = d /\ fault_work'[a] # "no"
    <3>. SUFFICES ASSUME NEW d \in Jf!Contexts, fault_resume[d] # <<>>
                  PROVE  \E a \in FaultAtoms : FaultCtx[a] = d /\ fault_work'[a] # "no"
      BY <1>1
    <3>1. PICK a \in FaultAtoms : FaultCtx[a] = d /\ fault_work[a] # "no"
      BY DEF FaultInv, OneDump
    <3>. QED
      BY <3>1, <1>0, <1>4
  <2>5. \A a \in FaultAtoms : fault_atom'[a] = "running" => fault_work'[a] = "no"
    BY <1>0, <1>1, <1>4 DEF FaultInv, FaultTyped, OneDump
  <2>. QED
    BY <2>1, <2>2, <2>3, <2>4, <2>5 DEF OneDump
<1>8. FirstFault' /\ SecondFaults' /\ WrongIsSecond'
  <2>1. \A a \in FaultAtoms : Woken(a)' <=> Woken(a)
    BY <1>0, <1>4 DEF Woken
  <2>2. \A a, b \in FaultAtoms : FaultCtx[a] = FaultCtx[b] /\ fault_work'[a] = "waiting" /\ Woken(b) => a \in fault_second
    BY <1>0, <1>2, <1>4 DEF FaultInv, SecondFaults
  <2>3. SecondFaults'
    BY <1>1, <2>1, <2>2 DEF FaultInv, SecondFaults
  <2>. QED
    BY <1>0, <1>1, <2>3 DEF FaultInv, FirstFault, WrongIsSecond
<1>9. /\ Len(fault_list) \in Nat /\ DOMAIN fault_list = 1..Len(fault_list)
      /\ DOMAIN fault_list' = 1..(Len(fault_list) + 1)
      /\ \A k \in 1..Len(fault_list) : fault_list'[k] = fault_list[k]
      /\ fault_list'[Len(fault_list) + 1] = f
      /\ fault_list' # <<>> /\ (fault_list # <<>> => Head(fault_list') = Head(fault_list))
  <2>1. fault_list \in Seq(FaultAtoms) /\ f \in FaultAtoms /\ fault_list' = Append(fault_list, f)
    BY <1>0, <1>1 DEF FaultInv, FaultTyped
  <2>2. Len(fault_list') > 0
    BY <2>1
  <2>. QED
    BY <2>1, <2>2
<1>10. EventsWait'
  <2>1. \A k \in DOMAIN fault_list : fault_list[k] \in FaultAtoms \ {f}
    BY <1>0 DEF FaultInv, FaultTyped, EventsWait
  <2>. QED
    BY <2>1, <1>9, <1>4 DEF FaultInv, EventsWait
<1>11. ReaderKnows'
  <2>1. UNCHANGED <<fault_reader, fault_event>>
    BY <1>1 DEF Jf!file
  <2>2. ASSUME \A r \in FaultReaders : fault_reader[r] = "closed", NEW k \in DOMAIN fault_list'
        PROVE  fault_list'[k] \in fault_late'
    BY <2>2, <1>1, <1>9 DEF FaultInv, ReaderKnows
  <2>. QED
    BY <1>9, <2>1, <2>2 DEF FaultInv, ReaderKnows
<1>. QED
  BY <1>6, <1>7, <1>8, <1>10, <1>11 DEF FaultInv

\* The worker of the context ends an atom that was let through.
LEMMA WorkerFault == ASSUME FaultInv, NEW a \in FaultAtoms, Jf!DoneWorker(a) PROVE FaultInv'
<1>1. /\ fault_irq = Jf!None /\ fault_atom' = [fault_atom EXCEPT ![a] = "done"]
      /\ UNCHANGED <<fault_work, fault_irq, fault_list, fault_count, fault_resume, fault_wrong,
           fault_second, fault_late, Jf!file>>
  BY DEF Jf!DoneWorker
<1>2. FaultTyped'
  BY <1>1 DEF FaultInv, FaultTyped, Places, Jf!file
<1>3. \A x \in FaultAtoms : fault_atom'[x] = "running" => fault_atom[x] = "running"
  BY <1>1 DEF FaultInv, FaultTyped
<1>4. OneDump'
  BY <1>1, <1>3 DEF FaultInv, OneDump
<1>5. FirstFault' /\ SecondFaults' /\ WrongIsSecond'
  BY <1>1 DEF FaultInv, FirstFault, SecondFaults, Woken, WrongIsSecond
<1>6. EventsWait' /\ ReaderKnows'
  BY <1>1 DEF FaultInv, EventsWait, ReaderKnows, Jf!file
<1>. QED
  BY <1>2, <1>4, <1>5, <1>6 DEF FaultInv

\* The work of a dump goes on once the event was taken off the list.
LEMMA WakeFault == ASSUME Jf!FaultAssumption, FaultInv, NEW a \in FaultAtoms, Jf!ResumeWake(a)
  PROVE FaultInv'
<1>. DEFINE c == FaultCtx[a]
<1>0. c \in Jf!Contexts /\ fault_work[a] = "waiting" /\ Jf!EventOf(c) = Jf!None
  BY DEF Jf!Contexts, Jf!ResumeWake
<1>1. /\ fault_work' = [fault_work EXCEPT ![a] = "woken"]
      /\ fault_count' = [fault_count EXCEPT ![c] = 0]
      /\ UNCHANGED <<fault_atom, fault_irq, fault_list, fault_resume, fault_wrong,
           fault_second, fault_late, Jf!file>>
  BY DEF Jf!ResumeWake
<1>2. \A k \in DOMAIN fault_list : fault_list[k] \in FaultAtoms \ {a}
  <2>1. \A k \in DOMAIN fault_list : FaultCtx[fault_list[k]] # c
    BY <1>0, EventIs DEF Jf!FaultAssumption
  <2>. QED
    BY <2>1 DEF FaultInv, FaultTyped
<1>3. fault_work'[a] = "woken" /\ \A b \in FaultAtoms \ {a} : fault_work'[b] = fault_work[b]
  BY <1>1 DEF FaultInv, FaultTyped
<1>4. fault_count'[c] = 0 /\ \A d \in Jf!Contexts \ {c} : fault_count'[d] = fault_count[d]
  BY <1>0, <1>1 DEF FaultInv, FaultTyped
<1>5. FaultTyped'
  <2>1. fault_work' \in [FaultAtoms -> Works] /\ fault_count' \in [Jf!Contexts -> {0, 1}]
    BY <1>1 DEF FaultInv, FaultTyped, Works
  <2>. QED
    BY <1>1, <2>1 DEF FaultInv, FaultTyped, Jf!file
<1>6. \A b \in FaultAtoms : FaultCtx[b] = c /\ b # a => fault_work[b] # "waiting"
  BY <1>0 DEF FaultInv, OneDump
<1>7. OneDump'
  <2>1. \A b, d \in FaultAtoms : FaultCtx[b] = FaultCtx[d] /\ fault_work'[b] = "waiting" /\ fault_work'[d] = "waiting" => b = d
    BY <1>0, <1>3 DEF FaultInv, OneDump
  <2>2. \A b \in FaultAtoms : fault_work'[b] = "waiting" => fault_count'[FaultCtx[b]] = 1
    <3>. SUFFICES ASSUME NEW b \in FaultAtoms, fault_work'[b] = "waiting"
           PROVE fault_count'[FaultCtx[b]] = 1
      OBVIOUS
    <3>1. b # a /\ fault_work[b] = "waiting"
      BY <1>3
    <3>2. FaultCtx[b] # c /\ fault_count[FaultCtx[b]] = 1
      BY <1>6, <3>1 DEF FaultInv, OneDump
    <3>. QED
      BY <3>2, <1>4 DEF Jf!Contexts
  <2>3. \A d \in Jf!Contexts : fault_count'[d] = 1
          => \E b \in FaultAtoms : FaultCtx[b] = d /\ fault_work'[b] = "waiting"
    <3>. SUFFICES ASSUME NEW d \in Jf!Contexts, fault_count'[d] = 1
                  PROVE  \E b \in FaultAtoms : FaultCtx[b] = d /\ fault_work'[b] = "waiting"
      OBVIOUS
    <3>1. d # c /\ fault_count[d] = 1
      BY <1>4
    <3>2. PICK b \in FaultAtoms : FaultCtx[b] = d /\ fault_work[b] = "waiting"
      BY <3>1 DEF FaultInv, OneDump
    <3>. QED
      BY <3>1, <3>2, <1>3
  <2>4. \A d \in Jf!Contexts : fault_resume'[d] # <<>>
          => \E b \in FaultAtoms : FaultCtx[b] = d /\ fault_work'[b] # "no"
    <3>. SUFFICES ASSUME NEW d \in Jf!Contexts, fault_resume[d] # <<>>
                  PROVE  \E b \in FaultAtoms : FaultCtx[b] = d /\ fault_work'[b] # "no"
      BY <1>1
    <3>1. PICK b \in FaultAtoms : FaultCtx[b] = d /\ fault_work[b] # "no"
      BY DEF FaultInv, OneDump
    <3>. QED
      BY <3>1, <1>3
  <2>5. \A b \in FaultAtoms : fault_atom'[b] = "running" => fault_work'[b] = "no"
    BY <1>0, <1>1, <1>3 DEF FaultInv, OneDump
  <2>. QED
    BY <2>1, <2>2, <2>3, <2>4, <2>5 DEF OneDump
<1>8. FirstFault'
  <2>1. fault_irq # Jf!None => FaultCtx[fault_irq] # c
    BY <1>0 DEF FaultInv, FirstFault
  <2>. QED
    BY <1>1, <1>3, <2>1 DEF FaultInv, FirstFault, Woken
<1>9. SecondFaults'
  <2>1. \A x, y \in FaultAtoms : FaultCtx[x] = FaultCtx[y] /\ fault_work'[x] = "waiting" /\ Woken(y)'
          => x \in fault_second
    BY <1>3, <1>6 DEF FaultInv, SecondFaults, Woken
  <2>2. \A y \in FaultAtoms \ {a} : FaultCtx[y] = c /\ Woken(y) => a \in fault_second
    BY <1>0 DEF FaultInv, SecondFaults
  <2>3. \A y \in FaultAtoms \ {a} : Woken(y)' <=> Woken(y)
    BY <1>3 DEF Woken
  <2>4. \A x, y \in FaultAtoms : FaultCtx[x] = FaultCtx[y] /\ Woken(x)' /\ Woken(y)' /\ x # y
          => \E s \in fault_second : FaultCtx[s] = FaultCtx[x]
    <3>. SUFFICES ASSUME NEW x \in FaultAtoms, NEW y \in FaultAtoms, FaultCtx[x] = FaultCtx[y],
                         Woken(x)', Woken(y)', x # y
                  PROVE  \E s \in fault_second : FaultCtx[s] = FaultCtx[x]
      OBVIOUS
    <3>1. CASE x = a \/ y = a
      BY <3>1, <2>2, <2>3
    <3>2. CASE x # a /\ y # a
      BY <3>2, <2>3 DEF FaultInv, SecondFaults
    <3>. QED
      BY <3>1, <3>2
  <2>. QED
    BY <1>1, <2>1, <2>4 DEF SecondFaults
<1>10. EventsWait' /\ ReaderKnows' /\ WrongIsSecond'
  <2>1. EventsWait'
    BY <1>1, <1>2, <1>3 DEF FaultInv, EventsWait
  <2>2. ReaderKnows' /\ WrongIsSecond'
    BY <1>1 DEF FaultInv, ReaderKnows, WrongIsSecond, Jf!file
  <2>. QED
    BY <2>1, <2>2
<1>. QED
  BY <1>5, <1>7, <1>8, <1>9, <1>10 DEF FaultInv

\* It ends the faulty atom, releases those held behind it, one after another,
\* and ends.
LEMMA ResumeFault ==
  ASSUME Jf!FaultAssumption, FaultInv, NEW a \in FaultAtoms, Jf!ResumeDone(a) \/ Jf!ResumeNext(a) \/ Jf!ResumeEnd(a)
  PROVE  FaultInv'
<1>. DEFINE c == FaultCtx[a]
<1>0. c \in Jf!Contexts /\ Woken(a)
  BY DEF Jf!Contexts, Jf!ResumeDone, Jf!ResumeNext, Jf!ResumeEnd, Woken
<1>1. UNCHANGED <<fault_irq, fault_list, fault_count, fault_second, fault_late, Jf!file>>
  BY DEF Jf!ResumeDone, Jf!ResumeNext, Jf!ResumeEnd
<1>2. ReaderKnows'
  BY <1>1 DEF FaultInv, ReaderKnows, Jf!file
<1>3. CASE Jf!ResumeDone(a)
  <2>1. /\ fault_irq = Jf!None /\ fault_work' = [fault_work EXCEPT ![a] = "emptying"]
        /\ fault_atom' = [fault_atom EXCEPT ![a] = "done"]
        /\ UNCHANGED <<fault_resume, fault_wrong>>
    BY <1>3 DEF Jf!ResumeDone
  <2>2. fault_work'[a] = "emptying" /\ \A b \in FaultAtoms \ {a} : fault_work'[b] = fault_work[b]
    BY <2>1 DEF FaultInv, FaultTyped
  <2>3. FaultTyped'
    <3>1. fault_work' \in [FaultAtoms -> Works] /\ fault_atom' \in [FaultAtoms -> Places]
      BY <2>1 DEF FaultInv, FaultTyped, Works, Places
    <3>. QED
      BY <1>1, <2>1, <3>1 DEF FaultInv, FaultTyped, Jf!file
  <2>4. \A b \in FaultAtoms :
          /\ fault_work'[b] = "waiting" <=> fault_work[b] = "waiting"
          /\ fault_work'[b] = "no" <=> fault_work[b] = "no"
          /\ Woken(b)' <=> Woken(b)
          /\ fault_atom'[b] = "running" => fault_atom[b] = "running"
    <3>1. \A b \in FaultAtoms : fault_atom'[b] = "running" => fault_atom[b] = "running"
      BY <2>1 DEF FaultInv, FaultTyped
    <3>. QED
      BY <1>0, <2>2, <3>1 DEF Woken
  <2>5. OneDump'
    <3>1. fault_count' = fault_count /\ fault_resume' = fault_resume
      BY <1>1, <2>1
    <3>. QED
      BY <2>4, <3>1 DEF FaultInv, OneDump
  <2>6. FirstFault' /\ SecondFaults'
    BY <1>1, <2>1, <2>4 DEF FaultInv, FirstFault, SecondFaults
  <2>7. EventsWait'
    <3>1. \A k \in DOMAIN fault_list : fault_list[k] \in FaultAtoms
      BY DEF FaultInv, FaultTyped
    <3>. QED
      BY <1>1, <2>4, <3>1 DEF FaultInv, EventsWait
  <2>8. WrongIsSecond'
    BY <1>1, <2>1 DEF FaultInv, WrongIsSecond
  <2>. QED
    BY <1>2, <2>3, <2>5, <2>6, <2>7, <2>8 DEF FaultInv
<1>4. CASE Jf!ResumeNext(a)
  <2>. DEFINE e == Head(fault_resume[c])
              clash == Jf!Clash(c, Jf!Resuming(c) \ {a})
              disturbed == IF e.during # Jf!None /\ e.during = Jf!EventOf(c)
                           THEN {<<"disturbed", e.during>>} ELSE {}
  <2>1. /\ fault_irq = Jf!None /\ fault_resume[c] # <<>>
        /\ fault_resume' = [fault_resume EXCEPT ![c] = Tail(@)]
        /\ fault_atom' = [fault_atom EXCEPT ![e.atom] = "done"] /\ UNCHANGED fault_work
        /\ fault_wrong' = fault_wrong \cup clash \cup disturbed
    BY <1>4 DEF Jf!ResumeNext
  <2>2. ASSUME NEW w \in clash
        PROVE  w[1] = "two users" /\ w[2] = c /\ \E s \in fault_second : FaultCtx[s] = c
    <3>1. PICK b \in Jf!Resuming(c) \ {a} : w = <<"two users", c>>
      BY <2>2 DEF Jf!Clash
    <3>2. b \in FaultAtoms /\ b # a /\ FaultCtx[b] = c /\ Woken(b)
      BY DEF Jf!Resuming, Woken
    <3>3. \E s \in fault_second : FaultCtx[s] = c
      BY <1>0, <3>2 DEF FaultInv, SecondFaults
    <3>. QED
      BY <3>1, <3>3
  <2>3. ASSUME NEW w \in disturbed PROVE w[1] = "disturbed" /\ w[2] \in fault_second
    <3>1. w = <<"disturbed", Jf!EventOf(c)>> /\ Jf!EventOf(c) # Jf!None
      BY <2>3
    <3>2. Jf!EventOf(c) \in FaultAtoms /\ FaultCtx[Jf!EventOf(c)] = c
            /\ fault_work[Jf!EventOf(c)] = "waiting"
      BY <1>0, <3>1, EventIs
    <3>3. Jf!EventOf(c) \in fault_second
      BY <1>0, <3>2 DEF FaultInv, SecondFaults
    <3>. QED
      BY <3>1, <3>3
  <2>4. WrongIsSecond'
    <3>. SUFFICES ASSUME NEW w \in fault_wrong'
                  PROVE  \/ w[1] = "disturbed" /\ w[2] \in fault_second
                         \/ w[1] = "two users" /\ \E s \in fault_second : FaultCtx[s] = w[2]
      BY <1>1 DEF WrongIsSecond
    <3>1. CASE w \in fault_wrong
      BY <3>1 DEF FaultInv, WrongIsSecond
    <3>2. CASE w \in clash
      BY <3>2, <2>2
    <3>3. CASE w \in disturbed
      BY <3>3, <2>3
    <3>. HIDE DEF clash, disturbed
    <3>. QED
      BY <2>1, <3>1, <3>2, <3>3
  <2>5. fault_resume[c] \in Seq(HeldAtoms)
    BY <1>0 DEF FaultInv, FaultTyped
  <2>6. FaultTyped'
    <3>1. Tail(fault_resume[c]) \in Seq(HeldAtoms)
      BY <2>1, <2>5
    <3>2. fault_resume' \in [Jf!Contexts -> Seq(HeldAtoms)]
      BY <2>1, <3>1 DEF FaultInv, FaultTyped
    <3>3. fault_atom' \in [FaultAtoms -> Places]
      BY <2>1 DEF FaultInv, FaultTyped, Places
    <3>. QED
      BY <1>1, <2>1, <3>2, <3>3 DEF FaultInv, FaultTyped, Jf!file
  <2>7. \A d \in Jf!Contexts \ {c} : fault_resume'[d] = fault_resume[d]
    BY <2>1 DEF FaultInv, FaultTyped
  <2>8. \A x \in FaultAtoms : fault_atom'[x] = "running" => fault_atom[x] = "running"
    BY <2>1 DEF FaultInv, FaultTyped
  <2>9. OneDump'
    <3>1. fault_work' = fault_work /\ fault_count' = fault_count /\ fault_work[a] # "no"
      BY <1>0, <1>1, <2>1 DEF Woken
    <3>2. \A d \in Jf!Contexts : fault_resume'[d] # <<>>
            => \E x \in FaultAtoms : FaultCtx[x] = d /\ fault_work[x] # "no"
      BY <2>7, <3>1 DEF FaultInv, OneDump
    <3>. QED
      BY <2>8, <3>1, <3>2 DEF FaultInv, OneDump
  <2>10. FirstFault' /\ SecondFaults' /\ EventsWait'
    BY <1>1, <2>1 DEF FaultInv, FirstFault, SecondFaults, Woken, EventsWait
  <2>. QED
    BY <1>2, <2>4, <2>6, <2>9, <2>10 DEF FaultInv
<1>5. CASE Jf!ResumeEnd(a)
  <2>1. /\ fault_work' = [fault_work EXCEPT ![a] = "no"] /\ fault_resume[c] = <<>>
        /\ UNCHANGED <<fault_atom, fault_resume, fault_wrong>>
    BY <1>5 DEF Jf!ResumeEnd, Jf!Emptied
  <2>2. fault_work'[a] = "no" /\ \A b \in FaultAtoms \ {a} : fault_work'[b] = fault_work[b]
    BY <2>1 DEF FaultInv, FaultTyped
  <2>3. FaultTyped'
    <3>1. fault_work' \in [FaultAtoms -> Works]
      BY <2>1 DEF FaultInv, FaultTyped, Works
    <3>. QED
      BY <1>1, <2>1, <3>1 DEF FaultInv, FaultTyped, Jf!file
  <2>4. \A b \in FaultAtoms :
          /\ fault_work'[b] = "waiting" <=> fault_work[b] = "waiting"
          /\ fault_work[b] = "no" => fault_work'[b] = "no"
          /\ Woken(b)' => Woken(b)
    BY <1>0, <2>2 DEF Woken
  <2>5. \A d \in Jf!Contexts : fault_resume'[d] # <<>>
          => \E b \in FaultAtoms : FaultCtx[b] = d /\ fault_work'[b] # "no"
    <3>. SUFFICES ASSUME NEW d \in Jf!Contexts, fault_resume[d] # <<>>
                  PROVE  \E b \in FaultAtoms : FaultCtx[b] = d /\ fault_work'[b] # "no"
      BY <2>1
    <3>1. PICK b \in FaultAtoms : FaultCtx[b] = d /\ fault_work[b] # "no"
      BY DEF FaultInv, OneDump
    <3>. QED
      BY <3>1, <2>1, <2>2
  <2>6. OneDump'
    <3>1. fault_count' = fault_count /\ fault_atom' = fault_atom
      BY <1>1, <2>1
    <3>. QED
      BY <2>4, <2>5, <3>1 DEF FaultInv, OneDump
  <2>7. FirstFault'
    BY <1>1, <2>1, <2>4 DEF FaultInv, FirstFault
  <2>8. SecondFaults'
    BY <1>1, <2>4 DEF FaultInv, SecondFaults
  <2>9. EventsWait' /\ WrongIsSecond'
    <3>1. \A k \in DOMAIN fault_list : fault_list[k] \in FaultAtoms
      BY DEF FaultInv, FaultTyped
    <3>2. EventsWait'
      BY <1>1, <2>4, <3>1 DEF FaultInv, EventsWait
    <3>3. WrongIsSecond'
      BY <1>1, <2>1 DEF FaultInv, WrongIsSecond
    <3>. QED
      BY <3>2, <3>3
  <2>. QED
    BY <1>2, <2>3, <2>6, <2>7, <2>8, <2>9 DEF FaultInv
<1>. QED
  BY <1>3, <1>4, <1>5

\* The reader opens and closes the file, waits, is interrupted, copies and shows.
LEMMA ReadFault ==
  ASSUME Jf!FaultAssumption, FaultInv, NEW r \in FaultReaders,
         \/ Jf!Open(r) \/ Jf!ReadWait(r) \/ Jf!ReadWoken(r) \/ Jf!Interrupted(r) \/ Jf!ReadCopy(r)
         \/ Jf!ReadShow(r) \/ Jf!ReadAgain(r) \/ Jf!Close(r) \/ Jf!CloseEnd(r)
  PROVE  FaultInv'
<1>0. \A s \in FaultReaders : s = r
  BY DEF Jf!FaultAssumption
<1>1. UNCHANGED <<fault_atom, fault_work, fault_irq, fault_list, fault_count, fault_resume,
        fault_second, fault_late>>
  BY DEF Jf!Open, Jf!ReadWait, Jf!ReadWoken, Jf!Interrupted, Jf!ReadCopy, Jf!ReadShow,
    Jf!ReadAgain, Jf!Close, Jf!CloseEnd, Jf!Goto
<1>2. \E pc \in Readings :
        /\ fault_reader' = [fault_reader EXCEPT ![r] = pc]
        /\ pc \in {"woken", "showing", "ended"} => fault_list # <<>>
        /\ pc \in {"showing", "ended"} => fault_event'[r] = Head(fault_list)
        /\ pc = "closed" => fault_list = <<>>
        /\ job_fault_debug' \in BOOLEAN
        /\ fault_event' \in [FaultReaders -> FaultAtoms \cup {Jf!None}]
        /\ fault_wrong' = fault_wrong
  <2>1. CASE Jf!Open(r)
    BY <2>1 DEF Jf!Open, Readings, FaultInv, FaultTyped
  <2>2. CASE Jf!ReadWait(r) \/ Jf!Interrupted(r) \/ Jf!ReadAgain(r)
    BY <2>2 DEF Jf!ReadWait, Jf!Interrupted, Jf!ReadAgain, Jf!Goto, Readings, FaultInv, FaultTyped
  <2>3. CASE Jf!ReadWoken(r)
    BY <2>3 DEF Jf!ReadWoken, Jf!Goto, Readings, FaultInv, FaultTyped
  <2>4. CASE Jf!ReadCopy(r)
    <3>1. fault_reader[r] = "woken" /\ fault_list # <<>>
      BY <2>4 DEF Jf!ReadCopy, FaultInv, ReaderKnows
    <3>2. /\ fault_reader' = [fault_reader EXCEPT ![r] = "showing"]
          /\ fault_event' = [fault_event EXCEPT ![r] = Head(fault_list)]
          /\ UNCHANGED <<job_fault_debug, fault_wrong>>
      BY <2>4, <3>1 DEF Jf!ReadCopy, Jf!Goto
    <3>3. fault_event'[r] = Head(fault_list)
            /\ fault_event' \in [FaultReaders -> FaultAtoms \cup {Jf!None}]
      BY <3>1, <3>2 DEF FaultInv, FaultTyped
    <3>. QED
      BY <3>1, <3>2, <3>3 DEF Readings, FaultInv, FaultTyped
  <2>5. CASE Jf!ReadShow(r)
    <3>1. fault_reader[r] = "showing" /\ fault_list # <<>> /\ fault_event[r] = Head(fault_list)
      BY <2>5 DEF Jf!ReadShow, FaultInv, ReaderKnows
    <3>. QED
      BY <2>5, <3>1 DEF Jf!ReadShow, Jf!Goto, Readings, FaultInv, FaultTyped
  <2>6. CASE Jf!Close(r)
    BY <2>6 DEF Jf!Close, Readings, FaultInv, FaultTyped
  <2>7. CASE Jf!CloseEnd(r)
    BY <2>7 DEF Jf!CloseEnd, Jf!Goto, Readings, FaultInv, FaultTyped
  <2>. QED
    BY <2>1, <2>2, <2>3, <2>4, <2>5, <2>6, <2>7
<1>3. PICK pc \in Readings :
        /\ fault_reader' = [fault_reader EXCEPT ![r] = pc]
        /\ pc \in {"woken", "showing", "ended"} => fault_list # <<>>
        /\ pc \in {"showing", "ended"} => fault_event'[r] = Head(fault_list)
        /\ pc = "closed" => fault_list = <<>>
        /\ job_fault_debug' \in BOOLEAN
        /\ fault_event' \in [FaultReaders -> FaultAtoms \cup {Jf!None}]
        /\ fault_wrong' = fault_wrong
  BY <1>2
<1>4. fault_reader' \in [FaultReaders -> Readings] /\ fault_reader'[r] = pc
  BY <1>3 DEF FaultInv, FaultTyped
<1>5. FaultTyped'
  BY <1>1, <1>3, <1>4 DEF FaultInv, FaultTyped
<1>6. OneDump' /\ FirstFault' /\ SecondFaults'
  BY <1>1 DEF FaultInv, OneDump, FirstFault, SecondFaults, Woken
<1>7. EventsWait' /\ WrongIsSecond'
  BY <1>1, <1>3 DEF FaultInv, EventsWait, WrongIsSecond
<1>8. ReaderKnows'
  <2>1. fault_list = <<>> => DOMAIN fault_list = {}
    OBVIOUS
  <2>. QED
    BY <1>0, <1>1, <1>3, <1>4, <2>1 DEF ReaderKnows
<1>. QED
  BY <1>5, <1>6, <1>7, <1>8 DEF FaultInv

\* The first event, if any, is taken off the list, by a read or by the close.
LEMMA TakenFault ==
  ASSUME Jf!FaultAssumption, FaultInv, NEW r \in FaultReaders, Jf!ReadStop(r) \/ Jf!CloseNext(r)
  PROVE  FaultInv'
<1>0. \A s \in FaultReaders : s = r
  BY DEF Jf!FaultAssumption
<1>1. /\ fault_list' = IF fault_list = <<>> THEN <<>> ELSE Tail(fault_list)
      /\ UNCHANGED <<fault_atom, fault_work, fault_irq, job_fault_debug, fault_count,
           fault_resume, fault_second, fault_late>>
      /\ \/ fault_reader' = [fault_reader EXCEPT ![r] = "over"]
         \/ fault_reader' = fault_reader /\ fault_reader[r] = "closing"
  BY DEF Jf!ReadStop, Jf!CloseNext, Jf!Goto, Jf!Dequeued
<1>2. fault_wrong' = fault_wrong
  BY DEF Jf!ReadStop, Jf!CloseNext, FaultInv, ReaderKnows
<1>3. fault_event' \in [FaultReaders -> FaultAtoms \cup {Jf!None}]
  BY DEF Jf!ReadStop, Jf!CloseNext, FaultInv, FaultTyped
<1>4. /\ fault_list' \in Seq(FaultAtoms)
      /\ \A k \in DOMAIN fault_list' :
           k \in Int /\ k + 1 \in DOMAIN fault_list /\ fault_list'[k] = fault_list[k + 1]
  <2>1. fault_list \in Seq(FaultAtoms)
    BY DEF FaultInv, FaultTyped
  <2>2. CASE fault_list = <<>>
    BY <1>1, <2>2
  <2>3. CASE fault_list # <<>>
    BY <1>1, <2>1, <2>3
  <2>. QED
    BY <2>2, <2>3
<1>5. FaultTyped'
  <2>1. fault_reader' \in [FaultReaders -> Readings]
    BY <1>1 DEF FaultInv, FaultTyped, Readings
  <2>. QED
    BY <1>1, <1>3, <1>4, <2>1 DEF FaultInv, FaultTyped
<1>6. OneDump' /\ FirstFault' /\ SecondFaults'
  BY <1>1 DEF FaultInv, OneDump, FirstFault, SecondFaults, Woken
<1>7. EventsWait' /\ WrongIsSecond'
  <2>1. EventsWait'
    BY <1>1, <1>4 DEF FaultInv, EventsWait
  <2>2. WrongIsSecond'
    BY <1>1, <1>2 DEF FaultInv, WrongIsSecond
  <2>. QED
    BY <2>1, <2>2
<1>8. ReaderKnows'
  <2>1. fault_reader'[r] \in {"over", "closing"}
    BY <1>1 DEF FaultInv, FaultTyped
  <2>. QED
    BY <1>0, <2>1 DEF ReaderKnows
<1>. QED
  BY <1>5, <1>6, <1>7, <1>8 DEF FaultInv

\* Every step keeps the invariant.
LEMMA NextFault ==
  ASSUME Jf!FaultAssumption, FaultInv, [Jf!Next]_(Jf!vars) PROVE FaultInv'
<1>1. CASE UNCHANGED Jf!vars
  <2>1. UNCHANGED <<fault_atom, fault_work, fault_irq, job_fault_debug, fault_list, fault_count,
          fault_resume, fault_reader, fault_event, fault_reads, fault_wrong, fault_second, fault_late>>
    BY <1>1 DEF Jf!vars
  <2>2. FaultTyped' /\ OneDump'
    BY <2>1 DEF FaultInv, FaultTyped, OneDump
  <2>3. FirstFault' /\ SecondFaults' /\ EventsWait' /\ ReaderKnows' /\ WrongIsSecond'
    BY <2>1 DEF FaultInv, FirstFault, SecondFaults, Woken, EventsWait, ReaderKnows, WrongIsSecond
  <2>. QED
    BY <2>2, <2>3 DEF FaultInv
<1>2. ASSUME NEW a \in FaultAtoms,
             \/ \E failed \in BOOLEAN : Jf!Done(a, failed)
             \/ Jf!DoneWorker(a) \/ Jf!ResumeWake(a) \/ Jf!ResumeDone(a) \/ Jf!ResumeNext(a) \/ Jf!ResumeEnd(a)
      PROVE  FaultInv'
  BY <1>2, DoneFault, WorkerFault, WakeFault, ResumeFault
<1>3. ASSUME NEW r \in FaultReaders,
             \/ Jf!Open(r) \/ Jf!ReadWait(r) \/ Jf!ReadWoken(r) \/ Jf!Interrupted(r) \/ Jf!ReadCopy(r) \/ Jf!ReadShow(r)
             \/ Jf!ReadStop(r) \/ Jf!ReadAgain(r) \/ Jf!Close(r) \/ Jf!CloseNext(r) \/ Jf!CloseEnd(r)
      PROVE  FaultInv'
  BY <1>3, ReadFault, TakenFault
<1>4. CASE Jf!Next
  BY <1>2, <1>3, <1>4, PostFault DEF Jf!Next
<1>. QED
  BY <1>1, <1>4

\* The dump of a fault is missed by no read, and disturbed only if the fault came
\* while its context was let out of another; no event outlives its reader unless
\* it was posted late, and no atom is held without a work that will release it;
\* for any atoms, contexts and number of events read, whenever the file is opened
\* and closed.  (kbase_debug_job_fault_process, kbase_job_fault_resume_worker,
\* debug_job_fault_release)
THEOREM FaultsAreDumped ==
  ASSUME Jf!FaultAssumption
  PROVE  Jf!Spec => [](Jf!DumpsUndisturbed /\ Jf!NobodyHeldForEver)
<1>1. Jf!Init => FaultInv
  BY InitFault
<1>2. FaultInv /\ [Jf!Next]_(Jf!vars) => FaultInv'
  BY NextFault
<1>3. FaultInv => Jf!DumpsUndisturbed /\ Jf!NobodyHeldForEver
  <2>. SUFFICES ASSUME FaultInv PROVE Jf!DumpsUndisturbed /\ Jf!NobodyHeldForEver
    OBVIOUS
  <2>1. Jf!DumpsUndisturbed
    <3>1. \A c \in Jf!Contexts : \A k, l \in Jf!Events(c) : k = l
      BY EventIs
    <3>. QED
      BY <3>1 DEF Jf!DumpsUndisturbed, FaultInv, WrongIsSecond
  <2>2. (\A s \in FaultReaders : fault_reader[s] = "closed") => Jf!Elements(fault_list) \subseteq fault_late
    BY DEF FaultInv, ReaderKnows, Jf!Elements
  <2>3. ASSUME NEW c \in Jf!Contexts
        PROVE  LET pending == \E a \in FaultAtoms : FaultCtx[a] = c /\ fault_work[a] # "no"
               IN  (fault_count[c] > 0 => pending) /\ (fault_resume[c] # <<>> => pending)
    <3>1. fault_count[c] > 0 => fault_count[c] = 1
      BY DEF FaultInv, FaultTyped
    <3>. QED
      BY <3>1 DEF FaultInv, OneDump
  <2>. QED
    BY <2>1, <2>2, <2>3 DEF Jf!NobodyHeldForEver
<1>. QED
  BY <1>1, <1>2, <1>3, PTL DEF Jf!Spec
=============================================================================
