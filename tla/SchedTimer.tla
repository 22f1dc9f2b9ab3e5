----------------------------- MODULE SchedTimer -----------------------------
(***************************************************************************)
(* The scheduling timer (mali_kbase_js_backend.c): when it runs, what its  *)
(* ticks do to the atom at the head of a slot, and the sysfs files that    *)
(* change the timeouts and the period under it (mali_kbase_core_linux.c).  *)
(* The timer is started and stopped under runpool_mutex; the number of     *)
(* runnable contexts it depends on changes under hwaccess_lock alone.      *)
(***************************************************************************)
EXTENDS Integers, FiniteSets, FiniteSetsExt

CONSTANTS
  Ctxs, Compute,      \* the contexts, and those with compute jobs only
  Hw9435,             \* the GPU has BASE_HW_ISSUE_9435
  Default, Period,    \* the configured timeouts in ticks, the period in ms
  Writes, Periods,    \* what sysfs is asked: timeouts of a class, periods (ms)
  Wrap,               \* a period overflows its 32 bits at this many ms
  MaxWrites, MaxOwed, MaxTicks,
  FaultyPaths         \* the paths of the code that break a property

VARIABLES
  runnable, scheduled, turned, \* the contexts: with work, on the run pool,
                              \* and compute contexts left with other jobs
  timer,          \* timer_running, and where the hrtimer is
  suspend_timer,
  owed,           \* callers that have yet to report a changed count
  sync,           \* where the holder of runpool_mutex is
  atom,           \* the atom at the head of the slot
  ticks, period,  \* the timeouts and the period in force
  asked,          \* what was asked in ms, at least the period of that time
  updated,        \* timeouts_updated
  writes, oops

vars == <<runnable, scheduled, turned, timer, suspend_timer, owed, sync, atom,
          ticks, period, asked, updated, writes, oops>>
config == <<ticks, period, asked, updated, writes, oops>>
contexts == <<runnable, scheduled, turned>>

Classes == {"ss", "cl"}
Stops == {"soft", "hard", "reset"}
NoAtom == [ticks |-> -1]
MaxTime == MaxTicks * Max(Periods \cup {Period})

\* The order kbasep_js_devdata_init demands of the defaults.
Ordered(t) == t["soft"] < t["hard"] /\ t["hard"] < t["reset"]

\* What the configuration and the bounds have to satisfy: timeouts are numbers
\* of ticks, and no timeout is longer than an atom is watched.
TimerAssumption ==
  /\ IsFiniteSet(Ctxs) /\ MaxTicks \in Nat \ {0}
  /\ Period \in Nat \ {0} /\ Periods \subseteq Nat /\ IsFiniteSet(Periods)
  /\ \A p \in Periods : p < Wrap
  /\ Wrap \in Nat \ {0} /\ FaultyPaths = {}
  /\ Default \in [Stops -> Nat \ {0}] /\ Writes \subseteq [Stops -> Int]
  /\ \A s \in Stops, p \in Periods \cup {Period} :
       p <= MaxTime /\ Default[s] * p <= MaxTime
  /\ \A s \in Stops, w \in Writes : w[s] <= MaxTime

Init ==
  /\ runnable = {} /\ scheduled = {} /\ turned = {}
  /\ timer = [running |-> FALSE, at |-> "off"]
  /\ suspend_timer = FALSE /\ owed = 0 /\ sync = "free" /\ atom = NoAtom
  /\ ticks = [c \in Classes |-> Default] /\ Ordered(Default)
  /\ period = Period
  /\ asked = [c \in Classes |-> [s \in Stops |-> Default[s] * Period]]
  /\ updated = FALSE /\ writes = 0 /\ oops = FALSE
-----------------------------------------------------------------------------
(* When the timer runs.                                                    *)

\* timer_callback_should_run.  The contexts that count as compute contexts
\* are those of the run pool that have a compute job.
ShouldRun ==
  LET compute == Cardinality((Compute \cap scheduled) \ turned)
      running == Cardinality(runnable)
  IN  /\ ~suspend_timer
      /\ IF Hw9435 THEN compute >= 2 \/ running > compute ELSE running > 0

\* A context gets its first job or loses its last, or enters or leaves the
\* run pool; the caller goes on to kbase_backend_ctx_count_changed.
CountChange(c) ==
  /\ owed < MaxOwed
  /\ owed' = owed + 1
  /\ \/ /\ runnable' = (runnable \ {c}) \cup ({c} \ runnable)
        /\ c \in runnable => atom = NoAtom /\ c \notin scheduled
        /\ UNCHANGED scheduled
     \/ /\ scheduled' = (scheduled \ {c}) \cup ({c} \ scheduled)
        /\ c \in runnable /\ (c \in scheduled => atom = NoAtom)
        /\ UNCHANGED runnable
  /\ turned' = turned \ {c}
  /\ UNCHANGED <<timer, suspend_timer, sync, atom, config>>

\* The last compute job of a context with other jobs ends: the attribute of
\* the run pool changes and nobody reports it.
AttrChange(c) ==
  /\ "attributes" \in FaultyPaths
  /\ c \in Compute \cap scheduled \cap runnable /\ c \notin turned
  /\ turned' = turned \cup {c}
  /\ UNCHANGED <<runnable, scheduled, timer, suspend_timer, owed, sync, atom, config>>

\* kbase_js_sync_timers and its kin take the mutex.
SyncBegin ==
  /\ sync = "free" /\ owed > 0
  /\ owed' = owed - 1 /\ sync' = "check"
  /\ UNCHANGED <<contexts, timer, suspend_timer, atom, config>>

\* kbase_backend_timer_suspend and _resume, called with the mutex held.
Suspend ==
  /\ sync = "free" /\ atom = NoAtom /\ ~suspend_timer
  /\ suspend_timer' = TRUE /\ sync' = "check"
  /\ UNCHANGED <<contexts, timer, owed, atom, config>>

Resume ==
  /\ sync = "free" /\ suspend_timer
  /\ suspend_timer' = FALSE /\ sync' = "check"
  /\ UNCHANGED <<contexts, timer, owed, atom, config>>

\* kbase_backend_ctx_count_changed, one step to each access.
SyncCheck ==
  /\ sync = "check"
  /\ sync' = IF ShouldRun THEN "second" ELSE "lower"
  /\ UNCHANGED <<contexts, timer, suspend_timer, owed, atom, config>>

SyncLower ==
  /\ sync = "lower"
  /\ timer' = [timer EXCEPT !.running = FALSE] /\ sync' = "cancel"
  /\ UNCHANGED <<contexts, suspend_timer, owed, atom, config>>

\* Mutant of Cancelled: hrtimer_try_to_cancel does not wait.
Cancelled_NoWait == TRUE

\* hrtimer_cancel waits for a callback that is running.
Cancelled == timer.at # "fired"

SyncCancel ==
  /\ sync = "cancel" /\ Cancelled
  /\ timer' = [timer EXCEPT !.at = IF @ = "armed" THEN "off" ELSE @]
  /\ sync' = "second"
  /\ UNCHANGED <<contexts, suspend_timer, owed, atom, config>>

\* Mutant of SecondLook: the first answer is taken for good.
SecondLook_None == FALSE

\* The second call of timer_callback_should_run.
SecondLook == ShouldRun /\ ~timer.running

SyncSecond ==
  /\ sync = "second"
  /\ timer' = [timer EXCEPT !.running = @ \/ SecondLook]
  /\ sync' = IF SecondLook THEN "start" ELSE "free"
  /\ UNCHANGED <<contexts, suspend_timer, owed, atom, config>>

SyncStart ==
  /\ sync = "start"
  /\ timer' = [timer EXCEPT !.at = "armed"] /\ sync' = "free"
  /\ UNCHANGED <<contexts, suspend_timer, owed, atom, config>>
-----------------------------------------------------------------------------
(* The ticks.                                                              *)

\* kbase_js_pull brings an atom to the head of the slot with no ticks.
Pull(c) ==
  /\ atom = NoAtom /\ ~suspend_timer
  /\ \E k \in runnable \cap scheduled : (k \in Compute) <=> (c = "cl")
  /\ atom' = [ticks |-> 0, class |-> c, time |-> 0, seen |-> {}, early |-> FALSE]
  /\ UNCHANGED <<contexts, timer, suspend_timer, owed, sync, config>>

\* The atom ends, by itself or by what the ticks did.
Leave ==
  /\ atom # NoAtom
  /\ atom' = NoAtom
  /\ UNCHANGED <<contexts, timer, suspend_timer, owed, sync, config>>

Expire ==
  /\ timer.at = "armed"
  /\ timer' = [timer EXCEPT !.at = "fired"]
  /\ UNCHANGED <<contexts, suspend_timer, owed, sync, atom, config>>

\* Mutant of Ticked: ticks past the new timeouts are left as they are.
Ticked_NoClamp(a) == a.ticks

\* The ticks of the head atom, brought back when the timeouts were changed.
Ticked(a) ==
  LET soft == ticks[a.class]["soft"]
  IN  IF updated /\ a.ticks > soft THEN soft ELSE a.ticks

\* What one tick does to the head atom: the first timeout that the ticks are
\* equal to is the one that is acted on.
Hit(t, now) == IF now = t["soft"] THEN "soft"
               ELSE IF now = t["hard"] THEN "hard"
               ELSE IF now = t["reset"] THEN "reset" ELSE "none"

Tick(a) ==
  LET t == ticks[a.class]
      now == Ticked(a)
      hit == Hit(t, now)
      time == Min({a.time + period, MaxTime})
  IN  [ticks |-> IF now = a.ticks THEN Min({now + 1, MaxTicks}) ELSE now,
       class |-> a.class, time |-> time, seen |-> a.seen \cup ({hit} \ {"none"}),
       early |-> a.early \/ (hit # "none" /\ time < t[hit] * period)]

Callback ==
  /\ timer.at = "fired"
  /\ atom' = IF atom = NoAtom THEN atom ELSE Tick(atom)
  /\ timer' = [timer EXCEPT !.at = IF timer.running THEN "armed" ELSE "off"]
  /\ updated' = FALSE
  /\ UNCHANGED <<contexts, suspend_timer, owed, sync, ticks, period, asked, writes, oops>>
-----------------------------------------------------------------------------
(* The sysfs files.                                                        *)

\* timeout_ms_to_ticks.
MsToTicks(ms, default, old) ==
  CASE ms > 0 -> Max({ms \div period, 1})
    [] ms < 0 -> default
    [] OTHER -> old

\* get_js_timeout_in_ms.
Shown(c, s) == ticks[c][s] * period

\* set_js_timeouts; w holds a value in ms for each timeout of the class, zero
\* for no change and a negative one for the default.
SetTimeouts(c, w) ==
  LET new == [s \in Stops |-> MsToTicks(w[s], Default[s], ticks[c][s])]
  IN  /\ writes < MaxWrites /\ ~oops
      /\ Ordered(new) \/ "order" \in FaultyPaths
      /\ ticks' = [ticks EXCEPT ![c] = new]
      /\ asked' = [asked EXCEPT ![c] = [s \in Stops |->
           IF w[s] > 0 THEN Max({w[s], period}) ELSE IF w[s] < 0 THEN Default[s] * period ELSE @[s]]]
      /\ updated' = TRUE /\ writes' = writes + 1
      /\ UNCHANGED <<contexts, timer, suspend_timer, owed, sync, atom, period, oops>>

\* Mutant of Rescaled: the ticks are rounded up.
Rescaled_Up(old, new) == (period * old + new - 1) \div new

\* get_new_js_timeout.
Rescaled(old, new) == Max({(period * old) \div new, 1})

\* set_js_scheduling_period: the number of nanoseconds has 32 bits.
SetPeriod(ms) ==
  LET new == ms % Wrap
      scaled == [c \in Classes |-> [s \in Stops |-> Rescaled(ticks[c][s], new)]]
  IN  /\ sync = "free" /\ writes < MaxWrites /\ ~oops /\ ms > 0
      /\ ms < Wrap \/ "overflow" \in FaultyPaths
      /\ writes' = writes + 1
      /\ IF new = 0
           THEN oops' = TRUE /\ UNCHANGED <<ticks, period, updated, asked>>
           ELSE /\ (\A c \in Classes : Ordered(scaled[c])) \/ "collapse" \in FaultyPaths
                /\ atom = NoAtom \/ "rescale" \in FaultyPaths
                /\ ticks' = scaled /\ period' = new /\ updated' = TRUE
                /\ asked' = [c \in Classes |-> [s \in Stops |-> Max({asked[c][s], ms})]]
                /\ UNCHANGED oops
      /\ UNCHANGED <<contexts, timer, suspend_timer, owed, sync, atom>>
-----------------------------------------------------------------------------
Next ==
  \/ \E c \in Ctxs : CountChange(c) \/ AttrChange(c)
  \/ SyncBegin \/ Suspend \/ Resume
  \/ SyncCheck \/ SyncLower \/ SyncCancel \/ SyncSecond \/ SyncStart
  \/ \E c \in Classes : Pull(c)
  \/ Leave \/ Expire \/ Callback
  \/ \E c \in Classes, w \in Writes : SetTimeouts(c, w)
  \/ \E ms \in Periods : SetPeriod(ms)

Spec == Init /\ [][Next]_vars
-----------------------------------------------------------------------------
\* Once nobody owes a report, the timer is under way exactly when a context
\* needs it, however the counts, the callback and a suspend have crossed.
TimerAsNeeded ==
  (sync = "free" /\ owed = 0) =>
    /\ timer.running = ShouldRun
    /\ (timer.at # "off") = ShouldRun

\* No atom gets past a timeout without the stop that goes with it, although
\* the callback looks for equality and the timeouts change under it.
NoTimeoutMissed ==
  (atom # NoAtom /\ ~updated) =>
    \A s \in Stops : atom.ticks > ticks[atom.class][s] => s \in atom.seen

\* No atom is stopped before its time.
NeverEarly == atom # NoAtom => ~atom.early

\* What is in force never lasts longer than what was asked, or than the one
\* tick it was raised to; and nothing is divided by a period of zero.
TimeoutsAsAsked ==
  ~oops /\ \A c \in Classes, s \in Stops : Shown(c, s) <= asked[c][s]

\* The timer runs as long as it is needed, and every timeout is taken in time
\* and not before.  (timer_callback, kbase_backend_ctx_count_changed)
TimeoutsKept == TimerAsNeeded /\ NoTimeoutMissed /\ NeverEarly /\ TimeoutsAsAsked
=============================================================================
