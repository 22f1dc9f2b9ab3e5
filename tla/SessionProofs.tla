---------------------------- MODULE SessionProofs ----------------------------
(***************************************************************************)
(* Proofs about Session, for all atom numbers, threads, readers and        *)
(* numbers of submits.                                                     *)
(***************************************************************************)
EXTENDS Session, SequenceTheorems, WellFoundedInduction, TLAPS

-----------------------------------------------------------------------------
(* Sequences without duplicates.                                            *)

In(s, x) == \E i \in DOMAIN s : s[i] = x
Once(s) == \A i, j \in DOMAIN s : s[i] = s[j] => i = j

LEMMA EmptyOnce ==
  Once(<<>>) /\ \A x : ~In(<<>>, x)
BY DEF Once, In

LEMMA Appended ==
  ASSUME NEW T, NEW s \in Seq(T), NEW x \in T
  PROVE  /\ Append(s, x) \in Seq(T) /\ Len(Append(s, x)) = Len(s) + 1
         /\ Append(s, x) # <<>> /\ Append(s, x)[Len(s) + 1] = x
         /\ \A i \in 1 .. Len(s) : Append(s, x)[i] = s[i]
OBVIOUS

\* Appending a new element.
LEMMA AppendOnce ==
  ASSUME NEW T, NEW s \in Seq(T), NEW x \in T, Once(s), ~In(s, x)
  PROVE  /\ Append(s, x) \in Seq(T) /\ Once(Append(s, x))
         /\ \A y : In(Append(s, x), y) <=> In(s, y) \/ y = x
<1>1. /\ Append(s, x) \in Seq(T) /\ DOMAIN Append(s, x) = 1 .. Len(s) + 1
      /\ DOMAIN s = 1 .. Len(s) /\ Len(s) \in Nat
      /\ Append(s, x)[Len(s) + 1] = x
      /\ \A i \in 1 .. Len(s) : Append(s, x)[i] = s[i]
  OBVIOUS
<1>2. Once(Append(s, x))
  BY <1>1 DEF Once, In
<1>3. ASSUME NEW y PROVE In(Append(s, x), y) <=> In(s, y) \/ y = x
  <2>1. In(s, y) => In(Append(s, x), y)
    BY <1>1 DEF In
  <2>2. In(Append(s, x), x)
    BY <1>1 DEF In
  <2>3. In(Append(s, x), y) => In(s, y) \/ y = x
    BY <1>1 DEF In
  <2> QED
    BY <2>1, <2>2, <2>3
<1> QED
  BY <1>1, <1>2, <1>3

\* Taking the first element off.
LEMMA TailOnce ==
  ASSUME NEW T, NEW s \in Seq(T), s # <<>>, Once(s)
  PROVE  /\ Head(s) \in T /\ Tail(s) \in Seq(T) /\ Once(Tail(s)) /\ In(s, Head(s))
         /\ \A y : In(Tail(s), y) <=> In(s, y) /\ y # Head(s)
<1>1. /\ Head(s) \in T /\ Head(s) = s[1] /\ Tail(s) \in Seq(T)
      /\ Len(s) \in Nat \ {0} /\ DOMAIN s = 1 .. Len(s)
      /\ DOMAIN Tail(s) = 1 .. Len(s) - 1
      /\ \A i \in 1 .. Len(s) - 1 : Tail(s)[i] = s[i + 1]
  BY HeadTailProperties, LenProperties, EmptySeq
<1>2. Once(Tail(s)) /\ In(s, Head(s))
  BY <1>1 DEF Once, In
<1>3. ASSUME NEW y PROVE In(Tail(s), y) <=> In(s, y) /\ y # Head(s)
  <2>1. ASSUME In(Tail(s), y) PROVE In(s, y) /\ y # Head(s)
    <3>1. PICK i \in 1 .. Len(s) - 1 : s[i + 1] = y
      BY <1>1, <2>1 DEF In
    <3>2. i + 1 \in DOMAIN s /\ 1 \in DOMAIN s /\ i + 1 # 1
      BY <1>1
    <3> QED
      BY <1>1, <3>1, <3>2 DEF In, Once
  <2>2. ASSUME In(s, y), y # Head(s) PROVE In(Tail(s), y)
    <3>1. PICK i \in 1 .. Len(s) : s[i] = y
      BY <1>1, <2>2 DEF In
    <3>2. i - 1 \in 1 .. Len(s) - 1 /\ (i - 1) + 1 = i
      BY <1>1, <2>2, <3>1
    <3> QED
      BY <1>1, <3>1, <3>2 DEF In
  <2> QED
    BY <2>1, <2>2
<1> QED
  BY <1>1, <1>2, <1>3

\* An element of either part, and of both parts of a split sequence.
LEMMA ConcatIn ==
  ASSUME NEW T, NEW s \in Seq(T), NEW t \in Seq(T)
  PROVE  \A x : In(s \o t, x) <=> In(s, x) \/ In(t, x)
<1>1. /\ DOMAIN s = 1 .. Len(s) /\ DOMAIN t = 1 .. Len(t)
      /\ Len(s) \in Nat /\ Len(t) \in Nat
      /\ DOMAIN (s \o t) = 1 .. Len(s) + Len(t)
      /\ \A i \in 1 .. Len(s) : (s \o t)[i] = s[i]
      /\ \A i \in Len(s) + 1 .. Len(s) + Len(t) : (s \o t)[i] = t[i - Len(s)]
  BY LenProperties, ConcatProperties
<1> SUFFICES ASSUME NEW x PROVE In(s \o t, x) <=> In(s, x) \/ In(t, x)
  OBVIOUS
<1>2. In(s, x) => In(s \o t, x)
  BY <1>1 DEF In
<1>3. ASSUME In(t, x) PROVE In(s \o t, x)
  <2>1. PICK i \in 1 .. Len(t) : t[i] = x
    BY <1>1, <1>3 DEF In
  <2>2. i + Len(s) \in Len(s) + 1 .. Len(s) + Len(t) /\ (i + Len(s)) - Len(s) = i
        /\ i + Len(s) \in 1 .. Len(s) + Len(t)
    BY <1>1
  <2> QED
    BY <1>1, <2>1, <2>2 DEF In
<1>4. ASSUME In(s \o t, x) PROVE In(s, x) \/ In(t, x)
  <2>1. PICK i \in 1 .. Len(s) + Len(t) : (s \o t)[i] = x
    BY <1>1, <1>4 DEF In
  <2>2. CASE i \in 1 .. Len(s)
    BY <1>1, <2>1, <2>2 DEF In
  <2>3. CASE i \in Len(s) + 1 .. Len(s) + Len(t)
    <3>1. i - Len(s) \in 1 .. Len(t)
      BY <1>1, <2>3
    <3> QED
      BY <1>1, <2>1, <2>3, <3>1 DEF In
  <2>4. i \in 1 .. Len(s) \/ i \in Len(s) + 1 .. Len(s) + Len(t)
    BY <1>1, <2>1
  <2> QED
    BY <2>2, <2>3, <2>4
<1> QED
  BY <1>2, <1>3, <1>4

\* The serials of a sequence of atoms.
SerialOf(as, s) == [i \in DOMAIN s |-> as[s[i]].serial]

LEMMA SerialSeq ==
  ASSUME NEW T, NEW as, \A a \in T : as[a].serial \in Nat, NEW s \in Seq(T)
  PROVE  /\ SerialOf(as, s) \in Seq(Nat) /\ Len(SerialOf(as, s)) = Len(s)
         /\ \A i \in 1 .. Len(s) : SerialOf(as, s)[i] = as[s[i]].serial
<1>1. DOMAIN s = 1 .. Len(s) /\ Len(s) \in Nat /\ \A i \in 1 .. Len(s) : s[i] \in T
  BY LenProperties
<1>2. SerialOf(as, s) = [i \in 1 .. Len(s) |-> as[s[i]].serial]
  BY <1>1 DEF SerialOf
<1> DEFINE u == SerialOf(as, s)
<1>3. u \in [1 .. Len(s) -> Nat] /\ \A i \in 1 .. Len(s) : u[i] = as[s[i]].serial
  BY <1>1, <1>2
<1> HIDE DEF u
<1>4. u \in Seq(Nat) /\ Len(u) = Len(s)
  BY <1>1, <1>3
<1> QED
  BY <1>3, <1>4 DEF u

-----------------------------------------------------------------------------
(* The inductive invariant.  Posted events stand on the two lists together. *)

Events == queue.list \o queue.later

Gates == [version : BOOLEAN, busy : BOOLEAN, complete : BOOLEAN]
AtomRecs == [status : {"unused", "running", "completed"}, req : Requests \cup {{}},
             failed : BOOLEAN, serial : Nat]
Queues == [list : Seq(Atoms), later : Seq(Atoms), count : Nat, closed : BOOLEAN]
Reads == [pc : {"out", "look", "asleep", "took"}, atom : Atoms \cup {0}, serial : Nat]
Logs == [posted : Seq(Nat), taken : Seq(Nat), told : Seq(Nat)]

\* The types of the module's variables.
Typed ==
  /\ gate \in Gates
  /\ setter \in [Threads -> {"out", "in", "set"}] /\ latched \in {0, 1}
  /\ atom \in [Atoms -> AtomRecs] /\ submitter \in Atoms \cup {0}
  /\ ended \in Seq(Atoms) /\ workq \in Seq(Atoms) /\ poster \in {"none", "wake"}
  /\ queue \in Queues /\ reader \in [Readers -> Reads] /\ log \in Logs
  /\ \A r \in Readers : reader[r].pc = "took" => reader[r].atom \in Atoms
  /\ life \in {"open", "zapped", "cleaned"}

\* One thread at most sets up, and nothing is submitted before it has.
SetUp ==
  /\ ~gate.busy => latched = 0 /\ ~gate.complete /\ \A t \in Threads : setter[t] = "out"
  /\ \A t, u \in Threads : setter[t] # "out" /\ setter[u] # "out" => t = u
  /\ \A t \in Threads : /\ setter[t] = "in" => latched = 0
                        /\ setter[t] = "set" => latched = 1
  /\ latched = 0 => /\ ~gate.complete /\ submitter = 0
                    /\ \A a \in Atoms : atom[a].status = "unused"

\* A completed atom is in exactly one place on its way to user space, once.
InPlace(at, en, ev, wo, rd) ==
  LET Took(a) == \E r \in Readers : rd[r].pc = "took" /\ rd[r].atom = a
  IN  /\ Once(en) /\ Once(ev) /\ Once(wo)
      /\ \A a \in Atoms :
           /\ In(en, a) => ~In(ev, a) /\ ~In(wo, a) /\ ~Took(a)
           /\ In(ev, a) => ~In(wo, a) /\ ~Took(a)
           /\ In(wo, a) => ~Took(a)
           /\ at[a].status = "completed" <=>
                In(en, a) \/ In(ev, a) \/ In(wo, a) \/ Took(a)
      /\ \A r, q \in Readers :
           rd[r].pc = "took" /\ rd[q].pc = "took" /\ rd[r].atom = rd[q].atom => r = q
Placed == InPlace(atom, ended, Events, workq, reader)

\* The events posted are those taken and then those on the lists, in order.
InOrder(at, ev, posted, taken) ==
  /\ Len(posted) = Len(taken) + Len(ev)
  /\ \A i \in 1 .. Len(taken) : posted[i] = taken[i]
  /\ \A i \in 1 .. Len(ev) : posted[Len(taken) + i] = at[ev[i]].serial
Ordered == InOrder(atom, Events, log.posted, log.taken) /\ queue.count = Len(queue.list)

\* A serial belongs to one use of one atom number, and is told after that use.
Numbered ==
  /\ \A a \in Atoms : atom[a].status # "unused" => atom[a].serial # 0
  /\ \A a, b \in Atoms : atom[a].serial = atom[b].serial /\ atom[a].serial # 0 => a = b
  /\ \A i \in 1 .. Len(log.told) :
       /\ \E a \in Atoms : log.told[i] <= atom[a].serial
       /\ \A a \in Atoms : atom[a].status # "unused" => log.told[i] # atom[a].serial
       /\ \A j \in 1 .. Len(log.told) : log.told[i] = log.told[j] => i = j
  /\ \A r \in Readers : reader[r].pc = "took" => reader[r].serial = atom[reader[r].atom].serial

\* Who sleeps through an event is about to be woken; nobody is left at the end.
Woken ==
  /\ \A r \in Readers : reader[r].pc = "asleep" => ~Pending \/ poster = "wake"
  /\ life # "open" => submitter = 0 /\ \A r \in Readers : reader[r].pc = "out"
  /\ life = "cleaned" => workq = <<>> /\ \A a \in Atoms : atom[a].status = "unused"

SessionInv == Typed /\ SetUp /\ Placed /\ Ordered /\ Numbered /\ Woken

LEMMA Least ==
  ASSUME NEW T, T \subseteq Nat, T # {}
  PROVE  \E n \in T : \A m \in T : n <= m
<1> DEFINE R == OpToRel(<, Nat)
<1>1. \A x, y \in Nat : <<x, y>> \in R <=> x < y
  BY DEF OpToRel
<1> HIDE DEF R
<1>2. IsWellFoundedOn(R, Nat)
  BY NatLessThanWellFounded DEF R
<1>3. PICK n \in T : \A m \in T : ~(<<m, n>> \in R)
  BY <1>2, WFMin
<1>4. \A m \in T : ~(m < n) /\ m \in Nat /\ n \in Nat
  BY <1>1, <1>3
<1> QED
  BY <1>4

\* kbase_jd_submit numbers an atom past all that were accepted before.
LEMMA SerialIsNew ==
  ASSUME SessionAssumption, Typed, submitter \in Atoms,
         \A a \in Atoms : atom[a].serial < MaxSubmits
  PROVE  /\ NextSerial \in Nat \ {0}
         /\ \A a \in Atoms : atom[a].serial < NextSerial
<1> DEFINE T == {n \in Nat : \A a \in Atoms : atom[a].serial < n}
           P(m) == \A a \in Atoms :
             atom[a].serial < m /\ (m = 1 \/ \E b \in Atoms : atom[b].serial = m - 1)
<1>1. MaxSubmits \in Nat /\ \A a \in Atoms : atom[a].serial \in Nat
  BY DEF Typed, SessionAssumption, AtomRecs
<1>2. T \subseteq Nat /\ MaxSubmits \in T /\ 0 \notin T
  BY <1>1
<1>3. PICK n \in T : \A m \in T : n <= m
  <2> HIDE DEF T
  <2> QED
    BY <1>2, Least
<1>4. n \in 1 .. MaxSubmits
  BY <1>1, <1>2, <1>3
<1>5. n = 1 \/ \E b \in Atoms : atom[b].serial = n - 1
  <2> SUFFICES ASSUME n # 1 PROVE \E b \in Atoms : atom[b].serial = n - 1
    OBVIOUS
  <2>1. n - 1 \in Nat /\ n - 1 \notin T
    BY <1>1, <1>3, <1>4
  <2>2. PICK b \in Atoms : ~(atom[b].serial < n - 1)
    BY <2>1
  <2>3. atom[b].serial < n
    BY <1>3
  <2> QED
    BY <1>1, <1>4, <2>2, <2>3
<1>6. P(n)
  BY <1>3, <1>5
<1>7. NextSerial = CHOOSE m \in 1 .. MaxSubmits : P(m)
  BY DEF NextSerial
<1> HIDE DEF P, T
<1>8. NextSerial \in 1 .. MaxSubmits /\ P(NextSerial)
  BY <1>4, <1>6, <1>7
<1>9. NextSerial \in Nat \ {0}
  BY <1>1, <1>8
<1> QED
  BY <1>8, <1>9 DEF P

-----------------------------------------------------------------------------
(* The lists.                                                               *)

LEMMA EventsTyped ==
  ASSUME Typed
  PROVE  /\ queue.list \in Seq(Atoms) /\ queue.later \in Seq(Atoms)
         /\ Events \in Seq(Atoms) /\ Len(queue.list) \in Nat
         /\ Len(Events) = Len(queue.list) + Len(queue.later)
<1>1. queue.list \in Seq(Atoms) /\ queue.later \in Seq(Atoms)
  BY DEF Typed, Queues
<1> QED
  BY <1>1, ConcatProperties, LenProperties DEF Events

LEMMA ReportIs ==
  ASSUME Typed, NEW a \in Atoms, NEW q, q = Report(queue, a)
  PROVE  /\ q \in Queues /\ q.closed = queue.closed
         /\ q.list = Append(Events, a) /\ q.list \o q.later = Append(Events, a)
         /\ queue.count = Len(queue.list) => q.count = Len(q.list)
<1>1. /\ queue \in Queues /\ Events \in Seq(Atoms) /\ Len(queue.later) \in Nat
      /\ queue.count + Len(queue.later) \in Nat
      /\ Len(Events) = Len(queue.list) + Len(queue.later)
  <2>1. queue \in Queues
    BY DEF Typed, Queues
  <2> QED
    BY <2>1, EventsTyped, LenProperties DEF Queues
<1>2. PICK c \in Queues : c = Coalesced(queue)
  <2>1. Coalesced(queue) =
          [queue EXCEPT !.list = Events, !.later = <<>>, !.count = @ + Len(queue.later)]
    BY DEF Coalesced, Events
  <2>2. <<>> \in Seq(Atoms)
    OBVIOUS
  <2> QED
    BY <1>1, <2>1, <2>2 DEF Queues
<1>3. /\ c.list = Events /\ c.later = <<>> /\ c.closed = queue.closed
      /\ c.count = queue.count + Len(queue.later)
  BY <1>1, <1>2 DEF Coalesced, Events, Queues
<1>4. q = [c EXCEPT !.list = Append(@, a), !.count = @ + 1]
  BY <1>2 DEF Report
<1>5. /\ Append(Events, a) \in Seq(Atoms) /\ <<>> \in Seq(Atoms)
      /\ Append(Events, a) \o <<>> = Append(Events, a)
      /\ Len(Append(Events, a)) = Len(Events) + 1
  <2>1. Append(Events, a) \in Seq(Atoms) /\ Len(Append(Events, a)) = Len(Events) + 1
    BY <1>1, Appended
  <2> QED
    BY <2>1, ConcatEmptySeq, EmptySeq
<1>6. /\ q \in Queues /\ q.list = Append(Events, a) /\ q.later = <<>>
      /\ q.closed = queue.closed /\ q.count = c.count + 1
  <2> DEFINE l == Append(Events, a)
  <2>1. q = [c EXCEPT !.list = l, !.count = @ + 1]
    BY <1>3, <1>4
  <2>2. l \in Seq(Atoms)
    BY <1>5
  <2> HIDE DEF l
  <2>3. /\ c.later \in Seq(Atoms) /\ c.count + 1 \in Nat /\ c.closed \in BOOLEAN
    BY DEF Queues
  <2>4. q = [list |-> l, later |-> c.later, count |-> c.count + 1, closed |-> c.closed]
    BY <2>1 DEF Queues
  <2> QED
    BY <1>3, <2>2, <2>3, <2>4 DEF l, Queues
<1> QED
  BY <1>1, <1>3, <1>5, <1>6

LEMMA LaterIs ==
  ASSUME Typed, NEW a \in Atoms
  PROVE  /\ Append(queue.later, a) \in Seq(Atoms)
         /\ queue.list \o Append(queue.later, a) = Append(Events, a)
<1>1. queue.list \in Seq(Atoms) /\ queue.later \in Seq(Atoms)
  BY DEF Typed, Queues
<1> DEFINE s == queue.list
           t == queue.later
<1> HIDE DEF s, t
<1>2. s \in Seq(Atoms) /\ t \in Seq(Atoms)
  BY <1>1 DEF s, t
<1>3. Append(t, a) \in Seq(Atoms) /\ s \o Append(t, a) = Append(s \o t, a)
  BY <1>2
<1> QED
  BY <1>3 DEF s, t, Events

LEMMA TakenIs ==
  ASSUME Typed, queue.list # <<>>
  PROVE  /\ Events # <<>> /\ Head(Events) = Head(queue.list) /\ Head(queue.list) \in Atoms
         /\ Tail(queue.list) \in Seq(Atoms) /\ Len(Tail(queue.list)) = Len(queue.list) - 1
         /\ Len(queue.list) \in Nat \ {0}
         /\ Tail(queue.list) \o queue.later = Tail(Events)
<1> DEFINE s == queue.list
           t == queue.later
<1>1. s \in Seq(Atoms) /\ t \in Seq(Atoms) /\ s # <<>>
  BY DEF Typed, Queues
<1> HIDE DEF s, t
<1>2. /\ Head(s) \in Atoms /\ Tail(s) \in Seq(Atoms) /\ Len(Tail(s)) = Len(s) - 1
      /\ Len(s) \in Nat \ {0} /\ Len(t) \in Nat /\ Head(s) = s[1]
      /\ \A i \in 1 .. Len(s) - 1 : Tail(s)[i] = s[i + 1]
  BY <1>1, HeadTailProperties, EmptySeq, LenProperties
<1>3. /\ s \o t \in Seq(Atoms) /\ Len(s \o t) = Len(s) + Len(t) /\ (s \o t)[1] = s[1]
      /\ \A i \in 1 .. Len(s) : (s \o t)[i] = s[i]
      /\ \A i \in Len(s) + 1 .. Len(s) + Len(t) : (s \o t)[i] = t[i - Len(s)]
  BY <1>1, <1>2, ConcatProperties
<1>4. s \o t # <<>>
  BY <1>2, <1>3
<1>5. /\ Head(s \o t) = s[1] /\ Tail(s \o t) \in Seq(Atoms)
      /\ Len(Tail(s \o t)) = Len(s) + Len(t) - 1
      /\ \A i \in 1 .. Len(s) + Len(t) - 1 : Tail(s \o t)[i] = (s \o t)[i + 1]
  BY <1>3, <1>4, HeadTailProperties
<1>6. /\ Tail(s) \o t \in Seq(Atoms) /\ Len(Tail(s) \o t) = Len(s) - 1 + Len(t)
      /\ \A i \in 1 .. Len(s) - 1 : (Tail(s) \o t)[i] = Tail(s)[i]
      /\ \A i \in Len(s) .. Len(s) + Len(t) - 1 : (Tail(s) \o t)[i] = t[i - (Len(s) - 1)]
  BY <1>1, <1>2, ConcatProperties
<1>7. ASSUME NEW i \in 1 .. Len(s) + Len(t) - 1
      PROVE  (Tail(s) \o t)[i] = Tail(s \o t)[i]
  <2>1. CASE i <= Len(s) - 1
    BY <1>2, <1>3, <1>5, <1>6, <2>1
  <2>2. CASE i >= Len(s)
    <3>1. /\ i + 1 \in Len(s) + 1 .. Len(s) + Len(t) /\ i \in Len(s) .. Len(s) + Len(t) - 1
          /\ i - (Len(s) - 1) = (i + 1) - Len(s)
      BY <1>2, <2>2
    <3> QED
      BY <1>3, <1>5, <1>6, <3>1
  <2> QED
    BY <1>2, <2>1, <2>2
<1>8. Tail(s) \o t = Tail(s \o t)
  BY <1>2, <1>5, <1>6, <1>7, SeqEqual
<1> QED
  BY <1>2, <1>3, <1>4, <1>5, <1>8 DEF s, t, Events

-----------------------------------------------------------------------------
(* The steps, one conjunct at a time.                                       *)

\* What the threads do before and beside the posting of events.
GateStep == Handshake \/ \E t \in Threads : SetFlags(t) \/ Latch(t) \/ SetupDone(t)
PostStep(a) ==
  /\ ended # <<>> /\ a = Head(ended)
  /\ ended' = Tail(ended) /\ JctxFree
  /\ UNCHANGED <<gateVars, submitter, reader, life>>

LEMMA PostSplits ==
  ASSUME Post, Typed
  PROVE  \E a \in Atoms : PostStep(a) /\ (PostNothing(a) \/ PostLater(a) \/ PostNow(a))
<1>1. Head(ended) \in Atoms
  BY HeadTailProperties DEF Typed, Post
<1> QED
  BY <1>1 DEF Post, PostStep

LEMMA GateTyped ==
  ASSUME Typed, SetUp, GateStep PROVE Typed'
<1>1. UNCHANGED jobVars
  BY DEF GateStep, Handshake, SetFlags, Latch, SetupDone
<1>2. /\ gate' \in Gates
      /\ setter' \in [Threads -> {"out", "in", "set"}] /\ latched' \in {0, 1}
  <2>1. CASE Handshake
    BY <2>1 DEF Handshake, Typed, Gates
  <2>2. CASE \E t \in Threads : SetFlags(t)
    BY <2>2 DEF SetFlags, Typed, Gates
  <2>3. ASSUME NEW t \in Threads, Latch(t)
        PROVE  /\ UNCHANGED gate /\ latched' \in {0, 1}
               /\ setter' \in [Threads -> {"out", "in", "set"}]
    <3>1. UNCHANGED gate /\ (setter' = [setter EXCEPT ![t] = "set"]
                             \/ setter' = [setter EXCEPT ![t] = "out"])
      BY <2>3 DEF Latch
    <3>2. latched = 0 /\ (latched' = latched \/ latched' = latched + 1)
      BY <2>3 DEF Latch, SetUp
    <3> QED
      BY <3>1, <3>2 DEF Typed
  <2>4. CASE \E t \in Threads : SetupDone(t)
    BY <2>4 DEF SetupDone, Typed, Gates
  <2> QED
    BY <2>1, <2>2, <2>3, <2>4 DEF GateStep, Typed
<1> QED
  BY <1>1, <1>2 DEF Typed, jobVars

LEMMA PostTyped ==
  ASSUME Typed, NEW a \in Atoms, PostStep(a), PostNothing(a) \/ PostLater(a) \/ PostNow(a)
  PROVE  Typed'
<1>1. /\ ended' \in Seq(Atoms)
      /\ UNCHANGED <<gate, setter, latched, submitter, reader, life>>
  BY HeadTailProperties DEF PostStep, Typed, gateVars
<1>2. CASE PostNothing(a)
  <2>1. workq' \in Seq(Atoms)
    <3>1. workq \in Seq(Atoms) /\ Append(workq, a) \in Seq(Atoms)
      BY Appended DEF Typed
    <3> QED
      BY <1>2, <3>1 DEF PostNothing
  <2>2. atom' \in [Atoms -> AtomRecs]
    <3>1. atom' = atom \/ atom' = [atom EXCEPT ![a].status = "unused"]
      BY <1>2 DEF PostNothing, Process
    <3>2. CASE atom' = atom
      BY <3>2 DEF Typed
    <3>3. CASE atom' = [atom EXCEPT ![a].status = "unused"]
      BY <3>3 DEF Typed, AtomRecs
    <3> QED
      BY <3>1, <3>2, <3>3
  <2> QED
    BY <1>1, <1>2, <2>1, <2>2 DEF PostNothing, Typed
<1>3. \A x \in Nat : Append(log.posted, x) \in Seq(Nat)
  BY Appended DEF Typed, Logs
<1>4. [log EXCEPT !.posted = Append(@, atom[a].serial)]
        \in Logs
  <2>1. atom[a].serial \in Nat
    BY DEF Typed, AtomRecs
  <2> QED
    BY <1>3, <2>1 DEF Typed, Logs
<1>5. CASE PostLater(a)
  <2>1. queue' \in Queues
    BY <1>5, LaterIs DEF PostLater, Typed, Queues
  <2> QED
    BY <1>1, <1>4, <1>5, <2>1 DEF PostLater, Typed, Queues
<1>6. CASE PostNow(a)
  <2>1. queue' \in Queues
    BY <1>6, ReportIs DEF PostNow
  <2> QED
    BY <1>1, <1>4, <1>6, <2>1 DEF PostNow, Typed, Queues
<1> QED
  BY <1>2, <1>5, <1>6

LEMMA DequeueTyped ==
  ASSUME Typed, Ordered, NEW r \in Readers, Dequeue(r)
  PROVE  Typed'
<1>1. UNCHANGED <<gate, setter, latched, atom, submitter, ended, poster, workq, life>>
  BY DEF Dequeue, gateVars
<1>2. CASE queue.list # <<>>
  <2>1. Head(queue.list) \in Atoms /\ atom[Head(queue.list)].serial \in Nat
    BY <1>2, TakenIs DEF Typed, AtomRecs
  <2>2. queue' \in Queues
    <3>1. Tail(queue.list) \in Seq(Atoms) /\ queue.count - 1 \in Nat
      BY <1>2, TakenIs DEF Ordered
    <3> QED
      BY <1>2, <3>1 DEF Dequeue, Taken, Typed, Queues
  <2>3. log' \in Logs
    <3>1. Append(log.taken, atom[Head(queue.list)].serial) \in Seq(Nat)
      BY <2>1, Appended DEF Typed, Logs
    <3> QED
      BY <1>2, <3>1 DEF Dequeue, Typed, Logs
  <2>4. reader' = [reader EXCEPT ![r] = [pc |-> "took", atom |-> Head(queue.list),
                                         serial |-> atom[Head(queue.list)].serial]]
    BY <1>2 DEF Dequeue
  <2> QED
    BY <1>1, <2>1, <2>2, <2>3, <2>4 DEF Typed, Queues, Reads
<1>3. CASE queue.list = <<>>
  <2>1. UNCHANGED <<queue, log>> /\ reader[r].pc = "look"
    BY <1>3 DEF Dequeue
  <2>2. PICK pc \in {"out", "asleep"} : reader' = [reader EXCEPT ![r].pc = pc]
    BY <1>3 DEF Dequeue
  <2>3. reader' \in [Readers -> Reads]
    BY <2>2 DEF Typed, Reads
  <2>4. \A q \in Readers : reader'[q].pc = "took" => reader'[q].atom \in Atoms
    BY <2>2 DEF Typed, Reads
  <2> QED
    BY <1>1, <2>1, <2>3, <2>4 DEF Typed
<1> QED
  BY <1>2, <1>3

LEMMA CleanupIs ==
  ASSUME Typed, Cleanup
  PROVE  /\ SerialOf(atom, Events) \in Seq(Nat) /\ Len(SerialOf(atom, Events)) = Len(Events)
         /\ \A i \in 1 .. Len(Events) : SerialOf(atom, Events)[i] = atom[Events[i]].serial
         /\ log' = [log EXCEPT !.taken = @ \o SerialOf(atom, Events)]
         /\ atom' = [a \in Atoms |-> IF In(Events, a) THEN [atom[a] EXCEPT !.status = "unused"]
                                     ELSE atom[a]]
<1>1. /\ Events \in Seq(Atoms) /\ \A a \in Atoms : atom[a].serial \in Nat
      /\ queue \in Queues
  BY EventsTyped DEF Typed, Queues, AtomRecs
<1>2. Coalesced(queue).list = Events
  BY <1>1 DEF Coalesced, Events, Queues
<1>3. log' = [log EXCEPT !.taken = @ \o SerialOf(atom, Events)]
  BY <1>2 DEF Cleanup, SerialOf
<1>4. atom' = [a \in Atoms |-> IF In(Events, a) THEN [atom[a] EXCEPT !.status = "unused"]
                              ELSE atom[a]]
  <2>1. atom' = [a \in Atoms |-> IF In(Events, a) THEN Process(atom, a)[a] ELSE atom[a]]
    BY <1>2 DEF Cleanup, In
  <2>2. \A a \in Atoms : Process(atom, a)[a] = [atom[a] EXCEPT !.status = "unused"]
    BY DEF Process, Typed, AtomRecs
  <2> QED
    BY <2>1, <2>2
<1>5. /\ SerialOf(atom, Events) \in Seq(Nat) /\ Len(SerialOf(atom, Events)) = Len(Events)
      /\ \A i \in 1 .. Len(Events) : SerialOf(atom, Events)[i] = atom[Events[i]].serial
  BY <1>1, SerialSeq
<1> QED
  BY <1>3, <1>4, <1>5

LEMMA TypedKept ==
  ASSUME SessionAssumption, Typed, SetUp, Ordered, Woken, [Next]_vars
  PROVE  Typed'
<1>1. CASE UNCHANGED vars
  BY <1>1 DEF vars, Typed
<1>2. CASE GateStep
  BY <1>2, GateTyped
<1>3. CASE (\E a \in Atoms : Submit(a)) \/ Killed \/ Zap
  BY <1>3 DEF Submit, Killed, Zap, Typed, gateVars
<1>4. CASE Accept
  <2>1. submitter \in Atoms
    BY <1>4 DEF Accept, Typed
  <2>2. NextSerial \in Nat
    BY <1>4, <2>1, SerialIsNew DEF Accept
  <2>3. PICK q \in Requests : atom' = [atom EXCEPT ![submitter] =
          [status |-> "running", req |-> q, failed |-> FALSE, serial |-> NextSerial]]
    BY <1>4 DEF Accept
  <2>4. atom' \in [Atoms -> AtomRecs]
    BY <2>2, <2>3 DEF Typed, AtomRecs
  <2> QED
    BY <1>4, <2>4 DEF Accept, Typed, gateVars
<1>5. ASSUME NEW a \in Atoms, End(a) PROVE Typed'
  <2>1. PICK f \in BOOLEAN : atom' = [atom EXCEPT ![a].status = "completed", ![a].failed = f]
    BY <1>5 DEF End
  <2>2. atom' \in [Atoms -> AtomRecs]
    BY <2>1 DEF Typed, AtomRecs
  <2>3. ended' \in Seq(Atoms)
    BY <1>5, Appended DEF End, Typed
  <2> QED
    BY <1>5, <2>2, <2>3 DEF End, Typed, gateVars
<1>6. CASE Post
  BY <1>6, PostSplits, PostTyped
<1>7. CASE Wake
  <2>1. reader' \in [Readers -> Reads]
        /\ \A r \in Readers : reader'[r].pc = "took" => reader'[r] = reader[r]
    BY <1>7 DEF Wake, Typed, Reads
  <2> QED
    BY <1>7, <2>1 DEF Wake, Typed, gateVars
<1>8. CASE NoReportWorker
  <2>1. atom' = [atom EXCEPT ![Head(workq)].status = "unused"]
    BY <1>8 DEF NoReportWorker, Process
  <2>2. atom' \in [Atoms -> AtomRecs]
    BY <2>1 DEF Typed, AtomRecs
  <2>3. workq' \in Seq(Atoms)
    BY <1>8, HeadTailProperties DEF NoReportWorker, Typed
  <2> QED
    BY <1>8, <2>2, <2>3 DEF NoReportWorker, Typed, gateVars
<1>9. CASE PostTerm
  <2>1. queue' \in Queues
    BY <1>9 DEF PostTerm, Typed, Queues
  <2> QED
    BY <1>9, <2>1 DEF PostTerm, Typed, gateVars
<1>10. ASSUME NEW r \in Readers, Read(r) \/ Interrupted(r) PROVE Typed'
  <2>1. PICK pc \in {"out", "look"} : reader' = [reader EXCEPT ![r].pc = pc]
    BY <1>10 DEF Read, Interrupted
  <2>2. reader' \in [Readers -> Reads]
        /\ \A q \in Readers : reader'[q].pc = "took" => reader'[q] = reader[q]
    BY <2>1 DEF Typed, Reads
  <2> QED
    BY <1>10, <2>2 DEF Read, Interrupted, Typed, gateVars
<1>11. ASSUME NEW r \in Readers, Dequeue(r) PROVE Typed'
  BY <1>11, DequeueTyped
<1>12. ASSUME NEW r \in Readers, Deliver(r) PROVE Typed'
  <2>1. PICK pc \in {"out", "look"} : reader' = [reader EXCEPT ![r] = [AtRest EXCEPT !.pc = pc]]
    BY <1>12 DEF Deliver
  <2>2. reader' \in [Readers -> Reads]
        /\ \A q \in Readers : reader'[q].pc = "took" => reader'[q] = reader[q]
    BY <2>1 DEF Typed, Reads, AtRest
  <2>3. atom' = [atom EXCEPT ![reader[r].atom].status = "unused"] /\ reader[r].atom \in Atoms
    BY <1>12 DEF Deliver, Process, Typed
  <2>4. atom' \in [Atoms -> AtomRecs]
    BY <2>3 DEF Typed, AtomRecs
  <2>5. log' \in Logs
    <3>1. atom[reader[r].atom].serial \in Nat
      BY <2>3 DEF Typed, AtomRecs
    <3>2. Append(log.told, atom[reader[r].atom].serial) \in Seq(Nat)
      BY <3>1, Appended DEF Typed, Logs
    <3> QED
      BY <1>12, <3>2 DEF Deliver, Typed, Logs
  <2> QED
    BY <1>12, <2>2, <2>4, <2>5 DEF Deliver, Typed, gateVars
<1>13. CASE Cleanup
  <2>1. atom' \in [Atoms -> AtomRecs]
    <3>1. \A a \in Atoms : /\ atom[a] \in AtomRecs
                           /\ [atom[a] EXCEPT !.status = "unused"] \in AtomRecs
      BY DEF Typed, AtomRecs
    <3> QED
      BY <1>13, <3>1, CleanupIs
  <2>2. log' \in Logs
    <3>1. log.taken \o SerialOf(atom, Events) \in Seq(Nat)
      BY <1>13, CleanupIs, ConcatProperties DEF Typed, Logs
    <3> QED
      BY <1>13, <3>1, CleanupIs DEF Typed, Logs
  <2>3. queue' \in Queues
    BY <1>13, EmptySeq DEF Cleanup, Typed, Queues
  <2> QED
    BY <1>13, <2>1, <2>2, <2>3 DEF Cleanup, Typed, gateVars
<1> QED
  BY <1>1, <1>2, <1>3, <1>4, <1>5, <1>6, <1>7, <1>8, <1>9, <1>10, <1>11, <1>12, <1>13
     DEF Next, GateStep

\* Only a submission and the end of an atom take its number into use.
LEMMA StatusFalls ==
  ASSUME Typed, [Next]_vars
  PROVE  \/ Accept \/ \E a \in Atoms : End(a)
         \/ \A a \in Atoms : atom'[a] = atom[a] \/ atom'[a] = [atom[a] EXCEPT !.status = "unused"]
<1> DEFINE Falls == \A a \in Atoms :
             atom'[a] = atom[a] \/ atom'[a] = [atom[a] EXCEPT !.status = "unused"]
<1>1. ASSUME NEW b, atom' = Process(atom, b) PROVE Falls
  BY <1>1 DEF Process, Typed
<1>2. CASE UNCHANGED atom
  BY <1>2
<1>3. CASE Post
  BY <1>1, <1>2, <1>3, PostSplits DEF PostNothing, PostLater, PostNow
<1>4. CASE NoReportWorker \/ \E r \in Readers : Deliver(r)
  BY <1>1, <1>4 DEF NoReportWorker, Deliver
<1>5. CASE Cleanup
  BY <1>5, CleanupIs
<1> HIDE DEF Falls
<1>6. CASE UNCHANGED vars
  BY <1>2, <1>6 DEF vars
<1>7. CASE GateStep
  <2>1. UNCHANGED jobVars
    BY <1>7 DEF GateStep, Handshake, SetFlags, Latch, SetupDone
  <2> QED
    BY <1>2, <2>1 DEF jobVars
<1>8. CASE (\E a \in Atoms : Submit(a)) \/ Killed \/ Zap \/ Wake \/ PostTerm
  BY <1>2, <1>8 DEF Submit, Killed, Zap, Wake, PostTerm
<1>9. CASE \E r \in Readers : Read(r) \/ Interrupted(r) \/ Dequeue(r)
  BY <1>2, <1>9 DEF Read, Interrupted, Dequeue
<1> QED
  BY <1>3, <1>4, <1>5, <1>6, <1>7, <1>8, <1>9 DEF Next, GateStep, Falls

\* Nothing is set up twice: the exchange of setup_in_progress lets one in.
LEMMA GateSetUp ==
  ASSUME Typed, SetUp, GateStep
  PROVE  SetUp'
<1>1. UNCHANGED <<submitter, atom>>
  BY DEF GateStep, Handshake, SetFlags, Latch, SetupDone, jobVars
<1>2. CASE Handshake
  BY <1>1, <1>2 DEF Handshake, SetUp, Typed, Gates
<1>3. ASSUME NEW t \in Threads, SetFlags(t) PROVE SetUp'
  <2>1. /\ gate' = [gate EXCEPT !.busy = TRUE] /\ UNCHANGED latched
        /\ setter' = [setter EXCEPT ![t] = "in"]
        /\ latched = 0 /\ ~gate.complete /\ \A u \in Threads : setter[u] = "out"
    BY <1>3 DEF SetFlags, SetUp
  <2> QED
    BY <1>1, <2>1 DEF SetUp, Typed, Gates
<1>4. ASSUME NEW t \in Threads, Latch(t) PROVE SetUp'
  <2>1. /\ setter[t] = "in" /\ latched = 0 /\ gate.busy /\ UNCHANGED gate
        /\ \A u \in Threads : u # t => setter[u] = "out"
    BY <1>4 DEF Latch, SetUp, Typed
  <2>2. CASE setter' = [setter EXCEPT ![t] = "set"] /\ latched' = latched + 1
    BY <1>1, <2>1, <2>2 DEF SetUp, Typed
  <2>3. CASE setter' = [setter EXCEPT ![t] = "out"] /\ UNCHANGED latched
    BY <1>1, <2>1, <2>3 DEF SetUp, Typed
  <2> QED
    BY <1>4, <2>2, <2>3 DEF Latch
<1>5. ASSUME NEW t \in Threads, SetupDone(t) PROVE SetUp'
  <2>1. /\ setter[t] = "set" /\ latched = 1 /\ gate.busy /\ UNCHANGED latched
        /\ \A u \in Threads : u # t => setter[u] = "out"
    BY <1>5 DEF SetupDone, SetUp, Typed
  <2>2. /\ setter' = [setter EXCEPT ![t] = "out"] /\ gate' = [gate EXCEPT !.complete = TRUE]
    BY <1>5 DEF SetupDone
  <2> QED
    BY <1>1, <2>1, <2>2 DEF SetUp, Typed, Gates
<1> QED
  BY <1>2, <1>3, <1>4, <1>5 DEF GateStep

LEMMA SetUpKept ==
  ASSUME Typed, SetUp, Woken, [Next]_vars
  PROVE  SetUp'
<1> SUFFICES ASSUME ~GateStep PROVE SetUp'
  BY GateSetUp
<1>1. UNCHANGED gateVars /\ (submitter' = submitter \/ submitter' = 0 \/ Open)
  <2>1. CASE (\E a \in Atoms : Submit(a) \/ End(a)) \/ Accept \/ Killed \/ Wake
    BY <2>1 DEF Submit, End, Accept, Killed, Wake
  <2>2. CASE Post \/ NoReportWorker \/ PostTerm \/ Zap \/ Cleanup
    BY <2>2 DEF Post, NoReportWorker, PostTerm, Zap, Cleanup
  <2>3. CASE \E r \in Readers : Read(r) \/ Dequeue(r) \/ Deliver(r) \/ Interrupted(r)
    BY <2>3 DEF Read, Dequeue, Deliver, Interrupted
  <2>4. CASE UNCHANGED vars
    BY <2>4 DEF vars, gateVars
  <2> QED
    BY <2>1, <2>2, <2>3, <2>4 DEF Next, GateStep
<1>2. CASE latched # 0
  BY <1>1, <1>2 DEF SetUp, gateVars
<1>3. CASE latched = 0
  <2>1. /\ ~gate.complete /\ submitter = 0 /\ ~Open
        /\ \A a \in Atoms : atom[a].status = "unused"
    BY <1>3 DEF SetUp, Open
  <2>2. ~Accept /\ ~\E a \in Atoms : End(a)
    BY <2>1 DEF Accept, End
  <2>3. \A a \in Atoms : atom'[a].status = "unused"
    <3>1. \A a \in Atoms : atom'[a] = atom[a] \/ atom'[a] = [atom[a] EXCEPT !.status = "unused"]
      BY <2>2, StatusFalls
    <3> QED
      BY <2>1, <3>1 DEF Typed, AtomRecs
  <2> QED
    BY <1>1, <1>3, <2>1, <2>3 DEF SetUp, gateVars
<1> QED
  BY <1>2, <1>3

LEMMA PlacesKept ==
  ASSUME NEW at, NEW rd, NEW at2, NEW rd2, NEW en, NEW ev, NEW wo,
         InPlace(at, en, ev, wo, rd),
         \A a \in Atoms : at2[a].status = "completed" <=> at[a].status = "completed",
         \A r \in Readers : /\ rd2[r].pc = "took" <=> rd[r].pc = "took"
                            /\ rd2[r].pc = "took" => rd2[r].atom = rd[r].atom
  PROVE  InPlace(at2, en, ev, wo, rd2)
<1>1. ASSUME NEW a \in Atoms
      PROVE  (\E r \in Readers : rd2[r].pc = "took" /\ rd2[r].atom = a)
               <=> (\E r \in Readers : rd[r].pc = "took" /\ rd[r].atom = a)
  OBVIOUS
<1>2. \A r, q \in Readers :
        rd2[r].pc = "took" /\ rd2[q].pc = "took" /\ rd2[r].atom = rd2[q].atom => r = q
  BY DEF InPlace
<1> QED
  BY <1>1, <1>2 DEF InPlace

LEMMA EndPlaced ==
  ASSUME Typed, Placed, NEW a \in Atoms, End(a) PROVE Placed'
<1>1. /\ ended \in Seq(Atoms) /\ atom[a].status = "running"
      /\ ended' = Append(ended, a) /\ UNCHANGED <<workq, reader, queue>>
      /\ \A b \in Atoms : atom'[b].status = IF b = a THEN "completed" ELSE atom[b].status
  BY DEF End, Typed, AtomRecs
<1>2. Events' = Events
  BY <1>1 DEF Events
<1>3. /\ Once(ended) /\ ~In(ended, a) /\ ~In(Events, a) /\ ~In(workq, a)
      /\ ~\E r \in Readers : reader[r].pc = "took" /\ reader[r].atom = a
  BY <1>1 DEF Placed, InPlace
<1>4. Once(ended') /\ \A b : In(ended', b) <=> In(ended, b) \/ b = a
  BY <1>1, <1>3, AppendOnce
<1>5. InPlace(atom', ended', Events, workq, reader)
  BY <1>1, <1>3, <1>4 DEF Placed, InPlace
<1> QED
  BY <1>1, <1>2, <1>5 DEF Placed

LEMMA PostPlaced ==
  ASSUME Typed, Placed, Post PROVE Placed'
<1>1. PICK a \in Atoms : PostStep(a) /\ (PostNothing(a) \/ PostLater(a) \/ PostNow(a))
  BY PostSplits
<1>2. /\ ended \in Seq(Atoms) /\ workq \in Seq(Atoms) /\ Events \in Seq(Atoms)
      /\ Once(ended) /\ Once(workq) /\ Once(Events)
  BY EventsTyped DEF Typed, Placed, InPlace
<1>3. /\ UNCHANGED reader /\ In(ended, a) /\ Once(ended')
      /\ \A b : In(ended', b) <=> In(ended, b) /\ b # a
  BY <1>1, <1>2, TailOnce DEF PostStep
<1>4. /\ ~In(Events, a) /\ ~In(workq, a)
      /\ ~\E r \in Readers : reader[r].pc = "took" /\ reader[r].atom = a
  BY <1>3 DEF Placed, InPlace
<1>5. CASE PostNothing(a) /\ workq' = Append(workq, a) /\ UNCHANGED atom
  <2>1. Events' = Events
    BY <1>5 DEF PostNothing, Events
  <2>2. Once(workq') /\ \A b : In(workq', b) <=> In(workq, b) \/ b = a
    BY <1>2, <1>4, <1>5, AppendOnce
  <2>3. InPlace(atom, ended', Events, workq', reader)
    BY <1>3, <1>4, <2>2 DEF Placed, InPlace
  <2> QED
    BY <1>3, <1>5, <2>1, <2>3 DEF Placed
<1>6. CASE PostNothing(a) /\ atom' = Process(atom, a) /\ UNCHANGED workq
  <2>1. Events' = Events
    BY <1>6 DEF PostNothing, Events
  <2>2. \A b \in Atoms : atom'[b].status = IF b = a THEN "unused" ELSE atom[b].status
    BY <1>6 DEF Process, Typed, AtomRecs
  <2>3. InPlace(atom', ended', Events, workq, reader)
    BY <1>3, <1>4, <2>2 DEF Placed, InPlace
  <2> QED
    BY <1>3, <1>6, <2>1, <2>3 DEF Placed
<1>7. CASE PostLater(a) \/ PostNow(a)
  <2>1. UNCHANGED <<atom, workq>> /\ Events' = Append(Events, a)
    <3>1. CASE PostLater(a)
      <4>1. queue' = [queue EXCEPT !.later = Append(@, a)] /\ UNCHANGED <<atom, workq>>
        BY <3>1 DEF PostLater
      <4>2. queue'.list = queue.list /\ queue'.later = Append(queue.later, a)
        BY <4>1 DEF Typed, Queues
      <4> QED
        BY <4>1, <4>2, LaterIs DEF Events
    <3>2. CASE PostNow(a)
      BY <3>2, ReportIs DEF PostNow, Events
    <3> QED
      BY <1>7, <3>1, <3>2
  <2>2. Once(Events') /\ \A b : In(Events', b) <=> In(Events, b) \/ b = a
    BY <1>2, <1>4, <2>1, AppendOnce
  <2>3. InPlace(atom, ended', Events', workq, reader)
    BY <1>3, <1>4, <2>2 DEF Placed, InPlace
  <2> QED
    BY <1>3, <2>1, <2>3 DEF Placed
<1> QED
  BY <1>1, <1>5, <1>6, <1>7 DEF PostNothing

LEMMA WorkerPlaced ==
  ASSUME Typed, Placed, NoReportWorker PROVE Placed'
<1> DEFINE a == Head(workq)
<1>1. /\ workq \in Seq(Atoms) /\ workq # <<>> /\ Once(workq) /\ workq' = Tail(workq)
      /\ UNCHANGED <<ended, queue, reader>> /\ Events' = Events
      /\ atom' = Process(atom, a)
  BY DEF NoReportWorker, Typed, Placed, InPlace, Events
<1>2. /\ a \in Atoms /\ In(workq, a) /\ Once(workq')
      /\ \A b : In(workq', b) <=> In(workq, b) /\ b # a
  BY <1>1, TailOnce
<1> HIDE DEF a
<1>3. /\ ~In(ended, a) /\ ~In(Events, a)
      /\ ~\E r \in Readers : reader[r].pc = "took" /\ reader[r].atom = a
  BY <1>2 DEF Placed, InPlace
<1>4. \A b \in Atoms : atom'[b].status = IF b = a THEN "unused" ELSE atom[b].status
  BY <1>1, <1>2 DEF Process, Typed, AtomRecs
<1>5. InPlace(atom', ended, Events, workq', reader)
  BY <1>2, <1>3, <1>4 DEF Placed, InPlace
<1> QED
  BY <1>1, <1>5 DEF Placed

LEMMA DequeuePlaced ==
  ASSUME Typed, Placed, NEW r \in Readers, Dequeue(r) PROVE Placed'
<1>1. UNCHANGED <<ended, workq, atom>> /\ reader[r].pc = "look"
  BY DEF Dequeue
<1>2. CASE queue.list = <<>>
  <2>1. UNCHANGED queue /\ \E pc \in {"out", "asleep"} : reader' = [reader EXCEPT ![r].pc = pc]
    BY <1>2 DEF Dequeue
  <2>2. \A q \in Readers : /\ reader'[q].pc = "took" <=> reader[q].pc = "took"
                           /\ reader'[q].pc = "took" => reader'[q].atom = reader[q].atom
    BY <1>1, <2>1 DEF Typed, Reads
  <2>3. Events' = Events
    BY <2>1 DEF Events
  <2>4. InPlace(atom', ended, Events, workq, reader')
    BY <1>1, <2>2, PlacesKept DEF Placed
  <2> QED
    BY <1>1, <2>3, <2>4 DEF Placed
<1>3. CASE queue.list # <<>>
  <2> DEFINE a == Head(Events)
  <2>1. /\ queue' = Taken(queue) /\ Events \in Seq(Atoms) /\ Events # <<>>
        /\ a = Head(queue.list) /\ a \in Atoms /\ Tail(queue.list) \o queue.later = Tail(Events)
        /\ reader' = [reader EXCEPT ![r] = [pc |-> "took", atom |-> a, serial |-> atom[a].serial]]
    BY <1>3, TakenIs, EventsTyped DEF Dequeue
  <2>2. Events' = Tail(Events)
    <3>1. queue'.list = Tail(queue.list) /\ queue'.later = queue.later
      BY <2>1 DEF Taken, Typed, Queues
    <3> QED
      BY <2>1, <3>1 DEF Events
  <2>3. /\ In(Events, a) /\ Once(Tail(Events))
        /\ \A b : In(Tail(Events), b) <=> In(Events, b) /\ b # a
    BY <2>1, TailOnce DEF Placed, InPlace
  <2> HIDE DEF a
  <2>4. /\ ~In(ended, a) /\ ~In(workq, a) /\ atom[a].status = "completed"
        /\ ~\E q \in Readers : reader[q].pc = "took" /\ reader[q].atom = a
    BY <2>1, <2>3 DEF Placed, InPlace
  <2>5. /\ reader'[r].pc = "took" /\ reader'[r].atom = a
        /\ \A q \in Readers : q # r => reader'[q] = reader[q]
    BY <2>1 DEF Typed
  <2>6. ASSUME NEW b \in Atoms
        PROVE  (\E q \in Readers : reader'[q].pc = "took" /\ reader'[q].atom = b) <=>
                 b = a \/ \E q \in Readers : reader[q].pc = "took" /\ reader[q].atom = b
    BY <1>1, <2>5
  <2>7. \A p, q \in Readers : reader'[p].pc = "took" /\ reader'[q].pc = "took"
                              /\ reader'[p].atom = reader'[q].atom => p = q
    BY <2>4, <2>5 DEF Placed, InPlace
  <2>8. InPlace(atom, ended, Tail(Events), workq, reader')
    BY <2>3, <2>4, <2>6, <2>7 DEF Placed, InPlace
  <2> QED
    BY <1>1, <2>2, <2>8 DEF Placed
<1> QED
  BY <1>2, <1>3

LEMMA DeliverPlaced ==
  ASSUME Typed, Placed, NEW r \in Readers, Deliver(r) PROVE Placed'
<1> DEFINE a == reader[r].atom
<1>1. /\ UNCHANGED <<ended, workq, queue>> /\ reader[r].pc = "took" /\ a \in Atoms
      /\ atom' = Process(atom, a) /\ Events' = Events
      /\ \E pc \in {"look", "out"} : reader' = [reader EXCEPT ![r] = [AtRest EXCEPT !.pc = pc]]
  BY DEF Deliver, Typed, Events
<1>2. /\ reader'[r].pc # "took" /\ \A q \in Readers : q # r => reader'[q] = reader[q]
  BY <1>1 DEF Typed, AtRest
<1>3. /\ ~In(ended, a) /\ ~In(Events, a) /\ ~In(workq, a)
      /\ \A q \in Readers : reader[q].pc = "took" /\ reader[q].atom = a => q = r
  BY <1>1 DEF Placed, InPlace
<1>4. \A b \in Atoms : atom'[b].status = IF b = a THEN "unused" ELSE atom[b].status
  BY <1>1 DEF Process, Typed, AtomRecs
<1>5. ASSUME NEW b \in Atoms
      PROVE  (\E q \in Readers : reader'[q].pc = "took" /\ reader'[q].atom = b) <=>
               b # a /\ \E q \in Readers : reader[q].pc = "took" /\ reader[q].atom = b
  BY <1>1, <1>2, <1>3
<1>6. \A p, q \in Readers : reader'[p].pc = "took" /\ reader'[q].pc = "took"
                            /\ reader'[p].atom = reader'[q].atom => p = q
  BY <1>2 DEF Placed, InPlace
<1> HIDE DEF a
<1>7. InPlace(atom', ended, Events, workq, reader')
  BY <1>3, <1>4, <1>5, <1>6 DEF Placed, InPlace
<1> QED
  BY <1>1, <1>7 DEF Placed

LEMMA CleanupPlaced ==
  ASSUME SessionAssumption, Typed, Placed, Woken, Cleanup PROVE Placed'
<1>1. /\ ended = <<>> /\ workq = <<>> /\ UNCHANGED <<ended, workq, reader>>
      /\ \A r \in Readers : reader[r].pc # "took"
  BY DEF Cleanup, SessionAssumption, Woken
<1>2. Events' = <<>>
  <2>1. queue'.list = <<>> /\ queue'.later = <<>>
    BY DEF Cleanup, Typed, Queues
  <2> QED
    BY <2>1, ConcatEmptySeq, EmptySeq DEF Events
<1>3. \A a \in Atoms : atom'[a].status # "completed"
  <2>1. \A a \in Atoms : atom[a].status = "completed" => In(Events, a)
    BY <1>1, EmptyOnce DEF Placed, InPlace
  <2>2. \A a \in Atoms : atom'[a] = IF In(Events, a) THEN [atom[a] EXCEPT !.status = "unused"]
                                    ELSE atom[a]
    BY CleanupIs
  <2>3. \A a \in Atoms : [atom[a] EXCEPT !.status = "unused"].status = "unused"
    BY DEF Typed, AtomRecs
  <2> QED
    BY <2>1, <2>2, <2>3
<1>4. InPlace(atom', <<>>, <<>>, <<>>, reader)
  BY <1>1, <1>3, EmptyOnce DEF InPlace
<1> QED
  BY <1>1, <1>2, <1>4 DEF Placed

LEMMA PlacedKept ==
  ASSUME SessionAssumption, Typed, Placed, Woken, [Next]_vars PROVE Placed'
<1>1. ASSUME UNCHANGED <<ended, workq>>, Events' = Events,
             \A a \in Atoms : atom'[a].status = "completed" <=> atom[a].status = "completed",
             \A r \in Readers : /\ reader'[r].pc = "took" <=> reader[r].pc = "took"
                                /\ reader'[r].pc = "took" => reader'[r].atom = reader[r].atom
      PROVE  Placed'
  <2>1. InPlace(atom', ended, Events, workq, reader')
    BY <1>1, PlacesKept DEF Placed
  <2> QED
    BY <1>1, <2>1 DEF Placed
<1>2. CASE UNCHANGED vars
  BY <1>1, <1>2 DEF vars, Events
<1>3. CASE GateStep
  <2>1. UNCHANGED jobVars
    BY <1>3 DEF GateStep, Handshake, SetFlags, Latch, SetupDone
  <2> QED
    BY <1>1, <2>1 DEF jobVars, Events
<1>4. CASE (\E a \in Atoms : Submit(a)) \/ Killed \/ Zap
  BY <1>1, <1>4 DEF Submit, Killed, Zap, Events
<1>5. CASE Accept
  <2>1. \A a \in Atoms : atom'[a].status = "completed" <=> atom[a].status = "completed"
    BY <1>5 DEF Accept, Reusable, Typed
  <2> QED
    BY <1>1, <1>5, <2>1 DEF Accept, Events
<1>6. CASE Wake
  <2>1. \A r \in Readers : /\ reader'[r].pc = "took" <=> reader[r].pc = "took"
                           /\ reader'[r].pc = "took" => reader'[r].atom = reader[r].atom
    BY <1>6 DEF Wake, Typed, Reads
  <2> QED
    BY <1>1, <1>6, <2>1 DEF Wake, Events
<1>7. CASE PostTerm
  <2>1. queue'.list = queue.list /\ queue'.later = queue.later
    BY <1>7 DEF PostTerm, Typed, Queues
  <2> QED
    BY <1>1, <1>7, <2>1 DEF PostTerm, Events
<1>8. ASSUME NEW r \in Readers, Read(r) \/ Interrupted(r) PROVE Placed'
  <2>1. PICK pc \in {"out", "look"} : reader' = [reader EXCEPT ![r].pc = pc]
    BY <1>8 DEF Read, Interrupted
  <2>2. reader[r].pc # "took"
    BY <1>8 DEF Read, Interrupted
  <2>3. \A q \in Readers : /\ reader'[q].pc = "took" <=> reader[q].pc = "took"
                           /\ reader'[q].pc = "took" => reader'[q].atom = reader[q].atom
    BY <2>1, <2>2 DEF Typed, Reads
  <2> QED
    BY <1>1, <1>8, <2>3 DEF Read, Interrupted, Events
<1> QED
  BY <1>2, <1>3, <1>4, <1>5, <1>6, <1>7, <1>8, EndPlaced, PostPlaced, WorkerPlaced,
     DequeuePlaced, DeliverPlaced, CleanupPlaced DEF Next, GateStep

\* An event on the lists keeps its serial, its atom not being free yet.
LEMMA SerialStays ==
  ASSUME Typed, Placed, [Next]_vars
  PROVE  \A a \in Atoms : atom[a].status # "unused" => atom'[a].serial = atom[a].serial
<1>1. CASE Accept
  BY <1>1 DEF Accept, Reusable, Typed
<1>2. CASE \E a \in Atoms : End(a)
  <2>1. PICK a \in Atoms, f \in BOOLEAN :
          atom' = [atom EXCEPT ![a].status = "completed", ![a].failed = f]
    BY <1>2 DEF End
  <2>2. ASSUME NEW b \in Atoms PROVE atom'[b].serial = atom[b].serial
    <3>1. CASE b = a
      BY <2>1, <3>1 DEF Typed, AtomRecs
    <3>2. CASE b # a
      BY <2>1, <3>2 DEF Typed
    <3> QED
      BY <3>1, <3>2
  <2> QED
    BY <2>2
<1>3. CASE \A a \in Atoms : atom'[a] = atom[a] \/ atom'[a] = [atom[a] EXCEPT !.status = "unused"]
  <2>1. \A a \in Atoms : [atom[a] EXCEPT !.status = "unused"].serial = atom[a].serial
    BY DEF Typed, AtomRecs
  <2> QED
    BY <1>3, <2>1
<1> QED
  BY <1>1, <1>2, <1>3, StatusFalls

LEMMA ListedStays ==
  ASSUME Typed, Placed, [Next]_vars
  PROVE  /\ DOMAIN Events = 1 .. Len(Events)
         /\ \A i \in 1 .. Len(Events) : /\ Events[i] \in Atoms
                                        /\ atom[Events[i]].status = "completed"
                                        /\ atom'[Events[i]].serial = atom[Events[i]].serial
                                        /\ atom[Events[i]].serial \in Nat
<1>1. /\ DOMAIN Events = 1 .. Len(Events)
      /\ \A i \in 1 .. Len(Events) : Events[i] \in Atoms /\ In(Events, Events[i])
  BY EventsTyped, LenProperties, ElementOfSeq DEF In
<1>2. \A a \in Atoms : In(Events, a) => atom[a].status = "completed"
  BY DEF Placed, InPlace
<1>3. \A a \in Atoms : atom[a].serial \in Nat
  BY DEF Typed, AtomRecs
<1> QED
  BY <1>1, <1>2, <1>3, SerialStays

LEMMA PostOrdered ==
  ASSUME Typed, Placed, Ordered, [Next]_vars, Post PROVE Ordered'
<1>1. PICK a \in Atoms : PostStep(a) /\ (PostNothing(a) \/ PostLater(a) \/ PostNow(a))
  BY PostSplits
<1>2. CASE PostNothing(a)
  <2>1. Events' = Events /\ UNCHANGED <<log, queue>>
    BY <1>2 DEF PostNothing, Events
  <2>2. InOrder(atom', Events, log.posted, log.taken)
    BY ListedStays DEF Ordered, InOrder
  <2> QED
    BY <2>1, <2>2 DEF Ordered
<1>3. CASE PostLater(a) \/ PostNow(a)
  <2>1. /\ atom' = atom /\ log' = [log EXCEPT !.posted = Append(@, atom[a].serial)]
        /\ Events' = Append(Events, a) /\ queue'.count = Len(queue'.list)
    <3>1. CASE PostLater(a)
      <4>1. queue' = [queue EXCEPT !.later = Append(@, a)]
        BY <3>1 DEF PostLater
      <4>2. queue'.list = queue.list /\ queue'.later = Append(queue.later, a)
            /\ queue'.count = queue.count
        BY <4>1 DEF Typed, Queues
      <4> QED
        BY <3>1, <4>2, LaterIs DEF Events, PostLater, Ordered
    <3>2. CASE PostNow(a)
      BY <3>2, ReportIs DEF PostNow, Events, Ordered
    <3> QED
      BY <1>3, <3>1, <3>2
  <2> DEFINE p == log.posted
             t == log.taken
             n == atom[a].serial
             p2 == Append(p, n)
             e2 == Append(Events, a)
  <2>2. /\ p \in Seq(Nat) /\ t \in Seq(Nat) /\ n \in Nat /\ Len(p) \in Nat /\ Len(t) \in Nat
        /\ Events \in Seq(Atoms) /\ Len(Events) \in Nat
        /\ log'.posted = p2 /\ log'.taken = t
    BY <2>1, EventsTyped, LenProperties DEF Typed, Logs, AtomRecs
  <2>3. /\ Len(p) = Len(t) + Len(Events) /\ \A i \in 1 .. Len(t) : p[i] = t[i]
        /\ \A i \in 1 .. Len(Events) : p[Len(t) + i] = atom[Events[i]].serial
    BY DEF Ordered, InOrder
  <2>20. n = atom[a].serial
    OBVIOUS
  <2> HIDE DEF p, t, n
  <2>4. /\ Len(p2) = Len(p) + 1 /\ p2[Len(p) + 1] = n /\ \A i \in 1 .. Len(p) : p2[i] = p[i]
        /\ Len(e2) = Len(Events) + 1 /\ e2[Len(Events) + 1] = a
        /\ \A i \in 1 .. Len(Events) : e2[i] = Events[i]
    BY <2>2, Appended
  <2> HIDE DEF p2, e2
  <2>5. Len(p2) = Len(t) + Len(e2) /\ \A i \in 1 .. Len(t) : p2[i] = t[i]
    BY <2>2, <2>3, <2>4
  <2>6. ASSUME NEW i \in 1 .. Len(e2) PROVE p2[Len(t) + i] = atom[e2[i]].serial
    <3>1. CASE i = Len(Events) + 1
      <4>1. Len(t) + i = Len(p) + 1
        BY <2>2, <2>3, <3>1
      <4> QED
        BY <2>20, <2>4, <3>1, <4>1
    <3>2. CASE i \in 1 .. Len(Events)
      <4>1. Len(t) + i \in 1 .. Len(p)
        BY <2>2, <2>3, <3>2
      <4> QED
        BY <2>3, <2>4, <3>2, <4>1
    <3> QED
      BY <2>2, <2>4, <3>1, <3>2
  <2>7. InOrder(atom, e2, p2, t)
    BY <2>5, <2>6 DEF InOrder
  <2> QED
    BY <2>1, <2>2, <2>7 DEF Ordered, e2
<1> QED
  BY <1>1, <1>2, <1>3

LEMMA DequeueOrdered ==
  ASSUME Typed, Placed, Ordered, NEW r \in Readers, Dequeue(r) PROVE Ordered'
<1>1. UNCHANGED atom
  BY DEF Dequeue
<1>2. CASE queue.list = <<>>
  <2>1. UNCHANGED <<queue, log>> /\ Events' = Events
    BY <1>2 DEF Dequeue, Events
  <2> QED
    BY <1>1, <2>1 DEF Ordered
<1>3. CASE queue.list # <<>>
  <2> DEFINE p == log.posted
             t == log.taken
             n == atom[Head(Events)].serial
             t2 == Append(t, n)
             e2 == Tail(Events)
  <2>1. /\ queue' = Taken(queue) /\ log' = [log EXCEPT !.taken = Append(@, n)]
        /\ Events \in Seq(Atoms) /\ Events # <<>> /\ Head(Events) \in Atoms
        /\ Tail(queue.list) \o queue.later = e2 /\ Len(Tail(queue.list)) = Len(queue.list) - 1
    BY <1>3, TakenIs, EventsTyped DEF Dequeue
  <2>2. /\ queue'.list = Tail(queue.list) /\ queue'.later = queue.later
        /\ queue'.count = queue.count - 1
    BY <2>1 DEF Taken, Typed, Queues
  <2>3. Events' = e2 /\ queue'.count = Len(queue'.list)
    BY <2>1, <2>2 DEF Events, Ordered
  <2>4. /\ p \in Seq(Nat) /\ t \in Seq(Nat) /\ n \in Nat /\ Len(p) \in Nat /\ Len(t) \in Nat
        /\ Len(Events) \in Nat \ {0} /\ log'.posted = p /\ log'.taken = t2
    BY <2>1, EmptySeq, LenProperties DEF Typed, Logs, AtomRecs
  <2>5. /\ Len(p) = Len(t) + Len(Events) /\ \A i \in 1 .. Len(t) : p[i] = t[i]
        /\ \A i \in 1 .. Len(Events) : p[Len(t) + i] = atom[Events[i]].serial
    BY DEF Ordered, InOrder
  <2>6. p[Len(t) + 1] = n
    <3>1. Head(Events) = Events[1] /\ 1 \in 1 .. Len(Events)
      BY <2>1, <2>4, HeadTailProperties
    <3> QED
      BY <2>5, <3>1
  <2> HIDE DEF p, t, n
  <2>7. /\ Len(t2) = Len(t) + 1 /\ t2[Len(t) + 1] = n /\ \A i \in 1 .. Len(t) : t2[i] = t[i]
        /\ Len(e2) = Len(Events) - 1 /\ \A i \in 1 .. Len(e2) : e2[i] = Events[i + 1]
    BY <2>1, <2>4, Appended, HeadTailProperties
  <2> HIDE DEF t2, e2
  <2>8. Len(p) = Len(t2) + Len(e2) /\ \A i \in 1 .. Len(t2) : p[i] = t2[i]
    <3>1. Len(p) = Len(t2) + Len(e2)
      BY <2>4, <2>5, <2>7
    <3>2. \A i \in 1 .. Len(t) + 1 : i = Len(t) + 1 \/ i \in 1 .. Len(t)
      BY <2>4
    <3> QED
      BY <2>5, <2>6, <2>7, <3>1, <3>2
  <2>9. ASSUME NEW i \in 1 .. Len(e2) PROVE p[Len(t2) + i] = atom[e2[i]].serial
    <3>1. i + 1 \in 1 .. Len(Events) /\ Len(t2) + i = Len(t) + (i + 1)
      BY <2>4, <2>7
    <3> QED
      BY <2>5, <2>7, <3>1
  <2>10. InOrder(atom, e2, p, t2)
    BY <2>8, <2>9 DEF InOrder
  <2> QED
    BY <1>1, <2>3, <2>4, <2>10 DEF Ordered
<1> QED
  BY <1>2, <1>3

LEMMA CleanupOrdered ==
  ASSUME Typed, Ordered, Cleanup PROVE Ordered'
<1> DEFINE p == log.posted
           t == log.taken
           u == SerialOf(atom, Events)
           t2 == t \o u
<1>1. /\ u \in Seq(Nat) /\ Len(u) = Len(Events) /\ log' = [log EXCEPT !.taken = @ \o u]
      /\ \A i \in 1 .. Len(Events) : u[i] = atom[Events[i]].serial
  BY CleanupIs
<1>2. queue'.list = <<>> /\ queue'.later = <<>> /\ queue'.count = 0
  BY DEF Cleanup, Typed, Queues
<1>3. Events' = <<>> /\ Len(<<>>) = 0
  BY <1>2, ConcatEmptySeq, EmptySeq DEF Events
<1>4. /\ p \in Seq(Nat) /\ t \in Seq(Nat) /\ Len(p) \in Nat /\ Len(t) \in Nat
      /\ Len(Events) \in Nat /\ log'.posted = p /\ log'.taken = t2
  BY <1>1, EventsTyped, LenProperties DEF Typed, Logs
<1>5. /\ Len(p) = Len(t) + Len(Events) /\ \A i \in 1 .. Len(t) : p[i] = t[i]
      /\ \A i \in 1 .. Len(Events) : p[Len(t) + i] = atom[Events[i]].serial
  BY DEF Ordered, InOrder
<1> HIDE DEF p, t, u
<1>6. /\ Len(t2) = Len(t) + Len(u) /\ \A i \in 1 .. Len(t) : t2[i] = t[i]
      /\ \A i \in Len(t) + 1 .. Len(t) + Len(u) : t2[i] = u[i - Len(t)]
  <2>1. u \in Seq(Nat) /\ t \in Seq(Nat) /\ Len(u) \in Nat /\ Len(t) \in Nat
    BY <1>1, <1>4
  <2> QED
    BY <2>1, ConcatProperties
<1> HIDE DEF t2
<1>7. ASSUME NEW i \in 1 .. Len(t2) PROVE p[i] = t2[i]
  <2>1. CASE i \in 1 .. Len(t)
    BY <1>5, <1>6, <2>1
  <2>2. CASE i \in Len(t) + 1 .. Len(t) + Len(u)
    <3>1. i - Len(t) \in 1 .. Len(Events) /\ Len(t) + (i - Len(t)) = i
      BY <1>1, <1>4, <2>2
    <3> QED
      BY <1>1, <1>5, <1>6, <2>2, <3>1
  <2> QED
    BY <1>1, <1>4, <1>6, <2>1, <2>2
<1>8. InOrder(atom', <<>>, p, t2)
  BY <1>1, <1>3, <1>4, <1>5, <1>6, <1>7 DEF InOrder
<1> QED
  BY <1>2, <1>3, <1>4, <1>8 DEF Ordered

LEMMA OrderedKept ==
  ASSUME Typed, Placed, Ordered, [Next]_vars PROVE Ordered'
<1>1. ASSUME Events' = Events, queue'.count = queue.count, queue'.list = queue.list,
             log'.posted = log.posted, log'.taken = log.taken
      PROVE  Ordered'
  <2>1. InOrder(atom', Events, log.posted, log.taken)
    BY ListedStays DEF Ordered, InOrder
  <2> QED
    BY <1>1, <2>1 DEF Ordered
<1>2. CASE UNCHANGED <<queue, log>>
  BY <1>1, <1>2 DEF Events
<1>3. CASE GateStep
  <2>1. UNCHANGED jobVars
    BY <1>3 DEF GateStep, Handshake, SetFlags, Latch, SetupDone
  <2> QED
    BY <1>2, <2>1 DEF jobVars
<1>4. CASE (\E a \in Atoms : Submit(a) \/ End(a)) \/ Accept \/ Killed \/ Zap \/ Wake \/ NoReportWorker
  BY <1>2, <1>4 DEF Submit, End, Accept, Killed, Zap, Wake, NoReportWorker
<1>5. CASE PostTerm
  <2>1. queue'.list = queue.list /\ queue'.later = queue.later /\ queue'.count = queue.count
    BY <1>5 DEF PostTerm, Typed, Queues
  <2> QED
    BY <1>1, <1>5, <2>1 DEF PostTerm, Events
<1>6. CASE \E r \in Readers : Read(r) \/ Interrupted(r)
  BY <1>2, <1>6 DEF Read, Interrupted
<1>7. CASE \E r \in Readers : Deliver(r)
  <2>1. UNCHANGED queue /\ log'.posted = log.posted /\ log'.taken = log.taken
    BY <1>7 DEF Deliver, Typed, Logs
  <2> QED
    BY <1>1, <2>1 DEF Events
<1>8. CASE UNCHANGED vars
  BY <1>2, <1>8 DEF vars
<1> QED
  BY <1>3, <1>4, <1>5, <1>6, <1>7, <1>8, PostOrdered, DequeueOrdered, CleanupOrdered
     DEF Next, GateStep

\* A step that adds no report and takes no number into use keeps the numbers.
LEMMA NumbersStay ==
  ASSUME Typed, Numbered, log'.told = log.told,
         \A a \in Atoms : /\ atom'[a].serial = atom[a].serial
                          /\ atom'[a].status # "unused" => atom[a].status # "unused",
         \A r \in Readers : reader'[r].pc = "took" => reader[r].pc = "took" /\ reader'[r] = reader[r]
  PROVE  Numbered'
<1>1. \A r \in Readers : reader[r].pc = "took" => reader[r].atom \in Atoms
  BY DEF Typed
<1>2. /\ \A a \in Atoms : atom'[a].status # "unused" => atom'[a].serial # 0
      /\ \A a, b \in Atoms : atom'[a].serial = atom'[b].serial /\ atom'[a].serial # 0 => a = b
  BY DEF Numbered
<1>3. ASSUME NEW i \in 1 .. Len(log.told)
      PROVE  /\ \E a \in Atoms : log.told[i] <= atom'[a].serial
             /\ \A a \in Atoms : atom'[a].status # "unused" => log.told[i] # atom'[a].serial
             /\ \A j \in 1 .. Len(log.told) : log.told[i] = log.told[j] => i = j
  <2>1. PICK a \in Atoms : log.told[i] <= atom[a].serial
    BY DEF Numbered
  <2>2. log.told[i] <= atom'[a].serial
    BY <2>1
  <2> QED
    BY <2>2 DEF Numbered
<1>4. \A r \in Readers : reader'[r].pc = "took" => reader'[r].serial = atom'[reader'[r].atom].serial
  BY <1>1 DEF Numbered
<1> QED
  BY <1>2, <1>3, <1>4 DEF Numbered

LEMMA AcceptNumbered ==
  ASSUME SessionAssumption, Typed, Placed, Numbered, Accept PROVE Numbered'
<1>1. /\ submitter \in Atoms /\ UNCHANGED <<log, reader>> /\ atom[submitter].status = "unused"
      /\ \A a \in Atoms : atom[a].serial < MaxSubmits
  BY DEF Accept, Typed, Reusable
<1>2. NextSerial \in Nat \ {0} /\ \A a \in Atoms : atom[a].serial < NextSerial
  BY <1>1, SerialIsNew
<1>3. /\ atom'[submitter].serial = NextSerial /\ atom'[submitter].status = "running"
      /\ \A a \in Atoms : a # submitter => atom'[a] = atom[a]
  BY <1>1 DEF Accept, Typed
<1>4. /\ \A a \in Atoms : atom[a].serial \in Nat
      /\ \A i \in 1 .. Len(log.told) : log.told[i] \in Nat
  BY ElementOfSeq DEF Typed, AtomRecs, Logs
<1>5. \A i \in 1 .. Len(log.told) : log.told[i] < NextSerial
  BY <1>2, <1>4 DEF Numbered
<1>6. \A r \in Readers : reader[r].pc = "took" => reader[r].atom \in Atoms \ {submitter}
  BY <1>1 DEF Typed, Placed, InPlace
<1>7. \A a, b \in Atoms : atom'[a].serial = atom'[b].serial /\ atom'[a].serial # 0 => a = b
  BY <1>2, <1>3, <1>4 DEF Numbered
<1>8. ASSUME NEW i \in 1 .. Len(log.told)
      PROVE  /\ \E a \in Atoms : log.told[i] <= atom'[a].serial
             /\ \A a \in Atoms : atom'[a].status # "unused" => log.told[i] # atom'[a].serial
             /\ \A j \in 1 .. Len(log.told) : log.told[i] = log.told[j] => i = j
  BY <1>1, <1>2, <1>3, <1>4, <1>5 DEF Numbered
<1>9. /\ \A a \in Atoms : atom'[a].status # "unused" => atom'[a].serial # 0
      /\ \A r \in Readers : reader[r].pc = "took" => reader[r].serial = atom'[reader[r].atom].serial
  BY <1>2, <1>3, <1>6 DEF Numbered
<1> QED
  BY <1>1, <1>7, <1>8, <1>9 DEF Numbered

LEMMA DequeueNumbered ==
  ASSUME Typed, Numbered, NEW r \in Readers, Dequeue(r) PROVE Numbered'
<1>1. UNCHANGED atom /\ reader[r].pc = "look"
  BY DEF Dequeue
<1>2. CASE queue.list = <<>>
  <2>1. UNCHANGED log /\ \E pc \in {"out", "asleep"} : reader' = [reader EXCEPT ![r].pc = pc]
    BY <1>2 DEF Dequeue
  <2>2. \A q \in Readers : reader'[q].pc = "took" => reader[q].pc = "took" /\ reader'[q] = reader[q]
    BY <1>1, <2>1 DEF Typed, Reads
  <2> QED
    BY <1>1, <2>1, <2>2, NumbersStay
<1>3. CASE queue.list # <<>>
  <2> DEFINE a == Head(queue.list)
  <2>1. /\ log'.told = log.told
        /\ reader' = [reader EXCEPT ![r] = [pc |-> "took", atom |-> a, serial |-> atom[a].serial]]
    BY <1>3 DEF Dequeue, Typed, Logs
  <2> HIDE DEF a
  <2>2. \A q \in Readers : reader'[q].pc = "took" => reader'[q].serial = atom[reader'[q].atom].serial
    BY <2>1 DEF Numbered, Typed
  <2> QED
    BY <1>1, <2>1, <2>2 DEF Numbered
<1> QED
  BY <1>2, <1>3

LEMMA DeliverNumbered ==
  ASSUME Typed, Placed, Numbered, NEW r \in Readers, Deliver(r) PROVE Numbered'
<1> DEFINE a == reader[r].atom
           n == atom[a].serial
           t == log.told
           t2 == Append(t, n)
<1>1. /\ reader[r].pc = "took" /\ a \in Atoms /\ atom' = Process(atom, a)
      /\ \E pc \in {"look", "out"} : reader' = [reader EXCEPT ![r] = [AtRest EXCEPT !.pc = pc]]
  BY DEF Deliver, Typed
<1>2. /\ reader'[r].pc # "took" /\ \A q \in Readers : q # r => reader'[q] = reader[q]
  BY <1>1 DEF Typed, AtRest
<1>3. /\ \A b \in Atoms : atom'[b].status = IF b = a THEN "unused" ELSE atom[b].status
      /\ \A b \in Atoms : atom'[b].serial = atom[b].serial /\ atom[b].serial \in Nat
  BY <1>1 DEF Process, Typed, AtomRecs
<1>4. /\ atom[a].status = "completed" /\ n # 0
      /\ \A b \in Atoms : atom[b].serial = n => b = a
  BY <1>1 DEF Placed, InPlace, Numbered
<1>5. /\ t \in Seq(Nat) /\ Len(t) \in Nat /\ n \in Nat /\ log'.told = t2 /\ n = atom[a].serial
      /\ \A q \in Readers : reader[q].pc = "took" => reader[q].atom \in Atoms
  BY <1>1, <1>3, LenProperties DEF Typed, Logs, Deliver
<1>6. \A i \in 1 .. Len(t) : /\ \E b \in Atoms : t[i] <= atom[b].serial
                             /\ \A b \in Atoms : atom[b].status # "unused" => t[i] # atom[b].serial
                             /\ \A j \in 1 .. Len(t) : t[i] = t[j] => i = j
  BY DEF Numbered
<1> HIDE DEF t, n, a
<1>7. Len(t2) = Len(t) + 1 /\ t2[Len(t) + 1] = n /\ \A i \in 1 .. Len(t) : t2[i] = t[i]
  BY <1>5, Appended
<1> HIDE DEF t2
<1>8. \A i \in 1 .. Len(t) : t[i] # n
  BY <1>1, <1>4, <1>5, <1>6
<1>9. \A i \in 1 .. Len(t2) : i \in 1 .. Len(t) \/ i = Len(t) + 1
  BY <1>5, <1>7
<1>10. ASSUME NEW i \in 1 .. Len(t2)
       PROVE  /\ \E b \in Atoms : t2[i] <= atom'[b].serial
              /\ \A b \in Atoms : atom'[b].status # "unused" => t2[i] # atom'[b].serial
              /\ \A j \in 1 .. Len(t2) : t2[i] = t2[j] => i = j
  <2>1. ASSUME NEW j \in 1 .. Len(t2), t2[i] = t2[j] PROVE i = j
    <3>1. CASE i \in 1 .. Len(t) /\ j \in 1 .. Len(t)
      BY <1>6, <1>7, <2>1, <3>1
    <3>2. CASE i \in 1 .. Len(t) /\ j = Len(t) + 1
      BY <1>7, <1>8, <2>1, <3>2
    <3>3. CASE i = Len(t) + 1 /\ j \in 1 .. Len(t)
      BY <1>7, <1>8, <2>1, <3>3
    <3> QED
      BY <1>9, <3>1, <3>2, <3>3
  <2>2. \E b \in Atoms : t2[i] <= atom'[b].serial
    <3>1. CASE i \in 1 .. Len(t)
      BY <1>3, <1>6, <1>7, <3>1
    <3>2. CASE i = Len(t) + 1
      BY <1>1, <1>3, <1>5, <1>7, <3>2
    <3> QED
      BY <1>9, <3>1, <3>2
  <2>3. \A b \in Atoms : atom'[b].status # "unused" => t2[i] # atom'[b].serial
    <3>1. CASE i \in 1 .. Len(t)
      BY <1>3, <1>6, <1>7, <3>1
    <3>2. CASE i = Len(t) + 1
      BY <1>3, <1>4, <1>7, <3>2
    <3> QED
      BY <1>9, <3>1, <3>2
  <2> QED
    BY <2>1, <2>2, <2>3
<1>11. /\ \A b \in Atoms : atom'[b].status # "unused" => atom'[b].serial # 0
       /\ \A b, c \in Atoms : atom'[b].serial = atom'[c].serial /\ atom'[b].serial # 0 => b = c
       /\ \A q \in Readers : reader'[q].pc = "took" => reader'[q].serial = atom'[reader'[q].atom].serial
  BY <1>2, <1>3, <1>5 DEF Numbered
<1> QED
  BY <1>5, <1>10, <1>11 DEF Numbered

LEMMA NumberedKept ==
  ASSUME SessionAssumption, Typed, Placed, Numbered, [Next]_vars PROVE Numbered'
<1>1. ASSUME NEW a \in Atoms, End(a) PROVE Numbered'
  <2>1. PICK f \in BOOLEAN : atom' = [atom EXCEPT ![a].status = "completed", ![a].failed = f]
    BY <1>1 DEF End
  <2>2. \A b \in Atoms : /\ atom'[b].serial = atom[b].serial
                         /\ atom'[b].status # "unused" => atom[b].status # "unused"
    BY <1>1, <2>1 DEF End, Typed, AtomRecs
  <2> QED
    BY <1>1, <2>2, NumbersStay DEF End
<1> SUFFICES ASSUME ~Accept, ~\E a \in Atoms : End(a) PROVE Numbered'
  BY <1>1, AcceptNumbered
<1>2. \A a \in Atoms : /\ atom'[a].serial = atom[a].serial
                       /\ atom'[a].status # "unused" => atom[a].status # "unused"
  <2>1. \A a \in Atoms : atom'[a] = atom[a] \/ atom'[a] = [atom[a] EXCEPT !.status = "unused"]
    BY StatusFalls
  <2>2. \A a \in Atoms : /\ [atom[a] EXCEPT !.status = "unused"].serial = atom[a].serial
                         /\ [atom[a] EXCEPT !.status = "unused"].status = "unused"
    BY DEF Typed, AtomRecs
  <2> QED
    BY <2>1, <2>2
<1>3. ASSUME UNCHANGED reader, log'.told = log.told PROVE Numbered'
  BY <1>2, <1>3, NumbersStay
<1>4. CASE GateStep
  <2>1. UNCHANGED jobVars
    BY <1>4 DEF GateStep, Handshake, SetFlags, Latch, SetupDone
  <2> QED
    BY <1>3, <2>1 DEF jobVars
<1>5. CASE (\E a \in Atoms : Submit(a)) \/ Killed \/ Zap \/ NoReportWorker \/ PostTerm
  BY <1>3, <1>5 DEF Submit, Killed, Zap, NoReportWorker, PostTerm
<1>6. CASE Post
  <2>1. PICK a \in Atoms : PostStep(a) /\ (PostNothing(a) \/ PostLater(a) \/ PostNow(a))
    BY <1>6, PostSplits
  <2>2. log'.told = log.told
    BY <2>1 DEF PostNothing, PostLater, PostNow, Typed, Logs
  <2> QED
    BY <1>3, <2>1, <2>2 DEF PostStep
<1>7. CASE Wake
  <2>1. \A r \in Readers : reader'[r].pc = "took" => reader[r].pc = "took" /\ reader'[r] = reader[r]
    BY <1>7 DEF Wake, Typed, Reads
  <2> QED
    BY <1>2, <1>7, <2>1, NumbersStay DEF Wake
<1>8. ASSUME NEW r \in Readers, Read(r) \/ Interrupted(r) PROVE Numbered'
  <2>1. PICK pc \in {"out", "look"} : reader' = [reader EXCEPT ![r].pc = pc]
    BY <1>8 DEF Read, Interrupted
  <2>2. \A q \in Readers : reader'[q].pc = "took" => reader[q].pc = "took" /\ reader'[q] = reader[q]
    BY <2>1 DEF Typed, Reads
  <2> QED
    BY <1>2, <1>8, <2>2, NumbersStay DEF Read, Interrupted
<1>9. CASE Cleanup
  <2>1. log'.told = log.told /\ UNCHANGED reader
    BY <1>9, CleanupIs DEF Cleanup, Typed, Logs
  <2> QED
    BY <1>3, <2>1
<1>10. CASE UNCHANGED vars
  BY <1>3, <1>10 DEF vars
<1> QED
  BY <1>4, <1>5, <1>6, <1>7, <1>8, <1>9, <1>10, DequeueNumbered, DeliverNumbered
     DEF Next, GateStep

\* Whoever falls asleep has looked under event_mutex, and a post wakes him.
LEMMA PendingFalls ==
  ASSUME Typed, Ordered, [Next]_vars
  PROVE  Pending' => Pending \/ poster' = "wake"
<1>1. CASE UNCHANGED queue
  BY <1>1 DEF Pending
<1>2. CASE Post
  <2>1. PICK a \in Atoms : PostStep(a) /\ (PostNothing(a) \/ PostLater(a) \/ PostNow(a))
    BY <1>2, PostSplits
  <2>2. CASE PostLater(a)
    <3>1. queue'.count = queue.count /\ queue'.closed = queue.closed
      BY <2>2 DEF PostLater, Typed, Queues
    <3> QED
      BY <3>1 DEF Pending
  <2> QED
    BY <1>1, <2>1, <2>2 DEF PostNothing, PostNow
<1>3. CASE PostTerm
  BY <1>3 DEF PostTerm
<1>4. ASSUME NEW r \in Readers, Dequeue(r) PROVE Pending' => Pending
  <2>1. CASE queue.list # <<>>
    <3>1. queue.count # 0
      BY <2>1, TakenIs DEF Ordered
    <3> QED
      BY <3>1 DEF Pending
  <2>2. CASE queue.list = <<>>
    BY <1>1, <1>4, <2>2 DEF Dequeue, Pending
  <2> QED
    BY <2>1, <2>2
<1>5. CASE Cleanup
  <2>1. queue'.count = 0 /\ queue'.closed = queue.closed
    BY <1>5 DEF Cleanup, Typed, Queues
  <2> QED
    BY <2>1 DEF Pending
<1>6. CASE GateStep
  <2>1. UNCHANGED jobVars
    BY <1>6 DEF GateStep, Handshake, SetFlags, Latch, SetupDone
  <2> QED
    BY <1>1, <2>1 DEF jobVars
<1>7. CASE (\E a \in Atoms : Submit(a) \/ End(a)) \/ Accept \/ Killed \/ Zap \/ Wake \/ NoReportWorker
  BY <1>1, <1>7 DEF Submit, End, Accept, Killed, Zap, Wake, NoReportWorker
<1>8. CASE \E r \in Readers : Read(r) \/ Deliver(r) \/ Interrupted(r)
  BY <1>1, <1>8 DEF Read, Deliver, Interrupted
<1>9. CASE UNCHANGED vars
  BY <1>1, <1>9 DEF vars
<1> QED
  BY <1>2, <1>3, <1>4, <1>5, <1>6, <1>7, <1>8, <1>9 DEF Next, GateStep

LEMMA SleepersWoken ==
  ASSUME Typed, Ordered, Woken, [Next]_vars,
         NEW r \in Readers, reader'[r].pc = "asleep"
  PROVE  ~Pending' \/ poster' = "wake"
<1>1. CASE Wake
  <2>1. reader[r].pc = "asleep" /\ ~Pending /\ UNCHANGED queue
    BY <1>1 DEF Wake, Typed, Reads
  <2> QED
    BY <2>1 DEF Pending
<1>2. ASSUME NEW q \in Readers, Dequeue(q) PROVE ~Pending' \/ poster' = "wake"
  <2>1. CASE reader[r].pc = "asleep"
    <3>1. poster' = poster
      BY <1>2 DEF Dequeue
    <3> QED
      BY <2>1, <3>1, PendingFalls DEF Woken
  <2>2. CASE reader[r].pc # "asleep"
    <3>1. q = r /\ queue.list = <<>> /\ ~Pending /\ UNCHANGED queue
      BY <1>2, <2>2 DEF Dequeue, Typed, Reads
    <3> QED
      BY <3>1 DEF Pending
  <2> QED
    BY <2>1, <2>2
<1>3. CASE reader[r].pc = "asleep" /\ (poster' = poster \/ poster' = "wake")
  BY <1>3, PendingFalls DEF Woken
<1>4. CASE GateStep
  <2>1. UNCHANGED jobVars
    BY <1>4 DEF GateStep, Handshake, SetFlags, Latch, SetupDone
  <2> QED
    BY <1>3, <2>1 DEF jobVars
<1>5. CASE (\E a \in Atoms : Submit(a) \/ End(a)) \/ Accept \/ Killed \/ Zap \/ NoReportWorker
  BY <1>3, <1>5 DEF Submit, End, Accept, Killed, Zap, NoReportWorker
<1>6. CASE Post
  BY <1>3, <1>6, PostSplits DEF PostStep, PostNothing, PostLater, PostNow
<1>7. CASE PostTerm \/ Cleanup
  BY <1>3, <1>7 DEF PostTerm, Cleanup
<1>8. ASSUME NEW q \in Readers, Read(q) \/ Deliver(q) \/ Interrupted(q)
      PROVE  ~Pending' \/ poster' = "wake"
  <2>1. \E pc \in {"out", "look"} :
          \/ reader' = [reader EXCEPT ![q].pc = pc]
          \/ reader' = [reader EXCEPT ![q] = [AtRest EXCEPT !.pc = pc]]
    BY <1>8 DEF Read, Deliver, Interrupted
  <2>2. reader[r].pc = "asleep"
    BY <2>1 DEF Typed, Reads, AtRest
  <2> QED
    BY <1>3, <1>8, <2>2 DEF Read, Deliver, Interrupted
<1>9. CASE UNCHANGED vars
  BY <1>3, <1>9 DEF vars
<1> QED
  BY <1>1, <1>2, <1>4, <1>5, <1>6, <1>7, <1>8, <1>9 DEF Next, GateStep

\* Once the file is closed nobody reads or submits, and nothing is left.
LEMMA EndKept ==
  ASSUME SessionAssumption, Typed, Placed, Woken, [Next]_vars
  PROVE  /\ life' # "open" => submitter' = 0 /\ \A r \in Readers : reader'[r].pc = "out"
         /\ life' = "cleaned" => workq' = <<>> /\ \A a \in Atoms : atom'[a].status = "unused"
<1>1. CASE life = "open"
  <2>1. life' = "open" \/ Zap
    <3>1. CASE (\E a \in Atoms : Submit(a) \/ End(a)) \/ Accept \/ Killed \/ Wake \/ Cleanup
      BY <1>1, <3>1 DEF Submit, End, Accept, Killed, Wake, Cleanup
    <3>2. CASE Post \/ NoReportWorker \/ PostTerm \/ UNCHANGED vars
      BY <1>1, <3>2 DEF Post, NoReportWorker, PostTerm, vars
    <3>3. CASE \E r \in Readers : Read(r) \/ Dequeue(r) \/ Deliver(r) \/ Interrupted(r)
      BY <1>1, <3>3 DEF Read, Dequeue, Deliver, Interrupted
    <3>4. CASE GateStep
      BY <1>1, <3>4 DEF GateStep, Handshake, SetFlags, Latch, SetupDone, jobVars
    <3> QED
      BY <3>1, <3>2, <3>3, <3>4 DEF Next, GateStep
  <2> QED
    BY <1>1, <2>1 DEF Zap
<1>2. CASE life # "open"
  <2>1. /\ submitter = 0 /\ \A r \in Readers : reader[r].pc = "out"
        /\ life = "cleaned" => workq = <<>> /\ \A a \in Atoms : atom[a].status = "unused"
    BY <1>2 DEF Woken
  <2>2. ASSUME UNCHANGED <<submitter, reader, life>>,
               life = "cleaned" => workq' = workq /\ \A a \in Atoms : atom'[a].status = atom[a].status
        PROVE  /\ life' # "open" => submitter' = 0 /\ \A r \in Readers : reader'[r].pc = "out"
               /\ life' = "cleaned" => workq' = <<>> /\ \A a \in Atoms : atom'[a].status = "unused"
    BY <2>1, <2>2
  <2>3. CASE Post
    <3>1. PICK a \in Atoms : PostStep(a)
      BY <2>3, PostSplits
    <3>2. atom[a].status = "completed"
      <4>1. In(ended, a)
        BY <3>1, TailOnce DEF PostStep, Typed, Placed, InPlace
      <4> QED
        BY <4>1 DEF Placed, InPlace
    <3> QED
      BY <2>1, <2>2, <3>1, <3>2 DEF PostStep
  <2>4. CASE Cleanup
    <3>1. \A a \in Atoms : atom'[a].status = "unused"
      <4>1. \A a \in Atoms : atom[a].status # "unused" => In(Events, a)
        BY <2>1, <2>4, EmptyOnce DEF Cleanup, SessionAssumption, Placed, InPlace, Typed, AtomRecs
      <4>2. \A a \in Atoms : atom'[a] = IF In(Events, a) THEN [atom[a] EXCEPT !.status = "unused"]
                                        ELSE atom[a]
        BY <2>4, CleanupIs
      <4>3. \A a \in Atoms : [atom[a] EXCEPT !.status = "unused"].status = "unused"
        BY DEF Typed, AtomRecs
      <4> QED
        BY <4>1, <4>2, <4>3
    <3> QED
      BY <2>1, <2>4, <3>1 DEF Cleanup
  <2>5. CASE (\E a \in Atoms : Submit(a)) \/ Accept \/ Killed \/ PostTerm \/ Zap
    BY <1>2, <2>1, <2>5 DEF Submit, Accept, Killed, PostTerm, Zap, Open
  <2>6. CASE \E a \in Atoms : End(a)
    BY <1>2, <2>1, <2>2, <2>6 DEF End
  <2>7. CASE NoReportWorker
    BY <1>2, <2>1, <2>2, <2>7 DEF NoReportWorker
  <2>8. CASE Wake
    <3>1. reader' = reader
      BY <2>1, <2>8 DEF Wake, Typed
    <3> QED
      BY <2>2, <2>8, <3>1 DEF Wake
  <2>9. CASE \E r \in Readers : Read(r) \/ Dequeue(r) \/ Deliver(r) \/ Interrupted(r)
    BY <1>2, <2>1, <2>9 DEF Read, Dequeue, Deliver, Interrupted
  <2>10. CASE GateStep
    <3>1. UNCHANGED jobVars
      BY <2>10 DEF GateStep, Handshake, SetFlags, Latch, SetupDone
    <3> QED
      BY <2>2, <3>1 DEF jobVars
  <2>11. CASE UNCHANGED vars
    BY <2>2, <2>11 DEF vars
  <2> QED
    BY <2>3, <2>4, <2>5, <2>6, <2>7, <2>8, <2>9, <2>10, <2>11 DEF Next, GateStep
<1> QED
  BY <1>1, <1>2

LEMMA InitSession ==
  ASSUME Init PROVE SessionInv
<1>1. /\ <<>> \in Seq(Atoms) /\ <<>> \in Seq(Nat) /\ Len(<<>>) = 0 /\ <<>> \o <<>> = <<>>
  BY EmptySeq, ConcatEmptySeq
<1>2. Events = <<>>
  BY <1>1 DEF Init, Events
<1>3. Typed
  BY <1>1 DEF Init, Typed, Gates, AtomRecs, Queues, Reads, Logs, Unused, AtRest
<1>4. SetUp
  BY DEF Init, SetUp, Unused
<1>5. Placed
  BY <1>2, EmptyOnce DEF Init, Placed, InPlace, Unused, AtRest
<1>6. Ordered
  BY <1>1, <1>2 DEF Init, Ordered, InOrder
<1>7. Numbered
  BY <1>1 DEF Init, Numbered, Unused, AtRest
<1>8. Woken
  BY DEF Init, Woken, Unused, AtRest
<1> QED
  BY <1>3, <1>4, <1>5, <1>6, <1>7, <1>8 DEF SessionInv

\* The inductive invariant: every thread's place in the set-up, every finished
\* atom's one place on its way to user space, every serial's one use.
THEOREM SessionInvariant ==
  ASSUME SessionAssumption PROVE Spec => []SessionInv
<1>1. SessionInv /\ [Next]_vars => SessionInv'
  <2> SUFFICES ASSUME SessionInv, [Next]_vars PROVE SessionInv'
    OBVIOUS
  <2>1. Typed /\ SetUp /\ Placed /\ Ordered /\ Numbered /\ Woken
    BY DEF SessionInv
  <2>2. Woken'
    <3>1. \A r \in Readers : reader'[r].pc = "asleep" => ~Pending' \/ poster' = "wake"
      BY <2>1, SleepersWoken
    <3> QED
      BY <2>1, <3>1, EndKept DEF Woken
  <2> QED
    BY <2>1, <2>2, TypedKept, SetUpKept, PlacedKept, OrderedKept, NumberedKept DEF SessionInv
<1> QED
  BY <1>1, InitSession, PTL DEF Spec

\* Whatever mix of coalesced, silent and reported atoms the threads finish and
\* however many of them read, user space gets each event once and in order, for
\* the submission it was posted for; nobody sleeps through the last one, no
\* finished atom is forgotten and the set-up happens once.
\* (kbase_event_post, kbase_event_dequeue, kbase_api_set_flags)
THEOREM EventsAreReported ==
  ASSUME SessionAssumption PROVE Spec => []EventsReported
<1>1. SessionInv => EventsReported
  <2> SUFFICES ASSUME SessionInv PROVE EventsReported
    OBVIOUS
  <2>1. Typed /\ SetUp /\ Placed /\ Ordered /\ Numbered /\ Woken
    BY DEF SessionInv
  <2>2. EventsInOrder
    <3>1. log.taken \o Serial(queue.list \o queue.later) = log.posted
      <4> DEFINE u == SerialOf(atom, Events)
                 t == log.taken
                 p == log.posted
      <4>1. u = Serial(queue.list \o queue.later)
        BY DEF SerialOf, Serial, Events
      <4>2. \A a \in Atoms : atom[a].serial \in Nat
        BY <2>1 DEF Typed, AtomRecs
      <4>0. Events \in Seq(Atoms)
        BY <2>1, EventsTyped
      <4>3. /\ u \in Seq(Nat) /\ Len(u) = Len(Events)
            /\ \A i \in 1 .. Len(Events) : u[i] = atom[Events[i]].serial
        BY <4>0, <4>2, SerialSeq
      <4>4. /\ p \in Seq(Nat) /\ t \in Seq(Nat) /\ Len(t) \in Nat /\ Len(u) \in Nat
        BY <2>1, <4>3, LenProperties DEF Typed, Logs
      <4>5. /\ Len(p) = Len(t) + Len(u) /\ \A i \in 1 .. Len(t) : p[i] = t[i]
            /\ \A i \in 1 .. Len(u) : p[Len(t) + i] = u[i]
        BY <2>1, <4>3 DEF Ordered, InOrder
      <4> HIDE DEF u, t, p
      <4>6. /\ t \o u \in Seq(Nat) /\ Len(t \o u) = Len(t) + Len(u)
            /\ \A i \in 1 .. Len(t) : (t \o u)[i] = t[i]
            /\ \A i \in Len(t) + 1 .. Len(t) + Len(u) : (t \o u)[i] = u[i - Len(t)]
        <5>1. t \in Seq(Nat) /\ u \in Seq(Nat)
          BY <4>3, <4>4
        <5> QED
          BY <5>1, ConcatProperties
      <4>7. ASSUME NEW i \in 1 .. Len(p) PROVE (t \o u)[i] = p[i]
        <5>1. CASE i \in 1 .. Len(t)
          BY <4>5, <4>6, <5>1
        <5>2. CASE i \in Len(t) + 1 .. Len(t) + Len(u)
          <6>1. i - Len(t) \in 1 .. Len(u) /\ Len(t) + (i - Len(t)) = i
            BY <4>4, <5>2
          <6> QED
            BY <4>5, <4>6, <5>2, <6>1
        <5> QED
          BY <4>4, <4>5, <5>1, <5>2
      <4>8. t \o u = p
        BY <4>4, <4>5, <4>6, <4>7, SeqEqual
      <4> QED
        BY <4>1, <4>8 DEF t, p
    <3>2. \A i, j \in DOMAIN log.told : i # j => log.told[i] # log.told[j]
      <4>1. DOMAIN log.told = 1 .. Len(log.told)
        BY <2>1, LenProperties DEF Typed, Logs
      <4> QED
        BY <2>1, <4>1 DEF Numbered
    <3>3. \A r \in Readers : reader[r].pc = "took" =>
            /\ atom[reader[r].atom].serial = reader[r].serial
            /\ atom[reader[r].atom].status = "completed"
      BY <2>1 DEF Typed, Numbered, Placed, InPlace
    <3> QED
      BY <2>1, <3>1, <3>2, <3>3 DEF EventsInOrder, Ordered
  <2>3. NobodyForgotten
    <3>1. ASSUME NEW a \in Atoms, atom[a].status = "completed"
          PROVE  \/ \E s \in {ended, queue.list, queue.later, workq} : \E i \in DOMAIN s : s[i] = a
                 \/ \E r \in Readers : reader[r].pc = "took" /\ reader[r].atom = a
      <4>1. In(Events, a) => In(queue.list, a) \/ In(queue.later, a)
        BY <2>1, EventsTyped, ConcatIn DEF Events
      <4>2. \/ In(ended, a) \/ In(queue.list, a) \/ In(queue.later, a) \/ In(workq, a)
            \/ \E r \in Readers : reader[r].pc = "took" /\ reader[r].atom = a
        BY <2>1, <3>1, <4>1 DEF Placed, InPlace
      <4> QED
        BY <4>2 DEF In
    <3> QED
      BY <2>1, <3>1 DEF NobodyForgotten, Woken
  <2>4. SetUpOnce
    BY <2>1 DEF SetUpOnce, SetUp, Typed
  <2> QED
    BY <2>2, <2>3, <2>4 DEF EventsReported
<1> QED
  BY <1>1, SessionInvariant, PTL
=============================================================================
