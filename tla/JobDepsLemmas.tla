---------------------------- MODULE JobDepsLemmas ----------------------------
(***************************************************************************)
(* The inductive invariant of JobDeps, for any number of atoms and any      *)
(* submissions: HwInv, what the holders of hwaccess_lock keep, with the     *)
(* helpers field by field; then Whole, which adds what the dispatcher keeps *)
(* of the context, its queue and pass, order, failure and reports; and the  *)
(* steps of the slots, the interrupt and the scheduler.                     *)
(***************************************************************************)
EXTENDS JobDeps, FiniteSetTheorems, SequenceTheorems, WellFoundedInduction, TLAPS

Statuses == {"unused", "queued", "in_js", "hw_completed", "completed"}
Events == {"done", "fail", "stopped"}
RbStates == {"none", "waiting", "ready", "submitted", "return"}
Items == [job : {"done", "return", "cancel"}, id : Atoms]
HwStates ==
  [atom : [Atoms -> AtomRecords], tree : SUBSET Atoms, rb : [Slots -> Seq(Atoms)],
   wq : Seq(Items), submit : BOOLEAN, workCount : Int]

-----------------------------------------------------------------------------
(* The fields of an atom.                                                   *)

\* What two records of an atom have in common when only its state changes.
Fixed(q, r) == /\ q.kind = r.kind /\ q.pre = r.pre /\ q.preDep = r.preDep /\ q.postDep = r.postDep
               /\ q.xPre = r.xPre /\ q.xPost = r.xPost

\* The types of an atom's fields.
LEMMA AtomTypes ==
  ASSUME NEW r \in AtomRecords
  PROVE  /\ r.kind \in Slots \cup {"soft", "dep"} /\ r.pre \in [1..2 -> Deps] /\ r.status \in Statuses
         /\ r.event \in Events /\ r.wf \in BOOLEAN /\ r.dep \in [1..2 -> Deps]
         /\ r.preDep \in 0..NumAtoms /\ r.postDep \in 0..NumAtoms /\ r.xPre \in 0..NumAtoms
         /\ r.xPost \in 0..NumAtoms /\ r.flags \subseteq Flags /\ r.rbState \in RbStates
BY DEF AtomRecords, Statuses, Events, RbStates

-----------------------------------------------------------------------------
(* Sequences.                                                               *)

\* What is left of a non-empty queue when its head is taken.
LEMMA TailIs ==
  ASSUME NEW T, NEW q \in Seq(T), q # <<>>
  PROVE  /\ Head(q) = q[1] /\ q[1] \in T /\ Tail(q) \in Seq(T) /\ Len(q) \in Nat \ {0}
         /\ Len(Tail(q)) = Len(q) - 1 /\ DOMAIN q = 1..Len(q) /\ DOMAIN Tail(q) = 1..(Len(q) - 1)
         /\ \A i \in 1..(Len(q) - 1) : Tail(q)[i] = q[i + 1]
BY HeadTailProperties, LenProperties, EmptySeq

\* The places and the elements of a queue.
LEMMA SeqIs ==
  ASSUME NEW T, NEW q \in Seq(T)
  PROVE  /\ DOMAIN q = 1..Len(q) /\ Len(q) \in Nat /\ \A i \in 1..Len(q) : q[i] \in T
         /\ q = <<>> <=> Len(q) = 0
BY LenProperties, EmptySeq

\* What adding at the end of a queue does to its places.
LEMMA AppendIs ==
  ASSUME NEW T, NEW q \in Seq(T), NEW x \in T
  PROVE  /\ Append(q, x) \in Seq(T) /\ Len(Append(q, x)) = Len(q) + 1 /\ Len(q) \in Nat
         /\ DOMAIN Append(q, x) = 1..(Len(q) + 1) /\ DOMAIN q = 1..Len(q)
         /\ Append(q, x)[Len(q) + 1] = x
         /\ \A i \in 1..Len(q) : Append(q, x)[i] = q[i]
OBVIOUS

\* Atoms are positive numbers, finitely many.
LEMMA AtomsFinite == Atoms \subseteq Nat \ {0} /\ \A set \in SUBSET Atoms : IsFiniteSet(set)
<1>1. NumAtoms \in Nat
  BY JobDepsAssumption
<1>2. IsFiniteSet(1..NumAtoms)
  BY <1>1, FS_Interval
<1>3. Atoms \subseteq Nat \ {0}
  BY <1>1 DEF Atoms
<1>4. ASSUME NEW set \in SUBSET Atoms PROVE IsFiniteSet(set)
  <2>1. set \in SUBSET (1..NumAtoms)
    BY DEF Atoms
  <2>. QED
    BY <2>1, <1>2, FS_Subset
<1>. QED
  BY <1>3, <1>4

\* ByAge lists the members of a set, each of them once.
LEMMA ByAgeIs ==
  ASSUME NEW set \in SUBSET Atoms
  PROVE  /\ ByAge(set) \in Seq(set) /\ ByAge(set) \in Seq(Atoms)
         /\ \A i, j \in DOMAIN ByAge(set) : ByAge(set)[i] = ByAge(set)[j] => i = j
         /\ \A a \in set : \E i \in DOMAIN ByAge(set) : ByAge(set)[i] = a
         /\ set # {} => 1 \in DOMAIN ByAge(set) /\ ByAge(set)[1] \in set /\ \A b \in set : ByAge(set)[1] <= b
<1>. DEFINE Rank(a) == Cardinality({b \in set : b < a})
           N == Cardinality(set)
           f == [a \in set |-> Rank(a)]
           q == ByAge(set)
<1>1. IsFiniteSet(set) /\ N \in Nat
  BY AtomsFinite, FS_CardinalityType
<1>2. ASSUME NEW a \in set
      PROVE  /\ Rank(a) \in 0..(N - 1)
             /\ \A c \in set : a < c => Rank(a) < Rank(c)
  <2>. DEFINE below == {b \in set : b < a}
  <2>1. IsFiniteSet(below) /\ Rank(a) \in Nat
    BY <1>1, FS_Subset, FS_CardinalityType
  <2>2. a \notin below /\ a \in Nat
    BY AtomsFinite
  <2>3. IsFiniteSet(below \cup {a}) /\ Cardinality(below \cup {a}) = Rank(a) + 1
    BY <2>1, <2>2, FS_AddElement
  <2>4. \A c \in SUBSET set : below \cup {a} \subseteq c => Rank(a) + 1 <= Cardinality(c) /\ Cardinality(c) \in Nat
    <3>. SUFFICES ASSUME NEW c \in SUBSET set, below \cup {a} \subseteq c
                  PROVE  Rank(a) + 1 <= Cardinality(c) /\ Cardinality(c) \in Nat
      OBVIOUS
    <3>1. IsFiniteSet(c)
      BY <1>1, FS_Subset
    <3>. QED
      BY <3>1, <2>3, FS_Subset, FS_CardinalityType
  <2>5. Rank(a) + 1 <= N
    <3>1. below \cup {a} \subseteq set
      OBVIOUS
    <3>. QED
      BY <3>1, <2>4
  <2>6. ASSUME NEW c \in set, a < c PROVE Rank(a) < Rank(c)
    <3>0. \A b \in set : b \in Nat
      BY AtomsFinite
    <3>1. below \cup {a} \subseteq {b \in set : b < c}
      BY <2>6, <3>0
    <3>2. Rank(a) + 1 <= Rank(c) /\ Rank(c) \in Nat
      BY <3>1, <2>4
    <3>. HIDE DEF Rank
    <3>. QED
      BY <3>2, <2>1
  <2>. HIDE DEF Rank, N
  <2>. QED
    BY <2>1, <2>5, <2>6, <1>1
<1>3. \A a, c \in set : Rank(a) = Rank(c) => a = c
  <2>. HIDE DEF Rank, N
  <2>. QED
    BY <1>1, <1>2, AtomsFinite
<1>4. \A n \in 1..N : \E a \in set : Rank(a) = n - 1
  <2>. HIDE DEF Rank
  <2>1. f \in Injection(set, 0..(N - 1))
    <3>1. f \in [set -> 0..(N - 1)]
      BY <1>2
    <3>. QED
      BY <3>1, <1>3 DEF Injection, IsInjective
  <2>2. IsFiniteSet(0..(N - 1)) /\ Cardinality(0..(N - 1)) = N
    <3>1. 0 \in Int /\ N - 1 \in Int
      BY <1>1
    <3>2. IsFiniteSet(0..(N - 1)) /\ Cardinality(0..(N - 1)) = IF 0 > N - 1 THEN 0 ELSE (N - 1) - 0 + 1
      BY <3>1, FS_Interval, SMTT(30)
    <3>. HIDE DEF N
    <3>. QED
      BY <3>2, <1>1
  <2>3. f \in Surjection(set, 0..(N - 1))
    BY <2>1, <2>2, FS_Injection
  <2>. HIDE DEF N
  <2>4. \A m \in 0..(N - 1) : \E a \in set : f[a] = m
    BY <2>3 DEF Surjection
  <2>. QED
    BY <2>4, <1>1
<1>5. DOMAIN q = 1..N /\ \A n \in 1..N : q[n] \in set /\ Rank(q[n]) = n - 1
  <2>1. q = [n \in 1..N |-> CHOOSE a \in set : Rank(a) = n - 1]
    BY DEF ByAge
  <2>. HIDE DEF Rank, N, q
  <2>. QED
    BY <2>1, <1>4
<1>6. q \in [1..N -> set]
  <2>1. q = [n \in 1..N |-> CHOOSE a \in set : Rank(a) = n - 1]
    BY DEF ByAge
  <2>. HIDE DEF Rank, N, q
  <2>. QED
    BY <2>1, <1>5
<1>7. q \in Seq(set) /\ q \in Seq(Atoms)
  <2>1. q \in [1..N -> Atoms]
    BY <1>6, <1>5
  <2>. HIDE DEF q, N
  <2>. QED
    BY <2>1, <1>6, <1>1, SeqDef
<1>8. \A i, j \in DOMAIN q : q[i] = q[j] => i = j
  <2>. HIDE DEF Rank, N, q
  <2>1. \A i, j \in 1..N : q[i] = q[j] => i - 1 = j - 1
    BY <1>5
  <2>. QED
    BY <2>1, <1>5, <1>1
<1>9. \A a \in set : \E i \in DOMAIN q : q[i] = a
  <2>. TAKE a \in set
  <2>. HIDE DEF Rank, N, q
  <2>1. Rank(a) + 1 \in 1..N
    BY <1>2, <1>1
  <2>2. q[Rank(a) + 1] = a
    BY <2>1, <1>5, <1>3, <1>2, <1>1
  <2>. QED
    BY <2>1, <2>2, <1>5
<1>10. set # {} => 1 \in DOMAIN q /\ q[1] \in set /\ \A b \in set : q[1] <= b
  <2>1. set # {} => N # 0
    BY <1>1, FS_EmptySet
  <2>2. \A a \in set : Rank(a) = 0 => \A b \in set : a <= b
    <3>1. ASSUME NEW a \in set, Rank(a) = 0, NEW b \in set PROVE a <= b
      <4>1. IsFiniteSet({c \in set : c < a})
        BY <1>1, FS_Subset
      <4>2. {c \in set : c < a} = {}
        BY <4>1, <3>1, FS_EmptySet
      <4>. QED
        BY <4>2, AtomsFinite
    <3>. QED
      BY <3>1
  <2>. HIDE DEF N, q, Rank
  <2>3. N # 0 => 1 \in 1..N /\ q[1] \in set /\ Rank(q[1]) = 0
    BY <1>1, <1>5
  <2>. QED
    BY <2>1, <2>2, <2>3, <1>5
<1>. QED
  BY <1>7, <1>8, <1>9, <1>10

-----------------------------------------------------------------------------
(* What the helpers of the interrupt handlers do, field by field.           *)

\* An atom of which only rbState and blocked may have changed.
Like(q, r) == /\ Fixed(q, r) /\ q.status = r.status /\ q.event = r.event /\ q.wf = r.wf
              /\ q.dep = r.dep /\ q.flags = r.flags

\* The types of what the atoms, the tree, the rings and the work queue hold.
LEMMA HwIs ==
  ASSUME NEW s \in HwStates
  PROVE  /\ s.atom \in [Atoms -> AtomRecords] /\ s.tree \subseteq Atoms
         /\ s.rb \in [Slots -> Seq(Atoms)] /\ s.wq \in Seq(Items)
         /\ s.submit \in BOOLEAN /\ s.workCount \in Int
BY DEF HwStates

\* Each atom is described by an atom record.
LEMMA AtomIs ==
  ASSUME NEW s \in HwStates, NEW a \in Atoms
  PROVE  s.atom[a] \in AtomRecords
BY DEF HwStates

Dequeues(s, n, js) ==
  LET h == s.rb[js][1] IN
  /\ h \in Atoms /\ n \in HwStates /\ n.tree = s.tree /\ n.wq = s.wq /\ n.submit = s.submit
  /\ n.rb[js] = Tail(s.rb[js]) /\ \A k \in Slots : k # js => n.rb[k] = s.rb[k]
  /\ Like(n.atom[h], s.atom[h]) /\ n.atom[h].rbState = "none"
  /\ \A b \in Atoms : b # h => n.atom[b] = s.atom[b]

\* kbase_gpu_dequeue_atom takes the head of one ring and leaves the rest.
LEMMA DequeueIs ==
  ASSUME NEW s \in HwStates, NEW js \in Slots, s.rb[js] # <<>>
  PROVE  Dequeues(s, Dequeue(s, js), js)
<1>. DEFINE h == s.rb[js][1]
           n == Dequeue(s, js)
<1>1. s.rb[js] \in Seq(Atoms) /\ s.rb \in [Slots -> Seq(Atoms)] /\ s.atom \in [Atoms -> AtomRecords]
  BY HwIs
<1>2. h \in Atoms /\ h = Head(s.rb[js]) /\ Tail(s.rb[js]) \in Seq(Atoms)
  BY <1>1, TailIs
<1>3. PICK q : q = [s.atom[h] EXCEPT !.rbState = "none"]
  OBVIOUS
<1>4. q \in AtomRecords /\ Like(q, s.atom[h]) /\ q.rbState = "none"
  <2>1. s.atom[h] \in AtomRecords
    BY <1>2, AtomIs
  <2>. QED
    BY <2>1, <1>3 DEF AtomRecords, Fixed, Like
<1>5. PICK t : t = [s.atom EXCEPT ![h] = q]
  OBVIOUS
<1>6. PICK r : r = [s.rb EXCEPT ![js] = Tail(s.rb[js])]
  OBVIOUS
<1>7. t \in [Atoms -> AtomRecords] /\ r \in [Slots -> Seq(Atoms)]
  BY <1>1, <1>2, <1>4, <1>5, <1>6
<1>8. n = [s EXCEPT !.rb = r, !.atom = t]
  BY <1>1, <1>2, <1>3, <1>5, <1>6 DEF Dequeue
<1>. HIDE DEF h, n
<1>9. n \in HwStates /\ n.atom = t /\ n.tree = s.tree /\ n.rb = r /\ n.wq = s.wq /\ n.submit = s.submit
  BY <1>7, <1>8 DEF HwStates
<1>. QED
  BY <1>1, <1>2, <1>4, <1>5, <1>6, <1>9 DEF Dequeues, h, n

Unpulls(s, n, a) ==
  /\ n \in HwStates /\ n.tree = s.tree \cup {a} /\ n.rb = s.rb /\ n.submit = s.submit
  /\ n.wq = Append(s.wq, [job |-> "return", id |-> a])
  /\ Like(n.atom[a], s.atom[a]) /\ n.atom[a].rbState = s.atom[a].rbState
  /\ \A b \in Atoms : b # a => n.atom[b] = s.atom[b]

\* jsctx_rb_unpull puts one atom back in the tree and leaves the rest.
LEMMA UnpullIs ==
  ASSUME NEW s \in HwStates, NEW a \in Atoms
  PROVE  Unpulls(s, Unpull(s, a), a)
<1>. DEFINE n == Unpull(s, a)
<1>1. s.tree \subseteq Atoms /\ s.wq \in Seq(Items) /\ s.atom \in [Atoms -> AtomRecords]
  BY HwIs
<1>2. Append(s.wq, [job |-> "return", id |-> a]) \in Seq(Items)
  BY <1>1, AppendIs DEF Items
<1>3. PICK q : q = [s.atom[a] EXCEPT !.blocked = TRUE]
  OBVIOUS
<1>4. q \in AtomRecords /\ Like(q, s.atom[a]) /\ q.rbState = s.atom[a].rbState
  <2>1. s.atom[a] \in AtomRecords
    BY AtomIs
  <2>. QED
    BY <2>1, <1>3 DEF AtomRecords, Fixed, Like
<1>5. PICK t : t = [s.atom EXCEPT ![a] = q]
  OBVIOUS
<1>6. t \in [Atoms -> AtomRecords]
  BY <1>1, <1>4, <1>5
<1>7. PICK w : w = Append(s.wq, [job |-> "return", id |-> a])
  OBVIOUS
<1>8. n = [s EXCEPT !.tree = s.tree \cup {a}, !.atom = t, !.wq = w]
  BY <1>1, <1>3, <1>5, <1>7 DEF Unpull
<1>. HIDE DEF n
<1>9. PICK T : T = s.tree \cup {a}
  OBVIOUS
<1>10. n \in HwStates /\ n.atom = t /\ n.tree = T /\ n.rb = s.rb /\ n.wq = w /\ n.submit = s.submit
  <2>1. n = [s EXCEPT !.tree = T, !.atom = t, !.wq = w]
    BY <1>8, <1>9
  <2>2. T \in SUBSET Atoms /\ w \in Seq(Items)
    BY <1>1, <1>2, <1>7, <1>9
  <2>. QED
    BY <2>1, <2>2, <1>6 DEF HwStates
<1>. QED
  BY <1>1, <1>4, <1>5, <1>7, <1>9, <1>10 DEF Unpulls, n

\* The states of the model that differ in one atom.
Edited(s, n, a) ==
  /\ n \in HwStates /\ n.tree = s.tree /\ n.rb = s.rb /\ n.wq = s.wq /\ n.submit = s.submit
  /\ Fixed(n.atom[a], s.atom[a]) /\ n.atom[a].dep = s.atom[a].dep
  /\ \A b \in Atoms : b # a => n.atom[b] = s.atom[b]

SetEvent(s, a, v)   == [s EXCEPT !.atom[a].event = v]
SetRbState(s, a, v) == [s EXCEPT !.atom[a].rbState = v]
SetFlags(s, a, f)   == [s EXCEPT !.atom[a].flags = f]
SetStatus(s, a, v)  == [s EXCEPT !.atom[a].status = v]

\* Setting an atom's event code changes nothing else.
LEMMA EventEdit ==
  ASSUME NEW s \in HwStates, NEW a \in Atoms, NEW v \in Events, NEW n, n = SetEvent(s, a, v)
  PROVE  /\ Edited(s, n, a) /\ n.atom[a].event = v
         /\ n.atom[a].status = s.atom[a].status /\ n.atom[a].rbState = s.atom[a].rbState
         /\ n.atom[a].wf = s.atom[a].wf /\ n.atom[a].flags = s.atom[a].flags
<1>1. PICK q : q = [s.atom[a] EXCEPT !.event = v]
  OBVIOUS
<1>2. s.atom[a] \in AtomRecords
  BY AtomIs
<1>3. n = [s EXCEPT !.atom = [s.atom EXCEPT ![a] = q]]
  BY <1>1 DEF HwStates, SetEvent
<1>4. /\ q \in AtomRecords /\ Fixed(q, s.atom[a]) /\ q.event = v
      /\ q.status = s.atom[a].status /\ q.rbState = s.atom[a].rbState /\ q.wf = s.atom[a].wf
      /\ q.dep = s.atom[a].dep /\ q.flags = s.atom[a].flags
  BY <1>1, <1>2 DEF AtomRecords, Fixed, Events, Statuses, RbStates
<1>5. PICK t : t = [s.atom EXCEPT ![a] = q]
  OBVIOUS
<1>6. t \in [Atoms -> AtomRecords] /\ t[a] = q /\ \A b \in Atoms : b # a => t[b] = s.atom[b]
  BY <1>4, <1>5, HwIs
<1>7. n = [s EXCEPT !.atom = t]
  BY <1>3, <1>5
<1>8. n \in HwStates /\ n.atom = t /\ n.tree = s.tree /\ n.rb = s.rb /\ n.wq = s.wq /\ n.submit = s.submit
  BY <1>6, <1>7 DEF HwStates
<1>. QED
  BY <1>4, <1>6, <1>8 DEF Edited

\* Setting an atom's ring state changes nothing else.
LEMMA RbStateEdit ==
  ASSUME NEW s \in HwStates, NEW a \in Atoms, NEW v \in RbStates, NEW n, n = SetRbState(s, a, v)
  PROVE  /\ Edited(s, n, a) /\ n.atom[a].rbState = v
         /\ n.atom[a].status = s.atom[a].status /\ n.atom[a].event = s.atom[a].event
         /\ n.atom[a].wf = s.atom[a].wf /\ n.atom[a].flags = s.atom[a].flags
<1>1. PICK q : q = [s.atom[a] EXCEPT !.rbState = v]
  OBVIOUS
<1>2. s.atom[a] \in AtomRecords
  BY AtomIs
<1>3. n = [s EXCEPT !.atom = [s.atom EXCEPT ![a] = q]]
  BY <1>1 DEF HwStates, SetRbState
<1>4. /\ q \in AtomRecords /\ Fixed(q, s.atom[a]) /\ q.rbState = v
      /\ q.status = s.atom[a].status /\ q.event = s.atom[a].event /\ q.wf = s.atom[a].wf
      /\ q.dep = s.atom[a].dep /\ q.flags = s.atom[a].flags
  BY <1>1, <1>2 DEF AtomRecords, Fixed, Events, Statuses, RbStates
<1>5. PICK t : t = [s.atom EXCEPT ![a] = q]
  OBVIOUS
<1>6. t \in [Atoms -> AtomRecords] /\ t[a] = q /\ \A b \in Atoms : b # a => t[b] = s.atom[b]
  BY <1>4, <1>5, HwIs
<1>7. n = [s EXCEPT !.atom = t]
  BY <1>3, <1>5
<1>8. n \in HwStates /\ n.atom = t /\ n.tree = s.tree /\ n.rb = s.rb /\ n.wq = s.wq /\ n.submit = s.submit
  BY <1>6, <1>7 DEF HwStates
<1>. QED
  BY <1>4, <1>6, <1>8 DEF Edited

\* Setting an atom's flags changes nothing else.
LEMMA FlagsEdit ==
  ASSUME NEW s \in HwStates, NEW a \in Atoms, NEW f \in SUBSET Flags, NEW n, n = SetFlags(s, a, f)
  PROVE  /\ Edited(s, n, a) /\ n.atom[a].flags = f
         /\ n.atom[a].status = s.atom[a].status /\ n.atom[a].event = s.atom[a].event
         /\ n.atom[a].wf = s.atom[a].wf /\ n.atom[a].rbState = s.atom[a].rbState
<1>1. PICK q : q = [s.atom[a] EXCEPT !.flags = f]
  OBVIOUS
<1>2. s.atom[a] \in AtomRecords
  BY AtomIs
<1>3. n = [s EXCEPT !.atom = [s.atom EXCEPT ![a] = q]]
  BY <1>1 DEF HwStates, SetFlags
<1>4. /\ q \in AtomRecords /\ Fixed(q, s.atom[a]) /\ q.flags = f
      /\ q.status = s.atom[a].status /\ q.event = s.atom[a].event /\ q.wf = s.atom[a].wf
      /\ q.dep = s.atom[a].dep /\ q.rbState = s.atom[a].rbState
  BY <1>1, <1>2 DEF AtomRecords, Fixed, Events, Statuses, RbStates
<1>5. PICK t : t = [s.atom EXCEPT ![a] = q]
  OBVIOUS
<1>6. t \in [Atoms -> AtomRecords] /\ t[a] = q /\ \A b \in Atoms : b # a => t[b] = s.atom[b]
  BY <1>4, <1>5, HwIs
<1>7. n = [s EXCEPT !.atom = t]
  BY <1>3, <1>5
<1>8. n \in HwStates /\ n.atom = t /\ n.tree = s.tree /\ n.rb = s.rb /\ n.wq = s.wq /\ n.submit = s.submit
  BY <1>6, <1>7 DEF HwStates
<1>. QED
  BY <1>4, <1>6, <1>8 DEF Edited

\* Setting an atom's status changes nothing else.
LEMMA StatusEdit ==
  ASSUME NEW s \in HwStates, NEW a \in Atoms, NEW v \in Statuses, NEW n, n = SetStatus(s, a, v)
  PROVE  /\ Edited(s, n, a) /\ n.atom[a].status = v
         /\ n.atom[a].flags = s.atom[a].flags /\ n.atom[a].event = s.atom[a].event
         /\ n.atom[a].wf = s.atom[a].wf /\ n.atom[a].rbState = s.atom[a].rbState
<1>1. PICK q : q = [s.atom[a] EXCEPT !.status = v]
  OBVIOUS
<1>2. s.atom[a] \in AtomRecords
  BY AtomIs
<1>3. n = [s EXCEPT !.atom = [s.atom EXCEPT ![a] = q]]
  BY <1>1 DEF HwStates, SetStatus
<1>4. /\ q \in AtomRecords /\ Fixed(q, s.atom[a]) /\ q.status = v
      /\ q.flags = s.atom[a].flags /\ q.event = s.atom[a].event /\ q.wf = s.atom[a].wf
      /\ q.dep = s.atom[a].dep /\ q.rbState = s.atom[a].rbState
  BY <1>1, <1>2 DEF AtomRecords, Fixed, Events, Statuses, RbStates
<1>5. PICK t : t = [s.atom EXCEPT ![a] = q]
  OBVIOUS
<1>6. t \in [Atoms -> AtomRecords] /\ t[a] = q /\ \A b \in Atoms : b # a => t[b] = s.atom[b]
  BY <1>4, <1>5, HwIs
<1>7. n = [s EXCEPT !.atom = t]
  BY <1>3, <1>5
<1>8. n \in HwStates /\ n.atom = t /\ n.tree = s.tree /\ n.rb = s.rb /\ n.wq = s.wq /\ n.submit = s.submit
  BY <1>6, <1>7 DEF HwStates
<1>. QED
  BY <1>4, <1>6, <1>8 DEF Edited

\* "No atom" is not the number of an atom.
LEMMA NotAtom == NoAtom \notin Atoms
BY DEF NoAtom, Atoms

Moves(s, n, x) ==
  /\ n \in HwStates /\ n.tree = s.tree \cup {x} /\ n.rb = s.rb /\ n.wq = s.wq /\ n.submit = s.submit
  /\ Fixed(n.atom[x], s.atom[x]) /\ n.atom[x].dep = s.atom[x].dep
  /\ n.atom[x].flags = (s.atom[x].flags \ {"in_x_dep_list"}) \cup {"in_tree"}
  /\ n.atom[x].status = s.atom[x].status /\ n.atom[x].event = s.atom[x].event
  /\ n.atom[x].wf = s.atom[x].wf /\ n.atom[x].rbState = s.atom[x].rbState
  /\ \A b \in Atoms : b # x => n.atom[b] = s.atom[b]

\* An atom nothing on its own slot waits for is moved alone.
LEMMA MoveToTreeIs ==
  ASSUME NEW s \in HwStates, NEW x \in Atoms, "x_dep_blocked" \notin s.atom[x].flags,
         s.atom[x].postDep = NoAtom
  PROVE  Moves(s, MoveToTree(s, x), x)
<1>. DEFINE n == MoveToTree(s, x)
<1>. DEFINE goes == {b \in Atoms : "x_dep_blocked" \notin s.atom[b].flags}
           Chain(u) == {x} \cap goes \subseteq u /\ \A b \in u : {s.atom[b].postDep} \cap goes \subseteq u
           moved == {b \in goes : \A u \in SUBSET Atoms : Chain(u) => b \in u}
           f == (s.atom[x].flags \ {"in_x_dep_list"}) \cup {"in_tree"}
<1>1. moved = {x}
  <2>1. Chain({x})
    BY NotAtom
  <2>2. x \in goes
    OBVIOUS
  <2>. QED
    BY <2>1, <2>2
<1>2. PICK q : q = [s.atom[x] EXCEPT !.flags = f]
  OBVIOUS
<1>3. s.atom[x] \in AtomRecords /\ f \in SUBSET Flags
  <2>1. s.atom[x] \in AtomRecords
    BY AtomIs
  <2>. QED
    BY <2>1, AtomTypes DEF Flags
<1>4. /\ q \in AtomRecords /\ Fixed(q, s.atom[x]) /\ q.flags = f
      /\ q.status = s.atom[x].status /\ q.event = s.atom[x].event /\ q.wf = s.atom[x].wf
      /\ q.dep = s.atom[x].dep /\ q.rbState = s.atom[x].rbState
  <2>. HIDE DEF f
  <2>. QED
    BY <1>2, <1>3 DEF AtomRecords, Fixed
<1>5. PICK t : t = [b \in Atoms |-> LET r == s.atom[b]
                                    IN  IF b \in moved
                                        THEN [r EXCEPT !.flags = (r.flags \ {"in_x_dep_list"}) \cup {"in_tree"}]
                                        ELSE r]
  OBVIOUS
<1>6. t \in [Atoms -> AtomRecords] /\ t[x] = q /\ \A b \in Atoms : b # x => t[b] = s.atom[b]
  <2>. HIDE DEF moved
  <2>1. t[x] = q
    BY <1>1, <1>2, <1>5
  <2>2. \A b \in Atoms : b # x => t[b] = s.atom[b]
    BY <1>1, <1>5
  <2>3. s.atom \in [Atoms -> AtomRecords]
    BY HwIs
  <2>4. t \in [Atoms -> AtomRecords]
    <3>1. DOMAIN t = Atoms /\ t = [b \in Atoms |-> t[b]]
      BY <1>5
    <3>2. \A b \in Atoms : t[b] \in AtomRecords
      BY <2>1, <2>2, <2>3, <1>4
    <3>. QED
      BY <3>1, <3>2
  <2>. QED
    BY <2>1, <2>2, <2>4
<1>7. PICK T : T = s.tree \cup moved
  OBVIOUS
<1>8. n = [s EXCEPT !.tree = T, !.atom = t]
  BY <1>5, <1>7 DEF MoveToTree
<1>. HIDE DEF n
<1>9. T \in SUBSET Atoms /\ T = s.tree \cup {x}
  <2>1. s.tree \subseteq Atoms
    BY HwIs
  <2>. HIDE DEF moved
  <2>. QED
    BY <2>1, <1>1, <1>7
<1>10. n \in HwStates /\ n.atom = t /\ n.tree = T /\ n.rb = s.rb /\ n.wq = s.wq /\ n.submit = s.submit
  <2>. HIDE DEF moved, f
  <2>. QED
    BY <1>6, <1>8, <1>9, Zenon DEF HwStates
<1>. QED
  BY <1>4, <1>6, <1>9, <1>10 DEF Moves, n

\* The flags of an atom that no longer waits for another slot.
Woken(f) == (f \ {"x_dep_blocked", "in_x_dep_list"}) \cup {"in_tree"}

\* The atoms that a's failure marks.
Fails(s, a, b) == b = s.atom[a].postDep \/ (b = s.atom[a].xPost /\ "fail_blocker" \in s.atom[b].flags)

\* Whoever waits for a on another slot waits in the x_dep list, and alone.
WaitsAlone(s, a) ==
  s.atom[a].xPost # NoAtom =>
    /\ {"x_dep_blocked", "in_x_dep_list"} \subseteq s.atom[s.atom[a].xPost].flags
    /\ s.atom[s.atom[a].xPost].postDep = NoAtom

Evicted(s, n, a, b) ==
  /\ Fixed(n.atom[b], s.atom[b]) /\ n.atom[b].dep = s.atom[b].dep
  /\ n.atom[b].status = s.atom[b].status /\ n.atom[b].event = s.atom[b].event
  /\ n.atom[b].rbState = s.atom[b].rbState
  /\ n.atom[b].flags = IF b = s.atom[a].xPost THEN Woken(s.atom[b].flags) ELSE s.atom[b].flags
  /\ n.atom[b].wf <=> s.atom[b].wf \/ Fails(s, a, b)

\* kbase_js_evict_deps wakes the one cross-slot dependent and marks what fails.
LEMMA EvictDepsIs ==
  ASSUME NEW s \in HwStates, NEW a \in Atoms, WaitsAlone(s, a), NEW x, x = s.atom[a].xPost,
         NEW n, n = EvictDeps(s, a)
  PROVE  /\ n \in HwStates /\ n.tree = s.tree \cup {b \in Atoms : b = x} /\ n.rb = s.rb
         /\ n.wq = s.wq /\ n.submit = s.submit
         /\ \A b \in Atoms : Evicted(s, n, a, b)
<1>. DEFINE hasX == x # NoAtom /\ s.atom[x].flags \cap {"in_tree", "in_x_dep_list"} # {}
           fails == {s.atom[a].postDep} \cup (IF hasX /\ "fail_blocker" \in s.atom[x].flags THEN {x} ELSE {})
<1>1. PICK t : t = [b \in Atoms |-> LET r == s.atom[b]
                                    IN  [r EXCEPT !.wf = r.wf \/ b \in fails,
                                                  !.flags = IF hasX /\ b = x THEN r.flags \ {"x_dep_blocked"} ELSE r.flags]]
  BY Zenon
<1>2. PICK m : m = [s EXCEPT !.atom = t]
  OBVIOUS
<1>3. x \in 0..NumAtoms /\ (x # NoAtom => x \in Atoms)
  <2>1. x \in 0..NumAtoms
    BY AtomIs, AtomTypes
  <2>. QED
    BY <2>1, JobDepsAssumption DEF Atoms, NoAtom
<1>4. hasX <=> x # NoAtom
  BY DEF WaitsAlone
<1>5. \A b \in Atoms : (b \in fails <=> Fails(s, a, b)) /\ (hasX /\ b = x <=> b = x)
  BY <1>4, NotAtom DEF Fails
<1>6. ASSUME NEW b \in Atoms
      PROVE  /\ t[b] \in AtomRecords /\ Fixed(t[b], s.atom[b]) /\ t[b].dep = s.atom[b].dep
             /\ t[b].status = s.atom[b].status /\ t[b].event = s.atom[b].event
             /\ t[b].rbState = s.atom[b].rbState
             /\ t[b].flags = IF b = x THEN s.atom[b].flags \ {"x_dep_blocked"} ELSE s.atom[b].flags
             /\ t[b].wf <=> s.atom[b].wf \/ Fails(s, a, b)
  <2>1. PICK f : f = IF b = x THEN s.atom[b].flags \ {"x_dep_blocked"} ELSE s.atom[b].flags
    OBVIOUS
  <2>2. PICK w \in BOOLEAN : w <=> s.atom[b].wf \/ Fails(s, a, b)
    OBVIOUS
  <2>. DEFINE r == s.atom[b]
  <2>3. r \in AtomRecords
    BY AtomIs
  <2>4. t[b] = [r EXCEPT !.wf = w, !.flags = f]
    <3>1. t[b] = [r EXCEPT !.wf = r.wf \/ b \in fails,
                           !.flags = IF hasX /\ b = x THEN r.flags \ {"x_dep_blocked"} ELSE r.flags]
      BY <1>1, Zenon
    <3>2. (r.wf \/ b \in fails) = w
      BY <2>2, <1>5
    <3>3. (IF hasX /\ b = x THEN r.flags \ {"x_dep_blocked"} ELSE r.flags) = f
      BY <2>1, <1>5
    <3>. HIDE DEF r, fails, hasX
    <3>. QED
      BY <3>1, <3>2, <3>3, Zenon
  <2>5. f \in SUBSET Flags
    BY <2>1, <2>3, AtomTypes
  <2>6. /\ t[b] \in AtomRecords /\ Fixed(t[b], r) /\ t[b].dep = r.dep /\ t[b].status = r.status
        /\ t[b].event = r.event /\ t[b].rbState = r.rbState /\ t[b].flags = f /\ t[b].wf = w
    <3>. HIDE DEF r
    <3>. QED
      BY <2>3, <2>4, <2>5 DEF AtomRecords, Fixed
  <2>. QED
    BY <2>1, <2>2, <2>6
<1>7. t \in [Atoms -> AtomRecords]
  <2>1. DOMAIN t = Atoms /\ t = [b \in Atoms |-> t[b]]
    BY <1>1, Zenon
  <2>. QED
    BY <2>1, <1>6
<1>8. m \in HwStates /\ m.atom = t /\ m.tree = s.tree /\ m.rb = s.rb /\ m.wq = s.wq /\ m.submit = s.submit
  BY <1>2, <1>7 DEF HwStates
<1>9. n = IF hasX /\ "in_x_dep_list" \in s.atom[x].flags THEN MoveToTree(m, x) ELSE m
  BY <1>1, <1>2, Zenon DEF EvictDeps
<1>. HIDE DEF hasX, fails
<1>10. CASE x = NoAtom
  <2>1. n = m /\ \A b \in Atoms : b # x
    BY <1>10, <1>4, <1>9, NotAtom
  <2>2. ASSUME NEW b \in Atoms PROVE Evicted(s, n, a, b)
    <3>1. n.atom[b] = t[b] /\ b # s.atom[a].xPost
      BY <2>1, <1>8
    <3>2. Fixed(n.atom[b], s.atom[b]) /\ n.atom[b].status = s.atom[b].status
      BY <3>1, <1>6, Zenon
    <3>3. n.atom[b].flags = s.atom[b].flags
      BY <3>1, <1>6, Zenon
    <3>4. n.atom[b].wf <=> s.atom[b].wf \/ Fails(s, a, b)
      BY <3>1, <1>6
    <3>5. n.atom[b].dep = s.atom[b].dep /\ n.atom[b].event = s.atom[b].event /\ n.atom[b].rbState = s.atom[b].rbState
      BY <3>1, <1>6, Zenon
    <3>. QED
      BY <3>1, <3>2, <3>3, <3>4, <3>5 DEF Evicted
  <2>. QED
    BY <2>1, <2>2, <1>8
<1>11. CASE x # NoAtom
  <2>1. n = MoveToTree(m, x) /\ x \in Atoms
    BY <1>11, <1>3, <1>4, <1>9 DEF WaitsAlone
  <2>2. "x_dep_blocked" \notin m.atom[x].flags /\ m.atom[x].postDep = NoAtom
    BY <2>1, <1>6, <1>8, <1>11 DEF WaitsAlone, Fixed
  <2>3. Moves(m, n, x)
    BY <2>1, <2>2, <1>8, MoveToTreeIs
  <2>4. n.tree = s.tree \cup {b \in Atoms : b = x}
    BY <2>1, <2>3, <1>8, Zenon DEF Moves
  <2>5. n.atom[x].flags = Woken(s.atom[x].flags)
    BY <2>1, <2>3, <1>6, <1>8, Zenon DEF Woken, Moves
  <2>6. ASSUME NEW b \in Atoms, b # x PROVE Evicted(s, n, a, b)
    <3>1. n.atom[b] = t[b] /\ b # s.atom[a].xPost
      BY <2>3, <2>6, <1>8, Zenon DEF Moves
    <3>2. Fixed(n.atom[b], s.atom[b]) /\ n.atom[b].status = s.atom[b].status
      BY <3>1, <1>6
    <3>3. n.atom[b].flags = s.atom[b].flags
      BY <3>1, <1>6
    <3>4. n.atom[b].wf <=> s.atom[b].wf \/ Fails(s, a, b)
      BY <3>1, <1>6
    <3>5. n.atom[b].dep = s.atom[b].dep /\ n.atom[b].event = s.atom[b].event /\ n.atom[b].rbState = s.atom[b].rbState
      BY <3>1, <1>6
    <3>. QED
      BY <3>1, <3>2, <3>3, <3>4, <3>5 DEF Evicted
  <2>7. Evicted(s, n, a, x)
    BY <2>1, <2>3, <2>5, <1>6, <1>8, Zenon DEF Moves, Evicted, Fixed
  <2>8. n \in HwStates /\ n.rb = s.rb /\ n.wq = s.wq /\ n.submit = s.submit
    BY <2>3, <1>8 DEF Moves
  <2>. QED
    BY <2>4, <2>6, <2>7, <2>8
<1>. QED
  BY <1>10, <1>11

CompleteEvent(s, a) == IF s.atom[a].wf THEN "fail" ELSE s.atom[a].event

Completed(s, n, a, b) ==
  /\ Fixed(n.atom[b], s.atom[b]) /\ n.atom[b].dep = s.atom[b].dep
  /\ n.atom[b].rbState = s.atom[b].rbState
  /\ n.atom[b].status = IF b = a THEN "hw_completed" ELSE s.atom[b].status
  /\ n.atom[b].event = IF b = a THEN CompleteEvent(s, a) ELSE s.atom[b].event
  /\ n.atom[b].flags = IF b = s.atom[a].xPost THEN Woken(s.atom[b].flags) ELSE s.atom[b].flags
  /\ n.atom[b].wf <=> s.atom[b].wf \/ (CompleteEvent(s, a) # "done" /\ Fails(s, a, b))

Completes(s, n, a) ==
  /\ n \in HwStates /\ n.tree = s.tree \cup {b \in Atoms : b = s.atom[a].xPost} /\ n.rb = s.rb
  /\ n.submit = s.submit /\ n.wq = Append(s.wq, [job |-> "done", id |-> a])
  /\ \A b \in Atoms : Completed(s, n, a, b)

\* kbase_js_complete_atom ends its atom and does to the others what
\* kbase_js_evict_deps does.
LEMMA CompleteAtomIs ==
  ASSUME NEW s \in HwStates, NEW a \in Atoms, WaitsAlone(s, a)
  PROVE  Completes(s, CompleteAtom(s, a), a)
<1>. DEFINE e == IF s.atom[a].wf THEN "fail" ELSE s.atom[a].event
           x == s.atom[a].xPost
           hw == [s EXCEPT !.atom[a].event = e, !.atom[a].status = "hw_completed"]
           ev == IF e = "done" THEN hw ELSE EvictDeps(hw, a)
           sent == [ev EXCEPT !.workCount = @ + 1, !.wq = Append(@, [job |-> "done", id |-> a])]
           n == CompleteAtom(s, a)
<1>1. x = s.atom[a].xPost
  OBVIOUS
<1>2. e = CompleteEvent(s, a)
  BY DEF CompleteEvent
<1>3. n = CompleteAtom(s, a)
  OBVIOUS
<1>16. n = IF /\ x # NoAtom
              /\ e = "done" \/ "fail_blocker" \notin sent.atom[x].flags
              /\ "x_dep_blocked" \in sent.atom[x].flags
           THEN MoveToTree([sent EXCEPT !.atom[x].flags = @ \ {"x_dep_blocked"}], x)
           ELSE sent
  BY DEF CompleteAtom
<1>15. sent = [ev EXCEPT !.workCount = @ + 1, !.wq = Append(@, [job |-> "done", id |-> a])]
  OBVIOUS
<1>. HIDE DEF n, sent
<1>12. ev = IF e = "done" THEN hw ELSE EvictDeps(hw, a)
  OBVIOUS
<1>. HIDE DEF ev
<1>11. hw = [s EXCEPT !.atom[a].event = e, !.atom[a].status = "hw_completed"]
  OBVIOUS
<1>. HIDE DEF hw, e, x
<1>4. PICK q : q = [s.atom[a] EXCEPT !.event = e, !.status = "hw_completed"]
  OBVIOUS
<1>5. s.atom[a] \in AtomRecords /\ e \in Events
  BY <1>2, AtomIs, AtomTypes DEF CompleteEvent, Events
<1>6. /\ q \in AtomRecords /\ Fixed(q, s.atom[a]) /\ q.event = e /\ q.status = "hw_completed"
      /\ q.rbState = s.atom[a].rbState /\ q.wf = s.atom[a].wf /\ q.dep = s.atom[a].dep /\ q.flags = s.atom[a].flags
  BY <1>4, <1>5 DEF AtomRecords, Fixed, Events
<1>7. PICK t : t = [s.atom EXCEPT ![a] = q]
  OBVIOUS
<1>8. t \in [Atoms -> AtomRecords] /\ t[a] = q /\ \A b \in Atoms : b # a => t[b] = s.atom[b]
  BY <1>6, <1>7, HwIs
<1>9. hw = [s EXCEPT !.atom = t]
  BY <1>4, <1>7, <1>11 DEF HwStates
<1>10. hw \in HwStates /\ hw.atom = t /\ hw.tree = s.tree /\ hw.rb = s.rb /\ hw.wq = s.wq /\ hw.submit = s.submit
  BY <1>8, <1>9 DEF HwStates
<1>13. PICK w : w = Append(s.wq, [job |-> "done", id |-> a])
  OBVIOUS
<1>14. w \in Seq(Items)
  BY <1>13, HwIs, AppendIs DEF Items
<1>18a. ASSUME ev \in HwStates, ev.wq = s.wq
        PROVE  /\ sent \in HwStates /\ sent.atom = ev.atom /\ sent.tree = ev.tree /\ sent.rb = ev.rb
               /\ sent.wq = w /\ sent.submit = ev.submit
  <2>1. PICK c \in Int : c = ev.workCount + 1
    BY <1>18a, HwIs
  <2>2. sent = [ev EXCEPT !.workCount = c, !.wq = w]
    BY <2>1, <1>13, <1>15, <1>18a
  <2>. QED
    BY <2>2, <1>14, <1>18a DEF HwStates
<1>17. x \in Atoms \cup {NoAtom}
  <2>1. x \in 0..NumAtoms
    BY <1>1, <1>5, AtomTypes
  <2>. QED
    BY <2>1, JobDepsAssumption DEF Atoms, NoAtom
<1>18. WaitsAlone(hw, a) /\ hw.atom[a].xPost = x /\ \A b \in Atoms : Fails(hw, a, b) <=> Fails(s, a, b)
  <2>1. \A b \in Atoms : Fixed(hw.atom[b], s.atom[b]) /\ hw.atom[b].flags = s.atom[b].flags
    BY <1>6, <1>8, <1>10 DEF Fixed
  <2>2. hw.atom[a].xPost = x /\ hw.atom[a].postDep = s.atom[a].postDep
    BY <2>1, <1>1 DEF Fixed
  <2>3. WaitsAlone(hw, a)
    BY <2>1, <2>2, <1>1, <1>17 DEF WaitsAlone, Fixed
  <2>. QED
    BY <2>1, <2>2, <2>3, <1>1 DEF Fails
<1>19. CASE e = "done"
  <2>1. ev = hw
    BY <1>12, <1>19
  <2>2. /\ sent \in HwStates /\ sent.atom = t /\ sent.tree = s.tree /\ sent.rb = s.rb /\ sent.wq = w
        /\ sent.submit = s.submit
    BY <2>1, <1>10, <1>18a
  <2>3. CASE x = NoAtom
    <3>1. n = sent
      BY <2>3, <1>16
    <3>2. ASSUME NEW b \in Atoms PROVE Completed(s, n, a, b)
      <4>1. n.atom[b] = t[b] /\ b # s.atom[a].xPost /\ CompleteEvent(s, a) = "done"
        BY <3>1, <2>2, <2>3, <1>1, <1>2, <1>19, NotAtom
      <4>. QED
        BY <4>1, <1>2, <1>6, <1>8 DEF Completed, Fixed
    <3>3. n.tree = s.tree \cup {b \in Atoms : b = s.atom[a].xPost}
      BY <3>1, <2>2, <2>3, <1>1, NotAtom
    <3>. QED
      BY <3>1, <3>2, <3>3, <2>2, <1>3, <1>13 DEF Completes
  <2>4. CASE x # NoAtom
    <3>1. x \in Atoms
      BY <2>4, <1>17
    <3>2. t[x].flags = s.atom[x].flags /\ Fixed(t[x], s.atom[x]) /\ t[x].dep = s.atom[x].dep /\ t[x].wf = s.atom[x].wf
          /\ t[x].rbState = s.atom[x].rbState
      BY <3>1, <1>6, <1>8 DEF Fixed
    <3>3. "x_dep_blocked" \in t[x].flags /\ s.atom[x].postDep = NoAtom
      BY <3>2, <2>4, <1>1 DEF WaitsAlone
    <3>4. PICK m : m = [sent EXCEPT !.atom[x].flags = @ \ {"x_dep_blocked"}]
      OBVIOUS
    <3>5. PICK f : f = t[x].flags \ {"x_dep_blocked"}
      OBVIOUS
    <3>6. m = SetFlags(sent, x, f)
      BY <3>4, <3>5, <2>2 DEF SetFlags
    <3>7. f \in SUBSET Flags
      BY <3>1, <3>5, <1>8, AtomTypes
    <3>8. /\ Edited(sent, m, x) /\ m.atom[x].flags = f
          /\ m.atom[x].status = t[x].status /\ m.atom[x].event = t[x].event
          /\ m.atom[x].wf = t[x].wf /\ m.atom[x].rbState = t[x].rbState
      BY <3>1, <3>6, <3>7, <2>2, FlagsEdit
    <3>9. n = MoveToTree(m, x)
      BY <3>3, <3>4, <2>2, <2>4, <1>16, <1>19
    <3>10. "x_dep_blocked" \notin m.atom[x].flags /\ m.atom[x].postDep = NoAtom /\ m \in HwStates
      BY <3>2, <3>3, <3>5, <3>8, <2>2 DEF Edited, Fixed
    <3>11. Moves(m, n, x)
      BY <3>1, <3>9, <3>10, MoveToTreeIs, Zenon
    <3>12. /\ n \in HwStates /\ n.tree = s.tree \cup {b \in Atoms : b = s.atom[a].xPost} /\ n.rb = s.rb
           /\ n.submit = s.submit /\ n.wq = w
      BY <3>1, <3>8, <3>11, <2>2, <1>1, Zenon DEF Moves, Edited
    <3>13. \A b \in Atoms : b # x => n.atom[b] = t[b]
      BY <3>8, <3>11, <2>2 DEF Moves, Edited
    <3>14. /\ n.atom[x].flags = Woken(s.atom[x].flags)
           /\ n.atom[x].status = t[x].status /\ n.atom[x].event = t[x].event
           /\ n.atom[x].wf = s.atom[x].wf /\ n.atom[x].rbState = s.atom[x].rbState
           /\ Fixed(n.atom[x], s.atom[x]) /\ n.atom[x].dep = s.atom[x].dep
      BY <3>2, <3>5, <3>8, <3>11, <2>2 DEF Moves, Edited, Fixed, Woken
    <3>15. ASSUME NEW b \in Atoms, b # x PROVE Completed(s, n, a, b)
      <4>1. n.atom[b] = t[b] /\ b # s.atom[a].xPost /\ CompleteEvent(s, a) = "done"
        BY <3>13, <3>15, <1>1, <1>2, <1>19
      <4>. QED
        BY <4>1, <1>2, <1>6, <1>8 DEF Completed, Fixed
    <3>16. /\ t[x].status = IF x = a THEN "hw_completed" ELSE s.atom[x].status
           /\ t[x].event = IF x = a THEN e ELSE s.atom[x].event
      BY <3>1, <1>6, <1>8
    <3>17. Completed(s, n, a, x)
      BY <3>14, <3>16, <1>1, <1>2, <1>19 DEF Completed
    <3>. QED
      BY <3>12, <3>15, <3>17, <1>3, <1>13 DEF Completes
  <2>. QED
    BY <2>3, <2>4
<1>20. CASE e # "done"
  <2>1. ev = EvictDeps(hw, a)
    BY <1>12, <1>20
  <2>2. /\ ev \in HwStates /\ ev.tree = s.tree \cup {b \in Atoms : b = x} /\ ev.rb = s.rb
        /\ ev.wq = s.wq /\ ev.submit = s.submit
        /\ \A b \in Atoms : Evicted(hw, ev, a, b)
    BY <2>1, <1>10, <1>18, EvictDepsIs
  <2>3. /\ sent \in HwStates /\ sent.atom = ev.atom /\ sent.tree = ev.tree /\ sent.rb = s.rb /\ sent.wq = w
        /\ sent.submit = s.submit
    BY <2>2, <1>18a
  <2>4. n = sent
    <3>1. x # NoAtom => "x_dep_blocked" \notin ev.atom[x].flags
      <4>1. x # NoAtom => ev.atom[x].flags = Woken(hw.atom[x].flags)
        BY <2>2, <1>17, <1>18 DEF Evicted
      <4>. QED
        BY <4>1 DEF Woken
    <3>. QED
      BY <3>1, <2>3, <1>16
  <2>5. ASSUME NEW b \in Atoms PROVE Completed(s, n, a, b)
    <3>1. n.atom[b] = ev.atom[b] /\ Evicted(hw, ev, a, b) /\ hw.atom[b] = t[b]
      BY <2>2, <2>3, <2>4, <1>10
    <3>2. /\ Fixed(n.atom[b], t[b]) /\ n.atom[b].dep = t[b].dep /\ n.atom[b].status = t[b].status
          /\ n.atom[b].event = t[b].event /\ n.atom[b].rbState = t[b].rbState
          /\ n.atom[b].flags = IF b = x THEN Woken(t[b].flags) ELSE t[b].flags
          /\ n.atom[b].wf <=> t[b].wf \/ Fails(s, a, b)
      BY <3>1, <1>18 DEF Evicted
    <3>3. /\ Fixed(t[b], s.atom[b]) /\ t[b].dep = s.atom[b].dep /\ t[b].rbState = s.atom[b].rbState
          /\ t[b].flags = s.atom[b].flags /\ t[b].wf = s.atom[b].wf
          /\ t[b].status = IF b = a THEN "hw_completed" ELSE s.atom[b].status
          /\ t[b].event = IF b = a THEN e ELSE s.atom[b].event
      BY <1>6, <1>8 DEF Fixed
    <3>4. Fixed(n.atom[b], s.atom[b])
      BY <3>2, <3>3 DEF Fixed
    <3>. QED
      BY <3>2, <3>3, <3>4, <1>1, <1>2, <1>20 DEF Completed
  <2>. QED
    BY <2>2, <2>3, <2>4, <2>5, <1>1, <1>3, <1>13 DEF Completes
<1>. QED
  BY <1>19, <1>20

-----------------------------------------------------------------------------
(* The inductive invariant, first the part under hwaccess_lock.  An atom    *)
(* the scheduler has is in one place: the runnable tree, the x_dep list, a  *)
(* ring buffer or job_done_wq; or in `limbo', while a handler has taken it  *)
(* out of its ring and not yet put it anywhere.                             *)

InX(s, a) == "in_x_dep_list" \in s.atom[a].flags
InRb(s, a) == s.atom[a].rbState # "none"
Blocked(s, a) == "x_dep_blocked" \in s.atom[a].flags
Known(s, a) == "in_tree" \in s.atom[a].flags
Ended(s, a) == s.atom[a].status \in {"hw_completed", "completed"}
Pending(s, a) == \E n \in DOMAIN s.wq : s.wq[n].job # "return" /\ s.wq[n].id = a

\* An atom the scheduler may give to a slot.
Fed(s, a) ==
  s.atom[a].status = "in_js" /\ Known(s, a) /\ ~InX(s, a) /\ ~Blocked(s, a) /\ ~Pending(s, a)

InTree(s, limbo) == \A a \in s.tree : Fed(s, a) /\ ~InRb(s, a) /\ a \notin limbo

InLimbo(s, limbo) == limbo \subseteq Atoms /\ \A a \in limbo : Fed(s, a) /\ ~InRb(s, a)

InRing(s) ==
  \A a \in Atoms : InRb(s, a) =>
    Fed(s, a) /\ \E i \in DOMAIN s.rb[s.atom[a].kind] : s.rb[s.atom[a].kind][i] = a

InList(s) ==
  \A a \in Atoms : InX(s, a) =>
    /\ s.atom[a].status = "in_js" /\ s.atom[a].kind \in Slots
    /\ ~Known(s, a) /\ ~InRb(s, a) /\ ~Pending(s, a) /\ Blocked(s, a)

InWork(s) ==
  /\ \A n \in DOMAIN s.wq :
       /\ s.wq[n].job = "done" => s.atom[s.wq[n].id].status = "hw_completed"
       /\ s.wq[n].job = "cancel" => s.atom[s.wq[n].id].status = "in_js"
  /\ \A m, n \in DOMAIN s.wq :
       s.wq[m].job # "return" /\ s.wq[n].job # "return" /\ s.wq[m].id = s.wq[n].id => m = n

Somewhere(s, limbo) ==
  \A a \in Atoms : s.atom[a].status = "in_js" =>
    a \in s.tree \/ a \in limbo \/ InX(s, a) \/ InRb(s, a) \/ Pending(s, a)

\* The ring of a slot holds its own atoms, each once.
Ringed(s) ==
  \A js \in Slots :
    /\ Len(s.rb[js]) <= 2
    /\ \A i \in DOMAIN s.rb[js] : s.atom[s.rb[js][i]].kind = js /\ InRb(s, s.rb[js][i])
    /\ \A i, j \in DOMAIN s.rb[js] : s.rb[js][i] = s.rb[js][j] => i = j

\* preDep and postDep, xPre and xPost are each other's inverse; an atom that
\* has been unblocked follows one that has ended.
Seen(s, a) ==
  /\ ~Known(s, a) => s.atom[a].postDep = NoAtom /\ s.atom[a].xPost = NoAtom
  /\ Known(s, a) => /\ s.atom[a].kind \in Slots /\ ~Blocked(s, a)
                    /\ s.atom[a].status \in {"in_js", "hw_completed", "completed"}

PreLinked(s, a) ==
  LET b == s.atom[a].preDep
  IN  b # NoAtom => b < a /\ s.atom[b].kind = s.atom[a].kind /\ s.atom[b].postDep = a

XLinked(s, a) ==
  LET b == s.atom[a].xPre
  IN  b # NoAtom => /\ b < a /\ s.atom[b].kind # s.atom[a].kind /\ s.atom[b].xPost = a
                    /\ Blocked(s, a) \/ Ended(s, b)

PostLinked(s, a) ==
  /\ s.atom[a].postDep # NoAtom => s.atom[s.atom[a].postDep].preDep = a
  /\ s.atom[a].xPost # NoAtom => s.atom[s.atom[a].xPost].xPre = a

Linked(s) == \A a \in Atoms : Seen(s, a) /\ PreLinked(s, a) /\ XLinked(s, a) /\ PostLinked(s, a)

\* Atoms the scheduler has not seen.
Unseen(s) ==
  \A a \in Atoms : s.atom[a].status \in {"unused", "queued"} =>
    /\ s.atom[a].flags \subseteq {"waiting"} /\ ~InRb(s, a)
    /\ s.atom[a].preDep = NoAtom /\ s.atom[a].xPre = NoAtom

\* An atom in a ring is right behind the one it depends on, or that has ended.
Follower(s, limbo, js, i) ==
  LET b == s.atom[s.rb[js][i]].preDep
  IN  b # NoAtom => Ended(s, b) \/ (i = 2 /\ s.rb[js][1] = b) \/ (i = 1 /\ b \in limbo)

Behind(s, limbo) == \A js \in Slots : \A i \in DOMAIN s.rb[js] : Follower(s, limbo, js, i)

\* A mark reaches an atom before the hardware does, and holds up what is behind.
Pair(p, q) ==
  /\ q.rbState = "submitted" => p.rbState = "submitted"
  /\ p.wf => q.rbState \in {"waiting", "return"}
  /\ p.rbState # "return"
Rings(s) ==
  /\ \A a \in Atoms : s.atom[a].rbState \in {"ready", "submitted"} => ~s.atom[a].wf
  /\ \A js \in Slots : Len(s.rb[js]) = 2 => Pair(s.atom[s.rb[js][1]], s.atom[s.rb[js][2]])

HwInv(s, limbo) ==
  /\ InTree(s, limbo) /\ InLimbo(s, limbo) /\ InRing(s) /\ InList(s) /\ InWork(s)
  /\ Somewhere(s, limbo) /\ Ringed(s) /\ Linked(s) /\ Unseen(s) /\ Behind(s, limbo) /\ Rings(s)

\* Whoever waits for the other slot is in the x_dep list, unless killed.
Clear(s) == \A a \in Atoms : Blocked(s, a) => InX(s, a)

\* On a slot no atom ends before the one it depends on, unless killed.
InTurn(s) == \A a \in Atoms : Ended(s, a) /\ s.atom[a].preDep # NoAtom => Ended(s, s.atom[a].preDep)

Good(s, limbo) == s \in HwStates /\ HwInv(s, limbo) /\ Clear(s) /\ InTurn(s)

\* What the holders of hwaccess_lock may do to an atom.
AtomStep(s, n, a) ==
  /\ Fixed(n.atom[a], s.atom[a]) /\ n.atom[a].dep = s.atom[a].dep
  /\ \/ n.atom[a].status = s.atom[a].status
     \/ s.atom[a].status = "in_js" /\ n.atom[a].status = "hw_completed" /\ (n.atom[a].wf => n.atom[a].event # "done")
  /\ s.atom[a].status # "in_js" => n.atom[a].event = s.atom[a].event /\ (n.atom[a].wf <=> s.atom[a].wf)
  /\ s.atom[a].wf => n.atom[a].wf
  /\ \A f \in {"waiting", "fail_blocker"} : f \in n.atom[a].flags <=> f \in s.atom[a].flags
  /\ Blocked(s, a) /\ ~Blocked(n, a) =>
       /\ s.atom[a].xPre # NoAtom /\ Ended(n, s.atom[a].xPre)
       /\ n.atom[s.atom[a].xPre].event = "done" \/ "fail_blocker" \notin s.atom[a].flags \/ n.atom[a].wf

HwStep(s, n) ==
  /\ \A a \in Atoms : AtomStep(s, n, a)
  /\ \A i \in DOMAIN n.wq : n.wq[i].job = "cancel" => \E j \in DOMAIN s.wq : s.wq[j] = n.wq[i]

-----------------------------------------------------------------------------
(* Steps that leave everything but the places of the atoms alone.           *)

\* All atoms as the links see them.
Alike(s, n) ==
  \A a \in Atoms : /\ Fixed(n.atom[a], s.atom[a]) /\ n.atom[a].dep = s.atom[a].dep
                   /\ n.atom[a].status = s.atom[a].status /\ n.atom[a].wf = s.atom[a].wf
                   /\ n.atom[a].flags = s.atom[a].flags
                   /\ s.atom[a].status # "in_js" => n.atom[a].event = s.atom[a].event

\* A link leads to an atom or nowhere.
LEMMA LinkTypes ==
  ASSUME NEW s \in HwStates, NEW a \in Atoms
  PROVE  /\ s.atom[a].preDep \in Atoms \cup {NoAtom} /\ s.atom[a].postDep \in Atoms \cup {NoAtom}
         /\ s.atom[a].xPre \in Atoms \cup {NoAtom} /\ s.atom[a].xPost \in Atoms \cup {NoAtom}
<1>1. s.atom[a] \in AtomRecords
  BY AtomIs
<1>2. \A b \in 0..NumAtoms : b \in Atoms \cup {NoAtom}
  BY JobDepsAssumption DEF Atoms, NoAtom
<1>. QED
  BY <1>1, <1>2, AtomTypes

\* Atoms that differ in ring state alone have the same links.
LEMMA AlikeLinked ==
  ASSUME NEW s \in HwStates, NEW n, Alike(s, n), Linked(s)
  PROVE  Linked(n)
<1>1. ASSUME NEW a \in Atoms PROVE Seen(n, a) /\ PreLinked(n, a) /\ XLinked(n, a) /\ PostLinked(n, a)
  <2>1. \A b \in Atoms : Fixed(n.atom[b], s.atom[b]) /\ n.atom[b].status = s.atom[b].status /\ n.atom[b].flags = s.atom[b].flags
    BY DEF Alike
  <2>2. Seen(n, a)
    BY <2>1 DEF Linked, Seen, Known, Blocked, Fixed
  <2>3. PreLinked(n, a)
    BY <2>1, LinkTypes DEF Linked, PreLinked, Fixed
  <2>4. XLinked(n, a)
    BY <2>1, LinkTypes DEF Linked, XLinked, Blocked, Ended, Fixed
  <2>5. PostLinked(n, a)
    BY <2>1, LinkTypes DEF Linked, PostLinked, Fixed
  <2>. QED
    BY <2>2, <2>3, <2>4, <2>5
<1>. QED
  BY <1>1 DEF Linked

\* A change of ring states and work is a step the dispatcher does not see.
LEMMA AlikeStep ==
  ASSUME NEW s \in HwStates, NEW n, Alike(s, n),
         \A i \in DOMAIN n.wq : n.wq[i].job = "cancel" => \E j \in DOMAIN s.wq : s.wq[j] = n.wq[i]
  PROVE  HwStep(s, n)
<1>1. ASSUME NEW a \in Atoms PROVE AtomStep(s, n, a)
  <2>1. /\ Fixed(n.atom[a], s.atom[a]) /\ n.atom[a].dep = s.atom[a].dep
        /\ n.atom[a].status = s.atom[a].status /\ n.atom[a].wf = s.atom[a].wf
        /\ n.atom[a].flags = s.atom[a].flags
        /\ s.atom[a].status # "in_js" => n.atom[a].event = s.atom[a].event
    BY DEF Alike
  <2>. QED
    BY <2>1 DEF AtomStep, Blocked
<1>. QED
  BY <1>1 DEF HwStep

\* What is pending once an item is queued.
LEMMA PendingAppend ==
  ASSUME NEW s \in HwStates, NEW item \in Items, NEW n, n.wq = Append(s.wq, item)
  PROVE  /\ \A a : Pending(n, a) <=> Pending(s, a) \/ (item.job # "return" /\ item.id = a)
         /\ DOMAIN s.wq = 1..Len(s.wq) /\ DOMAIN n.wq = 1..(Len(s.wq) + 1) /\ Len(s.wq) \in Nat
         /\ \A i \in DOMAIN s.wq : n.wq[i] = s.wq[i]
         /\ n.wq[Len(s.wq) + 1] = item
<1>1. /\ DOMAIN s.wq = 1..Len(s.wq) /\ DOMAIN n.wq = 1..(Len(s.wq) + 1) /\ Len(s.wq) \in Nat
      /\ \A i \in DOMAIN s.wq : n.wq[i] = s.wq[i]
      /\ n.wq[Len(s.wq) + 1] = item
  BY HwIs, AppendIs
<1>2. DOMAIN n.wq = DOMAIN s.wq \cup {Len(s.wq) + 1}
  BY <1>1
<1>. QED
  BY <1>1, <1>2 DEF Pending

\* Where an atom is depends only on its status, its flags and its work.
LEMMA FedAlike ==
  ASSUME NEW s, NEW n, Alike(s, n), NEW a \in Atoms, Pending(n, a) <=> Pending(s, a)
  PROVE  /\ Fed(n, a) <=> Fed(s, a)
         /\ InX(n, a) <=> InX(s, a)
         /\ Blocked(n, a) <=> Blocked(s, a)
         /\ Known(n, a) <=> Known(s, a)
         /\ Ended(n, a) <=> Ended(s, a)
         /\ n.atom[a].kind = s.atom[a].kind /\ n.atom[a].status = s.atom[a].status
         /\ n.atom[a].wf = s.atom[a].wf /\ n.atom[a].preDep = s.atom[a].preDep
         /\ n.atom[a].xPre = s.atom[a].xPre /\ n.atom[a].flags = s.atom[a].flags
BY DEF Alike, Fixed, Fed, InX, Blocked, Known, Ended

\* States whose atoms are pairwise alike are alike.
LEMMA LikeAlike ==
  ASSUME NEW s, NEW n, \A b \in Atoms : Like(n.atom[b], s.atom[b])
  PROVE  Alike(s, n)
BY DEF Like, Alike

\* A record is like itself.
LEMMA LikeSelf == \A r : Like(r, r)
BY DEF Like, Fixed

\* What the work queue names are atoms.
LEMMA WorkIs ==
  ASSUME NEW s \in HwStates
  PROVE  \A i \in DOMAIN s.wq : s.wq[i] \in Items /\ s.wq[i].id \in Atoms
<1>1. \A i \in DOMAIN s.wq : s.wq[i] \in Items
  BY HwIs, SeqIs
<1>. QED
  BY <1>1 DEF Items

\* What is left of a ring of one or two when its head is taken.
LEMMA RingTail ==
  ASSUME NEW q \in Seq(Atoms), Len(q) \in 1..2
  PROVE  /\ Len(q) = 1 => DOMAIN Tail(q) = {} /\ Len(Tail(q)) = 0
         /\ Len(q) = 2 => DOMAIN Tail(q) = {1} /\ Len(Tail(q)) = 1 /\ Tail(q)[1] = q[2] /\ 2 \in DOMAIN q
<1>1. q # <<>>
  <2>1. Len(q) # 0
    OBVIOUS
  <2>. QED
    BY <2>1, EmptySeq
<1>2. /\ Len(Tail(q)) = Len(q) - 1 /\ DOMAIN Tail(q) = 1..(Len(q) - 1) /\ DOMAIN q = 1..Len(q)
      /\ \A i \in 1..(Len(q) - 1) : Tail(q)[i] = q[i + 1]
  BY <1>1, TailIs
<1>3. CASE Len(q) = 1
  BY <1>2, <1>3
<1>4. CASE Len(q) = 2
  <2>1. 1 \in 1..(2 - 1) /\ 1..(2 - 1) = {1}
    OBVIOUS
  <2>. QED
    BY <2>1, <1>2, <1>4
<1>. QED
  BY <1>3, <1>4

\* The positions of a slot ring.
LEMMA RingIs ==
  ASSUME NEW s \in HwStates, NEW limbo, HwInv(s, limbo), NEW js \in Slots
  PROVE  /\ s.rb[js] \in Seq(Atoms) /\ Len(s.rb[js]) \in 0..2 /\ DOMAIN s.rb[js] = 1..Len(s.rb[js])
         /\ s.rb[js] = <<>> <=> Len(s.rb[js]) = 0
         /\ \A i \in DOMAIN s.rb[js] : /\ s.rb[js][i] \in Atoms /\ s.atom[s.rb[js][i]].kind = js
                                       /\ InRb(s, s.rb[js][i]) /\ Fed(s, s.rb[js][i])
                                       /\ s.rb[js][i] \notin s.tree /\ s.rb[js][i] \notin limbo
                                       /\ i \in 1..2 /\ s.atom[s.rb[js][i]].status = "in_js"
         /\ Len(s.rb[js]) = 2 => s.rb[js][1] # s.rb[js][2]
<1>1. s.rb[js] \in Seq(Atoms)
  BY HwIs
<1>2. /\ DOMAIN s.rb[js] = 1..Len(s.rb[js]) /\ Len(s.rb[js]) \in Nat /\ \A i \in DOMAIN s.rb[js] : s.rb[js][i] \in Atoms
      /\ s.rb[js] = <<>> <=> Len(s.rb[js]) = 0
  BY <1>1, SeqIs
<1>3. Ringed(s) /\ InRing(s) /\ InTree(s, limbo) /\ InLimbo(s, limbo)
  BY DEF HwInv
<1>4. Len(s.rb[js]) \in 0..2 /\ \A i \in DOMAIN s.rb[js] : i \in 1..2
  <2>1. Len(s.rb[js]) <= 2
    BY <1>3 DEF Ringed
  <2>2. PICK m : m = Len(s.rb[js])
    OBVIOUS
  <2>3. m \in Nat /\ m <= 2 /\ DOMAIN s.rb[js] = 1..m
    BY <2>1, <2>2, <1>2
  <2>4. m \in 0..2 /\ \A i \in 1..m : i \in 1..2
    BY <2>3
  <2>. QED
    BY <2>2, <2>3, <2>4
<1>5. ASSUME NEW i \in DOMAIN s.rb[js]
      PROVE  /\ s.rb[js][i] \in Atoms /\ s.atom[s.rb[js][i]].kind = js
             /\ InRb(s, s.rb[js][i]) /\ Fed(s, s.rb[js][i])
             /\ s.rb[js][i] \notin s.tree /\ s.rb[js][i] \notin limbo
  BY <1>2, <1>3 DEF Ringed, InRing, InTree, InLimbo
<1>6. Len(s.rb[js]) = 2 => s.rb[js][1] # s.rb[js][2]
  <2>1. Len(s.rb[js]) = 2 => 1 \in DOMAIN s.rb[js] /\ 2 \in DOMAIN s.rb[js]
    BY <1>2
  <2>. QED
    BY <2>1, <1>3 DEF Ringed
<1>. QED
  BY <1>1, <1>2, <1>4, <1>5, <1>6 DEF Fed

-----------------------------------------------------------------------------
(* Taking an atom out of its ring, and putting it back into the tree.       *)

\* Taking the head of a ring keeps the invariant, with the head in limbo.
LEMMA DequeueGood ==
  ASSUME NEW s, NEW limbo, Good(s, limbo), NEW js \in Slots, s.rb[js] # <<>>,
         NEW n, Dequeues(s, n, js)
  PROVE  Good(n, limbo \cup {s.rb[js][1]}) /\ HwStep(s, n)
<1>. DEFINE h == s.rb[js][1]
           more == limbo \cup {h}
<1>1. s \in HwStates /\ HwInv(s, limbo) /\ Clear(s)
  BY DEF Good
<1>2. /\ h \in Atoms /\ n \in HwStates /\ n.tree = s.tree /\ n.wq = s.wq
      /\ n.rb[js] = Tail(s.rb[js]) /\ \A k \in Slots : k # js => n.rb[k] = s.rb[k]
      /\ Like(n.atom[h], s.atom[h]) /\ n.atom[h].rbState = "none"
      /\ \A b \in Atoms : b # h => n.atom[b] = s.atom[b]
  BY DEF Dequeues
<1>3. \A b \in Atoms : Like(n.atom[b], s.atom[b]) /\ (b # h => n.atom[b] = s.atom[b])
  BY <1>2, LikeSelf
<1>4. Alike(s, n)
  BY <1>3, LikeAlike
<1>5. \A b \in Atoms : Pending(n, b) <=> Pending(s, b)
  BY <1>2 DEF Pending
<1>6. ASSUME NEW b \in Atoms
      PROVE  /\ Fed(n, b) <=> Fed(s, b)
             /\ InX(n, b) <=> InX(s, b)
             /\ Blocked(n, b) <=> Blocked(s, b)
             /\ Known(n, b) <=> Known(s, b)
             /\ Ended(n, b) <=> Ended(s, b)
             /\ n.atom[b].kind = s.atom[b].kind /\ n.atom[b].status = s.atom[b].status
             /\ n.atom[b].wf = s.atom[b].wf /\ n.atom[b].preDep = s.atom[b].preDep
             /\ n.atom[b].xPre = s.atom[b].xPre /\ n.atom[b].flags = s.atom[b].flags
             /\ InRb(n, b) <=> InRb(s, b) /\ b # h
  BY <1>2, <1>4, <1>5, FedAlike DEF InRb
<1>7. /\ s.atom[h].kind = js /\ InRb(s, h) /\ Fed(s, h) /\ h \notin s.tree /\ h \notin limbo
      /\ s.rb[js] \in Seq(Atoms) /\ Len(s.rb[js]) \in 1..2 /\ DOMAIN s.rb[js] = 1..Len(s.rb[js])
  <2>1. Len(s.rb[js]) \in 1..2 /\ 1 \in DOMAIN s.rb[js]
    BY <1>1, RingIs
  <2>. QED
    BY <2>1, <1>1, RingIs
<1>8. /\ Len(s.rb[js]) = 1 => DOMAIN n.rb[js] = {} /\ Len(n.rb[js]) = 0
      /\ Len(s.rb[js]) = 2 => /\ DOMAIN n.rb[js] = {1} /\ Len(n.rb[js]) = 1 /\ n.rb[js][1] = s.rb[js][2]
                              /\ 2 \in DOMAIN s.rb[js]
  BY <1>2, <1>7, RingTail
<1>9. Len(s.rb[js]) = 2 => s.rb[js][2] # h /\ s.rb[js][2] \in Atoms /\ s.atom[s.rb[js][2]].kind = js /\ InRb(s, s.rb[js][2])
  <2>1. Len(s.rb[js]) = 2 => 2 \in DOMAIN s.rb[js]
    BY <1>7
  <2>. QED
    BY <2>1, <1>1, <1>7, RingIs
<1>10. ASSUME NEW k \in Slots, k # js, NEW i \in DOMAIN s.rb[k]
       PROVE  s.rb[k][i] # h /\ s.rb[k][i] \in Atoms /\ s.atom[s.rb[k][i]].kind = k /\ InRb(s, s.rb[k][i])
  BY <1>1, <1>7, <1>10, RingIs
<1>. HIDE DEF h
<1>11. InTree(n, more)
  <2>1. InTree(s, limbo) /\ s.tree \subseteq Atoms
    BY <1>1, HwIs DEF HwInv
  <2>. QED
    BY <2>1, <1>2, <1>6, <1>7 DEF InTree
<1>12. InLimbo(n, more)
  <2>1. InLimbo(s, limbo)
    BY <1>1 DEF HwInv
  <2>. QED
    BY <2>1, <1>2, <1>6, <1>7 DEF InLimbo
<1>13. InRing(n)
  <2>1. InRing(s)
    BY <1>1 DEF HwInv
  <2>2. ASSUME NEW a \in Atoms, InRb(n, a)
        PROVE  Fed(n, a) /\ \E i \in DOMAIN n.rb[n.atom[a].kind] : n.rb[n.atom[a].kind][i] = a
    <3>1. InRb(s, a) /\ a # h
      BY <2>2, <1>6
    <3>2. Fed(s, a) /\ \E i \in DOMAIN s.rb[s.atom[a].kind] : s.rb[s.atom[a].kind][i] = a
      BY <2>1, <3>1 DEF InRing
    <3>3. CASE s.atom[a].kind = js
      <4>1. PICK i \in DOMAIN s.rb[js] : s.rb[js][i] = a
        BY <3>2, <3>3
      <4>2. i # 1
        BY <3>1, <4>1 DEF h
      <4>3. i = 2 /\ Len(s.rb[js]) = 2
        BY <4>1, <4>2, <1>7
      <4>4. 1 \in DOMAIN n.rb[js] /\ n.rb[js][1] = a
        BY <4>1, <4>3, <1>8
      <4>. QED
        BY <3>2, <3>3, <4>4, <1>6
    <3>4. CASE s.atom[a].kind # js
      <4>1. s.atom[a].kind \in Slots
        <5>1. Linked(s)
          BY <1>1 DEF HwInv
        <5>. QED
          BY <5>1, <3>2 DEF Linked, Seen, Fed
      <4>. QED
        BY <3>2, <3>4, <4>1, <1>2, <1>6
    <3>. QED
      BY <3>3, <3>4
  <2>. QED
    BY <2>2 DEF InRing
<1>14. InList(n)
  <2>1. InList(s)
    BY <1>1 DEF HwInv
  <2>. QED
    BY <2>1, <1>5, <1>6 DEF InList
<1>15. InWork(n)
  <2>1. InWork(s) /\ \A i \in DOMAIN s.wq : s.wq[i].id \in Atoms
    BY <1>1, WorkIs DEF HwInv
  <2>. QED
    BY <2>1, <1>2, <1>6 DEF InWork
<1>16. Somewhere(n, more)
  <2>1. Somewhere(s, limbo)
    BY <1>1 DEF HwInv
  <2>. QED
    BY <2>1, <1>2, <1>5, <1>6 DEF Somewhere
<1>17. Ringed(n)
  <2>1. Ringed(s)
    BY <1>1 DEF HwInv
  <2>2. /\ Len(n.rb[js]) <= 2
        /\ \A i \in DOMAIN n.rb[js] : n.atom[n.rb[js][i]].kind = js /\ InRb(n, n.rb[js][i])
        /\ \A i, j \in DOMAIN n.rb[js] : n.rb[js][i] = n.rb[js][j] => i = j
    <3>1. CASE Len(s.rb[js]) = 1
      BY <3>1, <1>8
    <3>2. CASE Len(s.rb[js]) = 2
      <4>1. DOMAIN n.rb[js] = {1} /\ Len(n.rb[js]) = 1 /\ n.rb[js][1] = s.rb[js][2]
        BY <3>2, <1>8
      <4>2. n.atom[s.rb[js][2]].kind = js /\ InRb(n, s.rb[js][2])
        BY <3>2, <1>6, <1>9
      <4>. QED
        BY <4>1, <4>2
    <3>. QED
      BY <3>1, <3>2, <1>7
  <2>3. ASSUME NEW k \in Slots, k # js
        PROVE  /\ Len(n.rb[k]) <= 2
               /\ \A i \in DOMAIN n.rb[k] : n.atom[n.rb[k][i]].kind = k /\ InRb(n, n.rb[k][i])
               /\ \A i, j \in DOMAIN n.rb[k] : n.rb[k][i] = n.rb[k][j] => i = j
    <3>1. n.rb[k] = s.rb[k]
      BY <2>3, <1>2
    <3>2. \A i \in DOMAIN s.rb[k] : n.atom[s.rb[k][i]].kind = k /\ InRb(n, s.rb[k][i])
      BY <2>3, <1>6, <1>10
    <3>. QED
      BY <3>1, <3>2, <2>1 DEF Ringed
  <2>. QED
    BY <2>2, <2>3 DEF Ringed
<1>18. Linked(n)
  BY <1>1, <1>4, AlikeLinked DEF HwInv
<1>19. Unseen(n)
  <2>1. Unseen(s)
    BY <1>1 DEF HwInv
  <2>. QED
    BY <2>1, <1>6 DEF Unseen
<1>20. Behind(n, more)
  <2>1. Behind(s, limbo)
    BY <1>1 DEF HwInv
  <2>2. ASSUME NEW k \in Slots, NEW i \in DOMAIN n.rb[k] PROVE Follower(n, more, k, i)
    <3>1. CASE k = js
      <4>1. i = 1 /\ 2 \in DOMAIN s.rb[js] /\ n.rb[js][i] = s.rb[js][2] /\ s.rb[js][2] \in Atoms
        BY <2>2, <3>1, <1>7, <1>8, <1>9
      <4>2. n.atom[n.rb[k][i]].preDep = s.atom[s.rb[js][2]].preDep
        BY <4>1, <3>1, <1>6
      <4>3. Follower(s, limbo, js, 2)
        BY <4>1, <2>1 DEF Behind
      <4>. QED
        BY <4>1, <4>2, <4>3, <1>1, <1>6, LinkTypes DEF Follower, h
    <3>2. CASE k # js
      <4>1. n.rb[k] = s.rb[k] /\ s.rb[k][i] \in Atoms
        BY <2>2, <3>2, <1>2, <1>10
      <4>2. n.atom[n.rb[k][i]].preDep = s.atom[s.rb[k][i]].preDep
        BY <4>1, <1>6
      <4>3. Follower(s, limbo, k, i)
        BY <4>1, <2>1, <2>2 DEF Behind
      <4>. QED
        BY <4>1, <4>2, <4>3, <1>1, <1>6, LinkTypes DEF Follower
    <3>. QED
      BY <3>1, <3>2
  <2>. QED
    BY <2>2 DEF Behind
<1>21. Rings(n)
  <2>1. Rings(s)
    BY <1>1 DEF HwInv
  <2>2. \A a \in Atoms : n.atom[a].rbState \in {"ready", "submitted"} => ~n.atom[a].wf
    BY <2>1, <1>2, <1>6 DEF Rings
  <2>3. ASSUME NEW k \in Slots, Len(n.rb[k]) = 2 PROVE Pair(n.atom[n.rb[k][1]], n.atom[n.rb[k][2]])
    <3>1. k # js
      BY <2>3, <1>7, <1>8
    <3>2. n.rb[k] = s.rb[k]
      BY <3>1, <1>2
    <3>3. 1 \in DOMAIN s.rb[k] /\ 2 \in DOMAIN s.rb[k]
      BY <2>3, <3>2, <1>1, RingIs
    <3>4. n.atom[s.rb[k][1]] = s.atom[s.rb[k][1]] /\ n.atom[s.rb[k][2]] = s.atom[s.rb[k][2]]
      BY <3>1, <3>3, <1>2, <1>10
    <3>. QED
      BY <3>2, <3>4, <2>1, <2>3 DEF Rings
  <2>. QED
    BY <2>2, <2>3 DEF Rings
<1>22. Clear(n)
  BY <1>1, <1>6 DEF Clear
<1>23. HwStep(s, n)
  BY <1>1, <1>2, <1>4, AlikeStep
<1>24. InTurn(n)
  <2>1. InTurn(s)
    BY DEF Good
  <2>. QED
    BY <2>1, <1>1, <1>6, LinkTypes DEF InTurn
<1>. QED
  BY <1>2, <1>11, <1>12, <1>13, <1>14, <1>15, <1>16, <1>17, <1>18, <1>19, <1>20, <1>21, <1>22, <1>23, <1>24 DEF Good, HwInv, h

\* Atoms move from limbo into the tree, and perhaps a return is queued.
LEMMA AlikeGood ==
  ASSUME NEW s, NEW limbo, Good(s, limbo), NEW n \in HwStates, Alike(s, n), n.rb = s.rb,
         \A a \in Atoms : InRb(n, a) <=> InRb(s, a),
         NEW moved \in SUBSET limbo, n.tree = s.tree \cup moved,
         n.wq = s.wq \/ \E a \in Atoms : n.wq = Append(s.wq, [job |-> "return", id |-> a]),
         \A js \in Slots : s.rb[js] # <<>> => s.atom[s.rb[js][1]].preDep \notin moved,
         Rings(n)
  PROVE  Good(n, limbo \ moved) /\ HwStep(s, n)
<1>. DEFINE less == limbo \ moved
<1>1. s \in HwStates /\ HwInv(s, limbo) /\ Clear(s) /\ InTurn(s)
  BY DEF Good
<1>2. /\ \A b \in Atoms : Pending(n, b) <=> Pending(s, b)
      /\ DOMAIN s.wq \subseteq DOMAIN n.wq
      /\ \A i \in DOMAIN s.wq : n.wq[i] = s.wq[i]
      /\ \A i \in DOMAIN n.wq : i \in DOMAIN s.wq \/ n.wq[i].job = "return"
  <2>1. CASE n.wq = s.wq
    BY <2>1 DEF Pending
  <2>2. CASE \E a \in Atoms : n.wq = Append(s.wq, [job |-> "return", id |-> a])
    <3>1. PICK a \in Atoms : n.wq = Append(s.wq, [job |-> "return", id |-> a])
      BY <2>2
    <3>2. PICK item \in Items : item = [job |-> "return", id |-> a]
      BY DEF Items
    <3>3. n.wq = Append(s.wq, item) /\ item.job = "return"
      BY <3>1, <3>2
    <3>4. /\ \A b : Pending(n, b) <=> Pending(s, b) \/ (item.job # "return" /\ item.id = b)
          /\ DOMAIN s.wq = 1..Len(s.wq) /\ DOMAIN n.wq = 1..(Len(s.wq) + 1) /\ Len(s.wq) \in Nat
          /\ \A i \in DOMAIN s.wq : n.wq[i] = s.wq[i]
          /\ n.wq[Len(s.wq) + 1] = item
      BY <3>3, <1>1, PendingAppend
    <3>5. \A i \in DOMAIN n.wq : i \in DOMAIN s.wq \/ i = Len(s.wq) + 1
      BY <3>4
    <3>6. DOMAIN s.wq \subseteq DOMAIN n.wq
      BY <3>4
    <3>. QED
      BY <3>3, <3>4, <3>5, <3>6
  <2>. QED
    BY <2>1, <2>2
<1>3. ASSUME NEW b \in Atoms
      PROVE  /\ Fed(n, b) <=> Fed(s, b)
             /\ InX(n, b) <=> InX(s, b)
             /\ Blocked(n, b) <=> Blocked(s, b)
             /\ Known(n, b) <=> Known(s, b)
             /\ Ended(n, b) <=> Ended(s, b)
             /\ n.atom[b].kind = s.atom[b].kind /\ n.atom[b].status = s.atom[b].status
             /\ n.atom[b].wf = s.atom[b].wf /\ n.atom[b].preDep = s.atom[b].preDep
             /\ n.atom[b].xPre = s.atom[b].xPre /\ n.atom[b].flags = s.atom[b].flags
             /\ InRb(n, b) <=> InRb(s, b)
  BY <1>2, FedAlike
<1>4. s.tree \subseteq Atoms /\ limbo \subseteq Atoms
  BY <1>1, HwIs DEF HwInv, InLimbo
<1>11. InTree(n, less)
  <2>1. InTree(s, limbo) /\ InLimbo(s, limbo)
    BY <1>1 DEF HwInv
  <2>. QED
    BY <2>1, <1>3, <1>4 DEF InTree, InLimbo
<1>12. InLimbo(n, less)
  <2>1. InLimbo(s, limbo)
    BY <1>1 DEF HwInv
  <2>. QED
    BY <2>1, <1>3, <1>4 DEF InLimbo
<1>13. InRing(n)
  <2>1. InRing(s)
    BY <1>1 DEF HwInv
  <2>. QED
    BY <2>1, <1>3 DEF InRing
<1>14. InList(n)
  <2>1. InList(s)
    BY <1>1, Zenon DEF HwInv
  <2>. QED
    BY <2>1, <1>2, <1>3 DEF InList
<1>15. InWork(n)
  <2>1. InWork(s) /\ \A i \in DOMAIN s.wq : s.wq[i].id \in Atoms
    BY <1>1, WorkIs DEF HwInv
  <2>2. ASSUME NEW i \in DOMAIN n.wq
        PROVE  /\ n.wq[i].job = "done" => n.atom[n.wq[i].id].status = "hw_completed"
               /\ n.wq[i].job = "cancel" => n.atom[n.wq[i].id].status = "in_js"
    BY <2>1, <1>2, <1>3 DEF InWork
  <2>3. \A i, j \in DOMAIN n.wq :
          n.wq[i].job # "return" /\ n.wq[j].job # "return" /\ n.wq[i].id = n.wq[j].id => i = j
    BY <2>1, <1>2 DEF InWork
  <2>. QED
    BY <2>2, <2>3 DEF InWork
<1>16. Somewhere(n, less)
  <2>1. Somewhere(s, limbo)
    BY <1>1 DEF HwInv
  <2>. QED
    BY <2>1, <1>2, <1>3 DEF Somewhere
<1>17. Ringed(n)
  <2>1. Ringed(s)
    BY <1>1 DEF HwInv
  <2>2. ASSUME NEW k \in Slots, NEW i \in DOMAIN n.rb[k] PROVE n.atom[n.rb[k][i]].kind = k /\ InRb(n, n.rb[k][i])
    <3>1. n.rb[k][i] \in Atoms /\ s.atom[n.rb[k][i]].kind = k /\ InRb(s, n.rb[k][i])
      BY <1>1, RingIs
    <3>. QED
      BY <3>1, <1>3
  <2>. QED
    BY <2>1, <2>2 DEF Ringed
<1>18. Linked(n)
  BY <1>1, AlikeLinked DEF HwInv
<1>19. Unseen(n)
  <2>1. Unseen(s)
    BY <1>1 DEF HwInv
  <2>. QED
    BY <2>1, <1>3 DEF Unseen
<1>20. Behind(n, less)
  <2>1. Behind(s, limbo)
    BY <1>1 DEF HwInv
  <2>2. ASSUME NEW k \in Slots, NEW i \in DOMAIN n.rb[k] PROVE Follower(n, less, k, i)
    <3>1. n.rb[k] = s.rb[k] /\ s.rb[k][i] \in Atoms /\ s.rb[k] # <<>>
      BY <1>1, RingIs
    <3>2. n.atom[n.rb[k][i]].preDep = s.atom[s.rb[k][i]].preDep
      BY <3>1, <1>3
    <3>3. Follower(s, limbo, k, i)
      BY <2>1, <2>2, <3>1 DEF Behind
    <3>4. i = 1 => s.atom[s.rb[k][i]].preDep \notin moved
      BY <3>1
    <3>. QED
      BY <3>1, <3>2, <3>3, <3>4, <1>1, <1>3, LinkTypes DEF Follower
  <2>. QED
    BY <2>2 DEF Behind
<1>22. Clear(n)
  BY <1>1, <1>3 DEF Clear
<1>23. HwStep(s, n)
  <2>1. \A i \in DOMAIN n.wq : n.wq[i].job = "cancel" => \E j \in DOMAIN s.wq : s.wq[j] = n.wq[i]
    BY <1>2
  <2>. QED
    BY <2>1, <1>1, AlikeStep
<1>24. InTurn(n)
  BY <1>1, <1>3, LinkTypes DEF InTurn
<1>. QED
  BY <1>11, <1>12, <1>13, <1>14, <1>15, <1>16, <1>17, <1>18, <1>19, <1>20, <1>22, <1>23, <1>24 DEF Good, HwInv

\* Rings stay right where neither they nor a ring state has changed.
LEMMA RingsAlike ==
  ASSUME NEW s, NEW limbo, Good(s, limbo), NEW n, Alike(s, n), n.rb = s.rb,
         \A a \in Atoms : n.atom[a].rbState = s.atom[a].rbState
  PROVE  Rings(n)
<1>1. s \in HwStates /\ HwInv(s, limbo) /\ Rings(s)
  BY DEF Good, HwInv
<1>2. \A a \in Atoms : n.atom[a].rbState = s.atom[a].rbState /\ n.atom[a].wf = s.atom[a].wf
  BY DEF Alike
<1>3. ASSUME NEW k \in Slots, Len(n.rb[k]) = 2 PROVE Pair(n.atom[n.rb[k][1]], n.atom[n.rb[k][2]])
  <2>1. s.rb[k][1] \in Atoms /\ s.rb[k][2] \in Atoms
    <3>1. 1 \in DOMAIN s.rb[k] /\ 2 \in DOMAIN s.rb[k]
      BY <1>1, <1>3, RingIs
    <3>. QED
      BY <3>1, <1>1, RingIs
  <2>2. Pair(s.atom[s.rb[k][1]], s.atom[s.rb[k][2]])
    BY <1>1, <1>3 DEF Rings
  <2>. QED
    BY <2>1, <2>2, <1>2 DEF Pair
<1>. QED
  BY <1>1, <1>2, <1>3 DEF Rings

\* Unpulling an atom in limbo keeps the invariant, unless a ring's head
\* depends on it.
LEMMA UnpullGood ==
  ASSUME NEW s, NEW limbo, Good(s, limbo), NEW a \in limbo, NEW n, Unpulls(s, n, a),
         \A js \in Slots : s.rb[js] # <<>> => s.atom[s.rb[js][1]].preDep # a
  PROVE  Good(n, limbo \ {a}) /\ HwStep(s, n)
<1>1. a \in Atoms
  BY DEF Good, HwInv, InLimbo
<1>2. /\ n \in HwStates /\ n.tree = s.tree \cup {a} /\ n.rb = s.rb
      /\ n.wq = Append(s.wq, [job |-> "return", id |-> a])
      /\ \A b \in Atoms : Like(n.atom[b], s.atom[b]) /\ n.atom[b].rbState = s.atom[b].rbState
  BY LikeSelf DEF Unpulls
<1>3. Alike(s, n)
  BY <1>2, LikeAlike
<1>4. Rings(n)
  BY <1>2, <1>3, RingsAlike
<1>5. \A b \in Atoms : InRb(n, b) <=> InRb(s, b)
  BY <1>2 DEF InRb
<1>6. {a} \in SUBSET limbo /\ \A js \in Slots : s.rb[js] # <<>> => s.atom[s.rb[js][1]].preDep \notin {a}
  OBVIOUS
<1>7. Good(n, limbo \ {a}) /\ HwStep(s, n)
  BY <1>1, <1>2, <1>3, <1>4, <1>5, <1>6, AlikeGood
<1>. QED
  BY <1>7

\* Edits of one atom the scheduler has.
LEMMA EditAlike ==
  ASSUME NEW s \in HwStates, NEW n, NEW a \in Atoms, Edited(s, n, a),
         n.atom[a].status = s.atom[a].status, n.atom[a].wf = s.atom[a].wf,
         n.atom[a].flags = s.atom[a].flags,
         s.atom[a].status # "in_js" => n.atom[a].event = s.atom[a].event
  PROVE  Alike(s, n)
<1>1. \A b \in Atoms : Fixed(s.atom[b], s.atom[b])
  BY DEF Fixed
<1>. QED
  BY <1>1 DEF Edited, Alike

\* Setting the event code of an atom in the scheduler keeps the invariant.
LEMMA EventGood ==
  ASSUME NEW s, NEW limbo, Good(s, limbo), NEW a \in Atoms, s.atom[a].status = "in_js",
         NEW v \in Events, NEW n, n = SetEvent(s, a, v)
  PROVE  /\ Good(n, limbo) /\ HwStep(s, n) /\ n.rb = s.rb /\ n.tree = s.tree
         /\ \A b \in Atoms : Fixed(n.atom[b], s.atom[b]) /\ n.atom[b].rbState = s.atom[b].rbState
<1>1. s \in HwStates
  BY DEF Good
<1>2. /\ Edited(s, n, a) /\ n.atom[a].status = s.atom[a].status /\ n.atom[a].wf = s.atom[a].wf
      /\ n.atom[a].flags = s.atom[a].flags /\ n.atom[a].rbState = s.atom[a].rbState
  BY <1>1, EventEdit
<1>3. Alike(s, n)
  BY <1>1, <1>2, EditAlike
<1>4. /\ n \in HwStates /\ n.rb = s.rb /\ n.tree = s.tree \cup {} /\ n.wq = s.wq
      /\ \A b \in Atoms : b # a => n.atom[b] = s.atom[b]
  BY <1>2 DEF Edited
<1>4a. \A b \in Atoms : n.atom[b].rbState = s.atom[b].rbState
  BY <1>2, <1>4
<1>5. Rings(n)
  BY <1>3, <1>4, <1>4a, RingsAlike
<1>6. Good(n, limbo \ {}) /\ HwStep(s, n)
  <2>1. \A b \in Atoms : InRb(n, b) <=> InRb(s, b)
    BY <1>4a DEF InRb
  <2>2. {} \in SUBSET limbo /\ \A js \in Slots : s.rb[js] # <<>> => s.atom[s.rb[js][1]].preDep \notin {}
    OBVIOUS
  <2>. QED
    BY <2>1, <2>2, <1>3, <1>4, <1>5, AlikeGood
<1>7. limbo \ {} = limbo
  OBVIOUS
<1>8. \A b \in Atoms : Fixed(n.atom[b], s.atom[b])
  BY <1>3 DEF Alike
<1>. QED
  BY <1>4, <1>4a, <1>6, <1>7, <1>8

\* Setting the ring state of an atom in a ring keeps the invariant, if the
\* rings are right after it.
LEMMA RbStateGood ==
  ASSUME NEW s, NEW limbo, Good(s, limbo), NEW a \in Atoms, InRb(s, a),
         NEW v \in RbStates \ {"none"}, NEW n, n = SetRbState(s, a, v), Rings(n)
  PROVE  Good(n, limbo) /\ HwStep(s, n) /\ Alike(s, n) /\ n.rb = s.rb /\ n.tree = s.tree
<1>1. s \in HwStates
  BY DEF Good
<1>2. /\ Edited(s, n, a) /\ n.atom[a].status = s.atom[a].status /\ n.atom[a].wf = s.atom[a].wf
      /\ n.atom[a].flags = s.atom[a].flags /\ n.atom[a].event = s.atom[a].event
      /\ n.atom[a].rbState = v
  BY <1>1, RbStateEdit
<1>3. Alike(s, n)
  BY <1>1, <1>2, EditAlike
<1>4. /\ n \in HwStates /\ n.rb = s.rb /\ n.tree = s.tree \cup {} /\ n.wq = s.wq
      /\ \A b \in Atoms : b # a => n.atom[b] = s.atom[b]
  BY <1>2 DEF Edited
<1>5. Good(n, limbo \ {}) /\ HwStep(s, n)
  <2>1. \A b \in Atoms : InRb(n, b) <=> InRb(s, b)
    BY <1>2, <1>4 DEF InRb
  <2>2. {} \in SUBSET limbo /\ \A js \in Slots : s.rb[js] # <<>> => s.atom[s.rb[js][1]].preDep \notin {}
    OBVIOUS
  <2>. QED
    BY <2>1, <2>2, <1>3, <1>4, AlikeGood
<1>6. limbo \ {} = limbo
  OBVIOUS
<1>. QED
  BY <1>3, <1>4, <1>5, <1>6

\* Allowing or forbidding submission keeps the invariant.
LEMMA SubmitGood ==
  ASSUME NEW s, NEW limbo, Good(s, limbo), NEW v \in BOOLEAN, NEW n, n = [s EXCEPT !.submit = v]
  PROVE  /\ Good(n, limbo) /\ HwStep(s, n) /\ n.rb = s.rb /\ n.tree = s.tree /\ n.atom = s.atom
         /\ n.wq = s.wq
<1>1. s \in HwStates
  BY DEF Good
<1>2. n \in HwStates /\ n.rb = s.rb /\ n.tree = s.tree /\ n.atom = s.atom /\ n.wq = s.wq
  BY <1>1 DEF HwStates
<1>3. \A b \in Atoms : Like(n.atom[b], s.atom[b])
  BY <1>2, LikeSelf
<1>4. Alike(s, n)
  BY <1>3, LikeAlike
<1>5. Rings(n)
  BY <1>2, <1>4, RingsAlike
<1>6. Good(n, limbo \ {}) /\ HwStep(s, n)
  <2>1. \A b \in Atoms : InRb(n, b) <=> InRb(s, b)
    BY <1>2 DEF InRb
  <2>2. {} \in SUBSET limbo /\ \A js \in Slots : s.rb[js] # <<>> => s.atom[s.rb[js][1]].preDep \notin {}
    OBVIOUS
  <2>3. n.tree = s.tree \cup {}
    BY <1>2
  <2>. QED
    BY <2>1, <2>2, <2>3, <1>2, <1>4, <1>5, AlikeGood
<1>7. limbo \ {} = limbo
  OBVIOUS
<1>. QED
  BY <1>2, <1>6, <1>7

-----------------------------------------------------------------------------
(* The hardware is done with an atom.                                       *)

\* An atom that waits for the other slot, seen from the one it waits for.
Waiter(s, limbo, a, x) ==
  /\ x # a /\ InX(s, x) /\ Blocked(s, x) /\ ~Known(s, x) /\ ~InRb(s, x) /\ ~Pending(s, x)
  /\ s.atom[x].status = "in_js" /\ s.atom[x].kind \in Slots /\ s.atom[x].xPre = a
  /\ s.atom[x].postDep = NoAtom /\ x \notin s.tree /\ x \notin limbo

\* Only its recorded dependent waits in the list of an atom, and rightly.
LEMMA WaiterIs ==
  ASSUME NEW s, NEW limbo, Good(s, limbo), NEW a \in Atoms, Fed(s, a)
  PROVE  /\ WaitsAlone(s, a)
         /\ \A x \in Atoms : x = s.atom[a].xPost => Waiter(s, limbo, a, x)
<1>1. /\ s \in HwStates /\ InTree(s, limbo) /\ InLimbo(s, limbo) /\ InList(s) /\ Linked(s) /\ Clear(s)
  BY DEF Good, HwInv
<1>2. s.atom[a].xPost \in Atoms \cup {NoAtom}
  BY <1>1, LinkTypes
<1>3. ASSUME NEW x \in Atoms, x = s.atom[a].xPost PROVE Waiter(s, limbo, a, x)
  <2>1. s.atom[x].xPre = a
    BY <1>1, <1>3, NotAtom DEF Linked, PostLinked
  <2>2. ~Ended(s, a)
    BY DEF Fed, Ended
  <2>3. Blocked(s, x)
    BY <2>1, <2>2, <1>1, NotAtom DEF Linked, XLinked
  <2>4. InX(s, x)
    BY <2>3, <1>1 DEF Clear
  <2>5. /\ ~Known(s, x) /\ ~InRb(s, x) /\ ~Pending(s, x) /\ s.atom[x].status = "in_js"
        /\ s.atom[x].kind \in Slots
    BY <2>4, <1>1 DEF InList
  <2>6. s.atom[x].postDep = NoAtom
    BY <2>5, <1>1 DEF Linked, Seen
  <2>7. x # a /\ x \notin s.tree /\ x \notin limbo
    BY <2>4, <1>1 DEF Fed, InTree, InLimbo
  <2>. QED
    BY <2>1, <2>3, <2>4, <2>5, <2>6, <2>7 DEF Waiter
<1>. QED
  BY <1>2, <1>3 DEF WaitsAlone, Waiter, InX, Blocked

\* kbase_js_complete_atom keeps the invariant when what its atom followed has
\* ended and no dependent that must fail is on its way to the GPU.
LEMMA CompleteGood ==
  ASSUME NEW s, NEW limbo, Good(s, limbo), NEW a \in limbo, NEW n, Completes(s, n, a),
         s.atom[a].preDep # NoAtom => Ended(s, s.atom[a].preDep),
         \A js \in Slots : js = s.atom[a].kind => Len(s.rb[js]) # 2,
         \A p \in Atoms : p = s.atom[a].postDep /\ CompleteEvent(s, a) # "done"
                             => s.atom[p].rbState \notin {"ready", "submitted"}
  PROVE  Good(n, limbo \ {a}) /\ HwStep(s, n)
<1>. DEFINE less == limbo \ {a}
           x == s.atom[a].xPost
           item == [job |-> "done", id |-> a]
<1>1. s \in HwStates /\ HwInv(s, limbo) /\ Clear(s) /\ InTurn(s)
  BY DEF Good
<1>2. a \in Atoms /\ Fed(s, a) /\ ~InRb(s, a) /\ limbo \subseteq Atoms /\ a \notin s.tree
  BY <1>1 DEF HwInv, InLimbo, InTree
<1>3. /\ n \in HwStates /\ n.tree = s.tree \cup {b \in Atoms : b = x} /\ n.rb = s.rb
      /\ n.submit = s.submit /\ n.wq = Append(s.wq, item)
      /\ \A b \in Atoms : Completed(s, n, a, b)
  BY DEF Completes
<1>4. \A b \in Atoms : b = x => Waiter(s, limbo, a, b)
  BY <1>2, WaiterIs
<1>5. /\ \A b : Pending(n, b) <=> Pending(s, b) \/ b = a
      /\ DOMAIN s.wq = 1..Len(s.wq) /\ DOMAIN n.wq = 1..(Len(s.wq) + 1) /\ Len(s.wq) \in Nat
      /\ \A i \in DOMAIN s.wq : n.wq[i] = s.wq[i]
      /\ n.wq[Len(s.wq) + 1] = item
  <2>1. item \in Items /\ item.job = "done" /\ item.id = a
    BY <1>2 DEF Items
  <2>. HIDE DEF item
  <2>. QED
    BY <2>1, <1>1, <1>3, PendingAppend
<1>6. \A i \in DOMAIN n.wq : i \in DOMAIN s.wq \/ n.wq[i] = item
  <2>1. \A i \in DOMAIN n.wq : i \in DOMAIN s.wq \/ i = Len(s.wq) + 1
    BY <1>5
  <2>. QED
    BY <2>1, <1>5
<1>. HIDE DEF x
<1>7. ASSUME NEW b \in Atoms
      PROVE  /\ Fixed(n.atom[b], s.atom[b]) /\ n.atom[b].dep = s.atom[b].dep
             /\ n.atom[b].rbState = s.atom[b].rbState
             /\ n.atom[b].status = IF b = a THEN "hw_completed" ELSE s.atom[b].status
             /\ n.atom[b].event = IF b = a THEN CompleteEvent(s, a) ELSE s.atom[b].event
             /\ n.atom[b].flags = IF b = x THEN Woken(s.atom[b].flags) ELSE s.atom[b].flags
             /\ n.atom[b].wf <=> s.atom[b].wf \/ (CompleteEvent(s, a) # "done" /\ Fails(s, a, b))
  BY <1>3 DEF Completed, x
<1>8. ASSUME NEW b \in Atoms
      PROVE  /\ n.atom[b].kind = s.atom[b].kind /\ n.atom[b].preDep = s.atom[b].preDep
             /\ n.atom[b].postDep = s.atom[b].postDep /\ n.atom[b].xPre = s.atom[b].xPre
             /\ n.atom[b].xPost = s.atom[b].xPost
             /\ InRb(n, b) <=> InRb(s, b)
             /\ Ended(n, b) <=> Ended(s, b) \/ b = a
             /\ b # a => n.atom[b].status = s.atom[b].status
  BY <1>7 DEF Fixed, InRb, Ended
<1>9. ASSUME NEW b \in Atoms, b # x
      PROVE  /\ InX(n, b) <=> InX(s, b)
             /\ Blocked(n, b) <=> Blocked(s, b)
             /\ Known(n, b) <=> Known(s, b)
             /\ n.atom[b].flags = s.atom[b].flags
             /\ b # a => (Fed(n, b) <=> Fed(s, b))
  BY <1>5, <1>7, <1>8, <1>9 DEF InX, Blocked, Known, Fed
<1>10. ASSUME NEW b \in Atoms, b = x
       PROVE  /\ ~InX(n, b) /\ ~Blocked(n, b) /\ Known(n, b) /\ Fed(n, b) /\ b # a
              /\ n.atom[b].status = "in_js"
  <2>1. Waiter(s, limbo, a, b)
    BY <1>4, <1>10
  <2>2. n.atom[b].flags = Woken(s.atom[b].flags)
    BY <1>7, <1>10
  <2>3. b # a /\ n.atom[b].status = "in_js" /\ ~Pending(n, b)
    BY <2>1, <1>5, <1>8 DEF Waiter
  <2>. QED
    BY <2>2, <2>3 DEF Woken, InX, Blocked, Known, Fed
<1>11. InTree(n, less)
  <2>1. InTree(s, limbo) /\ s.tree \subseteq Atoms
    BY <1>1, HwIs DEF HwInv
  <2>2. ASSUME NEW b \in s.tree PROVE Fed(n, b) /\ ~InRb(n, b) /\ b \notin less
    <3>1. b \in Atoms /\ Fed(s, b) /\ ~InRb(s, b) /\ b \notin limbo
      BY <2>1 DEF InTree
    <3>2. b # x /\ b # a
      BY <3>1, <1>2, <1>4 DEF Waiter, Fed
    <3>. QED
      BY <3>1, <3>2, <1>8, <1>9
  <2>3. ASSUME NEW b \in Atoms, b = x PROVE Fed(n, b) /\ ~InRb(n, b) /\ b \notin less
    BY <2>3, <1>4, <1>8, <1>10 DEF Waiter
  <2>. QED
    BY <2>2, <2>3, <1>3 DEF InTree
<1>12. InLimbo(n, less)
  <2>1. InLimbo(s, limbo)
    BY <1>1 DEF HwInv
  <2>2. ASSUME NEW b \in less PROVE Fed(n, b) /\ ~InRb(n, b)
    <3>1. b \in Atoms /\ Fed(s, b) /\ ~InRb(s, b) /\ b # a
      BY <2>1, <1>2 DEF InLimbo
    <3>2. b # x
      BY <3>1, <1>4 DEF Waiter, Fed
    <3>. QED
      BY <3>1, <3>2, <1>8, <1>9
  <2>. QED
    BY <2>2, <1>2 DEF InLimbo
<1>13. InRing(n)
  <2>1. InRing(s)
    BY <1>1 DEF HwInv
  <2>2. ASSUME NEW b \in Atoms, InRb(n, b)
        PROVE  Fed(n, b) /\ \E i \in DOMAIN n.rb[n.atom[b].kind] : n.rb[n.atom[b].kind][i] = b
    <3>1. InRb(s, b) /\ b # a
      BY <2>2, <1>2, <1>8
    <3>2. Fed(s, b) /\ \E i \in DOMAIN s.rb[s.atom[b].kind] : s.rb[s.atom[b].kind][i] = b
      BY <2>1, <3>1 DEF InRing
    <3>3. b # x
      BY <3>2, <1>4 DEF Waiter, Fed
    <3>. QED
      BY <3>1, <3>2, <3>3, <1>3, <1>8, <1>9
  <2>. QED
    BY <2>2 DEF InRing
<1>14. InList(n)
  <2>1. InList(s)
    BY <1>1 DEF HwInv
  <2>2. ASSUME NEW b \in Atoms, InX(n, b)
        PROVE  /\ n.atom[b].status = "in_js" /\ n.atom[b].kind \in Slots
               /\ ~Known(n, b) /\ ~InRb(n, b) /\ ~Pending(n, b) /\ Blocked(n, b)
    <3>1. b # x
      BY <2>2, <1>10
    <3>2. InX(s, b)
      BY <2>2, <3>1, <1>9
    <3>3. b # a
      BY <3>2, <1>2 DEF Fed
    <3>. QED
      BY <2>1, <3>1, <3>2, <3>3, <1>5, <1>8, <1>9 DEF InList
  <2>. QED
    BY <2>2 DEF InList
<1>15. InWork(n)
  <2>1. InWork(s) /\ \A i \in DOMAIN s.wq : s.wq[i].id \in Atoms
    BY <1>1, WorkIs DEF HwInv
  <2>2. \A i \in DOMAIN s.wq : s.wq[i].job # "return" => s.wq[i].id # a
    BY <1>2 DEF Fed, Pending
  <2>3. ASSUME NEW i \in DOMAIN n.wq
        PROVE  /\ n.wq[i].job = "done" => n.atom[n.wq[i].id].status = "hw_completed"
               /\ n.wq[i].job = "cancel" => n.atom[n.wq[i].id].status = "in_js"
    <3>1. CASE i \in DOMAIN s.wq
      <4>1. n.wq[i] = s.wq[i] /\ s.wq[i].id \in Atoms
        BY <3>1, <2>1, <1>5
      <4>. QED
        BY <3>1, <4>1, <2>1, <2>2, <1>7 DEF InWork
    <3>2. CASE n.wq[i] = item
      BY <3>2, <1>2, <1>7
    <3>. QED
      BY <3>1, <3>2, <1>6
  <2>4. ASSUME NEW i \in DOMAIN n.wq, NEW j \in DOMAIN n.wq,
               n.wq[i].job # "return", n.wq[j].job # "return", n.wq[i].id = n.wq[j].id
        PROVE  i = j
    <3>1. CASE i \in DOMAIN s.wq /\ j \in DOMAIN s.wq
      BY <3>1, <2>1, <2>4, <1>5 DEF InWork
    <3>2. CASE i \in DOMAIN s.wq /\ j \notin DOMAIN s.wq
      BY <3>2, <2>2, <2>4, <1>5, <1>6
    <3>3. CASE i \notin DOMAIN s.wq /\ j \in DOMAIN s.wq
      BY <3>3, <2>2, <2>4, <1>5, <1>6
    <3>4. CASE i \notin DOMAIN s.wq /\ j \notin DOMAIN s.wq
      BY <3>4, <1>5
    <3>. QED
      BY <3>1, <3>2, <3>3, <3>4
  <2>. QED
    BY <2>3, <2>4 DEF InWork
<1>16. Somewhere(n, less)
  <2>1. Somewhere(s, limbo)
    BY <1>1 DEF HwInv
  <2>2. ASSUME NEW b \in Atoms, n.atom[b].status = "in_js"
        PROVE  b \in n.tree \/ b \in less \/ InX(n, b) \/ InRb(n, b) \/ Pending(n, b)
    <3>1. CASE b = x
      BY <3>1, <1>3
    <3>2. CASE b # x
      <4>1. b # a /\ s.atom[b].status = "in_js"
        BY <2>2, <1>7
      <4>. QED
        BY <4>1, <3>2, <2>1, <1>3, <1>5, <1>8, <1>9 DEF Somewhere
    <3>. QED
      BY <3>1, <3>2
  <2>. QED
    BY <2>2 DEF Somewhere
<1>17. Ringed(n)
  <2>1. Ringed(s)
    BY <1>1 DEF HwInv
  <2>2. ASSUME NEW k \in Slots, NEW i \in DOMAIN n.rb[k] PROVE n.atom[n.rb[k][i]].kind = k /\ InRb(n, n.rb[k][i])
    <3>1. n.rb[k][i] \in Atoms /\ s.atom[n.rb[k][i]].kind = k /\ InRb(s, n.rb[k][i])
      BY <1>1, <1>3, RingIs
    <3>. QED
      BY <3>1, <1>8
  <2>. QED
    BY <2>1, <2>2, <1>3 DEF Ringed
<1>18. Linked(n)
  <2>0. Linked(s)
    BY <1>1 DEF HwInv
  <2>1. ASSUME NEW b \in Atoms PROVE Seen(n, b) /\ PreLinked(n, b) /\ XLinked(n, b) /\ PostLinked(n, b)
    <3>1. Seen(n, b)
      <4>0. Seen(s, b)
        BY <2>0 DEF Linked
      <4>1. CASE b = x
        BY <4>1, <1>4, <1>8, <1>10 DEF Seen, Waiter
      <4>2. CASE b # x
        <5>1. n.atom[b].status \in {s.atom[b].status, "hw_completed"}
          BY <1>7
        <5>. QED
          BY <4>0, <4>2, <5>1, <1>8, <1>9 DEF Seen
      <4>. QED
        BY <4>1, <4>2
    <3>2. PreLinked(n, b)
      BY <2>0, <1>1, <1>8, LinkTypes DEF Linked, PreLinked
    <3>3. XLinked(n, b)
      <4>0. XLinked(s, b) /\ s.atom[b].xPre \in Atoms \cup {NoAtom} /\ n.atom[b].xPre = s.atom[b].xPre
        BY <2>0, <1>1, <1>8, LinkTypes DEF Linked
      <4>1. CASE b = x
        BY <4>0, <4>1, <1>2, <1>4, <1>8 DEF XLinked, Waiter
      <4>2. CASE b # x
        BY <4>0, <4>2, <1>8, <1>9 DEF XLinked
      <4>. QED
        BY <4>1, <4>2
    <3>4. PostLinked(n, b)
      BY <2>0, <1>1, <1>8, LinkTypes DEF Linked, PostLinked
    <3>. QED
      BY <3>1, <3>2, <3>3, <3>4
  <2>. QED
    BY <2>1 DEF Linked
<1>19. Unseen(n)
  <2>1. Unseen(s)
    BY <1>1 DEF HwInv
  <2>2. ASSUME NEW b \in Atoms, n.atom[b].status \in {"unused", "queued"}
        PROVE  /\ n.atom[b].flags \subseteq {"waiting"} /\ ~InRb(n, b)
               /\ n.atom[b].preDep = NoAtom /\ n.atom[b].xPre = NoAtom
    <3>1. b # a /\ b # x
      BY <2>2, <1>7, <1>10
    <3>. QED
      BY <2>1, <2>2, <3>1, <1>8, <1>9 DEF Unseen
  <2>. QED
    BY <2>2 DEF Unseen
<1>20. Behind(n, less)
  <2>1. Behind(s, limbo)
    BY <1>1 DEF HwInv
  <2>2. ASSUME NEW k \in Slots, NEW i \in DOMAIN n.rb[k] PROVE Follower(n, less, k, i)
    <3>1. n.rb[k] = s.rb[k] /\ s.rb[k][i] \in Atoms
      BY <1>1, <1>3, RingIs
    <3>2. n.atom[n.rb[k][i]].preDep = s.atom[s.rb[k][i]].preDep
      BY <3>1, <1>8
    <3>3. Follower(s, limbo, k, i)
      BY <2>1, <2>2, <3>1 DEF Behind
    <3>. QED
      BY <3>1, <3>2, <3>3, <1>1, <1>8, LinkTypes DEF Follower
  <2>. QED
    BY <2>2 DEF Behind
<1>21. Rings(n)
  <2>1. Rings(s) /\ InRing(s) /\ Behind(s, limbo) /\ Linked(s)
    BY <1>1 DEF HwInv
  <2>2. ASSUME NEW b \in Atoms, Fails(s, a, b), CompleteEvent(s, a) # "done"
        PROVE  s.atom[b].rbState \notin {"ready", "submitted"}
    <3>1. CASE b = s.atom[a].postDep
      BY <2>2, <3>1
    <3>2. CASE b = x
      BY <3>2, <1>4 DEF Waiter, InRb
    <3>. QED
      BY <2>2, <3>1, <3>2 DEF Fails, x
  <2>3. \A b \in Atoms : n.atom[b].rbState \in {"ready", "submitted"} => ~n.atom[b].wf
    BY <2>1, <2>2, <1>7 DEF Rings
  <2>4. ASSUME NEW k \in Slots, Len(n.rb[k]) = 2 PROVE Pair(n.atom[n.rb[k][1]], n.atom[n.rb[k][2]])
    <3>1. k # s.atom[a].kind /\ Len(s.rb[k]) = 2
      BY <2>4, <1>3
    <3>2. 1 \in DOMAIN s.rb[k] /\ 2 \in DOMAIN s.rb[k]
      BY <3>1, <1>1, RingIs
    <3>3. PICK p \in Atoms : p = s.rb[k][1] /\ s.atom[p].kind = k /\ InRb(s, p)
      BY <3>2, <1>1, RingIs
    <3>4. PICK q \in Atoms : q = s.rb[k][2]
      BY <3>2, <1>1, RingIs
    <3>5. Pair(s.atom[p], s.atom[q])
      BY <2>1, <3>1, <3>3, <3>4 DEF Rings
    <3>6. ~Fails(s, a, p)
      <4>1. p # x
        BY <3>3, <1>4 DEF Waiter
      <4>2. p # s.atom[a].postDep
        <5>1. ASSUME p = s.atom[a].postDep PROVE FALSE
          <6>1. s.atom[p].preDep = a
            BY <5>1, <2>1, <1>2, NotAtom DEF Linked, PostLinked
          <6>2. s.atom[a].kind = s.atom[p].kind
            BY <6>1, <2>1, <1>2, NotAtom DEF Linked, PreLinked
          <6>. QED
            BY <6>2, <3>1, <3>3
        <5>. QED
          BY <5>1
      <4>. QED
        BY <4>1, <4>2 DEF Fails, x
    <3>7. n.atom[p].wf <=> s.atom[p].wf
      BY <3>6, <1>7
    <3>8. n.atom[p].rbState = s.atom[p].rbState /\ n.atom[q].rbState = s.atom[q].rbState
      BY <1>7
    <3>9. Pair(n.atom[p], n.atom[q])
      BY <3>5, <3>7, <3>8 DEF Pair
    <3>. QED
      BY <3>3, <3>4, <3>9, <1>3
  <2>. QED
    BY <2>3, <2>4 DEF Rings
<1>22. Clear(n)
  <2>1. ASSUME NEW b \in Atoms, Blocked(n, b) PROVE InX(n, b)
    <3>1. b # x
      BY <2>1, <1>10
    <3>. QED
      BY <2>1, <3>1, <1>1, <1>9 DEF Clear
  <2>. QED
    BY <2>1 DEF Clear
<1>23. InTurn(n)
  BY <1>1, <1>8, LinkTypes DEF InTurn
<1>24. HwStep(s, n)
  <2>0. Linked(s) /\ Unseen(s)
    BY <1>1 DEF HwInv
  <2>1. ASSUME NEW b \in Atoms, Fails(s, a, b) PROVE s.atom[b].status = "in_js"
    <3>1. CASE b = s.atom[a].postDep
      <4>1. s.atom[b].preDep = a
        BY <3>1, <2>0, <1>2, NotAtom DEF Linked, PostLinked
      <4>2. ~Ended(s, a)
        BY <1>2 DEF Fed, Ended
      <4>3. ~Ended(s, b)
        BY <4>1, <4>2, <1>1, <1>2, NotAtom DEF InTurn
      <4>4. s.atom[b].status \notin {"unused", "queued"}
        BY <4>1, <2>0, <1>2, NotAtom DEF Unseen
      <4>5. s.atom[b].status \in Statuses
        BY <1>1, AtomIs, AtomTypes
      <4>. QED
        BY <4>3, <4>4, <4>5 DEF Ended, Statuses
    <3>2. CASE b = x
      BY <3>2, <1>4 DEF Waiter
    <3>. QED
      BY <2>1, <3>1, <3>2 DEF Fails, x
  <2>2. ASSUME NEW b \in Atoms PROVE AtomStep(s, n, b)
    <3>1. Fixed(n.atom[b], s.atom[b]) /\ n.atom[b].dep = s.atom[b].dep
      BY <1>7
    <3>2. \/ n.atom[b].status = s.atom[b].status
          \/ /\ s.atom[b].status = "in_js" /\ n.atom[b].status = "hw_completed"
             /\ n.atom[b].wf => n.atom[b].event # "done"
      <4>1. CASE b = a
        <5>1. s.atom[b].status = "in_js" /\ n.atom[b].status = "hw_completed" /\ n.atom[b].event = CompleteEvent(s, a)
          BY <4>1, <1>2, <1>7 DEF Fed
        <5>2. s.atom[a].wf => CompleteEvent(s, a) # "done"
          BY DEF CompleteEvent
        <5>3. n.atom[b].wf => n.atom[b].event # "done"
          BY <4>1, <5>1, <5>2, <1>7
        <5>. QED
          BY <5>1, <5>3
      <4>2. CASE b # a
        BY <4>2, <1>8
      <4>. QED
        BY <4>1, <4>2
    <3>3. s.atom[b].status # "in_js" => n.atom[b].event = s.atom[b].event /\ (n.atom[b].wf <=> s.atom[b].wf)
      <4>1. s.atom[b].status # "in_js" => b # a /\ ~Fails(s, a, b)
        BY <2>1, <1>2 DEF Fed
      <4>. QED
        BY <4>1, <1>7
    <3>4. s.atom[b].wf => n.atom[b].wf
      BY <1>7
    <3>5. \A f \in {"waiting", "fail_blocker"} : f \in n.atom[b].flags <=> f \in s.atom[b].flags
      BY <1>7 DEF Woken
    <3>6. Blocked(s, b) /\ ~Blocked(n, b) =>
            /\ s.atom[b].xPre # NoAtom /\ Ended(n, s.atom[b].xPre)
            /\ n.atom[s.atom[b].xPre].event = "done" \/ "fail_blocker" \notin s.atom[b].flags \/ n.atom[b].wf
      <4>1. CASE b = x
        <5>1. s.atom[b].xPre = a
          BY <4>1, <1>4 DEF Waiter
        <5>2. Ended(n, a) /\ a # NoAtom /\ n.atom[a].event = CompleteEvent(s, a)
          BY <1>2, <1>7, <1>8, NotAtom
        <5>3. CompleteEvent(s, a) # "done" /\ "fail_blocker" \in s.atom[b].flags => n.atom[b].wf
          BY <4>1, <1>7 DEF Fails, x
        <5>. QED
          BY <5>1, <5>2, <5>3
      <4>2. CASE b # x
        BY <4>2, <1>9
      <4>. QED
        BY <4>1, <4>2
    <3>. QED
      BY <3>1, <3>2, <3>3, <3>4, <3>5, <3>6 DEF AtomStep
  <2>3. \A i \in DOMAIN n.wq : n.wq[i].job = "cancel" => \E j \in DOMAIN s.wq : s.wq[j] = n.wq[i]
    BY <1>5, <1>6
  <2>. QED
    BY <2>2, <2>3 DEF HwStep
<1>. QED
  BY <1>3, <1>11, <1>12, <1>13, <1>14, <1>15, <1>16, <1>17, <1>18, <1>19, <1>20, <1>21, <1>22, <1>23, <1>24 DEF Good, HwInv

\* Two steps the dispatcher does not see make one.
LEMMA HwStepTrans ==
  ASSUME NEW s \in HwStates, NEW m, NEW n, HwStep(s, m), HwStep(m, n)
  PROVE  HwStep(s, n)
<1>1. ASSUME NEW a \in Atoms PROVE AtomStep(s, n, a)
  <2>1. \A b \in Atoms : AtomStep(s, m, b) /\ AtomStep(m, n, b)
    BY DEF HwStep
  <2>2. Fixed(n.atom[a], s.atom[a]) /\ n.atom[a].dep = s.atom[a].dep
    BY <2>1 DEF AtomStep, Fixed
  <2>3. \/ n.atom[a].status = s.atom[a].status
        \/ s.atom[a].status = "in_js" /\ n.atom[a].status = "hw_completed" /\ (n.atom[a].wf => n.atom[a].event # "done")
    BY <2>1 DEF AtomStep
  <2>4. s.atom[a].status # "in_js" => n.atom[a].event = s.atom[a].event /\ (n.atom[a].wf <=> s.atom[a].wf)
    BY <2>1 DEF AtomStep
  <2>5. s.atom[a].wf => n.atom[a].wf
    BY <2>1 DEF AtomStep
  <2>6. \A f \in {"waiting", "fail_blocker"} : f \in n.atom[a].flags <=> f \in s.atom[a].flags
    BY <2>1 DEF AtomStep
  <2>7. ASSUME Blocked(s, a), ~Blocked(n, a)
        PROVE  /\ s.atom[a].xPre # NoAtom /\ Ended(n, s.atom[a].xPre)
               /\ n.atom[s.atom[a].xPre].event = "done" \/ "fail_blocker" \notin s.atom[a].flags \/ n.atom[a].wf
    <3>1. m.atom[a].xPre = s.atom[a].xPre /\ s.atom[a].xPre \in Atoms \cup {NoAtom}
      BY <2>1, LinkTypes DEF AtomStep, Fixed
    <3>2. CASE Blocked(m, a)
      BY <2>1, <2>7, <3>1, <3>2 DEF AtomStep
    <3>3. CASE ~Blocked(m, a)
      <4>1. PICK x \in Atoms : x = s.atom[a].xPre
        BY <2>1, <2>7, <3>1, <3>3 DEF AtomStep
      <4>2. Ended(m, x) /\ (m.atom[x].event = "done" \/ "fail_blocker" \notin s.atom[a].flags \/ m.atom[a].wf)
        BY <2>1, <2>7, <3>3, <4>1 DEF AtomStep
      <4>3. Ended(n, x) /\ n.atom[x].event = m.atom[x].event
        BY <2>1, <4>2 DEF AtomStep, Ended
      <4>4. m.atom[a].wf => n.atom[a].wf
        BY <2>1 DEF AtomStep
      <4>. QED
        BY <4>1, <4>2, <4>3, <4>4, NotAtom
    <3>. QED
      BY <3>2, <3>3
  <2>. QED
    BY <2>2, <2>3, <2>4, <2>5, <2>6, <2>7 DEF AtomStep
<1>2. \A i \in DOMAIN n.wq : n.wq[i].job = "cancel" => \E j \in DOMAIN s.wq : s.wq[j] = n.wq[i]
  BY DEF HwStep
<1>. QED
  BY <1>1, <1>2 DEF HwStep

-----------------------------------------------------------------------------
(* Filling a ring.                                                          *)

\* jsctx_rb_peek finds the oldest atom of the slot's tree.
LEMMA PeekIs ==
  ASSUME NEW s \in HwStates, NEW js \in Slots, Peek(s, js) # NoAtom
  PROVE  /\ Peek(s, js) \in s.tree /\ Peek(s, js) \in Atoms /\ s.atom[Peek(s, js)].kind = js
         /\ \A b \in s.tree : s.atom[b].kind = js => Peek(s, js) <= b
<1>. DEFINE mine == {a \in s.tree : s.atom[a].kind = js}
<1>1. mine \in SUBSET Atoms /\ s.tree \subseteq Atoms
  BY HwIs
<1>2. mine # {} /\ Peek(s, js) = ByAge(mine)[1]
  BY DEF Peek
<1>3. ByAge(mine)[1] \in mine /\ \A b \in mine : ByAge(mine)[1] <= b
  BY <1>1, <1>2, ByAgeIs
<1>. QED
  BY <1>1, <1>2, <1>3

Pulls(s, n, js, a) ==
  /\ n \in HwStates /\ n.tree = s.tree \ {a} /\ n.wq = s.wq /\ n.submit = s.submit
  /\ n.rb[js] = Append(s.rb[js], a) /\ \A k \in Slots : k # js => n.rb[k] = s.rb[k]
  /\ Like(n.atom[a], s.atom[a]) /\ n.atom[a].rbState = "waiting"
  /\ \A b \in Atoms : b # a => n.atom[b] = s.atom[b]

\* kbase_js_pull takes one atom from the tree to the end of a ring.
LEMMA PullIs ==
  ASSUME NEW s \in HwStates, NEW js \in Slots, NEW a \in Atoms, NEW n,
         n = [s EXCEPT !.tree = @ \ {a}, !.rb[js] = Append(@, a), !.atom[a].rbState = "waiting"]
  PROVE  Pulls(s, n, js, a)
<1>1. s.rb[js] \in Seq(Atoms) /\ s.rb \in [Slots -> Seq(Atoms)] /\ s.atom \in [Atoms -> AtomRecords] /\ s.tree \subseteq Atoms
  BY HwIs
<1>2. PICK q : q = [s.atom[a] EXCEPT !.rbState = "waiting"]
  OBVIOUS
<1>3. q \in AtomRecords /\ Like(q, s.atom[a]) /\ q.rbState = "waiting"
  <2>1. s.atom[a] \in AtomRecords
    BY AtomIs
  <2>. QED
    BY <2>1, <1>2 DEF AtomRecords, Fixed, Like
<1>4. PICK t : t = [s.atom EXCEPT ![a] = q]
  OBVIOUS
<1>5. PICK l \in Seq(Atoms) : l = Append(s.rb[js], a)
  BY <1>1, AppendIs
<1>6. PICK r : r = [s.rb EXCEPT ![js] = l]
  OBVIOUS
<1>7. PICK T \in SUBSET Atoms : T = s.tree \ {a}
  BY <1>1
<1>8. t \in [Atoms -> AtomRecords] /\ r \in [Slots -> Seq(Atoms)]
  BY <1>1, <1>3, <1>4, <1>6
<1>9. n = [s EXCEPT !.tree = T, !.rb = r, !.atom = t]
  BY <1>1, <1>2, <1>4, <1>5, <1>6, <1>7 DEF HwStates
<1>10. /\ n \in HwStates /\ n.atom = t /\ n.tree = T /\ n.rb = r /\ n.wq = s.wq /\ n.submit = s.submit
  BY <1>8, <1>9 DEF HwStates
<1>. QED
  BY <1>1, <1>3, <1>4, <1>5, <1>6, <1>7, <1>10, Zenon DEF Pulls

\* Pulling the oldest atom of the tree into a ring with room keeps the
\* invariant, unless the ring's head is on its way back.
LEMMA PullGood ==
  ASSUME NEW s, Good(s, {}), \A i \in DOMAIN s.wq : s.wq[i].job # "cancel",
         NEW js \in Slots, Len(s.rb[js]) < 2,
         Len(s.rb[js]) = 1 => s.atom[s.rb[js][1]].rbState # "return",
         NEW a \in Atoms, a = Peek(s, js), NEW n, Pulls(s, n, js, a)
  PROVE  Good(n, {}) /\ HwStep(s, n)
<1>1. s \in HwStates /\ HwInv(s, {}) /\ Clear(s) /\ InTurn(s)
  BY DEF Good
<1>2. /\ a \in s.tree /\ s.atom[a].kind = js /\ \A b \in s.tree : s.atom[b].kind = js => a <= b
  BY <1>1, PeekIs, NotAtom
<1>3. /\ n \in HwStates /\ n.tree = s.tree \ {a} /\ n.wq = s.wq
      /\ n.rb[js] = Append(s.rb[js], a) /\ \A k \in Slots : k # js => n.rb[k] = s.rb[k]
      /\ n.atom[a].rbState = "waiting"
      /\ \A b \in Atoms : Like(n.atom[b], s.atom[b]) /\ (b # a => n.atom[b] = s.atom[b])
  BY LikeSelf DEF Pulls
<1>4. Alike(s, n)
  BY <1>3, LikeAlike
<1>5. \A b \in Atoms : Pending(n, b) <=> Pending(s, b)
  BY <1>3 DEF Pending
<1>6. ASSUME NEW b \in Atoms
      PROVE  /\ Fed(n, b) <=> Fed(s, b)
             /\ InX(n, b) <=> InX(s, b)
             /\ Blocked(n, b) <=> Blocked(s, b)
             /\ Known(n, b) <=> Known(s, b)
             /\ Ended(n, b) <=> Ended(s, b)
             /\ n.atom[b].kind = s.atom[b].kind /\ n.atom[b].status = s.atom[b].status
             /\ n.atom[b].wf = s.atom[b].wf /\ n.atom[b].preDep = s.atom[b].preDep
             /\ n.atom[b].xPre = s.atom[b].xPre /\ n.atom[b].flags = s.atom[b].flags
             /\ InRb(n, b) <=> InRb(s, b) \/ b = a
  BY <1>3, <1>4, <1>5, FedAlike DEF InRb
<1>7. Fed(s, a) /\ ~InRb(s, a)
  BY <1>1, <1>2 DEF HwInv, InTree
<1>8. /\ s.rb[js] \in Seq(Atoms) /\ Len(s.rb[js]) \in 0..1 /\ DOMAIN s.rb[js] = 1..Len(s.rb[js])
      /\ \A i \in DOMAIN s.rb[js] : /\ i = 1 /\ s.rb[js][i] \in Atoms /\ s.atom[s.rb[js][i]].kind = js
                                    /\ InRb(s, s.rb[js][i]) /\ s.rb[js][i] # a
  <2>1. s.rb[js] \in Seq(Atoms) /\ Len(s.rb[js]) \in 0..2 /\ DOMAIN s.rb[js] = 1..Len(s.rb[js])
    BY <1>1, RingIs
  <2>0. PICK m : m = Len(s.rb[js])
    OBVIOUS
  <2>2. m \in 0..1 /\ DOMAIN s.rb[js] = 1..m
    <3>1. m \in 0..2 /\ m < 2
      BY <2>0, <2>1
    <3>. QED
      BY <3>1, <2>0, <2>1
  <2>3. \A i \in DOMAIN s.rb[js] : i = 1
    <3>1. \A i \in 1..m : i = 1
      BY <2>2
    <3>. QED
      BY <3>1, <2>2
  <2>. QED
    BY <2>0, <2>1, <2>2, <2>3, <1>1, <1>7, RingIs
<1>9. /\ Len(n.rb[js]) = Len(s.rb[js]) + 1 /\ DOMAIN n.rb[js] = 1..(Len(s.rb[js]) + 1)
      /\ n.rb[js][Len(s.rb[js]) + 1] = a /\ \A i \in 1..Len(s.rb[js]) : n.rb[js][i] = s.rb[js][i]
  BY <1>3, <1>8, AppendIs
<1>10. /\ Len(s.rb[js]) = 0 => Len(n.rb[js]) = 1 /\ DOMAIN n.rb[js] = {1} /\ n.rb[js][1] = a
       /\ Len(s.rb[js]) = 1 => /\ Len(n.rb[js]) = 2 /\ DOMAIN n.rb[js] = {1, 2} /\ n.rb[js][2] = a
                               /\ n.rb[js][1] = s.rb[js][1] /\ 1 \in DOMAIN s.rb[js]
  <2>1. CASE Len(s.rb[js]) = 0
    BY <2>1, <1>9
  <2>2. CASE Len(s.rb[js]) = 1
    <3>1. 1..2 = {1, 2} /\ 1 \in 1..1
      OBVIOUS
    <3>. QED
      BY <2>2, <3>1, <1>8, <1>9
  <2>. QED
    BY <2>1, <2>2
<1>11. ASSUME NEW k \in Slots, k # js, NEW i \in DOMAIN s.rb[k]
       PROVE  s.rb[k][i] # a /\ s.rb[k][i] \in Atoms /\ s.atom[s.rb[k][i]].kind = k /\ InRb(s, s.rb[k][i])
  BY <1>1, <1>7, <1>11, RingIs
<1>12. InTree(n, {})
  <2>1. InTree(s, {}) /\ s.tree \subseteq Atoms
    BY <1>1, HwIs DEF HwInv
  <2>. QED
    BY <2>1, <1>3, <1>6 DEF InTree
<1>13. InLimbo(n, {})
  BY DEF InLimbo
<1>14. InRing(n)
  <2>1. InRing(s) /\ Linked(s)
    BY <1>1 DEF HwInv
  <2>2. ASSUME NEW b \in Atoms, InRb(n, b)
        PROVE  Fed(n, b) /\ \E i \in DOMAIN n.rb[n.atom[b].kind] : n.rb[n.atom[b].kind][i] = b
    <3>1. CASE b = a
      <4>1. Len(s.rb[js]) \in {0, 1}
        BY <1>8
      <4>. QED
        BY <3>1, <4>1, <1>2, <1>6, <1>7, <1>10
    <3>2. CASE b # a
      <4>1. InRb(s, b)
        BY <2>2, <3>2, <1>6
      <4>2. Fed(s, b) /\ \E i \in DOMAIN s.rb[s.atom[b].kind] : s.rb[s.atom[b].kind][i] = b
        BY <2>1, <4>1 DEF InRing
      <4>3. CASE s.atom[b].kind = js
        <5>1. 1 \in DOMAIN s.rb[js] /\ s.rb[js][1] = b /\ Len(s.rb[js]) = 1
          BY <4>2, <4>3, <1>8
        <5>2. 1 \in DOMAIN n.rb[js] /\ n.rb[js][1] = b
          BY <5>1, <1>10
        <5>. QED
          BY <4>2, <4>3, <5>2, <1>6
      <4>4. CASE s.atom[b].kind # js
        <5>1. s.atom[b].kind \in Slots
          BY <4>2, <2>1 DEF Linked, Seen, Fed
        <5>. QED
          BY <4>2, <4>4, <5>1, <1>3, <1>6
      <4>. QED
        BY <4>3, <4>4
    <3>. QED
      BY <3>1, <3>2
  <2>. QED
    BY <2>2 DEF InRing
<1>15. InList(n)
  <2>1. InList(s)
    BY <1>1 DEF HwInv
  <2>2. \A b \in Atoms : InX(s, b) => b # a
    BY <1>7 DEF Fed
  <2>. QED
    BY <2>1, <2>2, <1>5, <1>6 DEF InList
<1>16. InWork(n)
  <2>1. InWork(s) /\ \A i \in DOMAIN s.wq : s.wq[i].id \in Atoms
    BY <1>1, WorkIs DEF HwInv
  <2>. QED
    BY <2>1, <1>3, <1>6 DEF InWork
<1>17. Somewhere(n, {})
  <2>1. Somewhere(s, {})
    BY <1>1 DEF HwInv
  <2>. QED
    BY <2>1, <1>3, <1>5, <1>6 DEF Somewhere
<1>18. Ringed(n)
  <2>1. Ringed(s)
    BY <1>1 DEF HwInv
  <2>2. /\ Len(n.rb[js]) <= 2
        /\ \A i \in DOMAIN n.rb[js] : n.atom[n.rb[js][i]].kind = js /\ InRb(n, n.rb[js][i])
        /\ \A i, j \in DOMAIN n.rb[js] : n.rb[js][i] = n.rb[js][j] => i = j
    <3>1. CASE Len(s.rb[js]) = 0
      <4>1. Len(n.rb[js]) = 1 /\ DOMAIN n.rb[js] = {1} /\ n.rb[js][1] = a
        BY <3>1, <1>10
      <4>2. n.atom[a].kind = js /\ InRb(n, a)
        BY <1>2, <1>6
      <4>. QED
        BY <4>1, <4>2
    <3>2. CASE Len(s.rb[js]) = 1
      <4>1. /\ Len(n.rb[js]) = 2 /\ DOMAIN n.rb[js] = {1, 2} /\ n.rb[js][2] = a /\ n.rb[js][1] = s.rb[js][1]
            /\ s.rb[js][1] \in Atoms /\ s.atom[s.rb[js][1]].kind = js /\ InRb(s, s.rb[js][1]) /\ s.rb[js][1] # a
        BY <3>2, <1>8, <1>10
      <4>2. n.atom[a].kind = js /\ InRb(n, a) /\ n.atom[s.rb[js][1]].kind = js /\ InRb(n, s.rb[js][1])
        BY <4>1, <1>2, <1>6
      <4>. QED
        BY <4>1, <4>2
    <3>. QED
      BY <3>1, <3>2, <1>8
  <2>3. ASSUME NEW k \in Slots, k # js
        PROVE  /\ Len(n.rb[k]) <= 2
               /\ \A i \in DOMAIN n.rb[k] : n.atom[n.rb[k][i]].kind = k /\ InRb(n, n.rb[k][i])
               /\ \A i, j \in DOMAIN n.rb[k] : n.rb[k][i] = n.rb[k][j] => i = j
    <3>1. n.rb[k] = s.rb[k]
      BY <2>3, <1>3
    <3>2. \A i \in DOMAIN s.rb[k] : n.atom[s.rb[k][i]].kind = k /\ InRb(n, s.rb[k][i])
      BY <2>3, <1>6, <1>11
    <3>. QED
      BY <3>1, <3>2, <2>1 DEF Ringed
  <2>. QED
    BY <2>2, <2>3 DEF Ringed
<1>19. Linked(n)
  BY <1>1, <1>4, AlikeLinked DEF HwInv
<1>20. Unseen(n)
  <2>1. Unseen(s)
    BY <1>1 DEF HwInv
  <2>. QED
    BY <2>1, <1>6, <1>7 DEF Unseen, Fed
<1>21. Behind(n, {})
  <2>1. Behind(s, {}) /\ Linked(s) /\ Somewhere(s, {}) /\ InList(s) /\ InRing(s) /\ InWork(s)
    BY <1>1 DEF HwInv
  <2>2. ASSUME NEW b \in Atoms, b = s.atom[a].preDep, ~Ended(s, b)
        PROVE  Len(s.rb[js]) = 1 /\ s.rb[js][1] = b
    <3>1. b < a /\ s.atom[b].kind = js /\ s.atom[b].postDep = a
      BY <2>1, <2>2, <1>2, NotAtom DEF Linked, PreLinked
    <3>2. Known(s, b) /\ s.atom[b].status = "in_js"
      BY <3>1, <2>1, <2>2, NotAtom DEF Linked, Seen, Ended
    <3>3. b \notin s.tree
      BY <3>1, <1>2, AtomsFinite
    <3>4. ~InX(s, b)
      BY <3>2, <2>1 DEF InList
    <3>5. ~Pending(s, b)
      <4>1. ASSUME NEW i \in DOMAIN s.wq, s.wq[i].job # "return", s.wq[i].id = b PROVE FALSE
        <5>1. s.wq[i].job \in {"done", "return", "cancel"}
          BY <1>1, WorkIs DEF Items
        <5>2. s.wq[i].job = "done"
          BY <4>1, <5>1
        <5>. QED
          BY <4>1, <5>2, <3>2, <2>1 DEF InWork
      <4>. QED
        BY <4>1 DEF Pending
    <3>6. InRb(s, b)
      BY <3>2, <3>3, <3>4, <3>5, <2>1 DEF Somewhere
    <3>7. PICK i \in DOMAIN s.rb[js] : s.rb[js][i] = b
      BY <3>1, <3>6, <2>1 DEF InRing
    <3>. QED
      BY <3>7, <1>8
  <2>3. ASSUME NEW k \in Slots, NEW i \in DOMAIN n.rb[k] PROVE Follower(n, {}, k, i)
    <3>1. CASE k = js /\ n.rb[k][i] = a
      <4>1. s.atom[a].preDep \in Atoms \cup {NoAtom} /\ n.atom[n.rb[k][i]].preDep = s.atom[a].preDep
        BY <3>1, <1>1, <1>6, LinkTypes
      <4>2. CASE s.atom[a].preDep \in Atoms /\ ~Ended(s, s.atom[a].preDep)
        <5>1. Len(s.rb[js]) = 1 /\ s.rb[js][1] = s.atom[a].preDep
          BY <4>2, <2>2
        <5>2. n.rb[js][1] = s.atom[a].preDep /\ DOMAIN n.rb[js] = {1, 2} /\ s.rb[js][1] # a
          BY <5>1, <1>8, <1>10
        <5>. QED
          BY <5>1, <5>2, <4>1, <3>1, <2>3 DEF Follower
      <4>3. CASE s.atom[a].preDep = NoAtom \/ Ended(s, s.atom[a].preDep)
        BY <4>1, <4>3, <1>6, Zenon DEF Follower
      <4>. QED
        BY <4>1, <4>2, <4>3
    <3>2. CASE k = js /\ n.rb[k][i] # a
      <4>1. Len(s.rb[js]) = 1
        BY <3>2, <2>3, <1>8, <1>10
      <4>2. i = 1 /\ n.rb[k][i] = s.rb[js][1] /\ 1 \in DOMAIN s.rb[js] /\ s.rb[js][1] \in Atoms
        BY <3>2, <4>1, <2>3, <1>8, <1>10
      <4>3. Follower(s, {}, js, 1)
        BY <4>2, <2>1 DEF Behind
      <4>4. n.atom[n.rb[k][i]].preDep = s.atom[s.rb[js][1]].preDep
        BY <4>2, <1>6
      <4>. QED
        BY <4>2, <4>3, <4>4, <1>1, <1>6, LinkTypes DEF Follower
    <3>3. CASE k # js
      <4>1. n.rb[k] = s.rb[k] /\ s.rb[k][i] \in Atoms
        BY <2>3, <3>3, <1>3, <1>11
      <4>2. n.atom[n.rb[k][i]].preDep = s.atom[s.rb[k][i]].preDep
        BY <4>1, <1>6
      <4>3. Follower(s, {}, k, i)
        BY <4>1, <2>1, <2>3 DEF Behind
      <4>. QED
        BY <4>1, <4>2, <4>3, <1>1, <1>6, LinkTypes DEF Follower
    <3>. QED
      BY <3>1, <3>2, <3>3
  <2>. QED
    BY <2>3 DEF Behind
<1>22. Rings(n)
  <2>1. Rings(s)
    BY <1>1 DEF HwInv
  <2>2. \A b \in Atoms : n.atom[b].rbState \in {"ready", "submitted"} => ~n.atom[b].wf
    BY <2>1, <1>3, <1>6 DEF Rings
  <2>3. ASSUME NEW k \in Slots, Len(n.rb[k]) = 2 PROVE Pair(n.atom[n.rb[k][1]], n.atom[n.rb[k][2]])
    <3>1. CASE k = js
      <4>1. /\ Len(s.rb[js]) = 1 /\ n.rb[js][2] = a /\ n.rb[js][1] = s.rb[js][1] /\ s.rb[js][1] \in Atoms
            /\ s.rb[js][1] # a
        BY <2>3, <3>1, <1>8, <1>10
      <4>2. n.atom[n.rb[js][1]] = s.atom[s.rb[js][1]] /\ n.atom[n.rb[js][2]].rbState = "waiting"
        BY <4>1, <1>3
      <4>. QED
        BY <3>1, <4>1, <4>2 DEF Pair
    <3>2. CASE k # js
      <4>1. n.rb[k] = s.rb[k]
        BY <3>2, <1>3
      <4>2. 1 \in DOMAIN s.rb[k] /\ 2 \in DOMAIN s.rb[k]
        BY <2>3, <4>1, <1>1, RingIs
      <4>3. n.atom[s.rb[k][1]] = s.atom[s.rb[k][1]] /\ n.atom[s.rb[k][2]] = s.atom[s.rb[k][2]]
        BY <3>2, <4>2, <1>3, <1>11
      <4>. QED
        BY <4>1, <4>3, <2>1, <2>3 DEF Rings
    <3>. QED
      BY <3>1, <3>2
  <2>. QED
    BY <2>2, <2>3 DEF Rings
<1>23. Clear(n)
  BY <1>1, <1>6 DEF Clear
<1>24. InTurn(n)
  BY <1>1, <1>6, LinkTypes DEF InTurn
<1>25. HwStep(s, n)
  <2>1. \A i \in DOMAIN n.wq : n.wq[i].job = "cancel" => \E j \in DOMAIN s.wq : s.wq[j] = n.wq[i]
    BY <1>3
  <2>. QED
    BY <2>1, <1>1, <1>4, AlikeStep
<1>. QED
  BY <1>3, <1>12, <1>13, <1>14, <1>15, <1>16, <1>17, <1>18, <1>19, <1>20, <1>21, <1>22, <1>23, <1>24, <1>25 DEF Good, HwInv

-----------------------------------------------------------------------------
(* Emptying a ring.                                                         *)

\* Only the next in its own slot's ring can depend on an atom.
LEMMA OtherSlots ==
  ASSUME NEW s, NEW limbo, Good(s, limbo), NEW h \in Atoms,
         \A k \in Slots : k = s.atom[h].kind /\ s.rb[k] # <<>> => s.atom[s.rb[k][1]].preDep # h
  PROVE  \A k \in Slots : s.rb[k] # <<>> => s.atom[s.rb[k][1]].preDep # h
<1>1. s \in HwStates /\ HwInv(s, limbo) /\ Linked(s)
  BY DEF Good, HwInv
<1>2. ASSUME NEW k \in Slots, s.rb[k] # <<>>, k # s.atom[h].kind PROVE s.atom[s.rb[k][1]].preDep # h
  <2>1. 1 \in DOMAIN s.rb[k]
    BY <1>1, <1>2, RingIs
  <2>2. PICK p \in Atoms : p = s.rb[k][1] /\ s.atom[p].kind = k
    BY <2>1, <1>1, RingIs
  <2>3. s.atom[p].preDep = h => s.atom[h].kind = s.atom[p].kind
    BY <1>1, NotAtom DEF Linked, PreLinked
  <2>. QED
    BY <2>2, <2>3, <1>2
<1>. QED
  BY <1>2

\* An atom in limbo is the scheduler's.
LEMMA FedInJs ==
  ASSUME NEW s, NEW limbo, Good(s, limbo), NEW h \in limbo
  PROVE  h \in Atoms /\ Fed(s, h) /\ s.atom[h].status = "in_js" /\ s.atom[h].kind \in Slots
BY DEF Good, HwInv, InLimbo, Fed, Linked, Seen

NotNext(s, h) ==
  \A k \in Slots : k = s.atom[h].kind /\ s.rb[k] # <<>> => s.atom[s.rb[k][1]].preDep # h

PutsBack(s, limbo, h, n) ==
  /\ Good(n, limbo \ {h}) /\ HwStep(s, n) /\ n.rb = s.rb
  /\ \A b \in Atoms : n.atom[b].rbState = s.atom[b].rbState

\* An atom in limbo whose dependent no ring's head is goes back to the tree.
LEMMA PutBackGood ==
  ASSUME NEW s, NEW limbo, Good(s, limbo), NEW h \in limbo, NotNext(s, h)
  PROVE  PutsBack(s, limbo, h, Unpull(SetEvent(s, h, "stopped"), h))
<1>0. PICK n : n = Unpull(SetEvent(s, h, "stopped"), h)
  OBVIOUS
<1>1. s \in HwStates /\ h \in Atoms /\ s.atom[h].status = "in_js" /\ s.atom[h].kind \in Slots
  BY FedInJs DEF Good
<1>2. PICK m : m = SetEvent(s, h, "stopped")
  OBVIOUS
<1>3. "stopped" \in Events
  BY DEF Events
<1>4. /\ Good(m, limbo) /\ HwStep(s, m) /\ m.rb = s.rb
      /\ \A b \in Atoms : Fixed(m.atom[b], s.atom[b]) /\ m.atom[b].rbState = s.atom[b].rbState
  BY <1>1, <1>2, <1>3, EventGood
<1>5. \A k \in Slots : s.rb[k] # <<>> => s.rb[k][1] \in Atoms
  <2>1. \A k \in Slots : s.rb[k] # <<>> => 1 \in DOMAIN s.rb[k]
    BY RingIs DEF Good
  <2>. QED
    BY <2>1, RingIs DEF Good
<1>6. \A k \in Slots : k = m.atom[h].kind /\ m.rb[k] # <<>> => m.atom[m.rb[k][1]].preDep # h
  BY <1>1, <1>4, <1>5 DEF Fixed, NotNext
<1>7. \A k \in Slots : m.rb[k] # <<>> => m.atom[m.rb[k][1]].preDep # h
  BY <1>1, <1>4, <1>6, OtherSlots
<1>8. Unpulls(m, n, h)
  BY <1>0, <1>1, <1>2, <1>4, UnpullIs DEF Good
<1>9. Good(n, limbo \ {h}) /\ HwStep(m, n)
  BY <1>4, <1>7, <1>8, UnpullGood
<1>10. HwStep(s, n)
  BY <1>1, <1>4, <1>9, HwStepTrans
<1>11. n.rb = s.rb /\ \A b \in Atoms : n.atom[b].rbState = s.atom[b].rbState
  BY <1>4, <1>8, Zenon DEF Unpulls
<1>. QED
  BY <1>0, <1>9, <1>10, <1>11 DEF PutsBack

\* The second of a slot is to leave it.
LEMMA ToReturnGood ==
  ASSUME NEW s, NEW limbo, Good(s, limbo), NEW js \in Slots, Len(s.rb[js]) = 2,
         NEW q, q = s.rb[js][2], NEW v \in Events,
         NEW n, n = SetRbState(SetEvent(s, q, v), q, "return")
  PROVE  /\ Good(n, limbo) /\ HwStep(s, n) /\ n.rb = s.rb
         /\ \A b \in Atoms : n.atom[b].rbState = IF b = q THEN "return" ELSE s.atom[b].rbState
<1>1. s \in HwStates /\ HwInv(s, limbo)
  BY DEF Good
<1>2. 1 \in DOMAIN s.rb[js] /\ 2 \in DOMAIN s.rb[js]
  BY <1>1, RingIs
<1>3. q \in Atoms /\ s.atom[q].status = "in_js" /\ InRb(s, q)
  BY <1>1, <1>2, RingIs
<1>4. PICK m : m = SetEvent(s, q, v)
  OBVIOUS
<1>5. /\ Good(m, limbo) /\ HwStep(s, m) /\ m.rb = s.rb
      /\ \A b \in Atoms : m.atom[b].rbState = s.atom[b].rbState
  BY <1>3, <1>4, EventGood
<1>6. m \in HwStates /\ HwInv(m, limbo) /\ Rings(m) /\ InRb(m, q) /\ n = SetRbState(m, q, "return")
  BY <1>3, <1>4, <1>5 DEF Good, HwInv, InRb
<1>7. "return" \in RbStates /\ "return" \in RbStates \ {"none"}
  BY DEF RbStates
<1>8. /\ \A b \in Atoms : b # q => n.atom[b] = m.atom[b]
      /\ n.atom[q].rbState = "return" /\ n.rb = m.rb
  BY <1>3, <1>6, <1>7, RbStateEdit, SMTT(30) DEF Edited
<1>9. Rings(n)
  <2>1. \A b \in Atoms : n.atom[b].rbState \in {"ready", "submitted"} => ~n.atom[b].wf
    BY <1>6, <1>8, Zenon DEF Rings
  <2>2. ASSUME NEW k \in Slots, Len(n.rb[k]) = 2 PROVE Pair(n.atom[n.rb[k][1]], n.atom[n.rb[k][2]])
    <3>1. 1 \in DOMAIN m.rb[k] /\ 2 \in DOMAIN m.rb[k]
      BY <2>2, <1>6, <1>8, RingIs
    <3>2. PICK x \in Atoms : x = m.rb[k][1] /\ m.atom[x].kind = k
      BY <3>1, <1>6, RingIs, SMTT(30)
    <3>3. PICK y \in Atoms : y = m.rb[k][2] /\ m.atom[y].kind = k /\ x # y
      BY <3>1, <3>2, <2>2, <1>6, <1>8, RingIs, Z3T(30)
    <3>4. Pair(m.atom[x], m.atom[y])
      BY <3>2, <3>3, <2>2, <1>6, <1>8 DEF Rings
    <3>5. x # q
      <4>1. m.atom[q].kind = js
        BY <1>2, <1>5, <1>6, RingIs
      <4>2. m.rb[js][2] = q
        BY <1>5
      <4>3. ASSUME x = q PROVE FALSE
        <5>1. k = js
          BY <4>1, <4>3, <3>2
        <5>2. y = q
          BY <5>1, <4>2, <3>3, Zenon
        <5>. QED
          BY <5>2, <4>3, <3>3
      <4>. QED
        BY <4>3
    <3>6. n.atom[x] = m.atom[x] /\ (n.atom[y] = m.atom[y] \/ n.atom[y].rbState = "return")
      BY <3>5, <1>8, Z3T(30)
    <3>7. Pair(n.atom[x], n.atom[y])
      BY <3>4, <3>6 DEF Pair
    <3>. QED
      BY <3>2, <3>3, <3>7, <1>8, Zenon
  <2>. QED
    BY <2>1, <2>2, Zenon DEF Rings
<1>10. Good(n, limbo) /\ HwStep(m, n)
  BY <1>3, <1>5, <1>6, <1>7, <1>9, RbStateGood
<1>11. HwStep(s, n)
  BY <1>1, <1>5, <1>10, HwStepTrans
<1>. QED
  BY <1>5, <1>8, <1>10, <1>11

\* The whole ring, or its only atom, goes back to the tree.
Emptied(s, n, js) ==
  /\ HwStep(s, n) /\ \A k \in Slots : k # js => n.rb[k] = s.rb[k]
  /\ Len(s.rb[js]) # 2 => Len(n.rb[js]) # 2
  /\ \A b \in Atoms : n.atom[b].rbState \in {s.atom[b].rbState, "none", "return"}

\* What is left of a ring of one or two when its head is dequeued.
LEMMA DequeuedRing ==
  ASSUME NEW s, NEW limbo, Good(s, limbo), NEW js \in Slots, s.rb[js] # <<>>,
         NEW n, Dequeues(s, n, js)
  PROVE  /\ s.rb[js][1] \in Atoms /\ s.atom[s.rb[js][1]].kind = js
         /\ Len(s.rb[js]) = 1 => Len(n.rb[js]) = 0 /\ n.rb[js] = <<>>
         /\ Len(s.rb[js]) = 2 => Len(n.rb[js]) = 1 /\ n.rb[js] # <<>> /\ n.rb[js][1] = s.rb[js][2]
         /\ Len(s.rb[js]) \in 1..2 /\ Len(n.rb[js]) # 2
         /\ \A b \in Atoms : Fixed(n.atom[b], s.atom[b]) /\ n.atom[b].rbState \in {s.atom[b].rbState, "none"}
         /\ \A b \in Atoms : b # s.rb[js][1] => n.atom[b] = s.atom[b]
<1>1. s \in HwStates /\ HwInv(s, limbo)
  BY DEF Good
<1>2. s.rb[js] \in Seq(Atoms) /\ Len(s.rb[js]) \in 1..2 /\ 1 \in DOMAIN s.rb[js]
  BY <1>1, RingIs
<1>3. s.rb[js][1] \in Atoms /\ s.atom[s.rb[js][1]].kind = js
  BY <1>1, <1>2, RingIs
<1>4. n.rb[js] = Tail(s.rb[js]) /\ n \in HwStates
  BY DEF Dequeues
<1>5. /\ Len(s.rb[js]) = 1 => Len(n.rb[js]) = 0
      /\ Len(s.rb[js]) = 2 => Len(n.rb[js]) = 1 /\ n.rb[js][1] = s.rb[js][2]
  BY <1>2, <1>4, RingTail
<1>6. n.rb[js] \in Seq(Atoms)
  BY <1>4, HwIs, Zenon
<1>7. n.rb[js] = <<>> <=> Len(n.rb[js]) = 0
  BY <1>6, SeqIs
<1>8. \A b \in Atoms : Fixed(s.atom[b], s.atom[b])
  BY DEF Fixed
<1>9. /\ \A b \in Atoms : Fixed(n.atom[b], s.atom[b]) /\ n.atom[b].rbState \in {s.atom[b].rbState, "none"}
      /\ \A b \in Atoms : b # s.rb[js][1] => n.atom[b] = s.atom[b]
  BY <1>8, Zenon DEF Dequeues, Like
<1>. QED
  BY <1>2, <1>3, <1>5, <1>7, <1>9

\* A ring's head goes back to the tree when its second does not depend on it.
LEMMA EmptyOneGood ==
  ASSUME NEW s, NEW limbo, Good(s, limbo), NEW js \in Slots, s.rb[js] # <<>>,
         NEW q, q = s.rb[js],
         Len(q) = 2 => s.atom[q[2]].preDep = NoAtom,
         NEW n, n = Unpull(SetEvent(Dequeue(s, js), q[1], "stopped"), q[1])
  PROVE  /\ Good(n, limbo) /\ Emptied(s, n, js)
         /\ n.atom[q[1]].rbState = "none" /\ \A b \in Atoms : b # q[1] => n.atom[b].rbState = s.atom[b].rbState
<1>1. s \in HwStates
  BY DEF Good
<1>2. PICK d : d = Dequeue(s, js)
  OBVIOUS
<1>3. Dequeues(s, d, js)
  BY <1>1, <1>2, DequeueIs
<1>4. PICK h \in Atoms : h = q[1] /\ h \notin limbo
  <2>1. 1 \in DOMAIN s.rb[js]
    BY RingIs DEF Good
  <2>. QED
    BY <2>1, RingIs DEF Good
<1>5. Good(d, limbo \cup {h}) /\ HwStep(s, d)
  BY <1>3, <1>4, DequeueGood
<1>6. /\ s.atom[h].kind = js
      /\ Len(q) = 1 => d.rb[js] = <<>>
      /\ Len(q) = 2 => d.rb[js] # <<>> /\ d.rb[js][1] = q[2]
      /\ Len(q) \in 1..2 /\ Len(d.rb[js]) # 2
      /\ \A b \in Atoms : Fixed(d.atom[b], s.atom[b]) /\ d.atom[b].rbState \in {s.atom[b].rbState, "none"}
      /\ \A b \in Atoms : b # h => d.atom[b] = s.atom[b]
  BY <1>3, <1>4, DequeuedRing
<1>7. Len(q) = 2 => q[2] \in Atoms
  <2>1. Len(q) = 2 => 2 \in DOMAIN s.rb[js]
    BY RingIs DEF Good
  <2>. QED
    BY <2>1, RingIs DEF Good
<1>8. NotNext(d, h)
  <2>1. d.atom[h].kind = js
    BY <1>6 DEF Fixed
  <2>2. d.rb[js] # <<>> => Len(q) = 2 /\ d.rb[js][1] = q[2] /\ d.atom[q[2]].preDep = NoAtom
    BY <1>6, <1>7 DEF Fixed
  <2>. QED
    BY <2>1, <2>2, NotAtom DEF NotNext
<1>9. n = Unpull(SetEvent(d, h, "stopped"), h)
  BY <1>2, <1>4, Zenon
<1>10. /\ Good(n, (limbo \cup {h}) \ {h}) /\ HwStep(d, n) /\ n.rb = d.rb
       /\ \A b \in Atoms : n.atom[b].rbState = d.atom[b].rbState
  <2>1. h \in limbo \cup {h}
    OBVIOUS
  <2>2. PutsBack(d, limbo \cup {h}, h, n)
    BY <2>1, <1>5, <1>8, <1>9, PutBackGood
  <2>. QED
    BY <2>2 DEF PutsBack
<1>11. (limbo \cup {h}) \ {h} = limbo
  BY <1>4, Zenon
<1>12. HwStep(s, n)
  BY <1>1, <1>5, <1>10, HwStepTrans, Zenon
<1>13. \A k \in Slots : k # js => n.rb[k] = s.rb[k]
  BY <1>3, <1>10, Zenon DEF Dequeues
<1>14. Emptied(s, n, js)
  BY <1>6, <1>10, <1>12, <1>13, Zenon DEF Emptied
<1>15. d.atom[h].rbState = "none"
  BY <1>3, <1>4 DEF Dequeues
<1>. QED
  BY <1>4, <1>6, <1>10, <1>11, <1>14, <1>15, Zenon

PutsBoth(d, left, n) ==
  /\ Good(n, left) /\ HwStep(d, n) /\ n.rb = d.rb
  /\ \A b \in Atoms : n.atom[b].rbState = d.atom[b].rbState

\* Two atoms of an emptied ring go back to the tree.
LEMMA PutBackBoth ==
  ASSUME NEW d, NEW more, Good(d, more), NEW g \in more, NEW h \in more, g # h, NEW js \in Slots,
         d.atom[g].kind = js, d.atom[h].kind = js, d.rb[js] = <<>>,
         NEW m, m = Unpull(SetEvent(d, h, "stopped"), h)
  PROVE  PutsBoth(d, (more \ {h}) \ {g}, Unpull(SetEvent(m, g, "stopped"), g))
<1>0. g \in Atoms /\ d \in HwStates
  BY FedInJs DEF Good
<1>1. NotNext(d, h)
  BY DEF NotNext
<1>2. PutsBack(d, more, h, m)
  BY <1>1, PutBackGood
<1>3. Good(m, more \ {h}) /\ HwStep(d, m) /\ m.rb = d.rb /\ \A b \in Atoms : m.atom[b].rbState = d.atom[b].rbState
  BY <1>2 DEF PutsBack
<1>4. m.atom[g].kind = js
  BY <1>0, <1>3 DEF HwStep, AtomStep, Fixed
<1>5. NotNext(m, g)
  BY <1>3, <1>4 DEF NotNext
<1>6. PICK n : n = Unpull(SetEvent(m, g, "stopped"), g)
  OBVIOUS
<1>7. PutsBack(m, more \ {h}, g, n)
  <2>1. g \in more \ {h}
    OBVIOUS
  <2>. QED
    BY <2>1, <1>3, <1>5, <1>6, PutBackGood
<1>8. Good(n, (more \ {h}) \ {g}) /\ HwStep(m, n) /\ n.rb = m.rb /\ \A b \in Atoms : n.atom[b].rbState = m.atom[b].rbState
  BY <1>7 DEF PutsBack
<1>9. HwStep(d, n)
  BY <1>0, <1>3, <1>8, HwStepTrans
<1>. QED
  BY <1>3, <1>6, <1>8, <1>9 DEF PutsBoth

\* Both atoms of a ring go back to the tree.
LEMMA EmptyTwoGood ==
  ASSUME NEW s, NEW limbo, Good(s, limbo), NEW js \in Slots, Len(s.rb[js]) = 2,
         NEW q, q = s.rb[js], NEW d, d = Dequeue(Dequeue(s, js), js),
         NEW m, m = Unpull(SetEvent(d, q[2], "stopped"), q[2]),
         NEW n, n = Unpull(SetEvent(m, q[1], "stopped"), q[1])
  PROVE  /\ Good(n, limbo) /\ Emptied(s, n, js)
         /\ \A b \in Atoms : n.atom[b].rbState = IF b \in {q[1], q[2]} THEN "none" ELSE s.atom[b].rbState
<1>1. s \in HwStates
  BY DEF Good
<1>2. PICK c : c = Dequeue(s, js)
  OBVIOUS
<1>3. s.rb[js] # <<>> /\ 1 \in DOMAIN s.rb[js] /\ 2 \in DOMAIN s.rb[js]
  BY RingIs DEF Good
<1>4. PICK g \in Atoms : g = q[1] /\ g \notin limbo
  BY <1>3, RingIs, Z3T(30) DEF Good
<1>5. PICK h \in Atoms : h = q[2] /\ h \notin limbo /\ h # g /\ s.atom[h].kind = js /\ s.atom[g].kind = js
  BY <1>3, <1>4, RingIs DEF Good
<1>6. Dequeues(s, c, js)
  BY <1>1, <1>2, <1>3, DequeueIs
<1>7. Good(c, limbo \cup {g}) /\ HwStep(s, c)
  BY <1>3, <1>4, <1>6, DequeueGood, Zenon
<1>8. /\ Len(c.rb[js]) = 1 /\ c.rb[js] # <<>> /\ c.rb[js][1] = h
      /\ \A b \in Atoms : Fixed(c.atom[b], s.atom[b])
      /\ \A b \in Atoms : b # g => c.atom[b] = s.atom[b]
  BY <1>3, <1>4, <1>5, <1>6, DequeuedRing
<1>9. d = Dequeue(c, js) /\ c \in HwStates
  BY <1>2, <1>7 DEF Good
<1>10. Dequeues(c, d, js)
  BY <1>8, <1>9, DequeueIs
<1>11. Good(d, (limbo \cup {g}) \cup {h}) /\ HwStep(c, d)
  BY <1>7, <1>8, <1>10, DequeueGood
<1>12. /\ d.rb[js] = <<>> /\ Len(d.rb[js]) # 2
       /\ \A b \in Atoms : Fixed(d.atom[b], c.atom[b])
       /\ \A b \in Atoms : b # h => d.atom[b] = c.atom[b]
  BY <1>7, <1>8, <1>10, DequeuedRing
<1>13. d.atom[g].kind = js /\ d.atom[h].kind = js
  BY <1>5, <1>8, <1>12 DEF Fixed
<1>14. PICK more : more = (limbo \cup {g}) \cup {h}
  OBVIOUS
<1>15. g \in more /\ h \in more /\ (more \ {h}) \ {g} = limbo /\ Good(d, more)
  BY <1>4, <1>5, <1>11, <1>14
<1>16. m = Unpull(SetEvent(d, h, "stopped"), h) /\ n = Unpull(SetEvent(m, g, "stopped"), g)
  BY <1>4, <1>5, Zenon
<1>17. /\ Good(n, (more \ {h}) \ {g}) /\ HwStep(d, n) /\ n.rb = d.rb
       /\ \A b \in Atoms : n.atom[b].rbState = d.atom[b].rbState
  <2>1. PutsBoth(d, (more \ {h}) \ {g}, n)
    BY <1>5, <1>12, <1>13, <1>15, <1>16, PutBackBoth, Z3T(30)
  <2>. QED
    BY <2>1, Zenon DEF PutsBoth
<1>18. HwStep(s, n)
  <2>1. HwStep(s, d)
    BY <1>1, <1>7, <1>11, HwStepTrans
  <2>. QED
    BY <2>1, <1>1, <1>17, HwStepTrans
<1>19. \A k \in Slots : k # js => n.rb[k] = s.rb[k]
  <2>1. \A k \in Slots : k # js => c.rb[k] = s.rb[k]
    BY <1>6 DEF Dequeues
  <2>2. \A k \in Slots : k # js => d.rb[k] = c.rb[k]
    BY <1>10, Zenon DEF Dequeues
  <2>3. n.rb = d.rb
    BY <1>17, Zenon
  <2>. QED
    BY <2>1, <2>2, <2>3
<1>20. \A b \in Atoms : n.atom[b].rbState = IF b \in {g, h} THEN "none" ELSE s.atom[b].rbState
  <2>1. d.atom[h].rbState = "none" /\ c.atom[g].rbState = "none"
    BY <1>4, <1>6, <1>8, <1>10, Zenon DEF Dequeues
  <2>2. \A b \in Atoms : n.atom[b].rbState = d.atom[b].rbState
    BY <1>17, Zenon
  <2>. QED
    BY <2>1, <2>2, <1>5, <1>8, <1>12, SMTT(30)
<1>21. Emptied(s, n, js)
  BY <1>18, <1>19, <1>20, Zenon DEF Emptied
<1>. QED
  BY <1>4, <1>5, <1>15, <1>17, <1>20, <1>21, Zenon

Removes(s, limbo, js, n) ==
  /\ Good(n, limbo) /\ Emptied(s, n, js)
  /\ \A b \in Atoms : s.atom[b].kind = js /\ s.atom[b].preDep # NoAtom
                        => n.atom[b].rbState \notin {"waiting", "ready"}

Removable(s, a) == HasDep(s, a) /\ s.atom[a].rbState # "submitted"

\* The removal of dependents case by case: the first of the ring, the second
\* or neither.
LEMMA RemoveCases ==
  ASSUME NEW s, NEW js, NEW q, q = s.rb[js]
  PROVE  RemoveDependents(s, js) =
           IF 1 <= Len(q) /\ Removable(s, q[1])
           THEN Unpull(SetEvent(IF Len(q) = 2 /\ HasDep(s, q[2])
                                THEN Unpull(SetEvent(Dequeue(Dequeue(s, js), js), q[2], "stopped"), q[2])
                                ELSE Dequeue(s, js), q[1], "stopped"), q[1])
           ELSE IF 2 <= Len(q) /\ Removable(s, q[2])
           THEN SetRbState(SetEvent(s, q[2], "stopped"), q[2], "return")
           ELSE s
BY DEF RemoveDependents, SetEvent, SetRbState, Removable

\* Doing nothing is a step the dispatcher does not see.
LEMMA HwStepSelf ==
  ASSUME NEW s PROVE HwStep(s, s)
BY DEF HwStep, AtomStep, Fixed

\* Who is in a ring is its first or its second.
LEMMA InRingIs ==
  ASSUME NEW s, NEW limbo, Good(s, limbo), NEW b \in Atoms, InRb(s, b)
  PROVE  /\ s.atom[b].kind \in Slots
         /\ \/ Len(s.rb[s.atom[b].kind]) \in 1..2 /\ b = s.rb[s.atom[b].kind][1]
            \/ Len(s.rb[s.atom[b].kind]) = 2 /\ b = s.rb[s.atom[b].kind][2]
<1>1. s \in HwStates /\ HwInv(s, limbo) /\ InRing(s) /\ Linked(s)
  BY DEF Good, HwInv
<1>2. Fed(s, b) /\ \E i \in DOMAIN s.rb[s.atom[b].kind] : s.rb[s.atom[b].kind][i] = b
  BY <1>1 DEF InRing
<1>3. PICK k \in Slots : k = s.atom[b].kind
  BY <1>1, <1>2 DEF Linked, Seen, Fed
<1>4. PICK i \in DOMAIN s.rb[k] : s.rb[k][i] = b
  BY <1>2, <1>3
<1>5. PICK l : l = Len(s.rb[k])
  OBVIOUS
<1>6. l \in 0..2 /\ i \in 1..l
  BY <1>1, <1>4, <1>5, RingIs
<1>7. (l \in 1..2 /\ i = 1) \/ (l = 2 /\ i = 2)
  BY <1>6
<1>. QED
  BY <1>3, <1>4, <1>5, <1>7

\* Removing the dependent atoms from a ring after a failure keeps the invariant.
LEMMA RemoveGood ==
  ASSUME NEW s, NEW limbo, Good(s, limbo), NEW js \in Slots
  PROVE  Removes(s, limbo, js, RemoveDependents(s, js))
<1>1. PICK n : n = RemoveDependents(s, js)
  OBVIOUS
<1>2. PICK q : q = s.rb[js]
  OBVIOUS
<1>3. PICK l : l = Len(q)
  OBVIOUS
<1>4. l \in 0..2 /\ (q = <<>> <=> l = 0) /\ s \in HwStates
  BY <1>2, <1>3, RingIs DEF Good
<1>5. \A b \in Atoms : InRb(s, b) /\ s.atom[b].kind = js => (l # 0 /\ b = q[1]) \/ (l = 2 /\ b = q[2])
  BY <1>2, <1>3, InRingIs
<1>6. \A b \in Atoms : s.atom[b].preDep # NoAtom => HasDep(s, b)
  BY DEF HasDep
<1>7. CASE l # 0 /\ Removable(s, q[1]) /\ l = 2 /\ HasDep(s, q[2])
  <2>1. PICK d : d = Dequeue(Dequeue(s, js), js)
    OBVIOUS
  <2>2. PICK m : m = Unpull(SetEvent(d, q[2], "stopped"), q[2])
    OBVIOUS
  <2>3. n = Unpull(SetEvent(m, q[1], "stopped"), q[1])
    <3>1. 1 <= Len(q) /\ Len(q) = 2
      BY <1>3, <1>7
    <3>. QED
      BY <3>1, <2>1, <2>2, <1>1, <1>2, <1>7, RemoveCases
  <2>4. /\ Good(n, limbo) /\ Emptied(s, n, js)
        /\ \A b \in Atoms : n.atom[b].rbState = IF b \in {q[1], q[2]} THEN "none" ELSE s.atom[b].rbState
    <3>1. Len(q) = 2
      BY <1>3, <1>7
    <3>. QED
      BY <3>1, <2>1, <2>2, <2>3, <1>2, EmptyTwoGood
  <2>5. ASSUME NEW b \in Atoms, s.atom[b].kind = js PROVE n.atom[b].rbState \notin {"waiting", "ready"}
    BY <2>4, <2>5, <1>5 DEF InRb
  <2>. QED
    BY <2>4, <2>5, <1>1 DEF Removes
<1>8. CASE l # 0 /\ Removable(s, q[1]) /\ ~(l = 2 /\ HasDep(s, q[2]))
  <2>1. n = Unpull(SetEvent(Dequeue(s, js), q[1], "stopped"), q[1])
    <3>1. 1 <= Len(q) /\ ~(Len(q) = 2 /\ HasDep(s, q[2]))
      BY <1>3, <1>4, <1>8
    <3>. QED
      BY <3>1, <1>1, <1>2, <1>8, RemoveCases
  <2>2. Len(q) = 2 => s.atom[q[2]].preDep = NoAtom
    BY <1>3, <1>8 DEF HasDep
  <2>3. /\ Good(n, limbo) /\ Emptied(s, n, js)
        /\ n.atom[q[1]].rbState = "none" /\ \A b \in Atoms : b # q[1] => n.atom[b].rbState = s.atom[b].rbState
    BY <2>1, <2>2, <1>2, <1>4, <1>8, EmptyOneGood
  <2>4. ASSUME NEW b \in Atoms, s.atom[b].kind = js, s.atom[b].preDep # NoAtom
        PROVE  n.atom[b].rbState \notin {"waiting", "ready"}
    <3>1. CASE b = q[1]
      BY <3>1, <2>3
    <3>2. CASE b # q[1]
      <4>1. ~InRb(s, b)
        BY <3>2, <2>4, <1>5, <1>6, <1>8
      <4>. QED
        BY <4>1, <3>2, <2>3 DEF InRb
    <3>. QED
      BY <3>1, <3>2
  <2>. QED
    BY <2>3, <2>4, <1>1 DEF Removes
<1>9. CASE ~(l # 0 /\ Removable(s, q[1])) /\ l = 2 /\ Removable(s, q[2])
  <2>1. n = SetRbState(SetEvent(s, q[2], "stopped"), q[2], "return")
    <3>1. ~(1 <= Len(q) /\ Removable(s, q[1])) /\ 2 <= Len(q)
      BY <1>3, <1>4, <1>9
    <3>. QED
      BY <3>1, <1>1, <1>2, <1>9, RemoveCases
  <2>2. "stopped" \in Events
    BY DEF Events
  <2>3. /\ Good(n, limbo) /\ HwStep(s, n) /\ n.rb = s.rb
        /\ \A b \in Atoms : n.atom[b].rbState = IF b = q[2] THEN "return" ELSE s.atom[b].rbState
    <3>1. Len(q) = 2
      BY <1>3, <1>9
    <3>. QED
      BY <3>1, <2>1, <2>2, <1>2, ToReturnGood
  <2>4. Emptied(s, n, js)
    BY <2>3 DEF Emptied
  <2>5. ASSUME NEW b \in Atoms, s.atom[b].kind = js, s.atom[b].preDep # NoAtom
        PROVE  n.atom[b].rbState \notin {"waiting", "ready"}
    <3>1. CASE b = q[2]
      BY <3>1, <2>3
    <3>2. CASE b # q[2]
      <4>1. InRb(s, b) => s.atom[b].rbState = "submitted"
        BY <3>2, <2>5, <1>5, <1>6, <1>9, Zenon DEF Removable
      <4>. QED
        BY <4>1, <3>2, <2>3 DEF InRb
    <3>. QED
      BY <3>1, <3>2
  <2>. QED
    BY <2>3, <2>4, <2>5, <1>1 DEF Removes
<1>10. CASE ~(l # 0 /\ Removable(s, q[1])) /\ ~(l = 2 /\ Removable(s, q[2]))
  <2>1. n = s
    <3>1. ~(1 <= Len(q) /\ Removable(s, q[1])) /\ ~(2 <= Len(q) /\ Removable(s, q[2]))
      BY <1>3, <1>4, <1>10
    <3>. QED
      BY <3>1, <1>1, <1>2, RemoveCases
  <2>2. Emptied(s, n, js)
    BY <2>1, HwStepSelf DEF Emptied
  <2>3. ASSUME NEW b \in Atoms, s.atom[b].kind = js, s.atom[b].preDep # NoAtom
        PROVE  n.atom[b].rbState \notin {"waiting", "ready"}
    <3>1. InRb(s, b) => s.atom[b].rbState = "submitted"
      BY <2>3, <1>5, <1>6, <1>10 DEF Removable
    <3>. QED
      BY <3>1, <2>1 DEF InRb
  <2>. QED
    BY <2>1, <2>2, <2>3, <1>1, Zenon DEF Removes
<1>. QED
  BY <1>4, <1>7, <1>8, <1>9, <1>10

\* A hard stop of the context.
Stops(s, n, js) == Good(n, {}) /\ Emptied(s, n, js)

\* The hard stop of a slot case by case: an empty ring, a head that is not on
\* the GPU, a second that is not.
LEMMA StopCases ==
  ASSUME NEW s, NEW js, NEW late, NEW q, q = s.rb[js]
  PROVE  HardStop(s, js, late) =
           IF q = <<>> THEN s
           ELSE IF s.atom[q[1]].rbState # "submitted"
           THEN Unpull(SetEvent(IF Len(q) = 2
                                THEN Unpull(SetEvent(Dequeue(Dequeue(s, js), js), q[2], "stopped"), q[2])
                                ELSE Dequeue(s, js), q[1], "stopped"), q[1])
           ELSE IF Len(q) = 2 /\ ~(js \in late /\ s.atom[q[2]].rbState = "submitted")
           THEN SetRbState(SetEvent(s, q[2], "stopped"), q[2], "return")
           ELSE s
BY DEF HardStop, SetEvent, SetRbState

\* The hard stop of a dying context's slot keeps the invariant.
LEMMA HardStopGood ==
  ASSUME NEW s, Good(s, {}), NEW js \in Slots, NEW late
  PROVE  Stops(s, HardStop(s, js, late), js)
<1>1. PICK n : n = HardStop(s, js, late)
  OBVIOUS
<1>2. PICK q : q = s.rb[js]
  OBVIOUS
<1>3. CASE q # <<>> /\ s.atom[q[1]].rbState # "submitted" /\ Len(q) = 2
  <2>1. PICK d : d = Dequeue(Dequeue(s, js), js)
    OBVIOUS
  <2>2. PICK m : m = Unpull(SetEvent(d, q[2], "stopped"), q[2])
    OBVIOUS
  <2>3. n = Unpull(SetEvent(m, q[1], "stopped"), q[1])
    BY <2>1, <2>2, <1>1, <1>2, <1>3, StopCases
  <2>4. Good(n, {}) /\ Emptied(s, n, js)
    BY <2>1, <2>2, <2>3, <1>2, <1>3, EmptyTwoGood
  <2>. QED
    BY <2>4, <1>1 DEF Stops
<1>4. CASE q # <<>> /\ s.atom[q[1]].rbState # "submitted" /\ Len(q) # 2
  <2>1. n = Unpull(SetEvent(Dequeue(s, js), q[1], "stopped"), q[1])
    BY <1>1, <1>2, <1>4, StopCases
  <2>2. Good(n, {}) /\ Emptied(s, n, js)
    BY <2>1, <1>2, <1>4, EmptyOneGood
  <2>. QED
    BY <2>2, <1>1 DEF Stops
<1>5. CASE /\ q # <<>> /\ s.atom[q[1]].rbState = "submitted"
           /\ Len(q) = 2 /\ ~(js \in late /\ s.atom[q[2]].rbState = "submitted")
  <2>1. n = SetRbState(SetEvent(s, q[2], "stopped"), q[2], "return")
    BY <1>1, <1>2, <1>5, StopCases
  <2>2. "stopped" \in Events
    BY Zenon DEF Events
  <2>3. /\ Good(n, {}) /\ HwStep(s, n) /\ n.rb = s.rb
        /\ \A b \in Atoms : n.atom[b].rbState = IF b = q[2] THEN "return" ELSE s.atom[b].rbState
    BY <2>1, <2>2, <1>2, <1>5, ToReturnGood
  <2>4. Emptied(s, n, js)
    BY <2>3, Zenon DEF Emptied
  <2>. QED
    BY <2>3, <2>4, <1>1 DEF Stops
<1>6. CASE \/ q = <<>>
           \/ /\ s.atom[q[1]].rbState = "submitted"
              /\ ~(Len(q) = 2 /\ ~(js \in late /\ s.atom[q[2]].rbState = "submitted"))
  <2>1. n = s
    BY <1>1, <1>2, <1>6, StopCases
  <2>2. Emptied(s, n, js)
    BY <2>1, HwStepSelf DEF Emptied
  <2>. QED
    BY <2>1, <2>2, <1>1, Zenon DEF Stops
<1>. QED
  BY <1>3, <1>4, <1>5, <1>6

-----------------------------------------------------------------------------
(* The handlers of the slots, as steps of a state.                          *)

Steps(s, n) == Good(n, {}) /\ HwStep(s, n)

\* A good state is a state.
LEMMA GoodHw ==
  ASSUME NEW s, NEW limbo, Good(s, limbo) PROVE s \in HwStates
BY DEF Good

\* Invisible steps before a good one make one.
LEMMA StepsTrans ==
  ASSUME NEW s \in HwStates, NEW m, NEW n, HwStep(s, m), Steps(m, n)
  PROVE  Steps(s, n)
BY HwStepTrans DEF Steps

\* What the scheduler must know before it completes an atom.
Completable(s, a) ==
  /\ s.atom[a].preDep # NoAtom => Ended(s, s.atom[a].preDep)
  /\ \A js \in Slots : js = s.atom[a].kind => Len(s.rb[js]) # 2
  /\ \A p \in Atoms : p = s.atom[a].postDep /\ CompleteEvent(s, a) # "done"
                        => s.atom[p].rbState \notin {"ready", "submitted"}

\* Completing an atom that has left its ring keeps the invariant.
LEMMA CompletionGood ==
  ASSUME NEW s, NEW a, Good(s, {a}), Completable(s, a)
  PROVE  Steps(s, CompleteAtom(s, a))
<1>1. PICK n : n = CompleteAtom(s, a)
  OBVIOUS
<1>2. PICK limbo : limbo = {a}
  OBVIOUS
<1>3. Good(s, limbo) /\ a \in limbo /\ limbo \ {a} = {}
  BY <1>2
<1>4. a \in Atoms /\ Fed(s, a) /\ s \in HwStates
  BY <1>3, FedInJs, GoodHw
<1>5. WaitsAlone(s, a)
  BY <1>3, <1>4, WaiterIs
<1>6. Completes(s, n, a)
  BY <1>1, <1>4, <1>5, CompleteAtomIs
<1>7. Good(n, limbo \ {a}) /\ HwStep(s, n)
  BY <1>3, <1>6, CompleteGood, Zenon DEF Completable
<1>. QED
  BY <1>1, <1>3, <1>7 DEF Steps

\* What the ring looks like without its head.
LEMMA HeadTaken ==
  ASSUME NEW s, Good(s, {}), NEW js \in Slots, s.rb[js] # <<>>, NEW d, Dequeues(s, d, js)
  PROVE  /\ Good(d, {s.rb[js][1]}) /\ HwStep(s, d) /\ s.rb[js][1] \in Atoms
         /\ d.atom[s.rb[js][1]].kind = js /\ Len(d.rb[js]) # 2
         /\ d.atom[s.rb[js][1]].preDep # NoAtom => Ended(d, d.atom[s.rb[js][1]].preDep)
<1>1. PICK h : h = s.rb[js][1]
  OBVIOUS
<1>2. PICK limbo : limbo = {} \cup {h}
  OBVIOUS
<1>3. Good(d, limbo) /\ HwStep(s, d)
  BY <1>1, <1>2, DequeueGood
<1>4. limbo = {h} /\ s \in HwStates /\ HwInv(s, {}) /\ Behind(s, {}) /\ Linked(s)
  BY <1>2 DEF Good, HwInv
<1>5. /\ h \in Atoms /\ s.atom[h].kind = js /\ Len(d.rb[js]) # 2 /\ Fixed(d.atom[h], s.atom[h])
  BY <1>1, DequeuedRing
<1>6. 1 \in DOMAIN s.rb[js]
  BY <1>4, RingIs
<1>7. s.atom[h].preDep # NoAtom => Ended(s, s.atom[h].preDep)
  BY <1>1, <1>4, <1>6 DEF Behind, Follower
<1>8. \A b \in Atoms : Ended(s, b) => Ended(d, b)
  BY <1>3 DEF HwStep, AtomStep, Ended
<1>. QED
  BY <1>1, <1>3, <1>4, <1>5, <1>7, <1>8, LinkTypes DEF Fixed

\* An atom that has left its ring goes back to the scheduler with its work.
LEMMA ReturnGood ==
  ASSUME NEW s, Good(s, {}), NEW js \in Slots, s.rb[js] # <<>>, NEW h, h = s.rb[js][1],
         NEW d, Dequeues(s, d, js),
         Len(s.rb[js]) = 2 => /\ s.atom[s.rb[js][2]].rbState \notin {"ready", "submitted"}
                              /\ d.atom[h].event # "stopped"
  PROVE  Steps(s, ReturnToJs(d, h))
<1>0. PICK n : n = ReturnToJs(d, h)
  OBVIOUS
<1>1. /\ Good(d, {h}) /\ HwStep(s, d) /\ h \in Atoms
      /\ d.atom[h].kind = js /\ Len(d.rb[js]) # 2
      /\ d.atom[h].preDep # NoAtom => Ended(d, d.atom[h].preDep)
  <2>1. PICK k : k = js
    OBVIOUS
  <2>2. k \in Slots /\ s.rb[k] # <<>> /\ Dequeues(s, d, k) /\ h = s.rb[k][1]
    BY <2>1
  <2>3. /\ Good(d, {s.rb[k][1]}) /\ HwStep(s, d) /\ s.rb[k][1] \in Atoms
        /\ d.atom[s.rb[k][1]].kind = k /\ Len(d.rb[k]) # 2
        /\ d.atom[s.rb[k][1]].preDep # NoAtom => Ended(d, d.atom[s.rb[k][1]].preDep)
    BY <2>2, HeadTaken
  <2>. QED
    BY <2>1, <2>2, <2>3
<1>2. /\ Len(s.rb[js]) = 1 => d.rb[js] = <<>>
      /\ Len(s.rb[js]) = 2 => d.rb[js][1] = s.rb[js][2]
      /\ Len(s.rb[js]) \in 1..2
      /\ \A b \in Atoms : b # h => d.atom[b] = s.atom[b]
  BY DequeuedRing
<1>3. s \in HwStates /\ d \in HwStates
  BY <1>1, GoodHw
<1>4. CASE d.atom[h].event = "stopped"
  <2>1. n = Unpull(d, h) /\ d.rb[js] = <<>>
    BY <1>0, <1>2, <1>4 DEF ReturnToJs
  <2>2. Unpulls(d, n, h)
    BY <2>1, <1>1, <1>3, UnpullIs
  <2>3. \A k \in Slots : k = d.atom[h].kind /\ d.rb[k] # <<>> => d.atom[d.rb[k][1]].preDep # h
    BY <2>1, <1>1
  <2>4. \A k \in Slots : d.rb[k] # <<>> => d.atom[d.rb[k][1]].preDep # h
    BY <2>3, <1>1, OtherSlots
  <2>5. Good(n, {h} \ {h}) /\ HwStep(d, n)
    <3>1. PICK limbo : limbo = {h}
      OBVIOUS
    <3>2. h \in limbo /\ Good(d, limbo)
      BY <3>1, <1>1
    <3>3. Good(n, limbo \ {h}) /\ HwStep(d, n)
      BY <3>2, <2>2, <2>4, UnpullGood
    <3>. QED
      BY <3>1, <3>3
  <2>6. {h} \ {h} = {}
    OBVIOUS
  <2>7. Steps(d, n)
    BY <2>5, <2>6 DEF Steps
  <2>. QED
    BY <2>7, <1>0, <1>1, <1>3, StepsTrans
<1>5. CASE d.atom[h].event # "stopped"
  <2>1. n = CompleteAtom(d, h)
    BY <1>0, <1>5 DEF ReturnToJs
  <2>2. ASSUME NEW p \in Atoms, p = d.atom[h].postDep, d.atom[p].rbState \in {"ready", "submitted"}
        PROVE  FALSE
    <3>1. Linked(d)
      BY <1>1, Zenon DEF Good, HwInv
    <3>2. d.atom[p].preDep = h
      BY <3>1, <2>2, <1>1, NotAtom DEF Linked, PostLinked
    <3>3. d.atom[p].kind = js /\ h # p
      <4>1. d.atom[h].kind = d.atom[p].kind /\ h < p
        BY <3>1, <3>2, <1>1, NotAtom, Z3T(30) DEF Linked, PreLinked
      <4>. QED
        BY <4>1, <1>1, AtomsFinite
    <3>4. InRb(d, p)
      BY <2>2 DEF InRb
    <3>5. Len(d.rb[js]) \in 1..2 /\ p = d.rb[js][1]
      BY <3>3, <3>4, <1>1, InRingIs
    <3>6. Len(s.rb[js]) = 2
      <4>1. Len(s.rb[js]) # 1
        <5>1. Len(s.rb[js]) = 1 => Len(d.rb[js]) = 0
          BY DequeuedRing
        <5>. QED
          BY <3>5, <5>1
      <4>. QED
        BY <4>1, <1>2
    <3>7. p = s.rb[js][2]
      BY <3>5, <3>6, <1>2
    <3>8. s.atom[p].rbState \notin {"ready", "submitted"} /\ d.atom[p] = s.atom[p]
      BY <3>3, <3>6, <3>7, <1>2, Zenon
    <3>. QED
      BY <3>8, <2>2, Zenon
  <2>3. Completable(d, h)
    BY <2>2, <1>1 DEF Completable
  <2>4. Steps(d, n)
    BY <2>1, <2>3, <1>1, CompletionGood, Zenon
  <2>. QED
    BY <2>4, <1>0, <1>1, <1>3, StepsTrans
<1>. QED
  BY <1>4, <1>5

RbSet(s, limbo, a, v, n) ==
  /\ Good(n, limbo) /\ HwStep(s, n) /\ Alike(s, n) /\ n.rb = s.rb
  /\ \A b \in Atoms : n.atom[b].rbState = IF b = a THEN v ELSE s.atom[b].rbState

\* What a head and a second of a ring may become together.
LEMMA SetRbGood ==
  ASSUME NEW s, NEW limbo, Good(s, limbo), NEW js \in Slots, NEW i \in {1, 2}, i <= Len(s.rb[js]),
         NEW a, a = s.rb[js][i], NEW v \in RbStates \ {"none"},
         v \in {"ready", "submitted"} => ~s.atom[a].wf,
         Len(s.rb[js]) = 2 /\ i = 1 => /\ v # "return"
                                       /\ s.atom[s.rb[js][2]].rbState = "submitted" => v = "submitted",
         Len(s.rb[js]) = 2 /\ i = 2 => /\ v = "submitted" => s.atom[s.rb[js][1]].rbState = "submitted"
                                       /\ s.atom[s.rb[js][1]].wf => v \in {"waiting", "return"}
  PROVE  RbSet(s, limbo, a, v, SetRbState(s, a, v))
<1>0. PICK n : n = SetRbState(s, a, v)
  OBVIOUS
<1>1. s \in HwStates /\ HwInv(s, limbo) /\ Rings(s)
  BY DEF Good, HwInv
<1>2. i \in DOMAIN s.rb[js] /\ a \in Atoms /\ InRb(s, a) /\ s.atom[a].kind = js
  <2>1. PICK l : l = Len(s.rb[js])
    OBVIOUS
  <2>2. l \in 0..2 /\ DOMAIN s.rb[js] = 1..l
    BY <2>1, <1>1, RingIs
  <2>3. i \in 1..l
    BY <2>1, <2>2, Z3T(30)
  <2>. QED
    BY <2>2, <2>3, <1>1, RingIs
<1>3. /\ \A b \in Atoms : b # a => n.atom[b] = s.atom[b]
      /\ n.atom[a].rbState = v /\ n.rb = s.rb /\ n.atom[a].wf = s.atom[a].wf
  BY <1>0, <1>1, <1>2, RbStateEdit DEF Edited
<1>4. Rings(n)
  <2>1. \A b \in Atoms : n.atom[b].rbState \in {"ready", "submitted"} => ~n.atom[b].wf
    BY <1>1, <1>3 DEF Rings
  <2>2. ASSUME NEW k \in Slots, Len(n.rb[k]) = 2 PROVE Pair(n.atom[n.rb[k][1]], n.atom[n.rb[k][2]])
    <3>1. 1 \in DOMAIN s.rb[k] /\ 2 \in DOMAIN s.rb[k]
      BY <2>2, <1>1, <1>3, RingIs
    <3>2. PICK x \in Atoms : x = s.rb[k][1] /\ s.atom[x].kind = k
      BY <3>1, <1>1, RingIs, Z3T(30)
    <3>3. PICK y \in Atoms : y = s.rb[k][2] /\ s.atom[y].kind = k /\ x # y
      BY <3>1, <3>2, <2>2, <1>1, <1>3, RingIs
    <3>4. Pair(s.atom[x], s.atom[y])
      BY <3>2, <3>3, <2>2, <1>1, <1>3, Zenon DEF Rings
    <3>5. CASE k = js /\ i = 1
      <4>1. a = x /\ Len(s.rb[js]) = 2
        BY <3>2, <3>5, <2>2, <1>3
      <4>2. n.atom[y] = s.atom[y]
        BY <4>1, <3>3, <1>3
      <4>3. v # "return" /\ (s.atom[y].rbState = "submitted" => v = "submitted")
        BY <4>1, <3>3, <3>5
      <4>4. Pair(n.atom[x], n.atom[y])
        BY <4>1, <4>2, <4>3, <3>4, <1>3 DEF Pair
      <4>. QED
        BY <4>4, <3>2, <3>3, <1>3
    <3>6. CASE k = js /\ i = 2
      <4>1. a = y /\ Len(s.rb[js]) = 2
        BY <3>3, <3>6, <2>2, <1>3
      <4>2. n.atom[x] = s.atom[x]
        BY <4>1, <3>3, <1>3
      <4>3. (v = "submitted" => s.atom[x].rbState = "submitted") /\ (s.atom[x].wf => v \in {"waiting", "return"})
        BY <4>1, <3>2, <3>6
      <4>4. Pair(n.atom[x], n.atom[y])
        BY <4>1, <4>2, <4>3, <3>4, <1>3, Zenon DEF Pair
      <4>. QED
        BY <4>4, <3>2, <3>3, <1>3
    <3>7. CASE k # js
      <4>1. n.atom[x] = s.atom[x] /\ n.atom[y] = s.atom[y]
        BY <3>2, <3>3, <3>7, <1>2, <1>3
      <4>. QED
        BY <4>1, <3>2, <3>3, <3>4, <1>3
    <3>. QED
      BY <3>5, <3>6, <3>7, Zenon
  <2>. QED
    BY <2>1, <2>2 DEF Rings
<1>5. Good(n, limbo) /\ HwStep(s, n) /\ Alike(s, n)
  BY <1>0, <1>2, <1>4, RbStateGood
<1>6. \A b \in Atoms : n.atom[b].rbState = IF b = a THEN v ELSE s.atom[b].rbState
  BY <1>3
<1>. QED
  BY <1>0, <1>3, <1>5, <1>6, Zenon DEF RbSet

\* kbase_gpu_irq_evict leaves nothing dependent in the NEXT registers.
Evicts(s, n, js) ==
  /\ Steps(s, n) /\ n.rb = s.rb
  /\ Len(s.rb[js]) = 2 /\ s.atom[s.rb[js][2]].preDep # NoAtom => n.atom[s.rb[js][2]].rbState # "submitted"

\* kbase_gpu_irq_evict keeps the invariant.
LEMMA IrqEvictGood ==
  ASSUME NEW s, Good(s, {}), NEW js \in Slots, s.rb[js] # <<>>
  PROVE  Evicts(s, IrqEvict(s, js), js)
<1>0. PICK n : n = IrqEvict(s, js)
  OBVIOUS
<1>1. PICK q : q = s.rb[js]
  OBVIOUS
<1>2. Rings(s)
  BY DEF Good, HwInv
<1>3. CASE Len(q) = 2 /\ s.atom[q[2]].rbState = "submitted" /\ HasDep(s, q[2])
  <2>1. n = SetRbState(s, q[2], "ready")
    BY <1>0, <1>1, <1>3 DEF IrqEvict, SetRbState
  <2>2. PICK a \in Atoms : a = q[2]
    <3>1. 2 \in DOMAIN s.rb[js]
      BY <1>1, <1>3, RingIs DEF Good
    <3>. QED
      BY <3>1, <1>1, RingIs DEF Good
  <2>3. ~s.atom[a].wf
    BY <2>2, <1>2, <1>3 DEF Rings
  <2>4. Pair(s.atom[q[1]], s.atom[a])
    BY <2>2, <1>1, <1>2, <1>3 DEF Rings
  <2>5. ~s.atom[q[1]].wf
    BY <2>2, <2>4, <1>3 DEF Pair
  <2>6. "ready" \in RbStates \ {"none"} /\ 2 \in {1, 2} /\ 2 <= Len(q)
    BY <1>3 DEF RbStates
  <2>7. RbSet(s, {}, a, "ready", n)
    BY <2>1, <2>2, <2>3, <2>5, <2>6, <1>1, <1>3, SetRbGood, SMTT(30)
  <2>. QED
    BY <2>2, <2>7, <1>0, <1>1 DEF RbSet, Evicts, Steps
<1>4. CASE ~(Len(q) = 2 /\ s.atom[q[2]].rbState = "submitted" /\ HasDep(s, q[2]))
  <2>1. n = s
    BY <1>0, <1>1, <1>4 DEF IrqEvict
  <2>2. Steps(s, s)
    BY HwStepSelf DEF Steps
  <2>. QED
    BY <2>1, <2>2, <1>0, <1>1, <1>4, Zenon DEF Evicts, HasDep
<1>. QED
  BY <1>3, <1>4

Finish(s, js, event) ==
  LET a == s.rb[js][1]
      gone == Dequeue(IF event = "fail" THEN IrqEvict(s, js) ELSE s, js)
      clean == IF event = "fail"
               THEN RemoveDependents(RemoveDependents([gone EXCEPT !.submit = FALSE], "js0"), "js1")
               ELSE gone
  IN  CompleteAtom(SetEvent(clean, a, event), a)

\* The atom and those behind it once the failure has been handled.
NextNotOnGpu(s, a) == \A p \in Atoms : p = s.atom[a].postDep => s.atom[p].rbState # "submitted"

\* After a job leaves its ring no dependent of it is on the GPU.
LEMMA GoneNext ==
  ASSUME NEW s, Good(s, {}), NEW js \in Slots, s.rb[js] # <<>>, NEW a, a = s.rb[js][1],
         Len(s.rb[js]) = 2 /\ s.atom[s.rb[js][2]].preDep # NoAtom => s.atom[s.rb[js][2]].rbState # "submitted",
         NEW d, Dequeues(s, d, js)
  PROVE  NextNotOnGpu(d, a)
<1>1. /\ Good(d, {a}) /\ HwStep(s, d) /\ a \in Atoms /\ d.atom[a].kind = js
  BY HeadTaken
<1>2. Linked(d)
  BY <1>1 DEF Good, HwInv
<1>3. /\ Len(s.rb[js]) = 1 => Len(d.rb[js]) = 0
      /\ Len(s.rb[js]) = 2 => d.rb[js][1] = s.rb[js][2]
      /\ Len(s.rb[js]) \in 1..2
      /\ \A b \in Atoms : b # a => d.atom[b] = s.atom[b]
  BY DequeuedRing, SMTT(30)
<1>4. ASSUME NEW p \in Atoms, p = d.atom[a].postDep, d.atom[p].rbState = "submitted" PROVE FALSE
  <2>1. d.atom[p].preDep = a
    BY <1>1, <1>2, <1>4, NotAtom DEF Linked, PostLinked
  <2>2. d.atom[a].kind = d.atom[p].kind /\ a < p
    BY <2>1, <1>1, <1>2, NotAtom DEF Linked, PreLinked
  <2>3. d.atom[p].kind = js /\ a # p
    BY <2>2, <1>1, AtomsFinite
  <2>4. InRb(d, p)
    BY <1>4 DEF InRb
  <2>5. Len(d.rb[js]) \in 1..2 /\ p = d.rb[js][1]
    <3>1. Len(d.rb[js]) # 2
      BY HeadTaken, Zenon
    <3>. QED
      BY <3>1, <2>3, <2>4, <1>1, InRingIs
  <2>6. Len(s.rb[js]) = 2
    <3>1. Len(s.rb[js]) # 1
      BY <2>5, <1>3
    <3>. QED
      BY <3>1, <1>3
  <2>7. p = s.rb[js][2] /\ s.atom[p] = d.atom[p]
    BY <2>3, <2>5, <2>6, <1>3
  <2>. QED
    BY <2>1, <2>6, <2>7, <1>1, <1>4, NotAtom, Zenon
<1>. QED
  BY <1>4 DEF NextNotOnGpu

\* When the event the GPU reports can be given to an atom.
Reportable(s, a, event) ==
  /\ s.atom[a].preDep # NoAtom => Ended(s, s.atom[a].preDep)
  /\ \A js \in Slots : js = s.atom[a].kind => Len(s.rb[js]) # 2
  /\ \/ event = "done" /\ ~s.atom[a].wf
     \/ \A p \in Atoms : p = s.atom[a].postDep => s.atom[p].rbState \notin {"ready", "submitted"}

\* Dependants leave both slots.
LEMMA RemoveAll ==
  ASSUME NEW s, NEW a, Good(s, {a}), NEW js \in Slots, s.atom[a].kind = js, NextNotOnGpu(s, a),
         Len(s.rb[js]) # 2,
         s.atom[a].preDep # NoAtom => Ended(s, s.atom[a].preDep),
         NEW n, n = RemoveDependents(RemoveDependents(s, "js0"), "js1")
  PROVE  Good(n, {a}) /\ HwStep(s, n) /\ Reportable(n, a, "fail")
<1>0. a \in Atoms /\ s \in HwStates /\ Linked(s)
  BY FedInJs DEF Good, HwInv
<1>1. PICK m : m = RemoveDependents(s, "js0")
  OBVIOUS
<1>2. "js0" \in Slots /\ "js1" \in Slots
  BY DEF Slots
<1>3. Removes(s, {a}, "js0", m)
  BY <1>1, <1>2, RemoveGood
<1>4. Good(m, {a}) /\ HwStep(s, m)
  BY <1>3 DEF Removes, Emptied
<1>5. Removes(m, {a}, "js1", n)
  BY <1>1, <1>2, <1>4, RemoveGood
<1>6. Good(n, {a}) /\ HwStep(m, n)
  BY <1>5 DEF Removes, Emptied
<1>7. HwStep(s, n)
  BY <1>0, <1>4, <1>6, HwStepTrans
<1>8. \A b \in Atoms : Fixed(m.atom[b], s.atom[b]) /\ Fixed(n.atom[b], s.atom[b])
  BY <1>4, <1>7 DEF HwStep, AtomStep
<1>9. Len(n.rb[js]) # 2
  <2>1. Len(m.rb[js]) # 2
    BY <1>3, <1>2 DEF Removes, Emptied
  <2>. QED
    BY <2>1, <1>2, <1>5 DEF Removes, Emptied
<1>10. ASSUME NEW p \in Atoms, p = n.atom[a].postDep PROVE n.atom[p].rbState \notin {"ready", "submitted"}
  <2>1. p = s.atom[a].postDep
    BY <1>0, <1>8, <1>10 DEF Fixed
  <2>2. s.atom[p].preDep = a /\ s.atom[p].kind = js /\ s.atom[p].rbState # "submitted"
    <3>1. s.atom[p].preDep = a
      BY <2>1, <1>0, NotAtom DEF Linked, PostLinked
    <3>2. s.atom[a].kind = s.atom[p].kind
      BY <3>1, <1>0, NotAtom DEF Linked, PreLinked
    <3>. QED
      BY <2>1, <3>1, <3>2 DEF NextNotOnGpu
  <2>3. /\ m.atom[p].rbState \in {s.atom[p].rbState, "none", "return"}
        /\ n.atom[p].rbState \in {m.atom[p].rbState, "none", "return"}
    BY <1>3, <1>5 DEF Removes, Emptied
  <2>4. m.atom[p].preDep # NoAtom /\ m.atom[p].kind = js /\ s.atom[p].preDep # NoAtom
    BY <2>2, <1>0, <1>8, NotAtom DEF Fixed
  <2>5. CASE js = "js0"
    <3>1. m.atom[p].rbState \notin {"waiting", "ready"}
      BY <2>2, <2>4, <2>5, <1>3 DEF Removes
    <3>. QED
      BY <3>1, <2>2, <2>3
  <2>6. CASE js = "js1"
    <3>1. n.atom[p].rbState \notin {"waiting", "ready"}
      BY <2>4, <2>6, <1>5 DEF Removes
    <3>. QED
      BY <3>1, <2>2, <2>3
  <2>. QED
    BY <2>5, <2>6 DEF Slots
<1>11. n.atom[a].preDep # NoAtom => Ended(n, n.atom[a].preDep)
  <2>1. n.atom[a].preDep = s.atom[a].preDep
    BY <1>0, <1>8 DEF Fixed
  <2>2. \A b \in Atoms : Ended(s, b) => Ended(n, b)
    BY <1>7 DEF HwStep, AtomStep, Ended
  <2>. QED
    BY <2>1, <2>2, <1>0, LinkTypes
<1>12. n.atom[a].kind = js
  BY <1>0, <1>8 DEF Fixed
<1>13. Reportable(n, a, "fail")
  BY <1>9, <1>10, <1>11, <1>12 DEF Reportable
<1>. QED
  BY <1>6, <1>7, <1>13

\* The event that the GPU reports does not change what is known of the atom.
LEMMA ReportGood ==
  ASSUME NEW s, NEW a, Good(s, {a}), NEW event \in {"done", "fail"}, Reportable(s, a, event)
  PROVE  Steps(s, CompleteAtom(SetEvent(s, a, event), a))
<1>1. PICK m : m = SetEvent(s, a, event)
  OBVIOUS
<1>2. a \in Atoms /\ s.atom[a].status = "in_js" /\ s \in HwStates /\ event \in Events
  BY FedInJs, GoodHw DEF Events
<1>3. /\ Good(m, {a}) /\ HwStep(s, m) /\ m.rb = s.rb
      /\ \A b \in Atoms : Fixed(m.atom[b], s.atom[b]) /\ m.atom[b].rbState = s.atom[b].rbState
  BY <1>1, <1>2, EventGood
<1>4. m.atom[a].event = event /\ m.atom[a].wf = s.atom[a].wf
  BY <1>1, <1>2, EventEdit
<1>5. m.atom[a].preDep # NoAtom => Ended(m, m.atom[a].preDep)
  <2>1. m.atom[a].preDep = s.atom[a].preDep
    BY <1>2, <1>3 DEF Fixed
  <2>2. \A b \in Atoms : Ended(s, b) => Ended(m, b)
    BY <1>3 DEF HwStep, AtomStep, Ended
  <2>. QED
    BY <2>1, <2>2, <1>2, LinkTypes DEF Reportable
<1>6. \A js \in Slots : js = m.atom[a].kind => Len(m.rb[js]) # 2
  BY <1>2, <1>3 DEF Fixed, Reportable
<1>7. ASSUME NEW p \in Atoms, p = m.atom[a].postDep, CompleteEvent(m, a) # "done"
      PROVE  m.atom[p].rbState \notin {"ready", "submitted"}
  <2>1. ~(event = "done" /\ ~s.atom[a].wf)
    BY <1>4, <1>7 DEF CompleteEvent
  <2>2. p = s.atom[a].postDep
    BY <1>2, <1>3, <1>7 DEF Fixed
  <2>. QED
    BY <2>1, <2>2, <1>3 DEF Reportable
<1>8. Completable(m, a)
  BY <1>5, <1>6, <1>7 DEF Completable
<1>9. Steps(m, CompleteAtom(m, a))
  BY <1>3, <1>8, CompletionGood
<1>. QED
  BY <1>1, <1>2, <1>3, <1>9, StepsTrans

\* kbase_gpu_complete_hw.
LEMMA FinishGood ==
  ASSUME NEW s, Good(s, {}), NEW js \in Slots, s.rb[js] # <<>>,
         s.atom[s.rb[js][1]].rbState = "submitted", NEW event \in {"done", "fail"}
  PROVE  Steps(s, Finish(s, js, event))
<1>1. PICK a : a = s.rb[js][1]
  OBVIOUS
<1>2. /\ s \in HwStates /\ a \in Atoms /\ 1 \in DOMAIN s.rb[js] /\ ~s.atom[a].wf
  <2>1. s \in HwStates /\ Rings(s)
    BY DEF Good, HwInv
  <2>2. Len(s.rb[js]) \in 0..2 /\ Len(s.rb[js]) # 0 /\ DOMAIN s.rb[js] = 1..Len(s.rb[js])
    BY RingIs DEF Good
  <2>3. 1 \in DOMAIN s.rb[js]
    BY <2>2
  <2>4. a \in Atoms
    BY <1>1, <2>3, RingIs DEF Good
  <2>. QED
    BY <1>1, <2>1, <2>3, <2>4 DEF Rings
<1>3. CASE event = "done"
  <2>1. PICK d : d = Dequeue(s, js)
    OBVIOUS
  <2>2. Dequeues(s, d, js)
    BY <1>2, <2>1, DequeueIs
  <2>3. /\ Good(d, {a}) /\ HwStep(s, d) /\ d.atom[a].kind = js /\ Len(d.rb[js]) # 2
        /\ d.atom[a].preDep # NoAtom => Ended(d, d.atom[a].preDep)
    BY <1>1, <2>2, HeadTaken, Z3T(30)
  <2>4. ~d.atom[a].wf
    BY <1>1, <1>2, <2>2 DEF Dequeues, Like
  <2>5. Reportable(d, a, event)
    BY <1>3, <2>3, <2>4 DEF Reportable
  <2>6. Steps(d, CompleteAtom(SetEvent(d, a, event), a))
    BY <2>3, <2>5, ReportGood
  <2>7. Finish(s, js, event) = CompleteAtom(SetEvent(d, a, event), a)
    BY <1>1, <1>3, <2>1 DEF Finish
  <2>. QED
    BY <1>2, <2>3, <2>6, <2>7, StepsTrans
<1>4. CASE event = "fail"
  <2>1. PICK e : e = IrqEvict(s, js)
    OBVIOUS
  <2>2. Evicts(s, e, js)
    BY <2>1, IrqEvictGood
  <2>3. Good(e, {}) /\ HwStep(s, e) /\ e.rb = s.rb /\ e \in HwStates
    BY <2>2, GoodHw DEF Evicts, Steps
  <2>4. PICK d : d = Dequeue(e, js)
    OBVIOUS
  <2>5. Dequeues(e, d, js) /\ e.rb[js] # <<>> /\ a = e.rb[js][1]
    BY <1>1, <2>3, <2>4, DequeueIs
  <2>6. /\ Good(d, {a}) /\ HwStep(e, d) /\ d.atom[a].kind = js /\ Len(d.rb[js]) # 2
        /\ d.atom[a].preDep # NoAtom => Ended(d, d.atom[a].preDep)
    BY <2>3, <2>5, HeadTaken, Zenon
  <2>7. NextNotOnGpu(d, a)
    <3>1. Len(e.rb[js]) = 2 /\ e.atom[e.rb[js][2]].preDep # NoAtom => e.atom[e.rb[js][2]].rbState # "submitted"
      <4>1. e.rb[js][2] = s.rb[js][2] /\ Len(e.rb[js]) = Len(s.rb[js])
        BY <2>3
      <4>2. Len(s.rb[js]) = 2 => s.rb[js][2] \in Atoms
        <5>1. Len(s.rb[js]) = 2 => 2 \in DOMAIN s.rb[js]
          BY RingIs DEF Good
        <5>. QED
          BY <5>1, RingIs DEF Good
      <4>3. Len(s.rb[js]) = 2 => s.atom[s.rb[js][2]].preDep = e.atom[s.rb[js][2]].preDep
        BY <2>3, <4>2 DEF HwStep, AtomStep, Fixed
      <4>. QED
        BY <4>1, <4>3, <2>2 DEF Evicts
    <3>. QED
      BY <2>3, <2>5, <3>1, GoneNext
  <2>8. PICK g : g = [d EXCEPT !.submit = FALSE]
    OBVIOUS
  <2>9. /\ Good(g, {a}) /\ HwStep(d, g) /\ g.rb = d.rb /\ g.atom = d.atom
    BY <2>6, <2>8, SubmitGood, Zenon
  <2>10. NextNotOnGpu(g, a) /\ g.atom[a].kind = js /\ Len(g.rb[js]) # 2
         /\ (g.atom[a].preDep # NoAtom => Ended(g, g.atom[a].preDep))
    BY <2>6, <2>7, <2>9 DEF NextNotOnGpu, Ended
  <2>11. PICK n : n = RemoveDependents(RemoveDependents(g, "js0"), "js1")
    OBVIOUS
  <2>12. Good(n, {a}) /\ HwStep(g, n) /\ Reportable(n, a, "fail")
    BY <2>9, <2>10, <2>11, RemoveAll
  <2>13. Steps(n, CompleteAtom(SetEvent(n, a, "fail"), a))
    BY <2>12, ReportGood
  <2>14. Finish(s, js, event) = CompleteAtom(SetEvent(n, a, "fail"), a)
    BY <1>1, <1>4, <2>1, <2>4, <2>8, <2>11 DEF Finish
  <2>15. HwStep(s, n)
    <3>1. HwStep(s, d)
      BY <1>2, <2>3, <2>6, HwStepTrans
    <3>2. HwStep(s, g)
      BY <1>2, <3>1, <2>9, HwStepTrans
    <3>. QED
      BY <1>2, <3>2, <2>12, HwStepTrans
  <2>. QED
    BY <1>2, <2>13, <2>14, <2>15, StepsTrans
<1>. QED
  BY <1>3, <1>4

-----------------------------------------------------------------------------
(* The rest of the inductive invariant: the context, the dispatcher's queue *)
(* and pass, and what is known of order, failure and reports.               *)

\* A context that was zapped and has left the run pool.
Gone(sch, dy) == dy /\ ~sch

CtxInv(s, sch, dy) ==
  /\ ~sch => \A a \in Atoms : ~InRb(s, a)
  /\ Gone(sch, dy) => s.tree = {} /\ \A a \in Atoms : ~InX(s, a)
  /\ ~Gone(sch, dy) => Clear(s) /\ InTurn(s) /\ \A i \in DOMAIN s.wq : s.wq[i].job # "cancel"

\* Whether the dispatcher holds atom a back for its dependency d.
Waits(s, a, d) == s.atom[a].dep[d].id # NoAtom
NoWaits(s, a) == \A d \in 1..2 : ~Waits(s, a, d)

WaitInv(s, a, d) ==
  Waits(s, a, d) => /\ s.atom[a].dep[d] = s.atom[a].pre[d] /\ s.atom[a].status = "queued"
                    /\ "waiting" \notin s.atom[a].flags /\ s.atom[a].dep[d].id < a
SoftInv(s, a) ==
  "waiting" \in s.atom[a].flags =>
    s.atom[a].status = "queued" /\ s.atom[a].kind = "soft" /\ ~s.atom[a].wf
QueueInv(s, nx) ==
  \A a \in Atoms : /\ a < nx <=> s.atom[a].status # "unused"
                   /\ \A d \in 1..2 : WaitInv(s, a, d)
                   /\ SoftInv(s, a)

\* What keeps a from running before its dependency d, or kept it.
InOrder(s, a, d) ==
  LET b == s.atom[a].pre[d].id IN
  \/ Waits(s, a, d) \/ Ended(s, b) \/ s.atom[a].preDep = b \/ s.atom[a].xPre = b
  \/ s.atom[a].pre[d].type = "order" /\ s.atom[b].kind = s.atom[a].kind
OrderInv(s) ==
  \A a \in Atoms, d \in 1..2 :
    s.atom[a].status \notin {"unused", "completed"} /\ s.atom[a].pre[d].id \in 1..(a - 1) => InOrder(s, a, d)

\* What fails a if its data dependency d on another slot fails.
Failed(s, a, dy) ==
  IF s.atom[a].status = "completed" THEN dy \/ s.atom[a].event # "done" ELSE s.atom[a].wf
Warned(s, a, d, dy) ==
  LET b == s.atom[a].pre[d].id IN
  \/ Waits(s, a, d) \/ Failed(s, a, dy) \/ (Ended(s, b) /\ s.atom[b].event = "done")
  \/ s.atom[a].xPre = b /\ Blocked(s, a) /\ "fail_blocker" \in s.atom[a].flags
MarkInv(s, a) ==
  s.atom[a].status \in {"queued", "hw_completed"} /\ s.atom[a].wf => s.atom[a].event # "done"
CrossData(s, a, d) ==
  /\ s.atom[a].status # "unused" /\ s.atom[a].pre[d].id \in 1..(a - 1)
  /\ s.atom[a].pre[d].type = "data" /\ s.atom[s.atom[a].pre[d].id].kind # s.atom[a].kind
FailInv(s, dy) ==
  \A a \in Atoms : MarkInv(s, a) /\ \A d \in 1..2 : CrossData(s, a, d) => Warned(s, a, d, dy)

\* The pass in progress.
Distinct(q) == \A m, n \in DOMAIN q : q[m] = q[n] => m = n
Runnable(s, a, dy) ==
  /\ s.atom[a].status = "queued" /\ "waiting" \notin s.atom[a].flags
  /\ NoWaits(s, a) \/ (s.atom[a].kind \in Slots /\ ~dy)
PassInv(s, j, dy) ==
  /\ \A n \in DOMAIN j.run : Runnable(s, j.run[n], dy)
  /\ \A n \in DOMAIN j.done : s.atom[j.done[n]].status = "completed" /\ j.done[n] # j.cur
  /\ Distinct(j.run) /\ Distinct(j.done)
  /\ j.cur # NoAtom => s.atom[j.cur].status = "completed"
  /\ j.cur = NoAtom => j.run = <<>>
  /\ j.by = "none" => j = Idle

\* rep[a] counts the reports of atom a.
RepInv(s, j, rep, nr, nx) ==
  /\ \A a \in Atoms : rep[a] \in {0, 1} /\ (rep[a] = 1 => s.atom[a].status = "completed")
  /\ \A n \in DOMAIN j.done : rep[j.done[n]] = 0
  /\ j.cur # NoAtom => rep[j.cur] = 0
  /\ nr = Cardinality({a \in 1..(nx - 1) : rep[a] = 0})

Passes == [by : {"none", "submit", "soft", "worker", "cancel", "zap"},
           done : Seq(Atoms), run : Seq(Atoms), cur : 0..NumAtoms]

Disp(s, j, nx, nr, rep, dy) ==
  QueueInv(s, nx) /\ OrderInv(s) /\ FailInv(s, dy) /\ PassInv(s, j, dy) /\ RepInv(s, j, rep, nr, nx)

Whole(s, j, nx, nr, rep, sch, dy) ==
  /\ s \in HwStates /\ j \in Passes
  /\ HwInv(s, {}) /\ CtxInv(s, sch, dy) /\ Disp(s, j, nx, nr, rep, dy)

Reports == [a \in Atoms |-> Reported(a)]
Workers == [pc : {"idle", "done", "release", "count", "post", "return", "cancel"}, id : 0..NumAtoms]
TypeInv ==
  /\ worker \in Workers /\ next \in 1..(NumAtoms + 1) /\ jobNr \in Int
  /\ completed \in Seq(Atoms) /\ posted \in [Atoms -> Nat]
  /\ scheduled \in BOOLEAN /\ dying \in BOOLEAN
  /\ zap \in {"no", "release", "lock", "soft", "wait", "done"}
Inv == TypeInv /\ Whole(S, jd, next, jobNr, Reports, scheduled, dying)

-----------------------------------------------------------------------------
(* Steps under hwaccess_lock alone.                                         *)

\* The types of a pass.
LEMMA PassTypes ==
  ASSUME NEW j \in Passes
  PROVE  /\ j.done \in Seq(Atoms) /\ j.run \in Seq(Atoms) /\ j.cur \in 0..NumAtoms
         /\ DOMAIN j.done = 1..Len(j.done) /\ DOMAIN j.run = 1..Len(j.run)
         /\ \A n \in DOMAIN j.done : j.done[n] \in Atoms
         /\ \A n \in DOMAIN j.run : j.run[n] \in Atoms
         /\ j.cur # NoAtom => j.cur \in Atoms
         /\ Len(j.done) \in Nat /\ Len(j.run) \in Nat
<1>1. j.done \in Seq(Atoms) /\ j.run \in Seq(Atoms) /\ j.cur \in 0..NumAtoms
  BY DEF Passes
<1>2. j.cur # NoAtom => j.cur \in Atoms
  BY <1>1, JobDepsAssumption DEF Atoms, NoAtom
<1>. QED
  BY <1>1, <1>2, SeqIs

\* The dependencies of an atom.
LEMMA DepTypes ==
  ASSUME NEW s \in HwStates, NEW a \in Atoms, NEW d \in 1..2
  PROVE  /\ s.atom[a].dep[d] \in Deps /\ s.atom[a].pre[d] \in Deps
         /\ s.atom[a].dep[d].id \in Atoms \cup {NoAtom} /\ s.atom[a].dep[d].type \in {"data", "order"}
         /\ s.atom[a].pre[d].id \in Atoms \cup {NoAtom} /\ s.atom[a].pre[d].type \in {"data", "order"}
         /\ s.atom[a].pre[d].id \in 1..(a - 1) => s.atom[a].pre[d].id \in Atoms
<1>1. s.atom[a].dep[d] \in Deps /\ s.atom[a].pre[d] \in Deps
  <2>1. s.atom[a] \in AtomRecords
    BY AtomIs
  <2>. QED
    BY <2>1, AtomTypes
<1>2. s.atom[a].dep[d].id \in Atoms \cup {NoAtom} /\ s.atom[a].pre[d].id \in Atoms \cup {NoAtom}
  BY <1>1 DEF Deps
<1>3. s.atom[a].pre[d].id \in 1..(a - 1) => s.atom[a].pre[d].id \in Atoms
  BY <1>2 DEF NoAtom
<1>. QED
  BY <1>1, <1>2, <1>3 DEF Deps

AtomSteps(s, n) == \A a \in Atoms : AtomStep(s, n, a)
\* Atoms that wait for the other slot are with the scheduler, or stay as they are.
BlockedIn(s, n) ==
  \A a \in Atoms : Blocked(s, a) /\ ~Blocked(n, a) => s.atom[a].status = "in_js"

\* A step the dispatcher does not see keeps what it knows of queued atoms.
LEMMA StepQueue ==
  ASSUME NEW s \in HwStates, NEW n \in HwStates, AtomSteps(s, n), NEW nx, QueueInv(s, nx)
  PROVE  QueueInv(n, nx)
<1>1. ASSUME NEW a \in Atoms
      PROVE  /\ a < nx <=> n.atom[a].status # "unused"
             /\ \A d \in 1..2 : WaitInv(n, a, d)
             /\ SoftInv(n, a)
  <2>1. AtomStep(s, n, a)
    BY DEF AtomSteps
  <2>2. a < nx <=> n.atom[a].status # "unused"
    BY <2>1 DEF AtomStep, QueueInv
  <2>3. SoftInv(n, a)
    <3>1. SoftInv(s, a)
      BY DEF QueueInv
    <3>2. /\ "waiting" \in n.atom[a].flags <=> "waiting" \in s.atom[a].flags
          /\ n.atom[a].kind = s.atom[a].kind
          /\ s.atom[a].status = "queued" => n.atom[a].status = "queued" /\ (n.atom[a].wf <=> s.atom[a].wf)
      BY <2>1 DEF AtomStep, Fixed
    <3>. QED
      BY <3>1, <3>2 DEF SoftInv
  <2>4. ASSUME NEW d \in 1..2 PROVE WaitInv(n, a, d)
    BY <2>1 DEF AtomStep, QueueInv, WaitInv, Waits, Fixed
  <2>. QED
    BY <2>2, <2>3, <2>4
<1>. QED
  BY <1>1 DEF QueueInv

\* A step the dispatcher does not see keeps the order.
LEMMA StepOrder ==
  ASSUME NEW s \in HwStates, NEW n \in HwStates, AtomSteps(s, n), OrderInv(s)
  PROVE  OrderInv(n)
<1>1. ASSUME NEW a \in Atoms, NEW d \in 1..2,
             n.atom[a].status \notin {"unused", "completed"}, n.atom[a].pre[d].id \in 1..(a - 1)
      PROVE  InOrder(n, a, d)
  <2>. DEFINE b == s.atom[a].pre[d].id
  <2>1. AtomStep(s, n, a) /\ n.atom[a].pre[d].id = b /\ b \in 1..(a - 1)
    BY <1>1, Zenon DEF AtomSteps, AtomStep, Fixed
  <2>2. b \in Atoms
    BY <2>1, DepTypes, Zenon
  <2>3. AtomStep(s, n, b)
    BY <2>2 DEF AtomSteps
  <2>4. InOrder(s, a, d)
    BY <1>1, <2>1, Zenon DEF OrderInv, AtomStep
  <2>5. /\ Waits(s, a, d) => Waits(n, a, d)
        /\ Ended(s, b) => Ended(n, b)
        /\ n.atom[a].preDep = s.atom[a].preDep /\ n.atom[a].xPre = s.atom[a].xPre
        /\ n.atom[b].kind = s.atom[b].kind /\ n.atom[a].kind = s.atom[a].kind
        /\ n.atom[a].pre[d] = s.atom[a].pre[d]
    BY <2>1, <2>3, Zenon DEF AtomStep, Waits, Ended, Fixed
  <2>. QED
    BY <2>4, <2>5 DEF InOrder
<1>. QED
  BY <1>1 DEF OrderInv

\* A step the dispatcher does not see loses no failure.
LEMMA StepFail ==
  ASSUME NEW s \in HwStates, NEW n \in HwStates, AtomSteps(s, n), BlockedIn(s, n),
         NEW dy, NEW dz, dy => dz, FailInv(s, dy)
  PROVE  FailInv(n, dz)
<1>1. ASSUME NEW a \in Atoms PROVE MarkInv(n, a)
  BY DEF FailInv, MarkInv, AtomSteps, AtomStep
<1>2. ASSUME NEW a \in Atoms, NEW d \in 1..2, CrossData(n, a, d) PROVE Warned(n, a, d, dz)
  <2>. DEFINE b == s.atom[a].pre[d].id
  <2>1. AtomStep(s, n, a) /\ n.atom[a].pre[d] = s.atom[a].pre[d] /\ b \in 1..(a - 1)
    BY <1>2, Zenon DEF AtomSteps, AtomStep, Fixed, CrossData
  <2>2. b \in Atoms
    BY <2>1, DepTypes, Zenon
  <2>3. AtomStep(s, n, b)
    BY <2>2 DEF AtomSteps
  <2>4. CrossData(s, a, d)
    BY <1>2, <2>1, <2>3, Zenon DEF CrossData, AtomStep, Fixed
  <2>5. Warned(s, a, d, dy)
    BY <2>4 DEF FailInv
  <2>6. CASE Waits(s, a, d)
    BY <2>1, <2>6, Zenon DEF Warned, Waits, AtomStep
  <2>7. CASE Failed(s, a, dy)
    BY <2>1, <2>7, Zenon DEF Warned, Failed, AtomStep
  <2>8. CASE Ended(s, b) /\ s.atom[b].event = "done"
    BY <2>1, <2>3, <2>8, Zenon DEF Warned, Ended, AtomStep
  <2>9. CASE s.atom[a].xPre = b /\ Blocked(s, a) /\ "fail_blocker" \in s.atom[a].flags
    <3>1. CASE Blocked(n, a)
      BY <2>1, <2>9, <3>1, Zenon DEF Warned, AtomStep, Fixed
    <3>2. CASE ~Blocked(n, a)
      <4>1. s.atom[a].status = "in_js" /\ n.atom[a].status # "completed"
        BY <2>1, <2>9, <3>2, Zenon DEF BlockedIn, AtomStep
      <4>2. Ended(n, b) /\ (n.atom[b].event = "done" \/ n.atom[a].wf)
        BY <2>1, <2>9, <3>2 DEF AtomStep
      <4>. QED
        BY <2>1, <4>1, <4>2, Zenon DEF Warned, Failed
    <3>. QED
      BY <3>1, <3>2
  <2>. QED
    BY <2>5, <2>6, <2>7, <2>8, <2>9, Zenon DEF Warned
<1>. QED
  BY <1>1, <1>2 DEF FailInv

\* A step the dispatcher does not see keeps the pass in progress.
LEMMA StepPass ==
  ASSUME NEW s \in HwStates, NEW n \in HwStates, AtomSteps(s, n), NEW j \in Passes,
         NEW dy, NEW dz, dz => dy \/ j.run = <<>>, PassInv(s, j, dy)
  PROVE  PassInv(n, j, dz)
<1>1. ASSUME NEW i \in DOMAIN j.run PROVE Runnable(n, j.run[i], dz)
  <2>1. j.run[i] \in Atoms /\ j.run # <<>>
    BY PassTypes
  <2>2. AtomStep(s, n, j.run[i]) /\ Runnable(s, j.run[i], dy)
    BY <2>1 DEF AtomSteps, PassInv
  <2>. QED
    BY <2>1, <2>2, Zenon DEF Runnable, NoWaits, Waits, AtomStep, Fixed
<1>2. ASSUME NEW a \in Atoms, s.atom[a].status = "completed" PROVE n.atom[a].status = "completed"
  BY <1>2 DEF AtomSteps, AtomStep
<1>3. \A i \in DOMAIN j.done : j.done[i] \in Atoms
  BY PassTypes
<1>4. j.cur # NoAtom => j.cur \in Atoms
  BY PassTypes
<1>. QED
  BY <1>1, <1>2, <1>3, <1>4, Zenon DEF PassInv

\* Reports stay right while no completed atom is revived.
LEMMA StepRep ==
  ASSUME NEW s, NEW n, \A a \in Atoms : s.atom[a].status = "completed" => n.atom[a].status = "completed",
         NEW j, NEW rep, NEW nr, NEW nx, RepInv(s, j, rep, nr, nx)
  PROVE  RepInv(n, j, rep, nr, nx)
BY DEF RepInv

\* What the dispatcher keeps of the atoms outlives a step of the slots.
LEMMA StepDisp ==
  ASSUME NEW s \in HwStates, NEW n \in HwStates, AtomSteps(s, n), BlockedIn(s, n), NEW j \in Passes,
         NEW nx, NEW nr, NEW rep, NEW dy, NEW dz, dy => dz, dz => dy \/ j.run = <<>>,
         Disp(s, j, nx, nr, rep, dy)
  PROVE  Disp(n, j, nx, nr, rep, dz)
<1>1. QueueInv(n, nx) /\ OrderInv(n) /\ FailInv(n, dz) /\ PassInv(n, j, dz)
  BY StepQueue, StepOrder, StepFail, StepPass DEF Disp
<1>2. \A a \in Atoms : s.atom[a].status = "completed" => n.atom[a].status = "completed"
  BY DEF AtomSteps, AtomStep
<1>3. RepInv(n, j, rep, nr, nx)
  BY <1>2, StepRep DEF Disp
<1>. QED
  BY <1>1, <1>3 DEF Disp

\* Until the zapped context has left the run pool the state is good.
LEMMA WholeGood ==
  ASSUME NEW s, NEW j, NEW nx, NEW nr, NEW rep, NEW sch, NEW dy,
         Whole(s, j, nx, nr, rep, sch, dy), ~Gone(sch, dy)
  PROVE  Good(s, {}) /\ \A i \in DOMAIN s.wq : s.wq[i].job # "cancel"
BY DEF Whole, CtxInv, Good

\* In a good state whatever is blocked is in its list.
LEMMA ClearIn ==
  ASSUME NEW s, NEW n, Good(s, {})
  PROVE  BlockedIn(s, n)
BY DEF Good, HwInv, Clear, InList, BlockedIn

\* A step of the slots of a context that is alive.
LEMMA HwKeeps ==
  ASSUME NEW s, NEW j, NEW nx, NEW nr, NEW rep, NEW sch \in BOOLEAN, NEW dy \in BOOLEAN,
         Whole(s, j, nx, nr, rep, sch, dy), ~Gone(sch, dy), NEW n, Steps(s, n),
         sch \/ \A a \in Atoms : InRb(n, a) => InRb(s, a),
         NEW dz \in BOOLEAN, dy => dz, dz => dy \/ (j.run = <<>> /\ sch)
  PROVE  Whole(n, j, nx, nr, rep, sch, dz)
<1>1. Good(s, {}) /\ \A i \in DOMAIN s.wq : s.wq[i].job # "cancel"
  BY WholeGood
<1>2. Good(n, {}) /\ HwStep(s, n) /\ n \in HwStates /\ s \in HwStates /\ j \in Passes
  BY GoodHw DEF Steps, Whole
<1>3. AtomSteps(s, n) /\ BlockedIn(s, n)
  BY <1>1, <1>2, ClearIn DEF HwStep, AtomSteps
<1>4. Disp(s, j, nx, nr, rep, dy)
  BY DEF Whole
<1>5. Disp(n, j, nx, nr, rep, dz)
  BY <1>2, <1>3, <1>4, StepDisp
<1>6. HwInv(n, {}) /\ Clear(n) /\ InTurn(n)
  BY <1>2 DEF Good
<1>7. ~Gone(sch, dz)
  BY DEF Gone
<1>8. \A i \in DOMAIN n.wq : n.wq[i].job # "cancel"
  BY <1>1, <1>2 DEF HwStep
<1>9. ~sch => \A a \in Atoms : ~InRb(n, a)
  BY DEF Whole, CtxInv
<1>10. CtxInv(n, sch, dz)
  BY <1>6, <1>7, <1>8, <1>9 DEF CtxInv
<1>. QED
  BY <1>2, <1>5, <1>6, <1>10 DEF Whole

-----------------------------------------------------------------------------
(* The job interrupt and the slots.                                         *)

\* The fields of S are the variables.
LEMMA SIs ==
  /\ S.atom = atom /\ S.tree = tree /\ S.rb = rb /\ S.wq = wq /\ S.submit = submit
  /\ S.workCount = workCount
BY DEF S

\* A step that becomes st leaves S there.
LEMMA BecomesIs ==
  ASSUME NEW st \in HwStates, Becomes(st)
  PROVE  S' = st
BY DEF HwStates, Becomes, S

\* Reports count what is posted and what waits in completed_jobs.
LEMMA ReportsKept ==
  ASSUME UNCHANGED <<completed, posted>>
  PROVE  Reports' = Reports
BY DEF Reports, Reported

\* Only a scheduled context has atoms in the rings.
LEMMA Alive ==
  ASSUME NEW s, NEW j, NEW nx, NEW nr, NEW rep, NEW sch \in BOOLEAN, NEW dy,
         Whole(s, j, nx, nr, rep, sch, dy), NEW a \in Atoms, InRb(s, a)
  PROVE  sch /\ Good(s, {})
<1>1. sch
  BY DEF Whole, CtxInv
<1>. QED
  BY <1>1, WholeGood DEF Gone

\* A handler of the slots keeps the invariant.
LEMMA SlotKeeps ==
  ASSUME Inv, NEW st, Steps(S, st), Becomes(st), scheduled, UNCHANGED <<jd, worker, userVars, ctxVars>>
  PROVE  Inv'
<1>1. /\ Whole(S, jd, next, jobNr, Reports, scheduled, dying) /\ TypeInv
      /\ scheduled \in BOOLEAN /\ dying \in BOOLEAN
  BY DEF Inv, TypeInv
<1>2. Whole(st, jd, next, jobNr, Reports, scheduled, dying)
  BY <1>1, HwKeeps DEF Gone
<1>3. S' = st
  BY <1>2, BecomesIs DEF Whole
<1>4. Reports' = Reports
  BY ReportsKept DEF userVars
<1>5. TypeInv'
  BY <1>1 DEF TypeInv, userVars, ctxVars
<1>. QED
  BY <1>2, <1>3, <1>4, <1>5 DEF Inv, userVars, ctxVars

\* The entries of a ring of a context that is alive.
LEMMA EntryIs ==
  ASSUME Inv, NEW js \in Slots, NEW i \in 1..Len(rb[js])
  PROVE  /\ Good(S, {}) /\ scheduled /\ rb[js][i] \in Atoms /\ i \in {1, 2} /\ Len(rb[js]) \in 1..2
         /\ Len(rb[js]) = 2 \/ i = 1
         /\ atom[rb[js][i]].kind = js /\ atom[rb[js][i]].status = "in_js"
         /\ rb[js] # <<>> /\ rb[js] \in Seq(Atoms)
         /\ InRb(S, rb[js][i])
<1>1. /\ Whole(S, jd, next, jobNr, Reports, scheduled, dying) /\ scheduled \in BOOLEAN
      /\ HwInv(S, {}) /\ S \in HwStates
  BY DEF Inv, TypeInv, Whole
<1>2. /\ rb[js] \in Seq(Atoms) /\ Len(rb[js]) \in 0..2 /\ DOMAIN rb[js] = 1..Len(rb[js])
      /\ rb[js] = <<>> <=> Len(rb[js]) = 0
      /\ \A k \in DOMAIN rb[js] : /\ rb[js][k] \in Atoms /\ atom[rb[js][k]].kind = js
                                  /\ InRb(S, rb[js][k]) /\ atom[rb[js][k]].status = "in_js"
  BY <1>1, RingIs, SIs
<1>3. i \in {1, 2} /\ Len(rb[js]) \in 1..2 /\ (Len(rb[js]) = 2 \/ i = 1) /\ rb[js] # <<>>
  BY <1>2
<1>4. /\ rb[js][i] \in Atoms /\ atom[rb[js][i]].kind = js /\ InRb(S, rb[js][i])
      /\ atom[rb[js][i]].status = "in_js"
  BY <1>2
<1>5. scheduled /\ Good(S, {})
  BY <1>1, <1>4, Alive
<1>. QED
  BY <1>2, <1>3, <1>4, <1>5

\* A ring that is not empty has a first entry.
LEMMA HeadEntry ==
  ASSUME Inv, NEW js \in Slots, rb[js] # <<>>
  PROVE  /\ 1 \in 1..Len(rb[js]) /\ Head(rb[js]) = rb[js][1]
<1>1. S \in HwStates /\ rb[js] \in Seq(Atoms)
  <2>1. S \in HwStates
    BY DEF Inv, Whole
  <2>. QED
    BY <2>1, HwIs, SIs
<1>. QED
  BY <1>1, TailIs

\* Giving a head back to the scheduler keeps the invariant.
LEMMA ReturnHeadKeeps ==
  ASSUME Inv, NEW js \in Slots, ReturnHead(js)
  PROVE  Inv'
<1>. DEFINE h == rb[js][1]
<1>1. rb[js] # <<>> /\ 1 \in 1..Len(rb[js]) /\ Head(rb[js]) = h /\ atom[h].rbState = "return"
  BY HeadEntry DEF ReturnHead, MustReturn
<1>2. /\ Good(S, {}) /\ scheduled /\ Len(rb[js]) \in 1..2
  BY <1>1, EntryIs
<1>3. Len(S.rb[js]) # 2
  BY <1>1, <1>2, SIs DEF Good, HwInv, Rings, Pair
<1>4. PICK d : d = Dequeue(S, js)
  OBVIOUS
<1>5. S \in HwStates /\ Dequeues(S, d, js)
  BY <1>1, <1>2, <1>4, DequeueIs, SIs, GoodHw
<1>6. Steps(S, ReturnToJs(d, h))
  BY <1>1, <1>2, <1>3, <1>5, ReturnGood, SIs
<1>. QED
  BY <1>1, <1>2, <1>4, <1>6, SlotKeeps DEF ReturnHead

\* Writing a job to the slot's registers keeps the invariant.
LEMMA SubmitHwKeeps ==
  ASSUME Inv, NEW js \in Slots, NEW i \in 1..Len(rb[js]), SubmitHw(js, i)
  PROVE  Inv'
<1>. DEFINE a == rb[js][i]
<1>1. /\ atom[a].rbState = "ready" /\ (i = 2 => atom[rb[js][1]].rbState = "submitted")
      /\ Becomes(SetRbState(S, a, "submitted")) /\ UNCHANGED <<jd, worker, userVars, ctxVars>>
  BY DEF SubmitHw, SetRbState
<1>2. /\ Good(S, {}) /\ scheduled /\ a \in Atoms /\ i \in {1, 2} /\ i <= Len(rb[js])
      /\ Len(rb[js]) \in 1..2
  BY EntryIs
<1>3. \A b \in Atoms : atom[b].rbState \in {"ready", "submitted"} => ~atom[b].wf
  BY <1>2, SIs DEF Good, HwInv, Rings
<1>4. Len(rb[js]) = 2 => rb[js][1] \in Atoms
  <2>1. 1 \in 1..Len(rb[js])
    BY <1>2
  <2>. QED
    BY <2>1, EntryIs
<1>5. RbSet(S, {}, a, "submitted", SetRbState(S, a, "submitted"))
  <2>1. ~S.atom[a].wf
    BY <1>1, <1>2, <1>3, SIs
  <2>2. Len(S.rb[js]) = 2 /\ i = 2 => /\ S.atom[S.rb[js][1]].rbState = "submitted"
                                      /\ ~S.atom[S.rb[js][1]].wf
    BY <1>1, <1>3, <1>4, SIs
  <2>3. i <= Len(S.rb[js]) /\ a = S.rb[js][i] /\ "submitted" \in RbStates \ {"none"}
    BY <1>2, SIs DEF RbStates
  <2>. HIDE DEF a
  <2>. QED
    BY <1>2, <2>1, <2>2, <2>3, SetRbGood
<1>. QED
  BY <1>1, <1>2, <1>5, SlotKeeps DEF RbSet, Steps

\* kbase_gpu_complete_hw keeps the invariant.
LEMMA CompleteHwKeeps ==
  ASSUME Inv, NEW js \in Slots, NEW event \in {"done", "fail"}, CompleteHw(js, event)
  PROVE  Inv'
<1>1. rb[js] # <<>> /\ atom[rb[js][1]].rbState = "submitted" /\ Becomes(Finish(S, js, event))
      /\ UNCHANGED <<jd, worker, userVars, ctxVars>>
  BY SIs DEF CompleteHw, Finish, SetEvent
<1>2. Good(S, {}) /\ scheduled
  BY <1>1, HeadEntry, EntryIs
<1>3. Steps(S, Finish(S, js, event))
  BY <1>1, <1>2, FinishGood, SIs
<1>. QED
  BY <1>1, <1>2, <1>3, SlotKeeps

\* kbase_js_pull keeps the invariant.
LEMMA PullKeeps ==
  ASSUME Inv, NEW js \in Slots, Pull(js)
  PROVE  Inv'
<1>. DEFINE a == Peek(S, js)
            st == [S EXCEPT !.tree = @ \ {a}, !.rb[js] = Append(@, a), !.atom[a].rbState = "waiting"]
<1>1. /\ Settled /\ scheduled /\ Len(rb[js]) < 2 /\ a # NoAtom /\ Becomes(st)
      /\ UNCHANGED <<jd, worker, userVars, ctxVars>>
  BY DEF Pull
<1>2. Good(S, {}) /\ \A i \in DOMAIN S.wq : S.wq[i].job # "cancel"
  BY <1>1, WholeGood DEF Inv, Gone
<1>3. S \in HwStates /\ a \in Atoms
  BY <1>1, <1>2, GoodHw, PeekIs
<1>4. Len(S.rb[js]) = 1 => S.atom[S.rb[js][1]].rbState # "return"
  <2>1. rb[js] # <<>> => Head(rb[js]) = rb[js][1]
    BY HeadEntry
  <2>2. Len(rb[js]) = 1 => rb[js] # <<>>
    <3>1. rb[js] \in Seq(Atoms)
      BY <1>3, HwIs, SIs
    <3>2. rb[js] = <<>> <=> Len(rb[js]) = 0
      BY <3>1, SeqIs
    <3>. QED
      BY <3>2
  <2>. QED
    BY <2>1, <2>2, <1>1, SIs DEF Settled, MustReturn
<1>5. Pulls(S, st, js, a)
  BY <1>3, PullIs
<1>6. Steps(S, st)
  <2>. HIDE DEF st
  <2>. QED
    BY <1>1, <1>2, <1>3, <1>4, <1>5, PullGood, SIs DEF Steps
<1>. QED
  BY <1>1, <1>6, SlotKeeps

\* An atom returned unrun was marked while it waited.
LEMMA LeaveWaitingKeeps ==
  ASSUME Inv, NEW js \in Slots, NEW i \in 1..Len(rb[js]), LeaveWaiting(js, i)
  PROVE  Inv'
<1>. DEFINE a == rb[js][i]
            done == [S EXCEPT !.atom[a].event = "done", !.atom[a].rbState = "return"]
            e == SetEvent(S, a, "done")
<1>1. /\ atom[a].rbState = "waiting" /\ UNCHANGED <<jd, worker, userVars, ctxVars>>
      /\ i = 2 /\ atom[rb[js][1]].rbState = "waiting" => ~atom[rb[js][1]].wf
  BY DEF LeaveWaiting
<1>2. /\ ~atom[a].wf => Becomes(SetRbState(S, a, "ready"))
      /\ atom[a].wf /\ i = 1 => Becomes(ReturnToJs(Dequeue(done, js), a))
      /\ atom[a].wf /\ i = 2 => Becomes(done)
  BY DEF LeaveWaiting, SetRbState
<1>3. /\ Good(S, {}) /\ scheduled /\ a \in Atoms /\ i \in {1, 2} /\ i <= Len(S.rb[js])
      /\ Len(S.rb[js]) \in 1..2 /\ a = S.rb[js][i] /\ S.rb[js] # <<>> /\ S.atom[a].status = "in_js"
      /\ Len(S.rb[js]) = 2 \/ i = 1
  BY EntryIs, SIs
<1>4. S \in HwStates /\ S.atom[a] \in AtomRecords /\ S.atom[a].wf \in BOOLEAN
  BY <1>3, GoodHw, AtomIs, AtomTypes
<1>5. /\ \A b \in Atoms : S.atom[b].rbState \in {"ready", "submitted"} => ~S.atom[b].wf
      /\ Len(S.rb[js]) = 2 => Pair(S.atom[S.rb[js][1]], S.atom[S.rb[js][2]])
  BY <1>3 DEF Good, HwInv, Rings
<1>6. S.rb[js][1] \in Atoms /\ S.atom[S.rb[js][1]].rbState \in RbStates \ {"none"}
  <2>1. 1 \in 1..Len(rb[js])
    BY <1>3, SIs
  <2>2. rb[js][1] \in Atoms /\ InRb(S, rb[js][1])
    BY <2>1, EntryIs
  <2>3. S.atom[rb[js][1]].rbState \in RbStates
    BY <1>4, <2>2, AtomIs, AtomTypes
  <2>. QED
    BY <2>2, <2>3, SIs DEF InRb
<1>7. done = SetRbState(e, a, "return")
  BY <1>3, <1>4, Zenon DEF SetRbState, SetEvent, HwStates
<1>8. CASE ~atom[a].wf
  <2>1. RbSet(S, {}, a, "ready", SetRbState(S, a, "ready"))
    <3>1. Len(S.rb[js]) = 2 /\ i = 1 => S.atom[S.rb[js][2]].rbState # "submitted"
      BY <1>1, <1>3, <1>5, SIs DEF Pair
    <3>2. Len(S.rb[js]) = 2 /\ i = 2 => ~S.atom[S.rb[js][1]].wf
      BY <1>1, <1>5, <1>6, SIs DEF Pair, RbStates
    <3>3. ~S.atom[a].wf /\ "ready" \in RbStates \ {"none"}
      BY <1>8, SIs DEF RbStates
    <3>. HIDE DEF a
    <3>. QED
      BY <1>3, <3>1, <3>2, <3>3, SetRbGood
  <2>. QED
    BY <1>1, <1>2, <1>3, <1>8, <2>1, SlotKeeps DEF RbSet, Steps
<1>9. CASE atom[a].wf /\ i = 2
  <2>1. Good(done, {}) /\ HwStep(S, done)
    <3>1. Len(S.rb[js]) = 2 /\ a = S.rb[js][2] /\ "done" \in Events
      BY <1>3, <1>9 DEF Events
    <3>. HIDE DEF a, done
    <3>. QED
      BY <1>3, <1>7, <3>1, ToReturnGood
  <2>. HIDE DEF done
  <2>. QED
    BY <1>1, <1>2, <1>3, <1>9, <2>1, SlotKeeps DEF Steps
<1>10. CASE atom[a].wf /\ i = 1
  <2>1. "done" \in Events /\ "return" \in RbStates
    BY DEF Events, RbStates
  <2>2. /\ Good(e, {}) /\ HwStep(S, e) /\ e.rb = S.rb /\ e \in HwStates
        /\ \A b \in Atoms : e.atom[b].rbState = S.atom[b].rbState
    <3>. HIDE DEF a, e
    <3>1. e = SetEvent(S, a, "done")
      BY DEF e
    <3>. QED
      BY <1>3, <2>1, <3>1, EventGood, GoodHw
  <2>3. e.atom[a].event = "done"
    <3>. HIDE DEF a, e
    <3>1. e = SetEvent(S, a, "done")
      BY DEF e
    <3>. QED
      BY <1>3, <1>4, <2>1, <3>1, EventEdit
  <2>4. Edited(e, done, a) /\ Like(done.atom[a], e.atom[a])
    <3>. HIDE DEF a, e, done
    <3>1. /\ Edited(e, done, a) /\ done.atom[a].status = e.atom[a].status
          /\ done.atom[a].event = e.atom[a].event
          /\ done.atom[a].wf = e.atom[a].wf /\ done.atom[a].flags = e.atom[a].flags
      BY <1>3, <1>7, <2>1, <2>2, RbStateEdit
    <3>. QED
      BY <3>1 DEF Like, Edited
  <2>5. PICK d : d = Dequeue(done, js)
    OBVIOUS
  <2>6. Dequeues(e, d, js)
    <3>. HIDE DEF e, done
    <3>1. done \in HwStates /\ done.rb = e.rb /\ done.tree = e.tree /\ done.wq = e.wq
          /\ done.submit = e.submit /\ \A b \in Atoms : b # a => done.atom[b] = e.atom[b]
      BY <2>4 DEF Edited
    <3>2. done.rb[js] # <<>> /\ done.rb[js][1] = a
      BY <1>3, <1>10, <2>2, <3>1
    <3>3. Dequeues(done, d, js)
      BY <2>5, <3>1, <3>2, DequeueIs
    <3>4. Like(d.atom[a], e.atom[a])
      <4>1. Like(d.atom[a], done.atom[a])
        BY <3>2, <3>3 DEF Dequeues
      <4>. HIDE DEF a
      <4>. QED
        BY <4>1, <2>4 DEF Like, Fixed
    <3>. HIDE DEF a
    <3>. QED
      BY <3>1, <3>2, <3>3, <3>4 DEF Dequeues
  <2>7. Len(e.rb[js]) = 2 => /\ e.atom[e.rb[js][2]].rbState \notin {"ready", "submitted"}
                             /\ d.atom[a].event # "stopped"
    <3>1. Len(S.rb[js]) = 2 => S.atom[S.rb[js][2]].rbState \in {"waiting", "return"} /\ S.rb[js][2] \in Atoms
      <4>1. Len(rb[js]) = 2 => 2 \in 1..Len(rb[js])
        OBVIOUS
      <4>2. Len(rb[js]) = 2 => rb[js][2] \in Atoms
        BY <4>1, EntryIs
      <4>. QED
        BY <1>3, <1>5, <1>10, <4>2, SIs DEF Pair
    <3>2. d.atom[a].event = "done"
      <4>1. e.rb[js][1] = a
        BY <1>3, <1>10, <2>2
      <4>. HIDE DEF e, a
      <4>. QED
        BY <4>1, <2>3, <2>6 DEF Dequeues, Like
    <3>. HIDE DEF e, a
    <3>. QED
      BY <3>1, <3>2, <2>2
  <2>8. Steps(e, ReturnToJs(d, a))
    <3>1. a = e.rb[js][1] /\ e.rb[js] # <<>>
      BY <1>3, <1>10, <2>2
    <3>. HIDE DEF a, e
    <3>. QED
      BY <2>2, <2>6, <2>7, <3>1, ReturnGood
  <2>9. Steps(S, ReturnToJs(d, a))
    <3>. HIDE DEF a, e
    <3>. QED
      BY <1>4, <2>2, <2>8, StepsTrans
  <2>10. Becomes(ReturnToJs(d, a))
    BY <1>2, <1>10, <2>5
  <2>. HIDE DEF a
  <2>. QED
    BY <1>1, <1>3, <2>9, <2>10, SlotKeeps
<1>. QED
  BY <1>3, <1>8, <1>9, <1>10

\* Every step under hwaccess_lock alone keeps the invariant.
LEMMA HardwareKeeps ==
  ASSUME Inv, Hardware
  PROVE  Inv'
BY ReturnHeadKeeps, LeaveWaitingKeeps, SubmitHwKeeps, CompleteHwKeeps DEF Hardware

-----------------------------------------------------------------------------
(* Steps of the dispatcher and the work queue that move no atom the         *)
(* scheduler has: an atom stays, changes outside the scheduler, or leaves    *)
(* with the work item at the head of the queue.                             *)

Stays(q, r) ==
  Fixed(q, r) /\ q.status = r.status /\ (q.wf <=> r.wf) /\ q.flags = r.flags /\ q.rbState = r.rbState
Outer(q, r) ==
  /\ r.status \in {"unused", "queued"} /\ q.status \in {"queued", "completed"}
  /\ q.flags \subseteq {"waiting"} /\ q.rbState = "none"
  /\ q.preDep = NoAtom /\ q.postDep = NoAtom /\ q.xPre = NoAtom /\ q.xPost = NoAtom
Retired(q, r) ==
  Fixed(q, r) /\ q.status = "completed" /\ (q.wf <=> r.wf) /\ q.flags = r.flags /\ q.rbState = r.rbState

Keeps(s, n, b) ==
  \/ Stays(n.atom[b], s.atom[b]) \/ Outer(n.atom[b], s.atom[b])
  \/ /\ Retired(n.atom[b], s.atom[b]) /\ s.wq # <<>> /\ n.wq = Tail(s.wq)
     /\ s.wq[1].job # "return" /\ s.wq[1].id = b
WorkKept(s, n) ==
  \/ n.wq = s.wq
  \/ s.wq # <<>> /\ n.wq = Tail(s.wq)
     /\ (s.wq[1].job = "return" \/ n.atom[s.wq[1].id].status = "completed")

\* The work queue with k items taken from its head.
Shifts(s, n, k) ==
  /\ DOMAIN s.wq = 1..Len(s.wq) /\ Len(s.wq) \in Nat /\ DOMAIN n.wq = 1..(Len(s.wq) - k)
  /\ \A i \in DOMAIN n.wq : i + k \in DOMAIN s.wq /\ n.wq[i] = s.wq[i + k]
  /\ k = 1 => /\ 1 \in DOMAIN s.wq
              /\ s.wq[1].job = "return" \/ n.atom[s.wq[1].id].status = "completed"
  /\ k = 0 => n.wq = s.wq

\* The work queue stays as it is or loses its first entry.
LEMMA ShiftIs ==
  ASSUME NEW s \in HwStates, NEW n, WorkKept(s, n)
  PROVE  /\ Shifts(s, n, 0) \/ Shifts(s, n, 1)
         /\ s.wq # <<>> /\ n.wq = Tail(s.wq) => Shifts(s, n, 1)
<1>1. s.wq \in Seq(Items)
  BY HwIs
<1>2. DOMAIN s.wq = 1..Len(s.wq) /\ Len(s.wq) \in Nat
  BY <1>1, SeqIs
<1>3. CASE n.wq = s.wq
  <2>1. PICK l : l = Len(s.wq)
    OBVIOUS
  <2>2. l \in Nat /\ 1..(l - 0) = 1..l
    BY <1>2, <2>1
  <2>3. \A i \in 1..l : i + 0 = i
    OBVIOUS
  <2>4. DOMAIN n.wq = 1..(Len(s.wq) - 0)
    <3>1. DOMAIN n.wq = 1..l
      BY <1>2, <1>3, <2>1
    <3>. QED
      BY <3>1, <2>1, <2>2
  <2>5. \A i \in DOMAIN n.wq : i + 0 \in DOMAIN s.wq /\ n.wq[i] = s.wq[i + 0]
    BY <1>2, <1>3, <2>1, <2>3
  <2>6. Shifts(s, n, 0)
    BY <1>2, <1>3, <2>4, <2>5 DEF Shifts
  <2>7. s.wq # <<>> => n.wq # Tail(s.wq)
    <3>1. s.wq # <<>> => Len(Tail(s.wq)) = Len(s.wq) - 1
      BY <1>1, TailIs
    <3>2. Len(s.wq) # Len(s.wq) - 1
      BY <2>1, <2>2
    <3>. QED
      BY <1>3, <3>1, <3>2
  <2>. QED
    BY <2>6, <2>7
<1>4. s.wq # <<>> /\ n.wq = Tail(s.wq) => n.wq # s.wq
  <2>1. s.wq # <<>> => Len(Tail(s.wq)) = Len(s.wq) - 1
    BY <1>1, TailIs
  <2>2. PICK l : l = Len(s.wq)
    OBVIOUS
  <2>3. l # l - 1
    BY <1>2, <2>2
  <2>. QED
    BY <2>1, <2>2, <2>3
<1>5. CASE s.wq # <<>> /\ n.wq = Tail(s.wq)
  <2>1. /\ Len(s.wq) \in Nat \ {0} /\ DOMAIN n.wq = 1..(Len(s.wq) - 1)
        /\ \A i \in 1..(Len(s.wq) - 1) : n.wq[i] = s.wq[i + 1]
    BY <1>1, <1>5, TailIs
  <2>2. s.wq[1].job = "return" \/ n.atom[s.wq[1].id].status = "completed"
    BY <1>4, <1>5 DEF WorkKept
  <2>3. 1 \in DOMAIN s.wq /\ \A i \in DOMAIN n.wq : i + 1 \in DOMAIN s.wq
    BY <1>2, <2>1
  <2>. QED
    BY <1>2, <2>1, <2>2, <2>3 DEF Shifts
<1>. QED
  BY <1>3, <1>4, <1>5 DEF WorkKept

\* What such a step leaves true of an atom.
Kept(s, n, b) ==
  /\ Fed(s, b) => Fed(n, b)
  /\ Ended(s, b) => Ended(n, b)
  /\ Pending(n, b) => Pending(s, b)
  /\ Pending(s, b) => Pending(n, b) \/ n.atom[b].status = "completed"
  /\ InRb(n, b) <=> InRb(s, b)
  /\ InX(n, b) <=> InX(s, b)
  /\ Blocked(n, b) <=> Blocked(s, b)
  /\ Known(n, b) <=> Known(s, b)
  /\ n.atom[b].preDep = s.atom[b].preDep /\ n.atom[b].postDep = s.atom[b].postDep
  /\ n.atom[b].xPre = s.atom[b].xPre /\ n.atom[b].xPost = s.atom[b].xPost
  /\ Known(s, b) \/ InRb(s, b) \/ InX(s, b) => n.atom[b].kind = s.atom[b].kind
  /\ InRb(s, b) => /\ n.atom[b].rbState = s.atom[b].rbState /\ (n.atom[b].wf <=> s.atom[b].wf)
                   /\ n.atom[b].status = s.atom[b].status
  /\ InX(s, b) /\ ~Pending(s, b) => n.atom[b].status = s.atom[b].status
  /\ n.atom[b].preDep # NoAtom \/ n.atom[b].xPre # NoAtom => n.atom[b].kind = s.atom[b].kind
  /\ n.atom[b].status = "in_js" => s.atom[b].status = "in_js"
  /\ Known(s, b) => n.atom[b].status \in {s.atom[b].status, "completed"}
  /\ n.atom[b].status \in {"unused", "queued"} => s.atom[b].status \in {"unused", "queued"}
  /\ s.atom[b].status \in {"unused", "queued"} =>
       n.atom[b].flags \subseteq {"waiting"} /\ ~InRb(n, b)
  /\ s.atom[b].status \in {"in_js", "hw_completed"} /\ n.atom[b].status # s.atom[b].status =>
       s.wq # <<>> /\ n.wq = Tail(s.wq) /\ s.wq[1].job # "return" /\ s.wq[1].id = b

\* What a step of the dispatcher leaves of an atom that it does not touch.
LEMMA KeptIs ==
  ASSUME NEW s \in HwStates, HwInv(s, {}), NEW n \in HwStates, NEW b \in Atoms, Keeps(s, n, b), WorkKept(s, n)
  PROVE  Kept(s, n, b)
<1>1. /\ s.atom[b].status \in {"unused", "queued"} =>
           /\ s.atom[b].flags \subseteq {"waiting"} /\ s.atom[b].rbState = "none"
           /\ s.atom[b].preDep = NoAtom /\ s.atom[b].xPre = NoAtom
           /\ s.atom[b].postDep = NoAtom /\ s.atom[b].xPost = NoAtom
  <2>1. Seen(s, b) /\ Unseen(s)
    BY DEF HwInv, Linked
  <2>. QED
    BY <2>1 DEF Seen, Unseen, Known, InRb
<1>2. /\ Pending(n, b) => Pending(s, b)
      /\ Pending(s, b) => Pending(n, b) \/ n.atom[b].status = "completed"
  <2>1. CASE Shifts(s, n, 0)
    BY <2>1 DEF Shifts, Pending
  <2>2. CASE Shifts(s, n, 1)
    <3>1. Pending(n, b) => Pending(s, b)
      BY <2>2 DEF Shifts, Pending
    <3>2. ASSUME NEW i \in DOMAIN s.wq, s.wq[i].job # "return", s.wq[i].id = b
          PROVE  Pending(n, b) \/ n.atom[b].status = "completed"
      <4>1. CASE i = 1
        BY <2>2, <3>2, <4>1 DEF Shifts
      <4>2. CASE i # 1
        <5>1. i - 1 \in DOMAIN n.wq /\ n.wq[i - 1] = s.wq[i]
          BY <2>2, <4>2 DEF Shifts
        <5>. QED
          BY <3>2, <5>1 DEF Pending
      <4>. QED
        BY <4>1, <4>2
    <3>. QED
      BY <3>1, <3>2 DEF Pending
  <2>. QED
    BY <2>1, <2>2, ShiftIs
<1>3. CASE Stays(n.atom[b], s.atom[b])
  BY <1>1, <1>2, <1>3 DEF Stays, Fixed, Kept, Fed, Ended, InRb, InX, Blocked, Known
<1>4. CASE Outer(n.atom[b], s.atom[b])
  BY <1>1, <1>2, <1>4 DEF Outer, Kept, Fed, Ended, InRb, InX, Blocked, Known
<1>5. CASE /\ Retired(n.atom[b], s.atom[b]) /\ s.wq # <<>> /\ n.wq = Tail(s.wq)
           /\ s.wq[1].job # "return" /\ s.wq[1].id = b
  <2>1. Pending(s, b)
    <3>1. 1 \in DOMAIN s.wq
      BY <1>5, ShiftIs DEF Shifts
    <3>. QED
      BY <1>5, <3>1 DEF Pending
  <2>2. ~Fed(s, b)
    BY <2>1 DEF Fed
  <2>3. ~InRb(s, b)
    BY <2>2 DEF HwInv, InRing
  <2>4. s.atom[b].status \in {"hw_completed", "in_js"}
    <3>1. 1 \in DOMAIN s.wq
      BY <1>5, ShiftIs DEF Shifts
    <3>2. s.wq[1].job \in {"done", "cancel"}
      BY <1>5, <3>1, WorkIs DEF Items
    <3>. QED
      BY <1>5, <3>1, <3>2 DEF HwInv, InWork
  <2>. QED
    BY <1>2, <1>5, <2>1, <2>2, <2>3, <2>4 DEF Retired, Fixed, Kept, Fed, Ended, InRb, InX, Blocked, Known
<1>. QED
  BY <1>3, <1>4, <1>5 DEF Keeps

AllKept(s, n) ==
  /\ s \in HwStates /\ n \in HwStates /\ HwInv(s, {}) /\ n.tree = s.tree /\ n.rb = s.rb
  /\ WorkKept(s, n) /\ \A b \in Atoms : Keeps(s, n, b)

\* Kept atoms are where their flags say they are.
LEMMA KeptPlaces ==
  ASSUME NEW s, NEW n, AllKept(s, n), \A b \in Atoms : Kept(s, n, b)
  PROVE  /\ InTree(n, {}) /\ InLimbo(n, {}) /\ InRing(n) /\ InList(n) /\ Somewhere(n, {}) /\ Ringed(n)
<1>1. s \in HwStates /\ n \in HwStates /\ n.tree = s.tree /\ n.rb = s.rb /\ s.tree \subseteq Atoms
  BY HwIs DEF AllKept
<1>2. InTree(s, {}) /\ InRing(s) /\ InList(s) /\ Somewhere(s, {}) /\ Ringed(s)
  BY DEF AllKept, HwInv
<1>3. InTree(n, {})
  BY <1>1, <1>2 DEF InTree, Kept
<1>4. InRing(n)
  <2>1. ASSUME NEW a \in Atoms, InRb(n, a)
        PROVE  Fed(n, a) /\ \E i \in DOMAIN n.rb[n.atom[a].kind] : n.rb[n.atom[a].kind][i] = a
    <3>1. InRb(s, a) /\ n.atom[a].kind = s.atom[a].kind /\ (Fed(s, a) => Fed(n, a))
      BY <2>1 DEF Kept
    <3>. QED
      BY <1>1, <1>2, <3>1 DEF InRing
  <2>. QED
    BY <2>1 DEF InRing
<1>5. InList(n)
  <2>1. ASSUME NEW a \in Atoms, InX(n, a)
        PROVE  /\ n.atom[a].status = "in_js" /\ n.atom[a].kind \in Slots
               /\ ~Known(n, a) /\ ~InRb(n, a) /\ ~Pending(n, a) /\ Blocked(n, a)
    <3>1. Kept(s, n, a) /\ InX(s, a)
      BY <2>1 DEF Kept
    <3>2. /\ s.atom[a].status = "in_js" /\ s.atom[a].kind \in Slots
          /\ ~Known(s, a) /\ ~InRb(s, a) /\ ~Pending(s, a) /\ Blocked(s, a)
      BY <1>2, <3>1 DEF InList
    <3>. QED
      BY <3>1, <3>2 DEF Kept
  <2>. QED
    BY <2>1 DEF InList
<1>6. Somewhere(n, {})
  <2>1. ASSUME NEW a \in Atoms, n.atom[a].status = "in_js"
        PROVE  a \in n.tree \/ InX(n, a) \/ InRb(n, a) \/ Pending(n, a)
    <3>1. Kept(s, n, a) /\ s.atom[a].status = "in_js"
      BY <2>1 DEF Kept
    <3>2. a \in s.tree \/ InX(s, a) \/ InRb(s, a) \/ Pending(s, a)
      BY <1>2, <3>1 DEF Somewhere
    <3>. QED
      BY <1>1, <2>1, <3>1, <3>2 DEF Kept
  <2>. QED
    BY <2>1 DEF Somewhere
<1>7. Ringed(n)
  <2>1. ASSUME NEW js \in Slots, NEW i \in DOMAIN s.rb[js]
        PROVE  n.atom[s.rb[js][i]].kind = js /\ InRb(n, s.rb[js][i])
    <3>1. s.rb[js] \in Seq(Atoms)
      BY <1>1, HwIs
    <3>2. s.rb[js][i] \in Atoms
      BY <3>1, SeqIs
    <3>3. s.atom[s.rb[js][i]].kind = js /\ InRb(s, s.rb[js][i])
      BY <1>2 DEF Ringed
    <3>. QED
      BY <3>2, <3>3 DEF Kept
  <2>. QED
    BY <1>1, <1>2, <2>1 DEF Ringed
<1>. QED
  BY <1>3, <1>4, <1>5, <1>6, <1>7 DEF InLimbo

\* Kept work is for atoms that wait for it.
LEMMA KeptWork ==
  ASSUME NEW s, NEW n, AllKept(s, n), \A b \in Atoms : Kept(s, n, b)
  PROVE  InWork(n)
<1>1. s \in HwStates /\ n \in HwStates /\ InWork(s) /\ WorkKept(s, n)
  BY DEF AllKept, HwInv
<1>2. PICK k \in {0, 1} : Shifts(s, n, k)
  BY <1>1, ShiftIs
<1>3. ASSUME NEW i \in DOMAIN n.wq
      PROVE  /\ i + k \in DOMAIN s.wq /\ n.wq[i] = s.wq[i + k] /\ i \in Int /\ i >= 1
             /\ s.wq[i + k].id \in Atoms
  <2>1. i + k \in DOMAIN s.wq /\ n.wq[i] = s.wq[i + k] /\ i \in Int /\ i >= 1
    BY <1>2 DEF Shifts
  <2>. QED
    BY <1>1, <2>1, WorkIs
<1>4. ASSUME NEW i \in DOMAIN n.wq
      PROVE  /\ n.wq[i].job = "done" => n.atom[n.wq[i].id].status = "hw_completed"
             /\ n.wq[i].job = "cancel" => n.atom[n.wq[i].id].status = "in_js"
  <2>. DEFINE a == n.wq[i].id
  <2>1. /\ i + k \in DOMAIN s.wq /\ n.wq[i] = s.wq[i + k] /\ i \in Int /\ i >= 1 /\ a \in Atoms
    BY <1>3
  <2>2. /\ n.wq[i].job = "done" => s.atom[a].status = "hw_completed"
        /\ n.wq[i].job = "cancel" => s.atom[a].status = "in_js"
    BY <1>1, <2>1 DEF InWork
  <2>3. Kept(s, n, a)
    BY <2>1
  <2>4. ASSUME n.wq[i].job \in {"done", "cancel"}, n.atom[a].status # s.atom[a].status PROVE FALSE
    <3>1. s.wq # <<>> /\ n.wq = Tail(s.wq) /\ s.wq[1].job # "return" /\ s.wq[1].id = a
      BY <2>2, <2>3, <2>4, Zenon DEF Kept
    <3>2. Shifts(s, n, 1)
      BY <1>1, <3>1, ShiftIs
    <3>3. 1 \in DOMAIN s.wq /\ i + 1 \in DOMAIN s.wq /\ n.wq[i] = s.wq[i + 1]
      BY <3>2, Zenon DEF Shifts
    <3>4. i + 1 = 1
      BY <1>1, <2>4, <3>1, <3>3 DEF InWork
    <3>. QED
      BY <2>1, <3>4, SMTT(30)
  <2>. HIDE DEF a
  <2>5. n.wq[i].job \in {"done", "cancel"} => n.atom[a].status = s.atom[a].status
    BY <2>4
  <2>. QED
    BY <2>2, <2>5 DEF a
<1>5. ASSUME NEW i \in DOMAIN n.wq, NEW l \in DOMAIN n.wq,
             n.wq[i].job # "return", n.wq[l].job # "return", n.wq[i].id = n.wq[l].id
      PROVE  i = l
  <2>1. /\ i + k \in DOMAIN s.wq /\ n.wq[i] = s.wq[i + k] /\ i \in Int
        /\ l + k \in DOMAIN s.wq /\ n.wq[l] = s.wq[l + k] /\ l \in Int
    BY <1>3
  <2>2. i + k = l + k
    BY <1>1, <1>5, <2>1 DEF InWork
  <2>3. k \in Int /\ i \in Int /\ l \in Int
    BY <1>2, <2>1
  <2>4. \A x, y, z \in Int : x + z = y + z => x = y
    OBVIOUS
  <2>. QED
    BY <2>2, <2>3, <2>4, Zenon
<1>. QED
  BY <1>4, <1>5 DEF InWork

\* Kept atoms keep their links, in the rings too.
LEMMA KeptLinks ==
  ASSUME NEW s, NEW n, AllKept(s, n), \A b \in Atoms : Kept(s, n, b)
  PROVE  Linked(n) /\ Unseen(n) /\ Behind(n, {})
<1>1. s \in HwStates /\ n \in HwStates /\ n.rb = s.rb /\ Linked(s) /\ Unseen(s) /\ Behind(s, {}) /\ Ringed(s)
  BY DEF AllKept, HwInv
<1>2. ASSUME NEW a \in Atoms PROVE Seen(n, a) /\ PreLinked(n, a) /\ XLinked(n, a) /\ PostLinked(n, a)
  <2>1. Seen(s, a) /\ PreLinked(s, a) /\ XLinked(s, a) /\ PostLinked(s, a) /\ Kept(s, n, a)
    BY <1>1 DEF Linked
  <2>2. /\ s.atom[a].preDep \in Atoms \cup {NoAtom} /\ s.atom[a].postDep \in Atoms \cup {NoAtom}
        /\ s.atom[a].xPre \in Atoms \cup {NoAtom} /\ s.atom[a].xPost \in Atoms \cup {NoAtom}
    BY <1>1, LinkTypes
  <2>3. Seen(n, a)
    BY <2>1 DEF Seen, Kept
  <2>4. PostLinked(n, a)
    BY <2>1, <2>2 DEF PostLinked, Kept
  <2>5. PreLinked(n, a)
    <3>. DEFINE b == s.atom[a].preDep
    <3>1. n.atom[a].preDep = b
      BY <2>1, Zenon DEF Kept
    <3>2. ASSUME b # NoAtom PROVE b < a /\ n.atom[b].kind = n.atom[a].kind /\ n.atom[b].postDep = a
      <4>1. b \in Atoms /\ b < a /\ s.atom[b].kind = s.atom[a].kind /\ s.atom[b].postDep = a
        BY <2>1, <2>2, <3>2 DEF PreLinked
      <4>2. Known(s, b) /\ a # NoAtom
        BY <1>1, <4>1, NotAtom DEF Linked, Seen
      <4>. QED
        BY <2>1, <3>1, <3>2, <4>1, <4>2 DEF Kept
    <3>. QED
      BY <3>1, <3>2 DEF PreLinked
  <2>6. XLinked(n, a)
    <3>. DEFINE b == s.atom[a].xPre
    <3>1. n.atom[a].xPre = b
      BY <2>1, Z3T(30) DEF Kept
    <3>2. ASSUME b # NoAtom
          PROVE  /\ b < a /\ n.atom[b].kind # n.atom[a].kind /\ n.atom[b].xPost = a
                 /\ Blocked(n, a) \/ Ended(n, b)
      <4>1. /\ b \in Atoms /\ b < a /\ s.atom[b].kind # s.atom[a].kind /\ s.atom[b].xPost = a
            /\ Blocked(s, a) \/ Ended(s, b)
        BY <2>1, <2>2, <3>2 DEF XLinked
      <4>2. Known(s, b) /\ a # NoAtom
        BY <1>1, <4>1, NotAtom DEF Linked, Seen
      <4>. QED
        BY <2>1, <3>1, <3>2, <4>1, <4>2 DEF Kept
    <3>. QED
      BY <3>1, <3>2 DEF XLinked
  <2>. QED
    BY <2>3, <2>4, <2>5, <2>6
<1>3. Unseen(n)
  BY <1>1 DEF Unseen, Kept
<1>4. ASSUME NEW js \in Slots, NEW i \in DOMAIN n.rb[js] PROVE Follower(n, {}, js, i)
  <2>. DEFINE p == s.rb[js][i]
              b == s.atom[p].preDep
  <2>1. p \in Atoms
    <3>1. s.rb[js] \in Seq(Atoms)
      BY <1>1, HwIs
    <3>. QED
      BY <1>1, <1>4, <3>1, SeqIs
  <2>2. n.atom[p].preDep = b /\ b \in Atoms \cup {NoAtom}
    BY <1>1, <2>1, LinkTypes DEF Kept
  <2>3. Follower(s, {}, js, i)
    BY <1>1, <1>4, Z3T(30) DEF Behind
  <2>4. b # NoAtom => (Ended(s, b) => Ended(n, b))
    BY <2>2 DEF Kept
  <2>. QED
    BY <1>1, <2>2, <2>3, <2>4 DEF Follower
<1>. QED
  BY <1>2, <1>3, <1>4 DEF Linked, Behind

\* A step that keeps every atom keeps the invariant of the hardware side.
LEMMA KeptGood ==
  ASSUME NEW s, NEW n, AllKept(s, n)
  PROVE  /\ HwInv(n, {})
         /\ Clear(s) => Clear(n)
         /\ InTurn(s) /\ (\A i \in DOMAIN s.wq : s.wq[i].job # "cancel") => InTurn(n)
         /\ (\A i \in DOMAIN s.wq : s.wq[i].job # "cancel") => (\A i \in DOMAIN n.wq : n.wq[i].job # "cancel")
         /\ \A b \in Atoms : Kept(s, n, b)
<1>1. s \in HwStates /\ n \in HwStates /\ n.rb = s.rb /\ HwInv(s, {}) /\ WorkKept(s, n)
  BY DEF AllKept
<1>2. ASSUME NEW b \in Atoms PROVE Kept(s, n, b)
  BY <1>1, KeptIs DEF AllKept
<1>3. Rings(n)
  <2>1. Rings(s) /\ Ringed(s)
    BY <1>1 DEF HwInv
  <2>2. ASSUME NEW a \in Atoms, n.atom[a].rbState \in {"ready", "submitted"} PROVE ~n.atom[a].wf
    <3>1. Kept(s, n, a) /\ InRb(n, a)
      BY <1>2, <2>2 DEF InRb
    <3>2. n.atom[a].rbState = s.atom[a].rbState /\ (n.atom[a].wf <=> s.atom[a].wf)
      BY <3>1, Zenon DEF Kept
    <3>. QED
      BY <2>1, <2>2, <3>2 DEF Rings
  <2>3. ASSUME NEW js \in Slots, Len(n.rb[js]) = 2 PROVE Pair(n.atom[n.rb[js][1]], n.atom[n.rb[js][2]])
    <3>1. 1 \in DOMAIN s.rb[js] /\ 2 \in DOMAIN s.rb[js] /\ Len(s.rb[js]) = 2
      BY <1>1, <2>3, RingIs
    <3>2. /\ s.rb[js][1] \in Atoms /\ InRb(s, s.rb[js][1])
          /\ s.rb[js][2] \in Atoms /\ InRb(s, s.rb[js][2])
      BY <1>1, <3>1, RingIs
    <3>3. Pair(s.atom[s.rb[js][1]], s.atom[s.rb[js][2]])
      BY <2>1, <3>1 DEF Rings
    <3>4. /\ n.atom[s.rb[js][1]].rbState = s.atom[s.rb[js][1]].rbState
          /\ n.atom[s.rb[js][2]].rbState = s.atom[s.rb[js][2]].rbState
          /\ n.atom[s.rb[js][1]].wf <=> s.atom[s.rb[js][1]].wf
      BY <1>2, <3>2 DEF Kept
    <3>. QED
      BY <1>1, <3>3, <3>4 DEF Pair
  <2>. QED
    BY <2>2, <2>3 DEF Rings
<1>4. HwInv(n, {})
  BY <1>2, <1>3, KeptPlaces, KeptWork, KeptLinks DEF HwInv
<1>5. Clear(s) => Clear(n)
  BY <1>2 DEF Clear, Kept
<1>6. PICK k \in {0, 1} : Shifts(s, n, k)
  BY <1>1, ShiftIs
<1>7. (\A i \in DOMAIN s.wq : s.wq[i].job # "cancel") => (\A i \in DOMAIN n.wq : n.wq[i].job # "cancel")
  BY <1>6 DEF Shifts
<1>8. ASSUME InTurn(s), \A i \in DOMAIN s.wq : s.wq[i].job # "cancel",
             NEW a \in Atoms, Ended(n, a), n.atom[a].preDep # NoAtom
      PROVE  Ended(n, n.atom[a].preDep)
  <2>1. Kept(s, n, a) /\ Keeps(s, n, a)
    BY <1>2 DEF AllKept
  <2>2. n.atom[a].preDep = s.atom[a].preDep /\ s.atom[a].preDep \in Atoms
    BY <1>1, <1>8, <2>1, LinkTypes DEF Kept
  <2>3. Ended(s, a)
    <3>1. CASE Stays(n.atom[a], s.atom[a])
      BY <1>8, <3>1 DEF Stays, Ended
    <3>2. CASE Outer(n.atom[a], s.atom[a])
      BY <1>8, <3>2 DEF Outer
    <3>3. CASE s.wq # <<>> /\ n.wq = Tail(s.wq) /\ s.wq[1].job # "return" /\ s.wq[1].id = a
      <4>1. 1 \in DOMAIN s.wq
        BY <1>1, <3>3, ShiftIs DEF Shifts
      <4>2. s.wq[1].job = "done"
        BY <1>1, <1>8, <3>3, <4>1, WorkIs DEF Items
      <4>. QED
        BY <1>1, <3>3, <4>1, <4>2 DEF HwInv, InWork, Ended
    <3>. QED
      BY <2>1, <3>1, <3>2, <3>3 DEF Keeps
  <2>4. Ended(s, s.atom[a].preDep)
    BY <1>8, <2>2, <2>3 DEF InTurn
  <2>. QED
    BY <1>2, <2>2, <2>4 DEF Kept
<1>. QED
  BY <1>2, <1>4, <1>5, <1>7, <1>8 DEF InTurn

\* A step that keeps every atom keeps the invariant of the context.
LEMMA KeptCtx ==
  ASSUME NEW s, NEW n, AllKept(s, n), NEW sch, NEW dy, CtxInv(s, sch, dy)
  PROVE  CtxInv(n, sch, dy)
<1>1. \A b \in Atoms : Kept(s, n, b)
  BY KeptGood
<1>2. ~sch => \A a \in Atoms : ~InRb(n, a)
  BY <1>1 DEF CtxInv, Kept
<1>3. Gone(sch, dy) => n.tree = {} /\ \A a \in Atoms : ~InX(n, a)
  BY <1>1 DEF CtxInv, Kept, AllKept
<1>4. ~Gone(sch, dy) => Clear(n) /\ InTurn(n) /\ \A i \in DOMAIN n.wq : n.wq[i].job # "cancel"
  BY KeptGood DEF CtxInv
<1>. QED
  BY <1>2, <1>3, <1>4 DEF CtxInv

\* Steps after which every atom is as the dispatcher and the links knew it.
Idles(s, n) ==
  /\ n \in HwStates /\ n.tree = s.tree /\ n.rb = s.rb /\ WorkKept(s, n)
  /\ \A b \in Atoms : Like(n.atom[b], s.atom[b]) /\ n.atom[b].rbState = s.atom[b].rbState

\* A step that changes no atom keeps every atom.
LEMMA IdlesKept ==
  ASSUME NEW s \in HwStates, HwInv(s, {}), NEW n, Idles(s, n)
  PROVE  AllKept(s, n) /\ AtomSteps(s, n) /\ BlockedIn(s, n)
<1>1. ASSUME NEW b \in Atoms
      PROVE  Keeps(s, n, b) /\ AtomStep(s, n, b) /\ (Blocked(s, b) => Blocked(n, b))
  <2>1. Like(n.atom[b], s.atom[b]) /\ n.atom[b].rbState = s.atom[b].rbState
    BY DEF Idles
  <2>2. Stays(n.atom[b], s.atom[b])
    BY <2>1 DEF Like, Stays
  <2>3. Blocked(s, b) => Blocked(n, b)
    BY <2>1 DEF Like, Blocked
  <2>4. AtomStep(s, n, b)
    BY <2>1, <2>3 DEF Like, AtomStep
  <2>. QED
    BY <2>2, <2>3, <2>4 DEF Keeps
<1>. QED
  BY <1>1 DEF AllKept, AtomSteps, BlockedIn, Idles

\* A step that changes no atom keeps the invariant.
LEMMA IdlesWhole ==
  ASSUME NEW s, NEW j, NEW nx, NEW nr, NEW rep, NEW sch, NEW dy,
         Whole(s, j, nx, nr, rep, sch, dy), NEW n, Idles(s, n)
  PROVE  Whole(n, j, nx, nr, rep, sch, dy)
<1>1. s \in HwStates /\ HwInv(s, {}) /\ CtxInv(s, sch, dy) /\ Disp(s, j, nx, nr, rep, dy) /\ j \in Passes
  BY DEF Whole
<1>2. AllKept(s, n) /\ AtomSteps(s, n) /\ BlockedIn(s, n) /\ n \in HwStates
  BY <1>1, IdlesKept DEF Idles
<1>3. HwInv(n, {}) /\ CtxInv(n, sch, dy)
  BY <1>1, <1>2, KeptGood, KeptCtx
<1>4. Disp(n, j, nx, nr, rep, dy)
  BY <1>1, <1>2, StepDisp
<1>. QED
  BY <1>1, <1>2, <1>3, <1>4 DEF Whole

\* The same atoms in the same places.
LEMMA SameIdles ==
  ASSUME NEW s \in HwStates, NEW n \in HwStates, n.atom = s.atom, n.tree = s.tree, n.rb = s.rb,
         n.wq = s.wq
  PROVE  Idles(s, n)
BY LikeSelf DEF Idles, WorkKept

\* A context without atoms in the slots may be scheduled in or out.
LEMMA CtxMoves ==
  ASSUME NEW s, NEW j, NEW nx, NEW nr, NEW rep, NEW sch \in BOOLEAN,
         Whole(s, j, nx, nr, rep, sch, FALSE), \A a \in Atoms : ~InRb(s, a), NEW sch2 \in BOOLEAN
  PROVE  Whole(s, j, nx, nr, rep, sch2, FALSE)
BY DEF Whole, CtxInv, Gone

\* The parts of the invariant.
LEMMA WholeS ==
  ASSUME Inv
  PROVE  /\ Whole(S, jd, next, jobNr, Reports, scheduled, dying) /\ S \in HwStates /\ HwInv(S, {})
         /\ jd \in Passes /\ TypeInv /\ scheduled \in BOOLEAN /\ dying \in BOOLEAN
         /\ Disp(S, jd, next, jobNr, Reports, dying) /\ CtxInv(S, scheduled, dying)
BY DEF Inv, TypeInv, Whole

\* Nothing is in the slots of a context without references.
LEMMA NoHolders ==
  ASSUME Holders = {}
  PROVE  \A a \in Atoms : ~InRb(S, a)
BY SIs DEF Holders, InRb

\* Allowing submission, or counting work, changes no atom.
LEMMA HwOf ==
  ASSUME S \in HwStates, submit' \in BOOLEAN, workCount' \in Int, UNCHANGED <<atom, tree, rb, wq>>
  PROVE  S' \in HwStates /\ Idles(S, S')
<1>1. S' = [atom |-> atom, tree |-> tree, rb |-> rb, wq |-> wq, submit |-> submit', workCount |-> workCount']
  BY DEF S
<1>2. /\ atom \in [Atoms -> AtomRecords] /\ tree \in SUBSET Atoms /\ rb \in [Slots -> Seq(Atoms)]
      /\ wq \in Seq(Items)
  BY HwIs, SIs
<1>3. S' \in HwStates
  BY <1>1, <1>2 DEF HwStates
<1>4. S'.atom = S.atom /\ S'.tree = S.tree /\ S'.rb = S.rb /\ S'.wq = S.wq
  BY <1>1, SIs
<1>. QED
  BY <1>3, <1>4, SameIdles

\* kbasep_js_schedule_ctx keeps the invariant.
LEMMA SchedInKeeps ==
  ASSUME Inv, SchedIn
  PROVE  Inv'
<1>1. /\ ~scheduled /\ dying = FALSE /\ scheduled' = TRUE /\ submit' = TRUE
      /\ UNCHANGED <<atom, tree, rb, wq, workCount, jd, worker, userVars, dying, zap>>
  BY WholeS DEF SchedIn
<1>2. S \in HwStates /\ S' \in HwStates /\ Idles(S, S')
  BY <1>1, WholeS, HwOf, HwIs, SIs
<1>3. Whole(S', jd, next, jobNr, Reports, scheduled, dying)
  BY <1>2, WholeS, IdlesWhole
<1>4. \A a \in Atoms : ~InRb(S', a)
  BY <1>1, <1>3 DEF Whole, CtxInv
<1>5. Whole(S', jd, next, jobNr, Reports, TRUE, dying)
  BY <1>1, <1>3, <1>4, WholeS, CtxMoves
<1>6. Reports' = Reports /\ TypeInv'
  BY <1>1, ReportsKept, WholeS DEF TypeInv, userVars
<1>. QED
  BY <1>1, <1>5, <1>6 DEF Inv, userVars

\* Evicting a context from a scheduler's slot keeps the invariant.
LEMMA EvictCtxKeeps ==
  ASSUME Inv, EvictCtx
  PROVE  Inv'
<1>1. /\ Holders = {} /\ dying = FALSE /\ scheduled' = FALSE /\ submit' = FALSE
      /\ UNCHANGED <<atom, tree, rb, wq, workCount, jd, worker, userVars, dying, zap>>
  BY WholeS DEF EvictCtx
<1>2. S \in HwStates /\ S' \in HwStates /\ Idles(S, S')
  BY <1>1, WholeS, HwOf, HwIs, SIs
<1>3. Whole(S', jd, next, jobNr, Reports, scheduled, dying)
  BY <1>2, WholeS, IdlesWhole
<1>4. \A a \in Atoms : ~InRb(S', a)
  BY <1>1, <1>2, NoHolders DEF Idles, InRb
<1>5. Whole(S', jd, next, jobNr, Reports, FALSE, dying)
  BY <1>1, <1>3, <1>4, WholeS, CtxMoves
<1>6. Reports' = Reports /\ TypeInv'
  BY <1>1, ReportsKept, WholeS DEF TypeInv, userVars
<1>. QED
  BY <1>1, <1>5, <1>6 DEF Inv, userVars

\* The worker's decrement of work_count keeps the invariant.
LEMMA CountWorkKeeps ==
  ASSUME Inv, CountWork
  PROVE  Inv'
<1>1. /\ workCount' = workCount - 1 /\ worker' = [worker EXCEPT !.pc = IF workCount' = 0 THEN "post" ELSE "idle"]
      /\ UNCHANGED <<atom, tree, rb, wq, submit, jd, userVars, ctxVars>>
  BY DEF CountWork
<1>2. S \in HwStates /\ S' \in HwStates /\ Idles(S, S')
  BY <1>1, WholeS, HwOf, HwIs, SIs
<1>3. Whole(S', jd, next, jobNr, Reports, scheduled, dying)
  BY <1>2, WholeS, IdlesWhole
<1>4. worker' \in Workers
  BY <1>1, WholeS DEF TypeInv, Workers
<1>5. Reports' = Reports /\ TypeInv'
  BY <1>1, <1>4, ReportsKept, WholeS DEF TypeInv, userVars, ctxVars
<1>. QED
  BY <1>1, <1>3, <1>5 DEF Inv, userVars, ctxVars

\* Nothing the invariant reads has changed but the progress of the zap or the worker.
LEMMA QuietKeeps ==
  ASSUME Inv, UNCHANGED <<jsVars, jd, userVars, scheduled, dying>>, worker' \in Workers,
         zap' \in {"no", "release", "lock", "soft", "wait", "done"}
  PROVE  Inv'
<1>1. S' = S
  BY DEF S, jsVars
<1>2. Reports' = Reports /\ TypeInv'
  BY ReportsKept, WholeS DEF TypeInv, userVars
<1>. QED
  BY <1>1, <1>2, WholeS DEF Inv, userVars

\* js_return_worker keeps the invariant.
LEMMA ReturnWorkKeeps ==
  ASSUME Inv, ReturnWork
  PROVE  Inv'
<1>. DEFINE a == Head(wq).id
            v == submit \/ (LastPulled(a) /\ scheduled /\ ~dying)
            st == [Popped EXCEPT !.atom[a].blocked = FALSE, !.submit = v]
<1>1. /\ wq # <<>> /\ Head(wq).job = "return" /\ worker' = [pc |-> "return", id |-> a]
      /\ UNCHANGED <<jd, userVars, ctxVars>>
  BY DEF ReturnWork, Item
<1>2. Becomes(st)
  BY SIs DEF ReturnWork, Popped
<1>3. S \in HwStates /\ wq \in Seq(Items) /\ atom \in [Atoms -> AtomRecords] /\ submit \in BOOLEAN
      /\ tree \in SUBSET Atoms /\ rb \in [Slots -> Seq(Atoms)] /\ workCount \in Int
  BY WholeS, HwIs, SIs
<1>4. Tail(wq) \in Seq(Items) /\ Head(wq) = wq[1] /\ wq[1] \in Items
  BY <1>1, <1>3, TailIs
<1>5. a \in Atoms
  BY <1>4 DEF Items
<1>6. PICK q : q = [atom[a] EXCEPT !.blocked = FALSE]
  OBVIOUS
<1>7. q \in AtomRecords /\ Like(q, atom[a]) /\ q.rbState = atom[a].rbState
  <2>1. atom[a] \in AtomRecords
    BY <1>3, <1>5
  <2>. QED
    BY <1>6, <2>1 DEF AtomRecords, Like, Fixed
<1>8. PICK t : t = [atom EXCEPT ![a] = q]
  OBVIOUS
<1>9. /\ t \in [Atoms -> AtomRecords]
      /\ \A b \in Atoms : Like(t[b], atom[b]) /\ t[b].rbState = atom[b].rbState
  BY <1>3, <1>7, <1>8, LikeSelf
<1>10. PICK u : u = v
  OBVIOUS
<1>11. u \in BOOLEAN
  BY <1>3, <1>10
<1>12. st = [atom |-> t, tree |-> tree, rb |-> rb, wq |-> Tail(wq), submit |-> u, workCount |-> workCount]
  <2>1. Popped = [atom |-> atom, tree |-> tree, rb |-> rb, wq |-> Tail(wq), submit |-> submit,
                  workCount |-> workCount]
    <3>1. PICK w : w = Tail(wq)
      OBVIOUS
    <3>2. Popped = [S EXCEPT !.wq = w]
      BY <3>1, SIs DEF Popped
    <3>3. S \in HwStates
      BY <1>3
    <3>4. Popped = [atom |-> S.atom, tree |-> S.tree, rb |-> S.rb, wq |-> w, submit |-> S.submit,
                    workCount |-> S.workCount]
      BY <3>2, <3>3 DEF HwStates
    <3>. QED
      BY <3>1, <3>4, SIs
  <2>2. st = [Popped EXCEPT !.atom = t, !.submit = u]
    <3>. HIDE DEF a, v
    <3>1. Popped.atom = atom
      BY <2>1
    <3>. QED
      BY <1>3, <1>5, <1>6, <1>8, <1>10, <2>1, <3>1
  <2>. HIDE DEF a, v, st
  <2>. QED
    BY <2>1, <2>2
<1>. HIDE DEF a, v, st
<1>13. st \in HwStates
  BY <1>3, <1>4, <1>9, <1>11, <1>12 DEF HwStates
<1>14. Idles(S, st)
  <2>1. /\ st.tree = S.tree /\ st.rb = S.rb /\ st.wq = Tail(S.wq) /\ S.wq # <<>> /\ S.wq[1].job = "return"
        /\ st.atom = t
    BY <1>1, <1>4, <1>12, SIs
  <2>. QED
    BY <1>9, <1>13, <2>1, SIs DEF Idles, WorkKept
<1>15. Whole(S', jd, next, jobNr, Reports, scheduled, dying)
  BY <1>2, <1>13, <1>14, WholeS, IdlesWhole, BecomesIs
<1>16. worker' \in Workers
  BY <1>1, <1>5, JobDepsAssumption DEF Workers, Atoms
<1>17. Reports' = Reports /\ TypeInv'
  BY <1>1, <1>16, ReportsKept, WholeS DEF TypeInv, userVars, ctxVars
<1>. QED
  BY <1>1, <1>15, <1>17 DEF Inv, userVars, ctxVars

=============================================================================
