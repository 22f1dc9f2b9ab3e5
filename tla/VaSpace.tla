------------------------------- MODULE VaSpace -------------------------------
(***************************************************************************)
(* The virtual address space of one context: the region trackers of        *)
(* mali_kbase_mem.c (one tree of regions per zone, free regions among      *)
(* them) and the search for a CPU address of thirdparty/mali_kbase_mmap.c, *)
(* which decides where a SAME_VA region goes.                              *)
(*                                                                         *)
(* A tree is the set of its regions: the searches of the code walk a       *)
(* binary tree ordered by start address, and which region they reach       *)
(* depends on the order alone while the regions do not overlap.  An        *)
(* address is a page frame number.  mmap runs in two steps, because it     *)
(* reads same_va_end under the memory-map lock alone and takes the region  *)
(* lock only afterwards.                                                   *)
(***************************************************************************)
EXTENDS Integers, Sequences, FiniteSetsExt, SequencesExt

CONSTANTS
  MaxRegions,   \* bound: regions a program has at a time
  SamePages,    \* pages of the SAME_VA zone; it starts at page 1
  ExecBase, CustomBase, ZonePages,  \* zones of a 32-bit client, and their size
  JitPages,     \* what the JIT zone of a 64-bit client takes
  MmapBase, TaskSize,   \* limits of the process
  Huge,         \* 2MB: low limit and alignment of large mappings
  PcSpan,       \* what a shader program counter reaches
  FourGB,       \* the boundary shader code keeps away from
  Extent, Commit, \* of a tiler heap, whose committed end is aligned to Extent
  Foreign,      \* pages of which the process may have mapped one, 0 for none
  Lens,         \* bound: pages a region may have
  JitInitRaces  \* may JIT be set up while an mmap runs?

VARIABLES
  compat,       \* KCTX_COMPAT: a 32-bit client
  same_va_end,  \* first page above the SAME_VA zone
  tree,         \* the regions of the three trees
  vmas,         \* what is mapped in the process
  mapping,      \* the mmap in progress: the request and the address chosen
  jit_pool      \* JIT regions given back but not yet freed, newest first

vars == <<compat, same_va_end, tree, vmas, mapping, jit_pool>>

NoAddr == 0
Kinds == {"data", "shader", "tiler"}
Idle == [kind |-> "data", len |-> 0, at |-> NoAddr]
Zones == {"same", "exec", "custom"}
Region(z, start, len, free) == [zone |-> z, start |-> start, len |-> len, free |-> free]
LastPage(r) == r.start + r.len - 1
PagesOf(r) == r.start .. LastPage(r)
Live == {r \in tree : ~r.free}
InTree(z) == {r \in tree : r.zone = z}

------------------------------------------------------------------------------
(* Searches in the trees *)

\* kbase_gpu_va_to_rbtree: the tree an address belongs to.
ZoneOf(pfn) ==
  IF compat THEN IF pfn >= CustomBase THEN "custom" ELSE IF pfn >= ExecBase THEN "exec" ELSE "same"
            ELSE IF pfn >= same_va_end THEN "custom" ELSE "same"

EnclosingRange(pfn, n) == {r \in InTree(ZoneOf(pfn)) : r.start <= pfn /\ pfn + n <= r.start + r.len}
EnclosingAddress(pfn) == {r \in InTree(ZoneOf(pfn)) : pfn \in PagesOf(r)}
BaseAddress(pfn) == {r \in InTree(ZoneOf(pfn)) : r.start = pfn}

\* The first address at or after `start` that is `offset` modulo mask + 1.
AlignedFrom(start, offset, mask) ==
  LET s == start + mask IN s - ((s - offset) % (mask + 1))

\* Mutant of MeetingReqs: rejects a place that ends with the free region.
MeetingReqs_Short(t, z, n, offset, mask) ==
  {[at |-> r, pfn |-> AlignedFrom(r.start, offset, mask)] :
     r \in {q \in t : /\ q.zone = z /\ q.free /\ q.len >= n
                      /\ AlignedFrom(q.start, offset, mask) + n - 1 < LastPage(q)}}

\* kbase_region_tracker_find_region_meeting_reqs: free regions of tree t that
\* can hold n pages at the alignment, and where.
MeetingReqs(t, z, n, offset, mask) ==
  {[at |-> r, pfn |-> AlignedFrom(r.start, offset, mask)] :
     r \in {q \in t : /\ q.zone = z /\ q.free /\ q.len >= n
                      /\ AlignedFrom(q.start, offset, mask) + n - 1 <= LastPage(q)}}

FirstMeeting(t, z, n, offset, mask) ==
  LET all == MeetingReqs(t, z, n, offset, mask)
  IN  CHOOSE m \in all : \A o \in all : m.at.start <= o.at.start

------------------------------------------------------------------------------
(* Insertion and removal *)

\* kbase_insert_va_region_nolock: put `new` into the free region `at`; what is
\* left of it before and behind stays free.  A region that replaces all of `at`
\* takes its node; any other goes to the tree of its own zone.
InsertRegion(t, new, at) ==
  LET before == Region(at.zone, at.start, new.start - at.start, TRUE)
      behind == Region(at.zone, new.start + new.len, at.start + at.len - (new.start + new.len), TRUE)
      rest == {f \in {before, behind} : f.len > 0}
  IN  (t \ {at}) \cup rest \cup {IF rest = {} THEN [new EXCEPT !.zone = at.zone] ELSE new}

\* Mutant of RemoveRegion: absorbs only the neighbour in front.
RemoveRegion_FrontOnly(t, r) ==
  LET side == {q \in t : q.zone = r.zone /\ q # r}
      prev == {p \in side : p.start < r.start /\ ~\E q \in side : p.start < q.start /\ q.start < r.start}
      all == {r} \cup {f \in prev : f.free}
  IN  (t \ all) \cup {Region(r.zone, Min({p.start : p \in all}), MapThenSumSet(LAMBDA p : p.len, all), TRUE)}

\* kbase_remove_va_region: the region becomes free and absorbs its free
\* neighbours in the order of the tree, without a look at their addresses.
RemoveRegion(t, r) ==
  LET side == {q \in t : q.zone = r.zone /\ q # r}
      prev == {p \in side : p.start < r.start /\ ~\E q \in side : p.start < q.start /\ q.start < r.start}
      next == {p \in side : p.start > r.start /\ ~\E q \in side : p.start > q.start /\ q.start > r.start}
      all == {r} \cup {f \in prev \cup next : f.free}
  IN  (t \ all) \cup {Region(r.zone, Min({p.start : p \in all}), MapThenSumSet(LAMBDA p : p.len, all), TRUE)}

RegionAt(t, pfn) == CHOOSE r \in t : r.zone = "custom" /\ r.start = pfn

\* kbase_jit_evict: the k oldest regions of the JIT pool are freed.
Evict(k) ==
  FoldLeft(LAMBDA t, pfn : RemoveRegion(t, RegionAt(t, pfn)), tree, SubSeq(Reverse(jit_pool), 1, k))

------------------------------------------------------------------------------
(* kbase_get_unmapped_area *)

\* align_and_check, first part: the highest aligned start below the end of a
\* gap; shader code steps down once from a 4GB boundary at either end.
StepDown(hit, start, step) == IF hit THEN start - step ELSE start
Placed(end, len, offset, mask, shader) ==
  LET top == end - len
      s0 == top - ((top - offset) % (mask + 1))
      step == IF offset # 0 THEN offset ELSE len
      s1 == StepDown(shader /\ s0 % FourGB = 0, s0, step)
  IN  StepDown(shader /\ (s1 + len) % FourGB = 0, s1, step)

\* align_and_check, second part.
Acceptable(start, len, gap, low, shader) ==
  /\ shader => start % FourGB # 0 /\ (start + len) % FourGB # 0
  /\ start >= low
  /\ start >= gap

\* kbase_unmapped_area_topdown: the highest gap that holds the length with the
\* worst case of the alignment, and in which the aligned start is acceptable.
TopDown(len, offset, mask, low, high, shader) ==
  LET worst == len + mask
      end(v) == v.start + v.len
      top == [from |-> Max({0} \cup {end(v) : v \in vmas}), to |-> high]
      below(v) == [from |-> Max({0} \cup {end(u) : u \in {w \in vmas : w.start < v.start}}), to |-> v.start]
      gaps == {top} \cup {g \in {below(v) : v \in vmas} : g.to >= low + worst /\ g.to - g.from >= worst}
      found == {s \in {[at |-> Placed(Min({g.to, high}), len, offset, mask, shader), gap |-> g.from] :
                         g \in {h \in gaps : h.from <= high - worst}} :
                  Acceptable(s.at, len, s.gap, low, shader)}
  IN  IF high < worst \/ low > high - worst \/ found = {} THEN NoAddr
      ELSE Max({s.at : s \in found})

Alignment(kind, len) ==
  CASE kind = "shader" -> [offset |-> PcSpan, mask |-> PcSpan - 1]
    [] kind = "tiler"  -> [offset |-> Extent - Commit, mask |-> Extent - 1]
    [] kind = "data"   -> IF ~compat /\ len >= Huge THEN [offset |-> Huge, mask |-> Huge - 1]
                          ELSE [offset |-> 0, mask |-> 0]

UnmappedArea(kind, len) ==
  LET a == Alignment(kind, len)
      shader == kind = "shader"
      high == IF compat THEN MmapBase ELSE Min({MmapBase, same_va_end})
      first == TopDown(len, a.offset, a.mask, IF compat THEN 1 ELSE Huge, high, shader)
  IN  IF first = NoAddr /\ high = MmapBase /\ high < same_va_end
      THEN TopDown(len, a.offset, a.mask, MmapBase, Min({TaskSize, same_va_end}), shader)
      ELSE first

------------------------------------------------------------------------------
(* kbase_region_tracker_init: the zones of a 64-bit and of a 32-bit client. *)
Init ==
  /\ compat \in BOOLEAN
  /\ same_va_end = SamePages + 1
  /\ tree = {Region("same", 1, SamePages, TRUE)}
            \cup IF compat THEN {Region("exec", ExecBase, ZonePages, TRUE), Region("custom", CustomBase, ZonePages, TRUE)}
                 ELSE {}
  /\ \E f \in Foreign : vmas = IF f = NoAddr THEN {} ELSE {[start |-> f, len |-> 1, ours |-> FALSE]}
  /\ mapping = Idle
  /\ jit_pool = <<>>

\* kbase_region_tracker_init_jit: a 64-bit client gives the end of an unused
\* SAME_VA zone to a JIT zone.
InitJit ==
  /\ ~compat
  /\ JitInitRaces \/ mapping = Idle
  /\ \E r \in BaseAddress(1) :
        /\ r.free /\ r.len = SamePages
        /\ r.len >= JitPages
        /\ same_va_end' = same_va_end - JitPages
        /\ tree' = (tree \ {r}) \cup {[r EXCEPT !.len = @ - JitPages], Region("custom", same_va_end', JitPages, TRUE)}
  /\ UNCHANGED <<compat, vmas, mapping, jit_pool>>

\* mmap of a region that waits for one: kbase_get_unmapped_area chooses.
MmapChoose(kind, len) ==
  /\ mapping = Idle
  /\ Cardinality(Live) < MaxRegions
  /\ UnmappedArea(kind, len) # NoAddr
  /\ mapping' = [kind |-> kind, len |-> len, at |-> UnmappedArea(kind, len)]
  /\ UNCHANGED <<compat, same_va_end, tree, vmas, jit_pool>>

\* kbase_gpu_mmap, path 1 of kbase_add_va_region: the address is given, the
\* region that encloses it must be free.
MmapInsert ==
  /\ mapping # Idle
  /\ LET at == {r \in EnclosingRange(mapping.at, mapping.len) : r.free}
         new == Region("same", mapping.at, mapping.len, FALSE)
     IN  IF at = {} THEN UNCHANGED <<tree, vmas>>
         ELSE /\ \E r \in at : tree' = InsertRegion(tree, new, r)
              /\ vmas' = vmas \cup {[start |-> mapping.at, len |-> mapping.len, ours |-> TRUE]}
  /\ mapping' = Idle
  /\ UNCHANGED <<compat, same_va_end, jit_pool>>

\* Path 2 of kbase_add_va_region: any address of the zone.  When none fits,
\* the JIT pool is emptied from its oldest end, one region a turn.
AllocZone(z, kind, len) ==
  /\ Cardinality(Live) < MaxRegions
  /\ LET align == IF kind = "tiler" THEN Alignment(kind, len) ELSE [offset |-> 1, mask |-> 0]
         fits(k) == MeetingReqs(Evict(k), z, len, align.offset, align.mask) # {}
         turns == IF z = "custom" THEN 0 .. Len(jit_pool) ELSE {0}
         enough == {k \in turns : fits(k)}
         k == IF enough = {} THEN Max(turns) ELSE Min(enough)
         m == FirstMeeting(Evict(k), z, len, align.offset, align.mask)
     IN  /\ jit_pool' = SubSeq(jit_pool, 1, Len(jit_pool) - k)
         /\ tree' = IF enough = {} THEN Evict(k)
                    ELSE InsertRegion(Evict(k), Region(z, m.pfn, len, FALSE), m.at)
  /\ UNCHANGED <<compat, same_va_end, vmas, mapping>>

\* munmap of a SAME_VA region, or kbase_mem_free of another: the region leaves
\* the tree, its mapping goes with it.
FreeRegion(r) ==
  /\ r \in Live
  /\ r.zone = "custom" => r.start \notin ToSet(jit_pool)
  /\ r.zone = "same" => mapping = Idle
  /\ tree' = RemoveRegion(tree, r)
  /\ vmas' = {v \in vmas : r.zone = "same" /\ v.ours => v.start # r.start}
  /\ UNCHANGED <<compat, same_va_end, mapping, jit_pool>>

\* kbase_jit_free keeps the region for another allocation.
JitFree(r) ==
  /\ r \in Live /\ r.zone = "custom" /\ r.start \notin ToSet(jit_pool)
  /\ jit_pool' = <<r.start>> \o jit_pool
  /\ UNCHANGED <<compat, same_va_end, tree, vmas, mapping>>

Next ==
  \/ InitJit
  \/ \E kind \in Kinds, len \in Lens :
        /\ kind = "tiler" => len >= Commit
        /\ \/ MmapChoose(kind, len)
           \/ kind # "shader" /\ AllocZone("custom", kind, len)
           \/ kind = "shader" /\ compat /\ AllocZone("exec", kind, len)
  \/ MmapInsert
  \/ \E r \in tree : FreeRegion(r) \/ JitFree(r)

Spec == Init /\ [][Next]_vars

------------------------------------------------------------------------------
(* Properties *)

TypeOK ==
  /\ compat \in BOOLEAN /\ same_va_end \in Nat
  /\ \A r \in tree : r.zone \in Zones /\ r.start \in Nat /\ r.len \in Nat \ {0} /\ r.free \in BOOLEAN
  /\ \A v \in vmas : v.start \in Nat /\ v.len \in Nat /\ v.ours \in BOOLEAN
  /\ mapping.at \in Nat /\ mapping.kind \in Kinds
  /\ ToSet(jit_pool) \subseteq {r.start : r \in Live} /\ IsInjective(jit_pool)

ZonePagesOf(z) ==
  CASE z = "same" -> 1 .. same_va_end - 1
    [] z = "exec" -> IF compat THEN ExecBase .. ExecBase + ZonePages - 1 ELSE {}
    [] z = "custom" -> IF compat THEN CustomBase .. CustomBase + ZonePages - 1 ELSE same_va_end .. SamePages

\* The regions of a tree cover exactly the pages of its zone, each page once,
\* and no two free regions are neighbours; the lookup by address finds the
\* region an address is in, and a region is mapped in the process where it is
\* in the tree: a page fault, a job's resource and a munmap find their region
\* however regions were split, merged and evicted before.
LayoutExact ==
  /\ TypeOK
  /\ \A z \in Zones :
        /\ UNION {PagesOf(r) : r \in InTree(z)} = ZonePagesOf(z)
        /\ \A p, q \in InTree(z) :
              p # q => /\ PagesOf(p) \cap PagesOf(q) = {}
                       /\ p.free /\ q.free => p.start + p.len # q.start
        /\ \A r \in InTree(z) : \A pfn \in PagesOf(r) : EnclosingAddress(pfn) = {r}
  /\ \A v \in vmas : v.ours => Region("same", v.start, v.len, FALSE) \in tree
  /\ \A r \in InTree("same") : ~r.free => \E v \in vmas : v.ours /\ v.start = r.start
  /\ \A v, w \in vmas : v # w => PagesOf(v) \cap PagesOf(w) = {}

\* The search of a zone finds a place exactly when its free pages have one at
\* the alignment: neither the arithmetic of find_region_meeting_reqs nor the
\* merging of freed regions loses room.  And what mmap chose is aligned, free
\* and, for shader code, clear of the 4GB boundaries.
NoRoomLost ==
  /\ \A z \in Zones, n \in Lens, kind \in {"data", "tiler"} :
        LET a == IF kind = "tiler" THEN Alignment(kind, n) ELSE [offset |-> 1, mask |-> 0]
            open == UNION {PagesOf(r) : r \in {f \in InTree(z) : f.free}}
            room == \E p \in open : (p - a.offset) % (a.mask + 1) = 0 /\ p .. p + n - 1 \subseteq open
        IN  room <=> MeetingReqs(tree, z, n, a.offset, a.mask) # {}
  /\ mapping # Idle =>
        LET a == Alignment(mapping.kind, mapping.len)
        IN  /\ (mapping.at - a.offset) % (a.mask + 1) = 0
            /\ mapping.at >= 1
            /\ \A v \in vmas : PagesOf(v) \cap (mapping.at .. mapping.at + mapping.len - 1) = {}
            /\ mapping.kind = "shader" => mapping.at % FourGB # 0 /\ (mapping.at + mapping.len) % FourGB # 0

==============================================================================
