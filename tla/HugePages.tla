------------------------------ MODULE HugePages ------------------------------
(***************************************************************************)
(* The backing of growable regions with pages of two sizes, and the page   *)
(* tables that map it: whole large pages, pages cut from a shared large    *)
(* page (sub_alloc), and single pages (the helpers of mali_kbase_mem.c     *)
(* with CONFIG_MALI_2MB_ALLOC, mali_kbase_mmu.c).                          *)
(*                                                                         *)
(* An operation runs under the region lock and is one step; what it needs  *)
(* from the kernel may fail at every place where the code asks for it.     *)
(* The tree has two levels, a root and leaves; an entry of the root may    *)
(* map a whole large page.                                                 *)
(***************************************************************************)
EXTENDS Integers, Sequences, FiniteSets, FiniteSetsExt, SequencesExt

CONSTANTS
  Large,       \* large pages the kernel can give
  Big,         \* single pages of a large one, entries of a leaf
  Roots,       \* entries of the root: 0 .. Roots - 1
  Regions,     \* regions, and the first address
  Start,       \*   and
  NrPages,     \*   size of each
  Single,      \* the regions that map one page everywhere (sink page)
  FaultyPaths  \* the paths of Faulty (below) a program may take

VARIABLES
  region,      \* whether each region exists
  pages,       \* the backing of each region: page and tag; nents is its length
  pool,        \* large pages not in use
  sub_pages,   \* sub_alloc: the pages in use of a large page cut up
  partials,    \* kctx->mem_partials: those with room, newest first
  root,        \* the page tables
  used_pages,  \* kctx->used_pages
  dead         \* the context has ended

vars == <<region, pages, pool, sub_pages, partials, root, used_pages, dead>>

(* Paths that break TranslationExact; the passing run takes none.          *)
(*   unaligned: a region shrinks inside a large page that is mapped by     *)
(*              single entries                                             *)
(*   jit:       the backing of a JIT region grows and cannot be mapped     *)
Faulty == {"unaligned", "jit"}

Page(p, tag) == [page |-> p, tag |-> tag]
IsHuge(e) == e.tag = "huge"
IsHead(e) == IsHuge(e) /\ e.page[2] = 0
SinkPage == <<0, 0>>

Invalid == [kind |-> "invalid"]
Ate(p) == [kind |-> "ate", page |-> p]
EmptyLeaf == [i \in 0 .. Big - 1 |-> Invalid]
Pte(leaf) == [kind |-> "pte", leaf |-> leaf]
Tables(T) == 1 + Cardinality({i \in DOMAIN T : T[i].kind = "pte"})

LowerOf(a, b) == IF a < b THEN a ELSE b
SmallestOf(S) == CHOOSE x \in S : \A y \in S : x <= y

------------------------------------------------------------------------------
(* The physical pages: S is [pool, sub, list] *)

Phys == [pool |-> pool, sub |-> sub_pages, list |-> partials]

\* Mutant of FreePartial: a full large page that loses a page stays hidden.
FreePartial_Hidden(S, p) ==
  LET l == p[1]
      left == S.sub[l] \ {p[2]}
  IN  IF left = {}
      THEN [S EXCEPT !.sub[l] = {}, !.pool = @ \cup {l}, !.list = SelectSeq(@, LAMBDA m : m # l)]
      ELSE [S EXCEPT !.sub[l] = left]

\* free_partial: an empty large page goes back whole; one that was full has
\* room again.
FreePartial(S, p) ==
  LET l == p[1]
      left == S.sub[l] \ {p[2]}
  IN  IF left = {}
      THEN [S EXCEPT !.sub[l] = {}, !.pool = @ \cup {l}, !.list = SelectSeq(@, LAMBDA m : m # l)]
      ELSE [S EXCEPT !.sub[l] = left,
                     !.list = IF Cardinality(left) = Big - 1 THEN <<l>> \o @ ELSE @]

\* kbase_free_phy_pages_helper keeps what is left of a large page it does not
\* start at: how many of the n last pages of q it frees.
Freeable(q, n) ==
  LET tail == {i \in Len(q) - n + 1 .. Len(q) : \A j \in Len(q) - n + 1 .. i : IsHuge(q[j]) /\ ~IsHead(q[j])}
  IN  n - Cardinality(tail)

FreePage(S, e) ==
  IF IsHead(e) THEN [S EXCEPT !.pool = @ \cup {e.page[1]}]
  ELSE IF e.tag = "partial" THEN FreePartial(S, e.page) ELSE S
FreePages(S, q, n) == FoldLeft(FreePage, S, SubSeq(q, Len(q) - Freeable(q, n) + 1, Len(q)))
Kept(q, n) == SubSeq(q, 1, Len(q) - Freeable(q, n))

HugeOf(l) == [i \in 1 .. Big |-> Page(<<l, i - 1>>, "huge")]

\* Whole large pages, at most k of them.
TakeLarge(r, k) ==
  FoldLeft(LAMBDA acc, x : LET l == SmallestOf(acc.S.pool)
                           IN  [acc EXCEPT !.S.pool = @ \ {l}, !.got = @ \o HugeOf(l), !.left = @ - Big],
           r, [i \in 1 .. LowerOf(k, Cardinality(r.S.pool)) |-> i])

\* Pages of the large pages already cut, in the order of the list; one without
\* room leaves the list.
TakePartial(acc, l) ==
  LET room == (0 .. Big - 1) \ acc.S.sub[l]
      n == LowerOf(acc.left, Cardinality(room))
      taken == {i \in room : Cardinality({j \in room : j < i}) < n}
      q == SetToSortSeq(taken, <)
  IN  [S    |-> [acc.S EXCEPT !.sub[l] = @ \cup taken,
                              !.list = IF n > 0 /\ taken = room THEN SelectSeq(@, LAMBDA m : m # l) ELSE @],
       got  |-> acc.got \o [i \in 1 .. n |-> Page(<<l, q[i]>>, "partial")],
       left |-> acc.left - n]
TakePartials(r) == FoldLeft(TakePartial, r, r.S.list)

\* A large page cut for what is left.
TakeNewPartial(r) ==
  LET l == SmallestOf(r.S.pool)
  IN  [S    |-> [r.S EXCEPT !.pool = @ \ {l}, !.sub[l] = 0 .. r.left - 1, !.list = <<l>> \o @],
       got  |-> r.got \o [i \in 1 .. r.left |-> Page(<<l, i - 1>>, "partial")],
       left |-> 0]

\* Single pages, named by the address they will be mapped at.
TakeSmall(r, v) ==
  [r EXCEPT !.got = @ \o [i \in 1 .. r.left |-> Page(<<0, v + Len(r.got) + i - 1>>, "small")], !.left = 0]

\* What the kernel lets an allocation of n pages have: large pages, a large
\* page to cut, single pages.
Luck(n) == [large : 0 .. n \div Big, cut : IF n < Big THEN {FALSE} ELSE BOOLEAN, small : BOOLEAN]

\* kbase_alloc_phy_pages_helper: n pages for the address v and what follows.
AllocPages(n, v, luck) ==
  LET none == [S |-> Phys, got |-> <<>>, left |-> n]
      whole == TakeLarge(none, LowerOf(luck.large, n \div Big))
      some == IF whole.left > 0 THEN TakePartials(whole) ELSE whole
      cut == IF some.left \in 1 .. Big - 1 /\ luck.cut /\ some.S.pool # {} THEN TakeNewPartial(some) ELSE some
      big == IF n >= Big THEN cut ELSE none
  IN  IF big.left > 0 /\ luck.small THEN TakeSmall(big, v) ELSE big

\* kbase_jit_grow and kbase_alloc_phy_pages_helper_locked: the pool has been
\* filled before, so that large pages, or single ones, are all there.
AllocPagesLocked(n, v) ==
  LET none == [S |-> Phys, got |-> <<>>, left |-> n]
      whole == TakeLarge(none, n \div Big)
      some == IF whole.left > 0 THEN TakePartials(whole) ELSE whole
      cut == IF some.left > 0 THEN TakeNewPartial(some) ELSE some
  IN  IF n >= Big THEN cut ELSE TakeSmall(none, v)
PoolFilled(n) == n >= Big => Cardinality(pool) >= (n + Big - 1) \div Big

\* The rollback of an allocation that got only some of its pages.
Undone(r) == FreePages(r.S, r.got, Len(r.got))

------------------------------------------------------------------------------
(* The page tables *)

\* The leaves that the n pages from v lie in, as <<first page, count>>.
Chunks(v, n) ==
  LET first(t) == IF t * Big < v THEN v ELSE t * Big
      last(t) == LowerOf((t + 1) * Big, v + n)
      tabs == SetToSortSeq({t \in 0 .. Roots - 1 : t * Big < v + n /\ (t + 1) * Big > v}, <)
  IN  [i \in DOMAIN tabs |-> <<first(tabs[i]), last(tabs[i]) - first(tabs[i])>>]

Span(c) == c[1] .. c[1] + c[2] - 1

\* The entries of chunk c in its leaf, which is had first if need be.
SetLeaf(T, c, entry) ==
  LET t == c[1] \div Big
      old == IF T[t].kind = "pte" THEN T[t].leaf ELSE EmptyLeaf
  IN  [T EXCEPT ![t] = Pte([i \in 0 .. Big - 1 |->
                               IF t * Big + i \in Span(c) THEN entry[t * Big + i] ELSE old[i]])]

\* One round of kbase_mmu_insert_pages_no_flush: a whole large page at the
\* start of a leaf takes the entry of the root, and its empty leaf goes.
InsertChunk(T, c, q, v) ==
  IF c[1] % Big = 0 /\ IsHead(q[c[1] - v + 1])
  THEN [T EXCEPT ![c[1] \div Big] = Ate(q[c[1] - v + 1].page)]
  ELSE SetLeaf(T, c, [a \in Span(c) |-> Ate(q[a - v + 1].page)])
NeedsLeaf(T, c, q, v) ==
  T[c[1] \div Big].kind = "invalid" /\ ~(c[1] % Big = 0 /\ IsHead(q[c[1] - v + 1]))

\* mmu_insert_pages_failure_recovery.
Recover(T, c) ==
  IF T[c[1] \div Big].kind = "ate" THEN [T EXCEPT ![c[1] \div Big] = Invalid]
  ELSE SetLeaf(T, c, [a \in Span(c) |-> Invalid])

\* kbase_mmu_insert_pages: the leaf of chunk f cannot be had (0: all can).
Insert(T, v, q, f) ==
  LET cs == Chunks(v, Len(q))
      done == IF f = 0 THEN cs ELSE SubSeq(cs, 1, f - 1)
      put == FoldLeft(LAMBDA U, c : InsertChunk(U, c, q, v), T, done)
  IN  IF f = 0 THEN put ELSE FoldLeft(Recover, put, done)
CanFail(T, v, q) == {f \in DOMAIN Chunks(v, Len(q)) : NeedsLeaf(T, Chunks(v, Len(q))[f], q, v)}

\* Mutant of TeardownRound: a large page goes with the first page of it.
TeardownRound_Whole(T, v, n) ==
  LET t == v \div Big
      count == LowerOf(Big - (v % Big), n)
  IN  CASE T[t].kind = "ate" -> [T |-> [T EXCEPT ![t] = Invalid], count |-> count]
        [] T[t].kind = "invalid" -> [T |-> T, count |-> LowerOf(Big, n)]
        [] T[t].kind = "pte" /\ T[t].leaf[v % Big] = Invalid -> [T |-> T, count |-> 1]
        [] OTHER -> [T |-> SetLeaf(T, <<v, count>>, [a \in Span(<<v, count>>) |-> Invalid]), count |-> count]

\* One round of kbase_mmu_teardown_pages at v with n pages to go: a large page
\* only goes as a whole; where there is nothing the round skips what the entry
\* would cover.
TeardownRound(T, v, n) ==
  LET t == v \div Big
      count == LowerOf(Big - (v % Big), n)
  IN  CASE T[t].kind = "ate" -> [T |-> IF count = Big THEN [T EXCEPT ![t] = Invalid] ELSE T, count |-> count]
        [] T[t].kind = "invalid" -> [T |-> T, count |-> LowerOf(Big, n)]
        [] T[t].kind = "pte" /\ T[t].leaf[v % Big] = Invalid -> [T |-> T, count |-> 1]
        [] OTHER -> [T |-> SetLeaf(T, <<v, count>>, [a \in Span(<<v, count>>) |-> Invalid]), count |-> count]

RECURSIVE Teardown(_, _, _)
Teardown(T, v, n) ==
  IF n = 0 THEN T
  ELSE LET r == TeardownRound(T, v, n) IN Teardown(r.T, v + r.count, n - r.count)

\* The walk of the MMU.
Translation(T, v) ==
  LET e == T[v \div Big]
  IN  CASE e.kind = "ate" -> Ate(<<e.page[1], v % Big>>)
        [] e.kind = "pte" -> e.leaf[v % Big]
        [] OTHER -> Invalid

------------------------------------------------------------------------------
Init ==
  /\ region = [r \in Regions |-> FALSE]
  /\ pages = [r \in Regions |-> <<>>]
  /\ pool = Large
  /\ sub_pages = [l \in Large |-> {}]
  /\ partials = <<>>
  /\ root = [t \in 0 .. Roots - 1 |-> Invalid]
  /\ used_pages = 1
  /\ dead = FALSE

\* The state after an operation, with the page tables and backing counted.
Becomes(S, q, r, T, delta) ==
  /\ pool' = S.pool /\ sub_pages' = S.sub /\ partials' = S.list
  /\ pages' = [pages EXCEPT ![r] = q]
  /\ root' = T
  /\ used_pages' = used_pages + delta + Tables(T) - Tables(root)

\* The backing of r grows by n pages and is mapped.  When it cannot be mapped
\* the pages go back; those of a JIT region stay.
Grow(r, n, got, jit) ==
  LET v == Start[r] + Len(pages[r])
      q == pages[r] \o got.got
  IN  IF got.left > 0 THEN Becomes(Undone(got), pages[r], r, root, 0)
      ELSE \E f \in {0} \cup CanFail(root, v, got.got) :
             LET T == Insert(root, v, got.got, f)
             IN  /\ f # 0 /\ jit => "jit" \in FaultyPaths
                 /\ IF f = 0 \/ jit THEN Becomes(got.S, q, r, T, n)
                    ELSE Becomes(FreePages(got.S, q, n), Kept(q, n), r, T, 0)

\* kbase_mem_alloc, then kbase_mem_commit: the backing grows to n pages.
Commit(r, n) ==
  /\ ~dead /\ r \notin Single
  /\ n > Len(pages[r])
  /\ region' = [region EXCEPT ![r] = TRUE]
  /\ \E luck \in Luck(n - Len(pages[r])) :
       Grow(r, n - Len(pages[r]), AllocPages(n - Len(pages[r]), Start[r] + Len(pages[r]), luck), FALSE)
  /\ UNCHANGED dead

\* kbase_jit_grow.
JitGrow(r, n) ==
  /\ ~dead /\ region[r] /\ r \notin Single
  /\ n > Len(pages[r]) /\ PoolFilled(n - Len(pages[r]))
  /\ Grow(r, n - Len(pages[r]), AllocPagesLocked(n - Len(pages[r]), Start[r] + Len(pages[r])), TRUE)
  /\ UNCHANGED <<region, dead>>

\* The place n pages into q cuts a large page that has no entry of its own.
CutsUnaligned(r, n) ==
  LET e == pages[r][n + 1]
  IN  IsHuge(e) /\ ~IsHead(e) /\ root[(Start[r] + n) \div Big].kind = "pte"

\* kbase_mem_commit: the backing shrinks to n pages.
Shrink(r, n) ==
  /\ ~dead /\ region[r] /\ n < Len(pages[r])
  /\ "unaligned" \in FaultyPaths \/ ~CutsUnaligned(r, n)
  /\ LET m == Len(pages[r]) - n
     IN  Becomes(FreePages(Phys, pages[r], m), Kept(pages[r], m), r, Teardown(root, Start[r] + n, m), -Freeable(pages[r], m))
  /\ UNCHANGED <<region, dead>>

\* kbase_mem_free, with the region's last reference.
Free(r) ==
  /\ ~dead /\ region[r] /\ r \notin Single
  /\ LET m == Len(pages[r])
     IN  Becomes(FreePages(Phys, pages[r], m), <<>>, r, Teardown(root, Start[r], m), -m)
  /\ region' = [region EXCEPT ![r] = FALSE]
  /\ UNCHANGED dead

\* kbase_mmu_insert_single_page: an alias of the sink page.
SinkPages(r) == [i \in 1 .. NrPages[r] |-> Page(SinkPage, "small")]
MapSingle(r) ==
  /\ ~dead /\ r \in Single /\ ~region[r]
  /\ \E f \in {0} \cup CanFail(root, Start[r], SinkPages(r)) :
       /\ Becomes(Phys, <<>>, r, Insert(root, Start[r], SinkPages(r), f), 0)
       /\ region' = [region EXCEPT ![r] = (f = 0)]
  /\ UNCHANGED dead
UnmapSingle(r) ==
  /\ ~dead /\ r \in Single /\ region[r]
  /\ Becomes(Phys, <<>>, r, Teardown(root, Start[r], NrPages[r]), 0)
  /\ region' = [region EXCEPT ![r] = FALSE]
  /\ UNCHANGED dead

\* kbase_destroy_context: the regions are freed without their mappings, then
\* kbase_mmu_free_pgd frees every table.
Destroy ==
  /\ ~dead /\ dead' = TRUE
  /\ LET S == FoldLeft(LAMBDA U, r : FreePages(U, pages[r], Len(pages[r])), Phys, SetToSeq(Regions))
     IN  pool' = S.pool /\ sub_pages' = S.sub /\ partials' = S.list
  /\ pages' = [r \in Regions |-> <<>>]
  /\ region' = [r \in Regions |-> FALSE]
  /\ root' = [t \in 0 .. Roots - 1 |-> Invalid]
  /\ used_pages' = used_pages - MapThenSumSet(LAMBDA r : Len(pages[r]), Regions) - Tables(root)

Next ==
  \/ \E r \in Regions :
       \/ \E n \in 1 .. NrPages[r] : Commit(r, n) \/ JitGrow(r, n)
       \/ \E n \in 0 .. NrPages[r] : Shrink(r, n)
       \/ Free(r) \/ MapSingle(r) \/ UnmapSingle(r)
  \/ Destroy

Spec == Init /\ [][Next]_vars

------------------------------------------------------------------------------
(* Properties *)

Mapped(r) ==
  IF r \in Single THEN (IF region[r] THEN SinkPages(r) ELSE <<>>) ELSE pages[r]

\* The GPU reaches every page of the backing of every region at its place, and
\* nothing else.
TranslationExact ==
  \A v \in 1 .. Roots * Big - 1 :
    LET here == {r \in Regions : v \in Start[r] .. Start[r] + Len(Mapped(r)) - 1}
    IN  IF here = {} THEN Translation(root, v) = Invalid
        ELSE \A r \in here : Translation(root, v) = Ate(Mapped(r)[v - Start[r] + 1].page)

\* Every large page is free, whole in one region, or cut; the pages in use of
\* one that is cut are those the regions hold; it is on the list exactly while
\* it has room; and every page and table is counted.
PagesExact ==
  LET held == UNION {{r} \X DOMAIN pages[r] : r \in Regions}
      whole(l) == {x \in held : IsHuge(pages[x[1]][x[2]]) /\ pages[x[1]][x[2]].page[1] = l}
      cut(l) == {x \in held : pages[x[1]][x[2]].tag = "partial" /\ pages[x[1]][x[2]].page[1] = l}
  IN  /\ \A l \in Large :
           /\ Cardinality(whole(l)) \in {0, Big}
           /\ (IF l \in pool THEN 1 ELSE 0) + (IF whole(l) # {} THEN 1 ELSE 0) + (IF sub_pages[l] # {} THEN 1 ELSE 0) = 1
           /\ Cardinality(cut(l)) = Cardinality(sub_pages[l])
           /\ {pages[x[1]][x[2]].page[2] : x \in cut(l)} = sub_pages[l]
           /\ (\E i \in DOMAIN partials : partials[i] = l) = (Cardinality(sub_pages[l]) \in 1 .. Big - 1)
      /\ \A i, j \in DOMAIN partials : partials[i] = partials[j] => i = j
      /\ used_pages = Cardinality(held) + (IF dead THEN 0 ELSE Tables(root))

==============================================================================
