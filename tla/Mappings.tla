------------------------------ MODULE Mappings ------------------------------
(***************************************************************************)
(* Who holds the physical memory of a context: regions made by allocation, *)
(* aliasing and import, waiting behind a cookie or in the address space;   *)
(* the CPU mappings, kernel mappings, jobs and sticky resources that refer *)
(* to their memory; the GPU's page-table entries; and the end of the       *)
(* context (mali_kbase_mem.c, mali_kbase_mem_linux.c, the external         *)
(* resources of mali_kbase_jd.c).                                          *)
(*                                                                         *)
(* Every operation runs under the region lock and is one step.  An         *)
(* allocation and the region made with it have one name; the allocation    *)
(* may outlive the region.  A region fills one slot of the address space,  *)
(* of two entries: an alias uses both, a dma-buf its second for padding,   *)
(* the others the first.                                                   *)
(***************************************************************************)
EXTENDS Integers, Sequences, FiniteSets, FiniteSetsExt, SequencesExt

CONSTANTS
  Allocs, NoAlloc,  \* allocations, and the lack of one: the aliasing sink page
  Slots,            \* bound: places in the GPU address space
  Cookies,          \* how many regions may wait for their mmap
  Jobs,             \* bound: jobs with external resources
  MaxMaps,          \* bound: further CPU and kernel mappings of an allocation
  MaxSticky         \* bound: sticky resources

VARIABLES
  compat,   \* a 32-bit client: regions it does not ask to be SAME_VA need no mmap
  alloc,    \* the allocations with their regions
  pte,      \* what each entry of each slot leads to
  left,     \* the entries an operation that failed left behind
  extres,   \* the external resources of each job
  sticky,   \* ext_res_meta_head, newest first
  dead      \* the context has ended

vars == <<compat, alloc, pte, left, extres, sticky, dead>>

Kinds == {"native", "alias", "umm", "ubuf"}
NoSlot == 0
Unmapped == "unmapped"
Sink == "sink"
Entry == {1, 2}
Unused == [kind |-> "none", phase |-> "none", slot |-> NoSlot, same |-> FALSE, kref |-> 0,
           pages |-> 0, of |-> <<>>, pad |-> FALSE, gpu_mappings |-> 0, usage |-> 0,
           attached |-> 0, pinned |-> FALSE, torn |-> FALSE, cut |-> {},
           own |-> 0, maps |-> 0, vmaps |-> 0]

\* A step of an operation: the allocations and entries it works on.
Now == [al |-> alloc, pt |-> pte, left |-> left]

\* Entries of slot s are written, or taken away.
Mapped(S, s, f) ==
  [S EXCEPT !.pt[s] = [i \in Entry |-> IF i \in DOMAIN f THEN f[i] ELSE @[i]],
            !.left = @ \ ({s} \X DOMAIN f)]
Cleared(S, s, es) == Mapped(S, s, [i \in es |-> Unmapped])

InVa(S, s) == {a \in Allocs : S.al[a].phase = "va" /\ S.al[a].slot = s}
FreeSlots(S) == {s \in Slots : InVa(S, s) = {}}
Waiting == {a \in Allocs : alloc[a].phase = "cookie"}

------------------------------------------------------------------------------
(* References and page-table entries *)

\* What is left of a freed allocation: an import is dropped as it is, and what
\* stays attached shows as such; the pins of an import made with them are given
\* back nowhere.
Remains(al) == [Unused EXCEPT !.attached = IF al.pinned THEN 0 ELSE al.attached, !.torn = al.torn]

\* Mutant of Freed: an alias keeps the references it took.
Freed_KeepsAliased(S, a) == [S EXCEPT !.al[a] = Remains(S.al[a])]

\* kbase_mem_kref_free: the last reference of an alias gives back those it took.
Freed(S, a) ==
  LET put == [b \in Allocs |-> Cardinality({i \in DOMAIN S.al[a].of : S.al[a].of[i] = b})]
      gone(b) == b = a \/ (put[b] > 0 /\ S.al[b].kref = put[b])
  IN  [S EXCEPT !.al = [b \in Allocs |-> IF gone(b) THEN Remains(S.al[b])
                                         ELSE [S.al[b] EXCEPT !.kref = @ - put[b]]]]

Put(S, a) ==
  IF S.al[a].kref = 1 THEN Freed(S, a) ELSE [S EXCEPT !.al[a].kref = @ - 1]

Counted(S, a, d) == IF S.al[a].kind = "native" THEN [S EXCEPT !.al[a].gpu_mappings = @ + d] ELSE S

\* What one entry of an alias maps, and its count of mappings of a native allocation.
Backed(S, a) ==
  CASE S.al[a].kind = "native" -> S.al[a].pages > 0
    [] S.al[a].kind \in {"umm", "ubuf"} -> S.al[a].attached > 0
    [] OTHER -> FALSE

AliasEntry(S, a, i) == IF S.al[a].of[i] = NoAlloc THEN Sink ELSE S.al[a].of[i]

\* kbase_gpu_mmap puts the region at slot s and maps the n first entries of an
\* alias, or what the others have backed.
MapRegion(S, a, s) ==
  LET placed == [S EXCEPT !.al[a].phase = "va", !.al[a].slot = s]
  IN  IF S.al[a].kind = "alias"
      THEN LET mapped == Mapped(placed, s, [i \in Entry |-> AliasEntry(S, a, i)])
           IN  FoldLeft(LAMBDA T, b : IF b = NoAlloc THEN T ELSE Counted(T, b, 1), mapped, S.al[a].of)
      ELSE Counted(IF Backed(S, a) THEN Mapped(placed, s, <<a>>) ELSE placed, a, 1)

\* The rollback of kbase_gpu_mmap after entry i of an alias failed: entries of
\* the sink page are left behind.
MapFailed(S, a, s, i) ==
  LET sinks == {e \in 1 .. i - 1 : AliasEntry(S, a, e) = Sink}
      kept == Mapped(S, s, [e \in 1 .. i - 1 |-> IF e \in sinks THEN Sink ELSE Unmapped])
  IN  [kept EXCEPT !.left = @ \cup ({s} \X sinks)]

\* kbase_jd_user_buf_unmap, kbase_jd_umm_unmap: the pages go back.
Detach(S, a) == [S EXCEPT !.al[a].attached = @ - 1]

\* kbase_mmu_teardown_pages over what the region has backed: nothing once an
\* import is detached.
Teardown(S, a) ==
  Cleared(S, S.al[a].slot,
          IF S.al[a].kind = "alias" THEN Entry
          ELSE IF ~Backed(S, a) THEN {}
          ELSE IF S.al[a].kind = "umm" THEN Entry ELSE {1})

\* kbase_gpu_munmap: the entries, the counts of mappings, the pins of an
\* import whoever uses it, the place in the address space.  A region behind a
\* cookie has none.
UnmapRegion(S, a) ==
  IF S.al[a].phase # "va" THEN S
  ELSE LET torn == Teardown(S, a)
           counted == IF S.al[a].kind = "alias"
                      THEN FoldLeft(LAMBDA T, b : IF b = NoAlloc THEN T ELSE Counted(T, b, -1), torn, S.al[a].of)
                      ELSE Counted(torn, a, -1)
       IN  IF S.al[a].pinned
           THEN [Detach(counted, a) EXCEPT !.al[a].pinned = FALSE, !.al[a].torn = S.al[a].usage > 0]
           ELSE counted

------------------------------------------------------------------------------
(* External resources *)

\* kbase_jd_user_buf_map: the pages of a user buffer are pinned and mapped.
UserBufMap(S, a) == [Mapped(S, S.al[a].slot, <<a>>) EXCEPT !.al[a].attached = @ + 1]

\* kbase_jd_umm_map: a dma-buf is attached and mapped, and its padding leads
\* to the sink page.
UmmMap(S, a) ==
  [Mapped(S, S.al[a].slot, IF S.al[a].pad THEN <<a, Sink>> ELSE <<a>>) EXCEPT !.al[a].attached = @ + 1]

\* kbase_map_external_resource: the first user attaches the memory and maps
\* it; `ours` is whether the caller's address space is that of the import.
Mappable(S, a, ours) == S.al[a].kind = "umm" \/ (S.al[a].kind = "ubuf" /\ ours)
Acquire(S, a) ==
  LET first == S.al[a].usage = 0 /\ ~S.al[a].pinned
      used == [S EXCEPT !.al[a].usage = @ + 1, !.al[a].kref = @ + 1]
  IN  IF ~first THEN used
      ELSE IF S.al[a].kind = "umm" THEN UmmMap(used, a) ELSE UserBufMap(used, a)

\* The entries of memory that is detached while its region stays.
Stranded(S, a) ==
  IF S.al[a].phase = "va"
  THEN [S EXCEPT !.left = @ \cup {<<S.al[a].slot, i>> : i \in IF S.al[a].pad THEN Entry ELSE {1}}]
  ELSE S

\* kbase_unmap_external_resource: the last user detaches it.  The entries are
\* torn down when the region found at the address still is that of the memory.
Release(S, a, found) ==
  LET last == S.al[a].usage = 1 /\ ~S.al[a].pinned
      less == [S EXCEPT !.al[a].usage = @ - 1]
      torn == IF found = {a} THEN Teardown(less, a) ELSE Stranded(less, a)
  IN  Put(IF last THEN Detach(torn, a) ELSE less, a)

Sticky(S, s, a) == [slot |-> s, alloc |-> a]
FirstAt(q, s) == SelectInSeq(q, LAMBDA m : m.slot = s)

\* kbase_sticky_resource_release by address: the newest resource of that address.
ReleaseSticky(S, q, s) ==
  LET m == q[FirstAt(q, s)] IN [st |-> Release(S, m.alloc, InVa(S, s)), q |-> RemoveAt(q, FirstAt(q, s))]

\* kbase_free_alloced_region: out of the list of sticky resources, then the
\* two references of the region.  The region is out of the tree by now.
FreeRegion(S, q, a) ==
  LET s == S.al[a].slot
      out == [S EXCEPT !.al[a].phase = "none", !.al[a].slot = NoSlot]
      r == IF s # NoSlot /\ FirstAt(q, s) # 0 THEN ReleaseSticky(out, q, s) ELSE [st |-> out, q |-> q]
  IN  [st |-> Put(Put(r.st, a), a), q |-> r.q]

\* kbase_mem_free_region: off the address space, then the region itself.
MemFreeRegion(S, q, a) == FreeRegion(UnmapRegion(S, a), q, a)

Becomes(r) == alloc' = r.st.al /\ pte' = r.st.pt /\ left' = r.st.left /\ sticky' = r.q

------------------------------------------------------------------------------
Init ==
  /\ compat \in BOOLEAN
  /\ alloc = [a \in Allocs |-> Unused]
  /\ pte = [s \in Slots |-> [i \in Entry |-> Unmapped]]
  /\ left = {}
  /\ extres = [j \in Jobs |-> <<>>]
  /\ sticky = <<>>
  /\ dead = FALSE

\* A new region r either waits behind a cookie for its mmap or is mapped at once.
Enter(S, a) ==
  \/ /\ S.al[a].same /\ Cardinality(Waiting) < Cookies
     /\ Becomes([st |-> [S EXCEPT !.al[a].phase = "cookie"], q |-> sticky])
  \/ \E s \in FreeSlots(S) :
       /\ ~S.al[a].same
       /\ Becomes([st |-> MapRegion(S, a, s), q |-> sticky])

Region(k, same) == [Unused EXCEPT !.kind = k, !.kref = 2, !.same = same]

\* kbase_mem_alloc.
MemAlloc(a) ==
  /\ ~dead /\ alloc[a] = Unused
  /\ \E same \in {TRUE, ~compat}, n \in {0, 1} :
       Enter([Now EXCEPT !.al[a] = [Region("native", same) EXCEPT !.pages = n]], a)
  /\ UNCHANGED <<compat, extres, dead>>

\* kbase_mem_alias: each entry is the sink page or a backed native region,
\* whose allocation it refers to from now on.
MemAlias(a) ==
  /\ ~dead /\ alloc[a] = Unused
  /\ \E x, y \in {NoAlloc} \cup {b \in Allocs : /\ alloc[b].kind = "native" /\ alloc[b].phase = "va"
                                                /\ alloc[b].pages > 0} :
       LET new == [Now EXCEPT !.al[a] = [Region("alias", ~compat) EXCEPT !.of = <<x, y>>]]
           got == FoldLeft(LAMBDA S, b : IF b = NoAlloc THEN S ELSE [S EXCEPT !.al[b].kref = @ + 1], new, <<x, y>>)
       IN  Enter(got, a)
  /\ UNCHANGED <<compat, extres, dead>>

\* kbase_mem_from_umm: a dma-buf, with padding or none, attached when it is used.
FromUmm(same, padded) == [Region("umm", same) EXCEPT !.pad = padded]

\* kbase_mem_from_user_buffer: a coherent buffer is pinned at once.
FromUserBuffer(same, coherent) ==
  [Region("ubuf", same) EXCEPT !.pinned = coherent, !.attached = IF coherent THEN 1 ELSE 0]

\* kbase_mem_import.
MemImport(a) ==
  /\ ~dead /\ alloc[a] = Unused
  /\ \E same \in {TRUE, ~compat}, x \in BOOLEAN :
       \E region \in {FromUmm(same, x), FromUserBuffer(same, x)} :
          Enter([Now EXCEPT !.al[a] = region], a)
  /\ UNCHANGED <<compat, extres, dead>>

\* kbase_mmap of a cookie.  When the CPU side fails the region stays without a
\* mapping, until the context ends.
MmapCookie(a) ==
  /\ ~dead /\ alloc[a].phase = "cookie"
  /\ \E s \in FreeSlots(Now), cpu \in BOOLEAN :
       LET S == MapRegion(Now, a, s)
       IN  Becomes([st |-> IF cpu THEN [S EXCEPT !.al[a].own = 1, !.al[a].kref = @ + 1] ELSE S,
                    q |-> sticky])
  /\ UNCHANGED <<compat, extres, dead>>

\* kbase_gpu_mmap fails on an alias, at entry i; the cookie stays.
MmapFails(a) ==
  /\ ~dead /\ alloc[a].phase = "cookie" /\ alloc[a].kind = "alias"
  /\ \E s \in FreeSlots(Now), i \in Entry : Becomes([st |-> MapFailed(Now, a, s, i), q |-> sticky])
  /\ UNCHANGED <<compat, extres, dead>>

\* The mappings of an allocation beside the one it came with.
Further(a) == alloc[a].maps + alloc[a].vmaps + (IF alloc[a].own > 1 THEN alloc[a].own - 1 ELSE 0)

\* kbase_cpu_vm_open: the mapping a region came with is split.
VmOpen(a) ==
  /\ ~dead /\ alloc[a].own > 0 /\ Further(a) < MaxMaps
  /\ alloc' = [alloc EXCEPT ![a].own = @ + 1]
  /\ UNCHANGED <<compat, pte, left, extres, sticky, dead>>

\* kbase_mmap of the address of a region; a dma-buf maps itself.
MapAgain(a) ==
  /\ ~dead /\ alloc[a].phase = "va" /\ alloc[a].kind # "umm" /\ Further(a) < MaxMaps
  /\ alloc' = [alloc EXCEPT ![a].maps = @ + 1, ![a].kref = @ + 1]
  /\ UNCHANGED <<compat, pte, left, extres, sticky, dead>>

\* kbase_vmap_prot and kbase_vunmap.
Vmap(a) ==
  /\ ~dead /\ alloc[a].phase = "va" /\ Backed(Now, a) /\ Further(a) < MaxMaps
  /\ alloc' = [alloc EXCEPT ![a].vmaps = @ + 1, ![a].kref = @ + 2]
  /\ UNCHANGED <<compat, pte, left, extres, sticky, dead>>
Vunmap(a) ==
  /\ alloc[a].vmaps > 0
  /\ Becomes([st |-> Put(Put([Now EXCEPT !.al[a].vmaps = @ - 1], a), a), q |-> sticky])
  /\ UNCHANGED <<compat, extres, dead>>

\* kbase_cpu_vm_close: with the last piece of the mapping it came with goes a
\* SAME_VA region, unless the process is exiting.
VmClose(a, exiting) ==
  /\ alloc[a].own > 0
  /\ LET S == [Now EXCEPT !.al[a].own = @ - 1]
         r == IF exiting THEN [st |-> S, q |-> sticky] ELSE MemFreeRegion(S, sticky, a)
     IN  IF alloc[a].own > 1 THEN Becomes([st |-> S, q |-> sticky])
         ELSE Becomes([r EXCEPT !.st = Put(@, a)])
  /\ UNCHANGED <<compat, extres, dead>>

\* kbase_cpu_vm_close of a mapping made by address.
VmCloseOther(a) ==
  /\ alloc[a].maps > 0
  /\ Becomes([st |-> Put([Now EXCEPT !.al[a].maps = @ - 1], a), q |-> sticky])
  /\ UNCHANGED <<compat, extres, dead>>

\* kbase_mem_free: by cookie, or by address when the region is not SAME_VA.
MemFree(a) ==
  /\ ~dead
  /\ alloc[a].phase = "cookie" \/ (alloc[a].phase = "va" /\ ~alloc[a].same)
  /\ Becomes(MemFreeRegion(Now, sticky, a))
  /\ UNCHANGED <<compat, extres, dead>>

\* kbase_mem_commit: refused while more than one GPU mapping exists.  An alias
\* that waits for its mmap has none yet, and is cut off from the pages.
MemCommit(a) ==
  /\ ~dead /\ alloc[a].kind = "native" /\ alloc[a].phase = "va"
  /\ alloc[a].gpu_mappings <= 1
  /\ LET n == 1 - alloc[a].pages
         cut(b) == CASE b \notin Waiting \/ a \notin ToSet(alloc[b].of) -> alloc[b].cut
                     [] n = 0 -> alloc[b].cut \cup {a}
                     [] OTHER -> alloc[b].cut \ {a}
         al == [b \in Allocs |-> [alloc[b] EXCEPT !.cut = cut(b), !.pages = IF b = a THEN n ELSE @]]
     IN  Becomes([st |-> Mapped([Now EXCEPT !.al = al], alloc[a].slot, <<IF n = 1 THEN a ELSE Unmapped>>),
                  q |-> sticky])
  /\ UNCHANGED <<compat, extres, dead>>

\* kbase_jd_pre_external_resources: the resources are acquired in turn; when
\* one fails those before it are released, without their region.
JobStart(j) ==
  /\ ~dead /\ extres[j] = <<>>
  /\ \E rs \in {q \in UNION {[1 .. n -> Allocs] : n \in {1, 2}} : \A i \in DOMAIN q : alloc[q[i]].phase = "va"} :
       \E ok \in 0 .. Len(rs) :
         LET got == FoldLeft(Acquire, Now, SubSeq(rs, 1, ok))
             undone == FoldLeft(LAMBDA S, a : Release(S, a, {}), got, Reverse(SubSeq(rs, 1, ok)))
         IN  /\ \A i \in 1 .. ok : Mappable(Now, rs[i], TRUE)
             /\ IF ok = Len(rs)
                THEN /\ Becomes([st |-> got, q |-> sticky])
                     /\ extres' = [extres EXCEPT ![j] = [i \in 1 .. ok |-> Sticky(Now, alloc[rs[i]].slot, rs[i])]]
                ELSE /\ Becomes([st |-> undone, q |-> sticky])
                     /\ UNCHANGED extres
  /\ UNCHANGED <<compat, dead>>

\* kbase_jd_post_external_resources: in reverse, each with the region that is
\* at its address now.
Finished(S, rs) == FoldLeft(LAMBDA T, r : Release(T, r.alloc, InVa(T, r.slot)), S, Reverse(rs))
JobEnd(j) ==
  /\ extres[j] # <<>>
  /\ Becomes([st |-> Finished(Now, extres[j]), q |-> sticky])
  /\ extres' = [extres EXCEPT ![j] = <<>>]
  /\ UNCHANGED <<compat, dead>>

\* kbase_sticky_resource_acquire.  An address inside the region matches no
\* resource of the list, which are kept by the first address of theirs.
StickyAcquire(a, inside) ==
  /\ ~dead /\ alloc[a].phase = "va" /\ Mappable(Now, a, FALSE)
  /\ inside \/ FirstAt(sticky, alloc[a].slot) = 0
  /\ Len(sticky) < MaxSticky
  /\ Becomes([st |-> Acquire(Now, a), q |-> <<Sticky(Now, alloc[a].slot, a)>> \o sticky])
  /\ UNCHANGED <<compat, extres, dead>>
StickyRelease(s) ==
  /\ ~dead /\ FirstAt(sticky, s) # 0
  /\ Becomes(ReleaseSticky(Now, sticky, s))
  /\ UNCHANGED <<compat, extres, dead>>

\* kbase_destroy_context, after the jobs are gone and with the process'
\* mappings closed: sticky resources, regions behind cookies, then by address.
Destroy ==
  /\ ~dead
  /\ \A j \in Jobs : extres[j] = <<>>
  /\ \A a \in Allocs : alloc[a].own = 0 /\ alloc[a].maps = 0 /\ alloc[a].vmaps = 0
  /\ LET unstuck == FoldLeft(LAMBDA S, m : Release(S, m.alloc, InVa(S, m.slot)), Now, sticky)
         drop(S, a) == IF S.al[a].phase = "none" THEN S
                       ELSE FreeRegion(S, <<>>, a).st
         gone(order) == FoldLeft(LAMBDA S, s : Cleared(S, s, Entry), FoldLeft(drop, unstuck, order), SetToSeq(Slots))
     IN  \E cookies \in SetToSeqs(Waiting), placed \in SetToSeqs({a \in Allocs : alloc[a].phase = "va"}) :
           Becomes([st |-> gone(cookies \o placed), q |-> <<>>])
  /\ dead' = TRUE
  /\ UNCHANGED <<compat, extres>>

Next ==
  \/ \E a \in Allocs :
       \/ MemAlloc(a) \/ MemAlias(a) \/ MemImport(a)
       \/ MmapCookie(a) \/ MmapFails(a) \/ VmOpen(a) \/ MapAgain(a)
       \/ Vmap(a) \/ Vunmap(a)
       \/ \E exiting \in BOOLEAN : VmClose(a, exiting)
       \/ VmCloseOther(a) \/ MemFree(a) \/ MemCommit(a)
       \/ \E inside \in BOOLEAN : StickyAcquire(a, inside)
  \/ \E j \in Jobs : JobStart(j) \/ JobEnd(j)
  \/ \E s \in Slots : StickyRelease(s)
  \/ Destroy

Spec == Init /\ [][Next]_vars

------------------------------------------------------------------------------
(* Properties *)

TypeOK ==
  /\ compat \in BOOLEAN /\ dead \in BOOLEAN
  /\ \A a \in Allocs :
        /\ alloc[a].kind \in Kinds \cup {"none"} /\ alloc[a].phase \in {"none", "cookie", "va"}
        /\ alloc[a].slot \in Slots \cup {NoSlot}
        /\ \A f \in {"kref", "usage", "gpu_mappings", "own", "maps", "vmaps"} : alloc[a][f] \in Nat
        /\ alloc[a].attached \in Int /\ alloc[a].torn \in BOOLEAN /\ alloc[a].cut \subseteq Allocs
  /\ \A s \in Slots, i \in Entry : pte[s][i] \in Allocs \cup {Sink, Unmapped}
  /\ left \subseteq Slots \X Entry

Count(q, a) == Cardinality({i \in DOMAIN q : q[i].alloc = a})
Users(a) == MapThenSumSet(LAMBDA j : Count(extres[j], a), Jobs) + Count(sticky, a)
AliasRefs(a) ==
  Cardinality({<<b, i>> \in Allocs \X Entry : i \in DOMAIN alloc[b].of /\ alloc[b].of[i] = a})
AliasMaps(a) ==
  Cardinality({<<b, i>> \in Allocs \X Entry : alloc[b].phase = "va" /\ i \in DOMAIN alloc[b].of /\ alloc[b].of[i] = a})

\* An allocation lives exactly as long as somebody holds it: its region, an
\* alias of it, a CPU or kernel mapping, a job, a sticky resource; its count of
\* GPU mappings is the number of regions that map it.
RefsExact ==
  \A a \in Allocs :
     /\ alloc[a].kref = (IF alloc[a].phase = "none" THEN 0 ELSE 2) + AliasRefs(a) + Users(a)
                        + (IF alloc[a].own > 0 THEN 1 ELSE 0) + alloc[a].maps + 2 * alloc[a].vmaps
     /\ (alloc[a].kref = 0) = (alloc[a].kind = "none")
     /\ alloc[a].kind = "native" =>
          alloc[a].gpu_mappings = AliasMaps(a) + (IF alloc[a].phase = "va" THEN 1 ELSE 0)

\* Imported memory is attached, or its pages are pinned, once exactly while it
\* is used or since it was imported pinned; nothing stays attached when the
\* allocation is freed, except the pages of a pinned import freed without
\* kbase_gpu_munmap.  The pages of a pinned import that left the address space
\* under a user were given back then (kbase_gpu_munmap), and are given back a
\* second time by the last user, once and not more often.
UsageExact ==
  /\ TypeOK
  /\ \A a \in Allocs :
        /\ alloc[a].kind # "none" => alloc[a].usage = Users(a)
        /\ alloc[a].attached + (IF alloc[a].torn THEN 1 ELSE 0)
             = (IF alloc[a].kind # "none" /\ (alloc[a].usage > 0 \/ alloc[a].pinned) THEN 1 ELSE 0)

\* A page-table entry leads to pages that are there, of the region at that
\* place or of one it aliases.  Three kinds of entries may not: those the
\* rollback of a job or of an alias left behind (kbase_jd_pre_external_resources,
\* bad_insert of kbase_gpu_mmap), until they are written or torn down, and those
\* of an alias that leads to a region shrunk before its mmap.
PteBacked ==
  \A s \in Slots, i \in Entry :
     <<s, i>> \notin left =>
       /\ pte[s][i] # Unmapped => InVa(Now, s) # {}
       /\ pte[s][i] \in Allocs =>
            \A r \in InVa(Now, s) :
              /\ Backed(Now, pte[s][i]) \/ pte[s][i] \in alloc[r].cut
              /\ pte[s][i] = r \/ pte[s][i] \in ToSet(alloc[r].of)

\* The memory a running job or a sticky resource uses is mapped where the
\* region is, for as long as the region is there.
ResourceMapped ==
  \A a \in Allocs :
     /\ alloc[a].phase = "va" /\ (Users(a) > 0 \/ alloc[a].pinned) => pte[alloc[a].slot][1] = a
     /\ alloc[a].phase = "va" /\ alloc[a].kind = "alias" => \A i \in Entry : pte[alloc[a].slot][i] = AliasEntry(Now, a, i)

==============================================================================
