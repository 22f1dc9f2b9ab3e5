------------------------------- MODULE SyncSet -------------------------------
(***************************************************************************)
(* Cache maintenance (mali_kbase_mem.c, mali_kbase_mem_linux.c): which     *)
(* bytes of which pages a sync of a user range or of a kernel mapping      *)
(* cleans or invalidates.  The model follows one byte, any byte of any     *)
(* region, through the CPU cache, while everything else is synced around   *)
(* it; what dma_sync_single_* does to a line is the platform's.            *)
(***************************************************************************)
EXTENDS Integers, FiniteSets, FiniteSetsExt

CONSTANTS
  PageSize, LineSize, Wrap,   \* bytes; addresses wrap at Wrap
  Region,   \* of each region: start, nr_pages, nents, cached, imported, copied
  Vma,      \* of each CPU mapping: start, end, pgoff, region (no region: not ours)
  Starts, Sizes,              \* the user ranges asked for
  Maps,                       \* the kernel mappings: first byte and size
  FaultyPaths                 \* the paths of the code that break a property

VARIABLES
  byte,     \* the byte that is followed: region and offset
  line,     \* what the CPU cache holds of it
  cpu_page, gpu_page,  \* what the pages hold; the same page unless copied
  for_gpu, for_cpu,    \* what each side must see, if it is settled
  map       \* a kernel mapping of the region: first byte and size

vars == <<byte, line, cpu_page, gpu_page, for_gpu, for_cpu, map>>

Regions == DOMAIN Region
Unknown == "unknown"
NoMap == [size |-> 0]
Absent == [state |-> "absent", value |-> "zero"]

Init ==
  /\ \E r \in Regions : \E b \in 0 .. (Region[r].nents * PageSize - 1) :
       byte = [region |-> r, at |-> b]
  /\ line = Absent /\ cpu_page = "zero" /\ gpu_page = "zero"
  /\ for_gpu = "zero" /\ for_cpu = "zero" /\ map = NoMap

reg == Region[byte.region]
Page == byte.at \div PageSize
InPage == byte.at % PageSize
CpuView == IF line.state = "absent" THEN cpu_page ELSE line.value
-----------------------------------------------------------------------------
(* The lookups.                                                            *)

\* The mapping that find_vma_intersection returns: the first that ends past
\* the address, if it begins before the end of the range.
Intersecting(uaddr, size) ==
  {v \in DOMAIN Vma :
     /\ uaddr < Vma[v].end /\ (uaddr + size) % Wrap > Vma[v].start
     /\ \A w \in DOMAIN Vma : uaddr < Vma[w].end => Vma[v].end <= Vma[w].end}

\* Mutant of FindCpu: the part of the region that is mapped is ignored.
FindCpu_Whole(uaddr, size) ==
  {[region |-> Vma[v].region, offset |-> uaddr - Vma[v].start] :
     v \in {v \in Intersecting(uaddr, size) :
              Vma[v].start <= uaddr /\ Vma[v].region \in Regions}}

\* kbasep_find_enclosing_cpu_mapping: at most one mapping of ours, and the
\* offset into its region.
FindCpu(uaddr, size) ==
  LET In(v) == (Vma[v].pgoff - Region[Vma[v].region].start) * PageSize
      Ours == {v \in Intersecting(uaddr, size) :
                 /\ (uaddr + size) % Wrap >= uaddr
                 /\ Vma[v].start <= uaddr /\ Vma[v].region \in Regions
                 /\ uaddr + size <= (Vma[v].start - In(v))
                                    + Region[Vma[v].region].nr_pages * PageSize}
  IN  {[region |-> Vma[v].region, offset |-> uaddr - Vma[v].start + In(v)] : v \in Ours}

\* kbasep_find_enclosing_gpu_mapping_start_and_offset.
FindGpu(gpu_addr, size) ==
  {[region |-> r, offset |-> gpu_addr - Region[r].start * PageSize] :
     r \in {r \in Regions :
              LET first == Region[r].start * PageSize
                  end == (Region[r].start + Region[r].nr_pages) * PageSize
              IN  first <= gpu_addr /\ gpu_addr < end /\ end >= gpu_addr + size}}
-----------------------------------------------------------------------------
(* The parts of pages that a range is synced in.                           *)

\* Mutant of LastSize: one byte short, so that a full page counts as none.
LastSize_Short(end) == end % PageSize

\* The bytes of the last page, of a range that ends before this byte.
LastSize(end) == ((end - 1) % PageSize) + 1

\* kbase_do_syncset: the pages from page_off on that are there.
Parts(r, offset, start, size) ==
  LET page_off == offset \div PageSize
      first == offset % PageSize
      count == (size + first + PageSize - 1) \div PageSize
      There(i) == page_off + i < Region[r].nents
      middle == {i \in 1 .. count - 2 : \A j \in 1 .. i : There(j)}
  IN  {[page |-> page_off, at |-> first, size |-> Min({PageSize - first, size})] :
         i \in {i \in {0} : There(0)}}
      \cup {[page |-> page_off + i, at |-> 0, size |-> PageSize] : i \in middle}
      \cup {[page |-> page_off + i, at |-> 0, size |-> LastSize(start + size)] :
              i \in {i \in {count - 1} : count > 1 /\ There(i)}}

\* The range does not lie in the region.
Overflows(r, offset, size) ==
  LET count == (size + (offset % PageSize) + PageSize - 1) \div PageSize
  IN  \/ offset \div PageSize > Region[r].nr_pages
      \/ (offset \div PageSize) + count > Region[r].nr_pages

\* kbasep_sync_mem_regions, whose pages are all there.
MapParts(m) ==
  LET first == m.at % PageSize
      count == (first + m.size + PageSize - 1) \div PageSize
      page == m.at \div PageSize
  IN  {[page |-> page, at |-> first, size |-> Min({PageSize - first, m.size})]}
      \cup {[page |-> page + i, at |-> 0, size |-> PageSize] : i \in 1 .. count - 2}
      \cup {[page |-> page + i, at |-> 0, size |-> LastSize(first + m.size)] :
              i \in {i \in {count - 1} : count > 1}}
-----------------------------------------------------------------------------
(* What a sync does to the byte: kbase_sync_single.                        *)

LineStart == InPage - (InPage % LineSize)
Bytes(p) == p.at .. p.at + p.size - 1
Holds(p) == p.page = Page /\ InPage \in Bytes(p)
Touches(p) == p.page = Page /\ Bytes(p) \cap (LineStart .. LineStart + LineSize - 1) # {}
Covers(p) == p.page = Page /\ (LineStart .. LineStart + LineSize - 1) \subseteq Bytes(p)

\* A dirty line is written back.
WriteBack == IF line.state = "dirty" THEN line.value ELSE cpu_page

\* The one page is cleaned, or invalidated but for the lines it shares with
\* other data; or the two pages are copied.
SyncSingle(parts, type) ==
  CASE reg.copied /\ type = "to device" ->
         /\ gpu_page' = IF \E p \in parts : Holds(p) THEN CpuView ELSE gpu_page
         /\ UNCHANGED <<line, cpu_page>>
    [] reg.copied /\ type = "to cpu" ->
         /\ line' = IF \E p \in parts : Holds(p)
                      THEN [state |-> "dirty", value |-> gpu_page] ELSE line
         /\ UNCHANGED <<cpu_page, gpu_page>>
    [] ~reg.copied /\ (\E p \in parts : Touches(p)) ->
         /\ gpu_page' = IF type = "to cpu" /\ (\E p \in parts : Covers(p))
                          THEN gpu_page ELSE WriteBack
         /\ cpu_page' = gpu_page'
         /\ line' = IF type = "to cpu" THEN Absent
                    ELSE IF line.state = "dirty" THEN [line EXCEPT !.state = "clean"]
                    ELSE line
    [] OTHER -> UNCHANGED <<line, cpu_page, gpu_page>>

\* What the caller of a sync of these bytes may count on.
Settle(covered, type) ==
  CASE covered /\ type = "to device" ->
         /\ for_gpu' = IF for_cpu # Unknown THEN for_cpu
                       ELSE IF reg.copied THEN Unknown ELSE for_gpu
         /\ UNCHANGED for_cpu
    [] covered /\ type = "to cpu" -> for_cpu' = for_gpu /\ UNCHANGED for_gpu
    [] OTHER -> UNCHANGED <<for_gpu, for_cpu>>

\* kbase_sync_now and kbase_do_syncset, with the handle of a region.
Sync(uaddr, size) ==
  \E m \in FindCpu(uaddr, size), handle \in Regions, type \in {"to device", "to cpu"} :
    /\ Region[handle].cached /\ ~Region[handle].imported
    /\ m.region = handle \/ "another handle" \in FaultyPaths
    /\ ~Overflows(handle, m.offset, size)
    /\ SyncSingle(IF handle = byte.region THEN Parts(handle, m.offset, uaddr, size)
                                          ELSE {}, type)
    /\ Settle(m.region = byte.region /\ byte.at \in m.offset .. m.offset + size - 1, type)
    /\ UNCHANGED <<byte, map>>

\* kbase_vmap_prot of the pages that are backed.
KernelMap(m) ==
  LET needed == reg.cached /\ ~reg.imported
      count == ((m.at % PageSize) + m.size + PageSize - 1) \div PageSize
  IN  /\ map = NoMap /\ m.size > 0
      /\ (m.at \div PageSize) + count <= reg.nents
      /\ map' = m
      /\ SyncSingle(IF needed THEN MapParts(m) ELSE {}, "to cpu")
      /\ Settle(needed /\ byte.at \in m.at .. m.at + m.size - 1, "to cpu")
      /\ UNCHANGED byte

\* kbase_vunmap.
KernelUnmap ==
  LET needed == reg.cached /\ ~reg.imported
  IN  /\ map # NoMap /\ map' = NoMap
      /\ SyncSingle(IF needed THEN MapParts(map) ELSE {}, "to device")
      /\ Settle(needed /\ byte.at \in map.at .. map.at + map.size - 1, "to device")
      /\ UNCHANGED byte
-----------------------------------------------------------------------------
(* The two sides, and the cache between them.                              *)

\* User space, or the kernel through its mapping, writes the byte.
CpuWrite(v) ==
  /\ IF reg.cached
       THEN line' = [state |-> "dirty", value |-> v]
            /\ for_gpu' = Unknown /\ UNCHANGED <<cpu_page, gpu_page>>
       ELSE cpu_page' = v /\ gpu_page' = v /\ for_gpu' = v /\ UNCHANGED line
  /\ for_cpu' = v /\ UNCHANGED <<byte, map>>

\* A job writes the byte; nobody runs one over lines the CPU has written.
GpuWrite(v) ==
  /\ line.state # "dirty" \/ reg.copied
  /\ map = NoMap
  /\ gpu_page' = v /\ cpu_page' = IF reg.copied THEN cpu_page ELSE v
  /\ for_gpu' = v /\ for_cpu' = IF reg.cached THEN Unknown ELSE v
  /\ UNCHANGED <<byte, line, map>>

\* The cache fetches and evicts lines when it likes.
CacheMoves ==
  /\ reg.cached
  /\ \/ line = Absent /\ line' = [state |-> "clean", value |-> cpu_page]
        /\ UNCHANGED <<cpu_page, gpu_page>>
     \/ /\ line # Absent /\ line' = Absent
        /\ cpu_page' = WriteBack
        /\ gpu_page' = IF reg.copied THEN gpu_page ELSE cpu_page'
  /\ UNCHANGED <<byte, for_gpu, for_cpu, map>>

Next ==
  \/ \E uaddr \in Starts, size \in Sizes : Sync(uaddr, size)
  \/ \E m \in Maps : KernelMap(m)
  \/ KernelUnmap
  \/ CpuWrite("cpu")
  \/ GpuWrite("gpu")
  \/ CacheMoves

Spec == Init /\ [][Next]_vars
-----------------------------------------------------------------------------
\* After a sync each side reads what the other wrote to every byte of the
\* range, whatever its first and last bytes, and no byte outside it loses
\* what the CPU had written.
BytesReachTheOtherSide ==
  /\ for_gpu # Unknown => gpu_page = for_gpu
  /\ for_cpu # Unknown => CpuView = for_cpu

\* The lookups of the CPU address and of the GPU address of the byte find it,
\* in the region and at the offset it is at.
LookupsAgree ==
  \A v \in DOMAIN Vma, size \in Sizes :
    LET in == (Vma[v].pgoff - reg.start) * PageSize
        uaddr == Vma[v].start + byte.at - in
        there == {[region |-> byte.region, offset |-> byte.at]}
    IN  (Vma[v].region = byte.region /\ uaddr \in Vma[v].start .. Vma[v].end - 1) =>
          /\ FindCpu(uaddr, size) \subseteq there
          /\ FindCpu(uaddr, size) \subseteq FindGpu(reg.start * PageSize + byte.at, size)
=============================================================================
