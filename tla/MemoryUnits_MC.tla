--------------------------- MODULE MemoryUnits_MC ---------------------------
(***************************************************************************)
(* The parts of the memory management that do not run together with one    *)
(* another, checked side by side:                                          *)
(* a behaviour chooses one unit and takes the steps of that unit alone, so *)
(* a state of this module is a state of one component.  The components     *)
(* share the variables v1 to v14, each in its own sense; an unused one is  *)
(* zero.                                                                   *)
(***************************************************************************)
EXTENDS Integers, Sequences, FiniteSets, TLC

CONSTANTS allocA, allocB, placeA, placeB  \* the allocations and the places of mappings

VARIABLES unit, v1, v2, v3, v4, v5, v6, v7, v8, v9, v10, v11, v12, v13, v14

vars == <<unit, v1, v2, v3, v4, v5, v6, v7, v8, v9, v10, v11, v12, v13, v14>>
from7 == <<v7, v8, v9, v10, v11, v12, v13, v14>>
from8 == <<v8, v9, v10, v11, v12, v13, v14>>
from9 == <<v9, v10, v11, v12, v13, v14>>
from10 == <<v10, v11, v12, v13, v14>>
from11 == <<v11, v12, v13, v14>>
from12 == <<v12, v13, v14>>
from13 == <<v13, v14>>

Zero13 == v13 = 0 /\ v14 = 0
Zero12 == v12 = 0 /\ Zero13
Zero11 == v11 = 0 /\ Zero12
Zero10 == v10 = 0 /\ Zero11
Zero9 == v9 = 0 /\ Zero10
Zero8 == v8 = 0 /\ Zero9
Zero7 == v7 = 0 /\ Zero8
-----------------------------------------------------------------------------
(* Twelve pages of address space and the two zones above it, at most three *)
(* regions of one or three pages, beside a mapping of somebody else's; a   *)
(* 32-bit and a 64-bit context.                                            *)

Va == INSTANCE VaSpace WITH
  MaxRegions <- 3, SamePages <- 11, ExecBase <- 13, CustomBase <- 18, ZonePages <- 4,
  JitPages <- 4, MmapBase <- 9, TaskSize <- 12, Huge <- 2, PcSpan <- 4, FourGB <- 8,
  Extent <- 4, Commit <- 1, Foreign <- {0, 4}, Lens <- {1, 3}, JitInitRaces <- FALSE,
  compat <- v1, same_va_end <- v2, tree <- v3, vmas <- v4, mapping <- v5, jit_pool <- v6

VaInit == unit = "address space" /\ Va!Init /\ Zero7
VaStep == unit = "address space" /\ Va!Next /\ UNCHANGED <<unit, from7>>

(* Two allocations, two places in the page table and one job.              *)

Mp == INSTANCE Mappings WITH
  Allocs <- {allocA, allocB}, NoAlloc <- "none", Slots <- {placeA, placeB}, Cookies <- 1, Jobs <- {"j1"},
  MaxMaps <- 1, MaxSticky <- 1,
  compat <- v1, alloc <- v2, pte <- v3, left <- v4, extres <- v5, sticky <- v6, dead <- v7

MpInit == unit = "mappings" /\ Mp!Init /\ Zero8
MpStep == unit = "mappings" /\ Mp!Next /\ UNCHANGED <<unit, from8>>

(* Two large pages of three small ones, three regions of two to four.      *)

Hp == INSTANCE HugePages WITH
  Large <- {1, 2}, Big <- 3, Roots <- 4, Regions <- {1, 2, 3}, Start <- <<2, 6, 9>>,
  NrPages <- <<4, 3, 2>>, Single <- {3}, FaultyPaths <- {},
  region <- v1, pages <- v2, pool <- v3, sub_pages <- v4, partials <- v5, root <- v6,
  used_pages <- v7, dead <- v8

HpInit == unit = "huge pages" /\ Hp!Init /\ Zero9
HpStep == unit = "huge pages" /\ Hp!Next /\ UNCHANGED <<unit, from9>>

(* A region that faults may grow by two pages; two faults, one reset, two *)
(* calls of the write tracking.                                            *)

Mf == INSTANCE MmuFault WITH
  Grow <- 2, MaxFaults <- 2, MaxResets <- 1, MaxGwt <- 2,
  gpu <- v1, ctx <- v2, as <- v3, irq <- v4, wq <- v5, work <- v6, reset <- v7, gwt <- v8,
  calls <- v9, faults_pending <- v10

MfInit == unit = "mmu faults" /\ Mf!Init /\ Zero11
MfStep == unit = "mmu faults" /\ Mf!Next /\ UNCHANGED <<unit, from11>>

(* Three atoms poke one address space; the job-done worker lets go of them. *)

Pk == INSTANCE AsPoke WITH
  Atoms <- {1, 2, 3}, Releasers <- 1,
  poking <- v1, poke_refcount <- v2, poke_state <- v3, timer <- v4, queued <- v5,
  worker <- v6, clash <- v7

ASSUME PokeAssumed == Pk!PokeAssumption

PkInit == unit = "poking" /\ Pk!Init /\ Zero8
PkStep == unit = "poking" /\ Pk!Next /\ UNCHANGED <<unit, from8>>

(* Pages of four bytes and cache lines of two: a cached region of four     *)
(* pages of which three are backed, one that is copied through the kernel, *)
(* one that is not cached, and a mapping that is not the driver's; ranges  *)
(* that begin and end on, before and after the edges, and one that wraps.  *)

Ss == INSTANCE SyncSet WITH
  PageSize <- 4, LineSize <- 2, Wrap <- 64,
  Region <-
    [A |-> [start |-> 2, nr_pages |-> 4, nents |-> 3, cached |-> TRUE, imported |-> FALSE,
            copied |-> FALSE],
     B |-> [start |-> 7, nr_pages |-> 2, nents |-> 2, cached |-> TRUE, imported |-> FALSE,
            copied |-> TRUE],
     C |-> [start |-> 9, nr_pages |-> 1, nents |-> 1, cached |-> FALSE, imported |-> FALSE,
            copied |-> FALSE]],
  Vma <- <<[start |-> 8, end |-> 24, pgoff |-> 2, region |-> "A"],
           [start |-> 28, end |-> 32, pgoff |-> 8, region |-> "B"],
           [start |-> 36, end |-> 40, pgoff |-> 9, region |-> "C"],
           [start |-> 44, end |-> 48, pgoff |-> 0, region |-> "none"]>>,
  Sizes <- {0, 1, 4, 5, 7, 11, 62},
  Starts <- {8, 9, 11, 15, 16, 21, 29, 36, 44},
  Maps <- {[at |-> 0, size |-> 3], [at |-> 1, size |-> 7], [at |-> 3, size |-> 9],
           [at |-> 4, size |-> 4], [at |-> 2, size |-> 4]},
  FaultyPaths <- {},
  byte <- v1, line <- v2, cpu_page <- v3, gpu_page <- v4, for_gpu <- v5, for_cpu <- v6,
  map <- v7

SsInit == unit = "syncset" /\ Ss!Init /\ Zero8
SsStep == unit = "syncset" /\ Ss!Next /\ UNCHANGED <<unit, from8>>

(* Two buffers, of which one meets each thing that can be wrong with one.  *)

Good == [addr : {8, 9, 11}, size : {0, 1, 3, 4, 6, 9}, res : {"user", "dma"}]
Other == {[addr |-> 0, size |-> 0, res |-> "user"], [addr |-> 18, size |-> 7, res |-> "free"],
          [addr |-> 17, size |-> 8, res |-> "native"], [addr |-> 17, size |-> 8, res |-> "user"]}

Dc == INSTANCE DebugCopy WITH
  PageSize <- 4,
  Jobs <- {<<a, b>> : a \in Good, b \in Other} \cup {<<b, a>> : a \in Good, b \in Other},
  Resource <- [user |-> [type |-> "user_buf", pages |-> 2, dma_pages |-> 0],
               dma |-> [type |-> "umm", pages |-> 3, dma_pages |-> 2],
               native |-> [type |-> "native", pages |-> 2, dma_pages |-> 0],
               free |-> [type |-> "free", pages |-> 0, dma_pages |-> 0]],
  FaultyPaths <- {},
  job <- v1, pc <- v2, at <- v3, buffers <- v4, extres_page <- v5, target_page_nr <- v6,
  to_copy <- v7, written <- v8, result <- v9

DcInit == unit = "debug copy" /\ Dc!Init /\ Zero10
DcStep == unit = "debug copy" /\ Dc!Next /\ UNCHANGED <<unit, from10>>
-----------------------------------------------------------------------------
Init == VaInit \/ MpInit \/ HpInit \/ MfInit \/ PkInit \/ SsInit \/ DcInit

Next ==
  \/ VaStep \/ MpStep \/ HpStep \/ MfStep \/ PkStep \/ SsStep \/ DcStep

Spec == Init /\ [][Next]_vars

Symmetry == Permutations({allocA, allocB}) \cup Permutations({placeA, placeB})
-----------------------------------------------------------------------------
\* The zones and regions of a context tile its address space and follow the
\* process's own mappings, and an allocation that fits is not refused.
\* (kbase_add_va_region, kbase_context_get_unmapped_area)
AddressesExact == unit = "address space" => Va!LayoutExact /\ Va!NoRoomLost

\* References, mappings and page-table entries of shared, aliased and imported
\* memory agree, whichever user lets go first, but for the entries that failed
\* jobs and aliases leave behind, an alias whose region shrank before its mmap,
\* and the pins of an import that left its address under a job, which are given
\* back twice.  (kbase_mem_alias, jd external resources, sticky resources)
MappingsExact ==
  unit = "mappings" => /\ Mp!RefsExact /\ Mp!UsageExact
                       /\ Mp!PteBacked /\ Mp!ResourceMapped

\* With large pages split, shared and freed in parts, each address translates to
\* its own page and every page is in one place.  (kbase_alloc_phy_pages_helper)
HugeExact == unit = "huge pages" => Hp!TranslationExact /\ Hp!PagesExact


\* An address space is poked as long as an atom on it asks for that.
\* (kbase_as_poking_timer_retain_atom)
PokesWhileNeeded == unit = "poking" => Pk!PokesWhileNeeded

\* What one side wrote and synced the other side reads, to the byte.
\* (kbase_do_syncset)
BytesSynced == unit = "syncset" => Ss!BytesReachTheOtherSide /\ Ss!LookupsAgree

\* A debug copy writes what it should and leaves nothing pinned.
\* (kbase_debug_copy)
BytesCopied == unit = "debug copy" => Dc!CopiedExactly /\ Dc!NothingPinned
=============================================================================
