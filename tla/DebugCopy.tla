----------------------------- MODULE DebugCopy -----------------------------
(***************************************************************************)
(* The soft job that copies external resources into buffers of user space  *)
(* (mali_kbase_softjobs.c): buffer by buffer the pages of both sides are   *)
(* pinned, then the resources are copied page by page to targets that need *)
(* not begin on a page, and whatever happened, everything is given back.   *)
(***************************************************************************)
EXTENDS Integers, Sequences, FiniteSets, FiniteSetsExt, SequencesExt

CONSTANTS
  PageSize,
  Jobs,        \* what may be asked: sequences of [addr, size, res]
  Resource,    \* of each resource: type, pages, and the pages of its dma_buf
  FaultyPaths  \* the paths of the code that break a property

VARIABLES
  job,         \* the request
  pc, at,      \* where the atom is, and the buffer it is at
  buffers,     \* katom->softjob_data
  extres_page, target_page_nr, to_copy,  \* where the copy of a buffer is
  written,     \* the bytes written: buffer, target byte, source byte
  result       \* zero, or an error

vars == <<job, pc, at, buffers, extres_page, target_page_nr, to_copy, written, result>>
copy == <<extres_page, target_page_nr, to_copy, written>>

NoBuffer == [pages |-> -1, nr_pages |-> 0, offset |-> 0, size |-> 0,
             gpu_alloc |-> "none", extres |-> 0]

\* A sequence of requests without those whose path breaks a property: a buffer
\* without an address before others, and an empty one at the start of a page.
Sound(j) ==
  /\ "hole" \in FaultyPaths \/ \A i \in 1 .. Len(j) - 1 : j[i].addr # 0
  /\ "empty" \in FaultyPaths \/
       \A i \in DOMAIN j : j[i].addr = 0 \/ j[i].size > 0 \/ j[i].addr % PageSize # 0

Init ==
  /\ job \in {j \in Jobs : Sound(j)}
  /\ pc = "prepare" /\ at = 1
  /\ buffers = [i \in DOMAIN job |-> NoBuffer]
  /\ extres_page = 0 /\ target_page_nr = 0 /\ to_copy = 0
  /\ written = {} /\ result = "none"

request == job[at]
buffer == buffers[at]
-----------------------------------------------------------------------------
(* kbase_debug_copy_prepare.                                               *)

Fail == pc' = "finish" /\ result' = "error"

\* The pages that a target lies on.
NrPages(r) ==
  LET page == r.addr - (r.addr % PageSize)
      end == r.addr + r.size - 1
  IN  ((end - (end % PageSize)) - page) \div PageSize + 1

\* All buffers are ready, or one has no address and is passed over.
PrepareNext ==
  /\ pc = "prepare"
  /\ \/ at > Len(job) /\ pc' = "ready" /\ at' = 1
     \/ at <= Len(job) /\ request.addr = 0 /\ at' = at + 1 /\ UNCHANGED pc
  /\ UNCHANGED <<job, buffers, copy, result>>

\* get_user_pages_fast pins all the pages of the target or fewer.
PinTarget(pinned) ==
  /\ pc = "prepare" /\ at <= Len(job) /\ request.addr # 0
  /\ pinned <= NrPages(request)
  /\ buffers' = [buffers EXCEPT ![at] =
       [NoBuffer EXCEPT !.pages = pinned, !.nr_pages = NrPages(request),
                        !.offset = request.addr % PageSize, !.size = request.size]]
  /\ IF pinned = NrPages(request) THEN pc' = "resource" /\ UNCHANGED result ELSE Fail
  /\ UNCHANGED <<job, at, copy>>

\* The region of the resource is looked up, its allocation referenced, and the
\* pages of a user buffer of this process pinned.
PinResource(pinned) ==
  /\ pc = "resource"
  /\ LET res == request.res
         user_buf == Resource[res].type = "user_buf"
         found == Resource[res].type # "free"
     IN  /\ pinned <= IF user_buf THEN Resource[res].pages ELSE 0
         /\ buffers' = IF found
                         THEN [buffers EXCEPT ![at].gpu_alloc = res, ![at].extres = pinned]
                         ELSE buffers
         /\ IF found /\ (user_buf => pinned = Resource[res].pages)
              THEN pc' = "prepare" /\ at' = at + 1 /\ UNCHANGED result
              ELSE Fail /\ UNCHANGED at
  /\ UNCHANGED <<job, copy>>
-----------------------------------------------------------------------------
(* kbase_debug_copy and kbase_mem_copy_from_extres.                        *)

Min2(a, b) == Min({a, b})

\* The pages of the resource that there are to read.
Readable(b) ==
  LET r == Resource[b.gpu_alloc]
  IN  IF r.type = "umm" THEN Min2(r.dma_pages, r.pages) ELSE r.pages

\* The next buffer: only imported memory is copied.
CopyBuffer ==
  /\ pc = "ready"
  /\ \/ /\ at > Len(job)
        /\ pc' = "finish" /\ result' = "copied" /\ UNCHANGED <<at, copy>>
     \/ /\ at <= Len(job)
        /\ IF buffer.gpu_alloc # "none"
              /\ Resource[buffer.gpu_alloc].type \in {"user_buf", "umm"}
             THEN /\ pc' = "copying"
                  /\ extres_page' = 0 /\ target_page_nr' = 0
                  /\ to_copy' = Min2(Resource[buffer.gpu_alloc].pages * PageSize, buffer.size)
                  /\ UNCHANGED <<written, result>>
             ELSE Fail /\ UNCHANGED copy
        /\ UNCHANGED at
  /\ UNCHANGED <<job, buffers>>

\* Mutant of TailChunk: the tail is as long as the head was.
TailChunk_Head(offset, left) == Min2(PageSize - offset, left)

\* How much of a page of the resource goes on the second page of the target.
TailChunk(offset, left) == Min2(offset, left)

\* kbase_mem_copy_from_extres_page: the page goes on up to two target pages.
CopyPage ==
  LET b == buffer
      chunk == Min2(PageSize - b.offset, to_copy)
      tail == IF target_page_nr + 1 >= b.nr_pages THEN 0
              ELSE TailChunk(b.offset, to_copy - chunk)
      Write(target, source, n) == {<<at, target + k, source + k>> : k \in 0 .. n - 1}
  IN  /\ pc = "copying" /\ extres_page < Readable(b) /\ target_page_nr < Max({b.nr_pages, 1})
      /\ written' = written
           \cup Write(target_page_nr * PageSize + b.offset, extres_page * PageSize, chunk)
           \cup Write((target_page_nr + 1) * PageSize,
                      (extres_page + 1) * PageSize - b.offset, tail)
           \cup (IF target_page_nr < b.nr_pages THEN {} ELSE {<<at, -1, -1>>})
      /\ to_copy' = to_copy - chunk - tail
      /\ target_page_nr' = target_page_nr + 1 /\ extres_page' = extres_page + 1
      /\ UNCHANGED <<job, pc, at, buffers, result>>

\* No page of either side is left.
CopyEnd ==
  /\ pc = "copying"
  /\ extres_page >= Readable(buffer) \/ target_page_nr >= Max({buffer.nr_pages, 1})
  /\ pc' = "ready" /\ at' = at + 1
  /\ UNCHANGED <<job, buffers, copy, result>>

\* The atom is finished without having run: what it depends on failed, or its
\* context is dying.
Cancel == pc = "ready" /\ at = 1 /\ Fail /\ UNCHANGED <<job, at, buffers, copy>>

\* Mutant of Prepared: a buffer whose resource was not found is not given back.
Prepared_Referenced(b) == b.pages >= 0 /\ b.gpu_alloc # "none"

\* A buffer that kbase_debug_copy_prepare got to.
Prepared(b) == b.pages >= 0

\* kbase_debug_copy_finish gives back up to the first it did not get to.
Finish ==
  LET given == {i \in DOMAIN buffers : \A k \in 1 .. i : Prepared(buffers[k])}
  IN  /\ pc = "finish" /\ pc' = "done"
      /\ buffers' = [i \in DOMAIN buffers |-> IF i \in given THEN NoBuffer ELSE buffers[i]]
      /\ UNCHANGED <<job, at, copy, result>>

Pages == 0 .. Max({4} \cup {Resource[r].pages : r \in DOMAIN Resource})

Next ==
  \/ PrepareNext
  \/ \E n \in Pages : PinTarget(n) \/ PinResource(n)
  \/ CopyBuffer \/ CopyPage \/ CopyEnd \/ Cancel \/ Finish

Spec == Init /\ [][Next]_vars
-----------------------------------------------------------------------------
\* A job that was copied has put every byte of the resource that fits at its
\* place in the buffer; no job ever writes anything else.
CopiedExactly ==
  LET Expected(i) ==
        LET b == job[i]
            r == Resource[b.res]
            n == Min2(b.size, PageSize * IF r.type = "umm" THEN Min2(r.dma_pages, r.pages)
                                                           ELSE r.pages)
        IN  {<<i, (b.addr % PageSize) + k, k>> : k \in 0 .. n - 1}
      all == UNION {Expected(i) : i \in DOMAIN job}
  IN  /\ written \subseteq all
      /\ result = "copied" => written = all

\* Once the atom is done no page is pinned and no allocation referenced for it,
\* wherever the preparation stopped.
NothingPinned ==
  pc = "done" => \A i \in DOMAIN buffers :
    buffers[i].pages <= 0 /\ buffers[i].gpu_alloc = "none" /\ buffers[i].extres = 0
=============================================================================
