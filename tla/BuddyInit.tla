----------------------------- MODULE BuddyInit -----------------------------
(***************************************************************************)
(* How init_buddy of mm/buddy.c divides the memory above the kernel image: *)
(* first the array of struct page, then the pages that can be allocated.   *)
(***************************************************************************)
EXTENDS Integers

CONSTANTS
  ImgEnds,      \* where the kernel image may end: &img_end
  PAGE_SIZE,
  PageStruct,   \* sizeof(struct page)
  PHYS_MEM_END

VARIABLES
  img_end,
  npages,               \* how many pages, first estimated, then exact
  free_phys_mem_start,  \* the first page that can be allocated
  pc

vars == <<img_end, npages, free_phys_mem_start, pc>>

ROUND_UP(x, n) == ((x + n - 1) \div n) * n
ROUND_DOWN(x, n) == (x \div n) * n

available_phys_mem_start == ROUND_UP(img_end, PAGE_SIZE)
available_phys_mem_end == ROUND_DOWN(PHYS_MEM_END, PAGE_SIZE)

Init ==
  /\ img_end \in ImgEnds
  /\ npages = 0 /\ free_phys_mem_start = 0
  /\ pc = "estimate"

\* A page and its struct page share the memory ...
Estimate ==
  /\ pc = "estimate"
  /\ npages' = (available_phys_mem_end - available_phys_mem_start)
                 \div (PAGE_SIZE + PageStruct)
  /\ pc' = "reserve"
  /\ UNCHANGED <<img_end, free_phys_mem_start>>

\* ... the array is rounded up to whole pages ...
Reserve ==
  /\ pc = "reserve"
  /\ free_phys_mem_start' =
       ROUND_UP(available_phys_mem_start + npages * PageStruct, PAGE_SIZE)
  /\ pc' = "recount"
  /\ UNCHANGED <<img_end, npages>>

\* ... and the rest is counted again.
Recount ==
  /\ pc = "recount"
  /\ npages' = (available_phys_mem_end - free_phys_mem_start) \div PAGE_SIZE
  /\ pc' = "done"
  /\ UNCHANGED <<img_end, free_phys_mem_start>>

Next == Estimate \/ Reserve \/ Recount

Spec == Init /\ [][Next]_vars

\* The comment in init_buddy: every page needs a struct page, and that part
\* cannot be allocated.  So page_arrry[npages - 1] ends below the first page.
PageArrayNotAllocatable ==
  pc = "done" =>
    available_phys_mem_start + npages * PageStruct <= free_phys_mem_start
=============================================================================
