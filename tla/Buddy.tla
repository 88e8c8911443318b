------------------------------- MODULE Buddy -------------------------------
(***************************************************************************)
(* The buddy page allocator of mm/buddy.c.                                 *)
(*                                                                         *)
(* A page is named by its frame number, so `struct page *`, the page's     *)
(* virtual address and its index in page_arrry are one value here (the     *)
(* flat memory model of include/mm/buddy.h).  populate_page runs first, on *)
(* the boot CPU, one loop iteration per step.  Then every CPU may call     *)
(* buddy_get_pages and buddy_free_pages; each call takes free_lists_lock,  *)
(* splits or merges one order per step, and releases the lock.             *)
(***************************************************************************)
EXTENDS Integers, Sequences, FiniteSets, FiniteSetsExt

CONSTANTS
  CPUs,       \* the CPUs that may call the allocator
  MaxOrder,   \* BUDDY_MAX_ORDER
  Start,      \* frame number of the first allocatable page
  End,        \* frame number just above the last one
  NULL        \* the null pointer, and the owner of a free lock

(***************************************************************************)
(* Sizes and addresses: BUDDY_CHUNK_PAGES_COUNT, ROUND_UP, ROUND_DOWN      *)
(***************************************************************************)
Orders == 0 .. MaxOrder - 1
Pages == Start .. End - 1

BUDDY_CHUNK_PAGES_COUNT(order) == 2 ^ order

ROUND_DOWN(x, n) == x - (x % n)
ROUND_UP(x, n) == ((x + n - 1) \div n) * n

virt_to_page(frame) == IF frame \in Pages THEN frame ELSE NULL

\* The first page aligned to the largest chunk (populate_page).
FirstAligned ==
  ROUND_UP(Start, BUDDY_CHUNK_PAGES_COUNT(MaxOrder - 1))

\* The region the raspi3 port hands to init_buddy: it ends on a boundary of the
\* largest chunk (PHYS_MEM_END) and holds at least one such chunk.
ASSUME RegionAssumption ==
  /\ MaxOrder \in Nat /\ MaxOrder >= 2
  /\ Start \in Nat /\ End \in Nat
  /\ End % BUDDY_CHUNK_PAGES_COUNT(MaxOrder - 1) = 0
  /\ FirstAligned < End

ASSUME NullAssumption == NULL \notin CPUs /\ NULL \notin Pages

\* What a left shift by one does, and that a larger power of two is a multiple
\* of a smaller one: facts of arithmetic that need an induction on the order.
ASSUME ShiftAssumption ==
  /\ \A k \in 0 .. MaxOrder : 2 ^ k \in Nat \ {0}
  /\ \A k \in Orders : 2 ^ (k + 1) = 2 * 2 ^ k
  /\ \A k \in Orders : \A i \in 0 .. k : 2 ^ k % 2 ^ i = 0

(***************************************************************************)
(* struct list_head as the sequence of the pages linked in it              *)
(***************************************************************************)
page_in_list(page, list) == \E i \in 1 .. Len(list) : list[i] = page

list_add(page, list) == <<page>> \o list

list_del(page, list) ==
  LET at == CHOOSE i \in 1 .. Len(list) : list[i] = page
  IN  [i \in 1 .. Len(list) - 1 |-> IF i < at THEN list[i] ELSE list[i + 1]]

(***************************************************************************)
(* State                                                                   *)
(***************************************************************************)
VARIABLES
  order,      \* page->order
  allocated,  \* page->allocated
  free_list,  \* free_lists[order].free_list
  nr_free,    \* free_lists[order].nr_free
  lock,       \* the CPU that holds free_lists_lock, or NULL
  phase,      \* "forward", "backward" (populate_page), then "ready"
  fill,       \* `page` of populate_page
  fill_order, \* `order` of populate_page
  pc,         \* where each CPU is in a call
  want,       \* argument of buddy_get_pages
  chunk,      \* the chunk a call is splitting or merging
  level,      \* the order split_chunk has reached
  live        \* <<page, order>> of every chunk the callers hold

regionVars == <<order, allocated, free_list, nr_free>>
bootVars == <<phase, fill, fill_order>>
callVars == <<pc, want, chunk, level>>
vars == <<regionVars, lock, bootVars, callVars, live>>

\* init_buddy: every struct page zeroed, every list empty, lock free.
Init ==
  /\ order = [p \in Pages |-> 0]
  /\ allocated = [p \in Pages |-> 0]
  /\ free_list = [k \in Orders |-> <<>>]
  /\ nr_free = [k \in Orders |-> 0]
  /\ lock = NULL
  /\ phase = "forward" /\ fill = FirstAligned /\ fill_order = MaxOrder - 1
  /\ pc = [c \in CPUs |-> "idle"]
  /\ want = [c \in CPUs |-> 0]
  /\ chunk = [c \in CPUs |-> NULL]
  /\ level = [c \in CPUs |-> 0]
  /\ live = {}

\* Link page into the list of order k and count it.
Link(page, k) ==
  /\ free_list' = [free_list EXCEPT ![k] = list_add(page, @)]
  /\ nr_free' = [nr_free EXCEPT ![k] = @ + 1]

(***************************************************************************)
(* populate_page                                                           *)
(***************************************************************************)
Populate(page) ==
  /\ order' = [order EXCEPT ![page] = fill_order]
  /\ allocated' = [allocated EXCEPT ![page] = 0]
  /\ Link(page, fill_order)

NextFillOrder(page_when_done, phase_when_done, order_when_done) ==
  /\ UNCHANGED regionVars
  /\ IF fill_order > 0
     THEN fill_order' = fill_order - 1 /\ UNCHANGED <<fill, phase>>
     ELSE /\ fill_order' = order_when_done
          /\ fill' = page_when_done
          /\ phase' = phase_when_done

\* [first_aligned_page, first_page + npages), largest chunks first.
PopulateForward ==
  /\ phase = "forward"
  /\ LET pages_count == BUDDY_CHUNK_PAGES_COUNT(fill_order)
     IN  IF fill + pages_count - 1 < End
         THEN /\ Populate(fill)
              /\ fill' = fill + pages_count
              /\ UNCHANGED <<phase, fill_order>>
         ELSE NextFillOrder(FirstAligned, "backward", MaxOrder - 2)
  /\ UNCHANGED <<lock, callVars, live>>

\* Variant: `>` for `>=` in the guard of the downward loop.
PopulateBackwardStrict ==
  /\ phase = "backward"
  /\ LET pages_count == BUDDY_CHUNK_PAGES_COUNT(fill_order)
     IN  IF fill - pages_count > Start
         THEN /\ Populate(fill - pages_count)
              /\ fill' = fill - pages_count
              /\ UNCHANGED <<phase, fill_order>>
         ELSE NextFillOrder(fill, "ready", 0)
  /\ UNCHANGED <<lock, callVars, live>>

\* [first_page, first_aligned_page), downwards.
PopulateBackward ==
  /\ phase = "backward"
  /\ LET pages_count == BUDDY_CHUNK_PAGES_COUNT(fill_order)
     IN  IF fill - pages_count >= Start
         THEN /\ Populate(fill - pages_count)
              /\ fill' = fill - pages_count
              /\ UNCHANGED <<phase, fill_order>>
         ELSE NextFillOrder(fill, "ready", 0)
  /\ UNCHANGED <<lock, callVars, live>>

(***************************************************************************)
(* buddy_get_pages and split_chunk                                         *)
(***************************************************************************)
GetPages(c, k) ==
  /\ phase = "ready" /\ pc[c] = "idle" /\ lock = NULL
  /\ lock' = c
  /\ pc' = [pc EXCEPT ![c] = "get"]
  /\ want' = [want EXCEPT ![c] = k]
  /\ UNCHANGED <<regionVars, bootVars, chunk, level, live>>

\* unlock and return; the locals of the call are gone.
Return(c) ==
  /\ lock' = NULL
  /\ pc' = [pc EXCEPT ![c] = "idle"]
  /\ want' = [want EXCEPT ![c] = 0]
  /\ chunk' = [chunk EXCEPT ![c] = NULL]
  /\ level' = [level EXCEPT ![c] = 0]

\* BUG_ON and kerror: the CPU spins for ever, still holding the lock.
Halt(c) ==
  /\ pc' = [pc EXCEPT ![c] = "halt"]
  /\ UNCHANGED <<regionVars, lock, want, chunk, level, live>>

\* The orders the search finds a chunk in; it climbs from the requested one.
Splittable(k) == {j \in k .. MaxOrder - 1 : nr_free[j] # 0}

\* Variant: the search starts over, lock held, until a chunk turns up.
GetNoneRetry(c) ==
  /\ pc[c] = "get"
  /\ Splittable(want[c]) = {}
  /\ UNCHANGED vars

\* The climb reaches BUDDY_MAX_ORDER: NULL is returned.
GetNone(c) ==
  /\ pc[c] = "get"
  /\ Splittable(want[c]) = {}
  /\ Return(c)
  /\ UNCHANGED <<regionVars, bootVars, live>>

\* Variant: nr_free of the requested order is decremented, not of the found one.
GetTakeMiscount(c) ==
  /\ pc[c] = "get"
  /\ \E j \in Splittable(want[c]) :
       /\ \A i \in Splittable(want[c]) : j <= i
       /\ chunk' = [chunk EXCEPT ![c] = Head(free_list[j])]
       /\ free_list' = [free_list EXCEPT ![j] = Tail(@)]
       /\ nr_free' = [nr_free EXCEPT ![want[c]] = @ - 1]
       /\ level' = [level EXCEPT ![c] = j]
  /\ pc' = [pc EXCEPT ![c] = "split"]
  /\ UNCHANGED <<order, allocated, lock, bootVars, want, live>>

\* The climb stops at the first non-empty list, whose head is taken.
GetTake(c) ==
  /\ pc[c] = "get"
  /\ \E j \in Splittable(want[c]) :
       /\ \A i \in Splittable(want[c]) : j <= i
       /\ chunk' = [chunk EXCEPT ![c] = Head(free_list[j])]
       /\ free_list' = [free_list EXCEPT ![j] = Tail(@)]
       /\ nr_free' = [nr_free EXCEPT ![j] = @ - 1]
       /\ level' = [level EXCEPT ![c] = j]
  /\ pc' = [pc EXCEPT ![c] = "split"]
  /\ UNCHANGED <<order, allocated, lock, bootVars, want, live>>

\* One level of split_chunk's unwinding: keep the low half, free the high one.
SplitChunk(c) ==
  /\ pc[c] = "split"
  /\ level[c] > want[c]
  /\ LET k == level[c] - 1
         chunk_buddy == chunk[c] + BUDDY_CHUNK_PAGES_COUNT(k)
     IN  /\ order' = [order EXCEPT ![chunk[c]] = k, ![chunk_buddy] = k]
         /\ Link(chunk_buddy, k)
         /\ level' = [level EXCEPT ![c] = k]
  /\ UNCHANGED <<allocated, lock, bootVars, pc, want, chunk, live>>

\* The checks at the end of buddy_get_pages, and the return.
GetDone(c) ==
  /\ pc[c] = "split"
  /\ level[c] = want[c]
  /\ IF allocated[chunk[c]] = 1 \/ order[chunk[c]] # want[c]
     THEN Halt(c)
     ELSE /\ allocated' = [allocated EXCEPT ![chunk[c]] = 1]
          /\ live' = live \cup {<<chunk[c], want[c]>>}
          /\ Return(c)
          /\ UNCHANGED <<order, free_list, nr_free>>
  /\ UNCHANGED bootVars

(***************************************************************************)
(* buddy_free_pages and merge_chunk                                        *)
(***************************************************************************)
\* Variant: the allocated field is not cleared.
FreePagesStillAllocated(c, x) ==
  /\ phase = "ready" /\ pc[c] = "idle" /\ lock = NULL
  /\ lock' = c
  /\ live' = live \ {x}
  /\ chunk' = [chunk EXCEPT ![c] = x[1]]
  /\ pc' = [pc EXCEPT ![c] = "merge"]
  /\ UNCHANGED <<order, allocated, free_list, nr_free, bootVars, want, level>>

FreePages(c, x) ==
  /\ phase = "ready" /\ pc[c] = "idle" /\ lock = NULL
  /\ lock' = c
  /\ live' = live \ {x}
  /\ allocated' = [allocated EXCEPT ![x[1]] = 0]
  /\ chunk' = [chunk EXCEPT ![c] = x[1]]
  /\ pc' = [pc EXCEPT ![c] = "merge"]
  /\ UNCHANGED <<order, free_list, nr_free, bootVars, want, level>>

\* chunk_merge of merge_chunk: the page the merged chunk would start at.
ChunkMerge(p) ==
  virt_to_page(ROUND_DOWN(p, BUDDY_CHUNK_PAGES_COUNT(order[p] + 1)))

ChunkBuddy(p) ==
  IF ChunkMerge(p) = p
  THEN p + BUDDY_CHUNK_PAGES_COUNT(order[p])
  ELSE ChunkMerge(p)

\* Variant: no test that the buddy is one chunk of the same order.
CanMergeAnyOrder(p) ==
  /\ nr_free[order[p]] # 0
  /\ order[p] # MaxOrder - 1
  /\ ChunkBuddy(p) # NULL
  /\ allocated[ChunkBuddy(p)] # 1

\* Variant: merging needs two free chunks of the order, not one.
CanMergeIfTwoFree(p) ==
  /\ nr_free[order[p]] > 1
  /\ order[p] # MaxOrder - 1
  /\ ChunkBuddy(p) # NULL
  /\ allocated[ChunkBuddy(p)] # 1
  /\ order[ChunkBuddy(p)] = order[p]

\* merge_chunk goes one order up: its tests, in the order it makes them.
CanMerge(p) ==
  /\ nr_free[order[p]] # 0
  /\ order[p] # MaxOrder - 1
  /\ ChunkBuddy(p) # NULL
  /\ allocated[ChunkBuddy(p)] # 1
  /\ order[ChunkBuddy(p)] = order[p]

\* Variant: the list loses the buddy, its counter is not decremented.
MergeChunkUncounted(c) ==
  /\ pc[c] = "merge"
  /\ CanMerge(chunk[c])
  /\ LET p == chunk[c]
     IN  /\ free_list' =
              [free_list EXCEPT ![order[p]] = list_del(ChunkBuddy(p), @)]
         /\ order' = [order EXCEPT ![ChunkMerge(p)] = @ + 1]
         /\ chunk' = [chunk EXCEPT ![c] = ChunkMerge(p)]
  /\ UNCHANGED <<allocated, nr_free, lock, pc, want, level, live, bootVars>>

\* Variant: the merged chunk is taken to start where the freed one did.
MergeChunkInPlace(c) ==
  /\ pc[c] = "merge"
  /\ CanMerge(chunk[c])
  /\ LET p == chunk[c]
         k == order[p]
     IN  /\ free_list' = [free_list EXCEPT ![k] = list_del(ChunkBuddy(p), @)]
         /\ nr_free' = [nr_free EXCEPT ![k] = @ - 1]
         /\ order' = [order EXCEPT ![p] = k + 1]
  /\ UNCHANGED <<allocated, lock, pc, want, chunk, level, live, bootVars>>

MergeChunk(c) ==
  /\ pc[c] = "merge"
  /\ CanMerge(chunk[c])
  /\ LET p == chunk[c]
         k == order[p]
     IN  IF ~page_in_list(ChunkBuddy(p), free_list[k])
         THEN Halt(c)
         ELSE /\ free_list' =
                   [free_list EXCEPT ![k] = list_del(ChunkBuddy(p), @)]
              /\ nr_free' = [nr_free EXCEPT ![k] = @ - 1]
              /\ order' = [order EXCEPT ![ChunkMerge(p)] = k + 1]
              /\ chunk' = [chunk EXCEPT ![c] = ChunkMerge(p)]
              /\ UNCHANGED <<allocated, lock, pc, want, level, live>>
  /\ UNCHANGED bootVars

\* No further merge: the tail of buddy_free_pages.
FreeDone(c) ==
  /\ pc[c] = "merge"
  /\ ~CanMerge(chunk[c])
  /\ Link(chunk[c], order[chunk[c]])
  /\ Return(c)
  /\ UNCHANGED <<order, allocated, bootVars, live>>

CallStep(c) ==
  \/ GetNone(c) \/ GetTake(c) \/ SplitChunk(c) \/ GetDone(c)
  \/ MergeChunk(c) \/ FreeDone(c)

Next ==
  \/ PopulateForward
  \/ PopulateBackward
  \/ \E c \in CPUs :
       \/ \E k \in Orders : GetPages(c, k)
       \/ \E x \in live : FreePages(c, x)
       \/ CallStep(c)

\* A CPU that is inside a call keeps executing: nothing preempts it.
Fairness ==
  /\ WF_vars(PopulateForward) /\ WF_vars(PopulateBackward)
  /\ \A c \in CPUs : WF_vars(CallStep(c))

Spec == Init /\ [][Next]_vars
FairSpec == Spec /\ Fairness

(***************************************************************************)
(* Properties                                                              *)
(***************************************************************************)
\* Every struct page field, list, counter, lock and local of a call stays in
\* its range: in particular nr_free never goes below zero, no order reaches
\* BUDDY_MAX_ORDER and no page outside the region is ever linked.
TypeOK ==
  /\ order \in [Pages -> Orders]
  /\ allocated \in [Pages -> {0, 1}]
  /\ free_list \in [Orders -> Seq(Pages)]
  /\ nr_free \in [Orders -> Nat]
  /\ lock \in CPUs \cup {NULL}
  /\ phase \in {"forward", "backward", "ready"}
  /\ fill \in Start .. End
  /\ fill_order \in Orders
  /\ pc \in [CPUs -> {"idle", "get", "split", "merge", "halt"}]
  /\ want \in [CPUs -> Orders]
  /\ chunk \in [CPUs -> Pages \cup {NULL}]
  /\ level \in [CPUs -> Orders]
  /\ live \in SUBSET (Pages \X Orders)

Aligned(p, k) == p % BUDDY_CHUNK_PAGES_COUNT(k) = 0

\* The pages of the chunk that page p heads.
Span(p) == p .. p + BUDDY_CHUNK_PAGES_COUNT(order[p]) - 1

FreeHeads == {p \in Pages : \E k \in Orders : page_in_list(p, free_list[k])}
LiveHeads == {x[1] : x \in live}
Busy(c) == pc[c] \in {"split", "merge"}
BusyHeads == {chunk[c] : c \in {d \in CPUs : Busy(d)}}
Heads == FreeHeads \cup LiveHeads \cup BusyHeads

\* Chunks never overlap and never get lost: from the end of populate_page on,
\* every page is in exactly one chunk, and that chunk is either on a free list,
\* or held by a caller, or in the hands of the one call in progress.
ChunksTileMemory ==
  /\ FreeHeads \cap LiveHeads = {}
  /\ (FreeHeads \cup LiveHeads) \cap BusyHeads = {}
  /\ \A p, q \in Heads : p # q => Span(p) \cap Span(q) = {}
  /\ phase = "ready" => Pages \subseteq UNION {Span(p) : p \in Heads}

\* The three records of what is free agree, at every step of every call:
\* nr_free counts the list, no page is on a list twice, and a listed page has
\* the order of its list, is not marked allocated and is aligned to its size.
FreeListsAgree ==
  \A k \in Orders :
    /\ nr_free[k] = Len(free_list[k])
    /\ \A i, j \in 1 .. Len(free_list[k]) :
         free_list[k][i] = free_list[k][j] => i = j
    /\ \A i \in 1 .. Len(free_list[k]) :
         LET p == free_list[k][i]
         IN  order[p] = k /\ allocated[p] = 0 /\ Aligned(p, k)

\* No BUG_ON of merge_chunk or buddy_get_pages fires and its kerror is never
\* reached, whatever order and allocated fields merges have left behind in
\* pages that no longer head a chunk.
NoHalt == \A c \in CPUs : pc[c] # "halt"

\* Merging is complete: buddy_get_pages returns NULL only if no aligned run of
\* the requested size is free, however the free pages came to be free.
NoFalseOOM ==
  \A c \in CPUs :
    pc[c] = "get" /\ Splittable(want[c]) = {} =>
      ~ \E p \in Pages :
          /\ Aligned(p, want[c])
          /\ p .. p + BUDDY_CHUNK_PAGES_COUNT(want[c]) - 1 \subseteq
               UNION {Span(q) : q \in FreeHeads}

get_free_pages_nums_from_buddy ==
  MapThenSumSet(LAMBDA k : nr_free[k] * BUDDY_CHUNK_PAGES_COUNT(k), Orders)

\* What kmalloc_test asserts after its loop, at every moment no call is in
\* progress: the free count is the region less what the callers hold.
FreeCountExact ==
  phase = "ready" /\ lock = NULL =>
    get_free_pages_nums_from_buddy =
      (End - Start) -
      MapThenSumSet(LAMBDA x : BUDDY_CHUNK_PAGES_COUNT(x[2]), live)

\* A call that took free_lists_lock gives it back: neither the climb through
\* the orders nor the chain of merges runs for ever.
LockIsReleased == \A c \in CPUs : lock = c ~> lock # c

PA == INSTANCE PageAllocator

\* The allocator does for its callers what PageAllocator promises: each chunk
\* buddy_get_pages returns is aligned, inside the region and disjoint from all
\* the chunks not yet passed to buddy_free_pages.
ImplementsPageAllocator == PA!Spec
=============================================================================
