------------------------------- MODULE Slab -------------------------------
(***************************************************************************)
(* The slab allocator of mm/slab.c under the kmalloc and kfree of          *)
(* mm/kmalloc.c.                                                           *)
(*                                                                         *)
(* A chunk is one buddy chunk of SLAB_PAGE_ORDER; a slab is a chunk whose  *)
(* first block holds the struct slab_header and whose other blocks are     *)
(* handed out.  The buddy allocator appears as PageAllocator describes it: *)
(* a call takes or gives back one chunk, atomically.                       *)
(***************************************************************************)
EXTENDS Integers, Sequences, Functions

CONSTANTS
  CPUs,
  Chunks,       \* the chunks of SLAB_PAGE_ORDER the buddy allocator manages
  BlockOrders,  \* MIN_SLAB_BLOCK_ORDER .. MAX_SLAB_BLOCK_ORDER
  Total,        \* Total[o] = SLAB_SIZE / slab_order_to_size(o)
  NULL

\* The header block, and at least two blocks to hand out (the source: 63 to 2047).
ASSUME SlabAssumption ==
  /\ \A o \in BlockOrders : Total[o] \in Nat /\ Total[o] >= 3
  /\ 0 \notin BlockOrders
  /\ NULL \notin Chunks \cup BlockOrders \cup CPUs

VARIABLES
  current,           \* sc->current
  partial_list,      \* sc->partial_list
  sc_lock,           \* the CPU that holds sc->lock, or NULL
  order,             \* header: order
  free_blocks,       \* header: next_free_block and the chain it starts
  free_block_count,  \* header: free_block_count
  node,              \* header: the list partial_list_node links into, or NULL
  page_slab,         \* page->slab of the pages of a chunk
  buddy,             \* the chunks buddy_get_pages can return
  held,              \* what the callers of kmalloc hold, as in KernelHeap
  pc,                \* where each CPU is in a call
  sc,                \* the order of the container the call works on
  s                  \* the slab __slab_free works on

containerVars == <<current, partial_list, sc_lock>>
headerVars == <<order, free_blocks, free_block_count, node>>
callVars == <<pc, sc, s>>
vars == <<containerVars, headerVars, page_slab, buddy, held, callVars>>

\* init_slab, on a buddy allocator whose chunks are all free.
Init ==
  /\ current = [o \in BlockOrders |-> NULL]
  /\ partial_list = [o \in BlockOrders |-> <<>>]
  /\ sc_lock = [o \in BlockOrders |-> NULL]
  /\ order = [x \in Chunks |-> NULL]
  /\ free_blocks = [x \in Chunks |-> <<>>]
  /\ free_block_count = [x \in Chunks |-> 0]
  /\ node = [x \in Chunks |-> NULL]
  /\ page_slab = [x \in Chunks |-> NULL]
  /\ buddy = Chunks
  /\ held = {}
  /\ pc = [c \in CPUs |-> "idle"]
  /\ sc = [c \in CPUs |-> NULL]
  /\ s = [c \in CPUs |-> NULL]

\* unlock(&sc->lock) and return.
Return(c) ==
  /\ sc_lock' = [sc_lock EXCEPT ![sc[c]] = NULL]
  /\ pc' = [pc EXCEPT ![c] = "idle"]
  /\ sc' = [sc EXCEPT ![c] = NULL]
  /\ s' = [s EXCEPT ![c] = NULL]

Goto(c, label) == pc' = [pc EXCEPT ![c] = label] /\ UNCHANGED <<sc, s, sc_lock>>

\* BUG_ON: the CPU spins for ever, still holding the lock.
Halt(c) ==
  /\ Goto(c, "halt")
  /\ UNCHANGED <<current, partial_list, headerVars, page_slab, buddy, held>>

(***************************************************************************)
(* __slab_alloc                                                            *)
(***************************************************************************)
\* Variant: the header's block is handed out like the others.
alloc_slab_from_buddyFromZero(o, x) ==
  /\ buddy' = buddy \ {x}
  /\ order' = [order EXCEPT ![x] = o]
  /\ free_block_count' = [free_block_count EXCEPT ![x] = Total[o] - 1]
  /\ free_blocks' = [free_blocks EXCEPT ![x] = [i \in 1 .. Total[o] - 1 |-> i - 1]]
  /\ current' = [current EXCEPT ![o] = x]
  /\ page_slab' = [page_slab EXCEPT ![x] = x]
  /\ UNCHANGED node

\* Variant: free_block_count includes the header's block.
alloc_slab_from_buddyCountAll(o, x) ==
  /\ buddy' = buddy \ {x}
  /\ order' = [order EXCEPT ![x] = o]
  /\ free_block_count' = [free_block_count EXCEPT ![x] = Total[o]]
  /\ free_blocks' = [free_blocks EXCEPT ![x] = [i \in 1 .. Total[o] - 1 |-> i]]
  /\ current' = [current EXCEPT ![o] = x]
  /\ page_slab' = [page_slab EXCEPT ![x] = x]
  /\ UNCHANGED node

\* Variant: page->slab is not set.
alloc_slab_from_buddyUnmarked(o, x) ==
  /\ buddy' = buddy \ {x}
  /\ order' = [order EXCEPT ![x] = o]
  /\ free_block_count' = [free_block_count EXCEPT ![x] = Total[o] - 1]
  /\ free_blocks' = [free_blocks EXCEPT ![x] = [i \in 1 .. Total[o] - 1 |-> i]]
  /\ current' = [current EXCEPT ![o] = x]
  /\ UNCHANGED <<node, page_slab>>

\* alloc_slab_from_buddy: a chunk becomes the current slab of container o.
alloc_slab_from_buddy(o, x) ==
  /\ buddy' = buddy \ {x}
  /\ order' = [order EXCEPT ![x] = o]
  /\ free_block_count' = [free_block_count EXCEPT ![x] = Total[o] - 1]
  /\ free_blocks' = [free_blocks EXCEPT ![x] = [i \in 1 .. Total[o] - 1 |-> i]]
  /\ current' = [current EXCEPT ![o] = x]
  /\ page_slab' = [page_slab EXCEPT ![x] = x]
  /\ UNCHANGED node

SlabAlloc(c, o) ==
  /\ pc[c] = "idle" /\ sc_lock[o] = NULL
  /\ sc_lock' = [sc_lock EXCEPT ![o] = c]
  /\ pc' = [pc EXCEPT ![c] = "alloc"]
  /\ sc' = [sc EXCEPT ![c] = o]
  /\ UNCHANGED <<current, partial_list, headerVars, page_slab, buddy, held, s>>

\* No current slab: take one from the buddy allocator.
AllocRefill(c) ==
  /\ pc[c] = "alloc" /\ current[sc[c]] = NULL
  /\ \E x \in buddy : alloc_slab_from_buddy(sc[c], x)
  /\ UNCHANGED <<partial_list, sc_lock, held, callVars>>

\* ... which has none: NULL is returned.
AllocFail(c) ==
  /\ pc[c] = "alloc" /\ current[sc[c]] = NULL /\ buddy = {}
  /\ Return(c)
  /\ UNCHANGED <<current, partial_list, headerVars, page_slab, buddy, held>>

\* slab_get_free_block, and the test for an exhausted slab that follows.
AllocTake(c) ==
  /\ pc[c] = "alloc" /\ current[sc[c]] # NULL
  /\ LET x == current[sc[c]]
         exhausted == free_block_count[x] = 1
     IN  IF \/ free_block_count[x] = 0 \/ free_blocks[x] = <<>>
            \/ exhausted /\ Tail(free_blocks[x]) # <<>>
         THEN Halt(c)
         ELSE /\ free_block_count' = [free_block_count EXCEPT ![x] = @ - 1]
              /\ free_blocks' = [free_blocks EXCEPT ![x] = Tail(@)]
              /\ held' = held \cup {<<x, Head(free_blocks[x]), sc[c]>>}
              /\ IF exhausted THEN Goto(c, "replace") ELSE Return(c)
              /\ UNCHANGED <<current, partial_list, order, node, page_slab, buddy>>

\* A list after list_del of the node of x.
list_del(q, x) ==
  LET k == CHOOSE k \in DOMAIN q : q[k] = x
  IN  IF x \in Range(q) THEN SubSeq(q, 1, k - 1) \o SubSeq(q, k + 1, Len(q)) ELSE q

\* list_del(&x->partial_list_node): it finds the list through the node.
Unlink(x) ==
  partial_list' =
    [i \in BlockOrders |-> IF i = node[x] THEN list_del(partial_list[i], x)
                                         ELSE partial_list[i]]

\* Variant: the slab is not unlinked.
TakePartialLinked(o) ==
  /\ current' = [current EXCEPT ![o] = Head(partial_list[o])]
  /\ UNCHANGED partial_list

\* get_from_partial_list on a list that is not empty.
TakePartial(o) ==
  /\ current' = [current EXCEPT ![o] = Head(partial_list[o])]
  /\ Unlink(Head(partial_list[o]))

\* Variant: an exhausted slab stays the current one.
AllocReplaceNothing(c) ==
  /\ pc[c] = "replace"
  /\ Return(c)
  /\ UNCHANGED <<current, partial_list, headerVars, page_slab, buddy, held>>

\* set_new_current_slab, and the return.
AllocReplace(c) ==
  /\ pc[c] = "replace"
  /\ \/ /\ partial_list[sc[c]] # <<>>
        /\ TakePartial(sc[c])
        /\ UNCHANGED <<headerVars, page_slab, buddy>>
     \/ /\ partial_list[sc[c]] = <<>>
        /\ \E x \in buddy : alloc_slab_from_buddy(sc[c], x)
        /\ UNCHANGED partial_list
     \/ /\ partial_list[sc[c]] = <<>> /\ buddy = {}
        /\ current' = [current EXCEPT ![sc[c]] = NULL]
        /\ UNCHANGED <<partial_list, headerVars, page_slab, buddy>>
  /\ Return(c)
  /\ UNCHANGED held

(***************************************************************************)
(* kfree and __slab_free                                                   *)
(***************************************************************************)
\* Variant: the block index is computed one too low.
slab_put_blockBelow(x, i) ==
  /\ free_blocks' = [free_blocks EXCEPT ![x] = <<i - 1>> \o @]
  /\ free_block_count' = [free_block_count EXCEPT ![x] = @ + 1]

slab_put_block(x, i) ==
  /\ free_blocks' = [free_blocks EXCEPT ![x] = <<i>> \o @]
  /\ free_block_count' = [free_block_count EXCEPT ![x] = @ + 1]

slab_get_header(a) == page_slab[a[1]]

free_pages(a) ==
  /\ buddy' = buddy \cup {a[1]}
  /\ UNCHANGED <<containerVars, headerVars, callVars>>

\* slab_free, up to the block being back on the chain of its slab.
slab_free(c, a) ==
  LET x == slab_get_header(a)
  IN  /\ sc_lock[order[x]] = NULL
      /\ sc_lock' = [sc_lock EXCEPT ![order[x]] = c]
      /\ pc' = [pc EXCEPT ![c] = "free"]
      /\ sc' = [sc EXCEPT ![c] = order[x]]
      /\ s' = [s EXCEPT ![c] = x]
      /\ slab_put_block(x, a[2])
      /\ UNCHANGED <<current, partial_list, order, node, buddy>>

\* kfree sends an address to slab_free or free_pages by page->slab.
KFree(c, a) ==
  /\ pc[c] = "idle"
  /\ held' = held \ {a}
  /\ IF page_slab[a[1]] # NULL THEN slab_free(c, a) ELSE free_pages(a)
  /\ UNCHANGED page_slab

\* Its two error returns need a slab outside the region or one still in use;
\* __slab_free calls it for neither.
put_slab_to_buddy(x) ==
  /\ page_slab' = [page_slab EXCEPT ![x] = NULL]
  /\ buddy' = buddy \cup {x}

\* The rest of __slab_free: the slab may have to move.
FreePlace(c) ==
  /\ pc[c] = "free"
  /\ LET x == s[c]
         o == sc[c]
     IN  CASE free_block_count[x] = 1 ->
                IF current[o] = x
                THEN Halt(c)
                ELSE /\ partial_list' = [partial_list EXCEPT ![o] = Append(@, x)]
                     /\ node' = [node EXCEPT ![x] = o]
                     /\ Return(c)
                     /\ UNCHANGED <<current, order, free_blocks,
                                    free_block_count, page_slab, buddy, held>>
           [] free_block_count[x] # 1 /\ free_block_count[x] = Total[o] - 1 ->
                /\ put_slab_to_buddy(x)
                /\ Goto(c, "drop")
                /\ UNCHANGED <<current, partial_list, headerVars, held>>
           [] OTHER ->
                /\ Return(c)
                /\ UNCHANGED <<current, partial_list, headerVars, page_slab,
                               buddy, held>>

\* put_slab_to_buddy has returned; only now does the container let go of the
\* slab, whose partial_list_node is in the memory just given back.
FreeDrop(c) ==
  /\ pc[c] = "drop"
  /\ LET o == sc[c]
     IN  IF current[o] = s[c]
         THEN IF partial_list[o] # <<>>
              THEN TakePartial(o)
              ELSE current' = [current EXCEPT ![o] = NULL] /\ UNCHANGED partial_list
         ELSE Unlink(s[c]) /\ UNCHANGED current
  /\ Return(c)
  /\ UNCHANGED <<headerVars, page_slab, buddy, held>>

(***************************************************************************)
(* get_pages, for a chunk of the same order; its caller writes to it       *)
(***************************************************************************)
GetPages(c) ==
  /\ pc[c] = "idle"
  /\ \E x \in buddy :
       /\ buddy' = buddy \ {x}
       /\ held' = held \cup {<<x, 0, 0>>}
       /\ free_block_count' = [free_block_count EXCEPT ![x] = 0]
       /\ free_blocks' = [free_blocks EXCEPT ![x] = <<>>]
       /\ node' = [node EXCEPT ![x] = NULL]
       /\ order' = [order EXCEPT ![x] = NULL]
  /\ UNCHANGED <<containerVars, page_slab, callVars>>

CallStep(c) ==
  \/ AllocRefill(c) \/ AllocFail(c) \/ AllocTake(c) \/ AllocReplace(c)
  \/ FreePlace(c) \/ FreeDrop(c)

Next ==
  \E c \in CPUs :
    \/ \E o \in BlockOrders : SlabAlloc(c, o)
    \/ \E a \in held : KFree(c, a)
    \/ GetPages(c)
    \/ CallStep(c)

Spec == Init /\ [][Next]_vars

(***************************************************************************)
(* Properties                                                              *)
(***************************************************************************)
\* Every header field, list, lock and local stays in its range.
TypeOK ==
  /\ current \in [BlockOrders -> Chunks \cup {NULL}]
  /\ partial_list \in [BlockOrders -> Seq(Chunks)]
  /\ sc_lock \in [BlockOrders -> CPUs \cup {NULL}]
  /\ order \in [Chunks -> BlockOrders \cup {NULL}]
  /\ free_blocks \in [Chunks -> Seq(Nat \ {0})]
  /\ free_block_count \in [Chunks -> Nat]
  /\ node \in [Chunks -> BlockOrders \cup {NULL}]
  /\ page_slab \in [Chunks -> Chunks \cup {NULL}]
  /\ buddy \subseteq Chunks
  /\ held \subseteq Chunks \X Nat \X (BlockOrders \cup {0})
  /\ pc \in [CPUs -> {"idle", "alloc", "replace", "free", "drop", "halt"}]
  /\ sc \in [CPUs -> BlockOrders \cup {NULL}]
  /\ s \in [CPUs -> Chunks \cup {NULL}]

HeldBlocks(x) == {a[2] : a \in {h \in held : h[1] = x}}

\* No block is lost, doubly free or doubly held: in every slab the chain of free
\* blocks has free_block_count entries, and chain and callers share out the
\* blocks after the header between them.
BlocksAccounted ==
  \A x \in Chunks :
    page_slab[x] # NULL =>
      /\ free_block_count[x] = Len(free_blocks[x])
      /\ IsInjective(free_blocks[x])
      /\ Range(free_blocks[x]) \cap HeldBlocks(x) = {}
      /\ Range(free_blocks[x]) \cup HeldBlocks(x) = 1 .. Total[order[x]] - 1

\* The slabs of container o, as page->slab and the headers record them.
SlabsOf(o) == {x \in Chunks : page_slab[x] = x /\ order[x] = o}

\* Whenever sc->lock is free, a slab with a free block can be found again: it is
\* the current slab or on partial_list, once; a full slab is on neither, and
\* neither holds anything else.  A slab nobody uses is only kept as current.
SlabsPlaced ==
  \A o \in BlockOrders :
    sc_lock[o] = NULL =>
      /\ IsInjective(partial_list[o])
      /\ current[o] \notin Range(partial_list[o])
      /\ (Range(partial_list[o]) \cup {current[o]}) \ {NULL} =
           {x \in SlabsOf(o) : free_block_count[x] > 0}
      /\ \A x \in Range(partial_list[o]) : free_block_count[x] < Total[o] - 1

\* kfree sends each address to the allocator it came from: page->slab is set
\* exactly for the pages whose blocks are handed out, never left over.
KfreeFindsOwner ==
  \A a \in held :
    /\ a[1] \notin buddy
    /\ IF a[2] = 0
       THEN page_slab[a[1]] = NULL
       ELSE page_slab[a[1]] = a[1] /\ order[a[1]] = a[3]

\* No BUG_ON of slab_get_free_block, __slab_alloc or __slab_free fires.
NoBug == \A c \in CPUs : pc[c] # "halt"

KH == INSTANCE KernelHeap

\* Slabs and whole chunks together never hand out overlapping memory: kmalloc
\* and kfree do what KernelHeap promises.
ImplementsKernelHeap == KH!Spec

\* What test_slab and kmalloc_test assert when everything they allocated is
\* free again: the buddy allocator has got all of it back.
AllReturned ==
  held = {} /\ (\A c \in CPUs : pc[c] = "idle") => buddy = Chunks

calculate_slab_free_block_count(o) ==
  (IF current[o] # NULL THEN free_block_count[current[o]] ELSE 0) +
  FoldFunction(LAMBDA x, n : n + free_block_count[x], 0, partial_list[o])

\* slab_alloc reports "OOM!!!" only if its container has no free block left.
OOMMeansFull ==
  \A c \in CPUs :
    pc[c] = "alloc" /\ current[sc[c]] = NULL /\ buddy = {} =>
      calculate_slab_free_block_count(sc[c]) = 0
=============================================================================
