------------------------------ MODULE RtosHeap ------------------------------
(***************************************************************************)
(* The heap that tasks and mutexes are allocated from                      *)
(* (portable/MemMang/heap_4.c): free blocks in a list in the order of      *)
(* their addresses, first fit, neighbours merged when a block comes back.  *)
(*                                                                         *)
(* The memory is the headers of its blocks, at their addresses; what a     *)
(* caller has, or a merged block has inside, holds no header any more.     *)
(* The list is searched and changed with the scheduler suspended, in one   *)
(* step.  The statistics are left out.                                     *)
(***************************************************************************)
EXTENDS Naturals, Functions

CONSTANTS
  Tasks,          \* the tasks that free memory
  ucHeap,         \* the address of the array, aligned or not
  HEAP_SIZE,      \* configTOTAL_HEAP_SIZE
  ALIGN,          \* portBYTE_ALIGNMENT
  xHeapStructSize,
  SIZE_MAX,       \* the greatest size_t
  Requests        \* the sizes asked for

NULL   == 0
XSTART == 1       \* where xStart is, outside ucHeap

MSB == (SIZE_MAX + 1) \div 2        \* heapBLOCK_ALLOCATED_BITMASK

ASSUME AlignAssumption == /\ ALIGN \in {1, 2, 4, 8, 16, 32}    \* portable.h
                          /\ xHeapStructSize \in Nat \ {0}
                          /\ xHeapStructSize % ALIGN = 0
ASSUME HeapAssumption  == /\ ucHeap \in Nat \ {0, 1}
                          /\ SIZE_MAX \in Nat
                          /\ SIZE_MAX % 2 = 1
                          /\ HEAP_SIZE \in 2 * ALIGN + xHeapStructSize .. MSB - 1
                          /\ ucHeap + HEAP_SIZE <= SIZE_MAX
ASSUME RequestsAssumption == Requests \subseteq 0 .. SIZE_MAX

VARIABLES
  links,          \* the headers: for an address, pxNextFreeBlock and xBlockSize
  pxEnd,          \* NULL before the first allocation
  xFreeBytesRemaining,
  held,           \* the blocks that callers have
  freeing,        \* for each task, the block it is giving back, or NULL
  halted          \* vApplicationMallocFailedHook does not return

vars == <<links, pxEnd, xFreeBytesRemaining, held, freeing, halted>>

Init ==
  /\ links = [b \in {XSTART} |-> [next |-> NULL, size |-> 0]]
  /\ pxEnd = NULL
  /\ xFreeBytesRemaining = 0
  /\ held = {}
  /\ freeing = [t \in Tasks |-> NULL]
  /\ halted = FALSE

-----------------------------------------------------------------------------
(* prvHeapInit                                                             *)

StartAddress == ((ucHeap + ALIGN - 1) \div ALIGN) * ALIGN

(* xTotalHeapSize is less by what the alignment of the start has cost.     *)
EndAddress == ((ucHeap + HEAP_SIZE - xHeapStructSize) \div ALIGN) * ALIGN

(* The variables of the heap that a call works on, as a record.            *)
prvHeapInit ==
  [links |-> [a \in {XSTART, StartAddress, EndAddress} |->
               IF a = XSTART THEN [next |-> StartAddress, size |-> 0]
               ELSE IF a = EndAddress THEN [next |-> NULL, size |-> 0]
               ELSE [next |-> EndAddress, size |-> EndAddress - StartAddress]],
   end   |-> EndAddress,
   free  |-> EndAddress - StartAddress]

Heap == IF pxEnd = NULL THEN prvHeapInit
        ELSE [links |-> links, end |-> pxEnd, free |-> xFreeBytesRemaining]

-----------------------------------------------------------------------------
(* pvPortMalloc                                                            *)

(* Fault: the sum is stored in a size_t as it is.                          *)
NeverOverflows(a, b) == FALSE

heapADD_WILL_OVERFLOW(a, b) == a > SIZE_MAX - b

SizeT(n) == n % (SIZE_MAX + 1)

(* The size with the header, rounded up; 0 if it has no place in size_t.   *)
WantedSize(w) ==
  LET n     == SizeT(w + xHeapStructSize)
      extra == ALIGN - (n % ALIGN)
  IN IF w = 0 \/ heapADD_WILL_OVERFLOW(w, xHeapStructSize) THEN 0
     ELSE IF n % ALIGN = 0 THEN n
     ELSE IF heapADD_WILL_OVERFLOW(n, extra) THEN 0 ELSE SizeT(n + extra)

(* A header is written at address a.                                       *)
Write(l, a, header) == [x \in DOMAIN l \cup {a} |-> IF x = a THEN header ELSE l[x]]

(* The headers inside block b hold other data from now on.                 *)
Forget(l, b, size) == Restrict(l, DOMAIN l \ (b + 1 .. b + size - 1))

(* The headers of the list, all but the last one.                          *)
Linked(l) == {p \in DOMAIN l : l[p].next # NULL}

(* The block before the first one of adequate size, or before the last.    *)
FirstFit(l, wanted) ==
  LET from[p \in Linked(l)] ==
        LET b == l[p].next
        IN IF l[b].size < wanted /\ l[b].next # NULL THEN from[b] ELSE p
  IN from[XSTART]

heapMINIMUM_BLOCK_SIZE == 2 * xHeapStructSize

(* Fault: what is left over is given the size of the whole block.          *)
WholeBlock(l, b, wanted) == l[b].size

LeftOver(l, b, wanted) == l[b].size - wanted

(* Block b, which follows p in the list, is taken out of it, and what is   *)
(* left over of it put in its place.                                       *)
TakeBlock(h, p, b, wanted) ==
  LET split == h.links[b].size - wanted > heapMINIMUM_BLOCK_SIZE
      size  == IF split THEN wanted ELSE h.links[b].size
      l     == [h.links EXCEPT ![p].next = IF split THEN b + wanted ELSE h.links[b].next,
                               ![b] = [next |-> NULL, size |-> size + MSB]]
      rest  == [next |-> h.links[b].next, size |-> LeftOver(h.links, b, wanted)]
      l1    == IF split THEN Write(l, b + wanted, rest) ELSE l
  IN [h EXCEPT !.links = Forget(l1, b, size), !.free = @ - size]

Fits(h, wanted) ==
  /\ wanted > 0
  /\ wanted < MSB
  /\ wanted <= h.free
  /\ h.links[FirstFit(h.links, wanted)].next # h.end

pvPortMalloc(w) ==
  LET wanted == WantedSize(w)
      h      == Heap
      p      == FirstFit(h.links, wanted)
      b      == h.links[p].next
      h1     == IF Fits(h, wanted) THEN TakeBlock(h, p, b, wanted) ELSE h
  IN /\ links' = h1.links
     /\ pxEnd' = h1.end
     /\ xFreeBytesRemaining' = h1.free
     /\ held' = IF Fits(h, wanted) THEN held \cup {b} ELSE held
     /\ halted' = ~Fits(h, wanted)
     /\ UNCHANGED freeing

-----------------------------------------------------------------------------
(* vPortFree                                                               *)

(* The bit of the header is cleared first, before the scheduler is         *)
(* suspended.                                                              *)
ClearBit(t, b) ==
  /\ b \in held
  /\ freeing[t] = NULL
  /\ links[b].size >= MSB
  /\ links[b].next = NULL
  /\ links' = [links EXCEPT ![b].size = @ - MSB]
  /\ held' = held \ {b}
  /\ freeing' = [freeing EXCEPT ![t] = b]
  /\ UNCHANGED <<pxEnd, xFreeBytesRemaining, halted>>

(* The last block of the list before address b.                            *)
Before(l, b) ==
  LET from[p \in Linked(l)] == IF l[p].next < b THEN from[l[p].next] ELSE p
  IN from[XSTART]

(* Fault: the block before the new one is not merged with it.              *)
MergeAfterOnly(l, p, b) ==
  LET n == l[p].next
  IN IF b + l[b].size = n /\ n # pxEnd
     THEN [l EXCEPT ![p].next = b, ![b] = [next |-> l[n].next, size |-> @.size + l[n].size]]
     ELSE [l EXCEPT ![p].next = b, ![b].next = n]

(* prvInsertBlockIntoFreeList, with p the block before b in the list: into *)
(* is the block b is in after it has been merged with p, or b itself.      *)
Inserted(l, p, b) ==
  LET merged == p + l[p].size = b
      into   == IF merged THEN p ELSE b
      l1     == IF merged THEN [l EXCEPT ![p].size = @ + l[b].size] ELSE l
      n      == l[p].next
      meets  == into + l1[into].size = n /\ n # pxEnd
      l2     == IF meets
                THEN [l1 EXCEPT ![into] = [next |-> l1[n].next, size |-> @.size + l1[n].size]]
                ELSE [l1 EXCEPT ![into].next = n]
  IN IF merged THEN l2 ELSE [l2 EXCEPT ![p].next = b]

(* Merged blocks have no headers inside.                                   *)
Tidy(l) == Restrict(l, {a \in DOMAIN l : \A b \in DOMAIN l \ {a} :
                                           a \notin b .. b + (l[b].size % MSB) - 1})

InsertBlock(t) ==
  LET b == freeing[t]
  IN /\ b # NULL
     /\ xFreeBytesRemaining' = xFreeBytesRemaining + links[b].size
     /\ links' = Tidy(Inserted(links, Before(links, b), b))
     /\ freeing' = [freeing EXCEPT ![t] = NULL]
     /\ UNCHANGED <<pxEnd, held, halted>>

-----------------------------------------------------------------------------
Halted == halted /\ UNCHANGED vars

Next == \/ Halted
        \/ /\ ~halted
           /\ \/ \E w \in Requests : pvPortMalloc(w)
              \/ \E t \in Tasks : InsertBlock(t) \/ \E b \in held : ClearBit(t, b)

Spec == Init /\ [][Next]_vars

-----------------------------------------------------------------------------
(* Properties.                                                             *)

BeingFreed == {freeing[t] : t \in Tasks} \ {NULL}

InUse == held \cup BeingFreed

SizeOf(b) == links[b].size % MSB

(* The free blocks, followed from xStart.                                  *)
FreeList ==
  LET from[b \in DOMAIN links \cup {NULL}] ==
        IF b \in {pxEnd, NULL} THEN {} ELSE {b} \cup from[links[b].next]
  IN from[links[XSTART].next]

(* The blocks cover the heap, one after the other, from its start to       *)
(* pxEnd: no byte is lost and none is in two blocks, whatever has been     *)
(* split, merged, or is being freed (pvPortMalloc,                         *)
(* prvInsertBlockIntoFreeList).                                            *)
BlocksTile ==
  pxEnd # NULL =>
    LET Blocks == FreeList \cup InUse
    IN /\ FreeList \cap InUse = {}
       /\ \A b \in Blocks : SizeOf(b) > 0 /\ b + SizeOf(b) \in Blocks \cup {pxEnd}
       /\ StartAddress \in Blocks
       /\ \A b, c \in Blocks : b < c => b + SizeOf(b) <= c

(* The free list is in the order of addresses, no two of its blocks touch, *)
(* and xFreeBytesRemaining is the sum of their sizes                       *)
(* (prvInsertBlockIntoFreeList).                                           *)
FreeListExact ==
  pxEnd # NULL =>
    /\ \A b \in FreeList : /\ b < links[b].next
                           /\ b + links[b].size \notin FreeList
    /\ xFreeBytesRemaining = FoldFunction(LAMBDA x, y : x + y, 0,
                                          [b \in FreeList |-> links[b].size])

Memory == INSTANCE Allocator WITH
            Lo     <- StartAddress,
            Hi     <- EndAddress,
            HEADER <- xHeapStructSize,
            used   <- {[at |-> b, size |-> SizeOf(b)] : b \in InUse}

(* What tasks.c and queue.c take the heap for: memory of one's own, and a  *)
(* refusal only when nowhere between the blocks in use there is room, also *)
(* for sizes that overflow a size_t with the header.                       *)
ImplementsAllocator == Memory!Spec
=============================================================================
