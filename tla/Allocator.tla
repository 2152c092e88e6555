----------------------------- MODULE Allocator -----------------------------
(***************************************************************************)
(* What a heap promises to its callers (pvPortMalloc and vPortFree as      *)
(* tasks.c and queue.c use them): memory that nobody else has, of the size *)
(* asked for, and a refusal only when there is no room.                    *)
(***************************************************************************)
EXTENDS Integers

CONSTANTS
  Lo, Hi,      \* the memory: the addresses from Lo to Hi - 1
  ALIGN,       \* of every address and size
  HEADER,      \* what a chunk holds beside the memory asked for
  Requests     \* the sizes asked for

VARIABLES
  used,        \* the chunks in use, records of at and size
  halted       \* a refusal stops the program

vars == <<used, halted>>

Init == used = {} /\ halted = FALSE

Apart(c, d) == c.at + c.size <= d.at \/ d.at + d.size <= c.at

Chunk(a, n) == [at |-> a, size |-> n]

(* Where a chunk of n bytes can be.                                        *)
Places(n) == {a \in Lo .. Hi - n : a % ALIGN = 0 /\ \A d \in used : Apart(Chunk(a, n), d)}

(* The size in whole units of alignment.                                   *)
Need(w) == ((w + HEADER + ALIGN - 1) \div ALIGN) * ALIGN

Alloc(w) ==
  /\ w > 0
  /\ \E n \in w + HEADER .. Hi - Lo : \E a \in Places(n) : used' = used \cup {Chunk(a, n)}
  /\ UNCHANGED halted

Refuse(w) ==
  /\ w = 0 \/ Places(Need(w)) = {}
  /\ halted' = TRUE
  /\ UNCHANGED used

Free(c) == used' = used \ {c} /\ UNCHANGED halted

Next == /\ ~halted
        /\ \/ \E w \in Requests : Alloc(w) \/ Refuse(w)
           \/ \E c \in used : Free(c)

Spec == Init /\ [][Next]_vars

(* No byte belongs to two callers.                                         *)
Disjoint == \A c, d \in used : c # d => Apart(c, d)
=============================================================================
