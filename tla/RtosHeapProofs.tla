--------------------------- MODULE RtosHeapProofs ---------------------------
(***************************************************************************)
(* Proofs about RtosHeap, for every heap, width of size_t, alignment of    *)
(* portable.h, set of tasks and set of requests.                           *)
(*                                                                         *)
(* The invariant is Whole: the headers cut the heap into blocks that cover *)
(* it without a gap (Tiles), the free ones are linked in the order of      *)
(* their addresses and no two of them touch (Links), and the free bytes    *)
(* are the sum of their sizes; Owners says which of the others carry the   *)
(* bit and that no two tasks give back the same block.  The loops over the *)
(* list are walks (IsWalk), and FreeListIs follows the list to its end, by *)
(* the least or greatest counterexample.                                   *)
(***************************************************************************)
EXTENDS RtosHeap, TLAPS, WellFoundedInduction, FiniteSetTheorems

-----------------------------------------------------------------------------
(* Induction, as the least and the greatest member of a set.               *)

Less == {p \in Nat \X Nat : p[1] < p[2]}

(* A set of natural numbers has a least member.                            *)
LEMMA Least ==
  ASSUME NEW S \in SUBSET Nat, S # {}
  PROVE  \E n \in S : \A m \in S : n <= m
<1>1. IsWellFoundedOn(Less, Nat)
  BY NatLessThanWellFounded DEF OpToRel, Less
<1>2. \E x \in S : \A y \in S : ~ (<<y, x>> \in Less)
  BY <1>1, WFMin
<1>3. PICK n \in S : \A m \in S : <<m, n>> \notin Less
  BY <1>2
<1>4. ASSUME NEW m \in S PROVE n <= m
  <2>1. m \in Nat /\ n \in Nat
    OBVIOUS
  <2>2. ~(m < n)
    BY <1>3, <2>1 DEF Less
  <2> QED BY <2>1, <2>2
<1> QED BY <1>4

(* And a bounded one a greatest.                                           *)
LEMMA Greatest ==
  ASSUME NEW S \in SUBSET Nat, S # {}, NEW top \in Nat, \A m \in S : m <= top
  PROVE  \E n \in S : \A m \in S : m <= n
<1> DEFINE T == {top - m : m \in S}
<1>1. T \in SUBSET Nat /\ T # {}
  <2>1. \A m \in S : m \in Nat /\ top - m \in Nat
    OBVIOUS
  <2> QED BY <2>1
<1>2. PICK k \in T : \A m \in T : k <= m
  BY <1>1, Least
<1>3. PICK n \in S : k = top - n
  OBVIOUS
<1>4. ASSUME NEW m \in S PROVE m <= n
  <2>1. top - m \in T
    OBVIOUS
  <2>2. top - n <= top - m
    BY <1>2, <1>3, <2>1
  <2> QED BY <2>2
<1> QED BY <1>4

(* Induction over the natural numbers, with a set for the predicate.       *)
LEMMA Induction ==
  ASSUME NEW S, 0 \in S, \A n \in Nat : n \in S => n + 1 \in S
  PROVE  Nat \subseteq S
<1> SUFFICES ASSUME Nat \ S # {} PROVE FALSE
  OBVIOUS
<1>1. PICK n \in Nat \ S : \A m \in Nat \ S : n <= m
  BY Least
<1>2. n - 1 \in Nat /\ n - 1 \in S
  BY <1>1
<1> QED BY <1>1, <1>2

-----------------------------------------------------------------------------
(* Walks.  From each place of D that is not a stop, nx leads to the next   *)
(* place of D.                                                             *)

FirstStop(D, Stop, d) == CHOOSE q \in Stop : q >= d /\ \A r \in Stop : r >= d => q <= r

IsWalk(D, Stop, nx) ==
  /\ D \in SUBSET Nat
  /\ Stop \in SUBSET D
  /\ \E top \in Nat : \A d \in D : d <= top
  /\ \A d \in D \ Stop : /\ nx[d] \in D
                         /\ nx[d] > d
                         /\ \A c \in D : c > d => nx[d] <= c

(* There is one, and it is the one that is meant.                          *)
LEMMA StopAhead ==
  ASSUME NEW D, NEW Stop, NEW nx, IsWalk(D, Stop, nx), NEW d \in D
  PROVE  /\ FirstStop(D, Stop, d) \in Stop
         /\ FirstStop(D, Stop, d) >= d
         /\ \A r \in Stop : r >= d => FirstStop(D, Stop, d) <= r
<1> USE DEF IsWalk
<1> DEFINE Ahead(e) == {q \in Stop : q >= e}
           Lost == {e \in D : Ahead(e) = {}}
<1>1. Lost = {}
  <2> SUFFICES ASSUME Lost # {} PROVE FALSE
    OBVIOUS
  <2>1. PICK e \in Lost : \A m \in Lost : m <= e
    BY Greatest
  <2>2. e \notin Stop /\ e \in Nat /\ e \in D
    OBVIOUS
  <2>3. nx[e] \in D /\ nx[e] > e /\ nx[e] \in Nat
    BY <2>2
  <2>4. nx[e] \notin Lost
    BY <2>1, <2>2, <2>3
  <2>5. PICK q \in Stop : q >= nx[e]
    BY <2>3, <2>4
  <2>6. q >= e
    BY <2>3, <2>5
  <2> QED BY <2>6
<1>2. Ahead(d) # {} /\ Ahead(d) \in SUBSET Nat
  BY <1>1
<1>3. PICK q \in Ahead(d) : \A r \in Ahead(d) : q <= r
  BY <1>2, Least
<1> QED BY <1>3 DEF FirstStop

(* It satisfies the equation of the loop ...                               *)
LEMMA WalkStep ==
  ASSUME NEW D, NEW Stop, NEW nx, IsWalk(D, Stop, nx), NEW d \in D
  PROVE  FirstStop(D, Stop, d) = IF d \in Stop THEN d ELSE FirstStop(D, Stop, nx[d])
<1> DEFINE F(e) == FirstStop(D, Stop, e)
<1>0. \A e \in D : F(e) \in Stop /\ F(e) >= e /\ \A r \in Stop : r >= e => F(e) <= r
  BY StopAhead
<1> HIDE DEF F
<1> USE DEF IsWalk
<1>1. CASE d \in Stop
  <2>1. F(d) \in Stop /\ F(d) \in Nat /\ d \in Nat
    BY <1>0
  <2>2. F(d) <= d /\ F(d) >= d
    BY <1>0, <1>1
  <2> QED BY <1>1, <2>1, <2>2 DEF F
<1>2. CASE d \notin Stop
  <2>1. nx[d] \in D /\ nx[d] > d /\ nx[d] \in Nat /\ d \in Nat
    BY <1>2
  <2>2. F(d) \in Stop /\ F(nx[d]) \in Stop /\ F(d) >= d /\ F(nx[d]) >= nx[d]
    BY <1>0, <2>1
  <2>3. F(d) \in Nat /\ F(nx[d]) \in Nat /\ F(d) # d
    BY <1>2, <2>2
  <2>4. F(d) >= nx[d]
    BY <1>2, <2>1, <2>2, <2>3
  <2>5. F(d) <= F(nx[d]) /\ F(nx[d]) <= F(d)
    BY <1>0, <2>1, <2>2, <2>3, <2>4
  <2> QED BY <1>2, <2>3, <2>5 DEF F
<1> QED BY <1>1, <1>2

(* ... and is the only one that does.                                      *)
LEMMA WalkUnique ==
  ASSUME NEW D, NEW Stop, NEW nx, IsWalk(D, Stop, nx),
         NEW f, \A d \in D : f[d] = IF d \in Stop THEN d ELSE f[nx[d]]
  PROVE  \A d \in D : f[d] = FirstStop(D, Stop, d)
<1> DEFINE Bad == {d \in D : f[d] # FirstStop(D, Stop, d)}
<1> SUFFICES ASSUME Bad # {} PROVE FALSE
  OBVIOUS
<1>1. PICK d \in Bad : \A m \in Bad : m <= d
  BY Greatest DEF IsWalk
<1>2. FirstStop(D, Stop, d) = IF d \in Stop THEN d ELSE FirstStop(D, Stop, nx[d])
  BY WalkStep
<1>3. d \notin Stop
  BY <1>2
<1>4. nx[d] \in D /\ nx[d] > d /\ d \in Nat /\ nx[d] \in Nat
  BY <1>3 DEF IsWalk
<1>5. nx[d] \notin Bad
  BY <1>1, <1>4
<1> QED BY <1>2, <1>3, <1>4, <1>5

-----------------------------------------------------------------------------
(* Sums.                                                                   *)

Sum(f) == FoldFunction(LAMBDA x, y : x + y, 0, f)

Adds(f, iter) ==
  \A s \in SUBSET DOMAIN f :
    iter[s] = IF s = {} THEN 0 ELSE f[CHOOSE x \in s : TRUE] + iter[s \ {CHOOSE x \in s : TRUE}]

(* The equation of the sum has a solution on a finite set.                 *)
LEMMA SumIter ==
  ASSUME NEW S, IsFiniteSet(S), NEW f \in [S -> Nat]
  PROVE  \E iter \in [SUBSET S -> Nat] : Adds(f, iter)
<1> DEFINE x(s) == CHOOSE x \in s : TRUE
           Upto(n) == {s \in SUBSET S : Cardinality(s) <= n}
           T == {n \in Nat : \E g \in [SUBSET S -> Nat] :
                   \A s \in Upto(n) : g[s] = IF s = {} THEN 0 ELSE f[x(s)] + g[s \ {x(s)}]}
<1>1. \A s \in SUBSET S : IsFiniteSet(s) /\ Cardinality(s) \in Nat
  BY FS_Subset, FS_CardinalityType
<1>2. \A s \in SUBSET S : s # {} => /\ x(s) \in s
                                   /\ s \ {x(s)} \in SUBSET S
                                   /\ Cardinality(s \ {x(s)}) = Cardinality(s) - 1
  BY <1>1, FS_RemoveElement
<1>3. {} \in SUBSET S /\ \A s \in SUBSET S : Cardinality(s) = 0 <=> s = {}
  BY <1>1, FS_EmptySet
<1> HIDE DEF x
<1>4. 0 \in T
  <2>1. \A s \in Upto(0) : s = {}
    BY <1>1, <1>3
  <2>2. [s \in SUBSET S |-> 0] \in [SUBSET S -> Nat]
    OBVIOUS
  <2> QED BY <2>1, <2>2
<1>5. ASSUME NEW n \in Nat, n \in T PROVE n + 1 \in T
  <2>1. PICK g \in [SUBSET S -> Nat] :
          \A s \in Upto(n) : g[s] = IF s = {} THEN 0 ELSE f[x(s)] + g[s \ {x(s)}]
    BY <1>5
  <2> DEFINE h == [s \in SUBSET S |-> IF s \in Upto(n) THEN g[s] ELSE f[x(s)] + g[s \ {x(s)}]]
  <2>2. \A s \in SUBSET S : s \notin Upto(n) => s # {}
    BY <1>1, <1>3
  <2>3. h \in [SUBSET S -> Nat]
    BY <2>2, <1>2
  <2>4. ASSUME NEW s \in Upto(n + 1)
        PROVE  h[s] = IF s = {} THEN 0 ELSE f[x(s)] + h[s \ {x(s)}]
    <3>1. CASE s = {}
      <4>1. s \in Upto(n)
        BY <3>1, <1>1, <1>3
      <4> QED BY <3>1, <4>1, <2>1
    <3>2. CASE s # {}
      <4>1. s \ {x(s)} \in Upto(n)
        BY <3>2, <1>1, <1>2
      <4>2. h[s \ {x(s)}] = g[s \ {x(s)}]
        BY <4>1
      <4>3. h[s] = f[x(s)] + g[s \ {x(s)}]
        BY <2>1, <3>2
      <4> QED BY <3>2, <4>2, <4>3
    <3> QED BY <3>1, <3>2
  <2> HIDE DEF h
  <2>5. \A s \in Upto(n + 1) : h[s] = IF s = {} THEN 0 ELSE f[x(s)] + h[s \ {x(s)}]
    BY <2>4
  <2>6. n + 1 \in Nat
    OBVIOUS
  <2> QED BY <2>3, <2>5, <2>6, Zenon
<1> HIDE DEF T
<1>6. Cardinality(S) \in T
  BY <1>1, <1>4, <1>5, Induction
<1> USE DEF T
<1>7. PICK g \in [SUBSET S -> Nat] :
        \A s \in Upto(Cardinality(S)) : g[s] = IF s = {} THEN 0 ELSE f[x(s)] + g[s \ {x(s)}]
  BY <1>6
<1>8. \A s \in SUBSET S : s \in Upto(Cardinality(S))
  BY <1>1, FS_Subset
<1> QED BY <1>7, <1>8 DEF Adds, x

(* Two sums of the same numbers take the same values.                      *)
LEMMA SumAgree ==
  ASSUME NEW S, IsFiniteSet(S), NEW f \in [S -> Nat],
         NEW R \in SUBSET S, NEW e \in [R -> Nat], \A r \in R : e[r] = f[r],
         NEW g, Adds(f, g), NEW h, Adds(e, h)
  PROVE  \A s \in SUBSET R : h[s] = g[s]
<1> DEFINE x(s) == CHOOSE x \in s : TRUE
           Bad == {s \in SUBSET R : h[s] # g[s]}
           Sizes == {Cardinality(s) : s \in Bad}
<1> SUFFICES ASSUME Bad # {} PROVE FALSE
  OBVIOUS
<1>1. \A s \in SUBSET R : IsFiniteSet(s) /\ Cardinality(s) \in Nat
  BY FS_Subset, FS_CardinalityType
<1>2. \A s \in SUBSET R : s # {} => /\ x(s) \in s
                                   /\ s \ {x(s)} \in SUBSET R
                                   /\ Cardinality(s \ {x(s)}) = Cardinality(s) - 1
  BY <1>1, FS_RemoveElement
<1>3. Sizes \in SUBSET Nat /\ Sizes # {}
  BY <1>1
<1>4. PICK n \in Sizes : \A m \in Sizes : n <= m
  BY <1>3, Least
<1>5. PICK s \in Bad : n = Cardinality(s)
  OBVIOUS
<1>6. s \in SUBSET R /\ s \in SUBSET S /\ DOMAIN f = S /\ DOMAIN e = R
  OBVIOUS
<1>7. /\ h[s] = IF s = {} THEN 0 ELSE e[x(s)] + h[s \ {x(s)}]
      /\ g[s] = IF s = {} THEN 0 ELSE f[x(s)] + g[s \ {x(s)}]
  BY <1>6 DEF Adds
<1> HIDE DEF x
<1>8. s # {}
  BY <1>7
<1>9. x(s) \in R /\ s \ {x(s)} \in SUBSET R /\ Cardinality(s \ {x(s)}) = n - 1
  BY <1>2, <1>5, <1>6, <1>8
<1>10. s \ {x(s)} \notin Bad
  <2> SUFFICES ASSUME s \ {x(s)} \in Bad PROVE FALSE
    OBVIOUS
  <2>1. n - 1 \in Sizes /\ n \in Nat
    BY <1>3, <1>9
  <2> QED BY <1>4, <2>1
<1> QED BY <1>7, <1>8, <1>9, <1>10

(* The sum is that of the function iter of the fold ...                    *)
LEMMA SumIs ==
  ASSUME NEW S, IsFiniteSet(S), NEW f \in [S -> Nat]
  PROVE  \E iter \in [SUBSET S -> Nat] : Adds(f, iter) /\ Sum(f) = iter[S]
<1> DEFINE Eq(g) == g = [s \in SUBSET DOMAIN f |->
                          IF s = {} THEN 0
                          ELSE f[CHOOSE x \in s : TRUE] + g[s \ {CHOOSE x \in s : TRUE}]]
           F == CHOOSE g : Eq(g)
<1>1. Sum(f) = F[S]
  BY DEF Sum, FoldFunction, FoldFunctionOnSet, MapThenFoldSet
<1>2. PICK iter \in [SUBSET S -> Nat] : Adds(f, iter)
  BY SumIter
<1>3. Eq(iter)
  BY <1>2 DEF Adds
<1>4. Eq(F)
  BY <1>3, Zenon
<1>5. Adds(f, F)
  BY <1>4 DEF Adds
<1> HIDE DEF F
<1>6. \A s \in SUBSET S : F[s] = iter[s]
  BY <1>2, <1>5, SumAgree
<1> QED BY <1>1, <1>2, <1>6

Sums(S, f, g) == f \in [S -> Nat] /\ g \in [SUBSET S -> Nat] /\ Adds(f, g)

(* ... and any member of a set can be added last.                          *)
LEMMA SumAnyOrder ==
  ASSUME NEW S, IsFiniteSet(S), NEW f, NEW g, Sums(S, f, g),
         NEW s0 \in SUBSET S, NEW z0 \in s0
  PROVE  g[s0] = f[z0] + g[s0 \ {z0}]
<1>0. f \in [S -> Nat] /\ g \in [SUBSET S -> Nat] /\ Adds(f, g)
  BY DEF Sums
<1> DEFINE x(s) == CHOOSE x \in s : TRUE
           Bad == {s \in SUBSET S : \E z \in s : g[s] # f[z] + g[s \ {z}]}
           Sizes == {Cardinality(s) : s \in Bad}
<1> SUFFICES ASSUME Bad # {} PROVE FALSE
  OBVIOUS
<1>1. \A s \in SUBSET S : IsFiniteSet(s) /\ Cardinality(s) \in Nat
  BY FS_Subset, FS_CardinalityType
<1>2. \A s \in SUBSET S : s # {} => /\ x(s) \in s
                                   /\ s \ {x(s)} \in SUBSET S
                                   /\ Cardinality(s \ {x(s)}) = Cardinality(s) - 1
  BY <1>1, FS_RemoveElement
<1>3. Sizes \in SUBSET Nat /\ Sizes # {}
  BY <1>1
<1>4. PICK n \in Sizes : \A m \in Sizes : n <= m
  BY <1>3, Least
<1>5. PICK s \in Bad : n = Cardinality(s)
  OBVIOUS
<1>6. PICK z \in s : g[s] # f[z] + g[s \ {z}]
  OBVIOUS
<1>7. s \in SUBSET S /\ s # {} /\ DOMAIN f = S
  BY <1>0, <1>6
<1>8. \A t \in SUBSET S : t # {} => g[t] = f[x(t)] + g[t \ {x(t)}]
  BY <1>0, <1>7 DEF Adds
<1> DEFINE y == x(s)
<1>9. y \in s /\ s \ {y} \in SUBSET S /\ Cardinality(s \ {y}) = n - 1
  BY <1>2, <1>5, <1>7
<1>10. g[s] = f[y] + g[s \ {y}]
  BY <1>7, <1>8
<1>11. z # y
  BY <1>6, <1>10
<1> HIDE DEF y
<1>12. s \ {y} \notin Bad /\ s \ {z} \notin Bad
  <2>1. n - 1 \notin Sizes
    <3>1. n \in Nat /\ n - 1 < n
      BY <1>3
    <3> QED BY <3>1, <1>3, <1>4
  <2>2. Cardinality(s \ {z}) = n - 1
    BY <1>1, <1>5, <1>6, <1>7, FS_RemoveElement
  <2> QED BY <2>1, <2>2, <1>9
<1>13. z \in s \ {y} /\ y \in s \ {z} /\ (s \ {y}) \ {z} = (s \ {z}) \ {y}
  BY <1>9, <1>11
<1>14. g[s \ {y}] = f[z] + g[(s \ {y}) \ {z}]
  BY <1>9, <1>12, <1>13
<1>15. g[s \ {z}] = f[y] + g[(s \ {z}) \ {y}]
  <2>1. s \ {z} \in SUBSET S
    BY <1>7
  <2> QED BY <2>1, <1>12, <1>13
<1>16. f[y] \in Nat /\ f[z] \in Nat /\ g[(s \ {y}) \ {z}] \in Nat
  BY <1>0, <1>7, <1>9, <1>6
<1>17. g[s \ {z}] = f[y] + g[(s \ {y}) \ {z}]
  BY <1>13, <1>15
<1>18. \A k, l, m \in Nat : k + (l + m) = l + (k + m)
  OBVIOUS
<1>19. g[s] = f[z] + g[s \ {z}]
  BY <1>10, <1>14, <1>16, <1>17, <1>18
<1> QED BY <1>6, <1>19

(* The sum of nothing.                                                     *)
LEMMA SumEmpty ==
  ASSUME NEW f, DOMAIN f = {}
  PROVE  Sum(f) = 0
<1>1. f \in [{} -> Nat] /\ IsFiniteSet({}) /\ {} \in SUBSET {}
  BY FS_EmptySet
<1>2. PICK iter \in [SUBSET {} -> Nat] : Adds(f, iter) /\ Sum(f) = iter[{}]
  BY <1>1, SumIs
<1> QED BY <1>1, <1>2 DEF Adds

(* A sum is one of its numbers and the sum of the others.                  *)
LEMMA SumSplit ==
  ASSUME NEW S, IsFiniteSet(S), NEW f \in [S -> Nat], NEW z \in S
  PROVE  /\ Sum(f) = f[z] + Sum([y \in S \ {z} |-> f[y]])
         /\ Sum([y \in S \ {z} |-> f[y]]) \in Nat
         /\ Sum(f) \in Nat
<1> DEFINE R == S \ {z}
           e == [y \in R |-> f[y]]
<1>1. IsFiniteSet(R) /\ e \in [R -> Nat] /\ R \in SUBSET S
  BY FS_RemoveElement
<1>2. PICK g \in [SUBSET S -> Nat] : Adds(f, g) /\ Sum(f) = g[S]
  BY SumIs
<1>3. PICK h \in [SUBSET R -> Nat] : Adds(e, h) /\ Sum(e) = h[R]
  BY <1>1, SumIs
<1>4. h[R] = g[R]
  <2>1. \A r \in R : e[r] = f[r]
    OBVIOUS
  <2> QED BY <1>1, <1>2, <1>3, <2>1, SumAgree
<1>5. g[S] = f[z] + g[R]
  <2>1. Sums(S, f, g) /\ S \in SUBSET S
    BY <1>2 DEF Sums
  <2>2. g[S] = f[z] + g[S \ {z}]
    BY <2>1, SumAnyOrder
  <2> QED BY <2>2
<1> QED BY <1>1, <1>2, <1>3, <1>4, <1>5

-----------------------------------------------------------------------------
(* Numbers: the width of size_t, alignment, the addresses of the heap.     *)

(* A size_t has a highest bit, MSB, and SIZE_MAX is the next power of two  *)
(* less one.                                                               *)
LEMMA Width == MSB \in Nat /\ MSB > 0 /\ SIZE_MAX = 2 * MSB - 1 /\ SIZE_MAX \in Nat
BY HeapAssumption, SMTT(30) DEF MSB

(* Sums and differences of aligned numbers are aligned.                    *)
LEMMA Aligned ==
  ASSUME NEW m \in Nat, NEW n \in Nat, m % ALIGN = 0, n % ALIGN = 0
  PROVE  (m + n) % ALIGN = 0 /\ (m >= n => (m - n) % ALIGN = 0)
<1>1. CASE ALIGN = 1 BY <1>1, SMTT(30)
<1>2. CASE ALIGN = 2 BY <1>2, SMTT(30)
<1>3. CASE ALIGN = 4 BY <1>3, SMTT(30)
<1>4. CASE ALIGN = 8 BY <1>4, SMTT(30)
<1>5. CASE ALIGN = 16 BY <1>5, SMTT(30)
<1>6. CASE ALIGN = 32 BY <1>6, SMTT(30)
<1> QED BY <1>1, <1>2, <1>3, <1>4, <1>5, <1>6, AlignAssumption

(* The greatest aligned number not over n.                                 *)
LEMMA RoundDown ==
  ASSUME NEW n \in Nat
  PROVE  /\ (n \div ALIGN) * ALIGN \in Nat
         /\ ((n \div ALIGN) * ALIGN) % ALIGN = 0
         /\ (n \div ALIGN) * ALIGN <= n
         /\ n < (n \div ALIGN) * ALIGN + ALIGN
         /\ (n % ALIGN = 0 => (n \div ALIGN) * ALIGN = n)
         /\ (n \div ALIGN) * ALIGN = n - (n % ALIGN)
         /\ n % ALIGN \in 0 .. ALIGN - 1
<1>1. CASE ALIGN = 1 BY <1>1, SMTT(30)
<1>2. CASE ALIGN = 2 BY <1>2, SMTT(30)
<1>3. CASE ALIGN = 4 BY <1>3, SMTT(30)
<1>4. CASE ALIGN = 8 BY <1>4, SMTT(30)
<1>5. CASE ALIGN = 16 BY <1>5, SMTT(30)
<1>6. CASE ALIGN = 32 BY <1>6, SMTT(30)
<1> QED BY <1>1, <1>2, <1>3, <1>4, <1>5, <1>6, AlignAssumption

(* The heap is not empty, starts after xStart, is aligned, and is less     *)
(* than half of what a size_t can count.                                   *)
LEMMA Addresses ==
  /\ StartAddress \in Nat /\ EndAddress \in Nat
  /\ XSTART < StartAddress
  /\ StartAddress < EndAddress
  /\ StartAddress % ALIGN = 0 /\ EndAddress % ALIGN = 0
  /\ EndAddress - StartAddress < MSB
  /\ EndAddress + xHeapStructSize <= SIZE_MAX
  /\ (EndAddress - StartAddress) % ALIGN = 0
<1> DEFINE m == ucHeap + ALIGN - 1
           n == ucHeap + HEAP_SIZE - xHeapStructSize
<1>1. ALIGN \in Nat /\ ALIGN > 0 /\ xHeapStructSize \in Nat /\ xHeapStructSize > 0
  BY AlignAssumption
<1>2. /\ ucHeap \in Nat /\ ucHeap > 1 /\ HEAP_SIZE \in Nat
      /\ HEAP_SIZE >= 2 * ALIGN + xHeapStructSize /\ HEAP_SIZE < MSB
      /\ ucHeap + HEAP_SIZE <= SIZE_MAX
  BY <1>1, HeapAssumption, Width
<1>3. m \in Nat /\ n \in Nat
  BY <1>1, <1>2
<1> HIDE DEF m, n
<1>4. /\ (m \div ALIGN) * ALIGN \in Nat
      /\ ((m \div ALIGN) * ALIGN) % ALIGN = 0
      /\ (m \div ALIGN) * ALIGN <= m
      /\ m < (m \div ALIGN) * ALIGN + ALIGN
  BY <1>3, RoundDown
<1>5. /\ (n \div ALIGN) * ALIGN \in Nat
      /\ ((n \div ALIGN) * ALIGN) % ALIGN = 0
      /\ (n \div ALIGN) * ALIGN <= n
      /\ n < (n \div ALIGN) * ALIGN + ALIGN
  BY <1>3, RoundDown
<1>6. StartAddress = (m \div ALIGN) * ALIGN /\ EndAddress = (n \div ALIGN) * ALIGN
  BY DEF StartAddress, EndAddress, m, n
<1>7. /\ StartAddress \in Nat /\ EndAddress \in Nat
      /\ StartAddress % ALIGN = 0 /\ EndAddress % ALIGN = 0
      /\ StartAddress <= m /\ m < StartAddress + ALIGN
      /\ EndAddress <= n /\ n < EndAddress + ALIGN
  BY <1>4, <1>5, <1>6
<1>8. StartAddress < EndAddress /\ XSTART < StartAddress
      /\ EndAddress - StartAddress < MSB /\ EndAddress + xHeapStructSize <= SIZE_MAX
  BY <1>1, <1>2, <1>7, Width DEF m, n, XSTART
<1> QED BY <1>7, <1>8, Aligned

(* The least aligned number not under n.                                   *)
LEMMA RoundUp ==
  ASSUME NEW n \in Nat
  PROVE  LET up == ((n + ALIGN - 1) \div ALIGN) * ALIGN
         IN /\ up \in Nat /\ up >= n /\ up < n + ALIGN /\ up % ALIGN = 0
            /\ up = (IF n % ALIGN = 0 THEN n ELSE n + (ALIGN - (n % ALIGN)))
            /\ ALIGN - (n % ALIGN) \in 1 .. ALIGN
<1>1. CASE ALIGN = 1 BY <1>1, SMTT(30)
<1>2. CASE ALIGN = 2 BY <1>2, SMTT(30)
<1>3. CASE ALIGN = 4 BY <1>3, SMTT(30)
<1>4. CASE ALIGN = 8 BY <1>4, SMTT(30)
<1>5. CASE ALIGN = 16 BY <1>5, SMTT(30)
<1>6. CASE ALIGN = 32 BY <1>6, SMTT(30)
<1> QED BY <1>1, <1>2, <1>3, <1>4, <1>5, <1>6, AlignAssumption

(* The size in a header, without the bit.                                  *)
LEMMA ModMSB ==
  ASSUME NEW n \in Nat
  PROVE  /\ n < MSB => n % MSB = n /\ (n + MSB) % MSB = n
         /\ n >= MSB /\ n < 2 * MSB => n % MSB = n - MSB
         /\ n % MSB < MSB /\ n % MSB \in Nat
<1>1. MSB \in Nat /\ MSB > 0
  BY Width
<1> HIDE DEF MSB
<1>2. n % MSB \in Nat /\ n % MSB < MSB /\ (n < MSB => n % MSB = n)
  BY <1>1, SMTT(30)
<1>3. \A m \in Nat : m < MSB => (m + MSB) % MSB = m
  BY <1>1, SMTT(30)
<1>4. ASSUME n >= MSB, n < 2 * MSB PROVE n % MSB = n - MSB
  <2>1. n - MSB \in Nat /\ n - MSB < MSB /\ (n - MSB) + MSB = n
    BY <1>1, <1>4
  <2> QED BY <1>3, <2>1
<1> QED BY <1>2, <1>3, <1>4

-----------------------------------------------------------------------------
(* The shape of the heap, which every call keeps.                          *)

Extent(l, b) == l[b].size % MSB

Blocks(l) == DOMAIN l \ {XSTART, EndAddress}

(* The places of the list, from which it goes on.                          *)
Chain(l, U) == (Blocks(l) \ U) \cup {XSTART}

(* The headers lie in the heap, xStart and pxEnd among them, with sizes of *)
(* a size_t.                                                               *)
Shape(l) ==
  /\ DOMAIN l \subseteq {XSTART} \cup StartAddress .. EndAddress
  /\ {XSTART, StartAddress, EndAddress} \subseteq DOMAIN l
  /\ \A a \in DOMAIN l : l[a] = [next |-> l[a].next, size |-> l[a].size]
  /\ \A a \in DOMAIN l : l[a].next \in Nat /\ l[a].size \in Nat /\ l[a].size < 2 * MSB
  /\ l[XSTART].size = 0
  /\ l[EndAddress].next = NULL /\ l[EndAddress].size = 0
  /\ l = [a \in DOMAIN l |-> l[a]]

(* A block ends where the next header is, at an aligned address.           *)
Tiles(l) ==
  \A b \in Blocks(l) :
    /\ Extent(l, b) > 0
    /\ Extent(l, b) % ALIGN = 0
    /\ b % ALIGN = 0
    /\ b + Extent(l, b) \in DOMAIN l
    /\ \A c \in DOMAIN l : c > b => b + Extent(l, b) <= c

(* The list leads from each place to the next free block, and free blocks  *)
(* do not touch; the blocks of U are outside it.                           *)
Links(l, U) ==
  /\ U \subseteq Blocks(l)
  /\ \A b \in U : l[b].next = NULL
  /\ \A b \in Chain(l, U) :
       /\ l[b].next > b
       /\ l[b].next \in Chain(l, U) \cup {EndAddress}
       /\ \A c \in Chain(l, U) : c > b => l[b].next <= c
       /\ l[b].size < MSB
       /\ b + l[b].size \notin Chain(l, U) \ {b}

(* The bytes of a set of blocks.                                           *)
Total(S, l) == Sum([a \in S |-> l[a].size])

(* The heap with headers l, blocks U in use and that many bytes free.      *)
Whole(l, U, free) ==
  /\ Shape(l)
  /\ Tiles(l)
  /\ Links(l, U)
  /\ free = Total(Blocks(l) \ U, l)

-----------------------------------------------------------------------------
(* SumSplit, for bytes of blocks.                                          *)
LEMMA TotalSplit ==
  ASSUME NEW S, IsFiniteSet(S), NEW l, \A a \in S : l[a].size \in Nat, NEW z \in S
  PROVE  /\ Total(S, l) = l[z].size + Total(S \ {z}, l)
         /\ Total(S \ {z}, l) \in Nat
         /\ Total(S, l) \in Nat
<1> DEFINE f == [a \in S |-> l[a].size]
<1>1. f \in [S -> Nat]
  OBVIOUS
<1>2. [y \in S \ {z} |-> f[y]] = [a \in S \ {z} |-> l[a].size]
  OBVIOUS
<1>3. f[z] = l[z].size
  OBVIOUS
<1> HIDE DEF f
<1>4. /\ Sum(f) = f[z] + Sum([y \in S \ {z} |-> f[y]])
      /\ Sum([y \in S \ {z} |-> f[y]]) \in Nat
      /\ Sum(f) \in Nat
  BY <1>1, SumSplit
<1>5. Sum(f) = Total(S, l) /\ Sum([y \in S \ {z} |-> f[y]]) = Total(S \ {z}, l)
  BY <1>2 DEF Total, f
<1> QED BY <1>3, <1>4, <1>5

(* Bytes are a natural number.                                             *)
LEMMA TotalNat ==
  ASSUME NEW S, IsFiniteSet(S), NEW l, \A a \in S : l[a].size \in Nat
  PROVE  Total(S, l) \in Nat
<1>1. CASE S = {}
  <2>1. DOMAIN [a \in S |-> l[a].size] = {}
    BY <1>1
  <2>2. Sum([a \in S |-> l[a].size]) = 0
    BY <2>1, SumEmpty
  <2> QED BY <2>2 DEF Total
<1>2. CASE S # {}
  BY <1>2, TotalSplit
<1> QED BY <1>1, <1>2

(* They depend on the sizes alone.                                         *)
LEMMA TotalSame ==
  ASSUME NEW S, NEW l, NEW k, \A a \in S : k[a].size = l[a].size
  PROVE  Total(S, k) = Total(S, l)
<1>1. [a \in S |-> k[a].size] = [a \in S |-> l[a].size]
  OBVIOUS
<1> QED BY <1>1 DEF Total

-----------------------------------------------------------------------------
(* What Whole says of each place.                                          *)
LEMMA Places ==
  ASSUME NEW l, NEW U, Shape(l), Links(l, U)
  PROVE  /\ DOMAIN l \in SUBSET Nat
         /\ \A a \in DOMAIN l : a <= EndAddress
         /\ IsFiniteSet(DOMAIN l)
         /\ Chain(l, U) \subseteq DOMAIN l \ {EndAddress}
         /\ \A a \in Blocks(l) : StartAddress <= a /\ a < EndAddress
         /\ XSTART \in Chain(l, U)
         /\ Linked(l) = Chain(l, U)
<1>1. DOMAIN l \subseteq 1 .. EndAddress
  BY Addresses DEF Shape, XSTART
<1>2. IsFiniteSet(DOMAIN l)
  <2>1. IsFiniteSet(1 .. EndAddress)
    BY Addresses, FS_Interval
  <2> QED BY <1>1, <2>1, FS_Subset
<1>3. Chain(l, U) \subseteq DOMAIN l \ {EndAddress} /\ XSTART \in Chain(l, U)
  BY Addresses DEF Shape, Chain, Blocks
<1>4. \A a \in Blocks(l) : StartAddress <= a /\ a < EndAddress
  BY <1>1, Addresses DEF Shape, Blocks
<1>5. Linked(l) = Chain(l, U)
  <2>1. ASSUME NEW p \in Linked(l) PROVE p \in Chain(l, U)
    BY <2>1 DEF Linked, Shape, Links, Chain, Blocks
  <2>2. ASSUME NEW p \in Chain(l, U) PROVE p \in Linked(l)
    <3>1. l[p].next > p /\ p \in DOMAIN l /\ p \in Nat /\ l[p].next \in Nat
      BY <1>1, <1>3 DEF Links, Shape
    <3> QED BY <3>1 DEF Linked, NULL
  <2> QED BY <2>1, <2>2
<1> QED BY <1>1, <1>2, <1>3, <1>4, <1>5

-----------------------------------------------------------------------------
(* The searches.                                                           *)

(* The search of pvPortMalloc ends before the first free block that is     *)
(* large enough, and before pxEnd only if there is none.                   *)
LEMMA FirstFitFinds ==
  ASSUME NEW l, NEW U, Shape(l), Links(l, U), NEW wanted \in Nat
  PROVE  LET p == FirstFit(l, wanted)
             b == l[p].next
         IN /\ p \in Chain(l, U)
            /\ b # EndAddress => l[b].size >= wanted
            /\ b = EndAddress => \A c \in Blocks(l) \ U : l[c].size < wanted
<1> DEFINE D == Chain(l, U)
           goes(p) == l[l[p].next].size < wanted /\ l[l[p].next].next # NULL
           Stop == {p \in D : ~goes(p)}
           nx == [p \in D |-> l[p].next]
           S(p) == FirstStop(D, Stop, p)
           Eq(g) == g = [p \in Linked(l) |-> LET b == l[p].next IN
                           IF l[b].size < wanted /\ l[b].next # NULL THEN g[b] ELSE p]
           F == CHOOSE g : Eq(g)
<1>0. /\ DOMAIN l \in SUBSET Nat /\ D \subseteq DOMAIN l \ {EndAddress} /\ XSTART \in D
      /\ Linked(l) = D /\ \A a \in DOMAIN l : a <= EndAddress
      /\ \A a \in Blocks(l) : StartAddress <= a /\ a < EndAddress
  BY Places
<1>1. \A p \in D : /\ l[p].next \in D \cup {EndAddress}
                   /\ l[p].next > p
                   /\ \A c \in D : c > p => l[p].next <= c
  BY DEF Links
<1>2. l[EndAddress].next = NULL
  BY DEF Shape
<1>3. IsWalk(D, Stop, nx)
  <2>1. \A p \in D \ Stop : l[p].next \in D
    BY <1>1, <1>2
  <2> QED BY <1>0, <1>1, <2>1, Addresses DEF IsWalk
<1>4. FirstFit(l, wanted) = F[XSTART]
  BY DEF FirstFit
<1>5. \A p \in D : S(p) \in Stop /\ S(p) >= p /\ \A r \in Stop : r >= p => S(p) <= r
  BY <1>3, StopAhead
<1>6. \A p \in D : S(p) = IF p \in Stop THEN p ELSE S(nx[p])
  BY <1>3, WalkStep
<1> HIDE DEF S
<1>7. Eq([p \in D |-> S(p)])
  <2>1. ASSUME NEW p \in D
        PROVE  S(p) = IF goes(p) THEN [q \in D |-> S(q)][l[p].next] ELSE p
    <3>1. CASE goes(p)
      <4>1. l[p].next \in D
        BY <3>1, <1>1, <1>2
      <4> QED BY <3>1, <4>1, <1>6
    <3>2. CASE ~goes(p)
      BY <3>2, <1>6
    <3> QED BY <3>1, <3>2
  <2> QED BY <2>1, <1>0
<1>8. Eq(F)
  BY <1>7, Zenon
<1> HIDE DEF F
<1>9. \A p \in D : F[p] = S(p)
  <2>1. \A p \in D : F[p] = IF p \in Stop THEN p ELSE F[nx[p]]
    BY <1>8, <1>0
  <2> QED BY <1>3, <2>1, WalkUnique DEF S
<1> DEFINE p == FirstFit(l, wanted)
<1>10. p \in Stop /\ p \in Nat /\ \A r \in Stop : p <= r
  <2>1. p = S(XSTART)
    BY <1>0, <1>4, <1>9
  <2>2. \A r \in Stop : r >= XSTART
    BY <1>0, Addresses DEF Chain, XSTART
  <2> QED BY <1>0, <1>5, <2>1, <2>2
<1> HIDE DEF p
<1>11. ASSUME l[p].next # EndAddress PROVE l[l[p].next].size >= wanted
  <2>1. l[p].next \in D
    BY <1>1, <1>10, <1>11
  <2>2. l[l[p].next].next \in Nat /\ l[l[p].next].next # NULL /\ l[l[p].next].size \in Nat
    BY <1>0, <1>1, <2>1 DEF Shape, NULL
  <2> QED BY <1>10, <2>2
<1>12. ASSUME l[p].next = EndAddress, NEW c \in Blocks(l) \ U PROVE l[c].size < wanted
  <2> SUFFICES ASSUME ~(l[c].size < wanted) PROVE FALSE
    OBVIOUS
  <2> DEFINE T == {q \in D : q < c}
  <2>1. c \in D /\ c \in Nat /\ c < EndAddress /\ c > XSTART
    BY <1>0, Addresses DEF Chain, Blocks, XSTART
  <2>2. XSTART \in T /\ T \in SUBSET Nat /\ \A q \in T : q <= c
    BY <1>0, <2>1
  <2>3. PICK q \in T : \A r \in T : r <= q
    BY <2>1, <2>2, Greatest
  <2>4. l[q].next <= c /\ l[q].next > q /\ l[q].next \in D /\ q \in D /\ q \in Nat
    <3>1. q \in D /\ q \in Nat /\ c > q
      BY <1>0, <2>1, <2>3
    <3>2. l[q].next <= c /\ l[q].next > q /\ l[q].next \in D \cup {EndAddress}
      BY <1>1, <2>1, <3>1
    <3>3. l[q].next # EndAddress
      BY <2>1, <3>2, Addresses
    <3> QED BY <3>1, <3>2, <3>3
  <2>5. l[q].next \in Nat /\ ~(l[q].next < c)
    BY <1>0, <2>1, <2>3, <2>4
  <2>6. l[q].next = c
    BY <2>1, <2>4, <2>5
  <2>7. q \in Stop
    BY <2>4, <2>6
  <2>8. p <= q /\ p < c
    BY <1>10, <2>1, <2>3, <2>4, <2>7
  <2>9. l[p].next <= c
    BY <1>1, <1>10, <2>1, <2>8
  <2> QED BY <1>12, <2>1, <2>9, Addresses
<1> QED BY <1>10, <1>11, <1>12 DEF p

(* The search of prvInsertBlockIntoFreeList ends at the last place before  *)
(* b.                                                                      *)
LEMMA BeforeFinds ==
  ASSUME NEW l, NEW U, Shape(l), Links(l, U), NEW b \in U
  PROVE  LET p == Before(l, b)
         IN /\ p \in Chain(l, U)
            /\ p < b
            /\ l[p].next > b
<1> DEFINE D == Chain(l, U)
           goes(p) == l[p].next < b
           Stop == {p \in D : ~goes(p)}
           nx == [p \in D |-> l[p].next]
           S(p) == FirstStop(D, Stop, p)
           Eq(g) == g = [p \in Linked(l) |-> IF l[p].next < b THEN g[l[p].next] ELSE p]
           F == CHOOSE g : Eq(g)
<1>0. /\ DOMAIN l \in SUBSET Nat /\ D \subseteq DOMAIN l \ {EndAddress} /\ XSTART \in D
      /\ Linked(l) = D /\ \A a \in DOMAIN l : a <= EndAddress
      /\ \A a \in Blocks(l) : StartAddress <= a /\ a < EndAddress
  BY Places
<1>1. \A p \in D : /\ l[p].next \in D \cup {EndAddress}
                   /\ l[p].next > p
                   /\ \A c \in D : c > p => l[p].next <= c
  BY DEF Links
<1>2. b \in Nat /\ b < EndAddress /\ b > XSTART /\ b \notin D
  BY <1>0, Addresses DEF Links, Chain, XSTART, Blocks
<1>3. IsWalk(D, Stop, nx)
  <2>1. \A p \in D \ Stop : l[p].next \in D
    BY <1>1, <1>2, Addresses
  <2> QED BY <1>0, <1>1, <2>1, Addresses DEF IsWalk
<1>4. Before(l, b) = F[XSTART]
  BY DEF Before
<1>5. \A p \in D : S(p) \in Stop /\ S(p) >= p /\ \A r \in Stop : r >= p => S(p) <= r
  BY <1>3, StopAhead
<1>6. \A p \in D : S(p) = IF p \in Stop THEN p ELSE S(nx[p])
  BY <1>3, WalkStep
<1> HIDE DEF S
<1>7. Eq([p \in D |-> S(p)])
  <2>1. ASSUME NEW p \in D
        PROVE  S(p) = IF goes(p) THEN [q \in D |-> S(q)][l[p].next] ELSE p
    <3>1. CASE goes(p)
      <4>1. l[p].next \in D
        BY <3>1, <1>1, <1>2, Addresses
      <4> QED BY <3>1, <4>1, <1>6
    <3>2. CASE ~goes(p)
      BY <3>2, <1>6
    <3> QED BY <3>1, <3>2
  <2> QED BY <2>1, <1>0
<1>8. Eq(F)
  BY <1>7, Zenon
<1> HIDE DEF F
<1>9. \A p \in D : F[p] = S(p)
  <2>1. \A p \in D : F[p] = IF p \in Stop THEN p ELSE F[nx[p]]
    BY <1>8, <1>0
  <2> QED BY <1>3, <2>1, WalkUnique DEF S
<1> DEFINE p == Before(l, b)
<1>10. p \in Stop /\ p \in Nat /\ \A r \in Stop : p <= r
  <2>1. p = S(XSTART)
    BY <1>0, <1>4, <1>9
  <2>2. \A r \in Stop : r >= XSTART
    BY <1>0, Addresses DEF Chain, XSTART
  <2> QED BY <1>0, <1>5, <2>1, <2>2
<1> HIDE DEF p
<1>11. l[p].next > b
  <2>1. l[p].next \in Nat /\ l[p].next # b
    BY <1>0, <1>1, <1>2, <1>10, Addresses
  <2> QED BY <1>2, <1>10, <2>1
<1>12. p < b
  <2> DEFINE T == {q \in D : q < b}
  <2>2. XSTART \in T /\ T \in SUBSET Nat /\ \A q \in T : q <= b
    BY <1>0, <1>2
  <2>3. PICK q \in T : \A r \in T : r <= q
    BY <1>2, <2>2, Greatest
  <2>4. l[q].next > q /\ q \in D /\ q \in Nat /\ l[q].next \in D \cup {EndAddress}
    BY <1>0, <1>1, <2>3
  <2>5. ~(l[q].next < b)
    <3>1. CASE l[q].next = EndAddress
      BY <3>1, <1>2, Addresses
    <3>2. CASE l[q].next \in D
      <4>1. l[q].next \in Nat
        BY <1>0, <3>2
      <4> QED BY <2>3, <2>4, <3>2, <4>1
    <3> QED BY <2>4, <3>1, <3>2
  <2>6. q \in Stop
    BY <2>4, <2>5
  <2> QED BY <1>2, <1>10, <2>3, <2>4, <2>6
<1> QED BY <1>10, <1>11, <1>12 DEF p

-----------------------------------------------------------------------------
(* A block is taken.                                                       *)

(* What pvPortMalloc makes of the headers when it takes block b, the one   *)
(* that follows p in the list.                                             *)
Taken(l, p, b, wanted) ==
  LET split == l[b].size - wanted > heapMINIMUM_BLOCK_SIZE
      size == IF split THEN wanted ELSE l[b].size
      next == IF split THEN b + wanted ELSE l[b].next
      D == DOMAIN l \cup IF split THEN {b + wanted} ELSE {}
  IN [a \in D |-> CASE a = b -> [next |-> NULL, size |-> size + MSB]
                    [] a = p -> [next |-> next, size |-> l[p].size]
                    [] a \in DOMAIN l \ {b, p} -> l[a]
                    [] OTHER -> [next |-> l[b].next, size |-> l[b].size - wanted]]

(* What follows a place of the list is a free block, or the end.           *)
LEMMA NextIs ==
  ASSUME NEW l, NEW U, Shape(l), Links(l, U), NEW p \in Chain(l, U)
  PROVE  /\ DOMAIN l \in SUBSET Nat /\ p \in DOMAIN l /\ p \in Nat
         /\ l[p].next \in DOMAIN l /\ l[p].next \in Nat /\ p < l[p].next
         /\ p # l[p].next /\ p # EndAddress
         /\ l[p].next # EndAddress => /\ l[p].next \in Chain(l, U)
                                      /\ l[p].next \in Blocks(l)
                                      /\ l[p].next \in Blocks(l) \ U
<1>1. /\ DOMAIN l \in SUBSET Nat /\ p \in DOMAIN l /\ p \in Nat
      /\ p # EndAddress /\ \A c \in Chain(l, U) : c >= XSTART
      /\ Chain(l, U) \subseteq DOMAIN l
  BY Places, Addresses DEF Shape, Chain, XSTART
<1>2. l[p].next > p /\ l[p].next \in Chain(l, U) \cup {EndAddress} /\ p >= XSTART
  BY <1>1 DEF Links
<1>3. l[p].next \in DOMAIN l /\ l[p].next \in Nat
  BY <1>1, <1>2, Addresses DEF Shape
<1>4. l[p].next # XSTART /\ p # l[p].next
  BY <1>1, <1>2, <1>3 DEF XSTART
<1> QED BY <1>1, <1>2, <1>3, <1>4 DEF Chain

(* TakeBlock forgets no header: there is none inside the block.            *)
LEMMA TakeIs ==
  ASSUME NEW l, NEW U, NEW free, Whole(l, U, free), NEW p \in Chain(l, U), l[p].next # EndAddress,
         NEW wanted \in Nat, wanted > 0, l[l[p].next].size >= wanted
  PROVE  LET b == l[p].next
             split == l[b].size - wanted > heapMINIMUM_BLOCK_SIZE
             size == IF split THEN wanted ELSE l[b].size
         IN TakeBlock([links |-> l, end |-> EndAddress, free |-> free], p, b, wanted)
              = [links |-> Taken(l, p, b, wanted), end |-> EndAddress, free |-> free - size]
<1> DEFINE b == l[p].next
           split == l[b].size - wanted > heapMINIMUM_BLOCK_SIZE
           size == IF split THEN wanted ELSE l[b].size
           next == IF split THEN b + wanted ELSE l[b].next
           h == [links |-> l, end |-> EndAddress, free |-> free]
           rest == [next |-> l[b].next, size |-> l[b].size - wanted]
           new == [l EXCEPT ![p].next = next, ![b] = [next |-> NULL, size |-> size + MSB]]
           l1 == IF split THEN Write(new, b + wanted, rest) ELSE new
           S == DOMAIN l1 \ (b + 1 .. b + size - 1)
<1>0. Shape(l) /\ Tiles(l) /\ Links(l, U)
  BY DEF Whole
<1>1. /\ DOMAIN l \in SUBSET Nat /\ p \in DOMAIN l /\ p # b /\ b \in Blocks(l) /\ b \in DOMAIN l
      /\ b \in Chain(l, U) /\ p \in Nat /\ b \in Nat /\ p < b
  BY <1>0, NextIs
<1>2. /\ l[b].size \in Nat /\ l[b].next \in Nat /\ l[b].size < MSB
      /\ l[p].size \in Nat /\ xHeapStructSize \in Nat /\ MSB \in Nat
  BY <1>0, <1>1, AlignAssumption, Width DEF Shape, Links
<1>3. Extent(l, b) = l[b].size
  BY <1>2, ModMSB DEF Extent
<1>4. \A c \in DOMAIN l : c > b => b + l[b].size <= c
  BY <1>0, <1>1, <1>3 DEF Tiles
<1>5. heapMINIMUM_BLOCK_SIZE \in Nat
  BY <1>2 DEF heapMINIMUM_BLOCK_SIZE
<1>6. split => b + wanted \notin DOMAIN l /\ wanted < l[b].size
  BY <1>1, <1>2, <1>4, <1>5
<1>7. \A a \in DOMAIN l : a \notin b + 1 .. b + size - 1
  BY <1>1, <1>2, <1>4, <1>6
<1>9. DOMAIN new = DOMAIN l
  OBVIOUS
<1> HIDE DEF new
<1>10. DOMAIN l1 = DOMAIN l \cup (IF split THEN {b + wanted} ELSE {})
  BY <1>9 DEF Write
<1>11. S = DOMAIN l \cup (IF split THEN {b + wanted} ELSE {})
  <2>1. split => b + wanted \notin b + 1 .. b + size - 1
    BY <1>1, <1>2
  <2> QED BY <1>7, <1>10, <2>1
<1>12. \A a \in DOMAIN l : l1[a] = new[a]
  BY <1>6, <1>9 DEF Write
<1>13. split => l1[b + wanted] = rest
  BY <1>9 DEF Write
<1> USE DEF new
<1>14. new[b] = [next |-> NULL, size |-> size + MSB]
  BY <1>1
<1>15. new[p] = [next |-> next, size |-> l[p].size]
  <2>1. l[p] = [next |-> l[p].next, size |-> l[p].size]
    BY <1>0, <1>1 DEF Shape
  <2>2. new[p] = [l[p] EXCEPT !.next = next]
    BY <1>1
  <2> QED BY <2>1, <2>2
<1>16. \A a \in DOMAIN l \ {b, p} : new[a] = l[a]
  BY <1>1
<1>17. TakeBlock(h, p, b, wanted)
         = [links |-> Restrict(l1, S), end |-> EndAddress, free |-> free - size]
  <2> DEFINE R == Restrict(l1, S)
  <2> HIDE DEF R
  <2>1. h.links = l /\ h.free = free
    OBVIOUS
  <2>2. TakeBlock(h, p, b, wanted) = [h EXCEPT !.links = R, !.free = free - size]
    BY <2>1, Zenon DEF TakeBlock, Forget, LeftOver, R
  <2> QED BY <2>2 DEF R
<1> HIDE DEF new
<1>18. Restrict(l1, S) = Taken(l, p, b, wanted)
  <2> DEFINE v(a) == CASE a = b -> [next |-> NULL, size |-> size + MSB]
                    [] a = p -> [next |-> next, size |-> l[p].size]
                    [] a \in DOMAIN l \ {b, p} -> l[a]
                    [] OTHER -> [next |-> l[b].next, size |-> l[b].size - wanted]
  <2> HIDE DEF l1
  <2>1. Restrict(l1, S) = [a \in S |-> l1[a]]
    BY DEF Restrict
  <2>2. Taken(l, p, b, wanted) = [a \in S |-> v(a)]
    BY <1>11 DEF Taken
  <2>3. ASSUME NEW a \in S PROVE l1[a] = v(a)
    <3>1. CASE a \in DOMAIN l
      BY <3>1, <1>12, <1>14, <1>15, <1>16
    <3>2. CASE a \notin DOMAIN l
      BY <3>2, <1>1, <1>11, <1>13
    <3> QED BY <3>1, <3>2
  <2> HIDE DEF v, S
  <2> QED BY <2>1, <2>2, <2>3
<1> QED BY <1>17, <1>18

(* The heap is whole when a block has been taken.                          *)
LEMMA TakeWhole ==
  ASSUME NEW l, NEW U, NEW free, Whole(l, U, free), NEW p \in Chain(l, U), l[p].next # EndAddress,
         NEW wanted \in Nat, wanted > 0, l[l[p].next].size >= wanted, wanted % ALIGN = 0
  PROVE  LET b == l[p].next
             split == l[b].size - wanted > heapMINIMUM_BLOCK_SIZE
             size == IF split THEN wanted ELSE l[b].size
             N == Taken(l, p, b, wanted)
         IN /\ Whole(N, U \cup {b}, free - size)
            /\ N[b].size = size + MSB
            /\ size < MSB
            /\ \A a \in U : N[a] = l[a]
            /\ b \notin U
            /\ free >= l[b].size
<1> DEFINE b == l[p].next
           split == l[b].size - wanted > heapMINIMUM_BLOCK_SIZE
           size == IF split THEN wanted ELSE l[b].size
           next == IF split THEN b + wanted ELSE l[b].next
           r == b + wanted
           e == b + l[b].size
           N == Taken(l, p, b, wanted)
           V == U \cup {b}
<1>0. Shape(l) /\ Tiles(l) /\ Links(l, U) /\ free = Total(Blocks(l) \ U, l)
  BY DEF Whole
<1>1. /\ DOMAIN l \in SUBSET Nat /\ p \in DOMAIN l /\ p # b /\ b \in Blocks(l) \ U /\ b \in DOMAIN l
      /\ b \in Chain(l, U) /\ p \in Nat /\ b \in Nat /\ p < b
  BY <1>0, NextIs
<1>2. /\ l[b].size \in Nat /\ l[b].next \in Nat /\ l[b].size < MSB /\ l[b].size > 0
      /\ l[p].size \in Nat /\ xHeapStructSize \in Nat /\ MSB \in Nat
      /\ ALIGN \in Nat /\ heapMINIMUM_BLOCK_SIZE \in Nat
  BY <1>0, <1>1, AlignAssumption, Width DEF Shape, Links, heapMINIMUM_BLOCK_SIZE
<1>3. Extent(l, b) = l[b].size
  BY <1>2, ModMSB DEF Extent
<1>4. /\ \A c \in DOMAIN l : c > b => e <= c
      /\ e \in DOMAIN l /\ e \in Nat /\ l[b].size % ALIGN = 0 /\ b % ALIGN = 0
      /\ e <= EndAddress
  <2>1. \A c \in DOMAIN l : c > b => e <= c
    BY <1>0, <1>1, <1>3 DEF Tiles
  <2>2. e \in DOMAIN l /\ l[b].size % ALIGN = 0 /\ b % ALIGN = 0
    BY <1>0, <1>1, <1>3 DEF Tiles
  <2>3. e \in Nat /\ e <= EndAddress
    BY <1>0, <1>1, <2>2, Places
  <2> QED BY <2>1, <2>2, <2>3
<1>5. split => r \notin DOMAIN l /\ r < e /\ r > b /\ r \in Nat
  BY <1>1, <1>2, <1>4
<1>6. /\ DOMAIN N = DOMAIN l \cup (IF split THEN {r} ELSE {})
      /\ N[b] = [next |-> NULL, size |-> size + MSB]
      /\ N[p] = [next |-> next, size |-> l[p].size]
      /\ \A a \in DOMAIN l \ {b, p} : N[a] = l[a]
      /\ split => N[r] = [next |-> l[b].next, size |-> l[b].size - wanted]
      /\ N = [a \in DOMAIN N |-> N[a]]
  BY <1>1, <1>5 DEF Taken
<1>7. size \in Nat /\ size > 0 /\ size < MSB /\ size <= l[b].size
  BY <1>2
<1>8. /\ XSTART # b /\ XSTART \in DOMAIN l /\ EndAddress \in DOMAIN l /\ EndAddress # b /\ EndAddress # p
      /\ EndAddress \in Nat /\ XSTART \in Nat
      /\ StartAddress \in DOMAIN l /\ XSTART < b
  BY <1>0, <1>1, NextIs, Addresses, Places DEF Shape, Blocks, XSTART
<1>9. split => r < EndAddress /\ r # XSTART /\ r > XSTART
  BY <1>1, <1>4, <1>5, <1>8
<1>10. \A a \in DOMAIN l : /\ a \in Nat /\ l[a].next \in Nat /\ l[a].size \in Nat /\ l[a].size < 2 * MSB
                           /\ l[a] = [next |-> l[a].next, size |-> l[a].size]
  BY <1>0, <1>1 DEF Shape
<1> HIDE DEF N
<1>11. Shape(N)
  <2>1. DOMAIN N \subseteq {XSTART} \cup StartAddress .. EndAddress
    <3>1. split => r \in StartAddress .. EndAddress
      BY <1>0, <1>1, <1>5, <1>8, <1>9, Addresses, Places
    <3> QED BY <1>0, <1>6, <3>1 DEF Shape
  <2>2. \A a \in DOMAIN N : /\ N[a] = [next |-> N[a].next, size |-> N[a].size]
                            /\ N[a].next \in Nat /\ N[a].size \in Nat /\ N[a].size < 2 * MSB
    <3> SUFFICES ASSUME NEW a \in DOMAIN N
                 PROVE  /\ N[a] = [next |-> N[a].next, size |-> N[a].size]
                        /\ N[a].next \in Nat /\ N[a].size \in Nat /\ N[a].size < 2 * MSB
      OBVIOUS
    <3>1. CASE a = b
      BY <3>1, <1>2, <1>6, <1>7 DEF NULL
    <3>2. CASE a = p
      BY <3>2, <1>1, <1>2, <1>6, <1>7, <1>10
    <3>3. CASE a \in DOMAIN l \ {b, p}
      BY <3>3, <1>6, <1>10
    <3>4. CASE split /\ a = r
      BY <3>4, <1>2, <1>5, <1>6
    <3> QED BY <3>1, <3>2, <3>3, <3>4, <1>6
  <2>3. N[XSTART].size = 0
    BY <1>0, <1>6, <1>8 DEF Shape
  <2>4. N[EndAddress].next = NULL /\ N[EndAddress].size = 0
    BY <1>0, <1>6, <1>8 DEF Shape
  <2> QED BY <2>1, <2>2, <2>3, <2>4, <1>6, <1>8 DEF Shape
<1>12. /\ Blocks(N) = Blocks(l) \cup (IF split THEN {r} ELSE {})
       /\ Chain(N, V) = (Chain(l, U) \ {b}) \cup (IF split THEN {r} ELSE {})
  <2>1. Blocks(N) = Blocks(l) \cup (IF split THEN {r} ELSE {})
    <3>1. split => r # EndAddress /\ r # XSTART
      BY <1>5, <1>8, <1>9
    <3>2. CASE split
      BY <3>1, <3>2, <1>6 DEF Blocks
    <3>3. CASE ~split
      BY <3>3, <1>6 DEF Blocks
    <3> QED BY <3>2, <3>3
  <2>2. split => r \notin U
    BY <1>0, <1>5 DEF Links, Blocks
  <2> QED BY <2>1, <2>2, <1>5, <1>8 DEF Chain
<1>13. \A a \in DOMAIN l \ {b} : N[a].size = l[a].size
  BY <1>6
<1>14. Tiles(N)
  <2> SUFFICES ASSUME NEW a \in Blocks(N)
               PROVE  /\ Extent(N, a) > 0 /\ Extent(N, a) % ALIGN = 0 /\ a % ALIGN = 0
                      /\ a + Extent(N, a) \in DOMAIN N
                      /\ \A c \in DOMAIN N : c > a => a + Extent(N, a) <= c
    BY DEF Tiles
  <2>1. CASE a = b
    <3>1. N[b].size = size + MSB
      BY <1>6
    <3>2. Extent(N, b) = size
      BY <3>1, <1>7, ModMSB DEF Extent
    <3>3. CASE split
      BY <2>1, <3>2, <3>3, <1>1, <1>2, <1>4, <1>5, <1>6
    <3>4. CASE ~split
      BY <2>1, <3>2, <3>4, <1>1, <1>2, <1>4, <1>6
    <3> QED BY <3>3, <3>4
  <2>2. CASE split /\ a = r
    <3>1. N[r].size = l[b].size - wanted /\ l[b].size - wanted \in Nat /\ l[b].size - wanted < MSB
          /\ l[b].size - wanted > 0
      BY <2>2, <1>2, <1>6, <1>5
    <3>2. Extent(N, r) = l[b].size - wanted
      BY <3>1, ModMSB DEF Extent
    <3>3. (l[b].size - wanted) % ALIGN = 0 /\ r % ALIGN = 0
      BY <1>1, <1>2, <1>4, Aligned
    <3>4. r + (l[b].size - wanted) = e
      BY <1>1, <1>2
    <3>5. \A c \in DOMAIN N : c > r => e <= c
      BY <1>1, <1>4, <1>5, <1>6, <2>2
    <3> QED BY <2>2, <3>1, <3>2, <3>3, <3>4, <3>5, <1>4, <1>6
  <2>3. CASE a \in Blocks(l) \ {b}
    <3>1. Extent(N, a) = Extent(l, a) /\ a \in DOMAIN l /\ a \in Nat
      BY <2>3, <1>1, <1>13 DEF Extent, Blocks
    <3>2. /\ Extent(l, a) > 0 /\ Extent(l, a) % ALIGN = 0 /\ a % ALIGN = 0
          /\ a + Extent(l, a) \in DOMAIN l
          /\ \A c \in DOMAIN l : c > a => a + Extent(l, a) <= c
      BY <1>0, <2>3 DEF Tiles
    <3>3. a + Extent(l, a) \in Nat
      BY <1>1, <3>2
    <3>4. split /\ r > a => a + Extent(l, a) <= r
      <4>1. CASE a < b
        BY <4>1, <1>1, <1>5, <3>2, <3>3
      <4>2. CASE ~(a < b)
        <5>1. a > b
          BY <4>2, <3>1, <1>1, <2>3
        <5> QED BY <5>1, <1>4, <1>5, <3>1
      <4> QED BY <4>1, <4>2
    <3> QED BY <1>6, <3>1, <3>2, <3>4
  <2> QED BY <1>12, <2>1, <2>2, <2>3
<1>15. \A a \in Chain(l, U) : /\ a \in DOMAIN l /\ a \in Nat
                              /\ l[a].next > a
                              /\ l[a].next \in Chain(l, U) \cup {EndAddress}
                              /\ \A c \in Chain(l, U) : c > a => l[a].next <= c
                              /\ l[a].size < MSB
                              /\ a + l[a].size \notin Chain(l, U) \ {a}
                              /\ l[a].next \in DOMAIN l /\ l[a].next \in Nat
  BY <1>0, NextIs DEF Links
<1>16. \A a \in Chain(l, U) : /\ a < b => a + l[a].size <= b
                              /\ split => a + l[a].size # r
  <2> SUFFICES ASSUME NEW a \in Chain(l, U), a < b \/ split
               PROVE  (a < b => a + l[a].size <= b) /\ (split => a + l[a].size # r)
    OBVIOUS
  <2>1. CASE a = XSTART
    <3>1. a + l[a].size = XSTART
      BY <2>1, <1>0, <1>8 DEF Shape
    <3> QED BY <3>1, <1>1, <1>8, <1>9
  <2>2. CASE a \in Blocks(l)
    <3>1. Extent(l, a) = l[a].size
      BY <1>10, <1>15, ModMSB DEF Extent
    <3>2. a + l[a].size \in DOMAIN l
      BY <1>0, <2>2, <3>1 DEF Tiles
    <3>3. a < b => a + l[a].size <= b
      BY <1>0, <1>1, <2>2, <3>1 DEF Tiles
    <3> QED BY <3>2, <3>3, <1>5
  <2> QED BY <2>1, <2>2 DEF Chain
<1>17. Links(N, V)
  <2>1. V \subseteq Blocks(N)
    BY <1>0, <1>1, <1>12 DEF Links
  <2>2. \A u \in V : N[u].next = NULL
    <3> SUFFICES ASSUME NEW u \in U PROVE N[u].next = NULL
      BY <1>6
    <3>1. u \in DOMAIN l /\ u # p /\ u # b /\ l[u].next = NULL
      BY <1>0, <1>1, Places DEF Links, Blocks, Chain
    <3> QED BY <3>1, <1>6
  <2>3. ASSUME NEW a \in Chain(N, V)
        PROVE  /\ N[a].next > a
               /\ N[a].next \in Chain(N, V) \cup {EndAddress}
               /\ \A c \in Chain(N, V) : c > a => N[a].next <= c
               /\ N[a].size < MSB
               /\ a + N[a].size \notin Chain(N, V) \ {a}
    <3>0. l[b].next # b /\ l[b].next \in Chain(l, U) \cup {EndAddress} /\ l[b].next >= e /\ l[b].next > b
      BY <1>1, <1>4, <1>15
    <3>1. CASE a = p
      <4>1. N[a].next = next /\ N[a].size = l[p].size
        BY <3>1, <1>6
      <4>2. ASSUME NEW c \in Chain(l, U) \ {b}, c > p
            PROVE  c > b /\ l[b].next <= c /\ e <= c
        <5>1. c \in DOMAIN l /\ c \in Nat /\ b <= c
          BY <4>2, <1>1, <1>15
        <5>2. c > b
          BY <5>1, <1>1, <4>2
        <5> QED BY <5>1, <5>2, <1>1, <1>4, <1>15
      <4>3. CASE split
        <5>1. r > p /\ N[a].next = r
          BY <4>1, <4>3, <1>1, <1>5
        <5>2. ASSUME NEW c \in Chain(N, V), c > p PROVE r <= c
          <6>1. CASE c = r
            BY <6>1, <4>3, <1>5
          <6>2. CASE c \in Chain(l, U) \ {b}
            <7>1. e <= c /\ c \in Nat
              BY <6>2, <4>2, <5>2, <1>15
            <7> HIDE DEF r, e
            <7> QED BY <7>1, <4>3, <1>4, <1>5
          <6> QED BY <6>1, <6>2, <1>12
        <5>3. p + l[p].size # r /\ p + l[p].size \notin Chain(l, U) \ {p}
          BY <4>3, <1>1, <1>15, <1>16
        <5>4. l[p].size < MSB
          BY <1>1, <1>15
        <5> QED BY <3>1, <4>1, <4>3, <5>1, <5>2, <5>3, <5>4, <1>12
      <4>4. CASE ~split
        <5>1. N[a].next = l[b].next /\ l[b].next > p
          BY <4>1, <4>4, <3>0, <1>1, <1>2
        <5>2. ASSUME NEW c \in Chain(N, V), c > p PROVE l[b].next <= c
          BY <4>2, <4>4, <5>2, <1>12
        <5>3. p + l[p].size \notin Chain(l, U) \ {p} /\ l[p].size < MSB
          BY <1>1, <1>15
        <5> QED BY <3>0, <3>1, <4>1, <4>4, <5>1, <5>2, <5>3, <1>12
      <4> QED BY <4>3, <4>4
    <3>2. CASE split /\ a = r
      <4>1. N[a].next = l[b].next /\ N[a].size = l[b].size - wanted
        BY <3>2, <1>6
      <4>2. a + N[a].size = e
        BY <3>2, <4>1, <1>1, <1>2
      <4>3. e \notin Chain(l, U) \ {b} /\ e # r /\ e # b
        BY <1>1, <1>2, <1>15, <1>5, <3>2
      <4>4. l[b].next > r
        BY <3>0, <3>2, <1>5, <1>4, <1>2
      <4>5. ASSUME NEW c \in Chain(N, V), c > r PROVE l[b].next <= c
        <5>1. c \in Chain(l, U) /\ c \in Nat
          <6>1. c # r
            BY <4>5, <3>2, <1>5
          <6>2. c \in Chain(l, U)
            BY <6>1, <4>5, <1>12
          <6> QED BY <6>2, <1>15
        <5>2. c > b
          BY <5>1, <4>5, <3>2, <1>1, <1>5
        <5> QED BY <5>1, <5>2, <1>1, <1>15
      <4>6. l[b].size - wanted < MSB
        BY <1>2
      <4> QED BY <3>0, <3>2, <4>1, <4>2, <4>3, <4>4, <4>5, <4>6, <1>12
    <3>3. CASE a \in Chain(l, U) \ {b, p}
      <4>1. N[a] = l[a] /\ a \in Nat
        BY <3>3, <1>6, <1>15
      <4>2. l[a].next # b
        <5>1. CASE a < p
          BY <5>1, <3>3, <1>1, <1>15
        <5>2. CASE ~(a < p)
          <6>1. a > p
            BY <5>2, <3>3, <4>1, <1>1
          <6>2. b <= a
            BY <6>1, <3>3, <1>15
          <6> QED BY <6>2, <3>3, <1>15, <4>1, <1>1
        <5> QED BY <5>1, <5>2
      <4>3. split /\ r > a => l[a].next <= r
        <5>1. CASE a < b
          BY <5>1, <3>3, <1>1, <1>5, <1>15
        <5>2. CASE ~(a < b)
          <6>1. a > b
            BY <5>2, <3>3, <4>1, <1>1
          <6> QED BY <6>1, <3>3, <1>4, <1>5, <1>15, <4>1
        <5> QED BY <5>1, <5>2
      <4>4. a + l[a].size \notin Chain(N, V) \ {a}
        BY <3>3, <1>12, <1>15, <1>16
      <4>5. \A c \in Chain(N, V) : c > a => l[a].next <= c
        BY <3>3, <4>3, <1>12, <1>15
      <4> QED BY <3>3, <4>1, <4>2, <4>4, <4>5, <1>12, <1>15
    <3> QED BY <3>1, <3>2, <3>3, <1>12
  <2> QED BY <2>1, <2>2, <2>3 DEF Links
<1>18. free - size = Total(Blocks(N) \ V, N) /\ free >= l[b].size
  <2> DEFINE B == Blocks(l) \ U
  <2>1. IsFiniteSet(B) /\ \A a \in B : l[a].size \in Nat /\ a \in DOMAIN l
    <3>1. IsFiniteSet(DOMAIN l)
      BY <1>0, Places
    <3>2. B \subseteq DOMAIN l
      BY DEF Blocks
    <3> QED BY <3>1, <3>2, <1>10, FS_Subset
  <2> HIDE DEF B
  <2>2. b \in B
    BY <1>1 DEF B
  <2>3. /\ free = l[b].size + Total(B \ {b}, l)
        /\ Total(B \ {b}, l) \in Nat
    <3>1. free = Total(B, l)
      BY <1>0 DEF B
    <3> QED BY <3>1, <2>1, <2>2, TotalSplit
  <2>4. Total(B \ {b}, N) = Total(B \ {b}, l)
    <3>1. \A a \in B \ {b} : N[a].size = l[a].size
      BY <2>1, <1>13
    <3> QED BY <3>1, TotalSame
  <2>5. CASE split
    <3> DEFINE C == Blocks(N) \ V
    <3>1. C \ {r} = B \ {b} /\ r \in C
      <4>1. r \notin U /\ r \notin Blocks(l) /\ r # b
        BY <2>5, <1>0, <1>1, <1>5 DEF Links, Blocks
      <4> QED BY <2>5, <4>1, <1>12 DEF B
    <3>2. IsFiniteSet(C) /\ \A a \in C : N[a].size \in Nat
      <4>1. IsFiniteSet(DOMAIN N) /\ C \subseteq DOMAIN N
        BY <1>11, <1>17, Places DEF Blocks
      <4> QED BY <4>1, <1>11, FS_Subset DEF Shape
    <3> HIDE DEF C
    <3>3. Total(C, N) = N[r].size + Total(C \ {r}, N)
      BY <3>1, <3>2, TotalSplit
    <3>4. Total(C, N) = (l[b].size - wanted) + Total(B \ {b}, l)
      <4>1. N[r].size = l[b].size - wanted
        BY <2>5, <1>6
      <4>2. Total(C \ {r}, N) = Total(B \ {b}, l)
        BY <3>1, <2>4
      <4> QED BY <3>3, <4>1, <4>2
    <3> HIDE DEF r, b
    <3> QED BY <2>3, <2>5, <3>4, <1>2 DEF C
  <2>6. CASE ~split
    <3>1. Blocks(N) \ V = B \ {b}
      BY <2>6, <1>12 DEF B
    <3>2. Total(Blocks(N) \ V, N) = Total(B \ {b}, l)
      BY <3>1, <2>4
    <3> HIDE DEF b
    <3> QED BY <2>3, <2>6, <3>2, <1>2
  <2> QED BY <2>5, <2>6
<1>19. \A a \in U : N[a] = l[a]
  <2> SUFFICES ASSUME NEW a \in U PROVE N[a] = l[a]
    OBVIOUS
  <2>1. a \in DOMAIN l /\ a # p /\ a # b
    BY <1>0, <1>1, Places DEF Links, Blocks, Chain
  <2> QED BY <2>1, <1>6
<1>20. Whole(N, V, free - size)
  BY <1>11, <1>14, <1>17, <1>18 DEF Whole
<1>21. N[b].size = size + MSB
  BY <1>6
<1> QED BY <1>1, <1>7, <1>18, <1>19, <1>20, <1>21 DEF N

-----------------------------------------------------------------------------
(* A block comes back.                                                     *)

(* What InsertBlock makes of the list, with p the place before b.          *)
Joined(l, p, b) ==
  LET merged == p + l[p].size = b
      into == IF merged THEN p ELSE b
      n == l[p].next
      meets == b + l[b].size = n /\ n # EndAddress
      D == DOMAIN l \ ((IF merged THEN {b} ELSE {}) \cup (IF meets THEN {n} ELSE {}))
  IN [a \in D |-> IF a = into
                  THEN [next |-> IF meets THEN l[n].next ELSE n,
                        size |-> (IF merged THEN l[p].size ELSE 0) + l[b].size
                                   + (IF meets THEN l[n].size ELSE 0)]
                  ELSE IF a = p THEN [next |-> b, size |-> l[p].size] ELSE l[a]]

(* The places that insertion is about.                                     *)
Between(l, U, p, b) ==
  /\ Shape(l) /\ Tiles(l) /\ Links(l, U)
  /\ b \in U /\ l[b].size < MSB
  /\ p \in Chain(l, U) /\ p < b /\ l[p].next > b

(* Where the blocks around b begin and end.                                *)
LEMMA BetweenFacts ==
  ASSUME NEW l, NEW U, NEW p, NEW b, Between(l, U, p, b)
  PROVE  LET n == l[p].next
             e == b + l[b].size
             merged == p + l[p].size = b
             meets == e = n /\ n # EndAddress
         IN /\ p \in DOMAIN l /\ b \in Blocks(l) /\ b \in DOMAIN l /\ n \in DOMAIN l
            /\ p \in Nat /\ b \in Nat /\ n \in Nat /\ l[p].size \in Nat /\ l[b].size \in Nat
            /\ l[b].size > 0 /\ l[n].size \in Nat /\ l[n].next \in Nat
            /\ p < b /\ b < n /\ l[b].size % ALIGN = 0
            /\ e \in DOMAIN l /\ e \in Nat /\ e <= n /\ e <= EndAddress
            /\ \A c \in DOMAIN l : c > b => e <= c
            /\ p + l[p].size <= b
            /\ merged => /\ p \in Blocks(l) \ U /\ \A c \in DOMAIN l : c > p => b <= c
                         /\ l[p].size > 0 /\ l[p].size % ALIGN = 0
            /\ meets => /\ n \in Blocks(l) \ U /\ n \in Chain(l, U) /\ l[n].size > 0
                        /\ l[n].size % ALIGN = 0
                        /\ n + l[n].size \in DOMAIN l /\ n + l[n].size \in Nat
                        /\ n + l[n].size <= EndAddress
                        /\ \A c \in DOMAIN l : c > n => n + l[n].size <= c
<1> DEFINE n == l[p].next
           e == b + l[b].size
<1>0. /\ Shape(l) /\ Tiles(l) /\ Links(l, U) /\ b \in U /\ l[b].size < MSB
      /\ p \in Chain(l, U) /\ p < b /\ n > b
  BY DEF Between
<1>1. /\ DOMAIN l \in SUBSET Nat /\ p \in DOMAIN l /\ p \in Nat /\ n \in DOMAIN l /\ n \in Nat
      /\ n # EndAddress => n \in Chain(l, U) /\ n \in Blocks(l) \ U
  BY <1>0, NextIs
<1>2. b \in Blocks(l) /\ b \in DOMAIN l /\ b \in Nat
  BY <1>0, <1>1 DEF Links, Blocks
<1>3. \A a \in DOMAIN l : l[a].size \in Nat /\ l[a].next \in Nat /\ a <= EndAddress
  BY <1>0, Places DEF Shape
<1>4. \A a \in Blocks(l) : l[a].size < MSB => /\ l[a].size > 0
                                              /\ l[a].size % ALIGN = 0
                                              /\ a \in DOMAIN l
                                              /\ a + l[a].size \in DOMAIN l
                                              /\ a + l[a].size \in Nat
                                              /\ a + l[a].size <= EndAddress
                                              /\ \A c \in DOMAIN l : c > a => a + l[a].size <= c
  <2> SUFFICES ASSUME NEW a \in Blocks(l), l[a].size < MSB
               PROVE  /\ l[a].size > 0
                      /\ l[a].size % ALIGN = 0
                      /\ a \in DOMAIN l
                      /\ a + l[a].size \in DOMAIN l
                      /\ a + l[a].size \in Nat
                      /\ a + l[a].size <= EndAddress
                      /\ \A c \in DOMAIN l : c > a => a + l[a].size <= c
    OBVIOUS
  <2>1. a \in DOMAIN l
    BY DEF Blocks
  <2>2. Extent(l, a) = l[a].size
    BY <1>3, <2>1, ModMSB DEF Extent
  <2>3. /\ l[a].size > 0 /\ l[a].size % ALIGN = 0 /\ a + l[a].size \in DOMAIN l
        /\ \A c \in DOMAIN l : c > a => a + l[a].size <= c
    BY <1>0, <2>2 DEF Tiles
  <2> QED BY <1>1, <1>3, <2>1, <2>3
<1>5. \A a \in Chain(l, U) : l[a].size < MSB
  BY <1>0 DEF Links
<1>6. p + l[p].size <= b
  <2>1. CASE p = XSTART
    BY <2>1, <1>0, <1>1, <1>2 DEF Shape
  <2>2. CASE p \in Blocks(l)
    BY <2>2, <1>0, <1>2, <1>4, <1>5
  <2> QED BY <1>0, <2>1, <2>2 DEF Chain
<1>7. p + l[p].size = b => p \in Blocks(l) \ U
  <2>1. p = XSTART => p + l[p].size = p
    BY <1>0, <1>1 DEF Shape
  <2> QED BY <1>0, <1>1, <1>2, <2>1 DEF Chain
<1>8. p + l[p].size = b => /\ \A c \in DOMAIN l : c > p => b <= c
                           /\ l[p].size > 0 /\ l[p].size % ALIGN = 0
  BY <1>0, <1>4, <1>5, <1>7
<1>9. /\ l[b].size > 0 /\ l[b].size % ALIGN = 0 /\ e \in DOMAIN l /\ e \in Nat /\ e <= EndAddress
      /\ \A c \in DOMAIN l : c > b => e <= c
  BY <1>0, <1>2, <1>4
<1>10. e <= n
  BY <1>0, <1>1, <1>9
<1>11. n # EndAddress => /\ l[n].size > 0 /\ l[n].size % ALIGN = 0
                         /\ n + l[n].size \in DOMAIN l /\ n + l[n].size \in Nat
                         /\ n + l[n].size <= EndAddress
                         /\ \A c \in DOMAIN l : c > n => n + l[n].size <= c
  BY <1>1, <1>4, <1>5
<1> QED BY <1>0, <1>1, <1>2, <1>3, <1>6, <1>7, <1>8, <1>9, <1>10, <1>11

(* No header is inside another block.                                      *)
LEMMA NotInside ==
  ASSUME NEW l, NEW U, Shape(l), Tiles(l), Links(l, U),
         NEW a \in DOMAIN l, NEW c \in DOMAIN l, a # c
  PROVE  a \notin c .. c + Extent(l, c) - 1
<1>1. a \in Nat /\ c \in Nat /\ l[c].size \in Nat /\ Extent(l, c) \in Nat
  BY Places, ModMSB DEF Shape, Extent
<1>2. CASE c \in {XSTART, EndAddress}
  <2>1. Extent(l, c) = 0
    BY <1>2, Width, ModMSB DEF Shape, Extent
  <2> QED BY <1>1, <2>1
<1>3. CASE c \in Blocks(l)
  BY <1>1, <1>3 DEF Tiles
<1> QED BY <1>2, <1>3 DEF Blocks

(* Inserted and Tidy leave just the headers of Joined.                     *)
LEMMA InsertIs ==
  ASSUME NEW l, NEW U, NEW p, NEW b, Between(l, U, p, b), pxEnd = EndAddress
  PROVE  Tidy(Inserted(l, p, b)) = Joined(l, p, b)
<1> DEFINE n == l[p].next
           e == b + l[b].size
           merged == p + l[p].size = b
           meets == e = n /\ n # EndAddress
           into == IF merged THEN p ELSE b
           size == (IF merged THEN l[p].size ELSE 0) + l[b].size + (IF meets THEN l[n].size ELSE 0)
           next == IF meets THEN l[n].next ELSE n
           gone == (IF merged THEN {b} ELSE {}) \cup (IF meets THEN {n} ELSE {})
           v(a) == IF a = into THEN [next |-> next, size |-> size]
                   ELSE IF a = p THEN [next |-> b, size |-> l[p].size] ELSE l[a]
           K == [a \in DOMAIN l |-> v(a)]
<1>0. Shape(l) /\ Tiles(l) /\ Links(l, U)
  BY DEF Between
<1>1. /\ p \in DOMAIN l /\ b \in Blocks(l) /\ b \in DOMAIN l /\ n \in DOMAIN l
      /\ p \in Nat /\ b \in Nat /\ n \in Nat /\ l[p].size \in Nat /\ l[b].size \in Nat
      /\ l[b].size > 0 /\ l[n].size \in Nat /\ l[n].next \in Nat
      /\ p < b /\ b < n
      /\ e \in DOMAIN l /\ e \in Nat /\ e <= n /\ e <= EndAddress
      /\ \A c \in DOMAIN l : c > b => e <= c
      /\ p + l[p].size <= b
      /\ merged => /\ p \in Blocks(l) \ U /\ \A c \in DOMAIN l : c > p => b <= c
                   /\ l[p].size > 0
      /\ meets => /\ n \in Blocks(l) \ U /\ n \in Chain(l, U) /\ l[n].size > 0
                  /\ n + l[n].size \in DOMAIN l /\ n + l[n].size \in Nat
                  /\ n + l[n].size <= EndAddress
                  /\ \A c \in DOMAIN l : c > n => n + l[n].size <= c
  BY BetweenFacts
<1>2. \A a \in DOMAIN l : l[a] = [next |-> l[a].next, size |-> l[a].size]
  BY <1>0 DEF Shape
<1>3. Inserted(l, p, b) = K
  <2> DEFINE l1 == IF merged THEN [l EXCEPT ![p].size = @ + l[b].size] ELSE l
             meets1 == into + l1[into].size = n /\ n # pxEnd
             l2 == IF meets1
                   THEN [l1 EXCEPT ![into] = [next |-> l1[n].next, size |-> @.size + l1[n].size]]
                   ELSE [l1 EXCEPT ![into].next = n]
             l3 == IF merged THEN l2 ELSE [l2 EXCEPT ![p].next = b]
  <2>1. Inserted(l, p, b) = l3
    BY DEF Inserted
  <2>2. DOMAIN l1 = DOMAIN l /\ \A a \in DOMAIN l \ {into} : l1[a] = l[a]
    <3>1. CASE merged
      BY <3>1
    <3>2. CASE ~merged
      BY <3>2
    <3> QED BY <3>1, <3>2
  <2>3. l1[into] = [next |-> l[into].next,
                    size |-> (IF merged THEN l[p].size ELSE 0) + l[b].size]
    <3>1. CASE merged
      <4>1. l[p] = [next |-> l[p].next, size |-> l[p].size]
        BY <1>1, <1>2
      <4>2. l1[p] = [l[p] EXCEPT !.size = l[p].size + l[b].size]
        BY <3>1, <1>1
      <4> QED BY <3>1, <4>1, <4>2
    <3>2. CASE ~merged
      <4>1. l[b] = [next |-> l[b].next, size |-> l[b].size]
        BY <1>1, <1>2
      <4>2. 0 + l[b].size = l[b].size
        BY <1>1
      <4> QED BY <3>2, <4>1, <4>2
    <3> QED BY <3>1, <3>2
  <2>4. into \in DOMAIN l /\ into # n /\ (~merged => into # p)
    BY <1>1
  <2>5. l1[n] = l[n]
    BY <1>1, <2>2, <2>4
  <2>6. into + l1[into].size = e
    BY <1>1, <2>3
  <2>7. meets1 <=> meets
    BY <2>6
  <2> HIDE DEF l1
  <2>8. /\ DOMAIN l2 = DOMAIN l /\ \A a \in DOMAIN l \ {into} : l2[a] = l[a]
        /\ l2[into] = [next |-> next, size |-> size]
    <3>1. CASE meets
      <4>1. l2 = [l1 EXCEPT ![into] = [next |-> l[n].next, size |-> l1[into].size + l[n].size]]
        BY <3>1, <2>5, <2>7
      <4>2. l1[into].size + l[n].size = size
        BY <3>1, <2>3
      <4> HIDE DEF l2, into, size
      <4> QED BY <3>1, <2>2, <2>4, <4>1, <4>2
    <3>2. CASE ~meets
      <4>1. l2 = [l1 EXCEPT ![into].next = n]
        BY <3>2, <2>7
      <4>2. l1[into].size = size
        BY <3>2, <1>1, <2>3
      <4>3. l1[into] = [next |-> l1[into].next, size |-> size]
        BY <2>3, <4>2
      <4>4. l2[into] = [l1[into] EXCEPT !.next = n]
        BY <4>1, <2>2, <2>4
      <4>5. l2[into] = [next |-> n, size |-> size]
        BY <4>3, <4>4
      <4> HIDE DEF l2, into, size
      <4> QED BY <3>2, <2>2, <2>4, <4>1, <4>5
    <3> QED BY <3>1, <3>2
  <2>9. l2 = [a \in DOMAIN l2 |-> l2[a]]
    <3>1. CASE meets
      BY <3>1, <2>7
    <3>2. CASE ~meets
      BY <3>2, <2>7
    <3> QED BY <3>1, <3>2
  <2> HIDE DEF l2
  <2>10. DOMAIN l3 = DOMAIN l /\ l3 = [a \in DOMAIN l3 |-> l3[a]]
    <3>1. CASE merged
      BY <3>1, <2>8, <2>9
    <3>2. CASE ~merged
      BY <3>2, <2>8
    <3> QED BY <3>1, <3>2
  <2>11. \A a \in DOMAIN l : l3[a] = v(a)
    <3>1. CASE merged
      BY <3>1, <2>8
    <3>2. CASE ~merged
      <4>1. l[p] = [next |-> l[p].next, size |-> l[p].size] /\ l2[p] = l[p]
        BY <3>2, <1>1, <1>2, <2>4, <2>8
      <4>2. l3[p] = [l2[p] EXCEPT !.next = b]
        BY <3>2, <1>1, <2>8
      <4>3. l3[p] = [next |-> b, size |-> l[p].size]
        BY <4>1, <4>2
      <4>4. \A a \in DOMAIN l \ {p} : l3[a] = l2[a]
        BY <3>2, <2>8
      <4> HIDE DEF l3
      <4> QED BY <3>2, <2>4, <2>8, <4>3, <4>4
    <3> QED BY <3>1, <3>2
  <2> HIDE DEF l3, v
  <2> QED BY <2>1, <2>10, <2>11
<1> DEFINE X == into + size
<1>4. X = (IF meets THEN n + l[n].size ELSE e) /\ into \in Nat /\ size \in Nat
  BY <1>1
<1>5. into \in Blocks(l) /\ into <= b /\ into \in DOMAIN l
  BY <1>1
<1>6. size < MSB
  <2>1. StartAddress <= into /\ X <= EndAddress
    BY <1>0, <1>1, <1>4, <1>5, Places
  <2> HIDE DEF into, size
  <2> QED BY <2>1, <1>4, Addresses, Width
<1>7. size % MSB = size
  BY <1>4, <1>6, ModMSB
<1>8. \A c \in DOMAIN l \ {into} : K[c].size = l[c].size
  BY <1>1
<1>9. K[into].size = size
  BY <1>5
<1>10. ASSUME NEW a \in DOMAIN l \ (gone \cup {into}) PROVE a \notin into .. X - 1
  <2>0. a \in Nat
    BY <1>0, Places
  <2>1. a > into => a > b
    BY <2>0, <1>1, <1>10
  <2>2. a > b => e <= a
    BY <1>1, <1>10
  <2>3. meets /\ a > b => a > n
    BY <2>0, <2>2, <1>1, <1>10
  <2>4. a > into => X <= a
    BY <2>1, <2>2, <2>3, <1>1, <1>4, <1>10
  <2>5. into # a /\ X \in Nat
    BY <1>4, <1>10
  <2> HIDE DEF X, into
  <2> QED BY <2>0, <2>4, <2>5, <1>4
<1>11. ASSUME NEW a \in gone PROVE a \in DOMAIN l \ {into} /\ a \in into .. X - 1
  <2>1. CASE merged /\ a = b
    BY <2>1, <1>1, <1>4
  <2>2. CASE meets /\ a = n
    BY <2>2, <1>1, <1>4
  <2> QED BY <2>1, <2>2, <1>11
<1>12. DOMAIN K = DOMAIN l /\ K = [a \in DOMAIN l |-> K[a]]
  OBVIOUS
<1> HIDE DEF K, X, size, gone, into
<1>21. into .. into + (K[into].size % MSB) - 1 = into .. X - 1
  <2>1. K[into].size % MSB = size
    BY <1>7, <1>9
  <2> QED BY <2>1, <1>4 DEF X
<1>13. {a \in DOMAIN K : \A c \in DOMAIN K \ {a} : a \notin c .. c + (K[c].size % MSB) - 1}
         = DOMAIN l \ gone
  <2>1. ASSUME NEW a \in DOMAIN l \ gone, NEW c \in DOMAIN l \ {a}
        PROVE  a \notin c .. c + (K[c].size % MSB) - 1
    <3>1. CASE c = into
      BY <2>1, <3>1, <1>10, <1>21
    <3>2. CASE c # into
      <4>1. K[c].size % MSB = Extent(l, c)
        BY <3>2, <1>8 DEF Extent
      <4>2. a \notin c .. c + Extent(l, c) - 1
        BY <1>0, NotInside
      <4> QED BY <4>1, <4>2
    <3> QED BY <3>1, <3>2
  <2>2. ASSUME NEW a \in gone
        PROVE  \E c \in DOMAIN l \ {a} : a \in c .. c + (K[c].size % MSB) - 1
    BY <2>2, <1>5, <1>11, <1>21
  <2> QED BY <1>12, <2>1, <2>2
<1>14. Tidy(K) = [a \in DOMAIN l \ gone |-> K[a]]
  BY <1>13 DEF Tidy, Restrict
<1> USE DEF K, gone, into, size
<1>15. Joined(l, p, b) = [a \in DOMAIN l \ gone |-> K[a]]
  <2>1. Joined(l, p, b) = [a \in DOMAIN l \ gone |-> v(a)]
    BY DEF Joined
  <2> HIDE DEF v, gone
  <2> QED BY <2>1
<1> QED BY <1>3, <1>14, <1>15

(* The headers of a set of blocks are as they were.                        *)
Keeps(k, l, S) == \A a \in S : k[a] = l[a]

(* The heap is whole when a block has come back, merged with the block     *)
(* before it, the one after it, both or neither.                           *)
LEMMA InsertWhole ==
  ASSUME NEW l, NEW U, NEW free, Whole(l, U, free), NEW p, NEW b, Between(l, U, p, b)
  PROVE  /\ Whole(Joined(l, p, b), U \ {b}, free + l[b].size)
         /\ Keeps(Joined(l, p, b), l, U \ {b})
<1> DEFINE n == l[p].next
           e == b + l[b].size
           merged == p + l[p].size = b
           meets == e = n /\ n # EndAddress
           into == IF merged THEN p ELSE b
           size == (IF merged THEN l[p].size ELSE 0) + l[b].size + (IF meets THEN l[n].size ELSE 0)
           next == IF meets THEN l[n].next ELSE n
           gone == (IF merged THEN {b} ELSE {}) \cup (IF meets THEN {n} ELSE {})
           J == Joined(l, p, b)
           V == U \ {b}
           X == IF meets THEN n + l[n].size ELSE e
           Add == IF merged THEN {} ELSE {b}
           Del == IF meets THEN {n} ELSE {}
<1>0. /\ Shape(l) /\ Tiles(l) /\ Links(l, U) /\ free = Total(Blocks(l) \ U, l)
      /\ b \in U /\ p \in Chain(l, U) /\ l[b].size < MSB
  BY DEF Whole, Between
<1>1. /\ p \in DOMAIN l /\ b \in Blocks(l) /\ b \in DOMAIN l /\ n \in DOMAIN l
      /\ p \in Nat /\ b \in Nat /\ n \in Nat /\ l[p].size \in Nat /\ l[b].size \in Nat
      /\ l[b].size > 0 /\ l[n].size \in Nat /\ l[n].next \in Nat
      /\ p < b /\ b < n /\ l[b].size % ALIGN = 0
      /\ e \in DOMAIN l /\ e \in Nat /\ e <= n /\ e <= EndAddress
      /\ \A c \in DOMAIN l : c > b => e <= c
      /\ p + l[p].size <= b
      /\ merged => /\ p \in Blocks(l) \ U /\ \A c \in DOMAIN l : c > p => b <= c
                   /\ l[p].size > 0 /\ l[p].size % ALIGN = 0
      /\ meets => /\ n \in Blocks(l) \ U /\ n \in Chain(l, U) /\ l[n].size > 0
                  /\ l[n].size % ALIGN = 0
                  /\ n + l[n].size \in DOMAIN l /\ n + l[n].size \in Nat
                  /\ n + l[n].size <= EndAddress
                  /\ \A c \in DOMAIN l : c > n => n + l[n].size <= c
  BY BetweenFacts
<1>2. \A a \in DOMAIN l : /\ l[a] = [next |-> l[a].next, size |-> l[a].size]
                          /\ a \in Nat /\ l[a].next \in Nat /\ l[a].size \in Nat /\ l[a].size < 2 * MSB
  BY <1>0, Places DEF Shape
<1>3. /\ into \in Blocks(l) /\ into \in Nat /\ into <= b /\ into \in DOMAIN l /\ into # XSTART
      /\ size \in Nat /\ size > 0 /\ next \in Nat /\ X = into + size /\ X \in DOMAIN l /\ X \in Nat
      /\ X > b /\ X <= EndAddress /\ X >= e
  BY <1>0, <1>1 DEF Blocks
<1>4. size < MSB
  <2>1. StartAddress <= into
    BY <1>0, <1>3, Places
  <2> HIDE DEF into, size, X
  <2> QED BY <2>1, <1>3, Addresses, Width
<1>5. size % ALIGN = 0
  <2>1. l[p].size + l[b].size \in Nat /\ (merged => (l[p].size + l[b].size) % ALIGN = 0)
    BY <1>1, Aligned
  <2>2. meets => (l[b].size + l[n].size) % ALIGN = 0
    BY <1>1, Aligned
  <2>3. merged /\ meets => ((l[p].size + l[b].size) + l[n].size) % ALIGN = 0
    BY <1>1, <2>1, Aligned
  <2>4. CASE merged /\ meets
    <3>1. size = (l[p].size + l[b].size) + l[n].size
      BY <2>4, <1>1
    <3> QED BY <2>3, <2>4, <3>1
  <2>5. CASE merged /\ ~meets
    <3>1. size = l[p].size + l[b].size
      BY <2>5, <1>1
    <3> QED BY <2>1, <2>5, <3>1
  <2>6. CASE ~merged /\ meets
    <3>1. size = l[b].size + l[n].size
      BY <2>6, <1>1
    <3> QED BY <2>2, <2>6, <3>1
  <2>7. CASE ~merged /\ ~meets
    <3>1. size = l[b].size
      BY <2>7, <1>1
    <3> QED BY <1>1, <3>1
  <2> QED BY <2>4, <2>5, <2>6, <2>7
<1>6. /\ DOMAIN J = DOMAIN l \ gone
      /\ J[into] = [next |-> next, size |-> size]
      /\ ~merged => J[p] = [next |-> b, size |-> l[p].size]
      /\ \A a \in DOMAIN l \ (gone \cup {into, p}) : J[a] = l[a]
      /\ J = [a \in DOMAIN J |-> J[a]]
      /\ into \notin gone /\ p \notin gone
  BY <1>1 DEF Joined
<1>7. \A a \in gone : a \in Blocks(l)
  BY <1>1
<1>8. EndAddress \notin gone /\ EndAddress # into /\ EndAddress # p /\ EndAddress \in DOMAIN l
      /\ XSTART \notin gone /\ XSTART \in DOMAIN l /\ StartAddress \in DOMAIN l
  <2>1. EndAddress # p
    BY <1>0, Places
  <2> QED BY <2>1, <1>0, <1>3, <1>7 DEF Shape, Blocks
<1>9. StartAddress \notin gone
  <2>1. ASSUME merged PROVE b # StartAddress
    BY <2>1, <1>0, <1>1, Places
  <2>2. n # StartAddress
    BY <1>0, <1>1, Places
  <2> QED BY <2>1, <2>2
<1>10. \A a \in DOMAIN J \ {into} : J[a].size = l[a].size
  BY <1>6
<1>11. DOMAIN J \subseteq DOMAIN l
  BY <1>6
<1>12. p # into => ~merged /\ into = b
  OBVIOUS
<1> HIDE DEF J
<1>13. Shape(J)
  <2>1. DOMAIN J \subseteq {XSTART} \cup StartAddress .. EndAddress
    BY <1>0, <1>11 DEF Shape
  <2>2. {XSTART, StartAddress, EndAddress} \subseteq DOMAIN J
    BY <1>6, <1>8, <1>9
  <2>3. \A a \in DOMAIN J : /\ J[a] = [next |-> J[a].next, size |-> J[a].size]
                            /\ J[a].next \in Nat /\ J[a].size \in Nat /\ J[a].size < 2 * MSB
    <3> SUFFICES ASSUME NEW a \in DOMAIN J
                 PROVE  /\ J[a] = [next |-> J[a].next, size |-> J[a].size]
                        /\ J[a].next \in Nat /\ J[a].size \in Nat /\ J[a].size < 2 * MSB
      OBVIOUS
    <3>1. CASE a = into
      <4> HIDE DEF into, size, next
      <4> QED BY <3>1, <1>3, <1>4, <1>6, Width
    <3>2. CASE a # into /\ a = p
      BY <3>2, <1>1, <1>2, <1>6
    <3>3. CASE a # into /\ a # p
      BY <3>3, <1>2, <1>6
    <3> QED BY <3>1, <3>2, <3>3
  <2>4. J[XSTART].size = 0
    BY <1>0, <1>3, <1>8, <1>6, <1>10 DEF Shape
  <2>5. J[EndAddress].next = NULL /\ J[EndAddress].size = 0
    BY <1>0, <1>8, <1>6 DEF Shape
  <2> QED BY <2>1, <2>2, <2>3, <2>4, <2>5, <1>6 DEF Shape
<1>14. Blocks(J) = Blocks(l) \ gone
  BY <1>6 DEF Blocks
<1>15. Tiles(J)
  <2> SUFFICES ASSUME NEW a \in Blocks(J)
               PROVE  /\ Extent(J, a) > 0 /\ Extent(J, a) % ALIGN = 0 /\ a % ALIGN = 0
                      /\ a + Extent(J, a) \in DOMAIN J
                      /\ \A c \in DOMAIN J : c > a => a + Extent(J, a) <= c
    BY DEF Tiles
  <2>0. a \in Blocks(l) /\ a \in DOMAIN l /\ a \in DOMAIN J /\ a \notin gone /\ a \in Nat /\ a % ALIGN = 0
    BY <1>0, <1>2, <1>6, <1>14 DEF Blocks, Tiles
  <2>1. CASE a = into
    <3>1. Extent(J, a) = size
      <4>1. J[a].size = size
        BY <2>1, <1>6
      <4> HIDE DEF size
      <4> QED BY <4>1, <1>3, <1>4, ModMSB DEF Extent
    <3>2. X \notin gone
      BY <1>1, <1>3
    <3>3. ASSUME NEW c \in DOMAIN J, c > into PROVE X <= c
      <4>1. c \in DOMAIN l /\ c \notin gone /\ c \in Nat
        BY <1>2, <1>6
      <4>2. c > b
        BY <4>1, <3>3, <1>1
      <4>3. e <= c
        BY <4>1, <4>2, <1>1
      <4>4. meets => c > n
        BY <4>1, <4>3, <1>1
      <4> QED BY <4>1, <4>3, <4>4, <1>1
    <3> HIDE DEF into, size, X, gone
    <3> QED BY <2>0, <2>1, <3>1, <3>2, <3>3, <1>3, <1>5, <1>6
  <2>2. CASE a # into
    <3>1. Extent(J, a) = Extent(l, a)
      BY <2>0, <2>2, <1>10 DEF Extent
    <3>2. /\ Extent(l, a) > 0 /\ Extent(l, a) % ALIGN = 0 /\ a + Extent(l, a) \in DOMAIN l
          /\ \A c \in DOMAIN l : c > a => a + Extent(l, a) <= c
          /\ Extent(l, a) \in Nat
      BY <1>0, <1>2, <2>0, ModMSB DEF Tiles, Extent
    <3>3. merged => a + Extent(l, a) # b
      <4> SUFFICES ASSUME merged, a + Extent(l, a) = b PROVE FALSE
        OBVIOUS
      <4>1. a < b
        BY <2>0, <3>2, <1>1
      <4>2. a # p
        BY <2>2
      <4>3. CASE a < p
        BY <4>3, <1>1, <3>2
      <4>4. CASE a > p
        BY <4>1, <4>4, <2>0, <1>1
      <4> QED BY <4>2, <4>3, <4>4, <2>0, <1>1
    <3>4. meets => a + Extent(l, a) # n
      <4> SUFFICES ASSUME meets, a + Extent(l, a) = n PROVE FALSE
        OBVIOUS
      <4>1. a < n
        BY <2>0, <3>2, <1>1
      <4>2. a # b
        BY <2>0, <2>2
      <4>3. CASE a < b
        BY <4>3, <1>1, <3>2
      <4>4. CASE a > b
        BY <4>1, <4>4, <2>0, <1>1
      <4> QED BY <4>2, <4>3, <4>4, <2>0, <1>1
    <3>5. a + Extent(l, a) \notin gone
      BY <3>3, <3>4
    <3> QED BY <2>0, <3>1, <3>2, <3>5, <1>6, <1>11
  <2> QED BY <2>1, <2>2
<1>16. Chain(J, V) = (Chain(l, U) \cup Add) \ Del
  <2>1. b \notin Chain(l, U) /\ n # XSTART /\ b # XSTART /\ (meets => n \notin U)
    BY <1>0, <1>1 DEF Chain, Blocks, XSTART
  <2> QED BY <2>1, <1>0, <1>1, <1>14 DEF Chain
<1>17. \A a \in Chain(l, U) : /\ a \in DOMAIN l /\ a \in Nat
                              /\ l[a].next > a
                              /\ l[a].next \in Chain(l, U) \cup {EndAddress}
                              /\ \A c \in Chain(l, U) : c > a => l[a].next <= c
                              /\ l[a].size < MSB
                              /\ a + l[a].size \notin Chain(l, U) \ {a}
                              /\ l[a].next \in DOMAIN l /\ l[a].next \in Nat
  BY <1>0, NextIs DEF Links
<1>18. b \notin Chain(l, U) /\ b \notin Del /\ p \notin Del /\ into \in Chain(J, V)
  <2>1. b \notin Chain(l, U)
    BY <1>0, <1>1 DEF Chain, Blocks
  <2>2. b \notin Del /\ p \notin Del
    BY <1>1
  <2> QED BY <2>1, <2>2, <1>0, <1>16
<1>19. ASSUME NEW a \in Chain(l, U), a # p PROVE a < p \/ a >= n
  BY <1>0, <1>1, <1>17, <1>19
<1>20. ASSUME NEW a \in Chain(l, U), a # p, ~merged PROVE a + l[a].size # b
  <2>1. a \in Nat /\ l[a].size \in Nat /\ l[a].size < MSB
    BY <1>2, <1>17
  <2>2. CASE a >= n
    BY <2>1, <2>2, <1>1
  <2>3. CASE a < p
    <3>1. CASE a = XSTART
      BY <3>1, <2>1, <1>0, <1>1 DEF Shape, Blocks, XSTART
    <3>2. CASE a \in Blocks(l)
      <4>1. Extent(l, a) = l[a].size
        BY <2>1, ModMSB DEF Extent
      <4>2. a + l[a].size <= p
        BY <1>0, <1>1, <2>3, <3>2, <4>1 DEF Tiles
      <4> QED BY <4>2, <1>1, <2>1
    <3> QED BY <3>1, <3>2 DEF Chain
  <2> QED BY <1>19, <1>20, <2>2, <2>3
<1>21. Links(J, V)
  <2>1. V \subseteq Blocks(J)
    BY <1>0, <1>1, <1>14 DEF Links
  <2>2. ASSUME NEW u \in V PROVE J[u].next = NULL
    <3>1. u \in DOMAIN l /\ u # p /\ u # into /\ u \notin gone /\ l[u].next = NULL
      BY <1>0, <1>1, Places DEF Links, Blocks, Chain
    <3> QED BY <3>1, <1>6
  <2>3. ASSUME NEW a \in Chain(J, V)
        PROVE  /\ J[a].next > a
               /\ J[a].next \in Chain(J, V) \cup {EndAddress}
               /\ \A c \in Chain(J, V) : c > a => J[a].next <= c
               /\ J[a].size < MSB
               /\ a + J[a].size \notin Chain(J, V) \ {a}
    <3>1. CASE a = into
      <4>1. J[a].next = next /\ J[a].size = size
        BY <3>1, <1>6
      <4>2. next > into /\ next \in Chain(J, V) \cup {EndAddress}
        <5>1. CASE meets
          <6>1. next = l[n].next /\ next > n /\ next \in Chain(l, U) \cup {EndAddress}
                /\ next # n
            BY <5>1, <1>1, <1>17
          <6>2. next > into
            <7> HIDE DEF next, into
            <7> QED BY <6>1, <1>1, <1>3
          <6>3. next \in Chain(J, V) \cup {EndAddress}
            <7> HIDE DEF next
            <7> QED BY <5>1, <6>1, <1>16
          <6> QED BY <6>2, <6>3
        <5>2. CASE ~meets
          <6>1. next = n /\ n \in Chain(l, U) \cup {EndAddress}
            BY <5>2, <1>0, <1>17
          <6> QED BY <5>2, <6>1, <1>1, <1>3, <1>16
        <5> QED BY <5>1, <5>2
      <4>3. ASSUME NEW c \in Chain(J, V), c > into PROVE next <= c
        <5>1. c # b
          BY <4>3, <1>3, <1>16, <1>18
        <5>2. c \in Chain(l, U) /\ c \notin Del /\ c \in Nat
          BY <5>1, <1>16, <1>17
        <5>3. c # p /\ c > p
          BY <4>3, <5>2, <1>1, <1>3
        <5>4. c >= n
          BY <5>2, <5>3, <1>0, <1>1, <1>17
        <5>5. CASE meets
          <6>1. c > n
            BY <5>2, <5>4, <5>5, <1>1
          <6> QED BY <5>2, <5>5, <6>1, <1>1, <1>17
        <5>6. CASE ~meets
          BY <5>4, <5>6
        <5> QED BY <5>5, <5>6
      <4>4. X \notin Chain(J, V) \ {into}
        <5>1. CASE meets
          <6>1. X \notin Chain(l, U) \ {n} /\ X # n
            BY <5>1, <1>1, <1>17
          <6>2. X # b
            BY <1>1, <1>3
          <6> QED BY <6>1, <6>2, <1>16
        <5>2. CASE ~meets
          <6> SUFFICES ASSUME e \in Chain(J, V) PROVE FALSE
            BY <5>2
          <6>1. e # b /\ e > p
            BY <1>1
          <6>2. e \in Chain(l, U)
            BY <6>1, <1>16
          <6>3. n <= e
            BY <6>1, <6>2, <1>0, <1>17
          <6>4. e = n /\ n # EndAddress
            BY <6>2, <6>3, <1>0, <1>1, Places
          <6> QED BY <6>4, <5>2
        <5> QED BY <5>1, <5>2
      <4> HIDE DEF into, size, next, X
      <4> QED BY <3>1, <4>1, <4>2, <4>3, <4>4, <1>3, <1>4
    <3>2. CASE a # into /\ a = p
      <4>1. ~merged /\ J[a].next = b /\ J[a].size = l[p].size
        BY <3>2, <1>6
      <4>2. b \in Chain(J, V)
        BY <4>1, <1>18
      <4>3. ASSUME NEW c \in Chain(J, V), c > p PROVE b <= c
        <5>1. CASE c = b
          BY <5>1, <1>1
        <5>2. CASE c \in Chain(l, U)
          BY <5>2, <4>3, <1>0, <1>1, <1>17
        <5> QED BY <5>1, <5>2, <1>16
      <4>4. p + l[p].size \notin Chain(l, U) \ {p} /\ p + l[p].size # b /\ l[p].size < MSB
        BY <4>1, <1>0, <1>17
      <4> QED BY <3>2, <4>1, <4>2, <4>3, <4>4, <1>1, <1>16
    <3>3. CASE a # into /\ a # p
      <4>0. a # b
        BY <3>3, <1>16, <1>18
      <4>1. a \in Chain(l, U) /\ a \notin Del /\ a \notin gone /\ a \in Nat
        BY <4>0, <1>16, <1>17, <1>18
      <4>2. J[a] = l[a]
        BY <3>3, <4>1, <1>6, <1>17
      <4>3. a < p \/ a >= n
        BY <3>3, <4>1, <1>19
      <4>4. meets => l[a].next # n
        <5> SUFFICES ASSUME meets, l[a].next = n PROVE FALSE
          OBVIOUS
        <5>1. a < n
          BY <4>1, <1>1, <1>17
        <5>2. a < p
          BY <4>1, <4>3, <5>1, <1>1
        <5>3. n <= p
          BY <5>2, <4>1, <1>0, <1>17
        <5> QED BY <5>3, <1>1
      <4>5. l[a].next \in Chain(J, V) \cup {EndAddress}
        BY <4>1, <4>4, <1>16, <1>17
      <4>6. ASSUME NEW c \in Chain(J, V), c > a PROVE l[a].next <= c
        <5>1. CASE c \in Chain(l, U)
          BY <5>1, <4>1, <4>6, <1>17
        <5>2. CASE c = b
          <6>1. a < p
            BY <4>1, <4>3, <4>6, <5>2, <1>1
          <6>2. l[a].next <= p
            BY <4>1, <6>1, <1>0, <1>17
          <6> QED BY <4>1, <5>2, <6>2, <1>1, <1>17
        <5> QED BY <5>1, <5>2, <1>16
      <4>7. a + l[a].size \notin Chain(J, V) \ {a}
        <5>1. a + l[a].size \notin Chain(l, U) \ {a}
          BY <4>1, <1>17
        <5>2. ~merged => a + l[a].size # b
          BY <3>3, <4>1, <1>20
        <5> QED BY <5>1, <5>2, <1>16
      <4> QED BY <4>1, <4>2, <4>5, <4>6, <4>7, <1>17
    <3> QED BY <3>1, <3>2, <3>3
  <2> QED BY <2>1, <2>2, <2>3 DEF Links
<1>22. free + l[b].size = Total(Blocks(J) \ V, J)
  <2> DEFINE B == Blocks(l) \ U
             C == Blocks(J) \ V
             K == C \ {into}
  <2>1. IsFiniteSet(B) /\ (\A a \in B : l[a].size \in Nat /\ a \in DOMAIN l) /\ IsFiniteSet(C)
    <3>1. IsFiniteSet(DOMAIN l)
      BY <1>0, Places
    <3>2. B \subseteq DOMAIN l /\ C \subseteq DOMAIN l
      BY <1>11 DEF Blocks
    <3> QED BY <3>1, <3>2, <1>2, FS_Subset
  <2>2. \A a \in C : J[a].size \in Nat /\ a \in DOMAIN J
    BY <1>13 DEF Shape, Blocks
  <2>3. C = (B \cup Add) \ Del
    <3>1. (meets => n \notin U) /\ b \notin B
      BY <1>0, <1>1
    <3> QED BY <3>1, <1>0, <1>1, <1>14
  <2>4. into \in C
    BY <2>3, <1>0, <1>1, <1>18
  <2> HIDE DEF B, C
  <2>5. Total(C, J) = size + Total(K, J)
    BY <2>1, <2>2, <2>4, <1>6, TotalSplit
  <2>6. Total(K, J) = Total(K, l)
    <3>1. \A a \in K : J[a].size = l[a].size
      BY <2>2, <1>10
    <3> QED BY <3>1, TotalSame
  <2>7. free = Total(B, l)
    BY <1>0 DEF B
  <2>8. CASE merged /\ meets
    <3>1. p \in B /\ n \in B \ {p} /\ K = (B \ {p}) \ {n} /\ IsFiniteSet(B \ {p})
          /\ \A a \in B \ {p} : l[a].size \in Nat
      <4>1. p \in B /\ n \in B /\ n # p
        BY <2>8, <1>1 DEF B
      <4> QED BY <2>1, <2>3, <2>8, <4>1, FS_RemoveElement
    <3>2. Total(B, l) = l[p].size + Total(B \ {p}, l)
      BY <2>1, <3>1, TotalSplit
    <3>3. Total(B \ {p}, l) = l[n].size + Total(K, l) /\ Total(K, l) \in Nat
      BY <3>1, TotalSplit
    <3>4. size = l[p].size + l[b].size + l[n].size
      BY <2>8
    <3> HIDE DEF K, size, n
    <3> QED BY <2>5, <2>6, <2>7, <3>2, <3>3, <3>4, <1>1 DEF C
  <2>9. CASE merged /\ ~meets
    <3>1. p \in B /\ K = B \ {p}
      BY <2>3, <2>9, <1>1 DEF B
    <3>2. Total(B, l) = l[p].size + Total(K, l) /\ Total(K, l) \in Nat
      BY <2>1, <3>1, TotalSplit
    <3>4. size = l[p].size + l[b].size
      BY <2>9, <1>1
    <3> HIDE DEF K, size
    <3> QED BY <2>5, <2>6, <2>7, <3>2, <3>4, <1>1 DEF C
  <2>10. CASE ~merged /\ meets
    <3>1. n \in B /\ K = B \ {n}
      BY <2>3, <2>10, <1>1, <1>0 DEF B
    <3>2. Total(B, l) = l[n].size + Total(K, l) /\ Total(K, l) \in Nat
      BY <2>1, <3>1, TotalSplit
    <3>4. size = l[b].size + l[n].size
      BY <2>10, <1>1
    <3> HIDE DEF K, size, n
    <3> QED BY <2>5, <2>6, <2>7, <3>2, <3>4, <1>1 DEF C
  <2>11. CASE ~merged /\ ~meets
    <3>1. K = B
      BY <2>3, <2>11, <1>0, <1>1 DEF B
    <3>2. Total(K, l) \in Nat
      BY <2>1, <3>1, TotalNat
    <3>4. size = l[b].size
      BY <2>11, <1>1
    <3> HIDE DEF K, size
    <3> QED BY <2>5, <2>6, <2>7, <3>1, <3>2, <3>4, <1>1 DEF C
  <2> QED BY <2>8, <2>9, <2>10, <2>11
<1>23. \A a \in V : J[a] = l[a]
  <2> SUFFICES ASSUME NEW a \in V PROVE J[a] = l[a]
    OBVIOUS
  <2>1. a \in DOMAIN l /\ a # p /\ a # into /\ a \notin gone
    BY <1>0, <1>1, Places DEF Links, Blocks, Chain
  <2> QED BY <2>1, <1>6
<1>24. Whole(J, V, free + l[b].size)
  BY <1>13, <1>15, <1>21, <1>22 DEF Whole
<1> QED BY <1>23, <1>24 DEF J, Keeps

-----------------------------------------------------------------------------
(* The size that is looked for, the free list, the first heap.             *)

(* A size_t holds what is not over SIZE_MAX.                               *)
LEMMA SizeFits == ASSUME NEW n \in 0 .. SIZE_MAX PROVE SizeT(n) = n
BY HeapAssumption, SMTT(30) DEF SizeT

(* The size pvPortMalloc looks for holds what was asked for with the       *)
(* header, in whole units of alignment and not one too many; and it gives  *)
(* up, with size 0, on exactly the requests that have no such size in      *)
(* size_t: no request wraps round to a small one.                          *)
THEOREM WantedIsRight ==
  ASSUME NEW w \in 0 .. SIZE_MAX
  PROVE  LET need == ((w + xHeapStructSize + ALIGN - 1) \div ALIGN) * ALIGN
         IN /\ WantedSize(w) = IF w > 0 /\ need <= SIZE_MAX THEN need ELSE 0
            /\ need \in Nat /\ need >= w + xHeapStructSize /\ need % ALIGN = 0
<1> DEFINE m == w + xHeapStructSize
           need == ((m + ALIGN - 1) \div ALIGN) * ALIGN
           extra == ALIGN - (m % ALIGN)
<1>0. SIZE_MAX \in Nat /\ xHeapStructSize \in Nat /\ w \in Nat /\ ALIGN \in Nat /\ w <= SIZE_MAX
  BY HeapAssumption, AlignAssumption
<1>1. m \in Nat
  BY <1>0
<1> HIDE DEF m
<1>2. /\ need \in Nat /\ need >= m /\ need < m + ALIGN /\ need % ALIGN = 0
      /\ need = (IF m % ALIGN = 0 THEN m ELSE m + (ALIGN - (m % ALIGN)))
      /\ ALIGN - (m % ALIGN) \in 1 .. ALIGN
  BY <1>1, RoundUp
<1> HIDE DEF need
<1> USE DEF m
<1>3. w > SIZE_MAX - xHeapStructSize <=> m > SIZE_MAX
  BY <1>0
<1>4. CASE w = 0 \/ m > SIZE_MAX
  <2>1. WantedSize(w) = 0
    BY <1>3, <1>4 DEF WantedSize, heapADD_WILL_OVERFLOW
  <2>2. ~(w > 0 /\ need <= SIZE_MAX)
    BY <1>0, <1>1, <1>2, <1>4
  <2> QED BY <2>1, <2>2, <1>2 DEF need
<1>5. CASE w > 0 /\ ~(m > SIZE_MAX)
  <2>1. SizeT(w + xHeapStructSize) = m
    BY <1>0, <1>1, <1>5, SizeFits
  <2>2. WantedSize(w) = IF m % ALIGN = 0 THEN m
                        ELSE IF heapADD_WILL_OVERFLOW(m, extra) THEN 0 ELSE SizeT(m + extra)
    BY <2>1, <1>0, <1>3, <1>5 DEF WantedSize, heapADD_WILL_OVERFLOW
  <2> HIDE DEF m
  <2>3. CASE m % ALIGN = 0
    BY <2>2, <2>3, <1>0, <1>1, <1>2, <1>5 DEF need, m
  <2>4. CASE m % ALIGN # 0 /\ need > SIZE_MAX
    <3>1. heapADD_WILL_OVERFLOW(m, extra)
      BY <2>4, <1>0, <1>1, <1>2 DEF heapADD_WILL_OVERFLOW
    <3> QED BY <2>2, <2>4, <3>1, <1>0, <1>2 DEF need, m
  <2>5. CASE m % ALIGN # 0 /\ ~(need > SIZE_MAX)
    <3>1. ~heapADD_WILL_OVERFLOW(m, extra)
      BY <2>5, <1>0, <1>1, <1>2 DEF heapADD_WILL_OVERFLOW
    <3>2. m + extra = need
      BY <2>5, <1>2
    <3>3. SizeT(need) = need
      BY <2>5, <1>0, <1>2, SizeFits
    <3> QED BY <2>2, <2>5, <3>1, <3>2, <3>3, <1>0, <1>2, <1>5 DEF need, m
  <2> QED BY <2>3, <2>4, <2>5
<1> QED BY <1>0, <1>1, <1>4, <1>5

(* The list, followed from xStart, has all the free blocks.                *)
LEMMA FreeListIs ==
  ASSUME NEW U, Shape(links), Links(links, U), pxEnd = EndAddress
  PROVE  FreeList = Blocks(links) \ U
<1> DEFINE D == DOMAIN links \cup {NULL}
           C == Chain(links, U)
           stop(b) == b \in {EndAddress, NULL}
           From(b) == IF stop(b) THEN {} ELSE IF b \in C THEN {c \in C : c >= b} ELSE {b}
           Eq(g) == g = [b \in D |-> IF stop(b) THEN {} ELSE {b} \cup g[links[b].next]]
           F == CHOOSE g : Eq(g)
<1>0. /\ DOMAIN links \in SUBSET Nat /\ C \subseteq DOMAIN links \ {EndAddress} /\ XSTART \in C
      /\ \A a \in DOMAIN links : a <= EndAddress
      /\ EndAddress \in Nat
  BY Places, Addresses
<1>1. \A p \in C : /\ links[p].next \in C \cup {EndAddress}
                   /\ links[p].next > p
                   /\ \A c \in C : c > p => links[p].next <= c
  BY DEF Links
<1>2. \A b \in D : b \in C \/ stop(b) \/ (b \in U /\ b \notin C /\ links[b].next = NULL)
  BY DEF Chain, Blocks, Links
<1>3. FreeList = F[links[XSTART].next]
  BY DEF FreeList
<1>4. \A c \in C : c # NULL /\ c # EndAddress /\ c >= XSTART /\ c < EndAddress
  <2>1. \A c \in C : c \in Nat /\ c # EndAddress /\ c <= EndAddress /\ c >= XSTART
    BY <1>0, Places, Addresses DEF Chain, XSTART
  <2> QED BY <2>1, <1>0 DEF NULL, XSTART
<1>5. ASSUME NEW p \in C PROVE {c \in C : c >= p} = {p} \cup From(links[p].next)
  <2>1. p \in Nat /\ C \in SUBSET Nat
    BY <1>0
  <2>2. CASE links[p].next = EndAddress
    <3>1. \A c \in C : ~(c > p)
      <4> SUFFICES ASSUME NEW c \in C, c > p PROVE FALSE
        OBVIOUS
      <4>1. EndAddress <= c
        BY <1>1, <2>2
      <4> QED BY <4>1, <1>0, <1>4
    <3>2. From(links[p].next) = {}
      BY <2>2
    <3> HIDE DEF From
    <3> QED BY <2>1, <3>1, <3>2
  <2>3. CASE links[p].next # EndAddress
    <3>1. links[p].next \in C /\ links[p].next \in Nat
      BY <1>1, <2>1, <2>3
    <3>2. From(links[p].next) = {c \in C : c >= links[p].next}
      BY <1>4, <3>1
    <3>3. \A c \in C : c >= p <=> c = p \/ c >= links[p].next
      BY <1>1, <2>1, <3>1
    <3> HIDE DEF From
    <3> QED BY <2>1, <3>2, <3>3
  <2> QED BY <2>2, <2>3
<1>6. Eq([b \in D |-> From(b)])
  <2> DEFINE G == [b \in D |-> From(b)]
  <2>1. ASSUME NEW b \in D PROVE From(b) = IF stop(b) THEN {} ELSE {b} \cup G[links[b].next]
    <3>1. CASE stop(b)
      BY <3>1
    <3>2. CASE b \in C
      <4>1. links[b].next \in D /\ ~stop(b)
        BY <1>0, <1>1, <1>4, <3>2 DEF Shape
      <4>2. G[links[b].next] = From(links[b].next)
        BY <4>1
      <4>3. From(b) = {c \in C : c >= b}
        BY <3>2, <4>1
      <4> HIDE DEF From, G
      <4> QED BY <3>2, <4>1, <4>2, <4>3, <1>5
    <3>3. CASE ~stop(b) /\ b \notin C
      <4>1. links[b].next = NULL
        BY <1>2, <3>3
      <4> QED BY <3>3, <4>1
    <3> QED BY <3>1, <3>2, <3>3
  <2> HIDE DEF From
  <2> QED BY <2>1
<1>7. Eq(F)
  BY <1>6, Zenon
<1> HIDE DEF F
<1>8. \A b \in D : F[b] = IF stop(b) THEN {} ELSE {b} \cup F[links[b].next]
  BY <1>7
<1> DEFINE Bad == {p \in C : F[p] # From(p)}
<1>9. Bad = {}
  <2> SUFFICES ASSUME Bad # {} PROVE FALSE
    OBVIOUS
  <2>1. PICK p \in Bad : \A m \in Bad : m <= p
    BY <1>0, Greatest
  <2>2. p \in C /\ p \in Nat /\ p \in D /\ ~stop(p) /\ links[p].next > p
    BY <1>0, <1>1, <1>4
  <2>3. F[p] = {p} \cup F[links[p].next]
    BY <2>2, <1>8
  <2>4. F[links[p].next] = From(links[p].next)
    <3>1. CASE links[p].next = EndAddress
      <4>1. EndAddress \in D
        BY DEF Shape
      <4> QED BY <3>1, <4>1, <1>8
    <3>2. CASE links[p].next \in C
      <4>1. links[p].next \notin Bad
        BY <1>0, <2>1, <2>2, <3>2
      <4> QED BY <3>2, <4>1
    <3> QED BY <2>2, <3>1, <3>2, <1>1
  <2>5. From(p) = {c \in C : c >= p}
    BY <2>2
  <2> HIDE DEF From
  <2> QED BY <1>5, <2>2, <2>3, <2>4, <2>5
<1>10. F[links[XSTART].next] = From(links[XSTART].next)
  <2>1. CASE links[XSTART].next = EndAddress
    <3>1. EndAddress \in D
      BY DEF Shape
    <3> QED BY <2>1, <3>1, <1>8
  <2>2. CASE links[XSTART].next \in C
    BY <2>2, <1>9
  <2> QED BY <2>1, <2>2, <1>0, <1>1
<1>11. {c \in C : c >= XSTART} = C
  BY <1>4
<1>12. XSTART \notin From(links[XSTART].next)
  <2>1. links[XSTART].next > XSTART /\ links[XSTART].next \in C \cup {EndAddress}
    BY <1>0, <1>1
  <2>2. links[XSTART].next \in Nat
    BY <2>1, <1>0
  <2> QED BY <2>1, <2>2 DEF XSTART
<1>13. C = {XSTART} \cup From(links[XSTART].next)
  BY <1>0, <1>5, <1>11
<1> HIDE DEF From
<1> QED BY <1>3, <1>10, <1>12, <1>13 DEF Chain, Blocks

(* The heap that prvHeapInit makes.                                        *)
LEMMA InitialHeap ==
  Whole(prvHeapInit.links, {}, prvHeapInit.free)
<1> DEFINE l == prvHeapInit.links
<1>1. /\ DOMAIN l = {XSTART, StartAddress, EndAddress}
      /\ l[XSTART] = [next |-> StartAddress, size |-> 0]
      /\ l[StartAddress] = [next |-> EndAddress, size |-> EndAddress - StartAddress]
      /\ l[EndAddress] = [next |-> NULL, size |-> 0]
      /\ l = [a \in DOMAIN l |-> l[a]]
      /\ prvHeapInit.free = EndAddress - StartAddress
  BY Addresses DEF prvHeapInit, XSTART
<1> HIDE DEF l
<1>2. EndAddress - StartAddress \in Nat /\ EndAddress - StartAddress > 0
      /\ EndAddress - StartAddress < MSB /\ (EndAddress - StartAddress) % ALIGN = 0
      /\ StartAddress + (EndAddress - StartAddress) = EndAddress
      /\ XSTART # StartAddress /\ XSTART # EndAddress /\ StartAddress # EndAddress
  BY Addresses DEF XSTART
<1>3. Blocks(l) = {StartAddress} /\ Chain(l, {}) = {XSTART, StartAddress}
  BY <1>1, <1>2 DEF Blocks, Chain
<1>4. Shape(l)
  BY <1>1, <1>2, Addresses, Width DEF Shape, XSTART, NULL
<1>5. Extent(l, StartAddress) = EndAddress - StartAddress
  BY <1>1, <1>2, ModMSB DEF Extent
<1>6. Tiles(l)
  BY <1>1, <1>2, <1>3, <1>5, Addresses DEF Tiles, XSTART
<1>7. Links(l, {})
  BY <1>1, <1>2, <1>3, Addresses, Width DEF Links, XSTART
<1>8. Total(Blocks(l) \ {}, l) = EndAddress - StartAddress
  <2>1. {StartAddress} \ {StartAddress} = {} /\ IsFiniteSet({StartAddress})
        /\ StartAddress \in {StartAddress}
        /\ \A a \in {StartAddress} : l[a].size \in Nat
    <3>1. IsFiniteSet({StartAddress})
      BY FS_Singleton
    <3>2. \A a \in {StartAddress} : l[a].size \in Nat
      BY <1>1, <1>2
    <3> QED BY <3>1, <3>2
  <2>2. Total({StartAddress}, l) = l[StartAddress].size + Total({StartAddress} \ {StartAddress}, l)
    BY <2>1, TotalSplit
  <2>3. Total({}, l) = 0
    <3>1. DOMAIN [a \in {} |-> l[a].size] = {}
      OBVIOUS
    <3> QED BY <3>1, SumEmpty DEF Total
  <2>4. Blocks(l) \ {} = {StartAddress}
    BY <1>3
  <2>5. Total({StartAddress} \ {StartAddress}, l) = 0
    BY <2>1, <2>3
  <2>6. l[StartAddress].size = EndAddress - StartAddress
    BY <1>1
  <2>7. Total({StartAddress}, l) = EndAddress - StartAddress
    BY <1>2, <2>2, <2>5, <2>6
  <2> QED BY <2>4, <2>7
<1> QED BY <1>1, <1>4, <1>6, <1>7, <1>8 DEF Whole, l

-----------------------------------------------------------------------------
(* The inductive invariant.                                                *)

(* The bit is set in the blocks that callers have, and clear in the ones   *)
(* on their way back, which no two tasks share.                            *)
Owners ==
  /\ \A b \in held : links[b].size >= MSB
  /\ \A t \in Tasks : freeing[t] # NULL => freeing[t] \notin held /\ links[freeing[t]].size < MSB
  /\ \A t, u \in Tasks : freeing[t] # NULL /\ t # u => freeing[t] # freeing[u]

(* The inductive invariant.                                                *)
IInv ==
  /\ pxEnd \in {NULL, EndAddress}
  /\ pxEnd = NULL => InUse = {}
  /\ Whole(Heap.links, InUse, Heap.free)
  /\ Owners
  /\ freeing = [t \in Tasks |-> freeing[t]]
  /\ halted \in BOOLEAN

(* The variables of the heap, once it has been initialised.                *)
LEMMA HeapIs ==
  ASSUME IInv
  PROVE  /\ Heap = [links |-> Heap.links, end |-> EndAddress, free |-> Heap.free]
         /\ Heap.end = EndAddress
         /\ pxEnd # NULL => /\ Heap.links = links /\ Heap.free = xFreeBytesRemaining
                            /\ pxEnd = EndAddress
                            /\ Whole(links, InUse, xFreeBytesRemaining)
BY DEF IInv, Heap, prvHeapInit

(* It holds when the program starts.                                       *)
LEMMA InitIInv == Init => IInv
<1> SUFFICES ASSUME Init PROVE IInv
  OBVIOUS
<1>1. pxEnd = NULL /\ held = {} /\ \A t \in Tasks : freeing[t] = NULL
  BY DEF Init
<1>2. InUse = {}
  BY <1>1 DEF InUse, BeingFreed
<1>3. Heap = prvHeapInit
  BY <1>1 DEF Heap
<1> QED BY <1>1, <1>2, <1>3, InitialHeap DEF IInv, Owners, Init

(* A request that fits is given the first block of the list that is large  *)
(* enough.                                                                 *)
LEMMA MallocFits ==
  ASSUME IInv, NEW w \in Requests, Fits(Heap, WantedSize(w)), pvPortMalloc(w)
  PROVE  \E b \in Nat : \E size \in Nat :
           LET l == Heap.links
           IN /\ b \in Blocks(l) \ InUse
              /\ size >= w + xHeapStructSize
              /\ size > 0
              /\ w > 0
              /\ size < MSB
              /\ size <= l[b].size /\ l[b].size < MSB
              /\ Whole(links', InUse \cup {b}, xFreeBytesRemaining')
              /\ links'[b].size = size + MSB
              /\ \A a \in InUse : links'[a] = l[a]
              /\ held' = held \cup {b}
              /\ pxEnd' = EndAddress
              /\ halted' = FALSE
              /\ UNCHANGED freeing
<1> DEFINE l == Heap.links
           U == InUse
           free == Heap.free
           wanted == WantedSize(w)
           p == FirstFit(l, wanted)
           b == l[p].next
           split == l[b].size - wanted > heapMINIMUM_BLOCK_SIZE
           size == IF split THEN wanted ELSE l[b].size
           N == Taken(l, p, b, wanted)
<1>1. Whole(l, U, free) /\ Heap = [links |-> l, end |-> EndAddress, free |-> free]
      /\ Heap.end = EndAddress
  BY HeapIs DEF IInv
<1>2. wanted > 0 /\ wanted < MSB /\ b # EndAddress
  BY <1>1 DEF Fits
<1>3. w \in 0 .. SIZE_MAX
  BY RequestsAssumption
<1>4. wanted \in Nat /\ wanted % ALIGN = 0 /\ wanted >= w + xHeapStructSize /\ w > 0
  BY <1>2, <1>3, WantedIsRight
<1> HIDE DEF l, U, free, wanted
<1>5. Shape(l) /\ Links(l, U) /\ Tiles(l)
  BY <1>1 DEF Whole
<1>6. p \in Chain(l, U) /\ l[b].size >= wanted
  BY <1>2, <1>4, <1>5, FirstFitFinds
<1> HIDE DEF p
<1>7. b \in Blocks(l) \ U /\ b \in Nat /\ b \in DOMAIN l /\ b \in Chain(l, U)
  BY <1>2, <1>5, <1>6, NextIs
<1>8. l[b].size \in Nat /\ l[b].size < MSB /\ heapMINIMUM_BLOCK_SIZE \in Nat
  BY <1>5, <1>7, AlignAssumption DEF Links, Shape, heapMINIMUM_BLOCK_SIZE
<1>9. size \in Nat /\ size >= wanted /\ size <= l[b].size
  BY <1>4, <1>6, <1>8
<1>10. TakeBlock([links |-> l, end |-> EndAddress, free |-> free], p, b, wanted)
         = [links |-> N, end |-> EndAddress, free |-> free - size]
  BY <1>1, <1>2, <1>4, <1>6, TakeIs
<1>11. /\ Whole(N, U \cup {b}, free - size)
       /\ N[b].size = size + MSB
       /\ \A a \in U : N[a] = l[a]
  <2>1. /\ Whole(N, U \cup {b}, free - size)
        /\ N[b].size = size + MSB
        /\ size < MSB
        /\ \A a \in U : N[a] = l[a]
        /\ b \notin U
        /\ free >= l[b].size
    BY <1>1, <1>2, <1>4, <1>6, TakeWhole
  <2> QED BY <2>1
<1> HIDE DEF N, size
<1>12. /\ links' = N /\ pxEnd' = EndAddress /\ xFreeBytesRemaining' = free - size
       /\ held' = held \cup {b} /\ halted' = FALSE /\ UNCHANGED freeing
  <2> DEFINE h1 == TakeBlock(Heap, p, b, wanted)
  <2>1. /\ links' = h1.links /\ pxEnd' = h1.end /\ xFreeBytesRemaining' = h1.free
        /\ held' = held \cup {b} /\ halted' = FALSE /\ UNCHANGED freeing
    BY DEF pvPortMalloc, l, wanted, p
  <2>2. h1 = [links |-> N, end |-> EndAddress, free |-> free - size]
    BY <1>1, <1>10
  <2> HIDE DEF h1
  <2> QED BY <2>1, <2>2
<1>13. size >= w + xHeapStructSize /\ size > 0 /\ size < MSB
  BY <1>2, <1>3, <1>4, <1>8, <1>9, AlignAssumption, Width
<1> HIDE DEF b
<1> QED BY <1>4, <1>7, <1>8, <1>9, <1>11, <1>12, <1>13 DEF l, U

(* A request that does not fit changes nothing, but the heap exists now.   *)
LEMMA MallocRefuses ==
  ASSUME IInv, NEW w \in Requests, ~Fits(Heap, WantedSize(w)), pvPortMalloc(w)
  PROVE  /\ links' = Heap.links /\ pxEnd' = EndAddress /\ xFreeBytesRemaining' = Heap.free
         /\ held' = held /\ halted' = TRUE /\ UNCHANGED freeing
BY HeapIs DEF pvPortMalloc

(* The second step of vPortFree.                                           *)
LEMMA FreedIs ==
  ASSUME IInv, NEW t \in Tasks, InsertBlock(t)
  PROVE  LET b == freeing[t]
         IN /\ b \in InUse /\ b \notin held
            /\ Whole(links, InUse, xFreeBytesRemaining)
            /\ pxEnd = EndAddress
            /\ Whole(links', InUse \ {b}, xFreeBytesRemaining')
            /\ InUse' = InUse \ {b}
            /\ \A a \in InUse \ {b} : links'[a] = links[a]
            /\ \A u \in Tasks : freeing'[u] = IF u = t THEN NULL ELSE freeing[u]
            /\ freeing' = [u \in Tasks |-> freeing'[u]]
            /\ UNCHANGED <<pxEnd, held, halted>>
<1> DEFINE b == freeing[t]
           p == Before(links, b)
<1>1. /\ b # NULL
      /\ xFreeBytesRemaining' = xFreeBytesRemaining + links[b].size
      /\ links' = Tidy(Inserted(links, p, b))
      /\ freeing' = [freeing EXCEPT ![t] = NULL]
      /\ UNCHANGED <<pxEnd, held, halted>>
  BY DEF InsertBlock
<1>2. b \in InUse /\ pxEnd # NULL
  BY <1>1 DEF InUse, BeingFreed, IInv
<1>3. Whole(links, InUse, xFreeBytesRemaining) /\ pxEnd = EndAddress
  BY <1>2, HeapIs
<1>4. b \notin held /\ links[b].size < MSB
  BY <1>1 DEF IInv, Owners
<1>5. p \in Chain(links, InUse) /\ p < b /\ links[p].next > b
  BY <1>2, <1>3, BeforeFinds DEF Whole
<1>6. Between(links, InUse, p, b)
  BY <1>2, <1>3, <1>4, <1>5 DEF Between, Whole
<1>7. links' = Joined(links, p, b)
  BY <1>1, <1>3, <1>6, InsertIs
<1>8. /\ Whole(links', InUse \ {b}, xFreeBytesRemaining')
      /\ \A a \in InUse \ {b} : links'[a] = links[a]
  <2> HIDE DEF p, b
  <2>1. Whole(Joined(links, p, b), InUse \ {b}, xFreeBytesRemaining + links[b].size)
    BY <1>3, <1>6, InsertWhole
  <2>2. Keeps(Joined(links, p, b), links, InUse \ {b})
    BY <1>3, <1>6, InsertWhole
  <2> QED BY <2>1, <2>2, <1>1, <1>7 DEF Keeps
<1>9. /\ \A u \in Tasks : freeing'[u] = IF u = t THEN NULL ELSE freeing[u]
      /\ freeing' = [u \in Tasks |-> freeing'[u]]
  BY <1>1 DEF IInv
<1>10. \A u \in Tasks : u # t => freeing[u] # b
  BY <1>1 DEF IInv, Owners
<1>11. InUse' = InUse \ {b}
  <2>1. BeingFreed' = BeingFreed \ {b}
    <3>1. \A u \in Tasks : freeing'[u] # NULL => freeing[u] = freeing'[u] /\ freeing'[u] # b
      BY <1>9, <1>10
    <3>2. \A u \in Tasks : freeing[u] # b => freeing'[u] = freeing[u]
      BY <1>9
    <3> QED BY <3>1, <3>2 DEF BeingFreed
  <2> QED BY <2>1, <1>1, <1>4 DEF InUse
<1> HIDE DEF p
<1> QED BY <1>1, <1>2, <1>3, <1>4, <1>8, <1>9, <1>11

(* The first step of vPortFree changes the bit and nothing else.           *)
LEMMA ClearedIs ==
  ASSUME IInv, NEW t \in Tasks, NEW b \in held, ClearBit(t, b)
  PROVE  /\ Whole(links, InUse, xFreeBytesRemaining)
         /\ pxEnd = EndAddress
         /\ Whole(links', InUse, xFreeBytesRemaining')
         /\ InUse' = InUse
         /\ \A a \in DOMAIN links : Extent(links', a) = Extent(links, a)
         /\ \A a \in DOMAIN links \ {b} : links'[a] = links[a]
         /\ links'[b].size < MSB
         /\ b \in DOMAIN links /\ InUse \subseteq DOMAIN links
         /\ \A u \in Tasks : freeing'[u] = IF u = t THEN b ELSE freeing[u]
         /\ freeing' = [u \in Tasks |-> freeing'[u]]
         /\ held' = held \ {b}
         /\ \A u \in Tasks : freeing[u] # b
         /\ b # NULL
         /\ UNCHANGED <<pxEnd, halted>>
<1> DEFINE U == InUse
<1>1. /\ freeing[t] = NULL /\ links[b].size >= MSB /\ links[b].next = NULL
      /\ links' = [links EXCEPT ![b].size = @ - MSB]
      /\ held' = held \ {b}
      /\ freeing' = [freeing EXCEPT ![t] = b]
      /\ UNCHANGED <<pxEnd, xFreeBytesRemaining, halted>>
  BY DEF ClearBit
<1>2. b \in U /\ pxEnd # NULL
  BY DEF InUse, IInv
<1>3. /\ Whole(links, U, xFreeBytesRemaining) /\ pxEnd = EndAddress
      /\ Shape(links) /\ Tiles(links) /\ Links(links, U)
      /\ xFreeBytesRemaining = Total(Blocks(links) \ U, links)
  BY <1>2, HeapIs DEF Whole
<1>4. \A u \in Tasks : freeing[u] # b
  <2>1. b # NULL
    BY <1>2, <1>3, Places, Addresses DEF Links, NULL, XSTART
  <2> QED BY <2>1 DEF IInv, Owners
<1>5. /\ DOMAIN links \in SUBSET Nat /\ b \in DOMAIN links /\ b # XSTART /\ b # EndAddress
      /\ b \notin Chain(links, U) /\ b # NULL /\ U \subseteq DOMAIN links
  <2>1. DOMAIN links \in SUBSET Nat /\ U \subseteq Blocks(links)
    BY <1>3, Places DEF Links
  <2>2. Blocks(links) \subseteq DOMAIN links /\ XSTART \notin Blocks(links)
        /\ EndAddress \notin Blocks(links)
    BY DEF Blocks
  <2>3. \A a \in Blocks(links) : a > XSTART /\ a \in Nat
    BY <1>3, <2>1, <2>2, Places, Addresses DEF XSTART
  <2>4. b # NULL
    BY <1>2, <2>1, <2>3 DEF NULL, XSTART
  <2>5. b \notin Chain(links, U)
    BY <1>2, <2>1, <2>2 DEF Chain
  <2> QED BY <1>2, <2>1, <2>2, <2>4, <2>5
<1>6. links[b].size \in Nat /\ links[b].size < 2 * MSB /\ MSB \in Nat
  BY <1>3, <1>5, Width DEF Shape
<1>7. /\ DOMAIN links' = DOMAIN links
      /\ \A a \in DOMAIN links \ {b} : links'[a] = links[a]
      /\ links'[b] = [next |-> NULL, size |-> links[b].size - MSB]
      /\ links' = [a \in DOMAIN links' |-> links'[a]]
  <2>1. links[b] = [next |-> NULL, size |-> links[b].size]
    BY <1>1, <1>3, <1>5 DEF Shape
  <2>2. links'[b] = [links[b] EXCEPT !.size = links[b].size - MSB]
    BY <1>1, <1>5
  <2>3. links'[b] = [next |-> NULL, size |-> links[b].size - MSB]
    BY <2>1, <2>2
  <2> QED BY <1>1, <2>3
<1>8. links[b].size - MSB \in Nat /\ links[b].size - MSB < MSB
      /\ (links[b].size - MSB) % MSB = links[b].size % MSB
  BY <1>1, <1>6, ModMSB
<1>9. \A a \in DOMAIN links : Extent(links', a) = Extent(links, a)
  <2>1. Extent(links', b) = Extent(links, b)
    BY <1>7, <1>8 DEF Extent
  <2> QED BY <2>1, <1>7 DEF Extent
<1>10. InUse' = U
  <2>1. BeingFreed' = BeingFreed \cup {b}
    <3>1. \A u \in Tasks : freeing'[u] = IF u = t THEN b ELSE freeing[u]
      BY <1>1 DEF IInv
    <3> QED BY <3>1, <1>1, <1>5 DEF BeingFreed
  <2> QED BY <2>1, <1>1 DEF InUse
<1> HIDE DEF U
<1> DEFINE k == links'
<1>11. Shape(k)
  BY <1>3, <1>5, <1>6, <1>7, <1>8 DEF Shape, NULL
<1>12. Blocks(k) = Blocks(links) /\ Chain(k, U) = Chain(links, U)
  BY <1>7 DEF Blocks, Chain
<1>13. Tiles(k)
  <2>1. \A a \in Blocks(links) : a \in DOMAIN links
    BY DEF Blocks
  <2> QED BY <1>3, <1>7, <1>9, <1>12, <2>1 DEF Tiles
<1>14. Links(k, U)
  <2>1. \A a \in Chain(links, U) : k[a] = links[a]
    BY <1>3, <1>5, <1>7, Places
  <2>2. \A a \in U : k[a].next = NULL
    BY <1>3, <1>5, <1>7 DEF Links
  <2> HIDE DEF k
  <2> QED BY <1>3, <1>12, <2>1, <2>2 DEF Links
<1>15. xFreeBytesRemaining' = Total(Blocks(k) \ U, k)
  <2>1. \A a \in Blocks(links) \ U : k[a].size = links[a].size
    BY <1>2, <1>7 DEF Blocks, U
  <2>2. Total(Blocks(links) \ U, k) = Total(Blocks(links) \ U, links)
    BY <2>1, TotalSame
  <2> QED BY <1>1, <1>3, <1>12, <2>2
<1>16. Whole(k, U, xFreeBytesRemaining')
  BY <1>11, <1>13, <1>14, <1>15 DEF Whole
<1>17. /\ \A u \in Tasks : freeing'[u] = IF u = t THEN b ELSE freeing[u]
       /\ freeing' = [u \in Tasks |-> freeing'[u]]
  BY <1>1 DEF IInv
<1>18. links'[b].size < MSB
  BY <1>7, <1>8
<1> QED BY <1>1, <1>3, <1>4, <1>5, <1>7, <1>9, <1>10, <1>16, <1>17, <1>18 DEF U

(* Every step keeps it.                                                    *)
LEMMA NextIInv == IInv /\ [Next]_vars => IInv'
<1> SUFFICES ASSUME IInv, [Next]_vars PROVE IInv'
  OBVIOUS
<1>0. NULL # EndAddress
  BY Addresses DEF NULL
<1>a. ASSUME pxEnd' = EndAddress PROVE Heap'.links = links' /\ Heap'.free = xFreeBytesRemaining'
  BY <1>0, <1>a DEF Heap
<1>1. CASE UNCHANGED vars
  BY <1>1 DEF vars, IInv, Owners, InUse, BeingFreed, Heap
<1>2. ASSUME NEW w \in Requests, pvPortMalloc(w), Fits(Heap, WantedSize(w)) PROVE IInv'
  <2>1. PICK b \in Nat, size \in Nat :
          /\ b \in Blocks(Heap.links) \ InUse
          /\ Whole(links', InUse \cup {b}, xFreeBytesRemaining')
          /\ links'[b].size = size + MSB
          /\ \A a \in InUse : links'[a] = Heap.links[a]
          /\ held' = held \cup {b}
          /\ pxEnd' = EndAddress
          /\ halted' = FALSE
          /\ UNCHANGED freeing
    BY <1>2, MallocFits
  <2>2. BeingFreed' = BeingFreed /\ InUse' = InUse \cup {b}
    BY <2>1 DEF BeingFreed, InUse
  <2>3. \A a \in InUse : links'[a] = links[a]
    <3>1. CASE pxEnd = NULL
      BY <3>1 DEF IInv
    <3>2. CASE pxEnd # NULL
      BY <3>2, <2>1, HeapIs
    <3> QED BY <3>1, <3>2
  <2>4. size + MSB >= MSB
    BY Width
  <2>5. Owners'
    <3>1. \A a \in held' : links'[a].size >= MSB
      BY <2>1, <2>3, <2>4 DEF IInv, Owners, InUse
    <3>2. ASSUME NEW u \in Tasks, freeing[u] # NULL
          PROVE  freeing[u] \notin held' /\ links'[freeing[u]].size < MSB
      <4>1. freeing[u] \in InUse
        BY <3>2 DEF InUse, BeingFreed
      <4> QED BY <4>1, <2>1, <2>3, <3>2 DEF IInv, Owners
    <3> QED BY <2>1, <3>1, <3>2 DEF IInv, Owners
  <2>6. Whole(Heap'.links, InUse', Heap'.free)
    BY <2>1, <2>2, <1>a
  <2> QED BY <2>1, <2>5, <2>6, <1>0 DEF IInv
<1>3. ASSUME NEW w \in Requests, pvPortMalloc(w), ~Fits(Heap, WantedSize(w)) PROVE IInv'
  <2>1. /\ links' = Heap.links /\ pxEnd' = EndAddress /\ xFreeBytesRemaining' = Heap.free
        /\ held' = held /\ halted' = TRUE /\ UNCHANGED freeing
    BY <1>3, MallocRefuses
  <2>2. InUse' = InUse /\ BeingFreed' = BeingFreed
    BY <2>1 DEF BeingFreed, InUse
  <2>3. Whole(Heap'.links, InUse', Heap'.free)
    BY <1>a, <2>1, <2>2 DEF IInv
  <2>4. Owners'
    <3>1. CASE pxEnd = NULL
      <4>1. held = {} /\ \A t \in Tasks : freeing[t] = NULL
        BY <3>1 DEF IInv, InUse, BeingFreed
      <4> QED BY <4>1, <2>1 DEF Owners
    <3>2. CASE pxEnd # NULL
      <4>1. links' = links
        BY <3>2, <2>1, HeapIs
      <4> QED BY <4>1, <2>1 DEF IInv, Owners
    <3> QED BY <3>1, <3>2
  <2> QED BY <2>1, <2>3, <2>4, <1>0 DEF IInv
<1>4. ASSUME NEW t \in Tasks, InsertBlock(t) PROVE IInv'
  <2> DEFINE b == freeing[t]
  <2>1. /\ b \in InUse /\ b \notin held
        /\ pxEnd = EndAddress
        /\ Whole(links', InUse \ {b}, xFreeBytesRemaining')
        /\ InUse' = InUse \ {b}
        /\ \A a \in InUse \ {b} : links'[a] = links[a]
        /\ \A u \in Tasks : freeing'[u] = IF u = t THEN NULL ELSE freeing[u]
        /\ freeing' = [u \in Tasks |-> freeing'[u]]
        /\ UNCHANGED <<pxEnd, held, halted>>
    BY <1>4, FreedIs
  <2>2. Whole(Heap'.links, InUse', Heap'.free)
    BY <1>a, <2>1
  <2>3. Owners'
    <3>1. \A a \in held' : links'[a].size >= MSB
      BY <2>1 DEF IInv, Owners, InUse
    <3>2. ASSUME NEW u \in Tasks, freeing'[u] # NULL
          PROVE  freeing'[u] \notin held' /\ links'[freeing'[u]].size < MSB
      <4>1. u # t /\ freeing'[u] = freeing[u] /\ freeing[u] # NULL
        BY <2>1, <3>2
      <4>2. freeing[u] \in InUse /\ freeing[u] # b
        BY <4>1 DEF InUse, BeingFreed, IInv, Owners
      <4> QED BY <4>1, <4>2, <2>1 DEF IInv, Owners
    <3>3. \A s, u \in Tasks : freeing'[s] # NULL /\ s # u => freeing'[s] # freeing'[u]
      BY <2>1 DEF IInv, Owners
    <3> QED BY <3>1, <3>2, <3>3 DEF Owners
  <2> QED BY <2>1, <2>2, <2>3, <1>0 DEF IInv
<1>5. ASSUME NEW t \in Tasks, NEW b \in held, ClearBit(t, b) PROVE IInv'
  <2>1. /\ pxEnd = EndAddress
        /\ Whole(links', InUse, xFreeBytesRemaining')
        /\ InUse' = InUse
        /\ \A a \in DOMAIN links \ {b} : links'[a] = links[a]
        /\ links'[b].size < MSB
        /\ InUse \subseteq DOMAIN links
        /\ \A u \in Tasks : freeing'[u] = IF u = t THEN b ELSE freeing[u]
        /\ freeing' = [u \in Tasks |-> freeing'[u]]
        /\ held' = held \ {b}
        /\ \A u \in Tasks : freeing[u] # b
        /\ b # NULL
        /\ UNCHANGED <<pxEnd, halted>>
    BY <1>5, ClearedIs
  <2>2. Whole(Heap'.links, InUse', Heap'.free)
    BY <1>a, <2>1
  <2>3. Owners'
    <3>1. \A a \in held' : links'[a].size >= MSB
      BY <2>1 DEF IInv, Owners, InUse
    <3>2. ASSUME NEW u \in Tasks, freeing'[u] # NULL
          PROVE  freeing'[u] \notin held' /\ links'[freeing'[u]].size < MSB
      <4>1. CASE u = t
        BY <4>1, <2>1
      <4>2. CASE u # t
        <5>1. freeing'[u] = freeing[u] /\ freeing[u] # NULL /\ freeing[u] # b
          BY <4>2, <2>1, <3>2
        <5>2. freeing[u] \in InUse
          BY <5>1 DEF InUse, BeingFreed
        <5> QED BY <5>1, <5>2, <2>1 DEF IInv, Owners
      <4> QED BY <4>1, <4>2
    <3>3. \A s, u \in Tasks : freeing'[s] # NULL /\ s # u => freeing'[s] # freeing'[u]
      BY <2>1 DEF IInv, Owners
    <3> QED BY <3>1, <3>2, <3>3 DEF Owners
  <2> QED BY <2>1, <2>2, <2>3, <1>0 DEF IInv
<1> QED BY <1>1, <1>2, <1>3, <1>4, <1>5 DEF Next, Halted

-----------------------------------------------------------------------------
(* What the callers see.                                                   *)

(* The headers of the heap are whole in every state, and the bit in them   *)
(* tells used blocks from free ones (pvPortMalloc, vPortFree).             *)
THEOREM Invariance == Spec => []IInv
<1>1. Init => IInv
  BY InitIInv
<1>2. IInv /\ [Next]_vars => IInv'
  BY NextIInv
<1> QED BY <1>1, <1>2, PTL DEF Spec

(* What the invariant says in the words of RtosHeap.                       *)
LEMMA TilesOf ==
  ASSUME IInv, pxEnd # NULL
  PROVE  /\ Shape(links) /\ Tiles(links) /\ Links(links, InUse)
         /\ FreeList = Blocks(links) \ InUse
         /\ xFreeBytesRemaining = Total(Blocks(links) \ InUse, links)
         /\ InUse \subseteq Blocks(links)
         /\ pxEnd = EndAddress
<1>1. Whole(links, InUse, xFreeBytesRemaining) /\ pxEnd = EndAddress
  BY HeapIs
<1> QED BY <1>1, FreeListIs DEF Whole, Links

(* No byte of the heap is lost and none is in two blocks, whatever has     *)
(* been split, merged, or is being freed (pvPortMalloc,                    *)
(* prvInsertBlockIntoFreeList).                                            *)
THEOREM BlocksTheHeap == Spec => []BlocksTile
<1>1. IInv => BlocksTile
  <2> SUFFICES ASSUME IInv, pxEnd # NULL
               PROVE  LET B == FreeList \cup InUse
                      IN /\ FreeList \cap InUse = {}
                         /\ \A b \in B : SizeOf(b) > 0 /\ b + SizeOf(b) \in B \cup {pxEnd}
                         /\ StartAddress \in B
                         /\ \A b, c \in B : b < c => b + SizeOf(b) <= c
    BY DEF BlocksTile
  <2> DEFINE B == FreeList \cup InUse
  <2>1. /\ Shape(links) /\ Tiles(links) /\ Links(links, InUse) /\ pxEnd = EndAddress
        /\ FreeList = Blocks(links) \ InUse /\ InUse \subseteq Blocks(links)
    BY TilesOf
  <2>2. B = Blocks(links) /\ FreeList \cap InUse = {}
    BY <2>1
  <2>3. /\ DOMAIN links \in SUBSET Nat /\ Blocks(links) \subseteq DOMAIN links
        /\ \A b \in Blocks(links) : StartAddress <= b
    BY <2>1, Places DEF Blocks
  <2> HIDE DEF B
  <2>4. ASSUME NEW b \in B
        PROVE  /\ SizeOf(b) > 0 /\ b + SizeOf(b) \in B \cup {pxEnd}
               /\ \A c \in B : b < c => b + SizeOf(b) <= c
    <3>1. /\ SizeOf(b) > 0 /\ b + SizeOf(b) \in DOMAIN links
          /\ \A c \in DOMAIN links : c > b => b + SizeOf(b) <= c
      BY <2>1, <2>2 DEF Tiles, Extent, SizeOf
    <3>2. b \in Nat /\ b + SizeOf(b) \in Nat /\ b >= StartAddress
      BY <2>2, <2>3, <3>1
    <3>3. SizeOf(b) \in Nat
      BY <2>1, <2>2, <2>3, ModMSB DEF SizeOf, Shape
    <3>4. b + SizeOf(b) # XSTART
      BY <3>1, <3>2, <3>3, Addresses DEF XSTART
    <3>5. b + SizeOf(b) \in B \cup {pxEnd}
      BY <2>1, <2>2, <3>1, <3>4 DEF Blocks
    <3>6. ASSUME NEW c \in B, b < c PROVE b + SizeOf(b) <= c
      BY <2>2, <2>3, <3>1, <3>2, <3>6
    <3> QED BY <3>1, <3>5, <3>6
  <2>5. StartAddress \in B
    BY <2>1, <2>2, Addresses DEF Shape, Blocks, XSTART
  <2> QED BY <2>2, <2>4, <2>5 DEF B
<1> QED BY <1>1, Invariance, PTL

(* The free list is in the order of addresses, no two of its blocks touch, *)
(* and xFreeBytesRemaining is the sum of their sizes                       *)
(* (prvInsertBlockIntoFreeList).                                           *)
THEOREM FreeListIsExact == Spec => []FreeListExact
<1>1. IInv => FreeListExact
  <2> SUFFICES ASSUME IInv, pxEnd # NULL PROVE FreeListExact
    BY DEF FreeListExact
  <2>1. /\ Shape(links) /\ Tiles(links) /\ Links(links, InUse) /\ pxEnd = EndAddress
        /\ FreeList = Blocks(links) \ InUse /\ InUse \subseteq Blocks(links)
        /\ xFreeBytesRemaining = Total(Blocks(links) \ InUse, links)
    BY TilesOf
  <2>2. ASSUME NEW b \in FreeList
        PROVE  b < links[b].next /\ b + links[b].size \notin FreeList
    <3>1. b \in Chain(links, InUse) /\ b \in DOMAIN links /\ b \in Nat /\ b \in Blocks(links)
      BY <2>1, Places DEF Chain, Blocks
    <3>2. /\ links[b].next > b /\ links[b].size < MSB /\ links[b].next \in Nat
          /\ links[b].size \in Nat
          /\ b + links[b].size \notin Chain(links, InUse) \ {b}
      BY <2>1, <3>1 DEF Links, Shape
    <3>3. Extent(links, b) = links[b].size /\ Extent(links, b) > 0
      BY <2>1, <3>1, <3>2, ModMSB DEF Extent, Tiles
    <3>4. b + links[b].size # b
      BY <3>1, <3>2, <3>3
    <3> QED BY <2>1, <3>1, <3>2, <3>4 DEF Chain
  <2>3. xFreeBytesRemaining = FoldFunction(LAMBDA x, y : x + y, 0,
                                           [b \in FreeList |-> links[b].size])
    BY <2>1 DEF Total, Sum
  <2> QED BY <2>2, <2>3 DEF FreeListExact
<1> QED BY <1>1, Invariance, PTL

-----------------------------------------------------------------------------
(* Block b as a chunk of Allocator.                                        *)
ChunkAt(l, b) == [at |-> b, size |-> Extent(l, b)]

(* The refinement mapping of Memory.                                       *)
Used == {[at |-> b, size |-> SizeOf(b)] : b \in InUse}

(* The same, by headers.                                                   *)
LEMMA UsedIs == Used = {ChunkAt(links, b) : b \in InUse}
BY DEF Used, ChunkAt, SizeOf, Extent

(* Where there is room for a chunk, there is a free block of its size.     *)
LEMMA RoomIsFree ==
  ASSUME NEW l, NEW U, Shape(l), Tiles(l), Links(l, U), NEW n \in Nat, n > 0,
         NEW a \in StartAddress .. EndAddress - n,
         \A d \in U : a + n <= d \/ d + Extent(l, d) <= a
  PROVE  \E x \in Blocks(l) \ U : l[x].size >= n
<1>1. DOMAIN l \in SUBSET Nat /\ Blocks(l) \subseteq DOMAIN l /\ a \in Nat
      /\ EndAddress \in Nat /\ StartAddress \in Nat /\ a + n <= EndAddress /\ a >= StartAddress
  BY Places, Addresses DEF Blocks
<1> DEFINE T == {x \in Blocks(l) : x <= a}
<1>2. StartAddress \in T
  BY <1>1, Addresses DEF Shape, Blocks, XSTART
<1>3. PICK x \in T : \A y \in T : y <= x
  <2>1. T \in SUBSET Nat /\ T # {} /\ \A y \in T : y <= a
    BY <1>1, <1>2
  <2> QED BY <1>1, <2>1, Greatest
<1> DEFINE e == Extent(l, x)
<1>4. x \in Blocks(l) /\ x \in Nat /\ x <= a /\ x >= StartAddress /\ x \in DOMAIN l
      /\ l[x].size \in Nat
  BY <1>1, <1>2, <1>3 DEF Shape
<1>5. e > 0 /\ x + e \in DOMAIN l /\ e \in Nat /\ x + e \in Nat
  BY <1>1, <1>4, ModMSB DEF Tiles, Extent
<1> HIDE DEF e
<1>6. x + e > a
  <2> SUFFICES ASSUME x + e <= a PROVE FALSE
    BY <1>1, <1>5
  <2>1. x + e # EndAddress /\ x + e # XSTART
    BY <1>1, <1>4, <1>5, Addresses DEF XSTART
  <2>2. x + e \in T
    BY <1>5, <2>1 DEF Blocks
  <2> QED BY <1>3, <1>4, <1>5, <2>2
<1>7. x \notin U
  <2> SUFFICES ASSUME x \in U PROVE FALSE
    OBVIOUS
  <2>1. a + n <= x \/ x + e <= a
    BY DEF e
  <2> QED BY <1>1, <1>4, <1>5, <1>6, <2>1
<1>8. l[x].size = e
  <2>1. l[x].size < MSB
    BY <1>4, <1>7 DEF Links, Chain
  <2> QED BY <1>4, <2>1, ModMSB DEF Extent, e
<1>9. a + n <= x + e
  <2>1. CASE x + e = EndAddress
    BY <1>1, <2>1
  <2>2. CASE x + e \in U
    <3>1. a + n <= x + e \/ (x + e) + Extent(l, x + e) <= a
      BY <2>2
    <3>2. Extent(l, x + e) \in Nat
      BY <1>5, ModMSB DEF Extent, Shape
    <3> QED BY <1>1, <1>5, <1>6, <3>1, <3>2
  <2>3. CASE x + e \in Chain(l, U)
    <3>1. x + e # x
      BY <1>4, <1>5
    <3>2. x \in Chain(l, U)
      BY <1>4, <1>7 DEF Chain
    <3>3. x + l[x].size \notin Chain(l, U) \ {x}
      BY <3>2 DEF Links
    <3> QED BY <1>8, <2>3, <3>1, <3>3
  <2> QED BY <1>5, <2>1, <2>2, <2>3 DEF Chain, Blocks
<1>10. l[x].size >= n
  BY <1>1, <1>4, <1>5, <1>8, <1>9
<1> QED BY <1>4, <1>7, <1>10

(* A free block is no larger than all of them.                             *)
LEMMA FreeHolds ==
  ASSUME NEW l, NEW U, NEW free, Whole(l, U, free), NEW x \in Blocks(l) \ U
  PROVE  free \in Nat /\ free >= l[x].size
<1> DEFINE S == Blocks(l) \ U
<1>1. Shape(l) /\ Links(l, U) /\ free = Total(S, l)
  BY DEF Whole
<1>2. IsFiniteSet(DOMAIN l) /\ S \subseteq DOMAIN l
  BY <1>1, Places DEF Blocks
<1>3. IsFiniteSet(S) /\ \A a \in S : l[a].size \in Nat
  BY <1>1, <1>2, FS_Subset DEF Shape
<1> HIDE DEF S
<1>4. /\ Total(S, l) = l[x].size + Total(S \ {x}, l)
      /\ Total(S \ {x}, l) \in Nat
      /\ Total(S, l) \in Nat
  BY <1>3, TotalSplit DEF S
<1>5. l[x].size \in Nat
  BY <1>3 DEF S
<1> QED BY <1>1, <1>4, <1>5

(* pvPortMalloc is an allocation or a justified refusal.                   *)
LEMMA MallocStep ==
  ASSUME IInv, ~halted, NEW w \in Requests, pvPortMalloc(w)
  PROVE  Memory!Alloc(w) \/ Memory!Refuse(w)
<1> DEFINE l == Heap.links
           U == InUse
<1>0. Whole(l, U, Heap.free) /\ Shape(l) /\ Tiles(l) /\ Links(l, U) /\ Heap.end = EndAddress
  BY HeapIs DEF IInv, Whole
<1>1. \A d \in U : Extent(links, d) = Extent(l, d)
  <2>1. CASE pxEnd = NULL
    BY <2>1 DEF IInv
  <2>2. CASE pxEnd # NULL
    BY <2>2, HeapIs
  <2> QED BY <2>1, <2>2
<1>2. Used = {ChunkAt(l, d) : d \in U}
  BY <1>1, UsedIs DEF ChunkAt
<1>3. /\ DOMAIN l \in SUBSET Nat /\ U \subseteq Blocks(l) /\ Blocks(l) \subseteq DOMAIN l
      /\ \A d \in DOMAIN l : Extent(l, d) \in Nat
      /\ \A d \in Blocks(l) : StartAddress <= d /\ d < EndAddress
  <2>1. \A d \in DOMAIN l : Extent(l, d) \in Nat
    BY <1>0, ModMSB DEF Shape, Extent
  <2> QED BY <1>0, <2>1, Places DEF Links, Blocks
<1>4. w \in 0 .. SIZE_MAX /\ xHeapStructSize \in Nat /\ xHeapStructSize > 0 /\ SIZE_MAX \in Nat
  BY RequestsAssumption, HeapAssumption, AlignAssumption
<1>5. CASE Fits(Heap, WantedSize(w))
  <2>1. PICK b \in Nat, size \in Nat :
          /\ b \in Blocks(l) \ U
          /\ size >= w + xHeapStructSize /\ size > 0 /\ w > 0 /\ size < MSB
          /\ size <= l[b].size /\ l[b].size < MSB
          /\ links'[b].size = size + MSB
          /\ \A a \in U : links'[a] = l[a]
          /\ held' = held \cup {b}
          /\ halted' = FALSE
          /\ UNCHANGED freeing
    <3> HIDE DEF l, U
    <3> QED BY <1>5, MallocFits DEF l, U
  <2> HIDE DEF l
  <2>2. InUse' = U \cup {b}
    BY <2>1 DEF InUse, BeingFreed
  <2>3. Extent(links', b) = size
    BY <2>1, ModMSB DEF Extent
  <2>4. Used' = Used \cup {[at |-> b, size |-> size]}
    <3>1. Used' = {ChunkAt(links', d) : d \in InUse'}
      BY DEF Used, ChunkAt, SizeOf, Extent
    <3>2. \A d \in U : ChunkAt(links', d) = ChunkAt(l, d)
      BY <2>1 DEF ChunkAt, Extent
    <3>3. ChunkAt(links', b) = [at |-> b, size |-> size]
      BY <2>3 DEF ChunkAt
    <3> HIDE DEF U
    <3> QED BY <3>1, <3>2, <3>3, <2>2, <1>2
  <2>5. l[b].size \in Nat /\ Extent(l, b) = l[b].size
    BY <1>0, <1>3, <2>1, ModMSB DEF Extent, Shape
  <2>6. /\ b + l[b].size \in DOMAIN l /\ b % ALIGN = 0
        /\ \A c \in DOMAIN l : c > b => b + l[b].size <= c
    BY <1>0, <2>1, <2>5 DEF Tiles
  <2>7. b + l[b].size <= EndAddress /\ b >= StartAddress
    BY <1>0, <1>3, <2>1, <2>6, Places
  <2>8. size \in w + xHeapStructSize .. EndAddress - StartAddress
    BY <1>4, <2>1, <2>5, <2>7, Addresses
  <2>9. b \in StartAddress .. EndAddress - size
    BY <1>4, <2>1, <2>5, <2>7, Addresses
  <2>10. ASSUME NEW d \in U
         PROVE  b + size <= d \/ d + Extent(l, d) <= b
    <3>1. d \in Blocks(l) /\ d \in DOMAIN l /\ d \in Nat /\ d # b /\ Extent(l, d) \in Nat
      BY <1>3, <2>1
    <3>2. CASE d > b
      <4>1. b + l[b].size <= d
        BY <2>6, <3>1, <3>2
      <4> QED BY <4>1, <2>1, <2>5, <3>1
    <3>3. CASE d < b
      <4>1. b \in DOMAIN l
        BY <1>3, <2>1
      <4> QED BY <1>0, <3>1, <3>3, <4>1 DEF Tiles
    <3> QED BY <3>1, <3>2, <3>3
  <2>11. \A c \in Used : Memory!Apart([at |-> b, size |-> size], c)
    BY <1>2, <2>10 DEF ChunkAt, Memory!Apart
  <2>12. Memory!Alloc(w)
    <3>1. b \in Memory!Places(size)
      BY <2>6, <2>9, <2>11 DEF Memory!Places, Memory!Chunk, Used
    <3>2. Used' = Used \cup {Memory!Chunk(b, size)}
      BY <2>4 DEF Memory!Chunk
    <3>3. UNCHANGED halted
      BY <2>1 DEF IInv
    <3> QED BY <2>1, <2>8, <3>1, <3>2, <3>3 DEF Memory!Alloc, Used
  <2> QED BY <2>12
<1>6. CASE ~Fits(Heap, WantedSize(w))
  <2> DEFINE n == Memory!Need(w)
  <2>1. /\ links' = l /\ held' = held /\ halted' = TRUE /\ UNCHANGED freeing
    BY <1>6, MallocRefuses
  <2> HIDE DEF l
  <2>2. InUse' = U
    BY <2>1 DEF InUse, BeingFreed
  <2>3. Used' = Used
    <3>1. Used' = {ChunkAt(links', d) : d \in InUse'}
      BY DEF Used, ChunkAt, SizeOf, Extent
    <3> QED BY <3>1, <2>1, <2>2, <1>2
  <2>4. /\ WantedSize(w) = IF w > 0 /\ n <= SIZE_MAX THEN n ELSE 0
        /\ n \in Nat /\ n >= w + xHeapStructSize
    BY <1>4, WantedIsRight DEF Memory!Need
  <2> HIDE DEF n
  <2>5. ASSUME w # 0, Memory!Places(n) # {} PROVE FALSE
    <3>1. PICK a \in StartAddress .. EndAddress - n :
            \A c \in Used : Memory!Apart([at |-> a, size |-> n], c)
      BY <2>5 DEF Memory!Places, Memory!Chunk, Used
    <3>2. n > 0 /\ n <= EndAddress - StartAddress /\ n < MSB /\ n <= SIZE_MAX
      BY <1>4, <2>4, <3>1, Addresses, Width
    <3>3. WantedSize(w) = n
      BY <1>4, <2>4, <2>5, <3>2
    <3>4. \A d \in U : a + n <= d \/ d + Extent(l, d) <= a
      <4> SUFFICES ASSUME NEW d \in U PROVE a + n <= d \/ d + Extent(l, d) <= a
        OBVIOUS
      <4>1. ChunkAt(l, d) \in Used
        BY <1>2
      <4>2. Memory!Apart([at |-> a, size |-> n], ChunkAt(l, d))
        BY <3>1, <4>1
      <4> HIDE DEF U
      <4> QED BY <4>2 DEF ChunkAt, Memory!Apart
    <3>5. PICK x \in Blocks(l) \ U : l[x].size >= n
      BY <1>0, <2>4, <3>2, <3>4, RoomIsFree
    <3>6. Heap.free \in Nat /\ Heap.free >= l[x].size
      BY <1>0, FreeHolds
    <3>7. n <= Heap.free
      BY <1>0, <1>3, <2>4, <3>5, <3>6 DEF Shape
    <3>8. l[FirstFit(l, n)].next # EndAddress
      <4>1. l[x].size \in Nat
        BY <1>0, <1>3 DEF Shape
      <4>2. l[FirstFit(l, n)].next = EndAddress => \A c \in Blocks(l) \ U : l[c].size < n
        BY <1>0, <2>4, FirstFitFinds
      <4> QED BY <4>1, <4>2, <3>5, <2>4
    <3> QED BY <1>0, <1>6, <3>2, <3>3, <3>7, <3>8 DEF Fits, l
  <2>6. Memory!Refuse(w)
    BY <2>1, <2>3, <2>5 DEF Memory!Refuse, Used, n
  <2> QED BY <2>6
<1> QED BY <1>5, <1>6

(* The second step of vPortFree gives back one chunk.                      *)
LEMMA FreeStep ==
  ASSUME IInv, NEW t \in Tasks, InsertBlock(t)
  PROVE  \E c \in Used : Memory!Free(c)
<1> DEFINE b == freeing[t]
           c == ChunkAt(links, b)
<1>1. /\ b \in InUse
      /\ InUse' = InUse \ {b}
      /\ \A a \in InUse \ {b} : links'[a] = links[a]
      /\ UNCHANGED halted
  BY FreedIs
<1>2. Used' = {ChunkAt(links', d) : d \in InUse'}
  BY DEF Used, ChunkAt, SizeOf, Extent
<1>3. \A d \in InUse \ {b} : ChunkAt(links', d) = ChunkAt(links, d)
  BY <1>1 DEF ChunkAt, Extent
<1>4. \A d \in InUse \ {b} : ChunkAt(links, d) # c
  BY DEF ChunkAt
<1> HIDE DEF b, c
<1>5. c \in Used
  BY <1>1, UsedIs DEF c
<1>6. Used' = Used \ {c}
  BY <1>1, <1>2, <1>3, <1>4, UsedIs DEF c
<1> QED BY <1>1, <1>5, <1>6 DEF Memory!Free, Used

(* The first is not seen by the callers.                                   *)
LEMMA ClearStep ==
  ASSUME IInv, NEW t \in Tasks, NEW b \in held, ClearBit(t, b)
  PROVE  UNCHANGED <<Used, halted>>
<1>1. /\ InUse' = InUse /\ InUse \subseteq DOMAIN links
      /\ \A a \in DOMAIN links : Extent(links', a) = Extent(links, a)
      /\ UNCHANGED halted
  BY ClearedIs
<1>2. Used' = {ChunkAt(links', d) : d \in InUse'}
  BY DEF Used, ChunkAt, SizeOf, Extent
<1>3. \A d \in InUse : ChunkAt(links', d) = ChunkAt(links, d)
  BY <1>1 DEF ChunkAt
<1> QED BY <1>1, <1>2, <1>3, UsedIs

(* The heap implements Allocator: a block is given out where there is      *)
(* room, of at least the size asked for, and a request is refused only     *)
(* when there is no such place anywhere between the blocks in use          *)
(* (pvPortMalloc, vPortFree).                                              *)
THEOREM ImplementsIt == Spec => ImplementsAllocator
<1>1. Init => Memory!Init
  <2> SUFFICES ASSUME Init PROVE Memory!Init
    OBVIOUS
  <2>1. InUse = {} /\ halted = FALSE
    BY DEF Init, InUse, BeingFreed
  <2> QED BY <2>1 DEF Memory!Init
<1>2. IInv /\ [Next]_vars => [Memory!Next]_(Memory!vars)
  <2> SUFFICES ASSUME IInv, [Next]_vars PROVE Memory!Next \/ UNCHANGED <<Used, halted>>
    BY DEF Memory!vars, Used
  <2>1. CASE UNCHANGED vars
    BY <2>1 DEF vars, Used, InUse, BeingFreed, SizeOf
  <2>2. CASE Halted
    BY <2>2 DEF Halted, vars, Used, InUse, BeingFreed, SizeOf
  <2>3. ASSUME ~halted, NEW w \in Requests, pvPortMalloc(w) PROVE Memory!Next
    BY <2>3, MallocStep DEF Memory!Next
  <2>4. ASSUME ~halted, NEW t \in Tasks, InsertBlock(t) PROVE Memory!Next
    BY <2>4, FreeStep DEF Memory!Next, Used
  <2>5. ASSUME NEW t \in Tasks, NEW b \in held, ClearBit(t, b) PROVE UNCHANGED <<Used, halted>>
    BY <2>5, ClearStep
  <2> QED BY <2>1, <2>2, <2>3, <2>4, <2>5 DEF Next
<1> QED BY <1>1, <1>2, Invariance, PTL DEF Spec, ImplementsAllocator, Memory!Spec

(* No byte is ever in two of the chunks of Allocator.                      *)
THEOREM ChunksAreApart == Memory!Spec => []Memory!Disjoint
<1> DEFINE Bytes == [at : Int, size : Int]
           Inv == Used \subseteq Bytes /\ Memory!Disjoint
<1>0. StartAddress \in Int /\ EndAddress \in Int /\ xHeapStructSize \in Int /\ Requests \subseteq Int
  BY Addresses, AlignAssumption, RequestsAssumption, HeapAssumption
<1>1. Memory!Init => Inv
  BY DEF Memory!Init, Memory!Disjoint, Used
<1>2. ASSUME Inv, NEW w \in Requests, Memory!Alloc(w) PROVE Inv'
  <2>1. PICK n \in w + xHeapStructSize .. EndAddress - StartAddress :
          \E a \in Memory!Places(n) : Used' = Used \cup {Memory!Chunk(a, n)}
    BY <1>2 DEF Memory!Alloc, Used
  <2>2. PICK a \in Memory!Places(n) : Used' = Used \cup {Memory!Chunk(a, n)}
    BY <2>1
  <2> DEFINE c == Memory!Chunk(a, n)
  <2>3. c \in Bytes /\ \A d \in Used : Memory!Apart(c, d)
    BY <1>0 DEF Memory!Places, Memory!Chunk, Used
  <2>4. \A d \in Used : Memory!Apart(d, c)
    BY <1>2, <2>3 DEF Memory!Apart
  <2> HIDE DEF c
  <2>5. Used' = Used \cup {c}
    BY <2>2 DEF c
  <2> QED BY <1>2, <2>3, <2>4, <2>5 DEF Memory!Disjoint, Used
<1>3. ASSUME Inv, NEW c \in Used, Memory!Free(c) PROVE Inv'
  BY <1>3 DEF Memory!Free, Memory!Disjoint, Used
<1>4. Inv /\ [Memory!Next]_(Memory!vars) => Inv'
  <2> SUFFICES ASSUME Inv, [Memory!Next]_(Memory!vars) PROVE Inv'
    OBVIOUS
  <2>1. CASE UNCHANGED Used
    BY <2>1 DEF Memory!Disjoint, Used
  <2> QED BY <1>2, <1>3, <2>1 DEF Memory!Next, Memory!Refuse, Memory!vars, Used
<1>5. Inv => Memory!Disjoint
  OBVIOUS
<1> HIDE DEF Inv
<1> QED BY <1>1, <1>4, <1>5, PTL DEF Memory!Spec

(* No byte of the heap is ever in two of the blocks that callers have      *)
(* (pvPortMalloc), for every heap and every sequence of requests.          *)
COROLLARY CallersAreApart == Spec => []Memory!Disjoint
BY ImplementsIt, ChunksAreApart, PTL DEF ImplementsAllocator
=============================================================================
