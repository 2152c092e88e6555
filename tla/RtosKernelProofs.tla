-------------------------- MODULE RtosKernelProofs --------------------------
(***************************************************************************)
(* Proofs about RtosKernel, for any number of tasks, of any priorities,    *)
(* delays and periods, and on a clock of any width: every task is in one   *)
(* state list, no switch is missed, the holder of the mutex has exactly    *)
(* the priority it is lent, no waiter is forgotten, sleepers are woken on  *)
(* time, the mutex implements BusLock, and the test of vTaskDelayUntil is  *)
(* right.                                                                  *)
(*                                                                         *)
(* The proofs go from the lists to the operations on them, from those to   *)
(* what each operator of the scheduler does to a scheduler that is sound,  *)
(* and from there to the steps: only the last part is about s.             *)
(***************************************************************************)
EXTENDS RtosKernel, FiniteSetTheorems, SequenceTheorems, WellFoundedInduction, TLAPS

-----------------------------------------------------------------------------
(* The invariant.  Those of its parts that are about the lists are         *)
(* operators on the record of the scheduler's variables.                   *)

(* On its way to the mutex.                                                *)
Asking == {"take", "wait", "listed", "parked", "retry"}

Labels == Asking \cup {"none", "start", "run", "inside", "asleep", "delayed",
                       "deleted", "gone", "freed"}

Distinct(q) == \A i, j \in 1 .. Len(q) : q[i] = q[j] => i = j

Clock == 0 .. WRAP - 1

Items == [task : Tasks, wake : Clock]

Scheduler == [ready : [Priorities -> Seq(AllTasks \cup {END})],
              top : SUBSET Priorities, prio : [AllTasks -> Priorities], current : AllTasks,
              delayed : Seq(Items), overflow : Seq(Items), blocked : SUBSET Tasks,
              tick : Clock, next : Clock, suspended : BOOLEAN, pended : Nat, yield : BOOLEAN]

(* A ready list of the tasks in T, each of them once, with its end marker. *)
Ring(q, T) == /\ q \in Seq(AllTasks \cup {END})
              /\ Distinct(q)
              /\ Range(q) = T \cup {END}

(* The ready lists and the bitmap are those of the tasks in R.             *)
Lists(k, R) == /\ \A p \in Priorities : Ring(k.ready[p], {t \in R : k.prio[t] = p})
               /\ k.top = {k.prio[t] : t \in R}

(* A list in the order of wake times.                                      *)
Queue(q) == /\ q \in Seq(Items)
            /\ Distinct(q)
            /\ \A i, j \in 1 .. Len(q) : i < j => q[i].wake <= q[j].wake

Sleeping(k) == Range(k.delayed) \cup Range(k.overflow)

OneEach(I) == \A e, f \in I : e.task = f.task => e = f

(* The current list is of those due before the clock wraps, the other of   *)
(* those due after it.                                                     *)
Timely(k) == /\ \A e \in Range(k.delayed) : e.wake > k.tick /\ e.wake >= k.next
             /\ \A e \in Range(k.overflow) : e.wake < k.tick

Delayed(k) == Queue(k.delayed) /\ Queue(k.overflow) /\ OneEach(Sleeping(k)) /\ Timely(k)

ReadySet(k) == {t \in AllTasks : IsReady(k, t)}

Sound(k) == /\ k \in Scheduler
            /\ Lists(k, ReadySet(k))
            /\ Delayed(k)
            /\ ReadySet(k) \cap Asleep(k) = {}

Apart(A, B) == A \cap B = {}

Highest(k, R) == k.current \in R /\ \A t \in R : k.prio[t] <= k.prio[k.current]

(* The event list is of the blocked tasks, in the order of the priorities  *)
(* they had when they blocked: nobody lends to a task that waits.          *)
Waiters == /\ waiters \in Seq(Tasks)
           /\ Distinct(waiters)
           /\ Range(waiters) = s.blocked
           /\ \A i, j \in 1 .. Len(waiters) :
                 i < j => BasePriority[waiters[i]] >= BasePriority[waiters[j]]

Present == {t \in Tasks : pc[t] \notin {"none", "deleted", "gone", "freed"}}

Ended == {t \in Tasks : pc[t] \in {"deleted", "gone"}}

(* The lists have exactly the tasks that exist, and where a task is tells  *)
(* which of them it can be in.                                             *)
Located == /\ Idle \in ReadySet(s)
           /\ Apart(ReadySet(s), s.blocked) /\ Apart(Asleep(s), s.blocked)
           /\ ReadySet(s) \cup Asleep(s) \cup s.blocked = {Idle} \cup Present
           /\ Distinct(terminated)
           /\ Range(terminated) = Ended
           /\ \A t \in s.blocked : pc[t] \in {"listed", "parked", "take"}
           /\ \A t \in Asleep(s) : pc[t] \in {"asleep", "delayed", "run"}

(* No ready task comes before the current one, unless that is on its way   *)
(* to a switch.                                                            *)
Running == \/ /\ s.current \in Tasks
              /\ pc[s.current] \in {"listed", "parked", "asleep", "delayed", "deleted"}
           \/ Highest(s, ReadySet(s))

(* Only the current task suspends the scheduler, for as long as it is in   *)
(* one of three places; ticks are pended meanwhile, and no switch is.      *)
Suspended == /\ \A t \in Tasks :
                  pc[t] \in {"listed", "retry", "asleep"} <=> s.suspended /\ s.current = t
             /\ s.suspended => s.current \in Tasks
             /\ ~s.suspended => s.pended = 0
             /\ s.pended <= MaxPended
             /\ s.yield = FALSE

Lent == /\ \A t \in AllTasks : t # xMutexHolder => s.prio[t] = BasePriority[t]
        /\ xMutexHolder # NULL =>
             LET h == xMutexHolder
             IN /\ s.prio[h] >= BasePriority[h]
                /\ \A w \in s.blocked : s.prio[h] >= BasePriority[w]
                /\ \/ s.prio[h] = BasePriority[h]
                   \/ \E w \in s.blocked : s.prio[h] = BasePriority[w]

(* Whoever takes the mutex while tasks wait for it does not come behind    *)
(* any of them: it runs, and this one is ready.                            *)
Wakened == uxMessagesWaiting > 0 /\ s.blocked # {} =>
             \E t \in Users : /\ t \in ReadySet(s) /\ pc[t] \in Asking
                              /\ \A w \in s.blocked : BasePriority[t] >= BasePriority[w]

IInv == /\ Sound(s) /\ Waiters /\ Located /\ Running /\ Suspended /\ Lent /\ Wakened
        /\ wakeTime \in [Tasks -> Clock]

-----------------------------------------------------------------------------
(* Numbers and sequences.                                                  *)

(* Induction, as the least and the greatest member of a set.               *)

Less == {p \in Nat \X Nat : p[1] < p[2]}

(* A set of natural numbers has a least member.                            *)
LEMMA Least ==
  ASSUME NEW S \in SUBSET Nat, S # {}
  PROVE  \E n \in S : \A m \in S : n <= m
<1>1. IsWellFoundedOn(Less, Nat)
  BY NatLessThanWellFounded DEF OpToRel, Less
<1>2. \E x \in S : \A y \in S : ~ (<<y, x>> \in Less)
  BY <1>1, WFMin
<1>3. PICK n \in S : \A m \in S : <<m, n>> \notin Less
  BY <1>2
<1>4. ASSUME NEW m \in S PROVE n <= m
  <2>1. m \in Nat /\ n \in Nat
    OBVIOUS
  <2>2. ~(m < n)
    BY <1>3, <2>1 DEF Less
  <2> QED BY <2>1, <2>2
<1> QED BY <1>4

(* And a bounded one a greatest.                                           *)
LEMMA Greatest ==
  ASSUME NEW S \in SUBSET Nat, S # {}, NEW top \in Nat, \A m \in S : m <= top
  PROVE  \E n \in S : \A m \in S : m <= n
<1> DEFINE T == {top - m : m \in S}
<1>1. T \in SUBSET Nat /\ T # {}
  <2>1. \A m \in S : m \in Nat /\ top - m \in Nat
    OBVIOUS
  <2> QED BY <2>1
<1>2. PICK k \in T : \A m \in T : k <= m
  BY <1>1, Least
<1>3. PICK n \in S : k = top - n
  OBVIOUS
<1>4. ASSUME NEW m \in S PROVE m <= n
  <2>1. top - m \in T
    OBVIOUS
  <2>2. top - n <= top - m
    BY <1>2, <1>3, <2>1
  <2> QED BY <2>2
<1> QED BY <1>4

(* Induction over the natural numbers, with a set for the predicate.       *)
LEMMA Induction ==
  ASSUME NEW S, 0 \in S, \A n \in Nat : n \in S => n + 1 \in S
  PROVE  Nat \subseteq S
<1> SUFFICES ASSUME Nat \ S # {} PROVE FALSE
  OBVIOUS
<1>1. PICK n \in Nat \ S : \A m \in Nat \ S : n <= m
  BY Least
<1>2. n - 1 \in Nat /\ n - 1 \in S
  BY <1>1
<1> QED BY <1>1, <1>2

(* A sum on the clock wraps at most once.                                  *)
LEMMA Reduce ==
  ASSUME NEW n \in 0 .. 2 * WRAP - 1
  PROVE  n % WRAP = IF n < WRAP THEN n ELSE n - WRAP
BY WrapAssumption, SMTT(30)

(* The Max of the community modules, which is a CHOOSE, is the greatest.   *)
LEMMA MaxOf ==
  ASSUME NEW S \in SUBSET Nat, S # {}, NEW top \in Nat, \A m \in S : m <= top
  PROVE  Max(S) \in S /\ \A m \in S : m <= Max(S)
<1>1. PICK n \in S : \A m \in S : m <= n
  BY Greatest
<1>2. \A y \in S : n >= y
  BY <1>1
<1> HIDE DEF Max
<1>3. Max(S) \in S /\ \A y \in S : Max(S) >= y
  BY <1>2 DEF Max
<1>4. Max(S) \in Nat
  BY <1>3
<1> QED BY <1>3, <1>4

(* And the Min the least.                                                  *)
LEMMA MinOf ==
  ASSUME NEW S \in SUBSET Nat, S # {}
  PROVE  Min(S) \in S /\ \A m \in S : Min(S) <= m
<1>1. PICK n \in S : \A m \in S : n <= m
  BY Least
<1>3. Min(S) \in S /\ \A y \in S : Min(S) <= y
  BY <1>1 DEF Min
<1> QED BY <1>3

(* Priorities are natural numbers below configMAX_PRIORITIES.              *)
LEMMA PrioritiesAre ==
  /\ Priorities \in SUBSET (0 .. configMAX_PRIORITIES - 1)
  /\ Priorities \in SUBSET Nat
  /\ \A t \in AllTasks : BasePriority[t] \in Priorities
BY PriorityAssumption DEF Priorities

(* The highest of some priorities.                                         *)
LEMMA TopOf ==
  ASSUME NEW S \in SUBSET Priorities, S # {}
  PROVE  Max(S) \in S /\ \A p \in S : p <= Max(S)
<1>1. S \in SUBSET Nat
  BY PrioritiesAre
<1>2. configMAX_PRIORITIES \in Nat /\ \A m \in S : m <= configMAX_PRIORITIES
  BY PrioritiesAre, PriorityAssumption
<1> QED BY <1>1, <1>2, MaxOf

-----------------------------------------------------------------------------
Rungs == AllTasks \cup {END}

(* What Range is for a sequence.                                           *)
LEMMA InRange ==
  ASSUME NEW S, NEW q \in Seq(S)
  PROVE  /\ \A i \in 1 .. Len(q) : q[i] \in Range(q)
         /\ \A x \in Range(q) : \E i \in 1 .. Len(q) : x = q[i]
         /\ Range(q) \subseteq S
BY DEF Range

(* How to show what the range of a sequence is.                            *)
LEMMA RangeIs ==
  ASSUME NEW S, NEW q \in Seq(S), NEW T,
         \A i \in 1 .. Len(q) : q[i] \in T,
         \A x \in T : \E i \in 1 .. Len(q) : x = q[i]
  PROVE  Range(q) = T
BY DEF Range

(* A part of a sequence.                                                   *)
LEMMA SubSeqIs ==
  ASSUME NEW S, NEW q \in Seq(S), NEW m \in 1 .. Len(q) + 1, NEW n \in m - 1 .. Len(q)
  PROVE  /\ SubSeq(q, m, n) \in Seq(S)
         /\ Len(SubSeq(q, m, n)) = n - m + 1
         /\ \A i \in 1 .. n - m + 1 : SubSeq(q, m, n)[i] = q[m + i - 1]
<1>1. m \in Int /\ n \in Int /\ \A i \in m .. n : q[i] \in S
  OBVIOUS
<1> QED BY <1>1, SubSeqProperties

(* vListInsertEnd: before the last item of the list as it is written here. *)
LEMMA InsertEndIs ==
  ASSUME NEW S, NEW q \in Seq(S), Len(q) > 0, NEW t \in S
  PROVE  LET r == vListInsertEnd(q, t)
         IN /\ r \in Seq(S)
            /\ Len(r) = Len(q) + 1
            /\ \A i \in 1 .. Len(q) - 1 : r[i] = q[i]
            /\ r[Len(q)] = t
            /\ r[Len(q) + 1] = q[Len(q)]
<1> DEFINE f == SubSeq(q, 1, Len(q) - 1)
<1> DEFINE a == Append(f, t)
<1>1. f \in Seq(S) /\ Len(f) = Len(q) - 1 /\ \A i \in 1 .. Len(q) - 1 : f[i] = q[i]
  <2>1. 1 \in 1 .. Len(q) + 1 /\ Len(q) - 1 \in 1 - 1 .. Len(q)
    OBVIOUS
  <2>2. /\ f \in Seq(S) /\ Len(f) = Len(q) - 1 - 1 + 1
        /\ \A i \in 1 .. Len(q) - 1 - 1 + 1 : f[i] = q[1 + i - 1]
    BY <2>1, SubSeqIs
  <2> QED BY <2>2
<1> HIDE DEF f
<1>2. a \in Seq(S) /\ Len(a) = Len(q) /\ a[Len(q)] = t /\ \A i \in 1 .. Len(q) - 1 : a[i] = q[i]
  BY <1>1
<1> HIDE DEF a
<1>3. vListInsertEnd(q, t) = a \o <<q[Len(q)]>>
  BY DEF vListInsertEnd, Front, Last, f, a
<1>4. <<q[Len(q)]>> \in Seq(S)
  OBVIOUS
<1> QED BY <1>2, <1>3, <1>4

(* A task that is put into a ready list is in it once, with the others.    *)
LEMMA InsertEndRing ==
  ASSUME NEW T \in SUBSET AllTasks, NEW q, Ring(q, T), NEW t \in AllTasks \ T
  PROVE  Ring(vListInsertEnd(q, t), T \cup {t})
<1> DEFINE r == vListInsertEnd(q, t)
<1> DEFINE n == Len(q)
<1>1. q \in Seq(Rungs) /\ Distinct(q) /\ Range(q) = T \cup {END}
  BY DEF Ring, Rungs
<1>2. n \in Nat /\ n > 0
  BY <1>1, InRange
<1>3. t \in Rungs /\ t # END
  BY NamesAssumption DEF Rungs
<1>4. /\ r \in Seq(Rungs)
      /\ Len(r) = n + 1
      /\ \A i \in 1 .. n - 1 : r[i] = q[i]
      /\ r[n] = t
      /\ r[n + 1] = q[n]
  BY <1>1, <1>2, <1>3, InsertEndIs
<1>5. \A i \in 1 .. n : q[i] \in T \cup {END} /\ q[i] # t
  BY <1>1, <1>3, InRange
<1> HIDE DEF r, n
<1>6. Distinct(r)
  <2> SUFFICES ASSUME NEW i \in 1 .. n + 1, NEW j \in 1 .. n + 1, r[i] = r[j] PROVE i = j
    BY <1>4 DEF Distinct
  <2>1. \A x, y \in 1 .. n : q[x] = q[y] => x = y
    BY <1>1 DEF Distinct, n
  <2> QED BY <1>2, <1>4, <1>5, <2>1
<1>7. Range(r) = T \cup {t} \cup {END}
  <2>1. \A i \in 1 .. Len(r) : r[i] \in T \cup {t} \cup {END}
    BY <1>2, <1>4, <1>5
  <2>2. ASSUME NEW x \in T \cup {t} \cup {END} PROVE \E i \in 1 .. Len(r) : x = r[i]
    <3>1. CASE x = t
      BY <3>1, <1>2, <1>4
    <3>2. CASE x # t
      <4>1. PICK i \in 1 .. n : x = q[i]
        BY <3>2, <1>1, InRange DEF n
      <4> QED BY <4>1, <1>2, <1>4
    <3> QED BY <3>1, <3>2
  <2> QED BY <1>4, <2>1, <2>2, RangeIs
<1> QED BY <1>4, <1>6, <1>7 DEF Ring, Rungs, r

-----------------------------------------------------------------------------
(* Lists: places, insertion, removal and turns.                            *)

(* The place before which an item is put.                                  *)
LEMMA FirstOfIs ==
  ASSUME NEW S, NEW q \in Seq(S), NEW P \in SUBSET (1 .. Len(q))
  PROVE  /\ FirstOf(P, q) \in 1 .. Len(q) + 1
         /\ FirstOf(P, q) \in P \cup {Len(q) + 1}
         /\ \A i \in P : FirstOf(P, q) <= i
<1> DEFINE A == P \cup {Len(q) + 1}
<1>0. Len(q) \in Nat
  OBVIOUS
<1>1. A \in SUBSET Nat /\ A # {} /\ A \subseteq 1 .. Len(q) + 1
  <2>1. \A i \in A : i \in Nat /\ i \in 1 .. Len(q) + 1
    BY <1>0
  <2> QED BY <2>1
<1>2. Min(A) \in A /\ \A i \in A : Min(A) <= i
  BY <1>1, MinOf
<1> QED BY <1>1, <1>2 DEF FirstOf

(* InsertAt, item by item.                                                 *)
LEMMA InsertAtIs ==
  ASSUME NEW S, NEW q \in Seq(S), NEW m \in 1 .. Len(q) + 1, NEW x \in S
  PROVE  LET r == InsertAt(q, m, x)
         IN /\ r \in Seq(S)
            /\ Len(r) = Len(q) + 1
            /\ \A i \in 1 .. m - 1 : r[i] = q[i]
            /\ r[m] = x
            /\ \A i \in m + 1 .. Len(q) + 1 : r[i] = q[i - 1]
<1> DEFINE f == SubSeq(q, 1, m - 1)
           b == SubSeq(q, m, Len(q))
           g == f \o <<x>>
<1>1. 1 \in 1 .. Len(q) + 1 /\ m - 1 \in 1 - 1 .. Len(q)
  OBVIOUS
<1>2. /\ f \in Seq(S) /\ Len(f) = m - 1 - 1 + 1
      /\ \A i \in 1 .. m - 1 - 1 + 1 : f[i] = q[1 + i - 1]
  BY <1>1, SubSeqIs
<1>3. f \in Seq(S) /\ Len(f) = m - 1 /\ \A i \in 1 .. m - 1 : f[i] = q[i]
  BY <1>2
<1>4. Len(q) \in m - 1 .. Len(q)
  OBVIOUS
<1>5. /\ b \in Seq(S) /\ Len(b) = Len(q) - m + 1
      /\ \A i \in 1 .. Len(q) - m + 1 : b[i] = q[m + i - 1]
  BY <1>4, SubSeqIs
<1> HIDE DEF f, b
<1>6. g \in Seq(S) /\ Len(g) = m /\ g[m] = x /\ \A i \in 1 .. m - 1 : g[i] = q[i]
  BY <1>3
<1>7. InsertAt(q, m, x) = g \o b
  BY DEF InsertAt, g, f, b
<1> HIDE DEF g
<1>8. ASSUME NEW i \in m + 1 .. Len(q) + 1 PROVE (g \o b)[i] = q[i - 1]
  <2>1. i - m \in 1 .. Len(q) - m + 1 /\ m + (i - m) - 1 = i - 1
    OBVIOUS
  <2>2. (g \o b)[i] = b[i - m]
    BY <1>5, <1>6, <2>1
  <2> QED BY <1>5, <2>1, <2>2
<1>9. /\ g \o b \in Seq(S) /\ Len(g \o b) = Len(q) + 1
      /\ \A i \in 1 .. m : (g \o b)[i] = g[i]
  BY <1>5, <1>6
<1> QED BY <1>6, <1>7, <1>8, <1>9

(* What an insertion does to a sequence of different things.               *)
LEMMA InsertAtDistinct ==
  ASSUME NEW S, NEW q \in Seq(S), Distinct(q), NEW m \in 1 .. Len(q) + 1,
         NEW x \in S, x \notin Range(q)
  PROVE  /\ Distinct(InsertAt(q, m, x))
         /\ Range(InsertAt(q, m, x)) = Range(q) \cup {x}
<1> DEFINE r == InsertAt(q, m, x)
           n == Len(q)
<1>1. /\ r \in Seq(S)
      /\ Len(r) = n + 1
      /\ \A i \in 1 .. m - 1 : r[i] = q[i]
      /\ r[m] = x
      /\ \A i \in m + 1 .. n + 1 : r[i] = q[i - 1]
  BY InsertAtIs
<1>2. \A i \in 1 .. n : q[i] \in Range(q)
  BY InRange
<1>3. n \in Nat /\ m \in 1 .. n + 1
  OBVIOUS
<1>4. \A i, j \in 1 .. n : q[i] = q[j] => i = j
  BY DEF Distinct
<1>5. \A y \in Range(q) : \E i \in 1 .. n : y = q[i]
  BY InRange
<1> HIDE DEF r, n
<1>6. ASSUME NEW i \in 1 .. n + 1, NEW j \in 1 .. n + 1, r[i] = r[j] PROVE i = j
  <2>1. CASE i = m
    <3>1. ASSUME j # m PROVE FALSE
      <4>1. r[j] \in Range(q)
        BY <1>1, <1>2, <1>3, <3>1
      <4> QED BY <4>1, <1>1, <1>6, <2>1
    <3> QED BY <3>1, <2>1
  <2>2. CASE j = m
    <3>1. ASSUME i # m PROVE FALSE
      <4>1. r[i] \in Range(q)
        BY <1>1, <1>2, <1>3, <3>1
      <4> QED BY <4>1, <1>1, <1>6, <2>2
    <3> QED BY <3>1, <2>2
  <2>3. CASE i # m /\ j # m
    <3> DEFINE a == IF i < m THEN i ELSE i - 1
               b == IF j < m THEN j ELSE j - 1
    <3>1. a \in 1 .. n /\ b \in 1 .. n /\ r[i] = q[a] /\ r[j] = q[b]
      BY <1>1, <1>3, <2>3
    <3>2. a = b
      BY <3>1, <1>4, <1>6
    <3> QED BY <3>2, <2>3, <1>3
  <2> QED BY <2>1, <2>2, <2>3
<1>7. Distinct(r)
  BY <1>1, <1>6 DEF Distinct
<1>8. ASSUME NEW i \in 1 .. Len(r) PROVE r[i] \in Range(q) \cup {x}
  BY <1>1, <1>2, <1>3
<1>9. ASSUME NEW y \in Range(q) \cup {x} PROVE \E i \in 1 .. Len(r) : y = r[i]
  <2>1. CASE y = x
    BY <2>1, <1>1, <1>3
  <2>2. CASE y # x
    <3>1. PICK i \in 1 .. n : y = q[i]
      BY <2>2, <1>5
    <3>2. CASE i < m
      BY <3>1, <3>2, <1>1, <1>3
    <3>3. CASE i >= m
      <4>1. i + 1 \in m + 1 .. n + 1 /\ (i + 1) - 1 = i
        BY <3>3, <1>3
      <4>2. r[i + 1] = q[i]
        BY <4>1, <1>1
      <4> QED BY <4>1, <4>2, <3>1, <1>1, <1>3
    <3> QED BY <3>2, <3>3, <1>3
  <2> QED BY <2>1, <2>2
<1>10. Range(r) = Range(q) \cup {x}
  BY <1>1, <1>8, <1>9, RangeIs
<1> QED BY <1>7, <1>10 DEF r

(* uxListRemove, item by item.                                             *)
LEMMA RemoveIs ==
  ASSUME NEW S, NEW q \in Seq(S), NEW x \in Range(q)
  PROVE  \E m \in 1 .. Len(q) :
           /\ q[m] = x
           /\ uxListRemove(q, x) \in Seq(S)
           /\ Len(uxListRemove(q, x)) = Len(q) - 1
           /\ \A i \in 1 .. m - 1 : uxListRemove(q, x)[i] = q[i]
           /\ \A i \in m .. Len(q) - 1 : uxListRemove(q, x)[i] = q[i + 1]
<1> DEFINE I == {i \in 1 .. Len(q) : q[i] = x}
           m == Min(I)
           f == SubSeq(q, 1, m - 1)
           b == SubSeq(q, m + 1, Len(q))
<1>1. I # {} /\ I \in SUBSET Nat
  BY InRange
<1>2. m \in I
  BY <1>1, MinOf
<1> HIDE DEF m
<1>3. uxListRemove(q, x) = f \o b
  BY <1>1 DEF uxListRemove, RemoveFirst, RemoveAt, SelectInSeq, m
<1>4. m \in 1 .. Len(q) /\ q[m] = x
  BY <1>2
<1>5. 1 \in 1 .. Len(q) + 1 /\ m - 1 \in 1 - 1 .. Len(q)
  BY <1>4
<1>6. /\ f \in Seq(S) /\ Len(f) = m - 1 - 1 + 1
      /\ \A i \in 1 .. m - 1 - 1 + 1 : f[i] = q[1 + i - 1]
  BY <1>5, SubSeqIs
<1>7. f \in Seq(S) /\ Len(f) = m - 1 /\ \A i \in 1 .. m - 1 : f[i] = q[i]
  BY <1>6, <1>4
<1>8. m + 1 \in 1 .. Len(q) + 1 /\ Len(q) \in m + 1 - 1 .. Len(q)
  BY <1>4
<1>9. /\ b \in Seq(S) /\ Len(b) = Len(q) - (m + 1) + 1
      /\ \A i \in 1 .. Len(q) - (m + 1) + 1 : b[i] = q[m + 1 + i - 1]
  BY <1>8, SubSeqIs
<1>10. b \in Seq(S) /\ Len(b) = Len(q) - m /\ \A i \in 1 .. Len(q) - m : b[i] = q[m + i]
  BY <1>9, <1>4
<1> HIDE DEF f, b
<1>11. /\ f \o b \in Seq(S) /\ Len(f \o b) = Len(q) - 1
       /\ \A i \in 1 .. m - 1 : (f \o b)[i] = q[i]
  <2>0. f \in Seq(S) /\ b \in Seq(S)
    BY <1>7, <1>10
  <2>1. f \o b \in Seq(S) /\ Len(f \o b) = Len(f) + Len(b)
    BY <2>0
  <2>2. Len(f \o b) = Len(q) - 1
    BY <2>1, <1>4, <1>7, <1>10
  <2>3. ASSUME NEW i \in 1 .. m - 1 PROVE (f \o b)[i] = q[i]
    <3>1. (f \o b)[i] = f[i]
      BY <1>4, <1>7, <1>10
    <3> QED BY <3>1, <1>7
  <2> QED BY <2>1, <2>2, <2>3
<1>12. ASSUME NEW i \in m .. Len(q) - 1 PROVE (f \o b)[i] = q[i + 1]
  <2>1. i - (m - 1) \in 1 .. Len(q) - m /\ m + (i - (m - 1)) = i + 1
    BY <1>4
  <2>2. (f \o b)[i] = b[i - (m - 1)]
    BY <1>4, <1>7, <1>10, <2>1
  <2> QED BY <1>10, <2>1, <2>2
<1> QED BY <1>3, <1>4, <1>11, <1>12

(* A task that is removed from a ready list is in it no more.              *)
LEMMA RemoveRing ==
  ASSUME NEW T \in SUBSET AllTasks, NEW q, Ring(q, T), NEW t \in T
  PROVE  Ring(uxListRemove(q, t), T \ {t})
<1> DEFINE r == uxListRemove(q, t)
           n == Len(q)
<1>1. q \in Seq(Rungs) /\ Distinct(q) /\ Range(q) = T \cup {END}
  BY DEF Ring, Rungs
<1>2. t # END /\ t \in Range(q)
  BY <1>1, NamesAssumption
<1>3. PICK m \in 1 .. n :
           /\ q[m] = t
           /\ r \in Seq(Rungs)
           /\ Len(r) = n - 1
           /\ \A i \in 1 .. m - 1 : r[i] = q[i]
           /\ \A i \in m .. n - 1 : r[i] = q[i + 1]
  BY <1>1, <1>2, RemoveIs
<1>4. n \in Nat /\ m \in 1 .. n
  BY <1>1
<1>5. \A i, j \in 1 .. n : q[i] = q[j] => i = j
  BY <1>1 DEF Distinct
<1>6. \A y \in T \cup {END} : \E i \in 1 .. n : y = q[i]
  BY <1>1, InRange
<1>7. \A i \in 1 .. n : q[i] \in T \cup {END}
  BY <1>1, InRange
<1> HIDE DEF r, n
<1> DEFINE at(i) == IF i < m THEN i ELSE i + 1
<1>8. ASSUME NEW i \in 1 .. n - 1 PROVE at(i) \in 1 .. n /\ r[i] = q[at(i)] /\ at(i) # m
  BY <1>3, <1>4
<1>9. Distinct(r)
  <2> SUFFICES ASSUME NEW i \in 1 .. n - 1, NEW j \in 1 .. n - 1, r[i] = r[j] PROVE i = j
    BY <1>3 DEF Distinct
  <2>1. at(i) = at(j)
    <3>1. q[at(i)] = q[at(j)] /\ at(i) \in 1 .. n /\ at(j) \in 1 .. n
      BY <1>8
    <3> HIDE DEF at
    <3> QED BY <3>1, <1>5
  <2> QED BY <2>1, <1>4
<1>10. Range(r) = (T \ {t}) \cup {END}
  <2>1. ASSUME NEW i \in 1 .. Len(r) PROVE r[i] \in (T \ {t}) \cup {END}
    <3>1. i \in 1 .. n - 1
      BY <1>3
    <3>2. at(i) \in 1 .. n /\ r[i] = q[at(i)] /\ at(i) # m
      BY <3>1, <1>8
    <3> HIDE DEF at
    <3>3. q[at(i)] # t
      BY <3>2, <1>3, <1>4, <1>5
    <3> QED BY <3>2, <3>3, <1>7
  <2>2. ASSUME NEW y \in (T \ {t}) \cup {END} PROVE \E i \in 1 .. Len(r) : y = r[i]
    <3>1. PICK i \in 1 .. n : y = q[i]
      BY <1>6
    <3>2. i # m
      BY <3>1, <1>3, <1>2
    <3>3. CASE i < m
      BY <3>1, <3>3, <1>3, <1>4
    <3>4. CASE i > m
      <4>1. i - 1 \in m .. n - 1 /\ (i - 1) + 1 = i
        BY <3>4, <1>4
      <4>2. r[i - 1] = q[i]
        BY <4>1, <1>3
      <4> QED BY <4>1, <4>2, <3>1, <1>3, <1>4
    <3> QED BY <3>2, <3>3, <3>4, <1>4
  <2> QED BY <1>3, <2>1, <2>2, RangeIs
<1> QED BY <1>3, <1>9, <1>10 DEF Ring, Rungs, r

(* Turn, item by item.                                                     *)
LEMMA TurnIs ==
  ASSUME NEW S, NEW q \in Seq(S), q # <<>>
  PROVE  /\ Turn(q) \in Seq(S)
         /\ Len(Turn(q)) = Len(q)
         /\ \A i \in 1 .. Len(q) - 1 : Turn(q)[i] = q[i + 1]
         /\ Turn(q)[Len(q)] = q[1]
<1>1. /\ Tail(q) \in Seq(S) /\ Len(Tail(q)) = Len(q) - 1
      /\ \A i \in 1 .. Len(q) - 1 : Tail(q)[i] = q[i + 1]
  OBVIOUS
<1>2. Head(q) = q[1] /\ Head(q) \in S
  OBVIOUS
<1> QED BY <1>1, <1>2 DEF Turn

(* A turn of a ready list holds the same tasks.                            *)
LEMMA TurnRing ==
  ASSUME NEW T, NEW q, Ring(q, T)
  PROVE  /\ Ring(Turn(q), T)
         /\ Turn(q)[Len(Turn(q))] = q[1]
         /\ Len(Turn(q)) = Len(q)
         /\ Len(q) \in Nat /\ Len(q) > 0
         /\ Len(q) > 1 => Turn(q)[1] = q[2]
<1> DEFINE r == Turn(q)
           n == Len(q)
<1>1. q \in Seq(Rungs) /\ Distinct(q) /\ Range(q) = T \cup {END}
  BY DEF Ring, Rungs
<1>2. n \in Nat /\ n > 0
  BY <1>1, InRange
<1>3. /\ r \in Seq(Rungs)
      /\ Len(r) = n
      /\ \A i \in 1 .. n - 1 : r[i] = q[i + 1]
      /\ r[n] = q[1]
  BY <1>1, <1>2, TurnIs
<1>5. \A i, j \in 1 .. n : q[i] = q[j] => i = j
  BY <1>1 DEF Distinct
<1>6. \A y \in T \cup {END} : \E i \in 1 .. n : y = q[i]
  BY <1>1, InRange
<1>7. \A i \in 1 .. n : q[i] \in T \cup {END}
  BY <1>1, InRange
<1> HIDE DEF r, n
<1> DEFINE at(i) == IF i < n THEN i + 1 ELSE 1
<1>8. ASSUME NEW i \in 1 .. n PROVE at(i) \in 1 .. n /\ r[i] = q[at(i)]
  BY <1>3, <1>2
<1>9. Distinct(r)
  <2> SUFFICES ASSUME NEW i \in 1 .. n, NEW j \in 1 .. n, r[i] = r[j] PROVE i = j
    BY <1>3 DEF Distinct
  <2>1. at(i) = at(j)
    <3>1. q[at(i)] = q[at(j)] /\ at(i) \in 1 .. n /\ at(j) \in 1 .. n
      BY <1>8
    <3> HIDE DEF at
    <3> QED BY <3>1, <1>5
  <2> QED BY <2>1, <1>2
<1>10. Range(r) = T \cup {END}
  <2>1. ASSUME NEW i \in 1 .. Len(r) PROVE r[i] \in T \cup {END}
    <3>1. at(i) \in 1 .. n /\ r[i] = q[at(i)]
      BY <1>3, <1>8
    <3> HIDE DEF at
    <3> QED BY <3>1, <1>7
  <2>2. ASSUME NEW y \in T \cup {END} PROVE \E i \in 1 .. Len(r) : y = r[i]
    <3>1. PICK i \in 1 .. n : y = q[i]
      BY <1>6
    <3>2. CASE i = 1
      BY <3>1, <3>2, <1>2, <1>3
    <3>3. CASE i > 1
      <4>1. i - 1 \in 1 .. n - 1 /\ (i - 1) + 1 = i
        BY <3>3, <1>2
      <4>2. r[i - 1] = q[i]
        BY <4>1, <1>3
      <4> QED BY <4>1, <4>2, <3>1, <1>2, <1>3
    <3> QED BY <3>2, <3>3, <1>2
  <2> QED BY <1>3, <2>1, <2>2, RangeIs
<1>11. Ring(r, T)
  BY <1>3, <1>9, <1>10 DEF Ring, Rungs
<1>12. n > 1 => r[1] = q[2]
  BY <1>2, <1>3
<1> QED BY <1>2, <1>3, <1>11, <1>12 DEF r, n

(* A list has its marker only, or something else in it.                    *)
LEMMA EmptyRing ==
  ASSUME NEW T, NEW q, Ring(q, T), END \notin T
  PROVE  /\ ListLength(q) = 0 <=> T = {}
         /\ Len(q) \in Nat /\ Len(q) > 0
<1> DEFINE n == Len(q)
<1>1. q \in Seq(Rungs) /\ Distinct(q) /\ Range(q) = T \cup {END}
  BY DEF Ring, Rungs
<1>2. n \in Nat /\ n > 0
  BY <1>1, InRange
<1>3. \A i, j \in 1 .. n : q[i] = q[j] => i = j
  BY <1>1 DEF Distinct
<1>4. \A y \in T \cup {END} : \E i \in 1 .. n : y = q[i]
  BY <1>1, InRange
<1>5. \A i \in 1 .. n : q[i] \in T \cup {END}
  BY <1>1, InRange
<1> HIDE DEF n
<1>6. ASSUME n = 1 PROVE T = {}
  <2> SUFFICES ASSUME NEW y \in T PROVE FALSE
    OBVIOUS
  <2>1. PICK i \in 1 .. n : y = q[i]
    BY <1>4
  <2>2. PICK j \in 1 .. n : END = q[j]
    BY <1>4
  <2>3. i = 1 /\ j = 1
    BY <1>6
  <2> QED BY <2>1, <2>2, <2>3
<1>7. ASSUME n # 1 PROVE T # {}
  <2>1. 1 \in 1 .. n /\ 2 \in 1 .. n /\ q[1] # q[2]
    BY <1>2, <1>3, <1>7
  <2> QED BY <2>1, <1>5
<1>8. ListLength(q) = n - 1
  BY DEF ListLength, n
<1> QED BY <1>2, <1>6, <1>7, <1>8 DEF n

(* The next entry of a ready list that is not empty is a task, and not     *)
(* xListEnd.                                                               *)
LEMMA NextRing ==
  ASSUME NEW T, NEW q, Ring(q, T), END \notin T, T # {}
  PROVE  /\ Ring(NextEntry(q), T)
         /\ Last(NextEntry(q)) \in T
<1>1. Len(q) \in Nat /\ Len(q) > 1
  <2> DEFINE n == Len(q)
  <2>1. n \in Nat /\ n > 0 /\ n - 1 # 0
    BY EmptyRing DEF ListLength
  <2> HIDE DEF n
  <2>2. n > 1
    BY <2>1
  <2> QED BY <2>1, <2>2 DEF n
<1>2. q \in Seq(Rungs) /\ Distinct(q) /\ Range(q) = T \cup {END}
  BY DEF Ring, Rungs
<1>3. q[1] \in T \cup {END} /\ q[2] \in T \cup {END} /\ q[1] # q[2]
  <2>1. 1 \in 1 .. Len(q) /\ 2 \in 1 .. Len(q)
    BY <1>1
  <2>2. q[1] \in Range(q) /\ q[2] \in Range(q)
    BY <1>2, <2>1, InRange
  <2> QED BY <2>1, <2>2, <1>2 DEF Distinct
<1>4. /\ Ring(Turn(q), T)
      /\ Turn(q)[Len(Turn(q))] = q[1]
      /\ Len(Turn(q)) = Len(q)
      /\ Turn(q)[1] = q[2]
  BY <1>1, TurnRing
<1>5. /\ Ring(Turn(Turn(q)), T)
      /\ Turn(Turn(q))[Len(Turn(Turn(q)))] = Turn(q)[1]
  BY <1>4, TurnRing
<1>6. Head(q) = q[1]
  BY <1>1, <1>2
<1> QED BY <1>3, <1>4, <1>5, <1>6 DEF NextEntry, Last

-----------------------------------------------------------------------------
(* Lists that are kept in order.                                           *)

Sorted(q, key) == \A i, j \in 1 .. Len(q) : i < j => key[q[i]] <= key[q[j]]

(* The place vListInsert comes to is between the items that are not later  *)
(* and those that are not earlier.                                         *)
LEMMA PlaceFor ==
  ASSUME NEW S, NEW q \in Seq(S), NEW key \in [S -> Int], Sorted(q, key), NEW x \in S
  PROVE  LET m == FirstOf({i \in 1 .. Len(q) : key[q[i]] > key[x]}, q)
         IN /\ m \in 1 .. Len(q) + 1
            /\ \A i \in 1 .. Len(q) : i < m => key[q[i]] <= key[x]
            /\ \A i \in 1 .. Len(q) : i >= m => key[x] <= key[q[i]]
<1> DEFINE P == {i \in 1 .. Len(q) : key[q[i]] > key[x]}
           n == Len(q)
           m == FirstOf(P, q)
<1>1. /\ m \in 1 .. n + 1
      /\ m \in P \cup {n + 1}
      /\ \A i \in P : m <= i
  BY FirstOfIs
<1>3. n \in Nat /\ key[x] \in Int /\ \A i \in 1 .. n : key[q[i]] \in Int
  OBVIOUS
<1>4. \A i, j \in 1 .. n : i < j => key[q[i]] <= key[q[j]]
  BY DEF Sorted
<1>5. \A i \in 1 .. n : i \in P <=> key[q[i]] > key[x]
  OBVIOUS
<1> HIDE DEF n, P, m
<1>6. ASSUME NEW i \in 1 .. n, i < m PROVE key[q[i]] <= key[x]
  <2>1. i \notin P
    BY <1>1, <1>3, <1>6
  <2> QED BY <2>1, <1>3, <1>5
<1>7. ASSUME NEW i \in 1 .. n, i >= m PROVE key[x] <= key[q[i]]
  <2>1. m \in P /\ m \in 1 .. n
    BY <1>1, <1>3, <1>7 DEF P, n
  <2>2. key[x] < key[q[m]]
    BY <2>1, <1>3, <1>5
  <2>3. key[q[m]] <= key[q[i]]
    BY <1>3, <1>4, <1>7, <2>1
  <2> QED BY <2>1, <2>2, <2>3, <1>3
<1> QED BY <1>1, <1>6, <1>7 DEF m, n, P

(* An item that is inserted at such a place leaves the list in order.      *)
LEMMA InsertSorted ==
  ASSUME NEW S, NEW q \in Seq(S), NEW key \in [S -> Int], Sorted(q, key), NEW x \in S,
         NEW m \in 1 .. Len(q) + 1,
         \A i \in 1 .. Len(q) : i < m => key[q[i]] <= key[x],
         \A i \in 1 .. Len(q) : i >= m => key[x] <= key[q[i]]
  PROVE  Sorted(InsertAt(q, m, x), key)
<1> DEFINE r == InsertAt(q, m, x)
           n == Len(q)
<1>0. /\ r \in Seq(S)
      /\ Len(r) = n + 1
      /\ \A i \in 1 .. m - 1 : r[i] = q[i]
      /\ r[m] = x
      /\ \A i \in m + 1 .. n + 1 : r[i] = q[i - 1]
  BY InsertAtIs
<1>2. /\ Len(r) = n + 1
      /\ \A i \in 1 .. m - 1 : r[i] = q[i]
      /\ r[m] = x
      /\ \A i \in m + 1 .. n + 1 : r[i] = q[i - 1]
  BY <1>0
<1>1. m \in 1 .. n + 1
  OBVIOUS
<1>3. n \in Nat /\ key[x] \in Int /\ \A i \in 1 .. n : key[q[i]] \in Int
  OBVIOUS
<1>4. \A i, j \in 1 .. n : i < j => key[q[i]] <= key[q[j]]
  BY DEF Sorted
<1>6. \A i \in 1 .. n : i < m => key[q[i]] <= key[x]
  OBVIOUS
<1>7. \A i \in 1 .. n : i >= m => key[x] <= key[q[i]]
  OBVIOUS
<1> HIDE DEF r, n
<1>8. ASSUME NEW i \in 1 .. n + 1, NEW j \in 1 .. n + 1, i < j PROVE key[r[i]] <= key[r[j]]
  <2>1. CASE j < m
    <3>1. i \in 1 .. n /\ j \in 1 .. n /\ r[i] = q[i] /\ r[j] = q[j]
      BY <2>1, <1>1, <1>2, <1>3, <1>8
    <3> QED BY <3>1, <1>4, <1>8
  <2>2. CASE j = m
    <3>1. i \in 1 .. n /\ r[i] = q[i] /\ i < m
      BY <2>2, <1>1, <1>2, <1>3, <1>8
    <3> QED BY <3>1, <2>2, <1>2, <1>6
  <2>3. CASE j > m /\ i < m
    <3>1. i \in 1 .. m - 1 /\ j \in m + 1 .. n + 1 /\ i \in 1 .. n /\ j - 1 \in 1 .. n
      BY <2>3, <1>1, <1>3, <1>8
    <3>2. r[i] = q[i] /\ r[j] = q[j - 1]
      BY <3>1, <1>2
    <3>3. i < j - 1
      BY <2>3, <1>1, <1>3, <1>8
    <3> QED BY <3>1, <3>2, <3>3, <1>4
  <2>4. CASE j > m /\ i = m
    <3>1. j - 1 \in 1 .. n /\ r[j] = q[j - 1] /\ j - 1 >= m
      BY <2>4, <1>1, <1>2, <1>3, <1>8
    <3> QED BY <3>1, <2>4, <1>2, <1>7
  <2>5. CASE j > m /\ i > m
    <3>1. /\ i - 1 \in 1 .. n /\ j - 1 \in 1 .. n /\ i - 1 < j - 1
          /\ r[i] = q[i - 1] /\ r[j] = q[j - 1]
      BY <2>5, <1>1, <1>2, <1>3, <1>8
    <3> QED BY <3>1, <1>4
  <2> QED BY <2>1, <2>2, <2>3, <2>4, <2>5, <1>1, <1>3, <1>8
<1> QED BY <1>2, <1>8 DEF Sorted, r

WakeKey == [e \in Items |-> e.wake]

(* A list of sleepers is in the order of wake times.                       *)
LEMMA QueueIs ==
  ASSUME NEW q
  PROVE  Queue(q) <=> q \in Seq(Items) /\ Distinct(q) /\ Sorted(q, WakeKey)
<1> SUFFICES ASSUME q \in Seq(Items)
             PROVE  Sorted(q, WakeKey) <=>
                      \A i, j \in 1 .. Len(q) : i < j => q[i].wake <= q[j].wake
  BY DEF Queue
<1>1. \A i \in 1 .. Len(q) : q[i] \in Items /\ WakeKey[q[i]] = q[i].wake
  BY DEF WakeKey
<1> QED BY <1>1 DEF Sorted

(* The fields of an item.                                                  *)
LEMMA ItemWake == \A e \in Items : e.wake \in Clock /\ e.wake \in Nat /\ e.task \in Tasks
BY WrapAssumption DEF Items, Clock

(* vListInsert keeps a list of sleepers in order.                          *)
LEMMA InsertQueue ==
  ASSUME NEW q, Queue(q), NEW x \in Items, x \notin Range(q)
  PROVE  Queue(vListInsert(q, x)) /\ Range(vListInsert(q, x)) = Range(q) \cup {x}
<1> DEFINE P == {i \in 1 .. Len(q) : WakeKey[q[i]] > WakeKey[x]}
           m == FirstOf(P, q)
<1>1. q \in Seq(Items) /\ Distinct(q) /\ Sorted(q, WakeKey)
  BY QueueIs
<1>2. WakeKey \in [Items -> Int]
  BY ItemWake DEF WakeKey
<1>3. P = {i \in DOMAIN q : q[i].wake > x.wake}
  <2>1. DOMAIN q = 1 .. Len(q) /\ \A i \in 1 .. Len(q) : q[i] \in Items
    BY <1>1
  <2> QED BY <2>1 DEF WakeKey
<1>4. vListInsert(q, x) = InsertAt(q, m, x)
  BY <1>3 DEF vListInsert
<1>9. /\ m \in 1 .. Len(q) + 1
      /\ \A i \in 1 .. Len(q) : i < m => WakeKey[q[i]] <= WakeKey[x]
      /\ \A i \in 1 .. Len(q) : i >= m => WakeKey[x] <= WakeKey[q[i]]
  BY <1>1, <1>2, PlaceFor
<1> HIDE DEF P, m
<1>5. m \in 1 .. Len(q) + 1 /\ Sorted(InsertAt(q, m, x), WakeKey)
  BY <1>1, <1>2, <1>9, InsertSorted
<1> HIDE DEF m
<1>6. Distinct(InsertAt(q, m, x)) /\ Range(InsertAt(q, m, x)) = Range(q) \cup {x}
  BY <1>1, <1>5, InsertAtDistinct
<1>7. InsertAt(q, m, x) \in Seq(Items)
  BY <1>1, <1>5, InsertAtIs
<1> QED BY <1>4, <1>5, <1>6, <1>7, QueueIs

Ranked(q, prio) == \A i, j \in 1 .. Len(q) : i < j => prio[q[i]] >= prio[q[j]]

(* A task that is put on the event list leaves it in the order of          *)
(* priorities.                                                             *)
LEMMA InsertRanked ==
  ASSUME NEW q \in Seq(Tasks), Distinct(q), NEW prio \in [AllTasks -> Nat], Ranked(q, prio),
         NEW t \in Tasks, t \notin Range(q)
  PROVE  LET r == ByPriority(q, t, prio)
         IN /\ r \in Seq(Tasks) /\ Distinct(r) /\ Ranked(r, prio)
            /\ Range(r) = Range(q) \cup {t}
<1> DEFINE key == [u \in Tasks |-> 0 - prio[u]]
           P == {i \in 1 .. Len(q) : key[q[i]] > key[t]}
           m == FirstOf(P, q)
<1>0. \A u \in Tasks : prio[u] \in Nat /\ key[u] = 0 - prio[u]
  BY DEF AllTasks
<1>1. key \in [Tasks -> Int]
  BY <1>0
<1>2. \A z \in Seq(Tasks) : Ranked(z, prio) <=> Sorted(z, key)
  <2> SUFFICES ASSUME NEW z \in Seq(Tasks) PROVE Ranked(z, prio) <=> Sorted(z, key)
    OBVIOUS
  <2>1. \A i \in 1 .. Len(z) : z[i] \in Tasks
    OBVIOUS
  <2> HIDE DEF key
  <2>2. \A i, j \in 1 .. Len(z) : prio[z[i]] >= prio[z[j]] <=> key[z[i]] <= key[z[j]]
    BY <2>1, <1>0
  <2> QED BY <2>2 DEF Ranked, Sorted
<1>3. P = {i \in DOMAIN q : prio[q[i]] < prio[t]}
  <2>1. DOMAIN q = 1 .. Len(q) /\ \A i \in 1 .. Len(q) : q[i] \in Tasks
    OBVIOUS
  <2> HIDE DEF key
  <2>2. \A i \in 1 .. Len(q) : key[q[i]] > key[t] <=> prio[q[i]] < prio[t]
    BY <1>0, <2>1
  <2> QED BY <2>1, <2>2
<1>4. ByPriority(q, t, prio) = InsertAt(q, m, t)
  BY <1>3 DEF ByPriority
<1>8. Sorted(q, key)
  BY <1>2
<1> HIDE DEF key
<1>9. /\ m \in 1 .. Len(q) + 1
      /\ \A i \in 1 .. Len(q) : i < m => key[q[i]] <= key[t]
      /\ \A i \in 1 .. Len(q) : i >= m => key[t] <= key[q[i]]
  BY <1>1, <1>8, PlaceFor
<1> HIDE DEF P, m
<1>5. m \in 1 .. Len(q) + 1 /\ Sorted(InsertAt(q, m, t), key)
  BY <1>1, <1>8, <1>9, InsertSorted
<1> HIDE DEF m
<1>6. Distinct(InsertAt(q, m, t)) /\ Range(InsertAt(q, m, t)) = Range(q) \cup {t}
  BY <1>5, InsertAtDistinct
<1>7. InsertAt(q, m, t) \in Seq(Tasks)
  BY <1>5, InsertAtIs
<1> QED BY <1>2, <1>4, <1>5, <1>6, <1>7

(* The part of a sequence of different things from m to n.                 *)
LEMMA PartIs ==
  ASSUME NEW S, NEW q \in Seq(S), Distinct(q),
         NEW m \in 1 .. Len(q) + 1, NEW n \in m - 1 .. Len(q)
  PROVE  /\ SubSeq(q, m, n) \in Seq(S)
         /\ Len(SubSeq(q, m, n)) = n - m + 1
         /\ \A i \in 1 .. n - m + 1 : SubSeq(q, m, n)[i] = q[m + i - 1]
         /\ Distinct(SubSeq(q, m, n))
         /\ Range(SubSeq(q, m, n)) = {q[i] : i \in m .. n}
<1> DEFINE r == SubSeq(q, m, n)
           l == Len(q)
<1>1. /\ r \in Seq(S)
      /\ Len(r) = n - m + 1
      /\ \A i \in 1 .. n - m + 1 : r[i] = q[m + i - 1]
  BY SubSeqIs
<1>2. l \in Nat /\ m \in 1 .. l + 1 /\ n \in m - 1 .. l
  OBVIOUS
<1>3. \A i, j \in 1 .. l : q[i] = q[j] => i = j
  BY DEF Distinct
<1> HIDE DEF r, l
<1>4. Distinct(r)
  <2> SUFFICES ASSUME NEW i \in 1 .. n - m + 1, NEW j \in 1 .. n - m + 1, r[i] = r[j]
               PROVE  i = j
    BY <1>1 DEF Distinct
  <2>1. m + i - 1 \in 1 .. l /\ m + j - 1 \in 1 .. l
    BY <1>2
  <2>2. m + i - 1 = m + j - 1
    BY <2>1, <1>1, <1>3
  <2> QED BY <2>2, <1>2
<1>5. ASSUME NEW i \in 1 .. Len(r) PROVE r[i] \in {q[j] : j \in m .. n}
  <2>1. i \in 1 .. n - m + 1 /\ m + i - 1 \in m .. n
    BY <1>1, <1>2
  <2> QED BY <2>1, <1>1
<1>6. ASSUME NEW x \in {q[j] : j \in m .. n} PROVE \E i \in 1 .. Len(r) : x = r[i]
  <2>1. PICK j \in m .. n : x = q[j]
    OBVIOUS
  <2>2. j - m + 1 \in 1 .. n - m + 1 /\ m + (j - m + 1) - 1 = j
    BY <1>2
  <2>3. r[j - m + 1] = q[j]
    BY <2>2, <1>1
  <2> QED BY <2>1, <2>2, <2>3, <1>1
<1>7. Range(r) = {q[j] : j \in m .. n}
  BY <1>1, <1>5, <1>6, RangeIs
<1> QED BY <1>1, <1>4, <1>7 DEF r

Due(q, now) == SubSeq(q, 1, FirstOf({i \in DOMAIN q : q[i].wake > now}, q) - 1)
Left(q, now) == SubSeq(q, FirstOf({i \in DOMAIN q : q[i].wake > now}, q), Len(q))

(* The loop of xTaskIncrementTick takes the items that are due and leaves  *)
(* those that are not.                                                     *)
LEMMA SplitQueue ==
  ASSUME NEW q, Queue(q), NEW now \in Clock
  PROVE  /\ Due(q, now) \in Seq(Items) /\ Distinct(Due(q, now))
         /\ Range(Due(q, now)) = {e \in Range(q) : e.wake <= now}
         /\ Queue(Left(q, now))
         /\ Range(Left(q, now)) = {e \in Range(q) : e.wake > now}
<1> DEFINE P == {i \in DOMAIN q : q[i].wake > now}
           m == FirstOf(P, q)
           n == Len(q)
<1>1. q \in Seq(Items) /\ Distinct(q) /\ \A i, j \in 1 .. n : i < j => q[i].wake <= q[j].wake
  BY DEF Queue
<1>2. P \in SUBSET (1 .. n) /\ n \in Nat
  BY <1>1
<1>3. \A i \in 1 .. n : q[i] \in Items /\ q[i].wake \in Nat /\ now \in Nat
  BY <1>1, ItemWake, WrapAssumption DEF Clock
<1>4. /\ m \in 1 .. n + 1
      /\ m \in P \cup {n + 1}
      /\ \A i \in P : m <= i
  BY <1>1, <1>2, FirstOfIs
<1>5. \A i \in 1 .. n : i \in P <=> q[i].wake > now
  BY <1>1
<1>6. Due(q, now) = SubSeq(q, 1, m - 1) /\ Left(q, now) = SubSeq(q, m, n)
  BY DEF Due, Left
<1>20. m - 1 \in 1 - 1 .. n /\ 1 \in 1 .. n + 1 /\ n \in m - 1 .. n
  BY <1>2, <1>4
<1> HIDE DEF P, m
<1>7. /\ SubSeq(q, 1, m - 1) \in Seq(Items) /\ Distinct(SubSeq(q, 1, m - 1))
      /\ Range(SubSeq(q, 1, m - 1)) = {q[i] : i \in 1 .. m - 1}
  BY <1>1, <1>20, PartIs
<1>21. m \in 1 .. Len(q) + 1 /\ Len(q) \in m - 1 .. Len(q)
  BY <1>20, <1>4
<1>8. /\ SubSeq(q, m, n) \in Seq(Items)
      /\ Len(SubSeq(q, m, n)) = n - m + 1
      /\ \A i \in 1 .. n - m + 1 : SubSeq(q, m, n)[i] = q[m + i - 1]
      /\ Distinct(SubSeq(q, m, n))
      /\ Range(SubSeq(q, m, n)) = {q[i] : i \in m .. n}
  BY <1>1, <1>21, PartIs
<1>9. \A x : x \in Range(q) <=> \E i \in 1 .. n : x = q[i]
  BY <1>1, InRange
<1> HIDE DEF n
<1>10. \A i \in 1 .. n : i < m => q[i].wake <= now
  BY <1>2, <1>3, <1>4, <1>5
<1>11. ASSUME NEW i \in 1 .. n, i >= m PROVE q[i].wake > now
  <2>1. m \in P /\ m \in 1 .. n
    BY <1>2, <1>4, <1>11
  <2>2. q[m].wake > now
    BY <2>1, <1>5
  <2>3. q[m].wake <= q[i].wake
    BY <2>1, <1>1, <1>3, <1>11
  <2> QED BY <2>1, <2>2, <2>3, <1>3
<1>12. {q[i] : i \in 1 .. m - 1} = {e \in Range(q) : e.wake <= now}
  <2>1. ASSUME NEW i \in 1 .. m - 1 PROVE q[i] \in Range(q) /\ q[i].wake <= now
    BY <1>2, <1>4, <1>9, <1>10
  <2>2. ASSUME NEW e \in Range(q), e.wake <= now PROVE e \in {q[i] : i \in 1 .. m - 1}
    <3>1. PICK i \in 1 .. n : e = q[i]
      BY <1>9
    <3>2. i < m
      BY <3>1, <2>2, <1>3, <1>4, <1>2, <1>11
    <3> QED BY <3>1, <3>2, <1>2, <1>4
  <2> QED BY <2>1, <2>2
<1>13. {q[i] : i \in m .. n} = {e \in Range(q) : e.wake > now}
  <2>1. ASSUME NEW i \in m .. n PROVE q[i] \in Range(q) /\ q[i].wake > now
    BY <1>2, <1>4, <1>9, <1>11
  <2>2. ASSUME NEW e \in Range(q), e.wake > now PROVE e \in {q[i] : i \in m .. n}
    <3>1. PICK i \in 1 .. n : e = q[i]
      BY <1>9
    <3>2. i >= m
      BY <3>1, <2>2, <1>3, <1>4, <1>2, <1>10
    <3> QED BY <3>1, <3>2, <1>2, <1>4
  <2> QED BY <2>1, <2>2
<1>14. ASSUME NEW i \in 1 .. n - m + 1, NEW j \in 1 .. n - m + 1, i < j
       PROVE  SubSeq(q, m, n)[i].wake <= SubSeq(q, m, n)[j].wake
  <2>1. m + i - 1 \in 1 .. n /\ m + j - 1 \in 1 .. n /\ m + i - 1 < m + j - 1
    BY <1>2, <1>4, <1>14
  <2> QED BY <2>1, <1>1, <1>8
<1>15. Queue(SubSeq(q, m, n))
  BY <1>8, <1>14 DEF Queue
<1> QED BY <1>6, <1>7, <1>8, <1>12, <1>13, <1>15

(* The first item of a queue is due before the others.                     *)
LEMMA HeadOfQueue ==
  ASSUME NEW q, Queue(q), q # <<>>
  PROVE  /\ Head(q) \in Items
         /\ Head(q) \in Range(q)
         /\ \A e \in Range(q) : Head(q).wake <= e.wake
<1>1. q \in Seq(Items) /\ \A i, j \in 1 .. Len(q) : i < j => q[i].wake <= q[j].wake
  BY DEF Queue
<1>2. 1 \in 1 .. Len(q) /\ Head(q) = q[1]
  BY <1>1
<1>3. Head(q) \in Range(q) /\ Head(q) \in Items
  BY <1>1, <1>2, InRange
<1>4. ASSUME NEW e \in Range(q) PROVE Head(q).wake <= e.wake
  <2>1. PICK i \in 1 .. Len(q) : e = q[i]
    BY <1>1, InRange
  <2>2. q[1].wake \in Nat
    BY <1>1, <1>2, ItemWake
  <2> QED BY <2>1, <2>2, <1>1, <1>2
<1> QED BY <1>3, <1>4

(* A new item at the end of a list.                                        *)
LEMMA AppendDistinct ==
  ASSUME NEW S, NEW q \in Seq(S), Distinct(q), NEW x \in S, x \notin Range(q)
  PROVE  /\ Append(q, x) \in Seq(S)
         /\ Distinct(Append(q, x))
         /\ Range(Append(q, x)) = Range(q) \cup {x}
<1> DEFINE r == Append(q, x)
           n == Len(q)
<1>1. n \in Nat /\ r \in Seq(S) /\ Len(r) = n + 1 /\ r[n + 1] = x /\ \A i \in 1 .. n : r[i] = q[i]
  OBVIOUS
<1>2. \A i, j \in 1 .. n : q[i] = q[j] => i = j
  BY DEF Distinct
<1>3. \A y : y \in Range(q) <=> \E i \in 1 .. n : y = q[i]
  BY InRange
<1> HIDE DEF r, n
<1>4. Distinct(r)
  <2> SUFFICES ASSUME NEW i \in 1 .. n + 1, NEW j \in 1 .. n + 1, r[i] = r[j] PROVE i = j
    BY <1>1 DEF Distinct
  <2> QED BY <1>1, <1>2, <1>3
<1>5. \A i \in 1 .. Len(r) : r[i] \in Range(q) \cup {x}
  BY <1>1, <1>3
<1>6. \A y \in Range(q) \cup {x} : \E i \in 1 .. Len(r) : y = r[i]
  BY <1>1, <1>3
<1>7. Range(r) = Range(q) \cup {x}
  BY <1>1, <1>5, <1>6, RangeIs
<1> QED BY <1>1, <1>4, <1>7 DEF r

(* A list without its first item.                                          *)
LEMMA TailDistinct ==
  ASSUME NEW S, NEW q \in Seq(S), Distinct(q), q # <<>>
  PROVE  /\ Head(q) \in S /\ Head(q) \in Range(q) /\ Head(q) = q[1]
         /\ Tail(q) \in Seq(S)
         /\ Len(Tail(q)) = Len(q) - 1
         /\ \A i \in 1 .. Len(q) - 1 : Tail(q)[i] = q[i + 1]
         /\ Distinct(Tail(q))
         /\ Range(Tail(q)) = Range(q) \ {Head(q)}
<1> DEFINE r == Tail(q)
           n == Len(q)
<1>1. /\ n \in Nat /\ n > 0 /\ r \in Seq(S) /\ Len(r) = n - 1
      /\ \A i \in 1 .. n - 1 : r[i] = q[i + 1]
  OBVIOUS
<1>2. \A i, j \in 1 .. n : q[i] = q[j] => i = j
  BY DEF Distinct
<1>3. \A y : y \in Range(q) <=> \E i \in 1 .. n : y = q[i]
  BY InRange
<1>4. Head(q) = q[1] /\ Head(q) \in S
  OBVIOUS
<1> HIDE DEF r, n
<1>5. Distinct(r)
  <2> SUFFICES ASSUME NEW i \in 1 .. n - 1, NEW j \in 1 .. n - 1, r[i] = r[j] PROVE i = j
    BY <1>1 DEF Distinct
  <2>1. i + 1 \in 1 .. n /\ j + 1 \in 1 .. n /\ i + 1 = j + 1
    BY <1>1, <1>2
  <2> QED BY <2>1
<1>6. ASSUME NEW i \in 1 .. n - 1 PROVE r[i] \in Range(q) \ {q[1]}
  <2>1. i + 1 \in 1 .. n /\ 1 \in 1 .. n /\ i + 1 # 1
    BY <1>1
  <2>2. q[i + 1] # q[1] /\ q[i + 1] \in Range(q)
    BY <2>1, <1>2, <1>3
  <2> QED BY <2>2, <1>1
<1>7. ASSUME NEW y \in Range(q) \ {q[1]} PROVE \E i \in 1 .. n - 1 : y = r[i]
  <2>1. PICK i \in 1 .. n : y = q[i] /\ i # 1
    BY <1>3
  <2>2. i - 1 \in 1 .. n - 1 /\ (i - 1) + 1 = i
    BY <2>1, <1>1
  <2>3. r[i - 1] = q[i]
    BY <2>2, <1>1
  <2> QED BY <2>1, <2>2, <2>3
<1>8. Range(r) = Range(q) \ {q[1]}
  <2>1. \A i \in 1 .. Len(r) : r[i] \in Range(q) \ {q[1]}
    BY <1>1, <1>6
  <2>2. \A y \in Range(q) \ {q[1]} : \E i \in 1 .. Len(r) : y = r[i]
    BY <1>1, <1>7
  <2> QED BY <1>1, <2>1, <2>2, RangeIs
<1>9. q[1] \in Range(q)
  BY <1>1, <1>3
<1> QED BY <1>1, <1>4, <1>5, <1>8, <1>9 DEF r, n

-----------------------------------------------------------------------------
(* Operations on the ready lists.                                          *)

(* What the operations on the ready lists leave alone.                     *)
SameRest(k, n) ==
  /\ n.prio = k.prio /\ n.current = k.current
  /\ n.delayed = k.delayed /\ n.overflow = k.overflow /\ n.blocked = k.blocked
  /\ n.tick = k.tick /\ n.next = k.next
  /\ n.suspended = k.suspended /\ n.pended = k.pended /\ n.yield = k.yield

(* The ready lists are exactly those of the tasks in R.                    *)
LEMMA ReadyIs ==
  ASSUME NEW k \in Scheduler, NEW R \in SUBSET AllTasks, Lists(k, R)
  PROVE  ReadySet(k) = R
<1>1. \A p \in Priorities : Range(k.ready[p]) = {t \in R : k.prio[t] = p} \cup {END}
  BY DEF Lists, Ring
<1>2. \A t \in AllTasks : k.prio[t] \in Priorities
  BY DEF Scheduler
<1>3. ASSUME NEW t \in AllTasks PROVE IsReady(k, t) <=> t \in R
  BY <1>1, <1>2, NamesAssumption DEF IsReady
<1> QED BY <1>3 DEF ReadySet

(* A ready task is in the list of its priority.                            *)
LEMMA InList ==
  ASSUME NEW k \in Scheduler, NEW R \in SUBSET AllTasks, Lists(k, R), NEW t \in AllTasks
  PROVE  t \in Range(k.ready[k.prio[t]]) <=> t \in R
<1>1. k.prio[t] \in Priorities
  BY DEF Scheduler
<1>2. Range(k.ready[k.prio[t]]) = {u \in R : k.prio[u] = k.prio[t]} \cup {END}
  BY <1>1 DEF Lists, Ring
<1> QED BY <1>2, NamesAssumption

(* prvAddTaskToReadyList keeps the lists and the bitmap in step.           *)
LEMMA AddIs ==
  ASSUME NEW k \in Scheduler, NEW R \in SUBSET AllTasks, Lists(k, R), NEW t \in AllTasks \ R
  PROVE  LET n == prvAddTaskToReadyList(k, t)
         IN n \in Scheduler /\ Lists(n, R \cup {t}) /\ SameRest(k, n)
<1> DEFINE p == k.prio[t]
           list == vListInsertEnd(k.ready[p], t)
           ready == [k.ready EXCEPT ![p] = list]
           top == k.top \cup {p}
           n == [k EXCEPT !.ready = ready, !.top = top]
           T(q) == {u \in R : k.prio[u] = q}
<1>1. p \in Priorities /\ k.ready \in [Priorities -> Seq(AllTasks \cup {END})] /\ k.top \in SUBSET Priorities
  BY DEF Scheduler
<1>2. Ring(k.ready[p], T(p)) /\ t \in AllTasks \ T(p) /\ T(p) \in SUBSET AllTasks
  BY <1>1 DEF Lists
<1>3. Ring(list, T(p) \cup {t})
  BY <1>2, InsertEndRing
<1>4. list \in Seq(AllTasks \cup {END})
  BY <1>3 DEF Ring
<1> HIDE DEF list
<1>5. ready \in [Priorities -> Seq(AllTasks \cup {END})] /\ top \in SUBSET Priorities
  BY <1>1, <1>4
<1>6. prvAddTaskToReadyList(k, t) = n
  BY DEF prvAddTaskToReadyList, Scheduler, list
<1>7. n \in Scheduler /\ n.ready = ready /\ n.top = top /\ SameRest(k, n)
  <2> HIDE DEF ready, top
  <2> QED BY <1>5 DEF Scheduler, SameRest
<1> HIDE DEF n
<1>8. n.prio = k.prio
  BY <1>7 DEF SameRest
<1>9. ASSUME NEW q \in Priorities PROVE Ring(n.ready[q], {u \in R \cup {t} : n.prio[u] = q})
  <2>1. CASE q = p
    <3>1. {u \in R \cup {t} : n.prio[u] = q} = T(p) \cup {t}
      BY <2>1, <1>8
    <3> QED BY <3>1, <2>1, <1>1, <1>3, <1>7
  <2>2. CASE q # p
    <3>1. {u \in R \cup {t} : n.prio[u] = q} = T(q)
      BY <2>2, <1>8
    <3>2. n.ready[q] = k.ready[q]
      BY <2>2, <1>1, <1>7
    <3> QED BY <3>1, <3>2 DEF Lists
  <2> QED BY <2>1, <2>2
<1>10. n.top = {n.prio[u] : u \in R \cup {t}}
  BY <1>7, <1>8 DEF Lists
<1>11. Lists(n, R \cup {t})
  BY <1>9, <1>10 DEF Lists
<1> QED BY <1>6, <1>7, <1>11

(* So does uxListRemove with portRESET_READY_PRIORITY.                     *)
LEMMA RemoveReadyIs ==
  ASSUME NEW k \in Scheduler, NEW R \in SUBSET AllTasks, Lists(k, R), NEW t \in R
  PROVE  LET n == RemoveFromReadyList(k, t)
         IN n \in Scheduler /\ Lists(n, R \ {t}) /\ SameRest(k, n)
<1> DEFINE p == k.prio[t]
           list == uxListRemove(k.ready[p], t)
           ready == [k.ready EXCEPT ![p] = list]
           top == IF ListLength(list) = 0 THEN k.top \ {p} ELSE k.top
           n == [k EXCEPT !.ready = ready, !.top = top]
           T(q) == {u \in R : k.prio[u] = q}
<1>1. p \in Priorities /\ k.ready \in [Priorities -> Seq(AllTasks \cup {END})] /\ k.top \in SUBSET Priorities
  BY DEF Scheduler
<1>2. Ring(k.ready[p], T(p)) /\ t \in T(p) /\ T(p) \in SUBSET AllTasks
  BY <1>1 DEF Lists
<1>3. Ring(list, T(p) \ {t})
  BY <1>2, RemoveRing
<1>4. list \in Seq(AllTasks \cup {END})
  BY <1>3 DEF Ring
<1>12. ListLength(list) = 0 <=> T(p) \ {t} = {}
  <2>1. END \notin T(p) \ {t}
    BY NamesAssumption
  <2> HIDE DEF list, T
  <2> QED BY <1>3, <2>1, EmptyRing
<1>6. RemoveFromReadyList(k, t) = n
  BY DEF RemoveFromReadyList, Scheduler
<1> HIDE DEF list
<1>5. ready \in [Priorities -> Seq(AllTasks \cup {END})] /\ top \in SUBSET Priorities
  BY <1>1, <1>4
<1>7. n \in Scheduler /\ n.ready = ready /\ n.top = top /\ SameRest(k, n)
  <2> HIDE DEF ready, top
  <2> QED BY <1>5 DEF Scheduler, SameRest
<1> HIDE DEF n
<1>8. n.prio = k.prio
  BY <1>7 DEF SameRest
<1>9. ASSUME NEW q \in Priorities PROVE Ring(n.ready[q], {u \in R \ {t} : n.prio[u] = q})
  <2>1. CASE q = p
    <3>1. {u \in R \ {t} : n.prio[u] = q} = T(p) \ {t}
      BY <2>1, <1>8
    <3> QED BY <3>1, <2>1, <1>1, <1>3, <1>7
  <2>2. CASE q # p
    <3>1. {u \in R \ {t} : n.prio[u] = q} = T(q)
      BY <2>2, <1>8
    <3>2. n.ready[q] = k.ready[q]
      BY <2>2, <1>1, <1>7
    <3> QED BY <3>1, <3>2 DEF Lists
  <2> QED BY <2>1, <2>2
<1>10. n.top = {n.prio[u] : u \in R \ {t}}
  <2>1. k.top = {k.prio[u] : u \in R}
    BY DEF Lists
  <2>2. CASE T(p) \ {t} = {}
    <3>1. \A u \in R \ {t} : k.prio[u] # p
      BY <2>2
    <3> QED BY <3>1, <2>1, <2>2, <1>7, <1>8, <1>12
  <2>3. CASE T(p) \ {t} # {}
    <3>1. \E u \in R \ {t} : k.prio[u] = p
      BY <2>3
    <3> QED BY <3>1, <2>1, <2>3, <1>7, <1>8, <1>12
  <2> QED BY <2>2, <2>3
<1>11. Lists(n, R \ {t})
  BY <1>9, <1>10 DEF Lists
<1> QED BY <1>6, <1>7, <1>11

(* vTaskSwitchContext picks a ready task that none comes before.           *)
LEMMA SwitchIs ==
  ASSUME NEW k \in Scheduler, NEW R \in SUBSET AllTasks, Lists(k, R), R # {}, ~k.suspended
  PROVE  LET n == vTaskSwitchContext(k)
         IN /\ n \in Scheduler /\ Lists(n, R) /\ Highest(n, R)
            /\ n.yield = FALSE
            /\ n.prio = k.prio
            /\ n.delayed = k.delayed /\ n.overflow = k.overflow /\ n.blocked = k.blocked
            /\ n.tick = k.tick /\ n.next = k.next
            /\ n.suspended = FALSE /\ n.pended = k.pended
<1> DEFINE p == Max(k.top)
           list == NextEntry(k.ready[p])
           ready == [k.ready EXCEPT ![p] = list]
           n == [k EXCEPT !.yield = FALSE, !.ready = ready, !.current = Last(list)]
           T(q) == {u \in R : k.prio[u] = q}
<1>1. k.ready \in [Priorities -> Seq(AllTasks \cup {END})] /\ k.top \in SUBSET Priorities /\ k.suspended = FALSE
      /\ \A t \in AllTasks : k.prio[t] \in Priorities
  BY DEF Scheduler
<1>2. k.top = {k.prio[u] : u \in R}
  BY DEF Lists
<1>3. p \in k.top /\ \A q \in k.top : q <= p
  BY <1>1, <1>2, TopOf
<1> HIDE DEF p
<1>4. p \in Priorities /\ T(p) # {} /\ END \notin T(p) /\ Ring(k.ready[p], T(p))
  BY <1>1, <1>2, <1>3, NamesAssumption DEF Lists
<1>5. Ring(list, T(p)) /\ Last(list) \in T(p)
  <2> HIDE DEF T
  <2> QED BY <1>4, NextRing
<1>6. list \in Seq(AllTasks \cup {END})
  BY <1>5 DEF Ring
<1>7. vTaskSwitchContext(k) = n
  BY <1>1 DEF vTaskSwitchContext, Scheduler, p
<1> HIDE DEF list
<1>8. ready \in [Priorities -> Seq(AllTasks \cup {END})] /\ Last(list) \in AllTasks
  BY <1>1, <1>4, <1>5, <1>6
<1> HIDE DEF ready
<1>9. /\ n \in Scheduler /\ n.ready = ready /\ n.top = k.top /\ n.current = Last(list)
      /\ n.yield = FALSE
      /\ n.prio = k.prio
      /\ n.delayed = k.delayed /\ n.overflow = k.overflow /\ n.blocked = k.blocked
      /\ n.tick = k.tick /\ n.next = k.next
      /\ n.suspended = FALSE /\ n.pended = k.pended
  BY <1>1, <1>8 DEF Scheduler
<1> HIDE DEF n
<1>10. ASSUME NEW q \in Priorities PROVE Ring(n.ready[q], {u \in R : n.prio[u] = q})
  <2>1. CASE q = p
    BY <2>1, <1>1, <1>5, <1>9 DEF ready
  <2>2. CASE q # p
    <3>1. n.ready[q] = k.ready[q]
      BY <2>2, <1>1, <1>9 DEF ready
    <3> QED BY <3>1, <1>9 DEF Lists
  <2> QED BY <2>1, <2>2
<1>11. Lists(n, R)
  BY <1>2, <1>9, <1>10 DEF Lists
<1>12. Highest(n, R)
  BY <1>2, <1>3, <1>5, <1>9 DEF Highest
<1> QED BY <1>7, <1>9, <1>11, <1>12

(* What changing a priority leaves alone.                                  *)
SameButPriority(k, n) ==
  /\ n.current = k.current
  /\ n.delayed = k.delayed /\ n.overflow = k.overflow /\ n.blocked = k.blocked
  /\ n.tick = k.tick /\ n.next = k.next
  /\ n.suspended = k.suspended /\ n.pended = k.pended /\ n.yield = k.yield

(* A task whose priority changes changes lists with it.                    *)
LEMMA SetPriorityIs ==
  ASSUME NEW k \in Scheduler, NEW R \in SUBSET AllTasks, Lists(k, R),
         NEW t \in AllTasks, NEW p \in Priorities
  PROVE  LET n == SetPriority(k, t, p)
         IN /\ n \in Scheduler /\ Lists(n, R)
            /\ n.prio = [k.prio EXCEPT ![t] = p]
            /\ SameButPriority(k, n)
<1>1. t \in Range(k.ready[k.prio[t]]) <=> t \in R
  BY InList
<1>2. CASE t \notin R
  <2> DEFINE n == [k EXCEPT !.prio[t] = p]
  <2>1. SetPriority(k, t, p) = n
    BY <1>1, <1>2 DEF SetPriority
  <2>2. n \in Scheduler /\ n.ready = k.ready /\ n.top = k.top /\ n.prio = [k.prio EXCEPT ![t] = p]
        /\ SameButPriority(k, n)
    BY DEF Scheduler, SameButPriority
  <2> HIDE DEF n
  <2>3. k.prio \in [AllTasks -> Priorities]
    BY DEF Scheduler
  <2>4. \A u \in R : n.prio[u] = k.prio[u]
    BY <2>2, <2>3, <1>2
  <2>5. \A q : {u \in R : n.prio[u] = q} = {u \in R : k.prio[u] = q}
    BY <2>4
  <2>6. {n.prio[u] : u \in R} = {k.prio[u] : u \in R}
    BY <2>4
  <2>7. Lists(n, R)
    BY <2>2, <2>5, <2>6 DEF Lists
  <2> QED BY <2>1, <2>2, <2>7
<1>3. CASE t \in R
  <2> DEFINE a == RemoveFromReadyList(k, t)
             b == [a EXCEPT !.prio[t] = p]
             n == prvAddTaskToReadyList(b, t)
  <2>1. SetPriority(k, t, p) = n
    BY <1>1, <1>3 DEF SetPriority
  <2>2. a \in Scheduler /\ Lists(a, R \ {t}) /\ SameRest(k, a)
    BY <1>3, RemoveReadyIs
  <2> HIDE DEF a
  <2>3. b \in Scheduler /\ b.ready = a.ready /\ b.top = a.top /\ b.prio = [a.prio EXCEPT ![t] = p]
        /\ SameButPriority(a, b)
    BY <2>2 DEF Scheduler, SameButPriority
  <2> HIDE DEF b
  <2>4. a.prio \in [AllTasks -> Priorities]
    BY <2>2 DEF Scheduler
  <2>5. \A u \in R \ {t} : b.prio[u] = a.prio[u]
    BY <2>3, <2>4
  <2>6. \A q : {u \in R \ {t} : b.prio[u] = q} = {u \in R \ {t} : a.prio[u] = q}
    BY <2>5
  <2>7. {b.prio[u] : u \in R \ {t}} = {a.prio[u] : u \in R \ {t}}
    BY <2>5
  <2>8. Lists(b, R \ {t})
    BY <2>2, <2>3, <2>6, <2>7 DEF Lists
  <2>9. t \in AllTasks \ (R \ {t}) /\ R \ {t} \in SUBSET AllTasks
    OBVIOUS
  <2>10. n \in Scheduler /\ Lists(n, (R \ {t}) \cup {t}) /\ SameRest(b, n)
    BY <2>3, <2>8, <2>9, AddIs
  <2> HIDE DEF n
  <2>11. (R \ {t}) \cup {t} = R
    BY <1>3
  <2>12. n.prio = [k.prio EXCEPT ![t] = p] /\ SameButPriority(k, n)
    BY <2>2, <2>3, <2>10 DEF SameRest, SameButPriority
  <2> QED BY <2>1, <2>10, <2>11, <2>12
<1> QED BY <1>2, <1>3

-----------------------------------------------------------------------------
(* The loop that makes ready those whose time it is.                       *)

(* The greatest of a set of places that holds the last of them.            *)
LEMMA LastPlace ==
  ASSUME NEW m \in Nat, NEW S \in SUBSET (1 .. m + 1), m + 1 \in S
  PROVE  Max(S) = m + 1 /\ S \ {Max(S)} \in SUBSET (1 .. m)
<1>1. S \in SUBSET Nat /\ S # {} /\ m + 1 \in Nat /\ \A x \in S : x <= m + 1
  OBVIOUS
<1>2. Max(S) \in S /\ \A x \in S : x <= Max(S)
  BY <1>1, MaxOf
<1>3. Max(S) = m + 1
  <2>1. Max(S) \in Nat /\ Max(S) <= m + 1 /\ m + 1 <= Max(S)
    BY <1>1, <1>2
  <2> HIDE DEF Max
  <2> QED BY <2>1
<1> QED BY <1>3

WokenStep(g, k, q, m) ==
  g = [S \in SUBSET (1 .. m) |->
         IF S = {} THEN k
         ELSE prvAddTaskToReadyList(g[S \ {Max(S)}], q[Max(S)].task)]

(* The fold over the items that are due, as a function of sets of places:  *)
(* FoldLeft of the community modules is a CHOOSE of such a function.       *)
LEMMA WokenExists ==
  ASSUME NEW k, NEW q, NEW n \in Nat
  PROVE  \E g : WokenStep(g, k, q, n)
<1> DEFINE N == {m \in Nat : \E g : WokenStep(g, k, q, m)}
<1>1. 0 \in N
  <2> DEFINE g == [S \in SUBSET (1 .. 0) |-> k]
  <2>1. SUBSET (1 .. 0) = {{}}
    OBVIOUS
  <2>2. WokenStep(g, k, q, 0)
    BY <2>1 DEF WokenStep
  <2> QED BY <2>2
<1>2. ASSUME NEW m \in Nat, m \in N PROVE m + 1 \in N
  <2>1. PICK h : WokenStep(h, k, q, m)
    BY <1>2
  <2> DEFINE g == [S \in SUBSET (1 .. m + 1) |->
                     IF m + 1 \in S THEN prvAddTaskToReadyList(h[S \ {m + 1}], q[m + 1].task)
                     ELSE h[S]]
             f == [S \in SUBSET (1 .. m + 1) |->
                     IF S = {} THEN k
                     ELSE prvAddTaskToReadyList(g[S \ {Max(S)}], q[Max(S)].task)]
  <2>2. ASSUME NEW S \in SUBSET (1 .. m + 1) PROVE g[S] = f[S]
    <3>1. CASE m + 1 \in S
      <4>1. Max(S) = m + 1 /\ S \ {m + 1} \in SUBSET (1 .. m)
        BY <3>1, LastPlace
      <4>2. S \ {m + 1} \in SUBSET (1 .. m + 1) /\ m + 1 \notin S \ {m + 1}
        OBVIOUS
      <4>3. g[S \ {m + 1}] = h[S \ {m + 1}]
        BY <4>2
      <4>4. g[S] = prvAddTaskToReadyList(h[S \ {m + 1}], q[m + 1].task)
        BY <3>1
      <4>5. f[S] = prvAddTaskToReadyList(g[S \ {Max(S)}], q[Max(S)].task)
        BY <3>1
      <4> HIDE DEF g, f
      <4> QED BY <4>1, <4>3, <4>4, <4>5
    <3>2. CASE m + 1 \notin S
      <4>1. S \in SUBSET (1 .. m)
        BY <3>2
      <4>2. g[S] = h[S]
        BY <3>2
      <4>3. h[S] = IF S = {} THEN k ELSE prvAddTaskToReadyList(h[S \ {Max(S)}], q[Max(S)].task)
        BY <2>1, <4>1 DEF WokenStep
      <4>4. S \ {Max(S)} \in SUBSET (1 .. m + 1) /\ m + 1 \notin S \ {Max(S)}
        BY <3>2
      <4>5. g[S \ {Max(S)}] = h[S \ {Max(S)}]
        BY <4>4
      <4>6. f[S] = IF S = {} THEN k ELSE prvAddTaskToReadyList(g[S \ {Max(S)}], q[Max(S)].task)
        OBVIOUS
      <4> HIDE DEF g, f
      <4> QED BY <4>2, <4>3, <4>5, <4>6
    <3> QED BY <3>1, <3>2
  <2>3. g = f
    <3> HIDE DEF WokenStep
    <3>1. DOMAIN g = SUBSET (1 .. m + 1) /\ DOMAIN f = SUBSET (1 .. m + 1)
      OBVIOUS
    <3>2. g = [S \in SUBSET (1 .. m + 1) |-> g[S]] /\ f = [S \in SUBSET (1 .. m + 1) |-> f[S]]
      OBVIOUS
    <3> HIDE DEF g, f
    <3> QED BY <2>2, <3>2, Zenon
  <2>4. WokenStep(g, k, q, m + 1)
    <3>1. g = f
      BY <2>3
    <3> HIDE DEF g
    <3> QED BY <3>1 DEF WokenStep
  <2> QED BY <2>4
<1>3. Nat \subseteq N
  <2> HIDE DEF N
  <2> QED BY <1>1, <1>2, Induction
<1> QED BY <1>3

(* The tasks of the items of q are made ready one after the other.         *)
LEMMA WokenIs ==
  ASSUME NEW k \in Scheduler, NEW R \in SUBSET AllTasks, Lists(k, R),
         NEW q \in Seq(Items), Distinct(q), OneEach(Range(q)),
         \A e \in Range(q) : e.task \notin R
  PROVE  LET n == FoldLeft(LAMBDA r, e : prvAddTaskToReadyList(r, e.task), k, q)
         IN /\ n \in Scheduler /\ SameRest(k, n)
            /\ Lists(n, R \cup {e.task : e \in Range(q)})
<1> DEFINE l == Len(q)
           g == CHOOSE g : WokenStep(g, k, q, l)
           T(i) == {q[j].task : j \in 1 .. i}
           Good(i) == /\ g[1 .. i] \in Scheduler /\ SameRest(k, g[1 .. i])
                      /\ Lists(g[1 .. i], R \cup T(i))
           N == {i \in Nat : i <= l => Good(i)}
<1>1. l \in Nat /\ DOMAIN q = 1 .. l
  OBVIOUS
<1>2. WokenStep(g, k, q, l)
  <2>1. \E h : WokenStep(h, k, q, l)
    BY <1>1, WokenExists
  <2> QED BY <2>1, Zenon
<1>3. FoldLeft(LAMBDA r, e : prvAddTaskToReadyList(r, e.task), k, q) = g[1 .. l]
  BY <1>1 DEF FoldLeft, MapThenFoldSet, WokenStep
<1> HIDE DEF g
<1>4. 0 \in N
  <2>1. 1 .. 0 = {} /\ {} \in SUBSET (1 .. l)
    OBVIOUS
  <2>2. g[1 .. 0] = k
    BY <1>2, <2>1 DEF WokenStep
  <2>3. R \cup T(0) = R
    BY <2>1
  <2> QED BY <2>2, <2>3 DEF SameRest
<1>5. ASSUME NEW i \in Nat, i \in N PROVE i + 1 \in N
  <2> SUFFICES ASSUME i + 1 <= l PROVE Good(i + 1)
    OBVIOUS
  <2>1. Good(i)
    BY <1>1, <1>5
  <2> DEFINE t == q[i + 1].task
  <2>2. i + 1 \in 1 .. l /\ 1 .. i + 1 \in SUBSET (1 .. l) /\ 1 .. i + 1 # {} /\ i + 1 \in 1 .. i + 1
    <3>1. \A j \in 1 .. i + 1 : j \in 1 .. l
      BY <1>1
    <3>2. i + 1 \in 1 .. i + 1
      OBVIOUS
    <3> QED BY <3>1, <3>2
  <2>3. Max(1 .. i + 1) = i + 1 /\ (1 .. i + 1) \ {i + 1} = 1 .. i
    <3>1. 1 .. i + 1 \in SUBSET (1 .. i + 1) /\ i + 1 \in 1 .. i + 1
      OBVIOUS
    <3>2. Max(1 .. i + 1) = i + 1
      BY <3>1, LastPlace
    <3> QED BY <3>2
  <2>4. g[1 .. i + 1] = prvAddTaskToReadyList(g[1 .. i], t)
    <3>1. g[1 .. i + 1] = prvAddTaskToReadyList(g[(1 .. i + 1) \ {Max(1 .. i + 1)}], q[Max(1 .. i + 1)].task)
      BY <1>2, <2>2 DEF WokenStep
    <3> QED BY <3>1, <2>3
  <2>5. \A j \in 1 .. i + 1 : q[j] \in Items /\ q[j] \in Range(q) /\ q[j].task \in Tasks
    BY <1>1, <2>2, ItemWake, InRange
  <2>6. t \in AllTasks \ (R \cup T(i)) /\ R \cup T(i) \in SUBSET AllTasks
    <3>1. t \in Tasks /\ t \notin R /\ \A j \in 1 .. i : q[j].task \in Tasks
      BY <2>2, <2>5
    <3>2. ASSUME NEW j \in 1 .. i, t = q[j].task PROVE FALSE
      <4>1. q[i + 1] = q[j]
        BY <2>2, <2>5, <3>2 DEF OneEach
      <4>2. i + 1 \in 1 .. l /\ j \in 1 .. l /\ j # i + 1
        BY <2>2, <1>1
      <4> QED BY <4>1, <4>2 DEF Distinct
    <3> HIDE DEF t
    <3> QED BY <3>1, <3>2 DEF AllTasks
  <2> HIDE DEF t
  <2>7. /\ g[1 .. i + 1] \in Scheduler
        /\ Lists(g[1 .. i + 1], (R \cup T(i)) \cup {t})
        /\ SameRest(g[1 .. i], g[1 .. i + 1])
    <3> DEFINE a == g[1 .. i]
               b == g[1 .. i + 1]
    <3>1. a \in Scheduler /\ Lists(a, R \cup T(i)) /\ b = prvAddTaskToReadyList(a, t)
      BY <2>1, <2>4
    <3> HIDE DEF a, b, T
    <3>2. b \in Scheduler /\ Lists(b, (R \cup T(i)) \cup {t}) /\ SameRest(a, b)
      BY <3>1, <2>6, AddIs
    <3> QED BY <3>2 DEF a, b
  <2>8. (R \cup T(i)) \cup {t} = R \cup T(i + 1)
    <3>1. \A j : j \in 1 .. i + 1 <=> j \in 1 .. i \/ j = i + 1
      OBVIOUS
    <3>2. T(i + 1) = T(i) \cup {t}
      BY <3>1 DEF t
    <3> HIDE DEF T
    <3> QED BY <3>2
  <2>9. SameRest(k, g[1 .. i + 1])
    BY <2>1, <2>7 DEF SameRest
  <2> QED BY <2>7, <2>8, <2>9
<1>6. Nat \subseteq N
  <2> HIDE DEF N
  <2> QED BY <1>4, <1>5, Induction
<1>7. Good(l)
  <2>1. l \in N
    BY <1>1, <1>6
  <2> HIDE DEF Good
  <2>2. l <= l => Good(l)
    BY <2>1
  <2> QED BY <2>2, <1>1
<1>8. T(l) = {e.task : e \in Range(q)}
  <2>1. \A e : e \in Range(q) <=> \E j \in 1 .. l : e = q[j]
    BY InRange
  <2> QED BY <2>1
<1> QED BY <1>3, <1>7, <1>8

-----------------------------------------------------------------------------
(* The clock and the lists of sleepers.                                    *)

(* The values of the tick count.                                           *)
LEMMA ClockIs == /\ \A x \in Clock : x \in Nat /\ x < WRAP
                 /\ 0 \in Clock /\ MAX_DELAY \in Clock
                 /\ WRAP \in Nat /\ WRAP > 1
BY WrapAssumption DEF Clock, MAX_DELAY

(* An empty list has no items.                                             *)
LEMMA EmptyRange == Range(<<>>) = {}
BY DEF Range

(* The tick count, one later.                                              *)
LEMMA NextTick ==
  ASSUME NEW x \in Clock
  PROVE  /\ (x + 1) % WRAP \in Clock
         /\ (x + 1) % WRAP = IF x = WRAP - 1 THEN 0 ELSE x + 1
<1> DEFINE m == x + 1
<1>1. m \in 0 .. 2 * WRAP - 1
  BY ClockIs
<1> HIDE DEF m
<1>3. m % WRAP = IF m < WRAP THEN m ELSE m - WRAP
  BY <1>1, Reduce
<1>2. (x + 1) % WRAP = IF x + 1 < WRAP THEN x + 1 ELSE x + 1 - WRAP
  BY <1>3, WrapAssumption, ClockIs DEF m
<1> QED BY <1>2, ClockIs DEF Clock

(* The items of the lists of sleepers.                                     *)
LEMMA SleepersAre ==
  ASSUME NEW k \in Scheduler
  PROVE  /\ Range(k.delayed) \in SUBSET Items /\ Range(k.overflow) \in SUBSET Items
         /\ Sleeping(k) \in SUBSET Items
         /\ Asleep(k) \in SUBSET Tasks
<1>1. k.delayed \in Seq(Items) /\ k.overflow \in Seq(Items)
  BY DEF Scheduler
<1>2. Range(k.delayed) \in SUBSET Items /\ Range(k.overflow) \in SUBSET Items
  BY <1>1, InRange
<1> QED BY <1>2, ItemWake DEF Sleeping, Asleep

(* What a delay leaves alone.                                              *)
SameButDelay(k, n) ==
  /\ n.prio = k.prio /\ n.current = k.current /\ n.blocked = k.blocked
  /\ n.tick = k.tick
  /\ n.suspended = k.suspended /\ n.pended = k.pended /\ n.yield = k.yield

(* prvAddCurrentTaskToDelayedList: the task is on the list that its wake   *)
(* time belongs to.                                                        *)
LEMMA DelayIs ==
  ASSUME NEW k \in Scheduler, NEW R \in SUBSET AllTasks, Lists(k, R), Delayed(k),
         k.current \in R, k.current \in Tasks, k.current \notin Asleep(k),
         NEW ticks \in 1 .. WRAP - 1
  PROVE  LET n == prvAddCurrentTaskToDelayedList(k, ticks)
             wake == (k.tick + ticks) % WRAP
         IN /\ n \in Scheduler /\ Lists(n, R \ {k.current}) /\ Delayed(n)
            /\ Sleeping(n) = Sleeping(k) \cup {[task |-> k.current, wake |-> wake]}
            /\ SameButDelay(k, n)
<1> DEFINE wake == (k.tick + ticks) % WRAP
           item == [task |-> k.current, wake |-> wake]
           a == RemoveFromReadyList(k, k.current)
           late == [a EXCEPT !.overflow = vListInsert(a.overflow, item)]
           next == IF wake < a.next THEN wake ELSE a.next
           soon == [a EXCEPT !.delayed = vListInsert(a.delayed, item), !.next = next]
           n == prvAddCurrentTaskToDelayedList(k, ticks)
<1>1. k.tick \in Clock /\ k.next \in Clock /\ k.delayed \in Seq(Items) /\ k.overflow \in Seq(Items)
  BY DEF Scheduler
<1>2. wake = IF k.tick + ticks < WRAP THEN k.tick + ticks ELSE k.tick + ticks - WRAP
  <2> DEFINE m == k.tick + ticks
  <2>1. m \in 0 .. 2 * WRAP - 1
    BY <1>1, ClockIs
  <2> HIDE DEF m
  <2>2. m % WRAP = IF m < WRAP THEN m ELSE m - WRAP
    BY <2>1, Reduce
  <2> QED BY <2>2, <1>1, WrapAssumption, ClockIs DEF m
<1> HIDE DEF wake
<1>3. wake \in Clock /\ wake # k.tick
  <2>1. k.tick \in Nat /\ k.tick < WRAP /\ ticks \in Nat /\ ticks > 0 /\ ticks < WRAP /\ WRAP \in Nat
    BY <1>1, ClockIs
  <2>2. wake \in Nat /\ wake < WRAP /\ wake # k.tick
    BY <2>1, <1>2
  <2> QED BY <2>2, <2>1 DEF Clock
<1>4. a \in Scheduler /\ Lists(a, R \ {k.current}) /\ SameRest(k, a)
  BY RemoveReadyIs
<1> HIDE DEF a
<1>5. /\ a.delayed = k.delayed /\ a.overflow = k.overflow /\ a.tick = k.tick /\ a.next = k.next
      /\ SameButDelay(k, a)
  BY <1>4 DEF SameRest, SameButDelay
<1>6. item \in Items /\ item.wake = wake /\ item.task = k.current
  BY <1>3 DEF Items
<1>7. n = IF wake < k.tick THEN late ELSE soon
  BY <1>4 DEF prvAddCurrentTaskToDelayedList, wake, a, Scheduler
<1> HIDE DEF item, n
<1>8. item \notin Range(k.delayed) /\ item \notin Range(k.overflow)
  BY <1>6 DEF Asleep
<1>9. /\ Queue(vListInsert(k.delayed, item))
      /\ Range(vListInsert(k.delayed, item)) = Range(k.delayed) \cup {item}
      /\ Queue(vListInsert(k.overflow, item))
      /\ Range(vListInsert(k.overflow, item)) = Range(k.overflow) \cup {item}
  BY <1>6, <1>8, InsertQueue DEF Delayed
<1>10. vListInsert(k.delayed, item) \in Seq(Items) /\ vListInsert(k.overflow, item) \in Seq(Items)
  BY <1>9 DEF Queue
<1>11. OneEach(Sleeping(k) \cup {item})
  BY <1>6 DEF Delayed, OneEach, Asleep, Sleeping
<1>12. \A e \in Range(k.delayed) : e.wake > k.tick /\ e.wake >= k.next
  BY DEF Delayed, Timely
<1>13. \A e \in Range(k.overflow) : e.wake < k.tick
  BY DEF Delayed, Timely
<1>14. CASE wake < k.tick
  <2>1. /\ n \in Scheduler /\ n.ready = a.ready /\ n.top = a.top
        /\ n.delayed = k.delayed /\ n.overflow = vListInsert(k.overflow, item) /\ n.next = k.next
        /\ SameButDelay(a, n)
    BY <1>4, <1>5, <1>7, <1>10, <1>14 DEF Scheduler, SameButDelay
  <2>2. Sleeping(n) = Sleeping(k) \cup {item}
    BY <2>1, <1>9 DEF Sleeping
  <2>3. Timely(n)
    BY <2>1, <1>5, <1>6, <1>9, <1>12, <1>13, <1>14 DEF Timely, SameButDelay
  <2>4. Delayed(n)
    BY <2>1, <2>2, <2>3, <1>9, <1>11 DEF Delayed
  <2>5. Lists(n, R \ {k.current})
    BY <2>1, <1>4 DEF Lists, SameButDelay
  <2>6. SameButDelay(k, n)
    BY <2>1, <1>5 DEF SameButDelay
  <2> QED BY <2>1, <2>2, <2>4, <2>5, <2>6 DEF n, item, wake
<1>15. CASE ~(wake < k.tick)
  <2>0. next \in Clock /\ next <= wake /\ next <= k.next
    BY <1>1, <1>3, <1>5, ClockIs
  <2> HIDE DEF next
  <2>1. /\ n \in Scheduler /\ n.ready = a.ready /\ n.top = a.top
        /\ n.delayed = vListInsert(k.delayed, item) /\ n.overflow = k.overflow /\ n.next = next
        /\ SameButDelay(a, n)
    BY <1>4, <1>5, <1>7, <1>10, <1>15, <2>0 DEF Scheduler, SameButDelay
  <2>2. Sleeping(n) = Sleeping(k) \cup {item}
    BY <2>1, <1>9 DEF Sleeping
  <2>3. Timely(n)
    <3>1. ASSUME NEW e \in Range(n.delayed) PROVE e.wake > n.tick /\ e.wake >= n.next
      <4>1. n.tick = k.tick /\ n.next = next
        BY <2>1, <1>5 DEF SameButDelay
      <4>2. CASE e = item
        BY <4>1, <4>2, <2>0, <1>1, <1>3, <1>6, <1>15, ClockIs
      <4>3. CASE e \in Range(k.delayed)
        <5>1. e.wake \in Nat /\ next \in Nat /\ k.next \in Nat
          BY <4>3, <1>1, <2>0, ItemWake, SleepersAre, ClockIs
        <5> QED BY <5>1, <4>1, <4>3, <2>0, <1>12
      <4> QED BY <4>2, <4>3, <2>1, <1>9
    <3> QED BY <3>1, <2>1, <1>5, <1>13 DEF Timely, SameButDelay
  <2>4. Delayed(n)
    BY <2>1, <2>2, <2>3, <1>9, <1>11 DEF Delayed
  <2>5. Lists(n, R \ {k.current})
    BY <2>1, <1>4 DEF Lists, SameButDelay
  <2>6. SameButDelay(k, n)
    BY <2>1, <1>5 DEF SameButDelay
  <2> QED BY <2>1, <2>2, <2>4, <2>5, <2>6 DEF n, item, wake
<1> QED BY <1>14, <1>15

(* Before the loop of the tick: nothing is overdue.                        *)
Punctual(k) ==
  /\ Queue(k.delayed) /\ Queue(k.overflow) /\ OneEach(Sleeping(k))
  /\ \A e \in Range(k.delayed) : e.wake >= k.tick /\ e.wake >= k.next
  /\ \A e \in Range(k.overflow) : e.wake < k.tick

(* What a tick leaves alone.                                               *)
SameButTick(k, n) ==
  /\ n.prio = k.prio /\ n.current = k.current /\ n.blocked = k.blocked
  /\ n.suspended = k.suspended /\ n.pended = k.pended /\ n.yield = k.yield

(* Those that are woken at a time.                                         *)
DueAt(k, now) == {e \in Sleeping(k) : e.wake = now}

TasksOf(I) == {e.task : e \in I}

(* prvResetNextTaskUnblockTime is not too late for any sleeper.            *)
LEMMA UnblockTimeIs ==
  ASSUME NEW k \in Scheduler, Queue(k.delayed)
  PROVE  LET n == prvResetNextTaskUnblockTime(k)
         IN /\ n \in Scheduler /\ SameButTick(k, n)
            /\ n.ready = k.ready /\ n.top = k.top /\ n.tick = k.tick
            /\ n.delayed = k.delayed /\ n.overflow = k.overflow
            /\ \A e \in Range(k.delayed) : e.wake >= n.next
<1> DEFINE next == IF k.delayed = <<>> THEN MAX_DELAY ELSE Head(k.delayed).wake
           n == [k EXCEPT !.next = next]
<1>1. k.delayed \in Seq(Items)
  BY DEF Scheduler
<1>2. next \in Clock /\ \A e \in Range(k.delayed) : e.wake >= next
  <2>1. CASE k.delayed = <<>>
    <3>1. Range(k.delayed) = {}
      BY <2>1, EmptyRange
    <3> QED BY <3>1, <2>1, ClockIs
  <2>2. CASE k.delayed # <<>>
    <3>1. /\ Head(k.delayed) \in Items
          /\ \A e \in Range(k.delayed) : Head(k.delayed).wake <= e.wake
      BY <2>2, HeadOfQueue
    <3>2. \A e \in Range(k.delayed) : e.wake \in Nat
      BY <1>1, InRange, ItemWake
    <3>3. Head(k.delayed).wake \in Clock /\ Head(k.delayed).wake \in Nat
      BY <3>1, ItemWake
    <3> QED BY <3>1, <3>2, <3>3, <2>2
  <2> QED BY <2>1, <2>2
<1> HIDE DEF next
<1>3. /\ n \in Scheduler /\ SameButTick(k, n) /\ n.next = next
      /\ n.ready = k.ready /\ n.top = k.top /\ n.tick = k.tick
      /\ n.delayed = k.delayed /\ n.overflow = k.overflow
  BY <1>2 DEF Scheduler, SameButTick
<1>4. prvResetNextTaskUnblockTime(k) = n
  BY DEF prvResetNextTaskUnblockTime, next
<1> HIDE DEF n
<1> QED BY <1>2, <1>3, <1>4

(* The loop of xTaskIncrementTick wakes those whose time it is.            *)
LEMMA WakeTasksIs ==
  ASSUME NEW k \in Scheduler, NEW R \in SUBSET AllTasks, Lists(k, R), Punctual(k),
         \A e \in Sleeping(k) : e.task \notin R
  PROVE  LET n == WakeTasks(k)
         IN /\ n \in Scheduler /\ Lists(n, R \cup TasksOf(DueAt(k, k.tick))) /\ Delayed(n)
            /\ Sleeping(n) = Sleeping(k) \ DueAt(k, k.tick)
            /\ n.tick = k.tick
            /\ SameButTick(k, n)
<1> DEFINE due == Due(k.delayed, k.tick)
           left == Left(k.delayed, k.tick)
           a == [k EXCEPT !.delayed = left]
           b == FoldLeft(LAMBDA r, e : prvAddTaskToReadyList(r, e.task), a, due)
           n == prvResetNextTaskUnblockTime(b)
           D == Range(k.delayed)
           O == Range(k.overflow)
<1>1. WakeTasks(k) = n
  BY DEF WakeTasks, Due, Left
<1>2. k.tick \in Clock /\ k.delayed \in Seq(Items)
  BY DEF Scheduler
<1>3. /\ due \in Seq(Items) /\ Distinct(due)
      /\ Range(due) = {e \in D : e.wake <= k.tick}
      /\ Queue(left)
      /\ Range(left) = {e \in D : e.wake > k.tick}
  BY <1>2, SplitQueue DEF Punctual
<1> HIDE DEF due, left
<1>4. \A e \in Sleeping(k) : e.wake \in Nat /\ k.tick \in Nat
  BY <1>2, SleepersAre, ItemWake, ClockIs
<1>5. /\ \A e \in D : e \in Sleeping(k) /\ e.wake >= k.tick
      /\ \A e \in O : e \in Sleeping(k) /\ e.wake < k.tick
      /\ \A e \in Sleeping(k) : e \in D \/ e \in O
  BY DEF Punctual, Sleeping
<1> HIDE DEF D, O
<1>6. Range(due) = DueAt(k, k.tick) /\ Range(left) = D \ DueAt(k, k.tick)
  BY <1>3, <1>4, <1>5 DEF DueAt
<1>7. left \in Seq(Items)
  BY <1>3 DEF Queue
<1>8. /\ a \in Scheduler /\ SameButTick(k, a) /\ a.tick = k.tick /\ a.next = k.next
      /\ a.ready = k.ready /\ a.top = k.top /\ a.delayed = left /\ a.overflow = k.overflow
  BY <1>7 DEF Scheduler, SameButTick
<1> HIDE DEF a
<1>9. Lists(a, R)
  BY <1>8 DEF Lists, SameButTick
<1>10. OneEach(Range(due)) /\ \A e \in Range(due) : e.task \notin R
  BY <1>6 DEF DueAt, OneEach, Punctual
<1>11. b \in Scheduler /\ SameRest(a, b) /\ Lists(b, R \cup {e.task : e \in Range(due)})
  BY <1>3, <1>8, <1>9, <1>10, WokenIs
<1> HIDE DEF b
<1>12. b.delayed = left /\ b.overflow = k.overflow /\ b.tick = k.tick /\ SameButTick(k, b)
  BY <1>8, <1>11 DEF SameRest, SameButTick
<1>13. /\ n \in Scheduler /\ SameButTick(b, n)
       /\ n.ready = b.ready /\ n.top = b.top /\ n.tick = b.tick
       /\ n.delayed = b.delayed /\ n.overflow = b.overflow
       /\ \A e \in Range(b.delayed) : e.wake >= n.next
  BY <1>3, <1>11, <1>12, UnblockTimeIs
<1> HIDE DEF n
<1>14. Lists(n, R \cup TasksOf(DueAt(k, k.tick)))
  BY <1>6, <1>11, <1>13 DEF Lists, SameButTick, TasksOf
<1>15. Sleeping(n) = Sleeping(k) \ DueAt(k, k.tick)
  <2>1. Range(n.delayed) = D \ DueAt(k, k.tick) /\ Range(n.overflow) = O
    BY <1>6, <1>12, <1>13 DEF O
  <2>2. \A e \in O : e \notin DueAt(k, k.tick)
    BY <1>4, <1>5 DEF DueAt
  <2> QED BY <2>1, <2>2 DEF Sleeping, D, O
<1>16. Timely(n)
  <2>1. \A e \in Range(n.delayed) : e.wake > n.tick /\ e.wake >= n.next
    BY <1>3, <1>12, <1>13
  <2>2. \A e \in Range(n.overflow) : e.wake < n.tick
    BY <1>5, <1>12, <1>13 DEF O
  <2> QED BY <2>1, <2>2 DEF Timely
<1>17. Delayed(n)
  <2>1. OneEach(Sleeping(n))
    BY <1>15 DEF Punctual, OneEach
  <2>2. Queue(n.delayed) /\ Queue(n.overflow)
    BY <1>3, <1>12, <1>13 DEF Punctual
  <2> QED BY <2>1, <2>2, <1>16 DEF Delayed
<1>18. SameButTick(k, n) /\ n.tick = k.tick
  BY <1>12, <1>13 DEF SameButTick
<1> QED BY <1>1, <1>13, <1>14, <1>15, <1>17, <1>18

(* xTaskIncrementTick: exactly those are woken whose time has come.        *)
LEMMA TickIs ==
  ASSUME NEW k \in Scheduler, NEW R \in SUBSET AllTasks, Lists(k, R), Delayed(k),
         \A e \in Sleeping(k) : e.task \notin R
  PROVE  LET n == Tick(k)
             now == (k.tick + 1) % WRAP
         IN /\ n \in Scheduler /\ Lists(n, R \cup TasksOf(DueAt(k, now))) /\ Delayed(n)
            /\ Sleeping(n) = Sleeping(k) \ DueAt(k, now)
            /\ n.tick = now
            /\ SameButTick(k, n)
<1> DEFINE now == (k.tick + 1) % WRAP
           a == [k EXCEPT !.tick = now]
           c == [a EXCEPT !.delayed = a.overflow, !.overflow = a.delayed]
           b == IF a.tick = 0 THEN prvResetNextTaskUnblockTime(c) ELSE a
           n == IF b.tick >= b.next THEN WakeTasks(b) ELSE b
<1>1. Tick(k) = n
  BY DEF Tick, taskSWITCH_DELAYED_LISTS
<1>2. k.tick \in Clock /\ k.next \in Clock /\ k.delayed \in Seq(Items) /\ k.overflow \in Seq(Items)
  BY DEF Scheduler
<1>3. now \in Clock /\ now = IF k.tick = WRAP - 1 THEN 0 ELSE k.tick + 1
  BY <1>2, NextTick
<1> HIDE DEF now
<1>4. /\ a \in Scheduler /\ SameButTick(k, a) /\ a.tick = now /\ a.next = k.next
      /\ a.ready = k.ready /\ a.top = k.top /\ a.delayed = k.delayed /\ a.overflow = k.overflow
  BY <1>3 DEF Scheduler, SameButTick
<1> HIDE DEF a
<1>5. /\ \A e \in Range(k.delayed) : e.wake \in Nat /\ e.wake < WRAP
      /\ \A e \in Range(k.overflow) : e.wake \in Nat
      /\ k.tick \in Nat /\ now \in Nat /\ WRAP \in Nat
  BY <1>2, <1>3, SleepersAre, ItemWake, ClockIs
<1>6. /\ \A e \in Range(k.delayed) : e.wake > k.tick /\ e.wake >= k.next
      /\ \A e \in Range(k.overflow) : e.wake < k.tick
      /\ Queue(k.delayed) /\ Queue(k.overflow) /\ OneEach(Sleeping(k))
  BY DEF Delayed, Timely
<1>7. /\ b \in Scheduler /\ SameButTick(k, b) /\ b.tick = now
      /\ b.ready = k.ready /\ b.top = k.top
      /\ Sleeping(b) = Sleeping(k)
      /\ Punctual(b)
  <2>1. CASE now = 0
    <3>1. Range(k.delayed) = {}
      <4>1. k.tick = WRAP - 1
        BY <2>1, <1>3, <1>5
      <4>2. ASSUME NEW e \in Range(k.delayed) PROVE FALSE
        <5>1. e.wake \in Nat /\ e.wake < WRAP /\ e.wake > k.tick
          BY <1>5, <1>6
        <5> QED BY <5>1, <4>1, <1>5
      <4> QED BY <4>2
    <3>2. /\ c \in Scheduler /\ SameButTick(a, c) /\ c.tick = now
          /\ c.ready = a.ready /\ c.top = a.top /\ c.delayed = a.overflow /\ c.overflow = a.delayed
      BY <1>4, <1>2 DEF Scheduler, SameButTick
    <3> HIDE DEF c
    <3> DEFINE d == prvResetNextTaskUnblockTime(c)
    <3>3. Queue(c.delayed)
      BY <3>2, <1>4, <1>6
    <3>4. /\ d \in Scheduler /\ SameButTick(c, d)
          /\ d.ready = c.ready /\ d.top = c.top /\ d.tick = c.tick
          /\ d.delayed = c.delayed /\ d.overflow = c.overflow
          /\ \A e \in Range(c.delayed) : e.wake >= d.next
      BY <3>2, <3>3, UnblockTimeIs
    <3>5. b = d
      BY <2>1, <1>4
    <3> HIDE DEF b, d
    <3>6. d.delayed = k.overflow /\ d.overflow = k.delayed /\ d.tick = 0
      BY <3>2, <3>4, <1>4, <2>1
    <3>7. Sleeping(d) = Sleeping(k)
      BY <3>6 DEF Sleeping
    <3>8. Punctual(d)
      <4>1. \A e \in Range(d.delayed) : e.wake >= d.tick /\ e.wake >= d.next
        BY <3>2, <3>4, <3>6, <1>5
      <4> QED BY <4>1, <3>1, <3>6, <3>7, <1>6 DEF Punctual
    <3>9. SameButTick(k, d) /\ d.ready = k.ready /\ d.top = k.top
      BY <3>2, <3>4, <1>4 DEF SameButTick
    <3> QED BY <2>1, <3>4, <3>5, <3>6, <3>7, <3>8, <3>9
  <2>2. CASE now # 0
    <3>1. b = a
      BY <2>2, <1>4
    <3> HIDE DEF b
    <3>2. now = k.tick + 1
      BY <2>2, <1>3
    <3>3. Sleeping(a) = Sleeping(k)
      BY <1>4 DEF Sleeping
    <3>4. Punctual(a)
      BY <3>2, <3>3, <1>4, <1>5, <1>6 DEF Punctual
    <3> QED BY <3>1, <3>3, <3>4, <1>4
  <2> QED BY <2>1, <2>2
<1> HIDE DEF b
<1>8. Lists(b, R)
  BY <1>7 DEF Lists, SameButTick
<1>9. DueAt(b, b.tick) = DueAt(k, now)
  BY <1>7 DEF DueAt
<1>10. CASE b.tick >= b.next
  <2> DEFINE w == WakeTasks(b)
  <2>1. /\ w \in Scheduler /\ Lists(w, R \cup TasksOf(DueAt(b, b.tick))) /\ Delayed(w)
        /\ Sleeping(w) = Sleeping(b) \ DueAt(b, b.tick)
        /\ w.tick = b.tick
        /\ SameButTick(b, w)
    BY <1>7, <1>8, WakeTasksIs
  <2>2. n = w
    BY <1>10
  <2> HIDE DEF n, w
  <2>3. SameButTick(k, w)
    BY <2>1, <1>7 DEF SameButTick
  <2> QED BY <2>1, <2>2, <2>3, <1>1, <1>7, <1>9 DEF now
<1>11. CASE ~(b.tick >= b.next)
  <2>1. n = b
    BY <1>11
  <2> HIDE DEF n
  <2>2. b.tick \in Nat /\ b.next \in Nat
    BY <1>7, ClockIs DEF Scheduler
  <2>3. \A e \in Sleeping(b) : e.wake \in Nat
    BY <1>7, SleepersAre, ItemWake
  <2>4. Timely(b)
    BY <2>2, <2>3, <1>7, <1>11 DEF Timely, Punctual, Sleeping
  <2>5. DueAt(b, b.tick) = {}
    <3>1. ASSUME NEW e \in Sleeping(b), e.wake = b.tick PROVE FALSE
      <4>1. e \in Range(b.delayed) \/ e \in Range(b.overflow)
        BY DEF Sleeping
      <4> QED BY <4>1, <3>1, <2>2, <2>3, <2>4, <1>7, <1>11 DEF Timely, Punctual
    <3> QED BY <3>1 DEF DueAt
  <2>6. Delayed(b)
    BY <2>4, <1>7 DEF Delayed, Punctual
  <2>7. R \cup TasksOf(DueAt(k, now)) = R /\ Sleeping(k) \ DueAt(k, now) = Sleeping(b)
    BY <2>5, <1>7, <1>9 DEF TasksOf
  <2> QED BY <2>1, <2>6, <2>7, <1>1, <1>7, <1>8 DEF now
<1> QED BY <1>10, <1>11

-----------------------------------------------------------------------------
(* Ticks.                                                                  *)

(* How to show that the scheduler is sound, and which tasks are ready.     *)
LEMMA SoundFrom ==
  ASSUME NEW k \in Scheduler, NEW R \in SUBSET AllTasks, Lists(k, R), Delayed(k),
         R \cap Asleep(k) = {}
  PROVE  Sound(k) /\ ReadySet(k) = R
BY ReadyIs DEF Sound

(* Only tasks are ready.                                                   *)
LEMMA ReadyAre ==
  ASSUME NEW k
  PROVE  ReadySet(k) \in SUBSET AllTasks
BY DEF ReadySet

(* The lists of n are those of k.                                          *)
SameLists(k, n) ==
  /\ n.ready = k.ready /\ n.top = k.top /\ n.prio = k.prio
  /\ n.delayed = k.delayed /\ n.overflow = k.overflow /\ n.tick = k.tick /\ n.next = k.next

(* Sound does not look at the other variables of the scheduler.            *)
LEMMA SameListsSound ==
  ASSUME NEW k, Sound(k), NEW n \in Scheduler, SameLists(k, n)
  PROVE  /\ Sound(n) /\ ReadySet(n) = ReadySet(k)
         /\ Asleep(n) = Asleep(k) /\ Sleeping(n) = Sleeping(k)
<1>1. Sleeping(n) = Sleeping(k) /\ Asleep(n) = Asleep(k)
  BY DEF SameLists, Sleeping, Asleep
<1>2. Lists(n, ReadySet(k)) /\ Delayed(n)
  BY <1>1 DEF SameLists, Lists, Delayed, Timely, Sound
<1> QED BY <1>1, <1>2, SoundFrom, ReadyAre DEF Sound

(* What a tick does to the lists.                                          *)
Ticked(k, n) ==
  LET now == (k.tick + 1) % WRAP
  IN /\ Sound(n)
     /\ ReadySet(n) = ReadySet(k) \cup TasksOf(DueAt(k, now))
     /\ Sleeping(n) = Sleeping(k) \ DueAt(k, now)
     /\ ReadySet(n) \cup Asleep(n) = ReadySet(k) \cup Asleep(k)
     /\ n.tick = now
     /\ SameButTick(k, n)

(* The tasks that sleep are those of the items.                            *)
LEMMA AsleepIs == \A k : Asleep(k) = TasksOf(Sleeping(k))
BY DEF Asleep, TasksOf, Sleeping

(* A tick, with the switch of the delayed lists when the tick count wraps. *)
LEMMA TickSound ==
  ASSUME NEW k, Sound(k)
  PROVE  Ticked(k, Tick(k))
<1> DEFINE now == (k.tick + 1) % WRAP
           n == Tick(k)
           W == DueAt(k, now)
<1>1. k \in Scheduler /\ Lists(k, ReadySet(k)) /\ Delayed(k) /\ ReadySet(k) \in SUBSET AllTasks
  BY ReadyAre DEF Sound
<1>2. \A e \in Sleeping(k) : e.task \notin ReadySet(k)
  BY AsleepIs DEF Sound, TasksOf
<1>3. /\ n \in Scheduler /\ Lists(n, ReadySet(k) \cup TasksOf(W)) /\ Delayed(n)
      /\ Sleeping(n) = Sleeping(k) \ W
      /\ n.tick = now
      /\ SameButTick(k, n)
  BY <1>1, <1>2, TickIs
<1> HIDE DEF n, now
<1>4. W \subseteq Sleeping(k)
  BY DEF DueAt
<1> HIDE DEF W
<1>5. ReadySet(k) \cup TasksOf(W) \in SUBSET AllTasks
  <2>1. \A e \in W : e.task \in Tasks
    BY <1>1, <1>4, SleepersAre, ItemWake
  <2> QED BY <1>1, <2>1 DEF TasksOf, AllTasks
<1>6. (ReadySet(k) \cup TasksOf(W)) \cap Asleep(n) = {}
  <2>1. \A e \in Sleeping(n) : e \in Sleeping(k) /\ e \notin W
    BY <1>3
  <2>2. \A e, f \in Sleeping(k) : e.task = f.task => e = f
    BY <1>1 DEF Delayed, OneEach
  <2> QED BY <2>1, <2>2, <1>2, <1>4, AsleepIs DEF TasksOf
<1>7. Sound(n) /\ ReadySet(n) = ReadySet(k) \cup TasksOf(W)
  BY <1>3, <1>5, <1>6, SoundFrom
<1>8. ReadySet(n) \cup Asleep(n) = ReadySet(k) \cup Asleep(k)
  BY <1>3, <1>4, <1>7, AsleepIs DEF TasksOf
<1> QED BY <1>3, <1>7, <1>8 DEF Ticked, n, now, W

(* What a number of ticks do to the lists, and what they owe: a switch, if *)
(* a task has become ready that comes before the current one.              *)
Caught(k, n) ==
  /\ Sound(n)
  /\ ReadySet(k) \subseteq ReadySet(n)
  /\ ReadySet(n) \cup Asleep(n) = ReadySet(k) \cup Asleep(k)
  /\ Sleeping(n) \subseteq Sleeping(k)
  /\ n.prio = k.prio /\ n.current = k.current /\ n.blocked = k.blocked
  /\ n.suspended = k.suspended /\ n.pended = k.pended
  /\ n.yield \/ \A t \in ReadySet(n) \ ReadySet(k) : n.prio[t] <= n.prio[n.current]

(* A tick asks for a switch if it wakes a task that comes before the       *)
(* current one.                                                            *)
LEMMA SwitchOwed ==
  ASSUME NEW k, Sound(k), NEW n, Ticked(k, n), ~SwitchRequired(k, n)
  PROVE  \A t \in ReadySet(n) \ ReadySet(k) : n.prio[t] <= n.prio[n.current]
<1> SUFFICES ASSUME NEW t \in ReadySet(n), t \notin ReadySet(k)
             PROVE  n.prio[t] <= n.prio[n.current]
  OBVIOUS
<1>1. /\ Sound(n)
      /\ ReadySet(n) \cup Asleep(n) = ReadySet(k) \cup Asleep(k)
  BY DEF Ticked
<1>2. t \in Asleep(k) \ Asleep(n)
  BY <1>1 DEF Sound
<1>3. ~(n.prio[t] > n.prio[n.current])
  BY <1>2 DEF SwitchRequired
<1>4. n.prio[t] \in Nat /\ n.prio[n.current] \in Nat
  BY <1>1, ReadyAre, PrioritiesAre DEF Sound, Scheduler
<1> QED BY <1>3, <1>4

(* A tick that is caught up with.                                          *)
LEMMA PendedSound ==
  ASSUME NEW k, Sound(k)
  PROVE  /\ Caught(k, PendedTick(k))
         /\ PendedTick(k).tick = (k.tick + 1) % WRAP
         /\ Sleeping(PendedTick(k)) = Sleeping(k) \ DueAt(k, (k.tick + 1) % WRAP)
         /\ k.yield => PendedTick(k).yield
<1> DEFINE a == Tick(k)
           y == SwitchRequired(k, a)
           n == [a EXCEPT !.yield = y]
<1>1. Ticked(k, a)
  BY TickSound
<1>2. PendedTick(k) = n
  BY DEF PendedTick
<1> HIDE DEF a
<1>3. a \in Scheduler /\ Sound(a)
  BY <1>1 DEF Ticked, Sound
<1>4. y \in BOOLEAN /\ (a.yield => y)
  BY DEF SwitchRequired
<1>5. ~y => \A t \in ReadySet(a) \ ReadySet(k) : a.prio[t] <= a.prio[a.current]
  BY <1>1, SwitchOwed
<1> HIDE DEF y
<1>6. /\ n \in Scheduler /\ SameLists(a, n) /\ n.yield = y
      /\ n.current = a.current /\ n.blocked = a.blocked
      /\ n.suspended = a.suspended /\ n.pended = a.pended
  BY <1>3, <1>4 DEF Scheduler, SameLists
<1> HIDE DEF n
<1>7. Sound(n) /\ ReadySet(n) = ReadySet(a) /\ Asleep(n) = Asleep(a) /\ Sleeping(n) = Sleeping(a)
  BY <1>3, <1>6, SameListsSound
<1>8. n.prio = a.prio /\ n.tick = a.tick
  BY <1>6 DEF SameLists
<1>9. Caught(k, n)
  BY <1>1, <1>5, <1>6, <1>7, <1>8 DEF Caught, Ticked, SameButTick
<1>10. k.yield => n.yield
  BY <1>1, <1>4, <1>6 DEF Ticked, SameButTick
<1> QED BY <1>1, <1>2, <1>7, <1>8, <1>9, <1>10 DEF Ticked

(* Ticks that are caught up with one after another.                        *)
LEMMA CaughtTwice ==
  ASSUME NEW k, NEW m, NEW n, Caught(k, m), Caught(m, n), m.yield => n.yield
  PROVE  Caught(k, n)
<1>1. n.yield \/ \A t \in ReadySet(n) \ ReadySet(k) : n.prio[t] <= n.prio[n.current]
  <2> SUFFICES ASSUME ~n.yield, NEW t \in ReadySet(n) \ ReadySet(k)
               PROVE  n.prio[t] <= n.prio[n.current]
    OBVIOUS
  <2>1. CASE t \in ReadySet(m)
    BY <2>1 DEF Caught
  <2>2. CASE t \notin ReadySet(m)
    BY <2>2 DEF Caught
  <2> QED BY <2>1, <2>2
<1> QED BY <1>1 DEF Caught

(* And none of them.                                                       *)
LEMMA CaughtSelf ==
  ASSUME NEW k, Sound(k)
  PROVE  Caught(k, k)
BY DEF Caught

(* How many ticks later is to come after earlier.                          *)
Ahead(later, earlier) == (later + WRAP - earlier) % WRAP

(* The distance on the clock, without the remainder.                       *)
LEMMA AheadIs ==
  ASSUME NEW later \in Clock, NEW earlier \in Clock
  PROVE  Ahead(later, earlier) = IF later >= earlier THEN later - earlier
                                 ELSE later + WRAP - earlier
<1>1. later + WRAP - earlier \in 0 .. 2 * WRAP - 1
  BY ClockIs DEF Clock
<1> QED BY <1>1, Reduce, WrapAssumption, ClockIs DEF Ahead, Clock

(* After j ticks those are left whose time is more than j ticks ahead.     *)
Slept(k, n, j) ==
  /\ n.tick \in Clock
  /\ Ahead(n.tick, k.tick) = j
  /\ Sleeping(n) = {e \in Sleeping(k) : Ahead(e.wake, k.tick) > j}

(* One tick more.                                                          *)
LEMMA SleptOn ==
  ASSUME NEW k, Sound(k), NEW m, NEW n, NEW j \in Nat, j + 1 < WRAP, Slept(k, m, j),
         n.tick = (m.tick + 1) % WRAP,
         Sleeping(n) = Sleeping(m) \ DueAt(m, (m.tick + 1) % WRAP)
  PROVE  Slept(k, n, j + 1)
<1>1. k.tick \in Clock /\ m.tick \in Clock /\ WRAP \in Nat /\ WRAP > 1
  BY ClockIs DEF Slept, Sound, Scheduler
<1>2. n.tick \in Clock /\ n.tick = IF m.tick = WRAP - 1 THEN 0 ELSE m.tick + 1
  BY <1>1, NextTick
<1>3. Ahead(m.tick, k.tick) = j
  BY DEF Slept
<1> DEFINE a == k.tick
           b == m.tick
           c == n.tick
<1>8. /\ a \in Nat /\ b \in Nat /\ c \in Nat /\ a < WRAP /\ b < WRAP /\ c < WRAP
      /\ c = IF b = WRAP - 1 THEN 0 ELSE b + 1
      /\ j = IF b >= a THEN b - a ELSE b + WRAP - a
      /\ Ahead(c, a) = IF c >= a THEN c - a ELSE c + WRAP - a
  BY <1>1, <1>2, <1>3, AheadIs, ClockIs
<1> HIDE DEF a, b, c
<1>9. Ahead(c, a) = j + 1
  BY <1>1, <1>8
<1>4. Ahead(n.tick, k.tick) = j + 1
  BY <1>9 DEF a, c
<1>5. ASSUME NEW e \in Sleeping(k)
      PROVE  e.wake = n.tick <=> Ahead(e.wake, k.tick) = j + 1
  <2>1. e.wake \in Clock
    BY SleepersAre, ItemWake DEF Sound
  <2> DEFINE w == e.wake
  <2>2. w \in Nat /\ w < WRAP /\ Ahead(w, a) = IF w >= a THEN w - a ELSE w + WRAP - a
    BY <2>1, <1>1, AheadIs, ClockIs DEF a
  <2> HIDE DEF w
  <2>3. w = c <=> Ahead(w, a) = j + 1
    BY <2>2, <1>1, <1>8, <1>9
  <2> QED BY <2>3 DEF w, a, c
<1>6. \A e \in Sleeping(k) : Ahead(e.wake, k.tick) \in Nat
  <2> SUFFICES ASSUME NEW e \in Sleeping(k) PROVE Ahead(e.wake, k.tick) \in Nat
    OBVIOUS
  <2>1. e.wake \in Clock
    BY SleepersAre, ItemWake DEF Sound
  <2> QED BY <2>1, <1>1, AheadIs, ClockIs
<1>7. Sleeping(n) = {e \in Sleeping(k) : Ahead(e.wake, k.tick) > j + 1}
  <2>1. Sleeping(m) = {e \in Sleeping(k) : Ahead(e.wake, k.tick) > j}
    BY DEF Slept
  <2>2. \A e : e \in Sleeping(n) <=> e \in Sleeping(m) /\ e.wake # n.tick
    BY DEF DueAt
  <2>3. \A e : e \in Sleeping(n) <=> e \in Sleeping(k) /\ Ahead(e.wake, k.tick) > j + 1
    BY <2>1, <2>2, <1>5, <1>6
  <2> QED BY <2>3
<1> QED BY <1>2, <1>4, <1>7 DEF Slept

-----------------------------------------------------------------------------
(* The pended ticks, and the scheduler that goes on.                       *)

TickedStep(g, k, m) ==
  g = [S \in SUBSET (1 .. m) |-> IF S = {} THEN k ELSE PendedTick(g[S \ {Max(S)}])]

(* The fold over the pended ticks, as a function of sets of them.          *)
LEMMA TickedExists ==
  ASSUME NEW k, NEW n \in Nat
  PROVE  \E g : TickedStep(g, k, n)
<1> DEFINE N == {m \in Nat : \E g : TickedStep(g, k, m)}
<1>1. 0 \in N
  <2> DEFINE g == [S \in SUBSET (1 .. 0) |-> k]
  <2>1. SUBSET (1 .. 0) = {{}}
    OBVIOUS
  <2>2. TickedStep(g, k, 0)
    BY <2>1 DEF TickedStep
  <2> QED BY <2>2
<1>2. ASSUME NEW m \in Nat, m \in N PROVE m + 1 \in N
  <2>1. PICK h : TickedStep(h, k, m)
    BY <1>2
  <2> DEFINE g == [S \in SUBSET (1 .. m + 1) |->
                     IF m + 1 \in S THEN PendedTick(h[S \ {m + 1}]) ELSE h[S]]
             f == [S \in SUBSET (1 .. m + 1) |->
                     IF S = {} THEN k ELSE PendedTick(g[S \ {Max(S)}])]
  <2>2. ASSUME NEW S \in SUBSET (1 .. m + 1) PROVE g[S] = f[S]
    <3>1. CASE m + 1 \in S
      <4>1. Max(S) = m + 1 /\ S \ {m + 1} \in SUBSET (1 .. m)
        BY <3>1, LastPlace
      <4>2. S \ {m + 1} \in SUBSET (1 .. m + 1) /\ m + 1 \notin S \ {m + 1}
        OBVIOUS
      <4>3. g[S \ {m + 1}] = h[S \ {m + 1}]
        BY <4>2
      <4>4. g[S] = PendedTick(h[S \ {m + 1}])
        BY <3>1
      <4>5. f[S] = PendedTick(g[S \ {Max(S)}])
        BY <3>1
      <4> HIDE DEF g, f
      <4> QED BY <4>1, <4>3, <4>4, <4>5
    <3>2. CASE m + 1 \notin S
      <4>1. S \in SUBSET (1 .. m)
        BY <3>2
      <4>2. g[S] = h[S]
        BY <3>2
      <4>3. h[S] = IF S = {} THEN k ELSE PendedTick(h[S \ {Max(S)}])
        BY <2>1, <4>1 DEF TickedStep
      <4>4. S \ {Max(S)} \in SUBSET (1 .. m + 1) /\ m + 1 \notin S \ {Max(S)}
        BY <3>2
      <4>5. g[S \ {Max(S)}] = h[S \ {Max(S)}]
        BY <4>4
      <4>6. f[S] = IF S = {} THEN k ELSE PendedTick(g[S \ {Max(S)}])
        OBVIOUS
      <4> HIDE DEF g, f
      <4> QED BY <4>2, <4>3, <4>5, <4>6
    <3> QED BY <3>1, <3>2
  <2>3. g = f
    <3>2. g = [S \in SUBSET (1 .. m + 1) |-> g[S]] /\ f = [S \in SUBSET (1 .. m + 1) |-> f[S]]
      OBVIOUS
    <3> HIDE DEF g, f
    <3> QED BY <2>2, <3>2, Zenon
  <2>4. TickedStep(g, k, m + 1)
    <3>1. g = f
      BY <2>3
    <3> HIDE DEF g
    <3> QED BY <3>1 DEF TickedStep
  <2> QED BY <2>4
<1>3. Nat \subseteq N
  <2> HIDE DEF N
  <2> QED BY <1>1, <1>2, Induction
<1> QED BY <1>3

(* The scheduler goes on, before it catches up with the ticks.             *)
Going(k) == [k EXCEPT !.suspended = FALSE, !.pended = 0]

(* Before the first of them the lists are what they were.                  *)
LEMMA GoingIs ==
  ASSUME NEW k, Sound(k)
  PROVE  /\ Sound(Going(k)) /\ SameLists(k, Going(k))
         /\ ReadySet(Going(k)) = ReadySet(k)
         /\ Asleep(Going(k)) = Asleep(k) /\ Sleeping(Going(k)) = Sleeping(k)
         /\ Going(k).current = k.current /\ Going(k).blocked = k.blocked
         /\ Going(k).yield = k.yield
         /\ Going(k).suspended = FALSE /\ Going(k).pended = 0
<1> DEFINE n == Going(k)
<1>1. /\ n \in Scheduler /\ SameLists(k, n)
      /\ n.current = k.current /\ n.blocked = k.blocked /\ n.yield = k.yield
      /\ n.suspended = FALSE /\ n.pended = 0
  BY DEF Sound, Scheduler, SameLists, Going
<1> HIDE DEF n
<1>2. Sound(n) /\ ReadySet(n) = ReadySet(k) /\ Asleep(n) = Asleep(k) /\ Sleeping(n) = Sleeping(k)
  BY <1>1, SameListsSound
<1> QED BY <1>1, <1>2 DEF n

(* The pended ticks, by induction: what they wake, and what they owe.      *)
LEMMA ResumedIs ==
  ASSUME NEW k, Sound(k)
  PROVE  /\ Caught(Going(k), Resumed(k))
         /\ k.pended < WRAP => Slept(Going(k), Resumed(k), k.pended)
<1> DEFINE l == k.pended
           b == Going(k)
           g == CHOOSE g : TickedStep(g, b, l)
           Good(i) == /\ Caught(b, g[1 .. i])
                      /\ i < WRAP => Slept(b, g[1 .. i], i)
           N == {i \in Nat : i <= l => Good(i)}
<1>1. l \in Nat
  BY DEF Sound, Scheduler
<1>2. TickedStep(g, b, l)
  <2>1. \E h : TickedStep(h, b, l)
    BY <1>1, TickedExists
  <2> QED BY <2>1, Zenon
<1>3. Resumed(k) = g[1 .. l]
  BY DEF Resumed, FoldLeft, MapThenFoldSet, TickedStep, Going
<1>0. Sound(b)
  BY GoingIs
<1> HIDE DEF g, b
<1>4. 0 \in N
  <2>1. 1 .. 0 = {} /\ {} \in SUBSET (1 .. l)
    OBVIOUS
  <2>2. g[1 .. 0] = b
    BY <1>2, <2>1 DEF TickedStep
  <2>3. Caught(b, b)
    BY <1>0, CaughtSelf
  <2>4. b.tick \in Clock /\ Ahead(b.tick, b.tick) = 0
    <3>1. b.tick \in Clock
      BY <1>0 DEF Sound, Scheduler
    <3> DEFINE c == b.tick
    <3>2. c \in Nat /\ c < WRAP /\ WRAP \in Nat
          /\ Ahead(c, c) = IF c >= c THEN c - c ELSE c + WRAP - c
      BY <3>1, AheadIs, ClockIs
    <3> HIDE DEF c
    <3>3. Ahead(c, c) = 0
      BY <3>2
    <3> QED BY <3>1, <3>3 DEF c
  <2>5. ASSUME NEW e \in Sleeping(b) PROVE Ahead(e.wake, b.tick) > 0
    <3>1. e.wake \in Clock /\ e.wake # b.tick
      <4>1. e.wake \in Clock
        BY <1>0, SleepersAre, ItemWake DEF Sound
      <4>2. b.tick \in Nat /\ e.wake \in Nat
        BY <4>1, <2>4, ClockIs
      <4>3. e.wake > b.tick \/ e.wake < b.tick
        BY <1>0 DEF Sound, Delayed, Timely, Sleeping
      <4> QED BY <4>1, <4>2, <4>3
    <3> DEFINE w == e.wake
               c == b.tick
    <3>2. /\ w \in Nat /\ c \in Nat /\ w < WRAP /\ c < WRAP /\ w # c /\ WRAP \in Nat
          /\ Ahead(w, c) = IF w >= c THEN w - c ELSE w + WRAP - c
      BY <3>1, <2>4, AheadIs, ClockIs
    <3> HIDE DEF w, c
    <3>3. Ahead(w, c) > 0
      BY <3>2
    <3> QED BY <3>3 DEF w, c
  <2>6. Slept(b, b, 0)
    BY <2>4, <2>5 DEF Slept
  <2> QED BY <2>2, <2>3, <2>6
<1>5. ASSUME NEW i \in Nat, i \in N PROVE i + 1 \in N
  <2> SUFFICES ASSUME i + 1 <= l PROVE Good(i + 1)
    OBVIOUS
  <2>1. Good(i)
    BY <1>1, <1>5
  <2>2. 1 .. i + 1 \in SUBSET (1 .. l) /\ 1 .. i + 1 # {}
    <3>1. \A j \in 1 .. i + 1 : j \in 1 .. l
      BY <1>1
    <3>2. i + 1 \in 1 .. i + 1
      OBVIOUS
    <3> QED BY <3>1, <3>2
  <2>3. (1 .. i + 1) \ {Max(1 .. i + 1)} = 1 .. i
    <3>1. 1 .. i + 1 \in SUBSET (1 .. i + 1) /\ i + 1 \in 1 .. i + 1
      OBVIOUS
    <3>2. Max(1 .. i + 1) = i + 1
      BY <3>1, LastPlace
    <3> QED BY <3>2
  <2> DEFINE m == g[1 .. i]
             n == g[1 .. i + 1]
  <2>4. n = PendedTick(m)
    <3>1. n = PendedTick(g[(1 .. i + 1) \ {Max(1 .. i + 1)}])
      BY <1>2, <2>2 DEF TickedStep
    <3> QED BY <3>1, <2>3
  <2>5. Caught(b, m) /\ (i < WRAP => Slept(b, m, i))
    BY <2>1
  <2> HIDE DEF m, n
  <2>6. Sound(m)
    BY <2>5 DEF Caught
  <2>7. /\ Caught(m, n) /\ (m.yield => n.yield)
        /\ n.tick = (m.tick + 1) % WRAP
        /\ Sleeping(n) = Sleeping(m) \ DueAt(m, (m.tick + 1) % WRAP)
    BY <2>4, <2>6, PendedSound
  <2>8. Caught(b, n)
    BY <2>5, <2>7, CaughtTwice
  <2>9. i + 1 < WRAP => Slept(b, n, i + 1)
    <3> SUFFICES ASSUME i + 1 < WRAP PROVE Slept(b, n, i + 1)
      OBVIOUS
    <3>1. i < WRAP
      BY ClockIs
    <3> QED BY <3>1, <2>5, <2>7, <1>0, SleptOn
  <2> QED BY <2>8, <2>9 DEF n
<1>6. Nat \subseteq N
  <2> HIDE DEF N
  <2> QED BY <1>4, <1>5, Induction
<1>7. Good(l)
  <2>1. l \in N
    BY <1>1, <1>6
  <2> HIDE DEF Good
  <2>2. l <= l => Good(l)
    BY <2>1
  <2> QED BY <2>2, <1>1
<1> QED BY <1>3, <1>7 DEF b

(* A switch leaves the lists sound and the highest task running.           *)
LEMMA SwitchSound ==
  ASSUME NEW k, Sound(k), ReadySet(k) # {}, ~k.suspended
  PROVE  LET n == vTaskSwitchContext(k)
         IN /\ Sound(n) /\ ReadySet(n) = ReadySet(k)
            /\ Sleeping(n) = Sleeping(k) /\ Asleep(n) = Asleep(k)
            /\ Highest(n, ReadySet(n))
            /\ n.yield = FALSE /\ n.suspended = FALSE /\ n.pended = k.pended
            /\ n.prio = k.prio /\ n.blocked = k.blocked /\ n.tick = k.tick
<1> DEFINE n == vTaskSwitchContext(k)
           R == ReadySet(k)
<1>1. k \in Scheduler /\ R \in SUBSET AllTasks /\ Lists(k, R) /\ Delayed(k) /\ R \cap Asleep(k) = {}
  BY ReadyAre DEF Sound
<1>2. /\ n \in Scheduler /\ Lists(n, R) /\ Highest(n, R)
      /\ n.yield = FALSE
      /\ n.prio = k.prio
      /\ n.delayed = k.delayed /\ n.overflow = k.overflow /\ n.blocked = k.blocked
      /\ n.tick = k.tick /\ n.next = k.next
      /\ n.suspended = FALSE /\ n.pended = k.pended
  BY <1>1, SwitchIs
<1> HIDE DEF n, R
<1>3. Sleeping(n) = Sleeping(k) /\ Asleep(n) = Asleep(k)
  BY <1>2 DEF Sleeping, Asleep
<1>4. Delayed(n)
  BY <1>1, <1>2, <1>3 DEF Delayed, Timely
<1>5. Sound(n) /\ ReadySet(n) = R
  BY <1>1, <1>2, <1>3, <1>4, SoundFrom
<1> QED BY <1>2, <1>3, <1>5 DEF n, R

(* What xTaskResumeAll does.                                               *)
GoesOn(k, n) ==
  /\ Sound(n)
  /\ ReadySet(k) \subseteq ReadySet(n)
  /\ ReadySet(n) \cup Asleep(n) = ReadySet(k) \cup Asleep(k)
  /\ Sleeping(n) \subseteq Sleeping(k)
  /\ n.prio = k.prio /\ n.blocked = k.blocked
  /\ n.suspended = FALSE /\ n.pended = 0 /\ n.yield = FALSE
  /\ AlreadyYielded(k) => Highest(n, ReadySet(n))
  /\ ~AlreadyYielded(k) => /\ n.current = k.current
                           /\ Highest(k, ReadySet(k)) => Highest(n, ReadySet(n))
  /\ k.pended < WRAP => /\ n.tick \in Clock
                        /\ Ahead(n.tick, k.tick) = k.pended
                        /\ Sleeping(n) = {e \in Sleeping(k) : Ahead(e.wake, k.tick) > k.pended}

(* xTaskResumeAll: all of the ticks are caught up with, and no switch is   *)
(* missed.                                                                 *)
LEMMA ResumeIs ==
  ASSUME NEW k, Sound(k), ReadySet(k) # {}
  PROVE  GoesOn(k, xTaskResumeAll(k))
<1> DEFINE b == Going(k)
           r == Resumed(k)
           n == xTaskResumeAll(k)
<1>1. /\ Sound(b) /\ SameLists(k, b)
      /\ ReadySet(b) = ReadySet(k)
      /\ Asleep(b) = Asleep(k) /\ Sleeping(b) = Sleeping(k)
      /\ b.current = k.current /\ b.blocked = k.blocked
      /\ b.yield = k.yield
      /\ b.suspended = FALSE /\ b.pended = 0
  BY GoingIs
<1>2. Caught(b, r) /\ (k.pended < WRAP => Slept(b, r, k.pended))
  BY ResumedIs
<1> HIDE DEF b
<1>3. n = IF AlreadyYielded(k) THEN vTaskSwitchContext(r) ELSE r
  BY DEF xTaskResumeAll
<1>4. AlreadyYielded(k) <=> r.yield
  BY DEF AlreadyYielded
<1> HIDE DEF r
<1>5. /\ Sound(r)
      /\ ReadySet(k) \subseteq ReadySet(r)
      /\ ReadySet(r) \cup Asleep(r) = ReadySet(k) \cup Asleep(k)
      /\ Sleeping(r) \subseteq Sleeping(k)
      /\ r.prio = k.prio /\ r.current = k.current /\ r.blocked = k.blocked
      /\ r.suspended = FALSE /\ r.pended = 0
      /\ r.yield \/ \A t \in ReadySet(r) \ ReadySet(k) : r.prio[t] <= r.prio[r.current]
      /\ b.tick = k.tick
  BY <1>1, <1>2 DEF Caught, SameLists
<1>6. k.pended < WRAP => /\ r.tick \in Clock
                         /\ Ahead(r.tick, k.tick) = k.pended
                         /\ Sleeping(r) = {e \in Sleeping(k) : Ahead(e.wake, k.tick) > k.pended}
  BY <1>1, <1>2, <1>5 DEF Slept
<1>7. CASE AlreadyYielded(k)
  <2> DEFINE w == vTaskSwitchContext(r)
  <2>1. ReadySet(r) # {} /\ ~r.suspended
    BY <1>5
  <2>2. /\ Sound(w) /\ ReadySet(w) = ReadySet(r)
        /\ Sleeping(w) = Sleeping(r) /\ Asleep(w) = Asleep(r)
        /\ Highest(w, ReadySet(w))
        /\ w.yield = FALSE /\ w.suspended = FALSE /\ w.pended = r.pended
        /\ w.prio = r.prio /\ w.blocked = r.blocked /\ w.tick = r.tick
    BY <1>5, <2>1, SwitchSound
  <2>3. n = w
    BY <1>3, <1>7
  <2> HIDE DEF n, w
  <2>4. GoesOn(k, w)
    BY <1>5, <1>6, <1>7, <2>2 DEF GoesOn
  <2> QED BY <2>3, <2>4 DEF n
<1>8. CASE ~AlreadyYielded(k)
  <2>1. n = r /\ ~r.yield
    BY <1>3, <1>4, <1>8
  <2> HIDE DEF n
  <2>2. r.yield = FALSE
    BY <2>1, <1>5 DEF Sound, Scheduler
  <2>3. ASSUME Highest(k, ReadySet(k)) PROVE Highest(r, ReadySet(r))
    <3>1. r.current \in ReadySet(r)
      BY <2>3, <1>5 DEF Highest
    <3>2. \A t \in ReadySet(r) : r.prio[t] <= r.prio[r.current]
      BY <2>2, <2>3, <1>5 DEF Highest
    <3> QED BY <3>1, <3>2 DEF Highest
  <2>4. GoesOn(k, r)
    BY <1>5, <1>6, <1>8, <2>2, <2>3 DEF GoesOn
  <2> QED BY <2>1, <2>4 DEF n
<1> QED BY <1>7, <1>8

(* xTaskDelayUntil sleeps exactly when less than the period has passed     *)
(* since the previous wake time, as long as the task is less than one wrap *)
(* of the tick count late, and then for the rest of the period.            *)
THEOREM DelayIsRight ==
  ASSUME NEW now \in 0 .. WRAP - 1, NEW previous \in 0 .. WRAP - 1,
         NEW period \in 1 .. WRAP - 1
  PROVE  LET wake == (previous + period) % WRAP
         IN /\ ShouldDelay(now, previous, wake) <=> Ahead(now, previous) < period
            /\ ShouldDelay(now, previous, wake) =>
                 Ahead(wake, now) = period - Ahead(now, previous)
<1> DEFINE wake == (previous + period) % WRAP
<1>1. wake = IF previous + period < WRAP THEN previous + period ELSE previous + period - WRAP
  BY Reduce, WrapAssumption
<1>2. wake \in 0 .. WRAP - 1
  BY <1>1, WrapAssumption
<1>3. Ahead(now, previous) = IF now >= previous THEN now - previous ELSE now + WRAP - previous
  <2>1. now + WRAP - previous \in 0 .. 2 * WRAP - 1
    BY WrapAssumption
  <2> QED BY <2>1, Reduce, WrapAssumption DEF Ahead
<1> HIDE DEF wake
<1>4. Ahead(wake, now) = IF wake >= now THEN wake - now ELSE wake + WRAP - now
  <2>1. wake + WRAP - now \in 0 .. 2 * WRAP - 1
    BY <1>2, WrapAssumption
  <2> QED BY <2>1, <1>2, Reduce, WrapAssumption DEF Ahead
<1>5. ShouldDelay(now, previous, wake) <=> Ahead(now, previous) < period
  BY <1>1, <1>3, WrapAssumption DEF ShouldDelay
<1>6. ShouldDelay(now, previous, wake) => Ahead(wake, now) = period - Ahead(now, previous)
  BY <1>1, <1>2, <1>3, <1>4, WrapAssumption DEF ShouldDelay
<1> QED BY <1>5, <1>6 DEF wake

-----------------------------------------------------------------------------
(* What keeps the mutex exclusive: its count, its holder and the place of  *)
(* each task agree, and what the idle task frees has deleted itself.       *)

TypeOK ==
  /\ pc \in [Tasks -> Labels]
  /\ uxMessagesWaiting \in {0, 1}
  /\ xMutexHolder \in Tasks \cup {NULL}
  /\ terminated \in Seq(Tasks)

HolderIsInside ==
  /\ \A t \in Tasks : pc[t] = "inside" <=> xMutexHolder = t
  /\ uxMessagesWaiting = 1 <=> xMutexHolder = NULL

OnlyUsersAsk == \A t \in Tasks : pc[t] \in Asking \cup {"inside"} => t \in Users

TerminatedAreGone ==
  \A i \in 1 .. Len(terminated) : pc[terminated[i]] \in {"deleted", "gone", "freed"}

MutexInv == TypeOK /\ HolderIsInside /\ OnlyUsersAsk /\ TerminatedAreGone

-----------------------------------------------------------------------------
(* A step that moves t between two places where it neither asks for the    *)
(* mutex nor is inside, or within asking, leaves the invariant true.       *)
LEMMA MoveKeeps ==
  ASSUME MutexInv, NEW t \in Tasks, NEW label \in Labels \ {"inside"},
         \/ pc[t] \notin {"inside", "deleted", "gone", "freed"}
         \/ (label \in {"deleted", "gone", "freed"} /\ pc[t] # "inside"),
         label \in Asking => t \in Users,
         Goto(t, label),
         UNCHANGED <<uxMessagesWaiting, xMutexHolder, terminated>>
  PROVE  MutexInv'
<1> USE DEF MutexInv, Goto
<1>1. TypeOK'
  BY DEF TypeOK
<1>2. \A u \in Tasks : pc'[u] = "inside" <=> pc[u] = "inside"
  BY NamesAssumption DEF TypeOK, HolderIsInside, TerminatedAreGone, Labels, Asking
<1>3. HolderIsInside'
  BY <1>2 DEF HolderIsInside
<1>4. OnlyUsersAsk'
  BY DEF OnlyUsersAsk, TypeOK
<1>5. TerminatedAreGone'
  <2> SUFFICES ASSUME NEW i \in 1 .. Len(terminated)
               PROVE  pc'[terminated[i]] \in {"deleted", "gone", "freed"}
    BY DEF TerminatedAreGone
  <2>1. terminated[i] \in Tasks
    BY DEF TypeOK
  <2>2. pc[terminated[i]] \in {"deleted", "gone", "freed"}
    BY DEF TerminatedAreGone
  <2> QED BY <2>1, <2>2 DEF TypeOK
<1> QED BY <1>1, <1>3, <1>4, <1>5

(* A step that leaves the places and the mutex alone.                      *)
LEMMA StutterKeeps ==
  ASSUME MutexInv, UNCHANGED <<pc, uxMessagesWaiting, xMutexHolder, terminated>>
  PROVE  MutexInv'
BY DEF MutexInv, TypeOK, HolderIsInside, OnlyUsersAsk, TerminatedAreGone

(* The mutex is free when the scheduler starts.                            *)
LEMMA InitMutex == Init => MutexInv
<1> SUFFICES ASSUME Init PROVE MutexInv
  OBVIOUS
<1>1. /\ pc = [t \in Tasks |-> IF t \in Main THEN "run" ELSE "none"]
      /\ uxMessagesWaiting = 1
      /\ xMutexHolder = NULL
      /\ terminated = <<>>
  BY DEF Init
<1>2. TypeOK
  BY <1>1 DEF TypeOK, Labels
<1>3. HolderIsInside
  BY <1>1, NamesAssumption DEF HolderIsInside, AllTasks
<1>4. OnlyUsersAsk /\ TerminatedAreGone
  BY <1>1 DEF OnlyUsersAsk, TerminatedAreGone, Asking
<1> QED BY <1>2, <1>3, <1>4 DEF MutexInv

(* TryTake.                                                                *)
LEMMA TakeKeeps ==
  ASSUME MutexInv, NEW t \in Tasks, TryTake(t)
  PROVE  MutexInv'
<1> USE DEF MutexInv, Goto, TryTake, At
<1>0. t \in Users
  BY DEF OnlyUsersAsk, Asking
<1>1. TypeOK'
  BY DEF TypeOK, Labels, Asking
<1>2. HolderIsInside'
  BY NamesAssumption DEF HolderIsInside, TypeOK, AllTasks
<1>3. OnlyUsersAsk'
  BY <1>0 DEF OnlyUsersAsk, TypeOK
<1>4. TerminatedAreGone'
  BY DEF TerminatedAreGone, TypeOK
<1> QED BY <1>1, <1>2, <1>3, <1>4

(* Give.                                                                   *)
LEMMA GiveKeeps ==
  ASSUME MutexInv, NEW t \in Tasks, Give(t)
  PROVE  MutexInv'
<1> USE DEF MutexInv, Goto, At
<1> USE DEF Give
<1>1. TypeOK'
  BY NamesAssumption DEF TypeOK, Labels, Asking, HolderIsInside, AllTasks
<1>2. HolderIsInside'
  BY NamesAssumption DEF HolderIsInside, TypeOK, AllTasks
<1>3. OnlyUsersAsk'
  BY DEF OnlyUsersAsk, TypeOK, Asking
<1>4. TerminatedAreGone'
  BY DEF TerminatedAreGone, TypeOK
<1> QED BY <1>1, <1>2, <1>3, <1>4

(* vTaskDelete.                                                            *)
LEMMA DeleteKeeps ==
  ASSUME MutexInv, NEW t \in Tasks, vTaskDelete(t)
  PROVE  MutexInv'
<1> USE DEF MutexInv, Goto, At, mutexVars, vTaskDelete
<1>1. TypeOK'
  BY DEF TypeOK, Labels
<1>2. HolderIsInside'
  BY DEF HolderIsInside, TypeOK
<1>3. OnlyUsersAsk'
  BY DEF OnlyUsersAsk, TypeOK, Asking
<1>4. TerminatedAreGone'
  BY DEF TerminatedAreGone, TypeOK
<1> QED BY <1>1, <1>2, <1>3, <1>4

(* IdleFrees.                                                              *)
LEMMA IdleKeeps ==
  ASSUME MutexInv, IdleFrees
  PROVE  MutexInv'
<1> USE DEF MutexInv, Goto, mutexVars, IdleFrees
<1> DEFINE u == Head(terminated)
<1>0. u \in Tasks /\ pc[u] \in {"deleted", "gone", "freed"}
  <2>1. 1 \in 1 .. Len(terminated) /\ u = terminated[1]
    BY DEF TypeOK
  <2> QED BY <2>1 DEF TypeOK, TerminatedAreGone
<1>1. TypeOK'
  BY <1>0 DEF TypeOK, Labels
<1>2. HolderIsInside'
  BY <1>0 DEF HolderIsInside, TypeOK
<1>3. OnlyUsersAsk'
  BY <1>0 DEF OnlyUsersAsk, TypeOK, Asking
<1>4. TerminatedAreGone'
  <2> SUFFICES ASSUME NEW i \in 1 .. Len(terminated')
               PROVE  pc'[terminated'[i]] \in {"deleted", "gone", "freed"}
    BY DEF TerminatedAreGone
  <2>1. i + 1 \in 1 .. Len(terminated) /\ terminated'[i] = terminated[i + 1]
    BY DEF TypeOK
  <2> QED BY <2>1, <1>0 DEF TypeOK, TerminatedAreGone
<1> QED BY <1>1, <1>2, <1>3, <1>4

-----------------------------------------------------------------------------
(* Every step of a task that is neither TryTake, Give nor vTaskDelete      *)
(* moves it, or a task it creates, or leaves all of pc as it is.           *)

LEMMA StepKeeps ==
  ASSUME MutexInv, NEW t \in Tasks, Step(t)
  PROVE  MutexInv'
<1>1. CASE CallTake(t)
  BY <1>1, MoveKeeps DEF CallTake, At, Labels, Asking, mutexVars
<1>2. CASE TryTake(t)
  BY <1>2, TakeKeeps
<1>3. CASE BlockOnTake(t)
  <2>1. t \in Users /\ pc[t] = "wait"
    BY <1>3 DEF BlockOnTake, At, MutexInv, OnlyUsersAsk, Asking
  <2>2. PICK label \in {"listed", "retry"} : Goto(t, label)
    BY <1>3 DEF BlockOnTake
  <2>3. UNCHANGED <<uxMessagesWaiting, xMutexHolder, terminated>>
    BY <1>3 DEF BlockOnTake
  <2> QED BY <2>1, <2>2, <2>3, MoveKeeps DEF Labels, Asking
<1>4. CASE RetryTake(t)
  BY <1>4, MoveKeeps DEF RetryTake, At, Labels, Asking, MutexInv, OnlyUsersAsk, mutexVars
<1>5. ASSUME NEW from \in {"listed", "asleep"},
             NEW yields \in Labels, NEW done \in Labels,
             <<from, yields, done>> \in {<<"listed", "parked", "take">>,
                                        <<"asleep", "delayed", "run">>},
             ResumeBlocked(t, from, yields, done)
      PROVE  MutexInv'
  <2>1. PICK label \in {yields, done} : Goto(t, label)
    BY <1>5 DEF ResumeBlocked
  <2> QED BY <2>1, <1>5, MoveKeeps
          DEF ResumeBlocked, At, Labels, Asking, MutexInv, OnlyUsersAsk, mutexVars
<1>6. CASE Yield(t, "parked", "take")
  BY <1>6, MoveKeeps DEF Yield, At, Labels, Asking, MutexInv, OnlyUsersAsk, mutexVars
<1>7. CASE Yield(t, "delayed", "run")
  BY <1>7, MoveKeeps DEF Yield, At, Labels, Asking, MutexInv, OnlyUsersAsk, mutexVars
<1>8. CASE Yield(t, "deleted", "gone")
  BY <1>8, MoveKeeps DEF Yield, At, Labels, Asking, MutexInv, OnlyUsersAsk, mutexVars
<1>9. CASE Give(t)
  BY <1>9, GiveKeeps
<1>10. CASE vTaskDelay(t)
  <2>1. CASE UNCHANGED pc
    BY <2>1, <1>10, StutterKeeps DEF vTaskDelay, mutexVars
  <2>2. CASE Goto(t, "asleep")
    BY <2>2, <1>10, MoveKeeps DEF vTaskDelay, At, Labels, Asking, mutexVars
  <2> QED BY <2>1, <2>2, <1>10 DEF vTaskDelay
<1>11. CASE xTaskDelayUntil(t)
  BY <1>11, MoveKeeps DEF xTaskDelayUntil, At, Labels, Asking, mutexVars
<1>12. ASSUME NEW u \in Tasks, xTaskCreate(t, u) PROVE MutexInv'
  <2>1. PICK label \in {"start", "run"} : Goto(u, label)
    BY <1>12 DEF xTaskCreate, Goto
  <2> QED BY <2>1, <1>12, MoveKeeps DEF xTaskCreate, Labels, Asking, mutexVars
<1>13. CASE StartPeriod(t)
  BY <1>13, MoveKeeps DEF StartPeriod, At, Labels, Asking, mutexVars
<1>14. CASE vTaskDelete(t)
  BY <1>14, DeleteKeeps
<1> QED
  BY <1>1, <1>2, <1>3, <1>4, <1>5, <1>6, <1>7, <1>8, <1>9, <1>10, <1>11, <1>12, <1>13, <1>14
     DEF Step, Labels, Asking

(* The mutex is held by the task that is inside and by no other.           *)
THEOREM MutexInvariant == Spec => []MutexInv
<1>1. MutexInv /\ [Next]_vars => MutexInv'
  <2> SUFFICES ASSUME MutexInv, [Next]_vars PROVE MutexInv'
    OBVIOUS
  <2>1. CASE UNCHANGED vars
    BY <2>1, StutterKeeps DEF vars, mutexVars
  <2>2. CASE TickInterrupt
    BY <2>2, StutterKeeps DEF TickInterrupt, mutexVars
  <2>3. CASE IdleFrees
    BY <2>3, IdleKeeps
  <2>4. CASE \E t \in Tasks : Step(t)
    BY <2>4, StepKeeps
  <2> QED BY <2>1, <2>2, <2>3, <2>4 DEF Next
<1> QED BY InitMutex, <1>1, PTL DEF Spec

-----------------------------------------------------------------------------
(* The refinement of BusLock.                                              *)

PlaceOf(label) == CASE label = "inside" -> "inside"
                    [] label \in Asking -> "waiting"
                    [] OTHER -> "out"

(* Where, by places.                                                       *)
LEMMA WhereIsPlace == Where = [t \in Users |-> PlaceOf(pc[t])]
BY DEF Where, PlaceOf, Asking

(* A move within a place is no step of the lock.                           *)
LEMMA MoveStutters ==
  ASSUME MutexInv, NEW t \in Tasks, NEW label, Goto(t, label),
         PlaceOf(label) = PlaceOf(pc[t])
  PROVE  UNCHANGED Where
<1>1. \A u \in Users : PlaceOf(pc'[u]) = PlaceOf(pc[u])
  BY TasksAssumption DEF Goto, MutexInv, TypeOK
<1>2. Where' = [u \in Users |-> PlaceOf(pc'[u])]
  BY DEF Where, PlaceOf, Asking
<1> QED BY <1>1, <1>2, WhereIsPlace

(* A move to another place is one.                                         *)
LEMMA MoveChanges ==
  ASSUME MutexInv, NEW t \in Users, NEW label, Goto(t, label)
  PROVE  Where' = [Where EXCEPT ![t] = PlaceOf(label)]
<1>1. \A u \in Users : PlaceOf(pc'[u]) = IF u = t THEN PlaceOf(label) ELSE PlaceOf(pc[u])
  BY TasksAssumption DEF Goto, MutexInv, TypeOK
<1>2. Where' = [u \in Users |-> PlaceOf(pc'[u])]
  BY DEF Where, PlaceOf, Asking
<1> QED BY <1>1, <1>2, WhereIsPlace

(* The places of the labels.                                               *)
LEMMA Places ==
  /\ PlaceOf("inside") = "inside"
  /\ \A label \in Asking : PlaceOf(label) = "waiting"
  /\ \A label \in Labels \ (Asking \cup {"inside"}) : PlaceOf(label) = "out"
BY DEF PlaceOf, Asking, Labels

(* CallTake is the step that asks.                                         *)
LEMMA CallTakeAsks ==
  ASSUME MutexInv, NEW t \in Tasks, CallTake(t)
  PROVE  Lock!Next
<1>1. t \in Users /\ Goto(t, "take") /\ pc[t] = "run"
  BY DEF CallTake, At
<1>2. Where[t] = "out"
  BY <1>1, WhereIsPlace, Places DEF Labels, Asking
<1>3. Where' = [Where EXCEPT ![t] = "waiting"]
  BY <1>1, MoveChanges, Places DEF Asking
<1> QED BY <1>1, <1>2, <1>3 DEF Lock!Next, Lock!Ask

(* TryTake enters, or waits on.                                            *)
LEMMA TryTakeEnters ==
  ASSUME MutexInv, NEW t \in Tasks, TryTake(t)
  PROVE  [Lock!Next]_Where
<1>1. pc[t] = "take" /\ t \in Users
  BY DEF TryTake, At, MutexInv, OnlyUsersAsk, Asking
<1>2. CASE uxMessagesWaiting = 0
  BY <1>1, <1>2, MoveStutters, Places DEF TryTake, Asking
<1>3. CASE uxMessagesWaiting > 0
  <2>1. Goto(t, "inside")
    BY <1>3 DEF TryTake
  <2>2. Where[t] = "waiting"
    BY <1>1, WhereIsPlace, Places DEF Asking
  <2>3. \A u \in Users : Where[u] # "inside"
    <3> SUFFICES ASSUME NEW u \in Users PROVE pc[u] # "inside"
      BY WhereIsPlace DEF PlaceOf
    <3>1. xMutexHolder = NULL
      BY <1>3 DEF MutexInv, TypeOK, HolderIsInside
    <3> QED BY <3>1, NamesAssumption, TasksAssumption DEF MutexInv, HolderIsInside, AllTasks
  <2>4. Where' = [Where EXCEPT ![t] = "inside"]
    BY <1>1, <2>1, MoveChanges, Places
  <2> QED BY <1>1, <2>2, <2>3, <2>4 DEF Lock!Next, Lock!Enter
<1> QED BY <1>2, <1>3 DEF TryTake

(* Give leaves.                                                            *)
LEMMA GiveLeaves ==
  ASSUME MutexInv, NEW t \in Tasks, Give(t)
  PROVE  Lock!Next
<1>1. pc[t] = "inside" /\ Goto(t, "run") /\ t \in Users
  BY DEF Give, At, MutexInv, OnlyUsersAsk
<1>2. Where[t] = "inside"
  BY <1>1, WhereIsPlace, Places
<1>3. Where' = [Where EXCEPT ![t] = "out"]
  BY <1>1, MoveChanges, Places DEF Labels, Asking
<1> QED BY <1>1, <1>2, <1>3 DEF Lock!Next, Lock!Leave

(* Every other step is none of the lock.                                   *)
LEMMA StepImplements ==
  ASSUME MutexInv, NEW t \in Tasks, Step(t)
  PROVE  [Lock!Next]_Where
<1> USE Places DEF At, Labels, Asking
<1>1. CASE CallTake(t)
  BY <1>1, CallTakeAsks
<1>2. CASE TryTake(t)
  BY <1>2, TryTakeEnters
<1>3. CASE BlockOnTake(t)
  BY <1>3, MoveStutters DEF BlockOnTake
<1>4. CASE RetryTake(t)
  BY <1>4, MoveStutters DEF RetryTake
<1>5. CASE ResumeBlocked(t, "listed", "parked", "take")
  BY <1>5, MoveStutters DEF ResumeBlocked
<1>6. CASE ResumeBlocked(t, "asleep", "delayed", "run")
  BY <1>6, MoveStutters DEF ResumeBlocked
<1>7. CASE Yield(t, "parked", "take")
  BY <1>7, MoveStutters DEF Yield
<1>8. CASE Yield(t, "delayed", "run")
  BY <1>8, MoveStutters DEF Yield
<1>9. CASE Yield(t, "deleted", "gone")
  BY <1>9, MoveStutters DEF Yield
<1>10. CASE Give(t)
  BY <1>10, GiveLeaves
<1>11. CASE vTaskDelay(t)
  <2>1. CASE UNCHANGED pc
    BY <2>1 DEF Where
  <2>2. CASE Goto(t, "asleep")
    BY <2>2, <1>11, MoveStutters DEF vTaskDelay
  <2> QED BY <2>1, <2>2, <1>11 DEF vTaskDelay
<1>12. CASE xTaskDelayUntil(t)
  BY <1>12, MoveStutters DEF xTaskDelayUntil
<1>13. ASSUME NEW u \in Tasks, xTaskCreate(t, u) PROVE [Lock!Next]_Where
  <2>1. PICK label \in {"start", "run"} : Goto(u, label)
    BY <1>13 DEF xTaskCreate, Goto
  <2> QED BY <2>1, <1>13, MoveStutters DEF xTaskCreate
<1>14. CASE StartPeriod(t)
  BY <1>14, MoveStutters DEF StartPeriod
<1>15. CASE vTaskDelete(t)
  BY <1>15, MoveStutters DEF vTaskDelete
<1> QED
  BY <1>1, <1>2, <1>3, <1>4, <1>5, <1>6, <1>7, <1>8, <1>9, <1>10, <1>11, <1>12, <1>13, <1>14, <1>15
     DEF Step

(* The mutex of the kernel is the lock the drivers' modules rely on: for   *)
(* any tasks and priorities, at most one task is inside, and a task gets   *)
(* inside only from waiting (xQueueSemaphoreTake, xQueueGenericSend).      *)
THEOREM MutexImplementsLock == Spec => ImplementsLock
<1>1. Init => Lock!Init
  <2> SUFFICES ASSUME Init PROVE \A t \in Users : PlaceOf(pc[t]) = "out"
    BY WhereIsPlace DEF Lock!Init
  <2>1. \A t \in Users : pc[t] \in {"run", "none"}
    BY TasksAssumption DEF Init
  <2> QED BY <2>1, Places DEF Labels, Asking
<1>2. MutexInv /\ [Next]_vars => [Lock!Next]_Where
  <2> SUFFICES ASSUME MutexInv, [Next]_vars PROVE [Lock!Next]_Where
    OBVIOUS
  <2>1. CASE UNCHANGED pc
    BY <2>1 DEF Where
  <2>2. CASE IdleFrees
    <3>1. Head(terminated) \in Tasks /\ pc[Head(terminated)] \in {"deleted", "gone", "freed"}
      <4>1. 1 \in 1 .. Len(terminated) /\ Head(terminated) = terminated[1]
        BY <2>2 DEF IdleFrees, MutexInv, TypeOK
      <4> QED BY <4>1 DEF MutexInv, TypeOK, TerminatedAreGone
    <3> QED BY <2>2, <3>1, MoveStutters, Places DEF IdleFrees, Labels, Asking
  <2>3. CASE \E t \in Tasks : Step(t)
    BY <2>3, StepImplements
  <2> QED BY <2>1, <2>2, <2>3 DEF Next, TickInterrupt, vars
<1> QED BY <1>1, <1>2, MutexInvariant, PTL DEF Spec, ImplementsLock, Lock!Spec

-----------------------------------------------------------------------------
(* Steps through the scheduler.                                            *)

(* What carries over when the scheduler runs or goes on running: no task   *)
(* leaves the ready lists, and those that enter them have been asleep.     *)
Onward(k, n) ==
  /\ Sound(n)
  /\ ReadySet(k) \subseteq ReadySet(n)
  /\ ReadySet(n) \cup Asleep(n) = ReadySet(k) \cup Asleep(k)
  /\ Asleep(n) \subseteq Asleep(k)
  /\ n.prio = k.prio /\ n.blocked = k.blocked
  /\ n.suspended = FALSE /\ n.pended = 0 /\ n.yield = FALSE

(* xTaskResumeAll is such a step.                                          *)
LEMMA ResumeOnward ==
  ASSUME NEW k, NEW n, GoesOn(k, n)
  PROVE  Onward(k, n)
BY AsleepIs DEF GoesOn, Onward, TasksOf

(* And vTaskSwitchContext.                                                 *)
LEMMA SwitchOnward ==
  ASSUME NEW k, Sound(k), ReadySet(k) # {}, ~k.suspended, k.pended = 0
  PROVE  LET n == vTaskSwitchContext(k)
         IN /\ Onward(k, n) /\ Highest(n, ReadySet(n))
            /\ n.tick = k.tick /\ Sleeping(n) = Sleeping(k)
<1> DEFINE n == vTaskSwitchContext(k)
<1>1. /\ Sound(n) /\ ReadySet(n) = ReadySet(k)
      /\ Sleeping(n) = Sleeping(k) /\ Asleep(n) = Asleep(k)
      /\ Highest(n, ReadySet(n))
      /\ n.yield = FALSE /\ n.suspended = FALSE /\ n.pended = k.pended
      /\ n.prio = k.prio /\ n.blocked = k.blocked /\ n.tick = k.tick
  BY SwitchSound
<1> HIDE DEF n
<1>2. Onward(k, n)
  BY <1>1 DEF Onward
<1> QED BY <1>1, <1>2 DEF n

(* And the tick, with the switch it asks for.                              *)
LEMMA TickOnward ==
  ASSUME NEW k, Sound(k), ReadySet(k) # {}, k.suspended = FALSE, k.pended = 0, k.yield = FALSE
  PROVE  LET a == Tick(k)
             n == IF SwitchRequired(k, a) THEN vTaskSwitchContext(a) ELSE a
         IN /\ Onward(k, n)
            /\ \/ Highest(n, ReadySet(n))
               \/ /\ n.current = k.current
                  /\ Highest(k, ReadySet(k)) => Highest(n, ReadySet(n))
            /\ n.tick = (k.tick + 1) % WRAP
            /\ Sleeping(n) = Sleeping(k) \ DueAt(k, (k.tick + 1) % WRAP)
<1> DEFINE a == Tick(k)
           y == SwitchRequired(k, a)
           b == vTaskSwitchContext(a)
           n == IF y THEN b ELSE a
<1>1. Ticked(k, a)
  BY TickSound
<1>2. ~y => \A t \in ReadySet(a) \ ReadySet(k) : a.prio[t] <= a.prio[a.current]
  BY <1>1, SwitchOwed
<1> HIDE DEF a, y
<1>3. /\ Sound(a) /\ SameButTick(k, a) /\ ReadySet(a) # {} /\ ~a.suspended /\ a.pended = 0
      /\ a.tick = (k.tick + 1) % WRAP
      /\ Sleeping(a) = Sleeping(k) \ DueAt(k, (k.tick + 1) % WRAP)
  BY <1>1 DEF Ticked, SameButTick
<1>4. Onward(k, a)
  <2>1. Asleep(a) \subseteq Asleep(k)
    BY <1>3, AsleepIs DEF TasksOf
  <2> QED BY <1>1, <1>3, <2>1 DEF Ticked, SameButTick, Onward
<1>5. /\ Onward(a, b) /\ Highest(b, ReadySet(b))
      /\ b.tick = a.tick /\ Sleeping(b) = Sleeping(a)
  BY <1>3, SwitchOnward
<1> HIDE DEF b
<1>6. Onward(k, b)
  BY <1>4, <1>5 DEF Onward
<1>7. a.current = k.current
  BY <1>3 DEF SameButTick
<1>8. ASSUME ~y, Highest(k, ReadySet(k)) PROVE Highest(a, ReadySet(a))
  BY <1>2, <1>3, <1>4, <1>8 DEF Highest, Onward, SameButTick
<1>9. CASE y
  <2>1. n = b
    BY <1>9
  <2> HIDE DEF n
  <2> QED BY <1>3, <1>5, <1>6, <2>1 DEF n, a, y, b
<1>10. CASE ~y
  <2>1. n = a
    BY <1>10
  <2> HIDE DEF n
  <2> QED BY <1>3, <1>4, <1>7, <1>8, <1>10, <2>1 DEF n, a, y, b
<1> QED BY <1>9, <1>10

-----------------------------------------------------------------------------
(* The other operations of the scheduler.                                  *)

(* The state of the scheduler, the ready lists apart.                      *)
SameDelayed(k, n) ==
  n.delayed = k.delayed /\ n.overflow = k.overflow /\ n.tick = k.tick /\ n.next = k.next

(* A change of the ready lists leaves the sleepers sound.                  *)
LEMMA DelayedSound ==
  ASSUME NEW k, Sound(k), NEW n \in Scheduler, NEW R \in SUBSET AllTasks, Lists(n, R),
         SameDelayed(k, n), R \cap Asleep(k) = {}
  PROVE  /\ Sound(n) /\ ReadySet(n) = R
         /\ Sleeping(n) = Sleeping(k) /\ Asleep(n) = Asleep(k)
<1>1. Sleeping(n) = Sleeping(k) /\ Asleep(n) = Asleep(k)
  BY DEF SameDelayed, Sleeping, Asleep
<1>2. Delayed(n)
  BY <1>1 DEF SameDelayed, Delayed, Timely, Sound
<1> QED BY <1>1, <1>2, SoundFrom

(* A task that is made ready.                                              *)
LEMMA AddSound ==
  ASSUME NEW k, Sound(k), NEW t \in AllTasks, t \notin ReadySet(k), t \notin Asleep(k)
  PROVE  LET n == prvAddTaskToReadyList(k, t)
         IN /\ Sound(n) /\ ReadySet(n) = ReadySet(k) \cup {t}
            /\ Sleeping(n) = Sleeping(k) /\ Asleep(n) = Asleep(k)
            /\ SameRest(k, n)
<1> DEFINE n == prvAddTaskToReadyList(k, t)
           R == ReadySet(k)
<1>1. k \in Scheduler /\ Lists(k, R) /\ R \in SUBSET AllTasks /\ R \cap Asleep(k) = {}
  BY ReadyAre DEF Sound
<1> HIDE DEF R
<1>2. t \in AllTasks \ R
  BY DEF R
<1>3. n \in Scheduler /\ Lists(n, R \cup {t}) /\ SameRest(k, n)
  BY <1>1, <1>2, AddIs
<1> HIDE DEF n
<1>4. SameDelayed(k, n) /\ R \cup {t} \in SUBSET AllTasks /\ (R \cup {t}) \cap Asleep(k) = {}
  BY <1>1, <1>3 DEF SameRest, SameDelayed
<1> QED BY <1>3, <1>4, DelayedSound DEF n, R

(* A task that is no longer ready.                                         *)
LEMMA RemoveSound ==
  ASSUME NEW k, Sound(k), NEW t \in ReadySet(k)
  PROVE  LET n == RemoveFromReadyList(k, t)
         IN /\ Sound(n) /\ ReadySet(n) = ReadySet(k) \ {t}
            /\ Sleeping(n) = Sleeping(k) /\ Asleep(n) = Asleep(k)
            /\ SameRest(k, n)
<1> DEFINE n == RemoveFromReadyList(k, t)
           R == ReadySet(k)
<1>1. k \in Scheduler /\ Lists(k, R) /\ R \in SUBSET AllTasks /\ R \cap Asleep(k) = {} /\ t \in R
  BY ReadyAre DEF Sound
<1> HIDE DEF R
<1>3. n \in Scheduler /\ Lists(n, R \ {t}) /\ SameRest(k, n)
  BY <1>1, RemoveReadyIs
<1> HIDE DEF n
<1>4. SameDelayed(k, n) /\ R \ {t} \in SUBSET AllTasks /\ (R \ {t}) \cap Asleep(k) = {}
  BY <1>1, <1>3 DEF SameRest, SameDelayed
<1> QED BY <1>3, <1>4, DelayedSound DEF n, R

(* A task with another priority.                                           *)
LEMMA PrioritySound ==
  ASSUME NEW k, Sound(k), NEW t \in AllTasks, NEW p \in Priorities
  PROVE  LET n == SetPriority(k, t, p)
         IN /\ Sound(n) /\ ReadySet(n) = ReadySet(k)
            /\ Sleeping(n) = Sleeping(k) /\ Asleep(n) = Asleep(k)
            /\ n.prio = [k.prio EXCEPT ![t] = p]
            /\ SameButPriority(k, n)
<1> DEFINE n == SetPriority(k, t, p)
           R == ReadySet(k)
<1>1. k \in Scheduler /\ Lists(k, R) /\ R \in SUBSET AllTasks /\ R \cap Asleep(k) = {}
  BY ReadyAre DEF Sound
<1> HIDE DEF R
<1>3. /\ n \in Scheduler /\ Lists(n, R)
      /\ n.prio = [k.prio EXCEPT ![t] = p]
      /\ SameButPriority(k, n)
  BY <1>1, SetPriorityIs
<1> HIDE DEF n
<1>4. SameDelayed(k, n)
  BY <1>3 DEF SameButPriority, SameDelayed
<1> QED BY <1>1, <1>3, <1>4, DelayedSound DEF n, R

(* vTaskSuspendAll.                                                        *)
LEMMA SuspendSound ==
  ASSUME NEW k, Sound(k)
  PROVE  LET n == vTaskSuspendAll(k)
         IN /\ Sound(n) /\ ReadySet(n) = ReadySet(k)
            /\ Sleeping(n) = Sleeping(k) /\ Asleep(n) = Asleep(k)
            /\ n.prio = k.prio /\ n.current = k.current /\ n.blocked = k.blocked
            /\ n.tick = k.tick
            /\ n.suspended = TRUE /\ n.pended = k.pended /\ n.yield = k.yield
<1> DEFINE n == vTaskSuspendAll(k)
<1>1. /\ n \in Scheduler /\ SameLists(k, n)
      /\ n.current = k.current /\ n.blocked = k.blocked /\ n.yield = k.yield
      /\ n.suspended = TRUE /\ n.pended = k.pended
  BY DEF Sound, Scheduler, SameLists, vTaskSuspendAll
<1> HIDE DEF n
<1>2. Sound(n) /\ ReadySet(n) = ReadySet(k) /\ Asleep(n) = Asleep(k) /\ Sleeping(n) = Sleeping(k)
  BY <1>1, SameListsSound
<1> QED BY <1>1, <1>2 DEF n, SameLists

(* A tick while the scheduler is suspended.                                *)
LEMMA PendSound ==
  ASSUME NEW k, Sound(k)
  PROVE  LET n == [k EXCEPT !.pended = @ + 1]
         IN /\ Sound(n) /\ ReadySet(n) = ReadySet(k)
            /\ Sleeping(n) = Sleeping(k) /\ Asleep(n) = Asleep(k)
            /\ n.prio = k.prio /\ n.current = k.current /\ n.blocked = k.blocked
            /\ n.tick = k.tick
            /\ n.suspended = k.suspended /\ n.pended = k.pended + 1 /\ n.yield = k.yield
<1> DEFINE n == [k EXCEPT !.pended = @ + 1]
<1>0. k \in Scheduler /\ k.pended + 1 \in Nat
  BY DEF Sound, Scheduler
<1>1. /\ n \in Scheduler /\ SameLists(k, n)
      /\ n.current = k.current /\ n.blocked = k.blocked /\ n.yield = k.yield
      /\ n.suspended = k.suspended /\ n.pended = k.pended + 1
  BY <1>0 DEF Scheduler, SameLists
<1> HIDE DEF n
<1>2. Sound(n) /\ ReadySet(n) = ReadySet(k) /\ Asleep(n) = Asleep(k) /\ Sleeping(n) = Sleeping(k)
  BY <1>1, SameListsSound
<1> QED BY <1>1, <1>2 DEF n, SameLists

(* The tasks of the event list change, and nothing else.                   *)
LEMMA BlockedSound ==
  ASSUME NEW k, Sound(k), NEW B \in SUBSET Tasks
  PROVE  LET n == [k EXCEPT !.blocked = B]
         IN /\ Sound(n) /\ ReadySet(n) = ReadySet(k)
            /\ Sleeping(n) = Sleeping(k) /\ Asleep(n) = Asleep(k)
            /\ n.prio = k.prio /\ n.current = k.current /\ n.blocked = B
            /\ n.tick = k.tick
            /\ n.suspended = k.suspended /\ n.pended = k.pended /\ n.yield = k.yield
<1> DEFINE n == [k EXCEPT !.blocked = B]
<1>1. /\ n \in Scheduler /\ SameLists(k, n)
      /\ n.current = k.current /\ n.blocked = B /\ n.yield = k.yield
      /\ n.suspended = k.suspended /\ n.pended = k.pended
  BY DEF Sound, Scheduler, SameLists
<1> HIDE DEF n
<1>2. Sound(n) /\ ReadySet(n) = ReadySet(k) /\ Asleep(n) = Asleep(k) /\ Sleeping(n) = Sleeping(k)
  BY <1>1, SameListsSound
<1> QED BY <1>1, <1>2 DEF n, SameLists

(* vTaskPlaceOnEventList.                                                  *)
LEMMA PlaceSound ==
  ASSUME NEW k, Sound(k), NEW t \in ReadySet(k), t \in Tasks
  PROVE  LET n == vTaskPlaceOnEventList(k, t)
         IN /\ Sound(n) /\ ReadySet(n) = ReadySet(k) \ {t}
            /\ Sleeping(n) = Sleeping(k) /\ Asleep(n) = Asleep(k)
            /\ n.prio = k.prio /\ n.current = k.current /\ n.blocked = k.blocked \cup {t}
            /\ n.tick = k.tick
            /\ n.suspended = k.suspended /\ n.pended = k.pended /\ n.yield = k.yield
<1> DEFINE m == RemoveFromReadyList(k, t)
           B == k.blocked \cup {t}
           n == [m EXCEPT !.blocked = B]
<1>1. /\ Sound(m) /\ ReadySet(m) = ReadySet(k) \ {t}
      /\ Sleeping(m) = Sleeping(k) /\ Asleep(m) = Asleep(k)
      /\ SameRest(k, m)
  BY RemoveSound
<1>2. m.blocked = k.blocked /\ B \in SUBSET Tasks
  BY <1>1 DEF SameRest, Sound, Scheduler
<1>3. vTaskPlaceOnEventList(k, t) = n
  <2> HIDE DEF B, m, n
  <2>1. vTaskPlaceOnEventList(k, t) = [m EXCEPT !.blocked = m.blocked \cup {t}]
    BY DEF vTaskPlaceOnEventList, m
  <2> QED BY <1>2, <2>1 DEF n, B
<1> HIDE DEF m
<1>4. /\ Sound(n) /\ ReadySet(n) = ReadySet(m)
      /\ Sleeping(n) = Sleeping(m) /\ Asleep(n) = Asleep(m)
      /\ n.prio = m.prio /\ n.current = m.current /\ n.blocked = B
      /\ n.tick = m.tick
      /\ n.suspended = m.suspended /\ n.pended = m.pended /\ n.yield = m.yield
  <2> HIDE DEF B
  <2> QED BY <1>1, <1>2, BlockedSound
<1> HIDE DEF n
<1>5. /\ Sound(n) /\ ReadySet(n) = ReadySet(k) \ {t}
      /\ Sleeping(n) = Sleeping(k) /\ Asleep(n) = Asleep(k)
      /\ n.prio = k.prio /\ n.current = k.current /\ n.blocked = k.blocked \cup {t}
      /\ n.tick = k.tick
      /\ n.suspended = k.suspended /\ n.pended = k.pended /\ n.yield = k.yield
  BY <1>1, <1>4 DEF SameRest
<1> QED BY <1>3, <1>5

(* xTaskRemoveFromEventList, before its switch.                            *)
LEMMA UnblockSound ==
  ASSUME NEW k, Sound(k), NEW t \in Tasks, t \notin ReadySet(k), t \notin Asleep(k)
  PROVE  LET n == prvAddTaskToReadyList([k EXCEPT !.blocked = @ \ {t}], t)
         IN /\ Sound(n) /\ ReadySet(n) = ReadySet(k) \cup {t}
            /\ Sleeping(n) = Sleeping(k) /\ Asleep(n) = Asleep(k)
            /\ n.prio = k.prio /\ n.current = k.current /\ n.blocked = k.blocked \ {t}
            /\ n.tick = k.tick
            /\ n.suspended = k.suspended /\ n.pended = k.pended /\ n.yield = k.yield
<1> DEFINE B == k.blocked \ {t}
           m == [k EXCEPT !.blocked = B]
           n == prvAddTaskToReadyList(m, t)
<1>1. B \in SUBSET Tasks
  BY DEF Sound, Scheduler
<1>2. /\ Sound(m) /\ ReadySet(m) = ReadySet(k)
      /\ Sleeping(m) = Sleeping(k) /\ Asleep(m) = Asleep(k)
      /\ m.prio = k.prio /\ m.current = k.current /\ m.blocked = B
      /\ m.tick = k.tick
      /\ m.suspended = k.suspended /\ m.pended = k.pended /\ m.yield = k.yield
  <2> HIDE DEF B
  <2> QED BY <1>1, BlockedSound
<1> HIDE DEF m
<1>3. /\ Sound(n) /\ ReadySet(n) = ReadySet(m) \cup {t}
      /\ Sleeping(n) = Sleeping(m) /\ Asleep(n) = Asleep(m)
      /\ SameRest(m, n)
  BY <1>2, AddSound DEF AllTasks
<1> HIDE DEF n
<1>4. /\ Sound(n) /\ ReadySet(n) = ReadySet(k) \cup {t}
      /\ Sleeping(n) = Sleeping(k) /\ Asleep(n) = Asleep(k)
      /\ n.prio = k.prio /\ n.current = k.current /\ n.blocked = k.blocked \ {t}
      /\ n.tick = k.tick
      /\ n.suspended = k.suspended /\ n.pended = k.pended /\ n.yield = k.yield
  BY <1>2, <1>3 DEF SameRest
<1> QED BY <1>4 DEF n, m

(* prvAddCurrentTaskToDelayedList.                                         *)
LEMMA DelaySound ==
  ASSUME NEW k, Sound(k), k.current \in ReadySet(k), k.current \in Tasks,
         NEW ticks \in 1 .. WRAP - 1
  PROVE  LET n == prvAddCurrentTaskToDelayedList(k, ticks)
         IN /\ Sound(n) /\ ReadySet(n) = ReadySet(k) \ {k.current}
            /\ Sleeping(n) = Sleeping(k) \cup
                 {[task |-> k.current, wake |-> (k.tick + ticks) % WRAP]}
            /\ Asleep(n) = Asleep(k) \cup {k.current}
            /\ SameButDelay(k, n)
<1> DEFINE n == prvAddCurrentTaskToDelayedList(k, ticks)
           wake == (k.tick + ticks) % WRAP
           R == ReadySet(k)
           u == k.current
<1>1. /\ k \in Scheduler /\ Lists(k, R) /\ R \in SUBSET AllTasks /\ R \cap Asleep(k) = {}
      /\ Delayed(k) /\ k.current \notin Asleep(k)
  BY ReadyAre DEF Sound
<1>2. /\ n \in Scheduler /\ Lists(n, R \ {k.current}) /\ Delayed(n)
      /\ Sleeping(n) = Sleeping(k) \cup {[task |-> k.current, wake |-> wake]}
      /\ SameButDelay(k, n)
  <2> HIDE DEF R
  <2>1. k.current \in R
    BY DEF R
  <2> QED BY <1>1, <2>1, DelayIs
<1> HIDE DEF n, R, wake
<1>3. Asleep(n) = Asleep(k) \cup {k.current}
  <2> DEFINE item == [task |-> k.current, wake |-> wake]
  <2>1. Sleeping(n) = Sleeping(k) \cup {item} /\ item.task = k.current
    BY <1>2
  <2> HIDE DEF item
  <2> QED BY <2>1, AsleepIs DEF TasksOf
<1>4. R \ {k.current} \in SUBSET AllTasks /\ (R \ {k.current}) \cap Asleep(n) = {}
  BY <1>1, <1>3
<1>5. Sound(n) /\ ReadySet(n) = R \ {k.current}
  BY <1>2, <1>4, SoundFrom
<1> QED BY <1>2, <1>3, <1>5 DEF n, R, wake

-----------------------------------------------------------------------------
(* The invariant and the steps of the mutex that leave the scheduler       *)
(* alone.                                                                  *)

Away == {"none", "deleted", "gone", "freed"}

(* Goto moves one task.                                                    *)
LEMMA MovesOne ==
  ASSUME TypeOK, NEW t \in Tasks, NEW label, Goto(t, label)
  PROVE  /\ pc'[t] = label
         /\ \A u \in Tasks \ {t} : pc'[u] = pc[u]
BY DEF TypeOK, Goto

(* Who is there, and who has ended, when a task moves and neither comes    *)
(* nor goes.                                                               *)
LEMMA PlacesStay ==
  ASSUME TypeOK, NEW t \in Tasks, NEW label, Goto(t, label),
         pc[t] \notin Away, label \notin Away
  PROVE  Present' = Present /\ Ended' = Ended
<1>1. \A u \in Tasks : pc'[u] = IF u = t THEN label ELSE pc[u]
  BY MovesOne
<1>2. Present' = {u \in Tasks : pc'[u] \notin Away} /\ Present = {u \in Tasks : pc[u] \notin Away}
  BY DEF Present, Away
<1>3. /\ Ended' = {u \in Tasks : pc'[u] \in {"deleted", "gone"}}
      /\ Ended = {u \in Tasks : pc[u] \in {"deleted", "gone"}}
  BY DEF Ended
<1>4. Present' = Present
  BY <1>1, <1>2
<1>5. Ended' = Ended
  BY <1>1, <1>3 DEF Away
<1> QED BY <1>4, <1>5

(* A task on its way to a switch, or off the ready lists before one.       *)
Leaving == {"listed", "parked", "asleep", "delayed", "deleted"}

(* The idle task is always ready, so there is always a task to switch to.  *)
LEMMA NeverEmpty == IInv => ReadySet(s) # {}
BY DEF IInv, Located

(* The current task, unless it is on its way to a switch, is ready, none   *)
(* comes before it, and the scheduler runs.                                *)
LEMMA CurrentIsHighest ==
  ASSUME MutexInv, IInv, NEW t \in Tasks, s.current = t, pc[t] \notin Leaving
  PROVE  /\ Highest(s, ReadySet(s))
         /\ t \in ReadySet(s) /\ t \notin s.blocked /\ t \notin Asleep(s)
         /\ Sound(s) /\ ReadySet(s) # {}
         /\ pc[t] # "retry" => s.suspended = FALSE /\ s.pended = 0 /\ s.yield = FALSE
<1>1. Highest(s, ReadySet(s)) /\ t \in ReadySet(s)
  BY DEF IInv, Running, Leaving, Highest
<1>2. Sound(s) /\ t \notin s.blocked /\ t \notin Asleep(s)
  BY <1>1 DEF IInv, Located, Sound, Apart
<1>3. s.suspended \in BOOLEAN
  BY DEF IInv, Sound, Scheduler
<1>4. pc[t] # "retry" => s.suspended = FALSE /\ s.pended = 0 /\ s.yield = FALSE
  BY <1>3 DEF IInv, Suspended, Leaving
<1> QED BY <1>1, <1>2, <1>4

(* What the steps that leave the scheduler's variables alone, and move a   *)
(* task that runs from one place to another, keep.                         *)
LEMMA StayKeeps ==
  ASSUME MutexInv, IInv, NEW t \in Tasks, s.current = t, NEW label,
         pc[t] \notin Leaving \cup Away \cup {"retry"},
         label \notin Leaving \cup Away \cup {"retry"},
         Goto(t, label), UNCHANGED <<s, waiters, terminated>>
  PROVE  Sound(s)' /\ Waiters' /\ Located' /\ Running' /\ Suspended'
<1>1. /\ Highest(s, ReadySet(s))
      /\ t \in ReadySet(s) /\ t \notin s.blocked /\ t \notin Asleep(s)
  BY CurrentIsHighest
<1>2. pc'[t] = label /\ \A u \in Tasks \ {t} : pc'[u] = pc[u]
  BY MovesOne DEF MutexInv
<1>3. Present' = Present /\ Ended' = Ended
  BY PlacesStay DEF MutexInv
<1>4. s' = s /\ waiters' = waiters /\ terminated' = terminated
  OBVIOUS
<1>5. Sound(s)' /\ Waiters'
  BY <1>4 DEF IInv, Waiters
<1>6. Located'
  <2>1. /\ ReadySet(s)' = ReadySet(s) /\ Asleep(s)' = Asleep(s)
        /\ Range(terminated)' = Range(terminated)
    BY <1>4
  <2>2. s.blocked \subseteq Tasks /\ Asleep(s) \subseteq Tasks
    BY SleepersAre DEF IInv, Sound, Scheduler
  <2> QED BY <1>1, <1>2, <1>3, <1>4, <2>1, <2>2 DEF IInv, Located, Distinct
<1>7. Running'
  <2>1. Highest(s, ReadySet(s))'
    BY <1>1, <1>4
  <2> QED BY <2>1 DEF Running
<1>8. Suspended'
  BY <1>2, <1>4 DEF IInv, Suspended, Leaving
<1> QED BY <1>5, <1>6, <1>7, <1>8

(* CallTake.                                                               *)
LEMMA CallTakeSound ==
  ASSUME MutexInv, IInv, NEW t \in Tasks, CallTake(t)
  PROVE  IInv'
<1>1. /\ s.current = t /\ pc[t] = "run" /\ Goto(t, "take")
      /\ s' = s /\ waiters' = waiters /\ terminated' = terminated
      /\ uxMessagesWaiting' = uxMessagesWaiting /\ xMutexHolder' = xMutexHolder
      /\ wakeTime' = wakeTime
  BY DEF CallTake, At, mutexVars
<1>2. Sound(s)' /\ Waiters' /\ Located' /\ Running' /\ Suspended'
  BY <1>1, StayKeeps DEF Leaving, Away
<1>3. Lent'
  BY <1>1 DEF IInv, Lent
<1>4. Wakened'
  <2>1. \A u \in Users : pc[u] \in Asking => pc'[u] \in Asking
    BY <1>1, MovesOne, TasksAssumption DEF MutexInv, Asking
  <2>2. ReadySet(s)' = ReadySet(s)
    BY <1>1
  <2> QED BY <1>1, <2>1, <2>2 DEF IInv, Wakened
<1> QED BY <1>1, <1>2, <1>3, <1>4 DEF IInv

(* StartPeriod.                                                            *)
LEMMA StartSound ==
  ASSUME MutexInv, IInv, NEW t \in Tasks, StartPeriod(t)
  PROVE  IInv'
<1>1. /\ s.current = t /\ pc[t] = "start" /\ Goto(t, "run")
      /\ s' = s /\ waiters' = waiters /\ terminated' = terminated
      /\ uxMessagesWaiting' = uxMessagesWaiting /\ xMutexHolder' = xMutexHolder
      /\ wakeTime' = [wakeTime EXCEPT ![t] = s.tick]
  BY DEF StartPeriod, At, mutexVars
<1>2. Sound(s)' /\ Waiters' /\ Located' /\ Running' /\ Suspended'
  BY <1>1, StayKeeps DEF Leaving, Away
<1>3. Lent'
  BY <1>1 DEF IInv, Lent
<1>4. Wakened'
  <2>1. \A u \in Users : pc[u] \in Asking => pc'[u] \in Asking
    BY <1>1, MovesOne, TasksAssumption DEF MutexInv, Asking
  <2>2. ReadySet(s)' = ReadySet(s)
    BY <1>1
  <2> QED BY <1>1, <2>1, <2>2 DEF IInv, Wakened
<1>5. wakeTime' \in [Tasks -> Clock]
  BY <1>1 DEF IInv, Sound, Scheduler
<1> QED BY <1>1, <1>2, <1>3, <1>4, <1>5 DEF IInv

(* TryTake. The new holder does not come behind any waiter: it runs, so it *)
(* is not behind the one that is minded (Wakened).                         *)
LEMMA TakeSound ==
  ASSUME MutexInv, IInv, NEW t \in Tasks, TryTake(t)
  PROVE  IInv'
<1>1. /\ s.current = t /\ pc[t] = "take"
      /\ s' = s /\ waiters' = waiters /\ terminated' = terminated /\ wakeTime' = wakeTime
  BY DEF TryTake, At
<1>2. PICK label \in {"inside", "wait"} : Goto(t, label)
  BY DEF TryTake
<1>3. Sound(s)' /\ Waiters' /\ Located' /\ Running' /\ Suspended'
  BY <1>1, <1>2, StayKeeps DEF Leaving, Away
<1>4. uxMessagesWaiting' = 0
  BY DEF TryTake, MutexInv, TypeOK
<1>5. Wakened'
  BY <1>4 DEF Wakened
<1>6. Lent'
  <2>1. CASE xMutexHolder' = xMutexHolder
    BY <1>1, <2>1 DEF IInv, Lent
  <2>2. CASE uxMessagesWaiting > 0 /\ xMutexHolder' = t
    <3>1. xMutexHolder = NULL
      BY <2>2 DEF MutexInv, TypeOK, HolderIsInside
    <3>2. \A u \in AllTasks : s.prio[u] = BasePriority[u]
      BY <3>1, NamesAssumption DEF IInv, Lent
    <3>3. Highest(s, ReadySet(s)) /\ s.current = t
      BY <1>1, CurrentIsHighest DEF Leaving
    <3>4. \A w \in s.blocked : BasePriority[t] >= BasePriority[w]
      <4> SUFFICES ASSUME NEW w \in s.blocked PROVE BasePriority[t] >= BasePriority[w]
        OBVIOUS
      <4>1. PICK u \in Users : u \in ReadySet(s) /\ BasePriority[u] >= BasePriority[w]
        BY <2>2 DEF IInv, Wakened
      <4>2. BasePriority[u] <= BasePriority[t]
        BY <3>2, <3>3, <4>1, TasksAssumption DEF Highest, AllTasks
      <4>3. w \in AllTasks /\ u \in AllTasks /\ t \in AllTasks
        BY TasksAssumption DEF IInv, Sound, Scheduler, AllTasks
      <4>4. BasePriority[t] \in Nat /\ BasePriority[u] \in Nat /\ BasePriority[w] \in Nat
        BY <4>3, PrioritiesAre
      <4> QED BY <4>1, <4>2, <4>4
    <3>5. t \in AllTasks /\ BasePriority[t] \in Nat
      BY PrioritiesAre DEF AllTasks
    <3> QED BY <1>1, <2>2, <3>2, <3>4, <3>5 DEF Lent
  <2> QED BY <2>1, <2>2 DEF TryTake
<1> QED BY <1>1, <1>3, <1>5, <1>6 DEF IInv

-----------------------------------------------------------------------------
(* The invariant and the steps through the scheduler.                      *)

(* Where a task goes when it comes out of the scheduler.                   *)
Moves == {<<"retry", "take">>, <<"listed", "parked">>, <<"listed", "take">>,
          <<"parked", "take">>, <<"asleep", "delayed">>, <<"asleep", "run">>,
          <<"delayed", "run">>, <<"deleted", "gone">>}

(* Nobody comes or goes by these moves.                                    *)
LEMMA MovePlaces ==
  ASSUME TypeOK, NEW t \in Tasks, NEW label, Goto(t, label), <<pc[t], label>> \in Moves
  PROVE  Present' = Present /\ Ended' = Ended
<1>1. CASE pc[t] # "deleted"
  BY <1>1, PlacesStay DEF Moves, Away
<1>2. CASE pc[t] = "deleted"
  <2>1. label = "gone"
    BY <1>2 DEF Moves
  <2>2. pc'[t] = label /\ \A u \in Tasks \ {t} : pc'[u] = pc[u]
    BY MovesOne
  <2>3. Present' = Present
    BY <1>2, <2>1, <2>2 DEF Present
  <2>4. Ended' = Ended
    BY <1>2, <2>1, <2>2 DEF Ended
  <2> QED BY <2>3, <2>4
<1> QED BY <1>1, <1>2

(* The scheduler runs, and the current task goes on or stays.              *)
LEMMA OnwardKeeps ==
  ASSUME MutexInv, IInv, Onward(s, s'), Running',
         UNCHANGED <<uxMessagesWaiting, xMutexHolder, waiters, terminated, wakeTime>>,
         \/ pc' = pc /\ ~s.suspended
         \/ \E t \in Tasks, label \in Labels :
              s.current = t /\ <<pc[t], label>> \in Moves /\ Goto(t, label)
  PROVE  IInv'
<1>0. /\ waiters' = waiters /\ terminated' = terminated /\ wakeTime' = wakeTime
      /\ uxMessagesWaiting' = uxMessagesWaiting /\ xMutexHolder' = xMutexHolder
  OBVIOUS
<1>1. /\ Sound(s') /\ ReadySet(s) \subseteq ReadySet(s')
      /\ ReadySet(s') \cup Asleep(s') = ReadySet(s) \cup Asleep(s)
      /\ Asleep(s') \subseteq Asleep(s)
      /\ s'.prio = s.prio /\ s'.blocked = s.blocked
      /\ s'.suspended = FALSE /\ s'.pended = 0 /\ s'.yield = FALSE
  BY DEF Onward
<1>2. \A u \in Tasks : \/ pc'[u] = pc[u] /\ (s.current # u \/ ~s.suspended)
                       \/ s.current = u /\ <<pc[u], pc'[u]>> \in Moves
  BY MovesOne DEF MutexInv
<1>3. Present' = Present /\ Ended' = Ended
  <2>1. CASE pc' = pc
    BY <2>1 DEF Present, Ended
  <2>2. CASE \E t \in Tasks, label \in Labels : <<pc[t], label>> \in Moves /\ Goto(t, label)
    BY <2>2, MovePlaces DEF MutexInv
  <2> QED BY <2>1, <2>2
<1>4. s.blocked \subseteq Tasks /\ Asleep(s') \subseteq Tasks
  BY <1>1, SleepersAre DEF IInv, Sound, Scheduler
<1>5. Sound(s)' /\ Waiters'
  BY <1>0, <1>1 DEF IInv, Waiters
<1>6. Located'
  <2>1. Idle \in ReadySet(s') /\ Apart(ReadySet(s'), s'.blocked) /\ Apart(Asleep(s'), s'.blocked)
    BY <1>1 DEF IInv, Located, Apart
  <2>2. ReadySet(s') \cup Asleep(s') \cup s'.blocked = {Idle} \cup Present'
    BY <1>1, <1>3 DEF IInv, Located
  <2>3. Distinct(terminated)' /\ Range(terminated)' = Ended'
    BY <1>0, <1>3 DEF IInv, Located, Distinct
  <2>4. \A t \in s'.blocked : pc'[t] \in {"listed", "parked", "take"}
    BY <1>1, <1>2, <1>4 DEF IInv, Located, Moves
  <2>5. \A t \in Asleep(s') : pc'[t] \in {"asleep", "delayed", "run"}
    BY <1>1, <1>2, <1>4 DEF IInv, Located, Moves
  <2> QED BY <2>1, <2>2, <2>3, <2>4, <2>5 DEF Located
<1>7. Suspended'
  <2>1. \A t \in Tasks : pc'[t] \notin {"listed", "retry", "asleep"}
    BY <1>2 DEF IInv, Suspended, Moves
  <2> QED BY <1>1, <2>1, PendedAssumption DEF Suspended
<1>8. Lent'
  BY <1>0, <1>1 DEF IInv, Lent
<1>9. Wakened'
  <2>1. \A u \in Users : pc[u] \in Asking => pc'[u] \in Asking
    BY <1>2, TasksAssumption DEF Moves, Asking
  <2> QED BY <1>0, <1>1, <2>1 DEF IInv, Wakened
<1> QED BY <1>0, <1>5, <1>6, <1>7, <1>8, <1>9 DEF IInv

(* A yield.                                                                *)
LEMMA YieldSound ==
  ASSUME MutexInv, IInv, NEW t \in Tasks,
         NEW from, NEW done \in Labels, <<from, done>> \in Moves,
         from \notin {"listed", "retry", "asleep"},
         Yield(t, from, done)
  PROVE  IInv' /\ s'.tick = s.tick /\ Sleeping(s') = Sleeping(s)
<1>1. /\ s.current = t /\ pc[t] = from /\ s' = vTaskSwitchContext(s) /\ Goto(t, done)
      /\ UNCHANGED <<uxMessagesWaiting, xMutexHolder, waiters, terminated, wakeTime>>
  BY DEF Yield, At, mutexVars
<1>2. ~s.suspended /\ s.pended = 0 /\ Sound(s) /\ ReadySet(s) # {}
  BY <1>1, NeverEmpty DEF IInv, Suspended
<1>3. /\ Onward(s, s') /\ Highest(s', ReadySet(s'))
      /\ s'.tick = s.tick /\ Sleeping(s') = Sleeping(s)
  BY <1>1, <1>2, SwitchOnward
<1>4. Running'
  BY <1>3 DEF Running
<1> QED BY <1>1, <1>3, <1>4, OnwardKeeps

(* RetryTake.                                                              *)
LEMMA RetrySound ==
  ASSUME MutexInv, IInv, NEW t \in Tasks, RetryTake(t)
  PROVE  IInv' /\ GoesOn(s, s')
<1>1. /\ s.current = t /\ pc[t] = "retry" /\ s' = xTaskResumeAll(s) /\ Goto(t, "take")
      /\ UNCHANGED <<uxMessagesWaiting, xMutexHolder, waiters, terminated, wakeTime>>
  BY DEF RetryTake, At, mutexVars
<1>2. Highest(s, ReadySet(s)) /\ Sound(s) /\ ReadySet(s) # {}
  BY <1>1, CurrentIsHighest DEF Leaving
<1>3. GoesOn(s, s')
  BY <1>1, <1>2, ResumeIs
<1>4. Onward(s, s') /\ Running'
  BY <1>2, <1>3, ResumeOnward DEF Running, GoesOn
<1>5. <<pc[t], "take">> \in Moves /\ "take" \in Labels
  BY <1>1 DEF Moves, Labels, Asking
<1> QED BY <1>1, <1>3, <1>4, <1>5, OnwardKeeps

(* ResumeBlocked.                                                          *)
LEMMA ResumeSound ==
  ASSUME MutexInv, IInv, NEW t \in Tasks, NEW from, NEW yields \in Labels, NEW done \in Labels,
         <<from, yields>> \in Moves, <<from, done>> \in Moves, yields \in {"parked", "delayed"},
         ResumeBlocked(t, from, yields, done)
  PROVE  IInv' /\ GoesOn(s, s')
<1>1. /\ s.current = t /\ pc[t] = from /\ s' = xTaskResumeAll(s)
      /\ Goto(t, IF AlreadyYielded(s) THEN done ELSE yields)
      /\ UNCHANGED <<uxMessagesWaiting, xMutexHolder, waiters, terminated, wakeTime>>
  BY DEF ResumeBlocked, At, mutexVars
<1>2. Sound(s) /\ ReadySet(s) # {}
  BY NeverEmpty DEF IInv
<1>3. GoesOn(s, s') /\ Onward(s, s')
  BY <1>1, <1>2, ResumeIs, ResumeOnward
<1>4. Running'
  <2>1. CASE AlreadyYielded(s)
    BY <1>3, <2>1 DEF Running, GoesOn
  <2>2. CASE ~AlreadyYielded(s)
    <3>1. s'.current = t /\ Goto(t, yields)
      BY <1>1, <1>3, <2>2 DEF GoesOn
    <3>2. pc'[t] = yields
      BY <3>1, MovesOne DEF MutexInv
    <3> QED BY <3>1, <3>2 DEF Running
  <2> QED BY <2>1, <2>2
<1>5. \E label \in Labels : s.current = t /\ <<pc[t], label>> \in Moves /\ Goto(t, label)
  BY <1>1
<1> QED BY <1>1, <1>3, <1>4, <1>5, OnwardKeeps

(* TickInterrupt.                                                          *)
LEMMA TickInvariant ==
  ASSUME MutexInv, IInv, TickInterrupt
  PROVE  /\ IInv'
         /\ \/ s'.tick = s.tick /\ Sleeping(s') = Sleeping(s)
            \/ /\ s'.tick = (s.tick + 1) % WRAP
               /\ Sleeping(s') = Sleeping(s) \ DueAt(s, (s.tick + 1) % WRAP)
               /\ Onward(s, s')
<1>0. /\ UNCHANGED <<uxMessagesWaiting, xMutexHolder, waiters, terminated, wakeTime>>
      /\ pc' = pc
  BY DEF TickInterrupt, mutexVars
<1>1. CASE s.suspended
  <2>1. s.pended < MaxPended /\ s' = [s EXCEPT !.pended = @ + 1]
    BY <1>1 DEF TickInterrupt
  <2>2. /\ Sound(s') /\ ReadySet(s') = ReadySet(s)
        /\ Sleeping(s') = Sleeping(s) /\ Asleep(s') = Asleep(s)
        /\ s'.prio = s.prio /\ s'.current = s.current /\ s'.blocked = s.blocked
        /\ s'.tick = s.tick
        /\ s'.suspended = s.suspended /\ s'.pended = s.pended + 1 /\ s'.yield = s.yield
    <3>1. Sound(s)
      BY DEF IInv
    <3> QED BY <2>1, <3>1, PendSound
  <2>3. Sound(s)' /\ Waiters'
    BY <1>0, <2>2 DEF IInv, Waiters
  <2>4. Present' = Present /\ Ended' = Ended
    BY <1>0 DEF Present, Ended
  <2>5. Located'
    BY <1>0, <2>2, <2>4 DEF IInv, Located, Distinct
  <2>6. Running'
    BY <1>0, <2>2 DEF IInv, Running, Highest
  <2>7. Suspended'
    <3>1. s.pended \in Nat
      BY DEF IInv, Sound, Scheduler
    <3> QED BY <1>0, <1>1, <2>1, <2>2, <3>1, PendedAssumption DEF IInv, Suspended
  <2>8. Lent' /\ Wakened'
    BY <1>0, <2>2 DEF IInv, Lent, Wakened
  <2> QED BY <1>0, <2>2, <2>3, <2>5, <2>6, <2>7, <2>8 DEF IInv
<1>2. CASE ~s.suspended
  <2>1. s' = IF SwitchRequired(s, Tick(s)) THEN vTaskSwitchContext(Tick(s)) ELSE Tick(s)
    BY <1>2 DEF TickInterrupt
  <2>2. /\ Sound(s) /\ ReadySet(s) # {} /\ s.suspended = FALSE /\ s.pended = 0 /\ s.yield = FALSE
    BY <1>2, NeverEmpty DEF IInv, Suspended, Sound, Scheduler
  <2>3. /\ Onward(s, s')
        /\ \/ Highest(s', ReadySet(s'))
           \/ /\ s'.current = s.current
              /\ Highest(s, ReadySet(s)) => Highest(s', ReadySet(s'))
        /\ s'.tick = (s.tick + 1) % WRAP
        /\ Sleeping(s') = Sleeping(s) \ DueAt(s, (s.tick + 1) % WRAP)
    BY <2>1, <2>2, TickOnward
  <2>4. Running'
    BY <1>0, <2>3 DEF IInv, Running
  <2> QED BY <1>0, <1>2, <2>3, <2>4, OnwardKeeps
<1> QED BY <1>1, <1>2

(* IdleFrees.                                                              *)
LEMMA IdleSound ==
  ASSUME MutexInv, IInv, IdleFrees
  PROVE  IInv'
<1> DEFINE u == Head(terminated)
<1>1. /\ s.current = Idle /\ terminated # <<>> /\ terminated' = Tail(terminated)
      /\ Goto(u, "freed")
      /\ UNCHANGED <<s, uxMessagesWaiting, xMutexHolder, waiters, wakeTime>>
  BY DEF IdleFrees, mutexVars
<1>2. /\ u \in Tasks /\ u \in Range(terminated)
      /\ Distinct(Tail(terminated)) /\ Range(Tail(terminated)) = Range(terminated) \ {u}
  <2>1. terminated \in Seq(Tasks) /\ Distinct(terminated) /\ terminated # <<>>
    BY <1>1 DEF MutexInv, TypeOK, IInv, Located
  <2> QED BY <2>1, TailDistinct
<1> HIDE DEF u
<1>3. pc[u] \in {"deleted", "gone"}
  BY <1>2 DEF IInv, Located, Ended
<1>4. pc'[u] = "freed" /\ \A v \in Tasks \ {u} : pc'[v] = pc[v]
  BY <1>1, <1>2, MovesOne DEF MutexInv
<1>5. Present' = Present
  BY <1>3, <1>4 DEF Present
<1>6. Ended' = Ended \ {u}
  BY <1>3, <1>4 DEF Ended
<1>7. s.blocked \subseteq Tasks /\ Asleep(s) \subseteq Tasks
  BY SleepersAre DEF IInv, Sound, Scheduler
<1>8. /\ s' = s /\ waiters' = waiters /\ wakeTime' = wakeTime
      /\ uxMessagesWaiting' = uxMessagesWaiting /\ xMutexHolder' = xMutexHolder
  BY <1>1
<1>9. Sound(s)' /\ Waiters' /\ Lent'
  BY <1>8 DEF IInv, Waiters, Lent
<1>10. Located'
  <2>1. /\ Idle \in ReadySet(s) /\ Apart(ReadySet(s), s.blocked) /\ Apart(Asleep(s), s.blocked)
        /\ ReadySet(s) \cup Asleep(s) \cup s.blocked = {Idle} \cup Present'
    BY <1>5 DEF IInv, Located
  <2>2. Distinct(terminated)' /\ Range(terminated)' = Ended'
    BY <1>1, <1>2, <1>6 DEF IInv, Located, Distinct
  <2>3. \A t \in s.blocked : pc'[t] \in {"listed", "parked", "take"}
    BY <1>3, <1>4, <1>7 DEF IInv, Located
  <2>4. \A t \in Asleep(s) : pc'[t] \in {"asleep", "delayed", "run"}
    BY <1>3, <1>4, <1>7 DEF IInv, Located
  <2> QED BY <1>8, <2>1, <2>2, <2>3, <2>4 DEF Located
<1>11. Running'
  <2>1. Highest(s, ReadySet(s))
    BY <1>1, NamesAssumption DEF IInv, Running
  <2> QED BY <1>8, <2>1 DEF Running
<1>12. Suspended'
  BY <1>3, <1>4, <1>8 DEF IInv, Suspended
<1>13. Wakened'
  <2>1. \A v \in Users : pc[v] \in Asking => pc'[v] \in Asking
    BY <1>3, <1>4, TasksAssumption DEF Asking
  <2> QED BY <1>8, <2>1 DEF IInv, Wakened
<1> QED BY <1>8, <1>9, <1>10, <1>11, <1>12, <1>13 DEF IInv

-----------------------------------------------------------------------------
(* The invariant and a task that blocks.                                   *)

(* The steps that leave the clock and the sleepers alone.                  *)
Steady(k, n) == n.tick = k.tick /\ Sleeping(k) \subseteq Sleeping(n)

(* BlockOnTake, when the mutex is still taken: its holder inherits.        *)
LEMMA BlockSound ==
  ASSUME MutexInv, IInv, NEW t \in Tasks, BlockOnTake(t), uxMessagesWaiting = 0
  PROVE  IInv' /\ Steady(s, s')
<1> DEFINE h == xMutexHolder
           a == vTaskSuspendAll(s)
           b == xTaskPriorityInherit(a, h)
<1>1. /\ s.current = t /\ pc[t] = "wait" /\ Goto(t, "listed")
      /\ s' = vTaskPlaceOnEventList(b, t)
      /\ waiters' = ByPriority(waiters, t, b.prio)
      /\ UNCHANGED <<uxMessagesWaiting, xMutexHolder, terminated, wakeTime>>
  BY DEF BlockOnTake, At, prvIsQueueEmpty
<1>2. h \in Tasks /\ pc[h] = "inside" /\ h # t
  BY <1>1 DEF MutexInv, TypeOK, HolderIsInside
<1>3. /\ Highest(s, ReadySet(s))
      /\ t \in ReadySet(s) /\ t \notin s.blocked /\ t \notin Asleep(s)
      /\ Sound(s) /\ s.suspended = FALSE /\ s.pended = 0 /\ s.yield = FALSE
  BY <1>1, CurrentIsHighest DEF Leaving
<1>4. /\ Sound(a) /\ ReadySet(a) = ReadySet(s)
      /\ Sleeping(a) = Sleeping(s) /\ Asleep(a) = Asleep(s)
      /\ a.prio = s.prio /\ a.current = s.current /\ a.blocked = s.blocked
      /\ a.tick = s.tick
      /\ a.suspended = TRUE /\ a.pended = s.pended /\ a.yield = s.yield
  BY <1>3, SuspendSound
<1> HIDE DEF a
<1>5. /\ s.prio \in [AllTasks -> Priorities] /\ t \in AllTasks /\ h \in AllTasks
      /\ s.prio[t] = BasePriority[t]
      /\ s.prio[t] \in Priorities /\ s.prio[t] \in Nat /\ s.prio[h] \in Nat
  BY <1>2, <1>3, PrioritiesAre DEF Sound, Scheduler, AllTasks, IInv, Lent
<1>6. /\ Sound(b) /\ ReadySet(b) = ReadySet(s)
      /\ Sleeping(b) = Sleeping(s) /\ Asleep(b) = Asleep(s)
      /\ b.prio = IF s.prio[h] < s.prio[t] THEN [s.prio EXCEPT ![h] = s.prio[t]] ELSE s.prio
      /\ b.current = s.current /\ b.blocked = s.blocked /\ b.tick = s.tick
      /\ b.suspended = TRUE /\ b.pended = s.pended /\ b.yield = s.yield
  <2>1. CASE s.prio[h] < s.prio[t]
    <3> DEFINE c == SetPriority(a, h, s.prio[t])
    <3>1. b = c
      BY <1>1, <1>2, <1>4, <2>1, NamesAssumption DEF xTaskPriorityInherit, AllTasks
    <3>2. /\ Sound(c) /\ ReadySet(c) = ReadySet(a)
          /\ Sleeping(c) = Sleeping(a) /\ Asleep(c) = Asleep(a)
          /\ c.prio = [a.prio EXCEPT ![h] = s.prio[t]]
          /\ SameButPriority(a, c)
      BY <1>4, <1>5, PrioritySound
    <3> HIDE DEF b, c
    <3> QED BY <1>4, <2>1, <3>1, <3>2 DEF SameButPriority
  <2>2. CASE ~(s.prio[h] < s.prio[t])
    <3>1. b = a
      BY <1>1, <1>4, <2>2 DEF xTaskPriorityInherit
    <3> HIDE DEF b
    <3> QED BY <1>4, <2>2, <3>1
  <2> QED BY <2>1, <2>2
<1> HIDE DEF b, h
<1>7. /\ Sound(s') /\ ReadySet(s') = ReadySet(s) \ {t}
      /\ Sleeping(s') = Sleeping(s) /\ Asleep(s') = Asleep(s)
      /\ s'.prio = b.prio /\ s'.current = t /\ s'.blocked = s.blocked \cup {t}
      /\ s'.tick = s.tick
      /\ s'.suspended = TRUE /\ s'.pended = s.pended /\ s'.yield = s.yield
  <2>1. t \in ReadySet(b)
    BY <1>3, <1>6
  <2> QED BY <1>1, <1>6, <2>1, PlaceSound
<1>8. pc'[t] = "listed" /\ \A u \in Tasks \ {t} : pc'[u] = pc[u]
  BY <1>1, MovesOne DEF MutexInv
<1>9. Present' = Present /\ Ended' = Ended
  BY <1>1, PlacesStay DEF MutexInv, Away
<1>10. s.blocked \subseteq Tasks /\ Asleep(s) \subseteq Tasks /\ h \notin s.blocked
  BY <1>2, SleepersAre DEF IInv, Sound, Scheduler, Located
<1>11. Waiters'
  <2>1. /\ waiters \in Seq(Tasks) /\ Distinct(waiters) /\ Range(waiters) = s.blocked
        /\ \A i, j \in 1 .. Len(waiters) :
             i < j => BasePriority[waiters[i]] >= BasePriority[waiters[j]]
    BY DEF IInv, Waiters
  <2>2. \A u \in Tasks : u # h => b.prio[u] = BasePriority[u]
    BY <1>5, <1>6 DEF IInv, Lent, AllTasks, h
  <2>3. b.prio \in [AllTasks -> Nat]
    BY <1>6, PrioritiesAre DEF Sound, Scheduler
  <2>4. Ranked(waiters, b.prio)
    <3>1. \A i \in 1 .. Len(waiters) : b.prio[waiters[i]] = BasePriority[waiters[i]]
      BY <1>10, <2>1, <2>2, InRange
    <3> QED BY <2>1, <3>1 DEF Ranked
  <2> DEFINE r == ByPriority(waiters, t, b.prio)
  <2>5. /\ r \in Seq(Tasks) /\ Distinct(r) /\ Ranked(r, b.prio)
        /\ Range(r) = Range(waiters) \cup {t}
    BY <1>3, <2>1, <2>3, <2>4, InsertRanked
  <2> HIDE DEF r
  <2>6. waiters' = r
    BY <1>1 DEF r
  <2>7. \A i \in 1 .. Len(r) : r[i] \in Tasks /\ r[i] # h
    BY <1>2, <1>10, <2>1, <2>5, InRange
  <2>8. \A i, j \in 1 .. Len(r) : i < j => BasePriority[r[i]] >= BasePriority[r[j]]
    BY <2>2, <2>5, <2>7 DEF Ranked
  <2> QED BY <1>7, <2>1, <2>5, <2>6, <2>8 DEF Waiters, Distinct
<1>12. Located'
  <2>1. /\ Idle \in ReadySet(s) /\ Apart(ReadySet(s), s.blocked) /\ Apart(Asleep(s), s.blocked)
        /\ ReadySet(s) \cup Asleep(s) \cup s.blocked = {Idle} \cup Present'
        /\ Distinct(terminated)' /\ Range(terminated)' = Ended'
    BY <1>1, <1>9 DEF IInv, Located, Distinct
  <2>2. \A u \in s.blocked : pc'[u] \in {"listed", "parked", "take"}
    BY <1>3, <1>8, <1>10 DEF IInv, Located
  <2>3. \A u \in Asleep(s) : pc'[u] \in {"asleep", "delayed", "run"}
    BY <1>3, <1>8, <1>10 DEF IInv, Located
  <2>4. Idle # t
    BY NamesAssumption
  <2> QED BY <1>3, <1>7, <1>8, <2>1, <2>2, <2>3, <2>4 DEF Located, Apart
<1>13. Running'
  BY <1>7, <1>8 DEF Running
<1>14. Suspended'
  <2>1. \A u \in Tasks \ {t} : pc[u] \notin {"listed", "retry", "asleep"}
    BY <1>3 DEF IInv, Suspended
  <2> QED BY <1>3, <1>7, <1>8, <2>1, PendedAssumption DEF Suspended
<1>15. Lent'
  <2>1. /\ \A u \in AllTasks : u # h => s.prio[u] = BasePriority[u]
        /\ s.prio[h] >= BasePriority[h]
        /\ \A w \in s.blocked : s.prio[h] >= BasePriority[w]
        /\ s.prio[h] = BasePriority[h] \/ \E w \in s.blocked : s.prio[h] = BasePriority[w]
    BY <1>2, NamesAssumption DEF IInv, Lent, h, AllTasks
  <2>2. BasePriority[h] \in Nat /\ \A w \in s.blocked : BasePriority[w] \in Nat
    BY <1>5, <1>10, PrioritiesAre DEF AllTasks
  <2>3. \A u \in AllTasks : u # h => b.prio[u] = BasePriority[u]
    BY <1>5, <1>6, <2>1
  <2>4. b.prio[h] = IF s.prio[h] < s.prio[t] THEN s.prio[t] ELSE s.prio[h]
    BY <1>5, <1>6
  <2> DEFINE B == s.blocked \cup {t}
  <2>5. /\ b.prio[h] >= BasePriority[h]
        /\ \A w \in B : b.prio[h] >= BasePriority[w]
        /\ b.prio[h] = BasePriority[h] \/ \E w \in B : b.prio[h] = BasePriority[w]
    <3>1. CASE s.prio[h] < s.prio[t]
      BY <1>5, <2>1, <2>2, <2>4, <3>1
    <3>2. CASE ~(s.prio[h] < s.prio[t])
      BY <1>5, <2>1, <2>2, <2>4, <3>2
    <3> QED BY <3>1, <3>2
  <2>6. xMutexHolder' = h
    BY <1>1 DEF h
  <2> QED BY <1>7, <2>3, <2>5, <2>6 DEF Lent
<1>16. Wakened'
  BY <1>1 DEF Wakened
<1>17. wakeTime' \in [Tasks -> Clock]
  BY <1>1 DEF IInv
<1> QED BY <1>7, <1>11, <1>12, <1>13, <1>14, <1>15, <1>16, <1>17 DEF IInv, Steady

(* BlockOnTake, when the mutex has been given meanwhile.                   *)
LEMMA LookAgainSound ==
  ASSUME MutexInv, IInv, NEW t \in Tasks, BlockOnTake(t), uxMessagesWaiting # 0
  PROVE  IInv' /\ Steady(s, s')
<1>1. /\ s.current = t /\ pc[t] = "wait" /\ Goto(t, "retry")
      /\ s' = vTaskSuspendAll(s)
      /\ UNCHANGED <<uxMessagesWaiting, xMutexHolder, waiters, terminated, wakeTime>>
  BY DEF BlockOnTake, At, prvIsQueueEmpty
<1>2. /\ Highest(s, ReadySet(s))
      /\ t \in ReadySet(s) /\ t \notin s.blocked /\ t \notin Asleep(s)
      /\ Sound(s) /\ s.suspended = FALSE /\ s.pended = 0 /\ s.yield = FALSE
  BY <1>1, CurrentIsHighest DEF Leaving
<1>3. /\ Sound(s') /\ ReadySet(s') = ReadySet(s)
      /\ Sleeping(s') = Sleeping(s) /\ Asleep(s') = Asleep(s)
      /\ s'.prio = s.prio /\ s'.current = s.current /\ s'.blocked = s.blocked
      /\ s'.tick = s.tick
      /\ s'.suspended = TRUE /\ s'.pended = s.pended /\ s'.yield = s.yield
  BY <1>1, <1>2, SuspendSound
<1>4. pc'[t] = "retry" /\ \A u \in Tasks \ {t} : pc'[u] = pc[u]
  BY <1>1, MovesOne DEF MutexInv
<1>5. Present' = Present /\ Ended' = Ended
  BY <1>1, PlacesStay DEF MutexInv, Away
<1>6. s.blocked \subseteq Tasks /\ Asleep(s) \subseteq Tasks
  BY SleepersAre DEF IInv, Sound, Scheduler
<1>7. Sound(s)' /\ Waiters' /\ Lent'
  BY <1>1, <1>3 DEF IInv, Waiters, Lent
<1>8. Located'
  BY <1>1, <1>2, <1>3, <1>4, <1>5, <1>6 DEF IInv, Located, Distinct
<1>9. Running'
  BY <1>2, <1>3 DEF Running, Highest
<1>10. Suspended'
  <2>1. \A u \in Tasks \ {t} : pc[u] \notin {"listed", "retry", "asleep"}
    BY <1>2 DEF IInv, Suspended
  <2> QED BY <1>1, <1>2, <1>3, <1>4, <2>1, PendedAssumption DEF Suspended
<1>11. Wakened'
  <2>1. \A u \in Users : pc[u] \in Asking => pc'[u] \in Asking
    BY <1>4, TasksAssumption DEF Asking
  <2> QED BY <1>1, <1>3, <2>1 DEF IInv, Wakened
<1> QED BY <1>1, <1>3, <1>7, <1>8, <1>9, <1>10, <1>11 DEF IInv, Steady

-----------------------------------------------------------------------------
(* The invariant and a give.                                               *)

(* The first of those that wait comes before all of them.                  *)
LEMMA HeadWaits ==
  ASSUME MutexInv, IInv, waiters # <<>>
  PROVE  LET w == Head(waiters)
         IN /\ w \in s.blocked /\ w \in Tasks /\ w \in Users
            /\ pc[w] \in {"listed", "parked", "take"}
            /\ \A v \in s.blocked : BasePriority[w] >= BasePriority[v]
            /\ Tail(waiters) \in Seq(Tasks) /\ Distinct(Tail(waiters))
            /\ Range(Tail(waiters)) = s.blocked \ {w}
            /\ \A i, j \in 1 .. Len(Tail(waiters)) :
                 i < j => BasePriority[Tail(waiters)[i]] >= BasePriority[Tail(waiters)[j]]
<1> DEFINE w == Head(waiters)
<1>1. /\ waiters \in Seq(Tasks) /\ Distinct(waiters) /\ Range(waiters) = s.blocked
      /\ \A i, j \in 1 .. Len(waiters) :
           i < j => BasePriority[waiters[i]] >= BasePriority[waiters[j]]
  BY DEF IInv, Waiters
<1>2. /\ w \in Tasks /\ w \in Range(waiters) /\ w = waiters[1]
      /\ Tail(waiters) \in Seq(Tasks)
      /\ Len(Tail(waiters)) = Len(waiters) - 1
      /\ \A i \in 1 .. Len(waiters) - 1 : Tail(waiters)[i] = waiters[i + 1]
      /\ Distinct(Tail(waiters))
      /\ Range(Tail(waiters)) = Range(waiters) \ {w}
  BY <1>1, TailDistinct
<1>3. Len(waiters) \in Nat /\ Len(waiters) > 0
  BY <1>1
<1> HIDE DEF w
<1>4. pc[w] \in {"listed", "parked", "take"}
  BY <1>1, <1>2 DEF IInv, Located
<1>5. w \in Users
  BY <1>2, <1>4 DEF MutexInv, OnlyUsersAsk, Asking
<1>6. \A v \in s.blocked : BasePriority[w] >= BasePriority[v]
  <2> SUFFICES ASSUME NEW v \in s.blocked PROVE BasePriority[w] >= BasePriority[v]
    OBVIOUS
  <2>1. PICK i \in 1 .. Len(waiters) : v = waiters[i]
    BY <1>1, InRange
  <2>2. BasePriority[w] \in Nat
    BY <1>2, PrioritiesAre DEF AllTasks
  <2>3. CASE i = 1
    BY <1>2, <2>1, <2>2, <2>3
  <2>4. CASE i # 1
    <3>1. 1 < i /\ 1 \in 1 .. Len(waiters)
      BY <1>3, <2>4
    <3> QED BY <1>1, <1>2, <2>1, <3>1
  <2> QED BY <2>3, <2>4
<1>7. \A i, j \in 1 .. Len(Tail(waiters)) :
        i < j => BasePriority[Tail(waiters)[i]] >= BasePriority[Tail(waiters)[j]]
  <2> SUFFICES ASSUME NEW i \in 1 .. Len(Tail(waiters)), NEW j \in 1 .. Len(Tail(waiters)), i < j
               PROVE  BasePriority[Tail(waiters)[i]] >= BasePriority[Tail(waiters)[j]]
    OBVIOUS
  <2>1. i + 1 \in 1 .. Len(waiters) /\ j + 1 \in 1 .. Len(waiters) /\ i + 1 < j + 1
    BY <1>2, <1>3
  <2>2. Tail(waiters)[i] = waiters[i + 1] /\ Tail(waiters)[j] = waiters[j + 1]
    BY <1>2
  <2> QED BY <1>1, <2>1, <2>2
<1> QED BY <1>1, <1>2, <1>4, <1>5, <1>6, <1>7 DEF w

(* Give. No switch is missed when a lent priority goes back: whoever lent  *)
(* it is at the head of the event list or comes behind the head.           *)
LEMMA GiveSound ==
  ASSUME MutexInv, IInv, NEW t \in Tasks, Give(t)
  PROVE  IInv' /\ Steady(s, s')
<1> DEFINE a == xTaskPriorityDisinherit(s, t)
<1>1. /\ s.current = t /\ pc[t] = "inside" /\ Goto(t, "run")
      /\ s' = Given(a)
      /\ waiters' = (IF waiters # <<>> THEN Tail(waiters) ELSE waiters)
      /\ xMutexHolder' = NULL /\ uxMessagesWaiting' = uxMessagesWaiting + 1
      /\ UNCHANGED <<terminated, wakeTime>>
  BY DEF Give, At
<1>2. /\ Highest(s, ReadySet(s))
      /\ t \in ReadySet(s) /\ t \notin s.blocked /\ t \notin Asleep(s)
      /\ Sound(s) /\ s.suspended = FALSE /\ s.pended = 0 /\ s.yield = FALSE
      /\ ReadySet(s) # {}
  BY <1>1, CurrentIsHighest DEF Leaving
<1>3. xMutexHolder = t /\ uxMessagesWaiting = 0
  BY <1>1, NamesAssumption DEF MutexInv, TypeOK, HolderIsInside, AllTasks
<1>4. /\ s.prio \in [AllTasks -> Priorities] /\ t \in AllTasks
      /\ BasePriority \in [AllTasks -> Priorities]
      /\ \A u \in AllTasks : s.prio[u] \in Nat /\ BasePriority[u] \in Nat
  BY <1>2, PriorityAssumption, PrioritiesAre DEF Sound, Scheduler, AllTasks
<1>5. /\ \A u \in AllTasks : u # t => s.prio[u] = BasePriority[u]
      /\ s.prio[t] >= BasePriority[t]
      /\ s.prio[t] = BasePriority[t] \/ \E w \in s.blocked : s.prio[t] = BasePriority[w]
  <2>1. xMutexHolder # NULL
    BY <1>3, <1>4, NamesAssumption
  <2> QED BY <1>3, <2>1 DEF IInv, Lent
<1>6. /\ Sound(a) /\ ReadySet(a) = ReadySet(s)
      /\ Sleeping(a) = Sleeping(s) /\ Asleep(a) = Asleep(s)
      /\ a.prio = BasePriority
      /\ a.current = s.current /\ a.blocked = s.blocked /\ a.tick = s.tick
      /\ a.suspended = FALSE /\ a.pended = 0 /\ a.yield = FALSE
  <2>1. CASE Inherited(s, t)
    <3> DEFINE c == SetPriority(s, t, BasePriority[t])
    <3>1. a = c
      BY <2>1 DEF xTaskPriorityDisinherit
    <3>2. /\ Sound(c) /\ ReadySet(c) = ReadySet(s)
          /\ Sleeping(c) = Sleeping(s) /\ Asleep(c) = Asleep(s)
          /\ c.prio = [s.prio EXCEPT ![t] = BasePriority[t]]
          /\ SameButPriority(s, c)
      BY <1>2, <1>4, PrioritySound
    <3> HIDE DEF a, c
    <3>3. c.prio = BasePriority
      <4>1. \A u \in AllTasks : c.prio[u] = BasePriority[u]
        BY <1>4, <1>5, <3>2
      <4>2. c.prio \in [AllTasks -> Priorities]
        BY <1>4, <3>2
      <4> QED BY <1>4, <4>1, <4>2
    <3> QED BY <1>2, <3>1, <3>2, <3>3 DEF SameButPriority
  <2>2. CASE ~Inherited(s, t)
    <3>1. a = s
      BY <2>2 DEF xTaskPriorityDisinherit
    <3>2. \A u \in AllTasks : s.prio[u] = BasePriority[u]
      BY <1>5, <2>2 DEF Inherited
    <3>3. s.prio = BasePriority
      BY <1>4, <3>2
    <3> HIDE DEF a
    <3> QED BY <1>2, <3>1, <3>3
  <2> QED BY <2>1, <2>2
<1> HIDE DEF a
<1>7. pc'[t] = "run" /\ \A u \in Tasks \ {t} : pc'[u] = pc[u]
  BY <1>1, MovesOne DEF MutexInv
<1>8. Present' = Present /\ Ended' = Ended
  BY <1>1, PlacesStay DEF MutexInv, Away
<1>9. s.blocked \subseteq Tasks /\ Asleep(s) \subseteq Tasks
  BY <1>2, SleepersAre DEF Sound, Scheduler
<1> DEFINE woken == IF waiters # <<>> THEN {Head(waiters)} ELSE {}
<1>10. woken \subseteq s.blocked
  BY HeadWaits
<1>11. /\ Sound(s') /\ ReadySet(s') = ReadySet(s) \cup woken
       /\ Sleeping(s') = Sleeping(s) /\ Asleep(s') = Asleep(s)
       /\ s'.prio = BasePriority /\ s'.blocked = s.blocked \ woken
       /\ s'.tick = s.tick
       /\ s'.suspended = FALSE /\ s'.pended = 0 /\ s'.yield = FALSE
       /\ Highest(s', ReadySet(s'))
  <2>1. CASE waiters = <<>>
    <3>1. s' = IF Inherited(s, t) THEN vTaskSwitchContext(a) ELSE a
      BY <1>1, <2>1 DEF Given
    <3>2. woken = {}
      BY <2>1
    <3>3. CASE Inherited(s, t)
      <4>1. s' = vTaskSwitchContext(a) /\ ReadySet(a) # {} /\ ~a.suspended
        BY <1>2, <1>6, <3>1, <3>3
      <4>2. /\ Sound(s') /\ ReadySet(s') = ReadySet(a)
            /\ Sleeping(s') = Sleeping(a) /\ Asleep(s') = Asleep(a)
            /\ Highest(s', ReadySet(s'))
            /\ s'.yield = FALSE /\ s'.suspended = FALSE /\ s'.pended = a.pended
            /\ s'.prio = a.prio /\ s'.blocked = a.blocked /\ s'.tick = a.tick
        BY <1>6, <4>1, SwitchSound
      <4> QED BY <1>6, <3>2, <4>2
    <3>4. CASE ~Inherited(s, t)
      <4>1. s' = a
        BY <3>1, <3>4
      <4>2. Highest(a, ReadySet(a))
        <5>1. s.prio[t] = BasePriority[t]
          BY <3>4 DEF Inherited
        <5>2. \A u \in AllTasks : s.prio[u] = BasePriority[u]
          BY <1>5, <5>1
        <5> QED BY <1>1, <1>2, <1>6, <5>2, ReadyAre DEF Highest
      <4> QED BY <1>6, <3>2, <4>1, <4>2
    <3> QED BY <3>3, <3>4
  <2>2. CASE waiters # <<>>
    <3> DEFINE w == Head(waiters)
               b == prvAddTaskToReadyList([a EXCEPT !.blocked = @ \ {w}], w)
    <3>1. /\ w \in s.blocked /\ w \in Tasks
          /\ \A v \in s.blocked : BasePriority[w] >= BasePriority[v]
      BY <2>2, HeadWaits
    <3>2. woken = {w}
      BY <2>2
    <3>3. s' = IF b.prio[w] > b.prio[b.current] THEN vTaskSwitchContext(b) ELSE b
      BY <1>1, <2>2 DEF Given, xTaskRemoveFromEventList
    <3> HIDE DEF w, woken
    <3>4. w \notin ReadySet(a) /\ w \notin Asleep(a)
      BY <1>6, <3>1 DEF IInv, Located, Apart
    <3>5. /\ Sound(b) /\ ReadySet(b) = ReadySet(a) \cup {w}
          /\ Sleeping(b) = Sleeping(a) /\ Asleep(b) = Asleep(a)
          /\ b.prio = a.prio /\ b.current = a.current /\ b.blocked = a.blocked \ {w}
          /\ b.tick = a.tick
          /\ b.suspended = a.suspended /\ b.pended = a.pended /\ b.yield = a.yield
      BY <1>6, <3>1, <3>4, UnblockSound
    <3> HIDE DEF b
    <3>6. b.prio = BasePriority /\ b.current = t /\ b.suspended = FALSE /\ b.pended = 0 /\ b.yield = FALSE
      BY <1>1, <1>6, <3>5
    <3>7. CASE BasePriority[w] > BasePriority[t]
      <4>1. s' = vTaskSwitchContext(b) /\ ReadySet(b) # {} /\ ~b.suspended
        BY <3>3, <3>5, <3>6, <3>7
      <4>2. /\ Sound(s') /\ ReadySet(s') = ReadySet(b)
            /\ Sleeping(s') = Sleeping(b) /\ Asleep(s') = Asleep(b)
            /\ Highest(s', ReadySet(s'))
            /\ s'.yield = FALSE /\ s'.suspended = FALSE /\ s'.pended = b.pended
            /\ s'.prio = b.prio /\ s'.blocked = b.blocked /\ s'.tick = b.tick
        BY <3>5, <4>1, SwitchSound
      <4> QED BY <1>6, <3>2, <3>5, <3>6, <4>2
    <3>8. CASE ~(BasePriority[w] > BasePriority[t])
      <4>1. s' = b
        BY <3>3, <3>6, <3>8
      <4>2. s.prio[t] = BasePriority[t]
        <5> SUFFICES ASSUME s.prio[t] # BasePriority[t] PROVE FALSE
          OBVIOUS
        <5>1. PICK v \in s.blocked : s.prio[t] = BasePriority[v]
          BY <1>5
        <5>2. v \in AllTasks /\ w \in AllTasks
          BY <1>9, <3>1 DEF AllTasks
        <5>3. BasePriority[w] >= BasePriority[v]
          BY <3>1
        <5>4. /\ BasePriority[v] \in Nat /\ BasePriority[w] \in Nat
              /\ BasePriority[t] \in Nat /\ s.prio[t] \in Nat
          BY <1>4, <5>2
        <5> QED BY <1>5, <3>8, <5>1, <5>3, <5>4
      <4>3. \A u \in ReadySet(b) : b.prio[u] <= b.prio[b.current]
        <5> SUFFICES ASSUME NEW u \in ReadySet(b) PROVE BasePriority[u] <= BasePriority[t]
          BY <3>6
        <5>1. CASE u = w
          <6>1. w \in AllTasks
            BY <3>1 DEF AllTasks
          <6> QED BY <1>4, <3>8, <5>1, <6>1
        <5>2. CASE u \in ReadySet(s)
          <6>1. s.prio[u] <= s.prio[t] /\ u \in AllTasks
            BY <1>1, <1>2, <5>2, ReadyAre DEF Highest
          <6>2. s.prio[u] = BasePriority[u]
            BY <1>5, <4>2, <6>1
          <6> QED BY <4>2, <6>1, <6>2
        <5> QED BY <1>6, <3>5, <5>1, <5>2
      <4>4. Highest(b, ReadySet(b))
        BY <1>2, <1>6, <3>5, <3>6, <4>3 DEF Highest
      <4> QED BY <1>6, <3>2, <3>5, <3>6, <4>1, <4>4
    <3> QED BY <3>7, <3>8
  <2> QED BY <2>1, <2>2
<1>12. Waiters'
  <2>1. CASE waiters = <<>>
    <3>1. waiters' = waiters /\ s'.blocked = s.blocked
      BY <1>1, <1>11, <2>1
    <3> QED BY <3>1 DEF IInv, Waiters
  <2>2. CASE waiters # <<>>
    <3>1. waiters' = Tail(waiters) /\ s'.blocked = s.blocked \ {Head(waiters)}
      BY <1>1, <1>11, <2>2
    <3>2. /\ Tail(waiters) \in Seq(Tasks) /\ Distinct(Tail(waiters))
          /\ Range(Tail(waiters)) = s.blocked \ {Head(waiters)}
          /\ \A i, j \in 1 .. Len(Tail(waiters)) :
               i < j => BasePriority[Tail(waiters)[i]] >= BasePriority[Tail(waiters)[j]]
      BY <2>2, HeadWaits
    <3> QED BY <3>1, <3>2 DEF Waiters, Distinct
  <2> QED BY <2>1, <2>2
<1>13. Wakened'
  <2>1. CASE waiters = <<>>
    <3>1. s.blocked = {}
      BY <2>1, EmptyRange DEF IInv, Waiters
    <3>2. s'.blocked = {}
      BY <1>11, <3>1
    <3> QED BY <3>2 DEF Wakened
  <2>2. CASE waiters # <<>>
    <3> DEFINE w == Head(waiters)
    <3>1. /\ w \in s.blocked /\ w \in Tasks /\ w \in Users
          /\ pc[w] \in {"listed", "parked", "take"}
          /\ \A v \in s.blocked : BasePriority[w] >= BasePriority[v]
      BY <2>2, HeadWaits
    <3>2. w \in ReadySet(s') /\ s'.blocked \subseteq s.blocked
      BY <1>11, <2>2
    <3>3. pc'[w] \in Asking
      BY <1>2, <1>7, <3>1 DEF Asking
    <3> HIDE DEF w
    <3> QED BY <3>1, <3>2, <3>3 DEF Wakened
  <2> QED BY <2>1, <2>2
<1> HIDE DEF woken
<1>14. Located'
  <2>1. /\ Idle \in ReadySet(s) /\ Apart(ReadySet(s), s.blocked) /\ Apart(Asleep(s), s.blocked)
        /\ ReadySet(s) \cup Asleep(s) \cup s.blocked = {Idle} \cup Present'
        /\ Distinct(terminated)' /\ Range(terminated)' = Ended'
    BY <1>1, <1>8 DEF IInv, Located, Distinct
  <2>2. \A u \in s.blocked : pc'[u] \in {"listed", "parked", "take"}
    BY <1>2, <1>7, <1>9 DEF IInv, Located
  <2>3. \A u \in Asleep(s) : pc'[u] \in {"asleep", "delayed", "run"}
    BY <1>2, <1>7, <1>9 DEF IInv, Located
  <2> QED BY <1>10, <1>11, <2>1, <2>2, <2>3 DEF Located, Apart
<1>15. Running'
  BY <1>11 DEF Running
<1>16. Suspended'
  <2>1. \A u \in Tasks : pc[u] \notin {"listed", "retry", "asleep"}
    BY <1>2 DEF IInv, Suspended
  <2> QED BY <1>7, <1>11, <2>1, PendedAssumption DEF Suspended
<1>17. Lent'
  BY <1>1, <1>11 DEF Lent
<1>18. wakeTime' \in [Tasks -> Clock]
  BY <1>1 DEF IInv
<1> QED BY <1>11, <1>12, <1>13, <1>14, <1>15, <1>16, <1>17, <1>18 DEF IInv, Steady

-----------------------------------------------------------------------------
(* The invariant, delays, and tasks that come and go.                      *)

(* A task that runs suspends the scheduler, and goes to sleep or not.      *)
LEMMA AsleepKeeps ==
  ASSUME MutexInv, IInv, NEW t \in Tasks, s.current = t, pc[t] = "run", Goto(t, "asleep"),
         UNCHANGED <<uxMessagesWaiting, xMutexHolder, waiters, terminated>>,
         wakeTime' \in [Tasks -> Clock],
         NEW Z \in SUBSET {t},
         Sound(s'), ReadySet(s') = ReadySet(s) \ Z, Asleep(s') = Asleep(s) \cup Z,
         s'.prio = s.prio, s'.current = s.current, s'.blocked = s.blocked,
         s'.suspended = TRUE, s'.pended = s.pended, s'.yield = s.yield
  PROVE  IInv'
<1>1. /\ waiters' = waiters /\ terminated' = terminated
      /\ uxMessagesWaiting' = uxMessagesWaiting /\ xMutexHolder' = xMutexHolder
  OBVIOUS
<1>2. /\ Highest(s, ReadySet(s))
      /\ t \in ReadySet(s) /\ t \notin s.blocked /\ t \notin Asleep(s)
      /\ Sound(s) /\ s.suspended = FALSE /\ s.pended = 0 /\ s.yield = FALSE
  BY CurrentIsHighest DEF Leaving
<1>3. pc'[t] = "asleep" /\ \A u \in Tasks \ {t} : pc'[u] = pc[u]
  BY MovesOne DEF MutexInv
<1>4. Present' = Present /\ Ended' = Ended
  BY PlacesStay DEF MutexInv, Away
<1>5. s.blocked \subseteq Tasks /\ Asleep(s) \subseteq Tasks
  BY <1>2, SleepersAre DEF Sound, Scheduler
<1>6. Waiters' /\ Lent'
  BY <1>1 DEF IInv, Waiters, Lent
<1>7. Located'
  <2>1. /\ Idle \in ReadySet(s) /\ Apart(ReadySet(s), s.blocked) /\ Apart(Asleep(s), s.blocked)
        /\ ReadySet(s) \cup Asleep(s) \cup s.blocked = {Idle} \cup Present'
        /\ Distinct(terminated)' /\ Range(terminated)' = Ended'
    BY <1>1, <1>4 DEF IInv, Located, Distinct
  <2>2. \A u \in s.blocked : pc'[u] \in {"listed", "parked", "take"}
    BY <1>2, <1>3, <1>5 DEF IInv, Located
  <2>3. \A u \in Asleep(s) \cup {t} : pc'[u] \in {"asleep", "delayed", "run"}
    BY <1>2, <1>3, <1>5 DEF IInv, Located
  <2>4. Idle # t
    BY NamesAssumption
  <2>5. Idle \in ReadySet(s') /\ Apart(ReadySet(s'), s'.blocked) /\ Apart(Asleep(s'), s'.blocked)
    BY <1>2, <2>1, <2>4 DEF Apart
  <2>6. ReadySet(s') \cup Asleep(s') \cup s'.blocked = {Idle} \cup Present'
    BY <1>2, <2>1
  <2>7. \A u \in s'.blocked : pc'[u] \in {"listed", "parked", "take"}
    BY <2>2
  <2>8. \A u \in Asleep(s') : pc'[u] \in {"asleep", "delayed", "run"}
    BY <2>3
  <2> QED BY <2>1, <2>5, <2>6, <2>7, <2>8 DEF Located
<1>8. Running'
  BY <1>3 DEF Running
<1>9. Suspended'
  <2>1. \A u \in Tasks \ {t} : pc[u] \notin {"listed", "retry", "asleep"}
    BY <1>2 DEF IInv, Suspended
  <2> QED BY <1>2, <1>3, <2>1, PendedAssumption DEF Suspended
<1>10. Wakened'
  <2> SUFFICES ASSUME uxMessagesWaiting > 0, s.blocked # {} PROVE Wakened'
    BY <1>1 DEF Wakened
  <2>1. PICK u \in Users : /\ u \in ReadySet(s) /\ pc[u] \in Asking
                           /\ \A w \in s.blocked : BasePriority[u] >= BasePriority[w]
    BY DEF IInv, Wakened
  <2>2. u # t
    BY <2>1 DEF Asking
  <2>3. u \in ReadySet(s') /\ pc'[u] \in Asking
    BY <1>3, <2>1, <2>2, TasksAssumption
  <2> QED BY <2>1, <2>3 DEF Wakened
<1> QED BY <1>6, <1>7, <1>8, <1>9, <1>10 DEF IInv

(* A task goes to sleep for a number of ticks.                             *)
LEMMA SleepKeeps ==
  ASSUME MutexInv, IInv, NEW t \in Tasks, s.current = t, pc[t] = "run", Goto(t, "asleep"),
         UNCHANGED <<uxMessagesWaiting, xMutexHolder, waiters, terminated>>,
         wakeTime' \in [Tasks -> Clock],
         NEW ticks \in 1 .. WRAP - 1,
         s' = prvAddCurrentTaskToDelayedList(vTaskSuspendAll(s), ticks)
  PROVE  IInv' /\ Steady(s, s')
<1> DEFINE a == vTaskSuspendAll(s)
<1>1. t \in ReadySet(s) /\ Sound(s)
  BY CurrentIsHighest DEF Leaving
<1>2. /\ Sound(a) /\ ReadySet(a) = ReadySet(s)
      /\ Sleeping(a) = Sleeping(s) /\ Asleep(a) = Asleep(s)
      /\ a.prio = s.prio /\ a.current = s.current /\ a.blocked = s.blocked
      /\ a.tick = s.tick
      /\ a.suspended = TRUE /\ a.pended = s.pended /\ a.yield = s.yield
  BY <1>1, SuspendSound
<1> HIDE DEF a
<1>3. s' = prvAddCurrentTaskToDelayedList(a, ticks)
  BY DEF a
<1>4. /\ Sound(s') /\ ReadySet(s') = ReadySet(a) \ {a.current}
      /\ Sleeping(s') = Sleeping(a) \cup {[task |-> a.current, wake |-> (a.tick + ticks) % WRAP]}
      /\ Asleep(s') = Asleep(a) \cup {a.current}
      /\ SameButDelay(a, s')
  BY <1>1, <1>2, <1>3, DelaySound
<1>5. /\ ReadySet(s') = ReadySet(s) \ {t} /\ Asleep(s') = Asleep(s) \cup {t}
      /\ s'.prio = s.prio /\ s'.current = s.current /\ s'.blocked = s.blocked
      /\ s'.suspended = TRUE /\ s'.pended = s.pended /\ s'.yield = s.yield
      /\ s'.tick = s.tick
  BY <1>2, <1>4 DEF SameButDelay
<1>6. Steady(s, s')
  BY <1>2, <1>4, <1>5 DEF Steady
<1>7. {t} \in SUBSET {t}
  OBVIOUS
<1> QED BY <1>4, <1>5, <1>6, <1>7, AsleepKeeps

(* vTaskDelay.                                                             *)
LEMMA DelayInvariant ==
  ASSUME MutexInv, IInv, NEW t \in Tasks, vTaskDelay(t)
  PROVE  IInv' /\ Steady(s, s')
<1>1. /\ s.current = t /\ pc[t] = "run"
      /\ UNCHANGED <<uxMessagesWaiting, xMutexHolder, waiters, terminated, wakeTime>>
  BY DEF vTaskDelay, At, mutexVars
<1>2. wakeTime' \in [Tasks -> Clock]
  BY <1>1 DEF IInv
<1>3. PICK ticks \in Delays :
        \/ /\ ticks > 0
           /\ s' = prvAddCurrentTaskToDelayedList(vTaskSuspendAll(s), ticks)
           /\ Goto(t, "asleep")
        \/ /\ ticks = 0
           /\ s' = vTaskSwitchContext(s)
           /\ UNCHANGED pc
  BY DEF vTaskDelay
<1>4. CASE ticks > 0
  <2>1. ticks \in 1 .. WRAP - 1
    BY <1>4, DelaysAssumption
  <2> QED BY <1>1, <1>2, <1>3, <1>4, <2>1, SleepKeeps
<1>5. CASE ticks = 0
  <2>1. s' = vTaskSwitchContext(s) /\ pc' = pc
    BY <1>3, <1>5
  <2>2. Sound(s) /\ ReadySet(s) # {} /\ ~s.suspended /\ s.pended = 0
    BY <1>1, CurrentIsHighest DEF Leaving
  <2>3. /\ Onward(s, s') /\ Highest(s', ReadySet(s'))
        /\ s'.tick = s.tick /\ Sleeping(s') = Sleeping(s)
    BY <2>1, <2>2, SwitchOnward
  <2>4. Running'
    BY <2>3 DEF Running
  <2> QED BY <1>1, <2>1, <2>2, <2>3, <2>4, OnwardKeeps DEF Steady
<1>6. ticks \in Nat
  BY DelaysAssumption
<1> QED BY <1>4, <1>5, <1>6

(* xTaskDelayUntil.                                                        *)
LEMMA DelayUntilInvariant ==
  ASSUME MutexInv, IInv, NEW t \in Tasks, xTaskDelayUntil(t)
  PROVE  IInv' /\ Steady(s, s')
<1> DEFINE previous == wakeTime[t]
           now == s.tick
           wake == (previous + Period[t]) % WRAP
           ticks == (wake + WRAP - now) % WRAP
<1>1. /\ s.current = t /\ pc[t] = "run" /\ Goto(t, "asleep")
      /\ UNCHANGED <<uxMessagesWaiting, xMutexHolder, waiters, terminated>>
      /\ wakeTime' = [wakeTime EXCEPT ![t] = wake]
      /\ \/ /\ ShouldDelay(now, previous, wake)
            /\ s' = prvAddCurrentTaskToDelayedList(vTaskSuspendAll(s), ticks)
         \/ s' = vTaskSuspendAll(s)
  BY DEF xTaskDelayUntil, At, mutexVars
<1>2. now \in Clock /\ previous \in Clock /\ Period[t] \in Clock
  BY DelaysAssumption DEF IInv, Sound, Scheduler, Clock
<1>3. wake \in Clock
  BY <1>2, WrapAssumption DEF Clock
<1>4. wakeTime' \in [Tasks -> Clock]
  <2> HIDE DEF wake
  <2> QED BY <1>1, <1>3 DEF IInv
<1>5. CASE ShouldDelay(now, previous, wake)
           /\ s' = prvAddCurrentTaskToDelayedList(vTaskSuspendAll(s), ticks)
  <2> HIDE DEF now, previous, wake
  <2>1. wake # now
    BY <1>2, <1>3, <1>5, ClockIs DEF ShouldDelay
  <2>2. Ahead(wake, now) = IF wake >= now THEN wake - now ELSE wake + WRAP - now
    BY <1>2, <1>3, AheadIs
  <2>3. Ahead(wake, now) \in 1 .. WRAP - 1
    BY <1>2, <1>3, <2>1, <2>2, ClockIs
  <2>4. ticks \in 1 .. WRAP - 1
    BY <2>3 DEF Ahead
  <2> HIDE DEF ticks
  <2> QED BY <1>1, <1>4, <1>5, <2>4, SleepKeeps
<1>6. CASE s' = vTaskSuspendAll(s)
  <2>1. Sound(s)
    BY DEF IInv
  <2>2. /\ Sound(s') /\ ReadySet(s') = ReadySet(s)
        /\ Sleeping(s') = Sleeping(s) /\ Asleep(s') = Asleep(s)
        /\ s'.prio = s.prio /\ s'.current = s.current /\ s'.blocked = s.blocked
        /\ s'.tick = s.tick
        /\ s'.suspended = TRUE /\ s'.pended = s.pended /\ s'.yield = s.yield
    BY <1>6, <2>1, SuspendSound
  <2>3. /\ {} \in SUBSET {t}
        /\ ReadySet(s') = ReadySet(s) \ {} /\ Asleep(s') = Asleep(s) \cup {}
    BY <2>2
  <2>4. IInv'
    <3> HIDE DEF now, previous, wake, ticks
    <3> QED BY <1>1, <1>4, <2>2, <2>3, AsleepKeeps
  <2> QED BY <2>2, <2>4 DEF Steady
<1> QED BY <1>1, <1>5, <1>6

(* xTaskCreate.                                                            *)
LEMMA CreateSound ==
  ASSUME MutexInv, IInv, NEW t \in Tasks, NEW u \in Tasks, xTaskCreate(t, u)
  PROVE  IInv' /\ Steady(s, s')
<1> DEFINE k == prvAddTaskToReadyList(s, u)
           label == IF Period[u] > 0 THEN "start" ELSE "run"
<1>1. /\ s.current = t /\ pc[t] = "run" /\ pc[u] = "none" /\ Goto(u, label)
      /\ s' = (IF k.prio[u] > k.prio[t] THEN vTaskSwitchContext(k) ELSE k)
      /\ UNCHANGED <<uxMessagesWaiting, xMutexHolder, waiters, terminated, wakeTime>>
  BY DEF xTaskCreate, At, mutexVars, Goto
<1>2. /\ Highest(s, ReadySet(s)) /\ t \in ReadySet(s)
      /\ Sound(s) /\ s.suspended = FALSE /\ s.pended = 0 /\ s.yield = FALSE
  BY <1>1, CurrentIsHighest DEF Leaving
<1>3. u \notin ReadySet(s) /\ u \notin Asleep(s) /\ u \notin s.blocked
  BY <1>1, NamesAssumption DEF IInv, Located, Present
<1>4. /\ Sound(k) /\ ReadySet(k) = ReadySet(s) \cup {u}
      /\ Sleeping(k) = Sleeping(s) /\ Asleep(k) = Asleep(s)
      /\ SameRest(s, k)
  BY <1>2, <1>3, AddSound DEF AllTasks
<1>5. label \in {"start", "run"}
  OBVIOUS
<1> HIDE DEF k, label
<1>6. /\ k.prio = s.prio /\ k.current = t /\ k.blocked = s.blocked /\ k.tick = s.tick
      /\ k.suspended = FALSE /\ k.pended = 0 /\ k.yield = FALSE
  BY <1>1, <1>2, <1>4 DEF SameRest
<1>7. /\ Sound(s') /\ ReadySet(s') = ReadySet(s) \cup {u}
      /\ Sleeping(s') = Sleeping(s) /\ Asleep(s') = Asleep(s)
      /\ s'.prio = s.prio /\ s'.blocked = s.blocked /\ s'.tick = s.tick
      /\ s'.suspended = FALSE /\ s'.pended = 0 /\ s'.yield = FALSE
      /\ Highest(s', ReadySet(s'))
  <2>1. CASE k.prio[u] > k.prio[t]
    <3>1. s' = vTaskSwitchContext(k) /\ ReadySet(k) # {} /\ ~k.suspended
      BY <1>1, <1>4, <1>6, <2>1
    <3>2. /\ Sound(s') /\ ReadySet(s') = ReadySet(k)
          /\ Sleeping(s') = Sleeping(k) /\ Asleep(s') = Asleep(k)
          /\ Highest(s', ReadySet(s'))
          /\ s'.yield = FALSE /\ s'.suspended = FALSE /\ s'.pended = k.pended
          /\ s'.prio = k.prio /\ s'.blocked = k.blocked /\ s'.tick = k.tick
      BY <1>4, <3>1, SwitchSound
    <3> QED BY <1>4, <1>6, <3>2
  <2>2. CASE ~(k.prio[u] > k.prio[t])
    <3>1. s' = k
      BY <1>1, <2>2
    <3>2. k.prio[u] \in Nat /\ k.prio[t] \in Nat
      BY <1>4, PrioritiesAre DEF Sound, Scheduler, AllTasks
    <3>3. Highest(k, ReadySet(k))
      BY <1>1, <1>2, <1>4, <1>6, <2>2, <3>2 DEF Highest
    <3> QED BY <1>4, <1>6, <3>1, <3>3
  <2> QED BY <2>1, <2>2
<1>8. pc'[u] = label /\ \A v \in Tasks \ {u} : pc'[v] = pc[v]
  BY <1>1, MovesOne DEF MutexInv
<1>9. Present' = Present \cup {u}
  BY <1>5, <1>8 DEF Present
<1>10. Ended' = Ended
  BY <1>1, <1>5, <1>8 DEF Ended
<1>11. s.blocked \subseteq Tasks /\ Asleep(s) \subseteq Tasks
  BY <1>2, SleepersAre DEF Sound, Scheduler
<1>12. waiters' = waiters /\ terminated' = terminated /\ wakeTime' = wakeTime
       /\ uxMessagesWaiting' = uxMessagesWaiting /\ xMutexHolder' = xMutexHolder
  BY <1>1
<1>13. Waiters' /\ Lent'
  BY <1>7, <1>12 DEF IInv, Waiters, Lent
<1>14. Located'
  <2>1. /\ Idle \in ReadySet(s) /\ Apart(ReadySet(s), s.blocked) /\ Apart(Asleep(s), s.blocked)
        /\ ReadySet(s) \cup Asleep(s) \cup s.blocked = {Idle} \cup Present
        /\ Distinct(terminated)' /\ Range(terminated)' = Ended'
    BY <1>10, <1>12 DEF IInv, Located, Distinct
  <2>2. \A v \in s.blocked : pc'[v] \in {"listed", "parked", "take"}
    BY <1>3, <1>8, <1>11 DEF IInv, Located
  <2>3. \A v \in Asleep(s) : pc'[v] \in {"asleep", "delayed", "run"}
    BY <1>3, <1>8, <1>11 DEF IInv, Located
  <2> QED BY <1>3, <1>7, <1>9, <2>1, <2>2, <2>3 DEF Located, Apart
<1>15. Running'
  BY <1>7 DEF Running
<1>16. Suspended'
  <2>1. \A v \in Tasks : pc[v] \notin {"listed", "retry", "asleep"}
    BY <1>2 DEF IInv, Suspended
  <2> QED BY <1>5, <1>7, <1>8, <2>1, PendedAssumption DEF Suspended
<1>17. Wakened'
  <2>1. \A v \in Users : pc[v] \in Asking => pc'[v] \in Asking
    BY <1>1, <1>8, TasksAssumption DEF Asking
  <2> QED BY <1>7, <1>12, <2>1 DEF IInv, Wakened
<1> QED BY <1>7, <1>12, <1>13, <1>14, <1>15, <1>16, <1>17 DEF IInv, Steady

(* vTaskDelete.                                                            *)
LEMMA DeleteSound ==
  ASSUME MutexInv, IInv, NEW t \in Tasks, vTaskDelete(t)
  PROVE  IInv' /\ Steady(s, s')
<1>1. /\ s.current = t /\ pc[t] = "run" /\ Goto(t, "deleted")
      /\ s' = RemoveFromReadyList(s, t)
      /\ terminated' = Append(terminated, t)
      /\ UNCHANGED <<uxMessagesWaiting, xMutexHolder, waiters, wakeTime>>
  BY DEF vTaskDelete, At, mutexVars
<1>2. /\ Highest(s, ReadySet(s))
      /\ t \in ReadySet(s) /\ t \notin s.blocked /\ t \notin Asleep(s)
      /\ Sound(s) /\ s.suspended = FALSE /\ s.pended = 0 /\ s.yield = FALSE
  BY <1>1, CurrentIsHighest DEF Leaving
<1>3. /\ Sound(s') /\ ReadySet(s') = ReadySet(s) \ {t}
      /\ Sleeping(s') = Sleeping(s) /\ Asleep(s') = Asleep(s)
      /\ SameRest(s, s')
  BY <1>1, <1>2, RemoveSound
<1>4. /\ s'.prio = s.prio /\ s'.current = t /\ s'.blocked = s.blocked /\ s'.tick = s.tick
      /\ s'.suspended = FALSE /\ s'.pended = 0 /\ s'.yield = FALSE
  BY <1>1, <1>2, <1>3 DEF SameRest
<1>5. pc'[t] = "deleted" /\ \A u \in Tasks \ {t} : pc'[u] = pc[u]
  BY <1>1, MovesOne DEF MutexInv
<1>6. Present' = Present \ {t}
  BY <1>5 DEF Present
<1>7. Ended' = Ended \cup {t}
  BY <1>5 DEF Ended
<1>8. s.blocked \subseteq Tasks /\ Asleep(s) \subseteq Tasks
  BY <1>2, SleepersAre DEF Sound, Scheduler
<1>9. waiters' = waiters /\ wakeTime' = wakeTime
      /\ uxMessagesWaiting' = uxMessagesWaiting /\ xMutexHolder' = xMutexHolder
  BY <1>1
<1>10. Waiters' /\ Lent'
  BY <1>4, <1>9 DEF IInv, Waiters, Lent
<1>11. Located'
  <2>1. /\ Idle \in ReadySet(s) /\ Apart(ReadySet(s), s.blocked) /\ Apart(Asleep(s), s.blocked)
        /\ ReadySet(s) \cup Asleep(s) \cup s.blocked = {Idle} \cup Present
        /\ Distinct(terminated) /\ Range(terminated) = Ended
        /\ terminated \in Seq(Tasks)
    BY DEF IInv, Located, MutexInv, TypeOK
  <2>2. t \notin Range(terminated)
    BY <1>1, <2>1 DEF Ended
  <2>3. Distinct(terminated') /\ Range(terminated') = Ended'
    BY <1>1, <1>7, <2>1, <2>2, AppendDistinct
  <2>4. \A u \in s.blocked : pc'[u] \in {"listed", "parked", "take"}
    BY <1>2, <1>5, <1>8 DEF IInv, Located
  <2>5. \A u \in Asleep(s) : pc'[u] \in {"asleep", "delayed", "run"}
    BY <1>2, <1>5, <1>8 DEF IInv, Located
  <2>6. Idle # t
    BY NamesAssumption
  <2>7. Idle \in ReadySet(s') /\ Apart(ReadySet(s'), s'.blocked) /\ Apart(Asleep(s'), s'.blocked)
    BY <1>3, <1>4, <2>1, <2>6 DEF Apart
  <2>8. ReadySet(s') \cup Asleep(s') \cup s'.blocked = {Idle} \cup Present'
    BY <1>2, <1>3, <1>4, <1>6, <2>1, <2>6
  <2> QED BY <1>3, <1>4, <2>3, <2>4, <2>5, <2>7, <2>8 DEF Located, Distinct
<1>12. Running'
  BY <1>4, <1>5 DEF Running
<1>13. Suspended'
  <2>1. \A u \in Tasks : pc[u] \notin {"listed", "retry", "asleep"}
    BY <1>2 DEF IInv, Suspended
  <2> QED BY <1>4, <1>5, <2>1, PendedAssumption DEF Suspended
<1>14. Wakened'
  <2> SUFFICES ASSUME uxMessagesWaiting > 0, s.blocked # {} PROVE Wakened'
    BY <1>4, <1>9 DEF Wakened
  <2>1. PICK u \in Users : /\ u \in ReadySet(s) /\ pc[u] \in Asking
                           /\ \A w \in s.blocked : BasePriority[u] >= BasePriority[w]
    BY DEF IInv, Wakened
  <2>2. u # t
    BY <1>1, <2>1 DEF Asking
  <2>3. u \in ReadySet(s') /\ pc'[u] \in Asking
    BY <1>3, <1>5, <2>1, <2>2, TasksAssumption
  <2> QED BY <1>4, <2>1, <2>3 DEF Wakened
<1> QED BY <1>3, <1>4, <1>9, <1>10, <1>11, <1>12, <1>13, <1>14 DEF IInv, Steady

-----------------------------------------------------------------------------
(* The invariant.                                                          *)

(* A finite set as a sequence.                                             *)
LEMMA SetToSeqIs ==
  ASSUME NEW S, IsFiniteSet(S)
  PROVE  LET q == SetToSeq(S)
         IN q \in Seq(S) /\ Distinct(q) /\ Range(q) = S
<1> DEFINE n == Cardinality(S)
           q == SetToSeq(S)
<1>1. n \in Nat /\ ExistsBijection(1 .. n, S)
  BY FS_CardinalityType
<1>2. \E f : f \in [1 .. n -> S] /\ IsInjective(f)
  BY <1>1 DEF ExistsBijection, Bijection, Injection
<1>3. q \in [1 .. n -> S] /\ IsInjective(q)
  BY <1>2, Zenon DEF SetToSeq
<1> HIDE DEF q
<1>4. q \in Seq(S) /\ Len(q) = n
  <2> HIDE DEF n
  <2>1. DOMAIN q = 1 .. n
    BY <1>3
  <2> QED BY <1>1, <1>3, <2>1
<1>5. Distinct(q)
  BY <1>3, <1>4 DEF IsInjective, Distinct
<1>6. \A x \in S : \E i \in 1 .. n : q[i] = x
  <2>1. q \in Injection(1 .. n, S)
    BY <1>3 DEF Injection
  <2>2. Cardinality(1 .. n) = n
    <3>1. Cardinality(1 .. n) = IF 1 > n THEN 0 ELSE n - 1 + 1
      BY <1>1, FS_Interval
    <3> QED BY <1>1, <3>1
  <2>3. q \in Surjection(1 .. n, S)
    BY <2>1, <2>2, FS_Injection
  <2> QED BY <2>3 DEF Surjection
<1>7. Range(q) = S
  BY <1>3, <1>4, <1>6, RangeIs
<1> QED BY <1>4, <1>5, <1>7 DEF q

(* The ready lists when the scheduler starts.                              *)
LEMMA ReadyAtStartIs ==
  ASSUME NEW p \in Priorities
  PROVE  Ring(ReadyAtStart(p), {t \in Main \cup {Idle} : BasePriority[t] = p})
<1> DEFINE S == {t \in Main \cup {Idle} : BasePriority[t] = p}
           q == SetToSeq(S)
<1>1. IsFiniteSet(S)
  <2>1. IsFiniteSet(AllTasks)
    BY TasksAssumption, FS_AddElement DEF AllTasks
  <2>2. S \in SUBSET AllTasks
    BY TasksAssumption DEF AllTasks
  <2> QED BY <2>1, <2>2, FS_Subset
<1>2. S \subseteq AllTasks /\ END \notin S
  BY TasksAssumption, NamesAssumption DEF AllTasks
<1>3. ReadyAtStart(p) = Append(q, END)
  BY DEF ReadyAtStart
<1> HIDE DEF S
<1>4. q \in Seq(S) /\ Distinct(q) /\ Range(q) = S
  BY <1>1, SetToSeqIs
<1> HIDE DEF q
<1>5. q \in Seq(AllTasks \cup {END})
  BY <1>2, <1>4
<1>6. /\ Append(q, END) \in Seq(AllTasks \cup {END})
      /\ Distinct(Append(q, END))
      /\ Range(Append(q, END)) = Range(q) \cup {END}
  BY <1>2, <1>4, <1>5, AppendDistinct
<1> QED BY <1>3, <1>4, <1>6 DEF Ring, S

(* The initial states.                                                     *)
LEMMA InitSound == Init => IInv
<1> SUFFICES ASSUME Init PROVE IInv
  OBVIOUS
<1> DEFINE R == Main \cup {Idle}
<1>1. PICK c \in Main :
        /\ \A u \in Main : BasePriority[u] <= BasePriority[c]
        /\ s = [ready      |-> [p \in Priorities |-> ReadyAtStart(p)],
                top        |-> {BasePriority[u] : u \in Main \cup {Idle}},
                prio       |-> BasePriority,
                current    |-> c,
                delayed    |-> <<>>,
                overflow   |-> <<>>,
                blocked    |-> {},
                tick       |-> 0,
                next       |-> MAX_DELAY,
                suspended  |-> FALSE,
                pended     |-> 0,
                yield      |-> FALSE]
  BY DEF Init
<1>2. /\ s.ready = [p \in Priorities |-> ReadyAtStart(p)]
      /\ s.top = {BasePriority[u] : u \in R}
      /\ s.prio = BasePriority /\ s.current = c
      /\ s.delayed = <<>> /\ s.overflow = <<>> /\ s.blocked = {}
      /\ s.tick = 0 /\ s.next = MAX_DELAY
      /\ s.suspended = FALSE /\ s.pended = 0 /\ s.yield = FALSE
  BY <1>1
<1>3. /\ waiters = <<>> /\ terminated = <<>> /\ uxMessagesWaiting = 1 /\ xMutexHolder = NULL
      /\ pc = [t \in Tasks |-> IF t \in Main THEN "run" ELSE "none"]
      /\ wakeTime = [t \in Tasks |-> 0]
  BY DEF Init
<1>4. R \in SUBSET AllTasks /\ c \in AllTasks /\ c \in R
  BY TasksAssumption DEF AllTasks
<1>5. BasePriority \in [AllTasks -> Priorities] /\ Priorities \in SUBSET Nat
  BY PriorityAssumption, PrioritiesAre
<1> HIDE DEF R
<1>6. \A p \in Priorities : Ring(s.ready[p], {t \in R : BasePriority[t] = p})
  BY <1>2, ReadyAtStartIs DEF R
<1>7. s \in Scheduler
  <2>1. s.ready \in [Priorities -> Seq(AllTasks \cup {END})]
    BY <1>2, ReadyAtStartIs DEF Ring
  <2>2. s.top \in SUBSET Priorities
    BY <1>2, <1>4, <1>5
  <2>3. /\ s.prio \in [AllTasks -> Priorities] /\ s.current \in AllTasks
        /\ s.delayed \in Seq(Items) /\ s.overflow \in Seq(Items) /\ s.blocked \in SUBSET Tasks
        /\ s.tick \in Clock /\ s.next \in Clock
        /\ s.suspended \in BOOLEAN /\ s.pended \in Nat /\ s.yield \in BOOLEAN
    <3>1. s.prio \in [AllTasks -> Priorities] /\ s.current \in AllTasks
      BY <1>2, <1>4, <1>5
    <3>2. s.delayed \in Seq(Items) /\ s.overflow \in Seq(Items) /\ s.blocked \in SUBSET Tasks
      BY <1>2
    <3>3. /\ s.tick \in Clock /\ s.next \in Clock
          /\ s.suspended \in BOOLEAN /\ s.pended \in Nat /\ s.yield \in BOOLEAN
      BY <1>2, ClockIs
    <3> QED BY <3>1, <3>2, <3>3
  <2>4. s = [ready |-> s.ready, top |-> s.top, prio |-> s.prio, current |-> s.current,
             delayed |-> s.delayed, overflow |-> s.overflow, blocked |-> s.blocked,
             tick |-> s.tick, next |-> s.next, suspended |-> s.suspended,
             pended |-> s.pended, yield |-> s.yield]
    BY <1>1
  <2> QED BY <2>1, <2>2, <2>3, <2>4, Zenon DEF Scheduler
<1>8. Lists(s, R)
  BY <1>2, <1>6 DEF Lists
<1>9. Sleeping(s) = {} /\ Asleep(s) = {}
  BY <1>2, EmptyRange DEF Sleeping, Asleep
<1>10. Delayed(s)
  <2>1. Queue(<<>>)
    BY DEF Queue, Distinct
  <2> QED BY <1>2, <1>9, <2>1, EmptyRange DEF Delayed, OneEach, Timely
<1>11. Sound(s) /\ ReadySet(s) = R
  BY <1>4, <1>7, <1>8, <1>9, <1>10, SoundFrom
<1>12. Waiters
  BY <1>2, <1>3, EmptyRange DEF Waiters, Distinct
<1>13. Located
  <2>1. Present = Main
    BY <1>3, TasksAssumption DEF Present
  <2>2. Ended = {}
    BY <1>3 DEF Ended
  <2>3. Distinct(terminated) /\ Range(terminated) = {}
    BY <1>3, EmptyRange DEF Distinct
  <2> QED BY <1>2, <1>9, <1>11, <2>1, <2>2, <2>3 DEF Located, Apart, R
<1>14. Running
  <2>1. \A t \in R : BasePriority[t] <= BasePriority[c]
    <3>1. BasePriority[Idle] = 0 /\ BasePriority[c] \in Nat
      BY <1>4, <1>5, PriorityAssumption
    <3> QED BY <1>1, <3>1 DEF R
  <2> QED BY <1>2, <1>4, <1>11, <2>1 DEF Running, Highest
<1>15. Suspended
  BY <1>2, <1>3, PendedAssumption DEF Suspended
<1>16. Lent /\ Wakened
  BY <1>2, <1>3 DEF Lent, Wakened
<1>17. wakeTime \in [Tasks -> Clock]
  BY <1>3, ClockIs
<1> QED BY <1>11, <1>12, <1>13, <1>14, <1>15, <1>16, <1>17 DEF IInv

(* What a step does to the clock and to the sleepers.                      *)
Kept == Steady(s, s') \/ \E j \in Nat : Slept(s, s', j)

(* The scheduler is suspended for less than a turn of the clock.           *)
ShortPauses == MaxPended < WRAP

(* After no ticks everybody sleeps on: no wake time is now.                *)
LEMMA SleptNone ==
  ASSUME NEW k, Sound(k)
  PROVE  /\ k.tick \in Clock /\ Ahead(k.tick, k.tick) = 0
         /\ \A e \in Sleeping(k) : Ahead(e.wake, k.tick) \in Nat /\ Ahead(e.wake, k.tick) > 0
         /\ Slept(k, k, 0)
<1>1. k.tick \in Clock
  BY DEF Sound, Scheduler
<1>2. Ahead(k.tick, k.tick) = 0
  <2> DEFINE c == k.tick
  <2>1. /\ c \in Nat /\ c < WRAP /\ WRAP \in Nat
        /\ Ahead(c, c) = IF c >= c THEN c - c ELSE c + WRAP - c
    BY <1>1, AheadIs, ClockIs
  <2> HIDE DEF c
  <2>2. Ahead(c, c) = 0
    BY <2>1
  <2> QED BY <2>2 DEF c
<1>3. ASSUME NEW e \in Sleeping(k) PROVE Ahead(e.wake, k.tick) \in Nat /\ Ahead(e.wake, k.tick) > 0
  <2>1. e.wake \in Clock
    BY SleepersAre, ItemWake DEF Sound
  <2>2. k.tick \in Nat /\ e.wake \in Nat
    BY <1>1, <2>1, ClockIs
  <2>3. e.wake # k.tick
    <3>1. e.wake > k.tick \/ e.wake < k.tick
      BY DEF Sound, Delayed, Timely, Sleeping
    <3> QED BY <2>2, <3>1
  <2> DEFINE w == e.wake
             c == k.tick
  <2>4. /\ w \in Nat /\ c \in Nat /\ w < WRAP /\ c < WRAP /\ w # c /\ WRAP \in Nat
        /\ Ahead(w, c) = IF w >= c THEN w - c ELSE w + WRAP - c
    BY <1>1, <2>1, <2>3, AheadIs, ClockIs
  <2> HIDE DEF w, c
  <2>5. Ahead(w, c) \in Nat /\ Ahead(w, c) > 0
    BY <2>4
  <2> QED BY <2>5 DEF w, c
<1>4. Slept(k, k, 0)
  BY <1>1, <1>2, <1>3 DEF Slept
<1> QED BY <1>1, <1>2, <1>3, <1>4

(* A step that leaves the clock and the sleepers alone.                    *)
LEMMA SteadyFrom ==
  ASSUME s'.tick = s.tick, Sleeping(s') = Sleeping(s)
  PROVE  Kept
BY DEF Kept, Steady

(* A step that catches up with ticks.                                      *)
LEMMA ResumeKept ==
  ASSUME IInv, GoesOn(s, s'), ShortPauses
  PROVE  Kept
<1>1. s.pended \in Nat /\ s.pended < WRAP
  BY ClockIs, PendedAssumption DEF IInv, Suspended, Sound, Scheduler, ShortPauses
<1>2. Slept(s, s', s.pended)
  BY <1>1 DEF GoesOn, Slept
<1> QED BY <1>1, <1>2 DEF Kept

(* The steps of a task.                                                    *)
LEMMA StepSound ==
  ASSUME MutexInv, IInv, NEW t \in Tasks, Step(t)
  PROVE  IInv' /\ (ShortPauses => Kept)
<1> USE DEF Kept
<1>0. ASSUME s' = s PROVE Kept
  BY <1>0 DEF Steady
<1>1. CASE CallTake(t)
  BY <1>0, <1>1, CallTakeSound DEF CallTake
<1>2. CASE TryTake(t)
  BY <1>0, <1>2, TakeSound DEF TryTake
<1>3. CASE BlockOnTake(t)
  BY <1>3, BlockSound, LookAgainSound
<1>4. CASE RetryTake(t)
  BY <1>4, RetrySound, ResumeKept
<1>5. CASE ResumeBlocked(t, "listed", "parked", "take")
  <2>1. /\ "parked" \in Labels /\ "take" \in Labels
        /\ <<"listed", "parked">> \in Moves /\ <<"listed", "take">> \in Moves
    BY DEF Labels, Asking, Moves
  <2> QED BY <1>5, <2>1, ResumeSound, ResumeKept
<1>6. CASE ResumeBlocked(t, "asleep", "delayed", "run")
  <2>1. /\ "delayed" \in Labels /\ "run" \in Labels
        /\ <<"asleep", "delayed">> \in Moves /\ <<"asleep", "run">> \in Moves
    BY DEF Labels, Asking, Moves
  <2> QED BY <1>6, <2>1, ResumeSound, ResumeKept
<1>7. CASE Yield(t, "parked", "take")
  <2>1. "take" \in Labels /\ <<"parked", "take">> \in Moves
    BY DEF Labels, Asking, Moves
  <2> QED BY <1>7, <2>1, YieldSound, SteadyFrom
<1>8. CASE Yield(t, "delayed", "run")
  <2>1. "run" \in Labels /\ <<"delayed", "run">> \in Moves
    BY DEF Labels, Asking, Moves
  <2> QED BY <1>8, <2>1, YieldSound, SteadyFrom
<1>9. CASE Yield(t, "deleted", "gone")
  <2>1. "gone" \in Labels /\ <<"deleted", "gone">> \in Moves
    BY DEF Labels, Asking, Moves
  <2> QED BY <1>9, <2>1, YieldSound, SteadyFrom
<1>10. CASE Give(t)
  BY <1>10, GiveSound
<1>11. CASE vTaskDelay(t)
  BY <1>11, DelayInvariant
<1>12. CASE xTaskDelayUntil(t)
  BY <1>12, DelayUntilInvariant
<1>13. ASSUME NEW u \in Tasks, xTaskCreate(t, u) PROVE IInv' /\ Kept
  BY <1>13, CreateSound
<1>14. CASE StartPeriod(t)
  BY <1>0, <1>14, StartSound DEF StartPeriod
<1>15. CASE vTaskDelete(t)
  BY <1>15, DeleteSound
<1> QED
  BY <1>1, <1>2, <1>3, <1>4, <1>5, <1>6, <1>7, <1>8, <1>9, <1>10, <1>11, <1>12, <1>13, <1>14,
     <1>15 DEF Step

(* All steps.                                                              *)
LEMMA NextSound ==
  ASSUME MutexInv, IInv, [Next]_vars
  PROVE  IInv' /\ (ShortPauses => Kept)
<1>1. CASE UNCHANGED vars
  <2>1. /\ s' = s /\ waiters' = waiters /\ terminated' = terminated /\ wakeTime' = wakeTime
        /\ pc' = pc /\ uxMessagesWaiting' = uxMessagesWaiting /\ xMutexHolder' = xMutexHolder
    BY <1>1 DEF vars, mutexVars
  <2>2. Present' = Present /\ Ended' = Ended
    BY <2>1 DEF Present, Ended
  <2>3. Sound(s)' /\ Waiters' /\ Running' /\ Suspended' /\ Lent' /\ Wakened' /\ wakeTime' \in [Tasks -> Clock]
    BY <2>1 DEF IInv, Waiters, Running, Suspended, Lent, Wakened
  <2>4. Located'
    BY <2>1, <2>2 DEF IInv, Located, Distinct
  <2>5. Kept
    BY <2>1 DEF Kept, Steady
  <2> QED BY <2>3, <2>4, <2>5 DEF IInv
<1>2. CASE TickInterrupt
  <2>1. /\ IInv'
        /\ \/ s'.tick = s.tick /\ Sleeping(s') = Sleeping(s)
           \/ /\ s'.tick = (s.tick + 1) % WRAP
              /\ Sleeping(s') = Sleeping(s) \ DueAt(s, (s.tick + 1) % WRAP)
              /\ Onward(s, s')
    BY <1>2, TickInvariant
  <2>2. CASE s'.tick = s.tick /\ Sleeping(s') = Sleeping(s)
    BY <2>1, <2>2, SteadyFrom
  <2>3. CASE /\ s'.tick = (s.tick + 1) % WRAP
             /\ Sleeping(s') = Sleeping(s) \ DueAt(s, (s.tick + 1) % WRAP)
    <3>1. Sound(s)
      BY DEF IInv
    <3>2. Slept(s, s, 0)
      BY <3>1, SleptNone
    <3>3. 0 + 1 < WRAP /\ 0 \in Nat
      BY ClockIs
    <3>4. Slept(s, s', 0 + 1)
      BY <2>3, <3>1, <3>2, <3>3, SleptOn
    <3>5. 0 + 1 \in Nat
      OBVIOUS
    <3> QED BY <2>1, <3>4, <3>5 DEF Kept
  <2> QED BY <2>1, <2>2, <2>3
<1>3. CASE IdleFrees
  <2>1. s' = s
    BY <1>3 DEF IdleFrees
  <2>2. Kept
    BY <2>1 DEF Kept, Steady
  <2> QED BY <1>3, <2>2, IdleSound
<1>4. CASE \E t \in Tasks : Step(t)
  BY <1>4, StepSound
<1> QED BY <1>1, <1>2, <1>3, <1>4 DEF Next

(* The scheduler, the event list, the mutex and the places of the tasks    *)
(* agree in every reachable state: for any number of tasks, of any         *)
(* priorities, delays and periods, on a clock of any width.                *)
THEOREM KernelInvariant == Spec => []IInv
<1>1. MutexInv /\ IInv /\ [Next]_vars => IInv'
  BY NextSound
<1> QED BY InitSound, <1>1, MutexInvariant, PTL DEF Spec

-----------------------------------------------------------------------------
(* What follows from the invariant.                                        *)

(* A set with one member.                                                  *)
LEMMA OneOf ==
  ASSUME NEW S, NEW x \in S, \A y \in S : y = x
  PROVE  Cardinality(S) = 1
<1>1. S = {x}
  OBVIOUS
<1> QED BY <1>1, FS_Singleton

(* A set with none.                                                        *)
LEMMA NoneOf ==
  ASSUME NEW S, \A y \in S : FALSE
  PROVE  Cardinality(S) = 0
<1>1. S = {}
  OBVIOUS
<1> QED BY <1>1, FS_EmptySet

(* A list with the item x once.                                            *)
LEMMA OnceInQueue ==
  ASSUME NEW q, Queue(q), OneEach(Range(q)), NEW t
  PROVE  Cardinality({i \in DOMAIN q : q[i].task = t}) =
           IF \E e \in Range(q) : e.task = t THEN 1 ELSE 0
<1>1. q \in Seq(Items) /\ Distinct(q) /\ DOMAIN q = 1 .. Len(q)
  BY DEF Queue
<1> DEFINE S == {i \in DOMAIN q : q[i].task = t}
<1>2. CASE \E e \in Range(q) : e.task = t
  <2>1. PICK i \in 1 .. Len(q) : q[i].task = t
    BY <1>1, <1>2, InRange
  <2>2. ASSUME NEW j \in S PROVE j = i
    <3>1. j \in 1 .. Len(q) /\ q[j].task = t
      BY <1>1
    <3>2. q[j] = q[i]
      BY <1>1, <2>1, <3>1, InRange DEF OneEach
    <3> QED BY <1>1, <3>1, <3>2 DEF Distinct
  <2>3. i \in S
    BY <1>1, <2>1
  <2> HIDE DEF S
  <2>4. Cardinality(S) = 1
    BY <2>2, <2>3, OneOf
  <2> QED BY <1>2, <2>4 DEF S
<1>3. CASE ~\E e \in Range(q) : e.task = t
  <2>1. \A j \in S : FALSE
    BY <1>1, <1>3, InRange
  <2> HIDE DEF S
  <2>2. Cardinality(S) = 0
    BY <2>1, NoneOf
  <2> QED BY <1>3, <2>2 DEF S
<1> QED BY <1>2, <1>3

(* A list that has an item at most once.                                   *)
LEMMA OnceInList ==
  ASSUME NEW S, NEW q \in Seq(S), Distinct(q), NEW t
  PROVE  Cardinality({i \in DOMAIN q : q[i] = t}) = IF t \in Range(q) THEN 1 ELSE 0
<1> DEFINE I == {i \in DOMAIN q : q[i] = t}
<1>1. DOMAIN q = 1 .. Len(q)
  OBVIOUS
<1>2. CASE t \in Range(q)
  <2>1. PICK i \in 1 .. Len(q) : t = q[i]
    BY <1>2, InRange
  <2>2. i \in I /\ \A j \in I : j = i
    BY <1>1, <2>1 DEF Distinct
  <2> HIDE DEF I
  <2>3. Cardinality(I) = 1
    BY <2>2, OneOf
  <2> QED BY <1>2, <2>3 DEF I
<1>3. CASE t \notin Range(q)
  <2>1. \A j \in I : FALSE
    BY <1>1, <1>3, InRange
  <2> HIDE DEF I
  <2>2. Cardinality(I) = 0
    BY <2>1, NoneOf
  <2> QED BY <1>3, <2>2 DEF I
<1> QED BY <1>2, <1>3

(* The ready tasks of a priority.                                          *)
LEMMA ReadyTasksAre ==
  ASSUME Sound(s), NEW p \in Priorities
  PROVE  ReadyTasks(p) = {t \in ReadySet(s) : s.prio[t] = p}
<1>1. Range(s.ready[p]) = {t \in ReadySet(s) : s.prio[t] = p} \cup {END}
  BY DEF Sound, Lists, Ring
<1>2. END \notin ReadySet(s)
  BY ReadyAre, NamesAssumption
<1> QED BY <1>1, <1>2 DEF ReadyTasks

(* The priorities of the ready tasks, and the bitmap.                      *)
LEMMA PrioOfReady ==
  ASSUME Sound(s)
  PROVE  /\ \A t \in ReadySet(s) : t \in AllTasks /\ s.prio[t] \in Priorities /\ s.prio[t] \in Nat
         /\ s.top = {s.prio[t] : t \in ReadySet(s)}
BY ReadyAre, PrioritiesAre DEF Sound, Scheduler, Lists

(* A task is in one ready list or in none.                                 *)
LEMMA InOneReadyList ==
  ASSUME Sound(s), NEW t
  PROVE  Cardinality({p \in Priorities : t \in ReadyTasks(p)}) =
           IF t \in ReadySet(s) THEN 1 ELSE 0
<1> DEFINE P == {p \in Priorities : t \in ReadyTasks(p)}
<1>1. \A p \in P : t \in ReadySet(s) /\ p = s.prio[t]
  BY ReadyTasksAre
<1>2. t \in ReadySet(s) => s.prio[t] \in P
  BY ReadyTasksAre, PrioOfReady
<1> HIDE DEF P
<1>3. CASE t \in ReadySet(s)
  <2>1. Cardinality(P) = 1
    BY <1>1, <1>2, <1>3, OneOf
  <2> QED BY <1>3, <2>1 DEF P
<1>4. CASE t \notin ReadySet(s)
  <2>1. Cardinality(P) = 0
    BY <1>1, <1>4, NoneOf
  <2> QED BY <1>4, <2>1 DEF P
<1> QED BY <1>3, <1>4

(* A task that exists is in one of the lists of states, and in one only.   *)
LEMMA OneListEach ==
  ASSUME MutexInv, IInv, NEW t \in Created \cup {Idle}
  PROVE  ListsWith(t) = 1
<1>1. Sound(s) /\ Delayed(s)
  BY DEF IInv, Sound
<1> DEFINE d == \E e \in Range(s.delayed) : e.task = t
           o == \E e \in Range(s.overflow) : e.task = t
<1>2. /\ Cardinality({p \in Priorities : t \in ReadyTasks(p)}) =
           (IF t \in ReadySet(s) THEN 1 ELSE 0)
      /\ Cardinality({i \in DOMAIN s.delayed : s.delayed[i].task = t}) = (IF d THEN 1 ELSE 0)
      /\ Cardinality({i \in DOMAIN s.overflow : s.overflow[i].task = t}) = (IF o THEN 1 ELSE 0)
      /\ Cardinality({i \in DOMAIN terminated : terminated[i] = t}) =
           (IF t \in Range(terminated) THEN 1 ELSE 0)
  <2>1. Queue(s.delayed) /\ Queue(s.overflow) /\ OneEach(Range(s.delayed)) /\ OneEach(Range(s.overflow))
    BY <1>1 DEF Delayed, OneEach, Sleeping
  <2>2. terminated \in Seq(Tasks) /\ Distinct(terminated)
    BY DEF MutexInv, TypeOK, IInv, Located
  <2>3. Cardinality({p \in Priorities : t \in ReadyTasks(p)}) =
           (IF t \in ReadySet(s) THEN 1 ELSE 0)
    BY <1>1, InOneReadyList
  <2>4. Cardinality({i \in DOMAIN s.delayed : s.delayed[i].task = t}) = (IF d THEN 1 ELSE 0)
    BY <2>1, OnceInQueue
  <2>5. Cardinality({i \in DOMAIN s.overflow : s.overflow[i].task = t}) = (IF o THEN 1 ELSE 0)
    BY <2>1, OnceInQueue
  <2>6. Cardinality({i \in DOMAIN terminated : terminated[i] = t}) =
           (IF t \in Range(terminated) THEN 1 ELSE 0)
    BY <2>2, OnceInList
  <2> QED BY <2>3, <2>4, <2>5, <2>6
<1>3. t \in Asleep(s) <=> d \/ o
  BY DEF Asleep
<1>4. ~(d /\ o)
  <2> SUFFICES ASSUME NEW e \in Range(s.delayed), NEW f \in Range(s.overflow),
                      e.task = t, f.task = t
               PROVE  FALSE
    OBVIOUS
  <2>1. e = f
    BY <1>1 DEF Delayed, OneEach, Sleeping
  <2>2. e.wake > s.tick /\ f.wake < s.tick
    BY <1>1 DEF Delayed, Timely
  <2>3. e.wake \in Nat /\ s.tick \in Nat
    BY <1>1, SleepersAre, ItemWake, ClockIs DEF Sound, Scheduler
  <2> QED BY <2>1, <2>2, <2>3
<1> HIDE DEF d, o
<1>5. /\ t \in ReadySet(s) \cup Asleep(s) \cup s.blocked \cup Range(terminated)
      /\ ~(t \in ReadySet(s) /\ t \in Asleep(s))
      /\ ~(t \in ReadySet(s) /\ t \in s.blocked)
      /\ ~(t \in Asleep(s) /\ t \in s.blocked)
      /\ ~(t \in ReadySet(s) \cup Asleep(s) \cup s.blocked /\ t \in Range(terminated))
  <2>1. /\ ReadySet(s) \cup Asleep(s) \cup s.blocked = {Idle} \cup Present
        /\ Range(terminated) = Ended
        /\ Apart(ReadySet(s), s.blocked) /\ Apart(Asleep(s), s.blocked)
        /\ ReadySet(s) \cap Asleep(s) = {}
    BY <1>1 DEF IInv, Located, Sound
  <2>2. t \in {Idle} \cup Present \cup Ended
    BY DEF Created, Present, Ended
  <2>3. ~(t \in {Idle} \cup Present /\ t \in Ended)
    BY NamesAssumption DEF Present, Ended
  <2> QED BY <2>1, <2>2, <2>3 DEF Apart
<1>6. ListsWith(t) = (IF t \in ReadySet(s) THEN 1 ELSE 0) + (IF d THEN 1 ELSE 0)
                       + (IF o THEN 1 ELSE 0) + (IF t \in s.blocked THEN 1 ELSE 0)
                       + (IF t \in Range(terminated) THEN 1 ELSE 0)
  BY <1>2 DEF ListsWith
<1> QED BY <1>3, <1>4, <1>5, <1>6

(* Every task is in exactly one state list, the bitmap of the priorities   *)
(* in use is exact, and the lists of sleepers are in order, each on its    *)
(* side of the tick count: for any number of tasks, of any priorities      *)
(* (tasks.c, the ready lists, the delayed lists and uxTopReadyPriority).   *)
THEOREM EveryTaskInOneList == Spec => []ListsExact
<1>1. MutexInv /\ IInv => ListsExact
  <2> SUFFICES ASSUME MutexInv, IInv PROVE ListsExact
    OBVIOUS
  <2>1. Sound(s) /\ Delayed(s) /\ s \in Scheduler
    BY DEF IInv, Sound
  <2>2. \A t \in Created \cup {Idle} : ListsWith(t) = 1
    BY OneListEach
  <2>3. s.top = {p \in Priorities : ReadyTasks(p) # {}}
    <3>1. \A p \in s.top : p \in Priorities /\ ReadyTasks(p) # {}
      <4> SUFFICES ASSUME NEW p \in s.top PROVE p \in Priorities /\ ReadyTasks(p) # {}
        OBVIOUS
      <4>1. PICK t \in ReadySet(s) : p = s.prio[t]
        BY <2>1, PrioOfReady
      <4>2. p \in Priorities
        BY <2>1, <4>1, PrioOfReady
      <4>3. t \in ReadyTasks(p)
        BY <2>1, <4>1, <4>2, ReadyTasksAre
      <4> QED BY <4>2, <4>3
    <3>2. \A p \in Priorities : ReadyTasks(p) # {} => p \in s.top
      BY <2>1, ReadyTasksAre, PrioOfReady
    <3> QED BY <3>1, <3>2
  <2>4. ASSUME NEW q, Queue(q), NEW i \in 1 .. Len(q), NEW j \in 1 .. i
        PROVE  q[j].wake <= q[i].wake
    <3>1. q \in Seq(Items) /\ i \in Nat /\ j \in Nat /\ j \in 1 .. Len(q) /\ q[i] \in Items
      BY <2>4 DEF Queue
    <3>2. q[i].wake \in Nat
      BY <3>1, ItemWake
    <3>3. CASE j = i
      BY <3>2, <3>3
    <3>4. CASE j # i
      <4>1. j < i
        BY <3>1, <3>4
      <4> QED BY <2>4, <3>1, <4>1 DEF Queue
    <3> QED BY <3>3, <3>4
  <2>5. Queue(s.delayed) /\ Queue(s.overflow)
    BY <2>1 DEF Delayed
  <2>6. ASSUME NEW i \in 1 .. Len(s.delayed)
        PROVE  s.delayed[i].wake > s.tick /\ s.delayed[i].wake >= s.next
    <3>1. s.delayed \in Seq(Items)
      BY <2>5 DEF Queue
    <3>2. s.delayed[i] \in Range(s.delayed)
      BY <3>1, InRange
    <3> QED BY <2>1, <3>2 DEF Delayed, Timely
  <2>7. ASSUME NEW i \in 1 .. Len(s.overflow)
        PROVE  s.overflow[i].wake < s.tick
    <3>1. s.overflow \in Seq(Items)
      BY <2>5 DEF Queue
    <3>2. s.overflow[i] \in Range(s.overflow)
      BY <3>1, InRange
    <3> QED BY <2>1, <3>2 DEF Delayed, Timely
  <2>8. Range(waiters) = s.blocked
    BY DEF IInv, Waiters
  <2>9. /\ \A i \in 1 .. Len(s.delayed) : \A j \in 1 .. i : s.delayed[j].wake <= s.delayed[i].wake
        /\ \A i \in 1 .. Len(s.overflow) : \A j \in 1 .. i : s.overflow[j].wake <= s.overflow[i].wake
    BY <2>4, <2>5
  <2> QED BY <2>2, <2>3, <2>6, <2>7, <2>8, <2>9 DEF ListsExact
<1> QED BY <1>1, KernelInvariant, MutexInvariant, PTL

(* Whatever the tasks and their priorities, the running task is ready and  *)
(* no ready task comes before it, unless it is on its way to a switch.     *)
THEOREM HighestTaskRuns == Spec => []HighestRuns
<1>1. IInv => HighestRuns
  <2> SUFFICES ASSUME IInv, Settled PROVE s.current \in ReadyTasks(Max(s.top))
    BY DEF HighestRuns
  <2> DEFINE c == s.current
             m == Max(s.top)
  <2>1. Sound(s)
    BY DEF IInv
  <2>2. c \in ReadySet(s) /\ \A t \in ReadySet(s) : s.prio[t] <= s.prio[c]
    <3>1. Highest(s, ReadySet(s))
      BY NamesAssumption DEF IInv, Running, Settled, Suspended
    <3> QED BY <3>1 DEF Highest
  <2>3. s.prio[c] \in s.top /\ s.prio[c] \in Nat /\ s.top \in SUBSET Priorities /\ s.top # {}
    BY <2>1, <2>2, PrioOfReady
  <2>4. m \in s.top /\ \A p \in s.top : p <= m
    BY <2>3, TopOf
  <2>5. PICK t \in ReadySet(s) : m = s.prio[t]
    BY <2>1, <2>4, PrioOfReady
  <2> HIDE DEF m, c
  <2>6. m = s.prio[c] /\ m \in Priorities
    <3>1. m \in Nat /\ s.prio[c] \in Nat /\ m <= s.prio[c] /\ s.prio[c] <= m
      BY <2>1, <2>2, <2>3, <2>4, <2>5, PrioOfReady
    <3> QED BY <3>1, <2>3, <2>4
  <2>7. c \in ReadyTasks(m)
    BY <2>1, <2>2, <2>6, ReadyTasksAre
  <2> QED BY <2>7 DEF c, m
<1> QED BY <1>1, KernelInvariant, PTL

(* The priority of the holder is exactly that of the first of those it     *)
(* keeps waiting, or its own, and everybody else has his own: for any      *)
(* number of tasks, and however they come and go                           *)
(* (xTaskPriorityInherit, xTaskPriorityDisinherit).                        *)
THEOREM HolderIsLent == Spec => []PriorityIsLent
<1>1. MutexInv /\ IInv => PriorityIsLent
  <2> SUFFICES ASSUME MutexInv, IInv, NEW t \in Tasks
               PROVE  s.prio[t] = Max({BasePriority[t]} \cup
                        IF t = xMutexHolder THEN {BasePriority[w] : w \in Range(waiters)} ELSE {})
    BY DEF PriorityIsLent
  <2> DEFINE L == IF t = xMutexHolder THEN {BasePriority[w] : w \in Range(waiters)} ELSE {}
             S == {BasePriority[t]} \cup L
  <2>1. Range(waiters) = s.blocked /\ s.blocked \subseteq AllTasks /\ t \in AllTasks
    BY DEF IInv, Waiters, Sound, Scheduler, AllTasks
  <2>2. S \in SUBSET Priorities /\ S # {}
    BY <2>1, PrioritiesAre
  <2>3. s.prio[t] \in S /\ \A p \in S : p <= s.prio[t]
    <3>0. BasePriority[t] \in Nat
      BY <2>1, PrioritiesAre
    <3>1. CASE t = xMutexHolder
      <4>1. /\ s.prio[t] >= BasePriority[t]
            /\ \A w \in s.blocked : s.prio[t] >= BasePriority[w]
            /\ s.prio[t] = BasePriority[t] \/ \E w \in s.blocked : s.prio[t] = BasePriority[w]
        BY <2>1, <3>1, NamesAssumption DEF IInv, Lent
      <4>2. s.prio[t] \in Nat /\ \A w \in s.blocked : BasePriority[w] \in Nat
        BY <2>1, PrioritiesAre DEF IInv, Sound, Scheduler
      <4> QED BY <2>1, <3>0, <3>1, <4>1, <4>2
    <3>2. CASE t # xMutexHolder
      <4>1. s.prio[t] = BasePriority[t]
        BY <2>1, <3>2 DEF IInv, Lent
      <4>2. S = {BasePriority[t]}
        BY <3>2
      <4> QED BY <3>0, <4>1, <4>2
    <3> QED BY <3>1, <3>2
  <2> HIDE DEF S
  <2>4. Max(S) \in S /\ \A p \in S : p <= Max(S)
    BY <2>2, TopOf
  <2>5. s.prio[t] \in Nat /\ Max(S) \in Nat /\ s.prio[t] <= Max(S) /\ Max(S) <= s.prio[t]
    BY <2>2, <2>3, <2>4, PrioritiesAre
  <2>6. s.prio[t] = Max(S)
    <3> DEFINE m == Max(S)
    <3> HIDE DEF m
    <3>1. s.prio[t] \in Nat /\ m \in Nat /\ s.prio[t] <= m /\ m <= s.prio[t]
      BY <2>5 DEF m
    <3>2. s.prio[t] = m
      BY <3>1
    <3> QED BY <3>2 DEF m
  <2> QED BY <2>6 DEF S
<1> QED BY <1>1, KernelInvariant, MutexInvariant, PTL

(* While the mutex is free and tasks wait, one that need not come behind   *)
(* them is on its way to it (xQueueGenericSend).                           *)
THEOREM WaitersAreMinded == Spec => []NobodyForgotten
<1>1. MutexInv /\ IInv => NobodyForgotten
  <2> SUFFICES ASSUME MutexInv, IInv, uxMessagesWaiting > 0, waiters # <<>>
               PROVE  \E t \in Users : /\ IsReady(s, t)
                                       /\ pc[t] \in {"take", "wait", "retry", "listed", "parked"}
                                       /\ \A w \in Range(waiters) : s.prio[t] >= s.prio[w]
    BY DEF NobodyForgotten
  <2>1. s.blocked # {} /\ Range(waiters) = s.blocked /\ s.blocked \subseteq AllTasks
    BY HeadWaits DEF IInv, Waiters, Sound, Scheduler, AllTasks
  <2>2. PICK t \in Users : /\ t \in ReadySet(s) /\ pc[t] \in Asking
                           /\ \A w \in s.blocked : BasePriority[t] >= BasePriority[w]
    BY <2>1 DEF IInv, Wakened
  <2>3. xMutexHolder = NULL
    BY DEF MutexInv, TypeOK, HolderIsInside
  <2>4. \A u \in AllTasks : s.prio[u] = BasePriority[u]
    BY <2>3, NamesAssumption DEF IInv, Lent
  <2>5. IsReady(s, t) /\ t \in AllTasks
    BY <2>2 DEF ReadySet
  <2> QED BY <2>1, <2>2, <2>4, <2>5 DEF Asking
<1> QED BY <1>1, KernelInvariant, MutexInvariant, PTL

(* The wake time of a sleeper.                                             *)
LEMMA WakeOfIs ==
  ASSUME NEW k, Sound(k), NEW e \in Sleeping(k)
  PROVE  WakeOf(k, e.task) = e.wake
<1> DEFINE f == CHOOSE f \in Sleeping(k) : f.task = e.task
<1>1. f \in Sleeping(k) /\ f.task = e.task
  OBVIOUS
<1>2. f = e
  BY <1>1 DEF Sound, Delayed, OneEach
<1> QED BY <1>2 DEF WakeOf, Sleeping

(* A sleeper is woken by the tick it asked for: of any delay, on a clock   *)
(* of any width, and however many ticks are caught up with at once, as     *)
(* long as they are fewer than a turn of the clock.                        *)
THEOREM SleepersWakeOnTime ==
  ASSUME ShortPauses
  PROVE  Spec => WakesOnTime
<1> DEFINE OnTime == \A t \in Asleep(s) :
                       LET passed == (s'.tick + WRAP - s.tick) % WRAP
                           left   == (WakeOf(s, t) + WRAP - s.tick) % WRAP
                       IN t \notin Asleep(s') <=> passed >= left
<1>1. MutexInv /\ IInv /\ [Next]_vars => OnTime
  <2> SUFFICES ASSUME MutexInv, IInv, [Next]_vars, NEW t \in Asleep(s)
               PROVE  t \notin Asleep(s') <=> Ahead(s'.tick, s.tick) >= Ahead(WakeOf(s, t), s.tick)
    BY DEF Ahead
  <2>1. Kept /\ Sound(s)
    BY NextSound DEF IInv
  <2>2. PICK e \in Sleeping(s) : e.task = t
    BY AsleepIs DEF TasksOf
  <2>3. WakeOf(s, t) = e.wake
    BY <2>1, <2>2, WakeOfIs
  <2>4. Ahead(e.wake, s.tick) \in Nat /\ Ahead(e.wake, s.tick) > 0 /\ Ahead(s.tick, s.tick) = 0
    BY <2>1, SleptNone
  <2>5. CASE Steady(s, s')
    <3>1. t \in Asleep(s') /\ s'.tick = s.tick
      BY <2>2, <2>5, AsleepIs DEF Steady, TasksOf
    <3> DEFINE a == Ahead(e.wake, s.tick)
               b == Ahead(s'.tick, s.tick)
    <3>2. a \in Nat /\ a > 0 /\ b = 0
      BY <2>4, <3>1
    <3> HIDE DEF a, b
    <3>3. ~(b >= a)
      BY <3>2
    <3> QED BY <2>3, <3>1, <3>3 DEF a, b
  <2>6. ASSUME NEW j \in Nat, Slept(s, s', j)
        PROVE  t \notin Asleep(s') <=> Ahead(s'.tick, s.tick) >= Ahead(WakeOf(s, t), s.tick)
    <3>1. /\ Ahead(s'.tick, s.tick) = j
          /\ Sleeping(s') = {f \in Sleeping(s) : Ahead(f.wake, s.tick) > j}
      BY <2>6 DEF Slept
    <3>2. t \in Asleep(s') <=> e \in Sleeping(s')
      <4>1. \A f \in Sleeping(s') : f.task = t => f = e
        BY <2>1, <2>2, <3>1 DEF Sound, Delayed, OneEach
      <4> QED BY <2>2, <4>1, AsleepIs DEF TasksOf
    <3>3. e \in Sleeping(s') <=> Ahead(e.wake, s.tick) > j
      BY <3>1
    <3> DEFINE a == Ahead(e.wake, s.tick)
    <3>4. a \in Nat /\ (t \in Asleep(s') <=> a > j)
      BY <2>4, <3>2, <3>3
    <3> HIDE DEF a
    <3>5. t \notin Asleep(s') <=> j >= a
      BY <3>4
    <3> QED BY <2>3, <3>1, <3>5 DEF a
  <2> QED BY <2>1, <2>5, <2>6 DEF Kept
<1>2. OnTime => [OnTime]_vars
  OBVIOUS
<1> HIDE DEF OnTime
<1>3. Spec => [][OnTime]_vars
  BY <1>1, KernelInvariant, MutexInvariant, PTL DEF Spec
<1> QED BY <1>3 DEF OnTime, WakesOnTime

=============================================================================
