-------------------------- MODULE HexaOledProofs ---------------------------
(***************************************************************************)
(* What HexaOled draws, for a screen of any size that has whole pages, any *)
(* font of its cells, any arguments, and any sequence of calls.            *)
(*                                                                         *)
(* A function's writes paint a figure if they reach the pixels of it that  *)
(* are on the screen, no others, and each of them once (Paints).  From     *)
(* that, the frame that fb_apply makes is the one with the figure painted, *)
(* in every colour.  So each function has a lemma that says what it        *)
(* paints, the simple ones first and the others made of them; lines and    *)
(* circles rest on what their errors mean after any number of turns.  The  *)
(* invariant is at the end, with the flush.                                *)
(***************************************************************************)
EXTENDS HexaOled, FiniteSetTheorems, WellFoundedInduction, TLAPS

Less == {p \in Nat \X Nat : p[1] < p[2]}

(* A set of natural numbers has a least member.                            *)
LEMMA Least ==
  ASSUME NEW S \in SUBSET Nat, S # {}
  PROVE  \E n \in S : \A m \in S : n <= m
<1>1. IsWellFoundedOn(Less, Nat)
  BY NatLessThanWellFounded DEF OpToRel, Less
<1>2. \E x \in S : \A y \in S : ~ (<<y, x>> \in Less)
  BY <1>1, WFMin
<1>3. PICK n \in S : \A m \in S : <<m, n>> \notin Less
  BY <1>2
<1>4. ASSUME NEW m \in S PROVE n <= m
  <2>1. m \in Nat /\ n \in Nat
    OBVIOUS
  <2>2. ~(m < n)
    BY <1>3, <2>1 DEF Less
  <2> QED BY <2>1, <2>2
<1> QED BY <1>4

(* Induction over the natural numbers, with a set for the predicate.       *)
LEMMA Induction ==
  ASSUME NEW S, 0 \in S, \A n \in Nat : n \in S => n + 1 \in S
  PROVE  Nat \subseteq S
<1> SUFFICES ASSUME Nat \ S # {} PROVE FALSE
  OBVIOUS
<1>1. PICK n \in Nat \ S : \A m \in Nat \ S : n <= m
  BY Least
<1>2. n - 1 \in Nat /\ n - 1 \in S
  BY <1>1
<1> QED BY <1>1, <1>2

-----------------------------------------------------------------------------
(* Sequences of sequences, one after the other.                            *)

(* f is what the first members of ss make up, for each number of them.     *)
Flattens(ss, f) ==
  /\ f[0] = << >>
  /\ \A i \in 1 .. Len(ss) : f[i] = f[i - 1] \o ss[i]

LEMMA FlattenExists ==
  ASSUME NEW W, NEW ss \in Seq(Seq(W))
  PROVE  \E f \in [0 .. Len(ss) -> Seq(W)] : Flattens(ss, f)
<1> DEFINE N == Len(ss)
           P(n) == \E f \in [0 .. n -> Seq(W)] :
                     f[0] = << >> /\ \A i \in 1 .. n : f[i] = f[i - 1] \o ss[i]
           T == {n \in Nat : n <= N => P(n)}
<1>0. N \in Nat /\ \A i \in 1 .. N : ss[i] \in Seq(W)
  OBVIOUS
<1>1. P(0)
  <2> DEFINE e == [i \in 0 .. 0 |-> << >>]
  <2>1. e \in [0 .. 0 -> Seq(W)] /\ e[0] = << >> /\ \A i \in 1 .. 0 : FALSE
    OBVIOUS
  <2> QED BY <2>1, Zenon
<1> HIDE DEF N
<1>2. ASSUME NEW n \in Nat, n + 1 <= N, P(n) PROVE P(n + 1)
  <2>2. PICK f \in [0 .. n -> Seq(W)] : f[0] = << >> /\ \A i \in 1 .. n : f[i] = f[i - 1] \o ss[i]
    BY <1>2
  <2> DEFINE g == [i \in 0 .. n + 1 |-> IF i = n + 1 THEN f[n] \o ss[n + 1] ELSE f[i]]
  <2>3. f[n] \in Seq(W) /\ ss[n + 1] \in Seq(W)
    BY <1>0, <1>2
  <2>4. f[n] \o ss[n + 1] \in Seq(W)
    BY <2>3
  <2>5. \A i \in 0 .. n + 1 : i # n + 1 => f[i] \in Seq(W)
    OBVIOUS
  <2>6. g \in [0 .. n + 1 -> Seq(W)]
    BY <2>4, <2>5
  <2>7. g[0] = << >>
    BY <2>2
  <2>8. ASSUME NEW i \in 1 .. n + 1 PROVE g[i] = g[i - 1] \o ss[i]
    <3>1. i - 1 \in 0 .. n + 1 /\ i - 1 # n + 1
      OBVIOUS
    <3>2. g[i - 1] = f[i - 1]
      BY <3>1
    <3>3. CASE i = n + 1
      <4>1. g[i] = f[n] \o ss[n + 1] /\ i - 1 = n
        BY <3>3
      <4> QED BY <3>2, <3>3, <4>1
    <3>4. CASE i # n + 1
      <4>1. g[i] = f[i] /\ i \in 1 .. n
        BY <3>4
      <4> QED BY <2>2, <3>2, <4>1
    <3> QED BY <3>3, <3>4
  <2> HIDE DEF g
  <2>9. \A i \in 1 .. n + 1 : g[i] = g[i - 1] \o ss[i]
    BY <2>8
  <2> QED BY <2>6, <2>7, <2>9
<1> HIDE DEF P
<1>3. \A n \in Nat : n \in T => n + 1 \in T
  BY <1>0, <1>2
<1>4. 0 \in T
  BY <1>1
<1> HIDE DEF T
<1>5. N \in T
  BY <1>0, <1>3, <1>4, Induction
<1>6. P(N)
  BY <1>0, <1>5 DEF T
<1> QED BY <1>6, Zenon DEF P, N, Flattens

LEMMA FlattenIs ==
  ASSUME NEW W, NEW ss \in Seq(Seq(W))
  PROVE  \E f \in [0 .. Len(ss) -> Seq(W)] : Flattens(ss, f) /\ FlattenSeq(ss) = f[Len(ss)]
<1>0. Len(ss) \in Nat
  OBVIOUS
<1>1. PICK f \in [0 .. Len(ss) -> Seq(W)] : Flattens(ss, f)
  BY FlattenExists
<1>2. CASE Len(ss) = 0
  <2>1. ss = << >>
    BY <1>2
  <2> QED BY <1>1, <1>2, <2>1 DEF FlattenSeq, Flattens
<1>3. CASE Len(ss) # 0
  <2> DEFINE Eq(g) == g = [i \in 1 .. Len(ss) |-> IF i = 1 THEN ss[i] ELSE g[i - 1] \o ss[i]]
             F == CHOOSE g : Eq(g)
             h == [i \in 1 .. Len(ss) |-> f[i]]
  <2>1. FlattenSeq(ss) = F[Len(ss)]
    BY <1>3 DEF FlattenSeq
  <2>2. \A i \in 1 .. Len(ss) : h[i] = IF i = 1 THEN ss[i] ELSE h[i - 1] \o ss[i]
    <3> SUFFICES ASSUME NEW i \in 1 .. Len(ss)
                 PROVE  h[i] = IF i = 1 THEN ss[i] ELSE h[i - 1] \o ss[i]
      OBVIOUS
    <3>1. f[i] = f[i - 1] \o ss[i] /\ ss[i] \in Seq(W) /\ h[i] = f[i]
      <4>1. ss[i] \in Seq(W)
        OBVIOUS
      <4>2. f[i] = f[i - 1] \o ss[i]
        BY <1>1 DEF Flattens
      <4> QED BY <4>1, <4>2
    <3>2. CASE i = 1
      <4>1. f[1 - 1] = << >>
        BY <1>1 DEF Flattens
      <4> QED BY <3>1, <3>2, <4>1
    <3>3. CASE i # 1
      <4>1. h[i - 1] = f[i - 1]
        BY <3>3, <1>0
      <4> QED BY <3>1, <3>3, <4>1
    <3> QED BY <3>2, <3>3
  <2>3. Eq(h)
    <3> HIDE DEF h
    <3>1. h = [i \in 1 .. Len(ss) |-> h[i]]
      BY DEF h
    <3> QED BY <3>1, <2>2
  <2>4. Eq(F)
    <3> HIDE DEF Eq, h
    <3> QED BY <2>3
  <2> HIDE DEF F
  <2> DEFINE T == {n \in Nat : n + 1 <= Len(ss) => F[n + 1] = f[n + 1]}
  <2>5. 0 \in T
    <3> SUFFICES F[1] = f[1]
      OBVIOUS
    <3>1. 1 \in 1 .. Len(ss)
      BY <1>0, <1>3
    <3>2. F[1] = ss[1]
      BY <2>4, <3>1
    <3>3. f[1] = ss[1]
      BY <2>2, <3>1
    <3> QED BY <3>2, <3>3
  <2>6. ASSUME NEW n \in Nat, n \in T PROVE n + 1 \in T
    <3> SUFFICES ASSUME n + 2 <= Len(ss) PROVE F[n + 2] = f[n + 2]
      OBVIOUS
    <3>1. n + 2 \in 1 .. Len(ss) /\ n + 2 # 1 /\ (n + 2) - 1 = n + 1
      BY <1>0
    <3>2. F[n + 1] = f[n + 1]
      BY <2>6, <1>0
    <3>3. F[n + 2] = F[n + 1] \o ss[n + 2]
      BY <2>4, <3>1
    <3>4. f[n + 2] = f[n + 1] \o ss[n + 2]
      BY <1>1, <3>1 DEF Flattens
    <3> QED BY <3>2, <3>3, <3>4
  <2> HIDE DEF T
  <2>7. Len(ss) - 1 \in T
    <3>1. Len(ss) - 1 \in Nat
      BY <1>0, <1>3
    <3> QED BY <3>1, <2>5, <2>6, Induction
  <2>8. F[Len(ss)] = f[Len(ss)]
    BY <2>7, <1>0, <1>3 DEF T
  <2> QED BY <1>1, <2>1, <2>8
<1> QED BY <1>2, <1>3

(* Calls of fb_apply on the bytes of the frame, never its control byte.    *)
Writes == [idx : 1 .. FB_SIZE - 1, mask : SUBSET Bits]

(* The writes that reach a pixel.                                          *)
Touches(ws, p) == {k \in DOMAIN ws : /\ ws[k].idx = fb_index(p[1], p[2])
                                     /\ p[2] % 8 \in ws[k].mask}

(* The writes reach the pixels of S that are on the screen, and no others. *)
Covers(ws, S) == /\ ws \in Seq(Writes)
                 /\ \A p \in Screen : p \in S <=> Touches(ws, p) # {}

(* And each of them once.                                                  *)
Once(ws) == \A p \in Screen : \A k, l \in Touches(ws, p) : k = l

Paints(ws, S) == Covers(ws, S) /\ Once(ws)

-----------------------------------------------------------------------------
(* The bytes of the frame.                                                 *)

Pages == HEXA_OLED_HEIGHT \div 8

LEMMA Product ==
  ASSUME NEW a \in Int, NEW b \in Int, NEW c \in Nat, a <= b
  PROVE  a * c <= b * c
<1>1. (b - a) * c >= 0
  <2> DEFINE d == b - a
  <2>1. d \in Nat
    OBVIOUS
  <2> HIDE DEF d
  <2>2. d * c >= 0
    BY <2>1
  <2> QED BY <2>2 DEF d
<1>2. (b - a) * c = b * c - a * c
  OBVIOUS
<1>3. a * c \in Int /\ b * c \in Int
  OBVIOUS
<1> QED BY <1>1, <1>2, <1>3

LEMMA ScreenIs ==
  /\ HEXA_OLED_WIDTH \in Nat \ {0}
  /\ HEXA_OLED_HEIGHT \in Nat \ {0}
  /\ HEXA_OLED_HEIGHT % 8 = 0
BY ScreenAssumption

LEMMA Bytes ==
  /\ Pages \in Nat \ {0}
  /\ HEXA_OLED_HEIGHT = 8 * Pages
  /\ FB_DATA_SIZE = Pages * HEXA_OLED_WIDTH
  /\ FB_DATA_SIZE \in Nat \ {0}
  /\ FB_SIZE = FB_DATA_SIZE + 1
<1> DEFINE W == HEXA_OLED_WIDTH
           H == HEXA_OLED_HEIGHT
<1>1. W \in Nat \ {0} /\ H \in Nat \ {0} /\ H % 8 = 0
  BY ScreenIs
<1>2. Pages \in Nat \ {0} /\ H = 8 * Pages
  BY <1>1 DEF Pages
<1>3. W * H = 8 * (Pages * W)
  BY <1>1, <1>2
<1>4. Pages * W \in Nat /\ Pages * W >= 1
  <2>1. 1 * W <= Pages * W
    BY <1>1, <1>2, Product
  <2> QED BY <1>1, <1>2, <2>1
<1>5. (W * H) \div 8 = Pages * W
  <2> DEFINE n == Pages * W
  <2>1. n \in Nat
    BY <1>4
  <2> HIDE DEF n
  <2>2. (8 * n) \div 8 = n
    BY <2>1
  <2> QED BY <1>3, <2>2 DEF n
<1> QED BY <1>2, <1>4, <1>5 DEF FB_DATA_SIZE, FB_SIZE, FB_OFFSET

(* Every pixel of the screen is in a byte of the frame ...                 *)
LEMMA IndexRange ==
  ASSUME NEW x \in 0 .. HEXA_OLED_WIDTH - 1, NEW y \in 0 .. HEXA_OLED_HEIGHT - 1
  PROVE  fb_index(x, y) \in 1 .. FB_SIZE - 1
<1> DEFINE W == HEXA_OLED_WIDTH
           p == y \div 8
<1>1. W \in Nat \ {0} /\ x \in Nat /\ x < W
  BY ScreenIs
<1>2. p \in Nat /\ p <= Pages - 1 /\ Pages \in Int
  <2>1. y \in Nat /\ Pages \in Nat /\ y < 8 * Pages
    BY Bytes
  <2> QED BY <2>1
<1> HIDE DEF W, p
<1>3. p * W <= (Pages - 1) * W
  BY <1>1, <1>2, Product
<1>4. (Pages - 1) * W = Pages * W - W
  BY <1>1, <1>2
<1>5. p * W \in Nat /\ Pages * W \in Int
  BY <1>1, <1>2
<1>6. 1 + x + p * W \in 1 .. Pages * W
  BY <1>1, <1>3, <1>4, <1>5
<1> QED BY <1>6, Bytes DEF fb_index, FB_OFFSET, W, p

(* ... and a byte is in one column and one page.                           *)
LEMMA IndexApart ==
  ASSUME NEW x \in 0 .. HEXA_OLED_WIDTH - 1, NEW y \in Nat,
         NEW x2 \in 0 .. HEXA_OLED_WIDTH - 1, NEW y2 \in Nat,
         fb_index(x, y) = fb_index(x2, y2)
  PROVE  x = x2 /\ y \div 8 = y2 \div 8
<1> DEFINE W == HEXA_OLED_WIDTH
           p == y \div 8
           q == y2 \div 8
<1>1. W \in Nat \ {0} /\ x \in Nat /\ x < W /\ x2 \in Nat /\ x2 < W
  BY ScreenIs
<1>2. p \in Nat /\ q \in Nat
  OBVIOUS
<1>3. 1 + x + p * W = 1 + x2 + q * W
  BY DEF fb_index, FB_OFFSET
<1> HIDE DEF W, p, q
<1>4. p * W \in Nat /\ q * W \in Nat
  BY <1>1, <1>2
<1>5. ~(p + 1 <= q)
  <2> SUFFICES ASSUME p + 1 <= q PROVE FALSE
    OBVIOUS
  <2>1. (p + 1) * W <= q * W
    BY <1>1, <1>2, Product
  <2>2. (p + 1) * W = p * W + W
    BY <1>1, <1>2
  <2> QED BY <1>1, <1>3, <1>4, <2>1, <2>2
<1>6. ~(q + 1 <= p)
  <2> SUFFICES ASSUME q + 1 <= p PROVE FALSE
    OBVIOUS
  <2>1. (q + 1) * W <= p * W
    BY <1>1, <1>2, Product
  <2>2. (q + 1) * W = q * W + W
    BY <1>1, <1>2
  <2> QED BY <1>1, <1>3, <1>4, <2>1, <2>2
<1>7. p = q
  BY <1>2, <1>5, <1>6
<1>8. x = x2
  BY <1>1, <1>3, <1>4, <1>7
<1> QED BY <1>7, <1>8 DEF p, q

Frames == [0 .. FB_SIZE - 1 -> SUBSET Bits]

(* The writes that reach bit b of byte i.                                  *)
Hits(ws, i, b) == {k \in DOMAIN ws : ws[k].idx = i /\ b \in ws[k].mask}

(* The calls reach no byte outside the buffer.                             *)
LEMMA ReachesFrame ==
  ASSUME NEW frame \in Frames, NEW ws \in Seq(Writes)
  PROVE  Reached(frame, ws) = 0 .. FB_SIZE - 1
<1>1. DOMAIN frame = 0 .. FB_SIZE - 1
  BY DEF Frames
<1>2. \A k \in DOMAIN ws : ws[k] \in Writes
  OBVIOUS
<1>3. \A k \in DOMAIN ws : ws[k].idx \in 0 .. FB_SIZE - 1
  BY <1>2, Bytes DEF Writes
<1> QED BY <1>1, <1>3 DEF Reached

LEMMA BitIs ==
  ASSUME NEW frame \in Frames, NEW ws \in Seq(Writes), NEW color,
         NEW i \in 0 .. FB_SIZE - 1, NEW b
  PROVE  LET new == fb_apply(frame, ws, color)[i]
             T   == Hits(ws, i, b)
         IN
         /\ color = 0 => (b \in new <=> b \in frame[i] /\ T = {})
         /\ color = 1 => (b \in new <=> b \in frame[i] \/ T # {})
         /\ color \notin {0, 1} =>
              (b \in new <=> (b \in frame[i] <=> ~(Cardinality(T) % 2 = 1 /\ T # {})))
<1> DEFINE mine == {k \in DOMAIN ws : ws[k].idx = i}
           any  == UNION {ws[k].mask : k \in mine}
           Times(c) == Cardinality({k \in mine : c \in ws[k].mask})
           odd  == {c \in any : Times(c) % 2 = 1}
<1>1. fb_apply(frame, ws, color)[i] =
        CASE color = 0 -> frame[i] \ any
          [] color = 1 -> frame[i] \union any
          [] OTHER     -> (frame[i] \ odd) \union (odd \ frame[i])
  <2>1. DOMAIN frame = 0 .. FB_SIZE - 1
    BY DEF Frames
  <2>2. i \in Reached(frame, ws)
    BY ReachesFrame
  <2>3. (IF i \in DOMAIN frame THEN frame[i] ELSE {}) = frame[i]
    BY <2>1
  <2> QED BY <2>2, <2>3, Zenon DEF fb_apply
<1>2. {k \in mine : b \in ws[k].mask} = Hits(ws, i, b)
  BY DEF Hits
<1>3. b \in any <=> Hits(ws, i, b) # {}
  BY DEF Hits
<1>4. b \in odd <=> Cardinality(Hits(ws, i, b)) % 2 = 1 /\ Hits(ws, i, b) # {}
  BY <1>2, <1>3
<1> DEFINE new == fb_apply(frame, ws, color)[i]
<1> HIDE DEF any, odd
<1>5. (color = 0 => new = frame[i] \ any) /\ (color = 1 => new = frame[i] \union any)
  BY <1>1, SMT
<1>6. color \notin {0, 1} => new = (frame[i] \ odd) \union (odd \ frame[i])
  BY <1>1, SMT
<1> HIDE DEF new
<1> DEFINE isOdd == Cardinality(Hits(ws, i, b)) % 2 = 1
<1> HIDE DEF isOdd
<1>7. b \in odd <=> isOdd /\ Hits(ws, i, b) # {}
  BY <1>4 DEF isOdd
<1>8. color = 0 => (b \in new <=> b \in frame[i] /\ Hits(ws, i, b) = {})
  BY <1>3, <1>5
<1>9. color = 1 => (b \in new <=> b \in frame[i] \/ Hits(ws, i, b) # {})
  BY <1>3, <1>5
<1>10. color \notin {0, 1} =>
         (b \in new <=> (b \in frame[i] <=> ~(isOdd /\ Hits(ws, i, b) # {})))
  BY <1>6, <1>7
<1> QED BY <1>8, <1>9, <1>10 DEF new, isOdd

(* Drawing keeps the frame a frame, and leaves its control byte alone.     *)
LEMMA ApplyType ==
  ASSUME NEW frame \in Frames, NEW ws \in Seq(Writes), NEW color
  PROVE  /\ fb_apply(frame, ws, color) \in Frames
         /\ fb_apply(frame, ws, color)[0] = frame[0]
<1> DEFINE g == fb_apply(frame, ws, color)
<1>1. DOMAIN frame = 0 .. FB_SIZE - 1 /\ \A i \in 0 .. FB_SIZE - 1 : frame[i] \subseteq Bits
  BY DEF Frames
<1>2. ASSUME NEW i \in 0 .. FB_SIZE - 1, NEW b, b \in g[i] PROVE b \in Bits
  <2>0.
    /\ color = 0 => (b \in g[i] <=> b \in frame[i] /\ Hits(ws, i, b) = {})
    /\ color = 1 => (b \in g[i] <=> b \in frame[i] \/ Hits(ws, i, b) # {})
    /\ color \notin {0, 1} =>
         (b \in g[i] <=> (b \in frame[i] <=> ~(Cardinality(Hits(ws, i, b)) % 2 = 1 /\ Hits(ws, i, b) # {})))
    BY BitIs
  <2>1. b \in frame[i] \/ Hits(ws, i, b) # {}
    <3> HIDE DEF g
    <3> QED BY <1>2, <2>0
  <2>2. \A k \in DOMAIN ws : ws[k] \in Writes
    OBVIOUS
  <2>3. \A k \in DOMAIN ws : ws[k].mask \subseteq Bits
    BY <2>2 DEF Writes
  <2> QED BY <1>1, <2>1, <2>3 DEF Hits
<1>3. g = [i \in 0 .. FB_SIZE - 1 |-> g[i]]
  <2>1. Reached(frame, ws) = 0 .. FB_SIZE - 1
    BY ReachesFrame
  <2> QED BY <2>1 DEF fb_apply
<1> HIDE DEF g
<1>4. g \in Frames
  BY <1>2, <1>3 DEF Frames
<1>5. 0 \in 0 .. FB_SIZE - 1
  BY Bytes
<1>6. \A b : Hits(ws, 0, b) = {}
  <2>0. \A k \in DOMAIN ws : ws[k] \in Writes
    OBVIOUS
  <2>1. \A k \in DOMAIN ws : ws[k].idx # 0
    BY <2>0 DEF Writes
  <2> QED BY <2>1 DEF Hits
<1>7. ASSUME NEW b PROVE b \in g[0] <=> b \in frame[0]
  <2>1.
    /\ color = 0 => (b \in g[0] <=> b \in frame[0] /\ Hits(ws, 0, b) = {})
    /\ color = 1 => (b \in g[0] <=> b \in frame[0] \/ Hits(ws, 0, b) # {})
    /\ color \notin {0, 1} =>
         (b \in g[0] <=> (b \in frame[0] <=> ~(Cardinality(Hits(ws, 0, b)) % 2 = 1 /\ Hits(ws, 0, b) # {})))
    BY <1>5, BitIs DEF g
  <2> HIDE DEF g
  <2> QED BY <2>1, <1>6
<1>8. g[0] = frame[0]
  BY <1>7
<1> QED BY <1>4, <1>8 DEF g

LEMMA LitIs ==
  ASSUME NEW frame, NEW p \in Screen
  PROVE  p \in Lit(frame) <=> p[2] % 8 \in frame[fb_index(p[1], p[2])]
BY DEF Lit, fb_index, FB_OFFSET

LEMMA InFrame ==
  ASSUME NEW p \in Screen
  PROVE  fb_index(p[1], p[2]) \in 0 .. FB_SIZE - 1
<1>1. p[1] \in 0 .. HEXA_OLED_WIDTH - 1 /\ p[2] \in 0 .. HEXA_OLED_HEIGHT - 1
  BY DEF Screen
<1>2. fb_index(p[1], p[2]) \in 1 .. FB_SIZE - 1
  BY <1>1, IndexRange
<1> QED BY <1>2, Bytes

(* A figure whose pixels are each written once is drawn in every colour.   *)
LEMMA PaintsDraws ==
  ASSUME NEW frame \in Frames, NEW ws, NEW S \in SUBSET Screen, Paints(ws, S), NEW color
  PROVE  Lit(fb_apply(frame, ws, color)) = Painted(Lit(frame), S, color)
<1> DEFINE g == fb_apply(frame, ws, color)
<1>1. ASSUME NEW p \in Screen
      PROVE  p \in Lit(g) <=> p \in Painted(Lit(frame), S, color)
  <2> DEFINE i == fb_index(p[1], p[2])
             b == p[2] % 8
             T == Hits(ws, i, b)
  <2>1. ws \in Seq(Writes) /\ i \in 0 .. FB_SIZE - 1
    BY InFrame DEF Paints, Covers
  <2>2.
    /\ color = 0 => (b \in g[i] <=> b \in frame[i] /\ T = {})
    /\ color = 1 => (b \in g[i] <=> b \in frame[i] \/ T # {})
    /\ color \notin {0, 1} =>
         (b \in g[i] <=> (b \in frame[i] <=> ~(Cardinality(T) % 2 = 1 /\ T # {})))
    BY <2>1, BitIs
  <2>3. (p \in S <=> T # {}) /\ \A k, l \in T : k = l
    BY DEF Paints, Covers, Once, Touches, Hits
  <2>4. T # {} => Cardinality(T) % 2 = 1
    <3> SUFFICES ASSUME NEW k \in T PROVE Cardinality(T) % 2 = 1
      OBVIOUS
    <3>1. T = {k}
      BY <2>3
    <3>2. Cardinality({k}) = 1
      BY FS_Singleton
    <3> QED BY <3>1, <3>2
  <2>5. (p \in Lit(g) <=> b \in g[i]) /\ (p \in Lit(frame) <=> b \in frame[i])
    BY LitIs
  <2> HIDE DEF T, g, i, b
  <2> QED BY <2>2, <2>3, <2>4, <2>5 DEF Painted
<1>2. Lit(g) \subseteq Screen
  BY DEF Lit
<1>3. Painted(Lit(frame), S, color) \subseteq Screen
  <2>1. Lit(frame) \subseteq Screen
    BY DEF Lit
  <2> QED BY <2>1 DEF Painted
<1> HIDE DEF g
<1> QED BY <1>1, <1>2, <1>3 DEF g

(* In two of the colours it may be written more than once.                 *)
LEMMA CoversDraws ==
  ASSUME NEW frame \in Frames, NEW ws, NEW S \in SUBSET Screen, Covers(ws, S), NEW color \in {0, 1}
  PROVE  Lit(fb_apply(frame, ws, color)) = Painted(Lit(frame), S, color)
<1> DEFINE g == fb_apply(frame, ws, color)
<1>1. ASSUME NEW p \in Screen
      PROVE  p \in Lit(g) <=> p \in Painted(Lit(frame), S, color)
  <2> DEFINE i == fb_index(p[1], p[2])
             b == p[2] % 8
             T == Hits(ws, i, b)
  <2>1. ws \in Seq(Writes) /\ i \in 0 .. FB_SIZE - 1
    BY InFrame DEF Covers
  <2>2.
    /\ color = 0 => (b \in g[i] <=> b \in frame[i] /\ T = {})
    /\ color = 1 => (b \in g[i] <=> b \in frame[i] \/ T # {})
    /\ color \notin {0, 1} =>
         (b \in g[i] <=> (b \in frame[i] <=> ~(Cardinality(T) % 2 = 1 /\ T # {})))
    BY <2>1, BitIs
  <2>3. p \in S <=> T # {}
    BY DEF Covers, Touches, Hits
  <2>5. (p \in Lit(g) <=> b \in g[i]) /\ (p \in Lit(frame) <=> b \in frame[i])
    BY LitIs
  <2> HIDE DEF T, g, i, b
  <2> QED BY <2>2, <2>3, <2>5 DEF Painted
<1>2. Lit(g) \subseteq Screen
  BY DEF Lit
<1>3. Painted(Lit(frame), S, color) \subseteq Screen
  <2>1. Lit(frame) \subseteq Screen
    BY DEF Lit
  <2> QED BY <2>1 DEF Painted
<1> HIDE DEF g
<1> QED BY <1>1, <1>2, <1>3 DEF g

(* Drawing nothing changes nothing.                                        *)
LEMMA NothingDraws ==
  ASSUME NEW frame \in Frames, NEW color
  PROVE  Lit(fb_apply(frame, << >>, color)) = Lit(frame)
<1>1. \A p \in Screen : Touches(<< >>, p) = {}
  BY DEF Touches
<1>2. Paints(<< >>, {})
  BY <1>1 DEF Paints, Covers, Once
<1>3. Lit(fb_apply(frame, << >>, color)) = Painted(Lit(frame), {}, color)
  BY <1>2, PaintsDraws
<1>4. Painted(Lit(frame), {}, color) = Lit(frame)
  BY DEF Painted
<1> QED BY <1>3, <1>4

LEMMA SeqIs ==
  ASSUME NEW S, NEW N \in Nat, NEW s \in [1 .. N -> S]
  PROVE  s \in Seq(S) /\ Len(s) = N /\ DOMAIN s = 1 .. N
<1>1. s \in Seq(S)
  OBVIOUS
<1>2. Len(s) = N
  OBVIOUS
<1> QED BY <1>1, <1>2

(* Writes one after the other: the pixels of both, ...                     *)
LEMMA ConcatTouches ==
  ASSUME NEW a \in Seq(Writes), NEW b \in Seq(Writes), NEW p
  PROVE  Touches(a \o b, p) = Touches(a, p) \union {k + Len(a) : k \in Touches(b, p)}
<1>0. Len(a) \in Nat /\ Len(b) \in Nat /\ DOMAIN a = 1 .. Len(a) /\ DOMAIN b = 1 .. Len(b)
  OBVIOUS
<1>1. /\ DOMAIN (a \o b) = 1 .. Len(a) + Len(b)
      /\ \A k \in 1 .. Len(a) : (a \o b)[k] = a[k]
      /\ \A k \in 1 .. Len(b) : (a \o b)[k + Len(a)] = b[k]
  <2>1. DOMAIN (a \o b) = 1 .. Len(a) + Len(b)
    OBVIOUS
  <2>2. \A k \in 1 .. Len(a) : (a \o b)[k] = a[k]
    OBVIOUS
  <2>3. \A k \in 1 .. Len(b) : (a \o b)[k + Len(a)] = b[k]
    OBVIOUS
  <2> QED BY <2>1, <2>2, <2>3
<1> DEFINE c == a \o b
<1> HIDE DEF c
<1>2. ASSUME NEW k \in Touches(c, p) PROVE k \in Touches(a, p) \/ \E l \in Touches(b, p) : k = l + Len(a)
  <2>1. k \in 1 .. Len(a) + Len(b)
    BY <1>1 DEF Touches, c
  <2>2. CASE k <= Len(a)
    <3>1. k \in 1 .. Len(a) /\ c[k] = a[k]
      BY <2>1, <2>2, <1>0, <1>1 DEF c
    <3> QED BY <3>1, <1>0 DEF Touches
  <2>3. CASE k > Len(a)
    <3> DEFINE l == k - Len(a)
    <3>1. l \in 1 .. Len(b) /\ k = l + Len(a)
      BY <2>1, <2>3, <1>0
    <3> HIDE DEF l
    <3>2. c[k] = b[l]
      BY <3>1, <1>1 DEF c
    <3>3. l \in Touches(b, p)
      BY <3>1, <3>2, <1>0 DEF Touches
    <3> QED BY <3>1, <3>3
  <2> QED BY <1>0, <2>1, <2>2, <2>3
<1>3. ASSUME NEW k \in Touches(a, p) PROVE k \in Touches(c, p)
  <2>1. k \in 1 .. Len(a) /\ k \in 1 .. Len(a) + Len(b)
    BY <1>0 DEF Touches
  <2> QED BY <2>1, <1>1 DEF Touches, c
<1>4. ASSUME NEW k \in Touches(b, p) PROVE k + Len(a) \in Touches(c, p)
  <2>1. k \in 1 .. Len(b) /\ k + Len(a) \in 1 .. Len(a) + Len(b)
    BY <1>0 DEF Touches
  <2>2. c[k + Len(a)] = b[k]
    BY <2>1, <1>1 DEF c
  <2> QED BY <2>1, <2>2, <1>1 DEF Touches, c
<1> QED BY <1>2, <1>3, <1>4 DEF c

LEMMA ConcatCovers ==
  ASSUME NEW a, NEW b, NEW S, NEW T, Covers(a, S), Covers(b, T)
  PROVE  Covers(a \o b, S \union T)
<1>1. a \in Seq(Writes) /\ b \in Seq(Writes)
  BY DEF Covers
<1>2. a \o b \in Seq(Writes)
  BY <1>1
<1>3. ASSUME NEW p \in Screen PROVE p \in S \union T <=> Touches(a \o b, p) # {}
  <2>1. Touches(a \o b, p) = Touches(a, p) \union {k + Len(a) : k \in Touches(b, p)}
    BY <1>1, ConcatTouches
  <2>2. (p \in S <=> Touches(a, p) # {}) /\ (p \in T <=> Touches(b, p) # {})
    BY DEF Covers
  <2> QED BY <2>1, <2>2
<1> QED BY <1>2, <1>3 DEF Covers

(* ... each still once if none is in both.                                 *)
LEMMA ConcatPaints ==
  ASSUME NEW a, NEW b, NEW S, NEW T, Paints(a, S), Paints(b, T),
         \A p \in Screen : ~(p \in S /\ p \in T)
  PROVE  Paints(a \o b, S \union T)
<1>1. Covers(a, S) /\ Covers(b, T)
  BY DEF Paints
<1>2. a \in Seq(Writes) /\ b \in Seq(Writes)
  BY <1>1 DEF Covers
<1>3. Covers(a \o b, S \union T)
  BY <1>1, ConcatCovers
<1>4. ASSUME NEW p \in Screen, NEW k \in Touches(a \o b, p), NEW l \in Touches(a \o b, p)
      PROVE  k = l
  <2> DEFINE A == Touches(a, p)
             B == Touches(b, p)
  <2>1. Touches(a \o b, p) = A \union {n + Len(a) : n \in B}
    BY <1>2, ConcatTouches
  <2>2. A = {} \/ B = {}
    BY <1>1 DEF Covers
  <2>3. (\A m, n \in A : m = n) /\ (\A m, n \in B : m = n)
    BY DEF Paints, Once
  <2> HIDE DEF A, B
  <2> QED BY <2>1, <2>2, <2>3
<1> QED BY <1>3, <1>4 DEF Paints, Once

LEMMA EmptyPaints ==
  ASSUME NEW S, \A p \in Screen : p \notin S
  PROVE  Paints(<< >>, S)
<1>1. \A p \in Screen : Touches(<< >>, p) = {}
  BY DEF Touches
<1> QED BY <1>1 DEF Paints, Covers, Once

LEMMA SameCovers ==
  ASSUME NEW a, NEW S, NEW T, Covers(a, S), \A p \in Screen : p \in S <=> p \in T
  PROVE  Covers(a, T)
BY DEF Covers

LEMMA SamePaints ==
  ASSUME NEW a, NEW S, NEW T, Paints(a, S), \A p \in Screen : p \in S <=> p \in T
  PROVE  Paints(a, T)
BY DEF Paints, Covers

(* All of the pixels that the members of ss have.                          *)
Together(R, n) == {p \in Screen : \E i \in 1 .. n : p \in R[i]}

LEMMA FlattenCovers ==
  ASSUME NEW ss \in Seq(Seq(Writes)), NEW R,
         \A i \in 1 .. Len(ss) : Covers(ss[i], R[i])
  PROVE  Covers(FlattenSeq(ss), Together(R, Len(ss)))
<1> DEFINE N == Len(ss)
<1>0. N \in Nat
  OBVIOUS
<1>1. PICK f \in [0 .. N -> Seq(Writes)] : Flattens(ss, f) /\ FlattenSeq(ss) = f[N]
  BY FlattenIs
<1>2. f[0] = << >> /\ \A i \in 1 .. N : f[i] = f[i - 1] \o ss[i]
  BY <1>1 DEF Flattens
<1>3. \A i \in 1 .. N : Covers(ss[i], R[i])
  OBVIOUS
<1> HIDE DEF N
<1> DEFINE T == {n \in Nat : n <= N => Covers(f[n], Together(R, n))}
<1>4. 0 \in T
  <2>1. Covers(<< >>, Together(R, 0))
    BY EmptyPaints DEF Together, Paints
  <2> QED BY <2>1, <1>2
<1>5. ASSUME NEW n \in Nat, n \in T PROVE n + 1 \in T
  <2> SUFFICES ASSUME n + 1 <= N PROVE Covers(f[n + 1], Together(R, n + 1))
    OBVIOUS
  <2>1. Covers(f[n], Together(R, n))
    BY <1>0, <1>5
  <2>2. n + 1 \in 1 .. N
    BY <1>0
  <2>3. Covers(ss[n + 1], R[n + 1])
    BY <2>2, <1>3
  <2>4. Covers(f[n] \o ss[n + 1], Together(R, n) \union R[n + 1])
    BY <2>1, <2>3, ConcatCovers
  <2>5. f[n + 1] = f[n] \o ss[n + 1]
    <3>1. f[n + 1] = f[(n + 1) - 1] \o ss[n + 1]
      BY <2>2, <1>2, Zenon
    <3>2. (n + 1) - 1 = n
      OBVIOUS
    <3> QED BY <3>1, <3>2
  <2>6. \A p \in Screen : p \in Together(R, n) \union R[n + 1] <=> p \in Together(R, n + 1)
    <3>1. \A i : i \in 1 .. n + 1 <=> i \in 1 .. n \/ i = n + 1
      OBVIOUS
    <3> QED BY <3>1 DEF Together
  <2> DEFINE U == Together(R, n) \union R[n + 1]
             V == Together(R, n + 1)
             w == f[n + 1]
  <2>7. Covers(w, U) /\ \A p \in Screen : p \in U <=> p \in V
    BY <2>4, <2>5, <2>6
  <2> HIDE DEF U, V, w
  <2>8. Covers(w, V)
    BY <2>7, SameCovers
  <2> QED BY <2>8 DEF V, w
<1> HIDE DEF T
<1>6. N \in T
  BY <1>0, <1>4, <1>5, Induction
<1> QED BY <1>0, <1>1, <1>6 DEF T, N

LEMMA FlattenPaints ==
  ASSUME NEW ss \in Seq(Seq(Writes)), NEW R,
         \A i \in 1 .. Len(ss) : Paints(ss[i], R[i]),
         \A i, j \in 1 .. Len(ss) : i # j => \A p \in Screen : ~(p \in R[i] /\ p \in R[j])
  PROVE  Paints(FlattenSeq(ss), Together(R, Len(ss)))
<1> DEFINE N == Len(ss)
<1>0. N \in Nat
  OBVIOUS
<1>1. PICK f \in [0 .. N -> Seq(Writes)] : Flattens(ss, f) /\ FlattenSeq(ss) = f[N]
  BY FlattenIs
<1>2. f[0] = << >> /\ \A i \in 1 .. N : f[i] = f[i - 1] \o ss[i]
  BY <1>1 DEF Flattens
<1>3. /\ \A i \in 1 .. N : Paints(ss[i], R[i])
      /\ \A i, j \in 1 .. N : i # j => \A p \in Screen : ~(p \in R[i] /\ p \in R[j])
  OBVIOUS
<1> HIDE DEF N
<1> DEFINE T == {n \in Nat : n <= N => Paints(f[n], Together(R, n))}
<1>4. 0 \in T
  <2>1. Paints(<< >>, Together(R, 0))
    BY EmptyPaints DEF Together
  <2> QED BY <2>1, <1>2
<1>5. ASSUME NEW n \in Nat, n \in T PROVE n + 1 \in T
  <2> SUFFICES ASSUME n + 1 <= N PROVE Paints(f[n + 1], Together(R, n + 1))
    OBVIOUS
  <2>1. Paints(f[n], Together(R, n))
    BY <1>0, <1>5
  <2>2. n + 1 \in 1 .. N /\ \A i \in 1 .. n : i \in 1 .. N /\ i # n + 1
    BY <1>0
  <2>3. Paints(ss[n + 1], R[n + 1])
    BY <2>2, <1>3
  <2>4. \A p \in Screen : ~(p \in Together(R, n) /\ p \in R[n + 1])
    BY <2>2, <1>3 DEF Together
  <2>5. Paints(f[n] \o ss[n + 1], Together(R, n) \union R[n + 1])
    BY <2>1, <2>3, <2>4, ConcatPaints
  <2>6. f[n + 1] = f[n] \o ss[n + 1]
    <3>1. f[n + 1] = f[(n + 1) - 1] \o ss[n + 1]
      BY <2>2, <1>2, Zenon
    <3>2. (n + 1) - 1 = n
      OBVIOUS
    <3> QED BY <3>1, <3>2
  <2>7. \A p \in Screen : p \in Together(R, n) \union R[n + 1] <=> p \in Together(R, n + 1)
    <3>1. \A i : i \in 1 .. n + 1 <=> i \in 1 .. n \/ i = n + 1
      OBVIOUS
    <3> QED BY <3>1 DEF Together
  <2> QED BY <2>5, <2>6, <2>7, SamePaints
<1> HIDE DEF T
<1>6. N \in T
  BY <1>0, <1>4, <1>5, Induction
<1> QED BY <1>0, <1>1, <1>6 DEF T, N

(* The same of a function of each number from a to b.                      *)
EachOf(F, a, b) == FlattenSeq([i \in 1 .. Len(Run(a, b)) |-> F[a + i - 1]])

LEMMA RunIs ==
  ASSUME NEW a \in Int, NEW b \in Int
  PROVE  /\ Len(Run(a, b)) = IF b < a THEN 0 ELSE b - a + 1
         /\ Len(Run(a, b)) \in Nat
         /\ \A i \in 1 .. Len(Run(a, b)) : a + i - 1 \in a .. b
         /\ \A j \in a .. b : j - a + 1 \in 1 .. Len(Run(a, b)) /\ a + (j - a + 1) - 1 = j
<1>1. (IF b < a THEN 0 ELSE b - a + 1) \in Nat
  OBVIOUS
<1>2. Len(Run(a, b)) = IF b < a THEN 0 ELSE b - a + 1
  <2> DEFINE n == IF b < a THEN 0 ELSE b - a + 1
  <2>1. n \in Nat
    BY <1>1
  <2> HIDE DEF n
  <2>2. Len([i \in 1 .. n |-> a + i - 1]) = n
    BY <2>1
  <2> QED BY <2>2 DEF Run, n
<1> QED BY <1>1, <1>2

LEMMA EachCovers ==
  ASSUME NEW a \in Int, NEW b \in Int, NEW F, NEW R,
         \A i \in a .. b : Covers(F[i], R[i])
  PROVE  Covers(EachOf(F, a, b), {p \in Screen : \E i \in a .. b : p \in R[i]})
<1> DEFINE N == Len(Run(a, b))
           ss == [i \in 1 .. N |-> F[a + i - 1]]
           RR == [i \in 1 .. N |-> R[a + i - 1]]
<1>1. /\ N \in Nat
      /\ \A i \in 1 .. N : a + i - 1 \in a .. b
      /\ \A j \in a .. b : j - a + 1 \in 1 .. N /\ a + (j - a + 1) - 1 = j
  BY RunIs
<1> HIDE DEF N
<1>2. \A i \in 1 .. N : Covers(ss[i], RR[i])
  BY <1>1
<1>3. ss \in Seq(Seq(Writes)) /\ Len(ss) = N
  <2>1. \A i \in 1 .. N : ss[i] \in Seq(Writes)
    BY <1>2 DEF Covers
  <2>2. ss \in [1 .. N -> Seq(Writes)]
    BY <2>1
  <2> HIDE DEF ss
  <2> QED BY <2>2, <1>1, SeqIs
<1>4. Covers(FlattenSeq(ss), Together(RR, N))
  <2> HIDE DEF ss, RR
  <2> QED BY <1>2, <1>3, FlattenCovers
<1>5. \A p \in Screen : p \in Together(RR, N) <=> p \in {q \in Screen : \E i \in a .. b : q \in R[i]}
  <2>1. ASSUME NEW p \in Screen, NEW i \in 1 .. N, p \in RR[i] PROVE \E j \in a .. b : p \in R[j]
    BY <2>1, <1>1
  <2>2. ASSUME NEW p \in Screen, NEW j \in a .. b, p \in R[j] PROVE \E i \in 1 .. N : p \in RR[i]
    <3>1. j - a + 1 \in 1 .. N /\ RR[j - a + 1] = R[j]
      BY <1>1
    <3> QED BY <2>2, <3>1
  <2> HIDE DEF RR
  <2> QED BY <2>1, <2>2 DEF Together
<1> QED BY <1>4, <1>5, SameCovers DEF EachOf, N

LEMMA EachPaints ==
  ASSUME NEW a \in Int, NEW b \in Int, NEW F, NEW R,
         \A i \in a .. b : Paints(F[i], R[i]),
         \A i, j \in a .. b : i # j => \A p \in Screen : ~(p \in R[i] /\ p \in R[j])
  PROVE  Paints(EachOf(F, a, b), {p \in Screen : \E i \in a .. b : p \in R[i]})
<1> DEFINE N == Len(Run(a, b))
           ss == [i \in 1 .. N |-> F[a + i - 1]]
           RR == [i \in 1 .. N |-> R[a + i - 1]]
<1>1. /\ N \in Nat
      /\ \A i \in 1 .. N : a + i - 1 \in a .. b
      /\ \A j \in a .. b : j - a + 1 \in 1 .. N /\ a + (j - a + 1) - 1 = j
  BY RunIs
<1> HIDE DEF N
<1>2. \A i \in 1 .. N : Paints(ss[i], RR[i])
  BY <1>1
<1>3. ss \in Seq(Seq(Writes)) /\ Len(ss) = N
  <2>1. \A i \in 1 .. N : ss[i] \in Seq(Writes)
    BY <1>2 DEF Covers, Paints
  <2>2. ss \in [1 .. N -> Seq(Writes)]
    BY <2>1
  <2> HIDE DEF ss
  <2> QED BY <2>2, <1>1, SeqIs
<1>4. ASSUME NEW i \in 1 .. N, NEW j \in 1 .. N, i # j, NEW p \in Screen
      PROVE  ~(p \in RR[i] /\ p \in RR[j])
  <2>1. RR[i] = R[a + i - 1] /\ RR[j] = R[a + j - 1]
    OBVIOUS
  <2>2. a + i - 1 \in a .. b /\ a + j - 1 \in a .. b /\ a + i - 1 # a + j - 1
    BY <1>1, <1>4
  <2> HIDE DEF RR
  <2> QED BY <2>1, <2>2
<1>5. Paints(FlattenSeq(ss), Together(RR, N))
  <2> HIDE DEF ss, RR
  <2> QED BY <1>2, <1>3, <1>4, FlattenPaints
<1>6. \A p \in Screen : p \in Together(RR, N) <=> p \in {q \in Screen : \E i \in a .. b : q \in R[i]}
  <2>1. ASSUME NEW p \in Screen, NEW i \in 1 .. N, p \in RR[i] PROVE \E j \in a .. b : p \in R[j]
    BY <2>1, <1>1
  <2>2. ASSUME NEW p \in Screen, NEW j \in a .. b, p \in R[j] PROVE \E i \in 1 .. N : p \in RR[i]
    <3>1. j - a + 1 \in 1 .. N /\ RR[j - a + 1] = R[j]
      BY <1>1
    <3> QED BY <2>2, <3>1
  <2> HIDE DEF RR
  <2> QED BY <2>1, <2>2 DEF Together
<1> QED BY <1>5, <1>6, SamePaints DEF EachOf, N

LEMMA ScreenPoint ==
  ASSUME NEW p \in Screen
  PROVE  /\ p = <<p[1], p[2]>>
         /\ p[1] \in 0 .. HEXA_OLED_WIDTH - 1 /\ p[2] \in 0 .. HEXA_OLED_HEIGHT - 1
         /\ p[1] \in Nat /\ p[2] \in Nat
         /\ p[1] < HEXA_OLED_WIDTH /\ p[2] < HEXA_OLED_HEIGHT
<1>1. p = <<p[1], p[2]>> /\ p[1] \in 0 .. HEXA_OLED_WIDTH - 1 /\ p[2] \in 0 .. HEXA_OLED_HEIGHT - 1
  BY DEF Screen
<1> QED BY <1>1, ScreenIs

(* One write.                                                              *)
LEMMA OnePaints ==
  ASSUME NEW i \in 1 .. FB_SIZE - 1, NEW m \in SUBSET Bits
  PROVE  Paints(<<[idx |-> i, mask |-> m]>>,
                {p \in Screen : fb_index(p[1], p[2]) = i /\ p[2] % 8 \in m})
<1> DEFINE w == [idx |-> i, mask |-> m]
<1>1. w \in Writes /\ w.idx = i /\ w.mask = m
  BY DEF Writes
<1> HIDE DEF w
<1>2. <<w>> \in Seq(Writes) /\ DOMAIN <<w>> = {1} /\ <<w>>[1] = w
  BY <1>1
<1>3. \A p \in Screen : Touches(<<w>>, p) = IF fb_index(p[1], p[2]) = i /\ p[2] % 8 \in m THEN {1} ELSE {}
  BY <1>1, <1>2 DEF Touches
<1>4. \A p \in Screen : (fb_index(p[1], p[2]) = i /\ p[2] % 8 \in m) <=> Touches(<<w>>, p) # {}
  BY <1>3
<1>5. Once(<<w>>)
  BY <1>3 DEF Once
<1> QED BY <1>2, <1>4, <1>5 DEF Paints, Covers, w

(* One write of the bits m in the byte that row y of column x is in.       *)
LEMMA BytePaints ==
  ASSUME NEW x \in 0 .. HEXA_OLED_WIDTH - 1, NEW y \in 0 .. HEXA_OLED_HEIGHT - 1,
         NEW m \in SUBSET Bits
  PROVE  Paints(<<[idx |-> fb_index(x, y), mask |-> m]>>,
                {p \in Screen : p[1] = x /\ p[2] \div 8 = y \div 8 /\ p[2] % 8 \in m})
<1> DEFINE i == fb_index(x, y)
<1>1. i \in 1 .. FB_SIZE - 1
  BY IndexRange
<1>2. y \in Nat
  BY ScreenIs
<1>3. \A p \in Screen : fb_index(p[1], p[2]) = i <=> p[1] = x /\ p[2] \div 8 = y \div 8
  <2> SUFFICES ASSUME NEW p \in Screen
               PROVE  fb_index(p[1], p[2]) = i <=> p[1] = x /\ p[2] \div 8 = y \div 8
    OBVIOUS
  <2>1. p[1] \in 0 .. HEXA_OLED_WIDTH - 1 /\ p[2] \in Nat
    BY ScreenPoint
  <2>2. ASSUME fb_index(p[1], p[2]) = i PROVE p[1] = x /\ p[2] \div 8 = y \div 8
    BY <2>1, <2>2, <1>2, IndexApart
  <2>3. ASSUME p[1] = x, p[2] \div 8 = y \div 8 PROVE fb_index(p[1], p[2]) = i
    BY <2>3 DEF fb_index
  <2> QED BY <2>2, <2>3
<1> HIDE DEF i
<1>4. Paints(<<[idx |-> i, mask |-> m]>>,
             {p \in Screen : fb_index(p[1], p[2]) = i /\ p[2] % 8 \in m})
  BY <1>1, OnePaints
<1>5. Paints(<<[idx |-> i, mask |-> m]>>,
             {p \in Screen : p[1] = x /\ p[2] \div 8 = y \div 8 /\ p[2] % 8 \in m})
  BY <1>3, <1>4, SamePaints
<1> QED BY <1>5 DEF i

LEMMA DotPaints ==
  ASSUME NEW x \in 0 .. HEXA_OLED_WIDTH - 1, NEW y \in 0 .. HEXA_OLED_HEIGHT - 1
  PROVE  Paints(<<[idx |-> fb_index(x, y), mask |-> {y % 8}]>>, {<<x, y>>})
<1>1. y \in Nat
  BY ScreenIs
<1>2. {y % 8} \in SUBSET Bits
  BY <1>1 DEF Bits
<1>3. Paints(<<[idx |-> fb_index(x, y), mask |-> {y % 8}]>>,
             {p \in Screen : p[1] = x /\ p[2] \div 8 = y \div 8 /\ p[2] % 8 \in {y % 8}})
  BY <1>2, BytePaints
<1>4. ASSUME NEW p \in Screen
      PROVE  p[1] = x /\ p[2] \div 8 = y \div 8 /\ p[2] % 8 \in {y % 8} <=> p \in {<<x, y>>}
  <2>1. p = <<p[1], p[2]>> /\ p[2] \in Nat
    BY ScreenPoint
  <2>2. p[2] \div 8 = y \div 8 /\ p[2] % 8 = y % 8 <=> p[2] = y
    BY <2>1, <1>1
  <2> QED BY <2>1, <2>2
<1> QED BY <1>3, <1>4, SamePaints

LEMMA PixelPaints ==
  ASSUME NEW p \in Int \X Int
  PROVE  Paints(fb_pixel(p), {p})
<1>1. p = <<p[1], p[2]>>
  OBVIOUS
<1>2. CASE OnScreen(p)
  <2>1. fb_pixel(p) = <<[idx |-> fb_index(p[1], p[2]), mask |-> {p[2] % 8}]>>
    BY <1>2 DEF fb_pixel
  <2>2. p[1] \in 0 .. HEXA_OLED_WIDTH - 1 /\ p[2] \in 0 .. HEXA_OLED_HEIGHT - 1
    BY <1>2 DEF OnScreen
  <2> QED BY <1>1, <2>1, <2>2, DotPaints
<1>3. CASE ~OnScreen(p)
  <2>1. fb_pixel(p) = << >>
    BY <1>3 DEF fb_pixel
  <2>2. \A q \in Screen : q \notin {p}
    BY <1>3, ScreenPoint DEF OnScreen
  <2> QED BY <2>1, <2>2, EmptyPaints
<1> QED BY <1>2, <1>3

LEMMA PixelsCover ==
  ASSUME NEW ps \in Seq(Int \X Int)
  PROVE  Covers(Pixels(ps), {p \in Screen : \E i \in 1 .. Len(ps) : p = ps[i]})
<1> DEFINE N == Len(ps)
           ss == [i \in 1 .. N |-> fb_pixel(ps[i])]
           R  == [i \in 1 .. N |-> {ps[i]}]
<1>1. N \in Nat /\ \A i \in 1 .. N : ps[i] \in Int \X Int
  OBVIOUS
<1> HIDE DEF N
<1>2. \A i \in 1 .. N : Covers(ss[i], R[i])
  BY <1>1, PixelPaints DEF Paints
<1>3. ss \in Seq(Seq(Writes)) /\ Len(ss) = N
  <2>1. \A i \in 1 .. N : ss[i] \in Seq(Writes)
    BY <1>2 DEF Covers
  <2>2. ss \in [1 .. N -> Seq(Writes)]
    BY <2>1
  <2> HIDE DEF ss
  <2> QED BY <2>2, <1>1, SeqIs
<1>4. Covers(FlattenSeq(ss), Together(R, N))
  <2> HIDE DEF ss, R
  <2> QED BY <1>2, <1>3, FlattenCovers
<1>5. \A p \in Screen : p \in Together(R, N) <=> p \in {q \in Screen : \E i \in 1 .. N : q = ps[i]}
  BY DEF Together
<1> QED BY <1>4, <1>5, SameCovers DEF Pixels, N

LEMMA PixelsPaint ==
  ASSUME NEW ps \in Seq(Int \X Int), \A i, j \in 1 .. Len(ps) : ps[i] = ps[j] => i = j
  PROVE  Paints(Pixels(ps), {p \in Screen : \E i \in 1 .. Len(ps) : p = ps[i]})
<1> DEFINE N == Len(ps)
           ss == [i \in 1 .. N |-> fb_pixel(ps[i])]
           R  == [i \in 1 .. N |-> {ps[i]}]
<1>1. N \in Nat /\ \A i \in 1 .. N : ps[i] \in Int \X Int
  OBVIOUS
<1>0. \A i, j \in 1 .. N : i # j => \A p \in Screen : ~(p \in R[i] /\ p \in R[j])
  OBVIOUS
<1> HIDE DEF N
<1>2. \A i \in 1 .. N : Paints(ss[i], R[i])
  BY <1>1, PixelPaints
<1>3. ss \in Seq(Seq(Writes)) /\ Len(ss) = N
  <2>1. \A i \in 1 .. N : ss[i] \in Seq(Writes)
    BY <1>2 DEF Covers, Paints
  <2>2. ss \in [1 .. N -> Seq(Writes)]
    BY <2>1
  <2> HIDE DEF ss
  <2> QED BY <2>2, <1>1, SeqIs
<1>4. Paints(FlattenSeq(ss), Together(R, N))
  <2> HIDE DEF ss, R
  <2> QED BY <1>0, <1>2, <1>3, FlattenPaints
<1>5. \A p \in Screen : p \in Together(R, N) <=> p \in {q \in Screen : \E i \in 1 .. N : q = ps[i]}
  BY DEF Together
<1> QED BY <1>4, <1>5, SamePaints DEF Pixels, N

-----------------------------------------------------------------------------
(* Straight lines.                                                         *)

(* The part of a box that is on the screen.                                *)
Box(x, y, w, h) == {p \in Screen : InBox(p, x, y, w, h)}

LEMMA HLinePaints ==
  ASSUME NEW x \in Int, NEW y \in Int, NEW w \in Int
  PROVE  Paints(HLine(x, y, w), Box(x, y, w, 1))
<1> DEFINE W == HEXA_OLED_WIDTH
           H == HEXA_OLED_HEIGHT
<1>0. W \in Nat \ {0} /\ H \in Nat \ {0}
  BY ScreenIs
<1>1. CASE w <= 0 \/ y \notin 0 .. H - 1
  <2>1. HLine(x, y, w) = << >>
    BY <1>1 DEF HLine
  <2>2. \A p \in Screen : p \notin Box(x, y, w, 1)
    <3> SUFFICES ASSUME NEW p \in Screen, InBox(p, x, y, w, 1) PROVE FALSE
      BY DEF Box
    <3>1. p[1] \in x .. x + w - 1 /\ p[2] = y
      BY DEF InBox
    <3>2. p[2] \in 0 .. H - 1
      BY ScreenPoint
    <3> QED BY <1>1, <3>1, <3>2
  <2> QED BY <2>1, <2>2, EmptyPaints
<1>2. CASE ~(w <= 0 \/ y \notin 0 .. H - 1)
  <2> DEFINE a == Larger(x, 0)
             b == Smaller(x + w, W) - 1
             F == [i \in a .. b |-> <<[idx |-> fb_index(i, y), mask |-> {y % 8}]>>]
             R == [i \in a .. b |-> {<<i, y>>}]
  <2>1. a \in Int /\ b \in Int /\ y \in 0 .. H - 1
    BY <1>0, <1>2 DEF Larger, Smaller
  <2>2. \A i \in Int : i \in a .. b <=> i \in x .. x + w - 1 /\ i \in 0 .. W - 1
    BY <1>0 DEF Larger, Smaller
  <2>3. HLine(x, y, w) = EachOf(F, a, b)
    <3>1. \A i \in 1 .. Len(Run(a, b)) :
             F[a + i - 1] = <<[idx |-> fb_index(a + i - 1, y), mask |-> {y % 8}]>>
      BY <2>1, RunIs
    <3>2. HLine(x, y, w) = FlattenSeq([i \in 1 .. Len(Run(a, b)) |->
             <<[idx |-> fb_index(a + i - 1, y), mask |-> {y % 8}]>>])
      BY <1>2, Zenon DEF HLine, Each
    <3> HIDE DEF a, b, F
    <3>3. [i \in 1 .. Len(Run(a, b)) |-> <<[idx |-> fb_index(a + i - 1, y), mask |-> {y % 8}]>>]
          = [i \in 1 .. Len(Run(a, b)) |-> F[a + i - 1]]
      BY <3>1
    <3> QED BY <3>2, <3>3 DEF EachOf
  <2>4. \A i \in a .. b : Paints(F[i], R[i])
    <3> SUFFICES ASSUME NEW i \in a .. b PROVE Paints(F[i], R[i])
      OBVIOUS
    <3>1. i \in 0 .. W - 1
      BY <2>1, <2>2
    <3>2. Paints(<<[idx |-> fb_index(i, y), mask |-> {y % 8}]>>, {<<i, y>>})
      BY <2>1, <3>1, DotPaints
    <3> QED BY <3>2
  <2>5. \A i, j \in a .. b : i # j => \A p \in Screen : ~(p \in R[i] /\ p \in R[j])
    OBVIOUS
  <2>6. Paints(EachOf(F, a, b), {p \in Screen : \E i \in a .. b : p \in R[i]})
    <3> HIDE DEF a, b, F, R
    <3> QED BY <2>1, <2>4, <2>5, EachPaints
  <2>7. ASSUME NEW p \in Screen
        PROVE  p \in {q \in Screen : \E i \in a .. b : q \in R[i]} <=> p \in Box(x, y, w, 1)
    <3>1. p = <<p[1], p[2]>> /\ p[1] \in 0 .. W - 1
      BY ScreenPoint
    <3>2. (\E i \in a .. b : p \in R[i]) <=> p[1] \in a .. b /\ p[2] = y
      BY <3>1
    <3>3. p[1] \in a .. b <=> p[1] \in x .. x + w - 1
      BY <2>2, <3>1
    <3>4. p[2] = y <=> p[2] \in y .. y + 1 - 1
      <4>1. p[2] \in Nat
        BY ScreenPoint
      <4> QED BY <4>1
    <3> QED BY <3>2, <3>3, <3>4 DEF Box, InBox
  <2> QED BY <2>3, <2>6, <2>7, SamePaints
<1> QED BY <1>1, <1>2

(* The bits of a byte that a line from row y to row e - 1 fills.           *)
LEMMA MaskIs ==
  ASSUME NEW y \in Nat, NEW e \in Nat, y < e, NEW r \in Nat
  PROVE  r \div 8 = y \div 8 /\ r % 8 \in PageMask(y, e) <=>
           r >= y /\ r < e /\ r < (y \div 8) * 8 + 8
<1> DEFINE p == y \div 8
           u == y % 8
           q == r \div 8
           v == r % 8
           g == (e - 1) \div 8
           z == (e - 1) % 8
<1>1. y = 8 * p + u /\ p \in Nat /\ u \in 0 .. 7
  OBVIOUS
<1>2. r = 8 * q + v /\ q \in Nat /\ v \in 0 .. 7
  OBVIOUS
<1>3. e = 8 * g + z + 1 /\ g \in Nat /\ z \in 0 .. 7
  OBVIOUS
<1>4. v \in PageMask(y, e) <=> v >= u /\ (e < p * 8 + 8 => v <= z)
  BY <1>2 DEF PageMask, Bits
<1> HIDE DEF p, u, q, v, g, z
<1>5. e < p * 8 + 8 => g = p
  BY <1>1, <1>3
<1>6. ~(e < p * 8 + 8) /\ q = p => r < e
  BY <1>1, <1>2, <1>3
<1>7. q = p /\ v >= u /\ (e < p * 8 + 8 => v <= z) <=> r >= y /\ r < e /\ r < p * 8 + 8
  BY <1>1, <1>2, <1>3, <1>5, <1>6
<1> QED BY <1>4, <1>7 DEF p, q, v

LEMMA VLinePaints ==
  ASSUME NEW x \in Int, NEW y \in Int, NEW h \in Int
  PROVE  Paints(VLine(x, y, h), Box(x, y, 1, h))
<1> DEFINE W == HEXA_OLED_WIDTH
           H == HEXA_OLED_HEIGHT
           top == Larger(y, 0)
           e == Smaller(y + h, H)
<1>0. W \in Nat \ {0} /\ H \in Nat \ {0}
  BY ScreenIs
<1>a. top \in Nat /\ e \in Int /\ e <= H
  BY <1>0 DEF Larger, Smaller
<1>b. \A r \in Int : r >= top /\ r < e <=> r \in y .. y + h - 1 /\ r \in 0 .. H - 1
  BY <1>0 DEF Larger, Smaller
<1>1. CASE h <= 0 \/ x \notin 0 .. W - 1 \/ e <= top
  <2>1. VLine(x, y, h) = << >>
    BY <1>1 DEF VLine
  <2>2. \A p \in Screen : p \notin Box(x, y, 1, h)
    <3> SUFFICES ASSUME NEW p \in Screen, InBox(p, x, y, 1, h) PROVE FALSE
      BY DEF Box
    <3>1. p[1] = x /\ p[2] \in y .. y + h - 1
      BY DEF InBox
    <3>2. p[1] \in 0 .. W - 1 /\ p[2] \in 0 .. H - 1
      BY ScreenPoint
    <3>3. p[2] >= top /\ p[2] < e
      <4>1. p[2] \in Int
        BY ScreenPoint
      <4> HIDE DEF top, e
      <4> QED BY <4>1, <3>1, <3>2, <1>b
    <3> HIDE DEF top, e
    <3> QED BY <1>1, <1>a, <3>1, <3>2, <3>3
  <2> QED BY <2>1, <2>2, EmptyPaints
<1>2. CASE ~(h <= 0 \/ x \notin 0 .. W - 1 \/ e <= top)
  <2> DEFINE a == top \div 8
             b == (e - 1) \div 8
             Row(p) == Larger(top, 8 * p)
             F == [i \in a .. b |-> <<[idx |-> fb_index(x, Row(i)), mask |-> PageMask(Row(i), e)]>>]
             R == [i \in a .. b |-> {p \in Screen : p[1] = x /\ p[2] >= Row(i) /\ p[2] < e /\ p[2] \div 8 = i}]
  <2>1. a \in Int /\ b \in Int
    BY <1>a
  <2>2. VLine(x, y, h) = EachOf(F, a, b)
    <3>1. \A i \in 1 .. Len(Run(a, b)) :
             F[a + i - 1] = <<[idx |-> fb_index(x, Row(a + i - 1)), mask |-> PageMask(Row(a + i - 1), e)]>>
      BY <2>1, RunIs
    <3>2. VLine(x, y, h) = FlattenSeq([i \in 1 .. Len(Run(a, b)) |->
             <<[idx |-> fb_index(x, Row(a + i - 1)), mask |-> PageMask(Row(a + i - 1), e)]>>])
      BY <1>2, Zenon DEF VLine, Each
    <3> HIDE DEF a, b, F, e, Row
    <3>3. [i \in 1 .. Len(Run(a, b)) |-> <<[idx |-> fb_index(x, Row(a + i - 1)), mask |-> PageMask(Row(a + i - 1), e)]>>]
          = [i \in 1 .. Len(Run(a, b)) |-> F[a + i - 1]]
      BY <3>1
    <3> QED BY <3>2, <3>3 DEF EachOf
  <2>3. ASSUME NEW i \in a .. b
        PROVE  /\ Row(i) \in Nat /\ Row(i) \in 0 .. H - 1 /\ Row(i) < e /\ Row(i) \div 8 = i
               /\ Row(i) >= top /\ e \in Nat
               /\ \A r \in Nat : r >= top /\ r \div 8 = i => r >= Row(i)
               /\ i \in Nat
    <3> HIDE DEF top, e
    <3>1. top < e /\ e \in Nat
      BY <1>2, <1>a
    <3>2. i \in Nat /\ i >= a /\ i <= b
      BY <2>1, <3>1, <1>a
    <3>3. 8 * i <= e - 1
      BY <3>1, <3>2, <1>a
    <3>4. i = a \/ 8 * i >= top
      BY <3>1, <3>2, <1>a
    <3>5. Row(i) = IF top < 8 * i THEN 8 * i ELSE top
      BY DEF Larger
    <3>6. top < 8 * i => i # a \/ 8 * i = 8 * a
      OBVIOUS
    <3>7. (top \div 8) * 8 <= top
      BY <1>a
    <3>8. Row(i) \in Nat /\ Row(i) < e /\ Row(i) >= top
      BY <3>1, <3>2, <3>3, <3>5, <1>a
    <3>9. Row(i) \div 8 = i
      <4>1. CASE top < 8 * i
        BY <4>1, <3>2, <3>5
      <4>2. CASE ~(top < 8 * i)
        <5>1. 8 * i <= top /\ top \div 8 <= i
          BY <4>2, <3>2, <1>a
        <5> QED BY <4>2, <5>1, <3>2, <3>5, <1>a
      <4> QED BY <4>1, <4>2
    <3>10. \A r \in Nat : r >= top /\ r \div 8 = i => r >= Row(i)
      BY <3>2, <3>5, <1>a
    <3> QED BY <3>1, <3>2, <3>8, <3>9, <3>10, <1>0, <1>a
  <2>4. \A i \in a .. b : Paints(F[i], R[i])
    <3> SUFFICES ASSUME NEW i \in a .. b PROVE Paints(F[i], R[i])
      OBVIOUS
    <3> DEFINE y0 == Row(i)
               m == PageMask(y0, e)
    <3>1. y0 \in Nat /\ y0 \in 0 .. H - 1 /\ y0 < e /\ y0 \div 8 = i /\ e \in Nat /\ x \in 0 .. W - 1
      BY <2>3, <1>2
    <3>2. m \in SUBSET Bits
      BY DEF PageMask
    <3> HIDE DEF m, y0, top, e
    <3>3. Paints(<<[idx |-> fb_index(x, y0), mask |-> m]>>,
                 {p \in Screen : p[1] = x /\ p[2] \div 8 = y0 \div 8 /\ p[2] % 8 \in m})
      BY <3>1, <3>2, BytePaints
    <3>4. ASSUME NEW p \in Screen
          PROVE  p[1] = x /\ p[2] \div 8 = y0 \div 8 /\ p[2] % 8 \in m
                 <=> p[1] = x /\ p[2] >= y0 /\ p[2] < e /\ p[2] \div 8 = i
      <4>1. p[2] \in Nat
        BY ScreenPoint
      <4>2. p[2] \div 8 = y0 \div 8 /\ p[2] % 8 \in m <=>
              p[2] >= y0 /\ p[2] < e /\ p[2] < (y0 \div 8) * 8 + 8
        BY <4>1, <3>1, MaskIs DEF m
      <4>3. p[2] >= y0 => (p[2] < (y0 \div 8) * 8 + 8 <=> p[2] \div 8 = i)
        BY <4>1, <3>1
      <4> QED BY <4>2, <4>3
    <3>5. Paints(<<[idx |-> fb_index(x, y0), mask |-> m]>>,
                 {p \in Screen : p[1] = x /\ p[2] >= y0 /\ p[2] < e /\ p[2] \div 8 = i})
      BY <3>3, <3>4, SamePaints
    <3> QED BY <3>5 DEF y0, m
  <2>5. \A i, j \in a .. b : i # j => \A p \in Screen : ~(p \in R[i] /\ p \in R[j])
    OBVIOUS
  <2>6. Paints(EachOf(F, a, b), {p \in Screen : \E i \in a .. b : p \in R[i]})
    <3> HIDE DEF a, b, F, R
    <3> QED BY <2>1, <2>4, <2>5, EachPaints
  <2>7. ASSUME NEW p \in Screen
        PROVE  p \in {q \in Screen : \E i \in a .. b : q \in R[i]} <=> p \in Box(x, y, 1, h)
    <3>1. p[1] \in Int /\ p[2] \in Nat /\ p[2] \in 0 .. H - 1
      BY ScreenPoint
    <3>2. ASSUME NEW i \in a .. b, p \in R[i] PROVE p[1] = x /\ p[2] >= top /\ p[2] < e
      <4>1. p[1] = x /\ p[2] >= Row(i) /\ p[2] < e
        BY <3>2
      <4>2. Row(i) \in Nat /\ Row(i) >= top
        BY <2>3
      <4> HIDE DEF Row, top, e
      <4> QED BY <4>1, <4>2, <3>1, <1>a
    <3>3. ASSUME p[1] = x, p[2] >= top, p[2] < e PROVE \E i \in a .. b : p \in R[i]
      <4> DEFINE i == p[2] \div 8
      <4>1. i \in a .. b
        <5> HIDE DEF top, e
        <5>1. p[2] \in Nat /\ e \in Nat
          BY <3>1, <3>3, <1>a
        <5> QED BY <5>1, <3>3, <1>a
      <4>2. p[2] >= Row(i)
        <5> HIDE DEF top, e, Row
        <5> QED BY <4>1, <3>1, <3>3, <2>3
      <4> QED BY <4>1, <4>2, <3>3
    <3>4. p[1] = x /\ p[2] >= top /\ p[2] < e <=> p \in Box(x, y, 1, h)
      <4>1. p[1] = x <=> p[1] \in x .. x + 1 - 1
        BY <3>1
      <4>2. p[2] >= top /\ p[2] < e <=> p[2] \in y .. y + h - 1
        BY <3>1, <1>b
      <4> HIDE DEF top, e
      <4> QED BY <4>1, <4>2 DEF Box, InBox
    <3> HIDE DEF R, a, b, top, e
    <3> QED BY <3>2, <3>3, <3>4
  <2> HIDE DEF a, b, F, R, top, e
  <2> QED BY <2>2, <2>6, <2>7, SamePaints
<1> QED BY <1>1, <1>2

(* Rectangles.                                                             *)

LEMMA BoxIs ==
  ASSUME NEW x \in Int, NEW y \in Int, NEW w \in Int, NEW h \in Int, NEW p \in Screen
  PROVE  p \in Box(x, y, w, h) <=> x <= p[1] /\ p[1] < x + w /\ y <= p[2] /\ p[2] < y + h
<1>1. p[1] \in Int /\ p[2] \in Int
  BY ScreenPoint
<1> QED BY <1>1 DEF Box, InBox

Frame(x, y, w, h) ==
  {p \in Screen : InBox(p, x, y, w, h) /\ ~InBox(p, x + 1, y + 1, w - 2, h - 2)}

LEMMA FrameIs ==
  ASSUME NEW x \in Int, NEW y \in Int, NEW w \in Int, NEW h \in Int, NEW p \in Screen
  PROVE  p \in Frame(x, y, w, h) <=>
           /\ x <= p[1] /\ p[1] < x + w /\ y <= p[2] /\ p[2] < y + h
           /\ ~(x + 1 <= p[1] /\ p[1] < x + w - 1 /\ y + 1 <= p[2] /\ p[2] < y + h - 1)
<1>1. p[1] \in Int /\ p[2] \in Int
  BY ScreenPoint
<1> QED BY <1>1 DEF Frame, InBox

LEMMA SidesPaint ==
  ASSUME NEW x \in Int, NEW y \in Int, NEW w \in Int, NEW h \in Int, w > 0, h > 1
  PROVE  Paints(Sides(x, y, w, h),
                Box(x, y + 1, 1, h - 2) \union Box(x + w - 1, y + 1, 1, h - 2))
<1> DEFINE A == Box(x, y + 1, 1, h - 2)
           B == Box(x + w - 1, y + 1, 1, h - 2)
<1>1. Paints(VLine(x, y + 1, h - 2), A) /\ Paints(VLine(x + w - 1, y + 1, h - 2), B)
  BY VLinePaints
<1>2. \A p \in Screen : /\ p \in A <=> x <= p[1] /\ p[1] < x + 1 /\ y + 1 <= p[2] /\ p[2] < y + h - 1
                        /\ p \in B <=> x + w - 1 <= p[1] /\ p[1] < x + w /\ y + 1 <= p[2] /\ p[2] < y + h - 1
                        /\ p[1] \in Int /\ p[2] \in Int
  <2> SUFFICES ASSUME NEW p \in Screen
               PROVE  /\ p \in A <=> x <= p[1] /\ p[1] < x + 1 /\ y + 1 <= p[2] /\ p[2] < y + h - 1
                      /\ p \in B <=> x + w - 1 <= p[1] /\ p[1] < x + w /\ y + 1 <= p[2] /\ p[2] < y + h - 1
                      /\ p[1] \in Int /\ p[2] \in Int
    OBVIOUS
  <2>1. p[1] \in Int /\ p[2] \in Int
    BY ScreenPoint
  <2>2. p \in A <=> x <= p[1] /\ p[1] < x + 1 /\ y + 1 <= p[2] /\ p[2] < (y + 1) + (h - 2)
    BY BoxIs
  <2>3. p \in B <=> x + w - 1 <= p[1] /\ p[1] < (x + w - 1) + 1 /\ y + 1 <= p[2] /\ p[2] < (y + 1) + (h - 2)
    BY BoxIs
  <2> HIDE DEF A, B
  <2> QED BY <2>1, <2>2, <2>3
<1> HIDE DEF A, B
<1>3. CASE h <= 2
  <2>1. Sides(x, y, w, h) = << >>
    BY <1>3 DEF Sides
  <2>2. \A p \in Screen : p \notin A \union B
    BY <1>2, <1>3
  <2> QED BY <2>1, <2>2, EmptyPaints DEF A, B
<1>4. CASE h > 2 /\ w = 1
  <2>1. Sides(x, y, w, h) = VLine(x, y + 1, h - 2) \o << >>
    BY <1>4 DEF Sides
  <2>2. VLine(x, y + 1, h - 2) \o << >> = VLine(x, y + 1, h - 2)
    <3>1. VLine(x, y + 1, h - 2) \in Seq(Writes)
      BY <1>1 DEF Paints, Covers
    <3> QED BY <3>1
  <2>3. \A p \in Screen : p \in A <=> p \in A \union B
    BY <1>2, <1>4
  <2>4. Paints(VLine(x, y + 1, h - 2), A \union B)
    BY <1>1, <2>3, SamePaints
  <2> QED BY <2>1, <2>2, <2>4 DEF A, B
<1>5. CASE h > 2 /\ w > 1
  <2>1. Sides(x, y, w, h) = VLine(x, y + 1, h - 2) \o VLine(x + w - 1, y + 1, h - 2)
    BY <1>5 DEF Sides
  <2>2. \A p \in Screen : ~(p \in A /\ p \in B)
    BY <1>2, <1>5
  <2> QED BY <1>1, <2>1, <2>2, ConcatPaints DEF A, B
<1> QED BY <1>3, <1>4, <1>5

LEMMA RectPaints ==
  ASSUME NEW x \in Int, NEW y \in Int, NEW w \in Int, NEW h \in Int, w > 0, h > 0
  PROVE  Paints(Rect(x, y, w, h), Frame(x, y, w, h))
<1> DEFINE A == Box(x, y, w, 1)
           B == Box(x, y + h - 1, w, 1)
           C == Box(x, y + 1, 1, h - 2) \union Box(x + w - 1, y + 1, 1, h - 2)
           R == Frame(x, y, w, h)
<1>1. Paints(HLine(x, y, w), A) /\ Paints(HLine(x, y + h - 1, w), B)
  BY HLinePaints
<1>2. ASSUME NEW p \in Screen
      PROVE  /\ p[1] \in Int /\ p[2] \in Int
             /\ p \in A <=> x <= p[1] /\ p[1] < x + w /\ p[2] = y
             /\ p \in B <=> x <= p[1] /\ p[1] < x + w /\ p[2] = y + h - 1
             /\ p \in C <=> (p[1] = x \/ p[1] = x + w - 1) /\ y + 1 <= p[2] /\ p[2] < y + h - 1
             /\ p \in R <=> /\ x <= p[1] /\ p[1] < x + w /\ y <= p[2] /\ p[2] < y + h
                            /\ ~(x + 1 <= p[1] /\ p[1] < x + w - 1 /\ y + 1 <= p[2] /\ p[2] < y + h - 1)
  <2>1. p[1] \in Int /\ p[2] \in Int
    BY ScreenPoint
  <2>2. p \in A <=> x <= p[1] /\ p[1] < x + w /\ y <= p[2] /\ p[2] < y + 1
    BY BoxIs
  <2>3. p \in B <=> x <= p[1] /\ p[1] < x + w /\ y + h - 1 <= p[2] /\ p[2] < (y + h - 1) + 1
    BY BoxIs
  <2>4. /\ p \in Box(x, y + 1, 1, h - 2) <=>
             x <= p[1] /\ p[1] < x + 1 /\ y + 1 <= p[2] /\ p[2] < (y + 1) + (h - 2)
        /\ p \in Box(x + w - 1, y + 1, 1, h - 2) <=>
             x + w - 1 <= p[1] /\ p[1] < (x + w - 1) + 1 /\ y + 1 <= p[2] /\ p[2] < (y + 1) + (h - 2)
    <3>1. x + w - 1 \in Int /\ y + 1 \in Int /\ h - 2 \in Int
      OBVIOUS
    <3> QED BY <3>1, BoxIs
  <2>5. p \in C <=> (p[1] = x \/ p[1] = x + w - 1) /\ y + 1 <= p[2] /\ p[2] < y + h - 1
    BY <2>1, <2>4
  <2>6. p \in R <=> /\ x <= p[1] /\ p[1] < x + w /\ y <= p[2] /\ p[2] < y + h
                    /\ ~(x + 1 <= p[1] /\ p[1] < x + w - 1 /\ y + 1 <= p[2] /\ p[2] < y + h - 1)
    BY FrameIs
  <2> HIDE DEF A, B, C, R
  <2> QED BY <2>1, <2>2, <2>3, <2>5, <2>6
<1>3. h > 1 => Paints(Sides(x, y, w, h), C)
  BY SidesPaint
<1> HIDE DEF A, B, C, R
<1>4. CASE h = 1
  <2>1. Rect(x, y, w, h) = HLine(x, y, w) \o << >>
    BY <1>4 DEF Rect
  <2>2. HLine(x, y, w) \o << >> = HLine(x, y, w)
    <3>1. HLine(x, y, w) \in Seq(Writes)
      BY <1>1 DEF Paints, Covers
    <3> QED BY <3>1
  <2>3. ASSUME NEW p \in Screen PROVE p \in A <=> p \in R
    BY <1>2, <1>4
  <2>4. Paints(HLine(x, y, w), R)
    BY <1>1, <2>3, SamePaints
  <2> QED BY <2>1, <2>2, <2>4 DEF R
<1>5. CASE h > 1
  <2>1. Rect(x, y, w, h) = HLine(x, y, w) \o (HLine(x, y + h - 1, w) \o Sides(x, y, w, h))
    BY <1>5 DEF Rect
  <2>2. ASSUME NEW p \in Screen PROVE ~(p \in B /\ p \in C)
    BY <1>2, <1>5
  <2>3. Paints(HLine(x, y + h - 1, w) \o Sides(x, y, w, h), B \union C)
    BY <1>1, <1>3, <1>5, <2>2, ConcatPaints
  <2>4. ASSUME NEW p \in Screen PROVE ~(p \in A /\ p \in B \union C)
    BY <1>2, <1>5
  <2>5. Paints(Rect(x, y, w, h), A \union (B \union C))
    BY <1>1, <2>1, <2>3, <2>4, ConcatPaints
  <2>6. ASSUME NEW p \in Screen PROVE p \in A \union (B \union C) <=> p \in R
    <3>1. p \in A \/ p \in B \/ p \in C <=> p \in R
      BY <1>2, <1>5
    <3> QED BY <3>1
  <2>7. Paints(Rect(x, y, w, h), R)
    BY <2>5, <2>6, SamePaints
  <2> QED BY <2>7 DEF R
<1> QED BY <1>4, <1>5

LEMMA FillRectPaints ==
  ASSUME NEW x \in Int, NEW y \in Int, NEW w \in Int, NEW h \in Int
  PROVE  Paints(FillRect(x, y, w, h), Box(x, y, w, h))
<1> DEFINE a == 0
           b == h - 1
           F == [i \in a .. b |-> HLine(x, y + i, w)]
           R == [i \in a .. b |-> Box(x, y + i, w, 1)]
<1>1. a \in Int /\ b \in Int
  OBVIOUS
<1>2. FillRect(x, y, w, h) = EachOf(F, a, b)
  <2>1. \A i \in 1 .. Len(Run(a, b)) : F[a + i - 1] = HLine(x, y + (a + i - 1), w)
    BY <1>1, RunIs
  <2>2. FillRect(x, y, w, h) = FlattenSeq([i \in 1 .. Len(Run(a, b)) |-> HLine(x, y + (a + i - 1), w)])
    BY DEF FillRect, Each
  <2> HIDE DEF a, b, F
  <2>3. [i \in 1 .. Len(Run(a, b)) |-> HLine(x, y + (a + i - 1), w)]
        = [i \in 1 .. Len(Run(a, b)) |-> F[a + i - 1]]
    BY <2>1
  <2> QED BY <2>2, <2>3 DEF EachOf
<1>3. ASSUME NEW i \in a .. b PROVE Paints(F[i], R[i])
  <2>1. y + i \in Int
    OBVIOUS
  <2> QED BY <2>1, HLinePaints
<1>4. ASSUME NEW i \in a .. b, NEW p \in Screen
      PROVE  p \in R[i] <=> x <= p[1] /\ p[1] < x + w /\ p[2] = y + i
  <2>1. y + i \in Int /\ p[2] \in Int
    BY ScreenPoint
  <2>2. p \in Box(x, y + i, w, 1) <=> x <= p[1] /\ p[1] < x + w /\ y + i <= p[2] /\ p[2] < (y + i) + 1
    BY <2>1, BoxIs
  <2> QED BY <2>1, <2>2
<1>5. \A i, j \in a .. b : i # j => \A p \in Screen : ~(p \in R[i] /\ p \in R[j])
  <2> HIDE DEF R
  <2> QED BY <1>4
<1>6. Paints(EachOf(F, a, b), {p \in Screen : \E i \in a .. b : p \in R[i]})
  <2> HIDE DEF a, b, F, R
  <2> QED BY <1>1, <1>3, <1>5, EachPaints
<1>7. ASSUME NEW p \in Screen
      PROVE  p \in {q \in Screen : \E i \in a .. b : q \in R[i]} <=> p \in Box(x, y, w, h)
  <2>1. p \in Box(x, y, w, h) <=> x <= p[1] /\ p[1] < x + w /\ y <= p[2] /\ p[2] < y + h
    BY BoxIs
  <2>2. p[1] \in Int /\ p[2] \in Int
    BY ScreenPoint
  <2>3. p[2] >= y /\ p[2] < y + h => p[2] - y \in a .. b /\ p[2] = y + (p[2] - y)
    BY <2>2
  <2>4. \A i \in a .. b : p[2] = y + i => p[2] >= y /\ p[2] < y + h
    BY <2>2
  <2> HIDE DEF R, a, b
  <2> QED BY <1>4, <2>1, <2>2, <2>3, <2>4
<1> HIDE DEF a, b, F, R
<1> QED BY <1>2, <1>6, <1>7, SamePaints

(* Discs.                                                                  *)

LEMMA SquareGrows ==
  ASSUME NEW a \in Nat, NEW b \in Nat, a <= b
  PROVE  a * a <= b * b
<1>1. a * a <= b * a
  BY Product
<1>2. a * b <= b * b
  BY Product
<1>3. a * b = b * a /\ a * a \in Int /\ a * b \in Int /\ b * b \in Int
  OBVIOUS
<1> DEFINE aa == a * a
           ab == a * b
           bb == b * b
           ba == b * a
<1>4. aa <= ba /\ ab <= bb /\ ab = ba /\ aa \in Int /\ ab \in Int /\ bb \in Int
  BY <1>1, <1>2, <1>3
<1> HIDE DEF aa, ab, bb, ba
<1>5. aa <= bb
  BY <1>4
<1> QED BY <1>5 DEF aa, bb

LEMMA SquareOfMinus ==
  ASSUME NEW u \in Int
  PROVE  (-u) * (-u) = u * u /\ u * u \in Nat
<1>1. CASE u >= 0
  BY <1>1
<1>2. CASE u < 0
  BY <1>2
<1> QED BY <1>1, <1>2

(* A number is at most the root when its square is at most the radicand.   *)
LEMMA UnderRoot ==
  ASSUME NEW u \in Int, NEW q \in Nat, NEW v \in Nat, q * q <= v, v < (q + 1) * (q + 1)
  PROVE  -q <= u /\ u <= q <=> u * u <= v
<1> DEFINE w == IF u >= 0 THEN u ELSE -u
<1>1. w \in Nat /\ (-q <= u /\ u <= q <=> w <= q)
  OBVIOUS
<1>2. w * w = u * u
  BY SquareOfMinus
<1> HIDE DEF w
<1>3. w * w \in Nat /\ q * q \in Nat /\ (q + 1) * (q + 1) \in Nat
  BY <1>1
<1>4. ASSUME w <= q PROVE w * w <= v
  <2>1. w * w <= q * q
    BY <1>1, <1>4, SquareGrows
  <2> QED BY <1>3, <2>1
<1>5. ASSUME ~(w <= q) PROVE ~(w * w <= v)
  <2>1. (q + 1) * (q + 1) <= w * w
    <3>1. q + 1 \in Nat /\ q + 1 <= w
      BY <1>1, <1>5
    <3> QED BY <1>1, <3>1, SquareGrows
  <2> QED BY <1>3, <2>1
<1> QED BY <1>1, <1>2, <1>4, <1>5

LEMMA SqrtIs ==
  ASSUME NEW v \in Nat
  PROVE  /\ isqrt32(v) \in Nat
         /\ isqrt32(v) * isqrt32(v) <= v
         /\ v < (isqrt32(v) + 1) * (isqrt32(v) + 1)
<1> DEFINE S == {n \in Nat : v < (n + 1) * (n + 1)}
<1>1. v \in S
  <2>1. (v + 1) * (v + 1) = v * v + 2 * v + 1 /\ v * v \in Nat
    OBVIOUS
  <2> QED BY <2>1
<1>2. PICK n \in S : \A m \in S : n <= m
  <2>1. S \in SUBSET Nat /\ S # {}
    BY <1>1
  <2> HIDE DEF S
  <2> QED BY <2>1, Least
<1>3. n \in Nat /\ v < (n + 1) * (n + 1)
  BY <1>2
<1>4. n * n <= v
  <2>1. CASE n = 0
    BY <2>1
  <2>2. CASE n # 0
    <3>1. n - 1 \in Nat /\ n - 1 \notin S
      BY <1>2, <1>3, <2>2
    <3>2. ~(v < ((n - 1) + 1) * ((n - 1) + 1)) /\ (n - 1) + 1 = n
      BY <3>1, <1>3
    <3>3. n * n \in Nat
      BY <1>3
    <3> QED BY <3>2, <3>3
  <2> QED BY <2>1, <2>2
<1>5. n \in 0 .. v
  <2>1. n <= n * n
    <3>1. CASE n = 0
      BY <3>1
    <3>2. CASE n # 0
      <4>1. 1 * n <= n * n
        BY <1>3, <3>2, Product
      <4> QED BY <1>3, <4>1
    <3> QED BY <3>1, <3>2
  <2>2. n * n \in Nat
    BY <1>3
  <2> QED BY <1>3, <1>4, <2>1, <2>2
<1>6. \E r \in 0 .. v : r * r <= v /\ (r + 1) * (r + 1) > v
  <2>1. (n + 1) * (n + 1) \in Nat
    BY <1>3
  <2>2. (n + 1) * (n + 1) > v
    BY <2>1, <1>3
  <2> QED BY <1>4, <1>5, <2>2
<1> DEFINE q == isqrt32(v)
<1>7. q \in 0 .. v /\ q * q <= v /\ (q + 1) * (q + 1) > v
  BY <1>6, Zenon DEF isqrt32
<1> HIDE DEF q
<1>8. q \in Nat /\ q * q <= v /\ v < (q + 1) * (q + 1)
  <2>1. q \in Nat
    BY <1>7
  <2>2. (q + 1) * (q + 1) \in Nat
    BY <2>1
  <2> QED BY <1>7, <2>1, <2>2
<1> QED BY <1>8 DEF q

Disc(cx, cy, r) == {p \in Screen : InCircle(p, <<cx, cy>>, r)}

LEMMA FillCirclePaints ==
  ASSUME NEW cx \in Int, NEW cy \in Int, NEW r \in Nat
  PROVE  Paints(FillCircle(cx, cy, r), Disc(cx, cy, r))
<1> DEFINE Dx(i) == isqrt32(r * r - i * i)
           a == -r
           F == [i \in a .. r |-> HLine(cx - Dx(i), cy + i, 2 * Dx(i) + 1)]
           R == [i \in a .. r |-> Box(cx - Dx(i), cy + i, 2 * Dx(i) + 1, 1)]
<1>1. a \in Int
  OBVIOUS
<1>2. FillCircle(cx, cy, r) = EachOf(F, a, r)
  <2>1. \A i \in 1 .. Len(Run(a, r)) :
          F[a + i - 1] = HLine(cx - Dx(a + i - 1), cy + (a + i - 1), 2 * Dx(a + i - 1) + 1)
    <3>1. \A i \in 1 .. Len(Run(a, r)) : a + i - 1 \in a .. r
      BY <1>1, RunIs
    <3> HIDE DEF a, Dx
    <3> QED BY <3>1
  <2>2. FillCircle(cx, cy, r) = FlattenSeq([i \in 1 .. Len(Run(a, r)) |->
          HLine(cx - Dx(a + i - 1), cy + (a + i - 1), 2 * Dx(a + i - 1) + 1)])
    BY Zenon DEF FillCircle, Each
  <2> HIDE DEF a, F, Dx
  <2>3. [i \in 1 .. Len(Run(a, r)) |->
           HLine(cx - Dx(a + i - 1), cy + (a + i - 1), 2 * Dx(a + i - 1) + 1)]
        = [i \in 1 .. Len(Run(a, r)) |-> F[a + i - 1]]
    BY <2>1
  <2> QED BY <2>2, <2>3 DEF EachOf
<1>3. ASSUME NEW i \in a .. r
      PROVE  /\ i * i <= r * r /\ r * r - i * i \in Nat
             /\ Dx(i) \in Nat /\ Dx(i) * Dx(i) <= r * r - i * i
             /\ r * r - i * i < (Dx(i) + 1) * (Dx(i) + 1)
  <2>1. i * i <= r * r
    <3> DEFINE w == IF i >= 0 THEN i ELSE -i
    <3>1. w \in Nat /\ w <= r
      OBVIOUS
    <3>2. w * w = i * i
      BY SquareOfMinus
    <3> HIDE DEF w
    <3> QED BY <3>1, <3>2, SquareGrows
  <2>2. i * i \in Int /\ r * r \in Int
    OBVIOUS
  <2>3. r * r - i * i \in Nat
    BY <2>1, <2>2
  <2> QED BY <2>1, <2>3, SqrtIs
<1>4. ASSUME NEW i \in a .. r PROVE Paints(F[i], R[i])
  <2>1. Dx(i) \in Nat
    BY <1>3
  <2>2. cx - Dx(i) \in Int /\ cy + i \in Int /\ 2 * Dx(i) + 1 \in Int
    BY <2>1
  <2> HIDE DEF Dx
  <2> QED BY <2>2, HLinePaints
<1>5. ASSUME NEW i \in a .. r, NEW p \in Screen
      PROVE  p \in R[i] <=> p[2] = cy + i /\ Square(p[1] - cx) + Square(p[2] - cy) <= r * r
  <2> DEFINE q == Dx(i)
             u == p[1] - cx
  <2>1. q \in Nat /\ q * q <= r * r - i * i /\ r * r - i * i < (q + 1) * (q + 1) /\ r * r - i * i \in Nat
    BY <1>3
  <2>2. p[1] \in Int /\ p[2] \in Int /\ i \in Int
    BY ScreenPoint
  <2> HIDE DEF q
  <2>3. p \in Box(cx - q, cy + i, 2 * q + 1, 1) <=>
          cx - q <= p[1] /\ p[1] < (cx - q) + (2 * q + 1) /\ cy + i <= p[2] /\ p[2] < (cy + i) + 1
    <3>1. cx - q \in Int /\ cy + i \in Int /\ 2 * q + 1 \in Int
      BY <2>1, <2>2
    <3> QED BY <3>1, BoxIs
  <2>4. p \in Box(cx - q, cy + i, 2 * q + 1, 1) <=> -q <= u /\ u <= q /\ p[2] = cy + i
    BY <2>1, <2>2, <2>3
  <2>5. u \in Int
    BY <2>2
  <2>6. -q <= u /\ u <= q <=> u * u <= r * r - i * i
    <3> HIDE DEF u
    <3> QED BY <2>1, <2>5, UnderRoot
  <2>7. p[2] = cy + i => (u * u <= r * r - i * i <=> Square(p[1] - cx) + Square(p[2] - cy) <= r * r)
    <3> SUFFICES ASSUME p[2] = cy + i
                 PROVE  u * u <= r * r - i * i <=> Square(p[1] - cx) + Square(p[2] - cy) <= r * r
      OBVIOUS
    <3>1. p[2] - cy = i
      BY <2>2
    <3>2. Square(p[1] - cx) = u * u /\ Square(p[2] - cy) = i * i
      BY <3>1 DEF Square
    <3>3. u * u \in Int /\ i * i \in Int /\ r * r \in Int
      BY <2>2, <2>5
    <3> DEFINE uu == u * u
               ii == i * i
               rr == r * r
    <3> HIDE DEF uu, ii, rr
    <3>4. uu <= rr - ii <=> uu + ii <= rr
      <4>1. uu \in Int /\ ii \in Int /\ rr \in Int
        BY <3>3 DEF uu, ii, rr
      <4> QED BY <4>1
    <3> QED BY <3>2, <3>4 DEF uu, ii, rr
  <2>8. R[i] = Box(cx - q, cy + i, 2 * q + 1, 1)
    BY DEF q
  <2> HIDE DEF u, R
  <2> QED BY <2>4, <2>6, <2>7, <2>8
<1>6. \A i, j \in a .. r : i # j => \A p \in Screen : ~(p \in R[i] /\ p \in R[j])
  <2> SUFFICES ASSUME NEW i \in a .. r, NEW j \in a .. r, i # j, NEW p \in Screen
               PROVE  ~(p \in R[i] /\ p \in R[j])
    OBVIOUS
  <2>1. (p \in R[i] => p[2] = cy + i) /\ (p \in R[j] => p[2] = cy + j)
    BY <1>5
  <2>2. cy + i # cy + j
    OBVIOUS
  <2> HIDE DEF R
  <2> QED BY <2>1, <2>2
<1>7. Paints(EachOf(F, a, r), {p \in Screen : \E i \in a .. r : p \in R[i]})
  <2> HIDE DEF a, F, R
  <2> QED BY <1>1, <1>4, <1>6, EachPaints
<1>8. ASSUME NEW p \in Screen
      PROVE  p \in {q \in Screen : \E i \in a .. r : q \in R[i]} <=> p \in Disc(cx, cy, r)
  <2> DEFINE In == Square(p[1] - cx) + Square(p[2] - cy) <= r * r
             j == p[2] - cy
  <2>1. p[1] \in Int /\ p[2] \in Int
    BY ScreenPoint
  <2>2. p \in Disc(cx, cy, r) <=> In
    BY DEF Disc, InCircle
  <2>3. In => j \in a .. r /\ p[2] = cy + j
    <3> SUFFICES ASSUME In PROVE j \in a .. r
      BY <2>1
    <3> DEFINE u == p[1] - cx
    <3>1. u \in Int /\ j \in Int
      BY <2>1
    <3>2. u * u + j * j <= r * r
      BY DEF Square
    <3> HIDE DEF u, j
    <3>3. u * u \in Nat /\ j * j \in Nat /\ r * r \in Nat
      BY <3>1, SquareOfMinus
    <3>4. j * j <= r * r
      BY <3>2, <3>3
    <3>5. r * r < (r + 1) * (r + 1)
      <4>1. (r + 1) * (r + 1) = r * r + 2 * r + 1
        OBVIOUS
      <4> QED BY <4>1, <3>3
    <3>6. r * r <= r * r
      BY <3>3
    <3>7. -r <= j /\ j <= r
      BY <3>1, <3>3, <3>4, <3>5, <3>6, UnderRoot
    <3> QED BY <3>1, <3>7
  <2> HIDE DEF In, R, j
  <2>4. \A i \in a .. r : p \in R[i] <=> p[2] = cy + i /\ In
    BY <1>5 DEF In
  <2> HIDE DEF a
  <2> QED BY <2>2, <2>3, <2>4
<1> HIDE DEF a, F, R
<1> QED BY <1>2, <1>7, <1>8, SamePaints

(* A function defined by recursion exists.                                 *)

Solves(f, N, V, v0, G) ==
  /\ f \in [0 .. N -> V]
  /\ f[0] = v0
  /\ \A n \in 1 .. N : f[n] = G[n][f[n - 1]]

LEMMA Recursion ==
  ASSUME NEW N \in Nat, NEW V, NEW v0 \in V, NEW G \in [1 .. N -> [V -> V]]
  PROVE  \E f : Solves(f, N, V, v0, G)
<1> DEFINE P(n) == \E f \in [0 .. n -> V] : f[0] = v0 /\ \A k \in 1 .. n : f[k] = G[k][f[k - 1]]
           T == {n \in Nat : n <= N => P(n)}
<1>1. P(0)
  <2> DEFINE e == [i \in 0 .. 0 |-> v0]
  <2>1. e \in [0 .. 0 -> V] /\ e[0] = v0 /\ \A i \in 1 .. 0 : FALSE
    OBVIOUS
  <2> QED BY <2>1, Zenon
<1>2. ASSUME NEW n \in Nat, n + 1 <= N, P(n) PROVE P(n + 1)
  <2>1. PICK f \in [0 .. n -> V] : f[0] = v0 /\ \A k \in 1 .. n : f[k] = G[k][f[k - 1]]
    BY <1>2
  <2> DEFINE g == [i \in 0 .. n + 1 |-> IF i = n + 1 THEN G[n + 1][f[n]] ELSE f[i]]
  <2>2. G[n + 1][f[n]] \in V
    BY <1>2
  <2>3. g \in [0 .. n + 1 -> V]
    BY <2>2
  <2>4. g[0] = v0
    BY <2>1
  <2>5. ASSUME NEW k \in 1 .. n + 1 PROVE g[k] = G[k][g[k - 1]]
    <3>1. g[k - 1] = f[k - 1]
      OBVIOUS
    <3>2. CASE k = n + 1
      <4>1. g[k] = G[n + 1][f[n]] /\ k - 1 = n
        BY <3>2
      <4> QED BY <3>1, <3>2, <4>1
    <3>3. CASE k # n + 1
      <4>1. g[k] = f[k] /\ k \in 1 .. n
        BY <3>3
      <4> QED BY <2>1, <3>1, <4>1
    <3> QED BY <3>2, <3>3
  <2> HIDE DEF g
  <2>6. \A k \in 1 .. n + 1 : g[k] = G[k][g[k - 1]]
    BY <2>5
  <2> QED BY <2>3, <2>4, <2>6
<1> HIDE DEF P
<1>3. \A n \in Nat : n \in T => n + 1 \in T
  BY <1>2
<1>4. 0 \in T
  BY <1>1
<1> HIDE DEF T
<1>5. N \in T
  BY <1>3, <1>4, Induction
<1>6. P(N)
  BY <1>5 DEF T
<1> QED BY <1>6, Zenon DEF P, Solves

-----------------------------------------------------------------------------
(* Circles: the middle-point algorithm.                                    *)

CircleTurn(x, s) == IF s.d < 0 THEN [y |-> s.y, d |-> s.d + 2 * x + 3]
                    ELSE [y |-> s.y - 1, d |-> s.d + 2 * (x - s.y) + 5]

LEMMA CircleStepsAre ==
  ASSUME NEW r \in Nat
  PROVE  /\ CircleSteps(r)[0] = [y |-> r, d |-> 1 - r]
         /\ \A x \in 0 .. r : CircleSteps(r)[x + 1] = CircleTurn(x, CircleSteps(r)[x])
<1> DEFINE V == [y : Int, d : Int]
           v0 == [y |-> r, d |-> 1 - r]
           G == [n \in 1 .. r + 1 |-> [e \in V |-> CircleTurn(n - 1, e)]]
           Eq(f) == f = [x \in 0 .. r + 1 |-> IF x = 0 THEN v0 ELSE CircleTurn(x - 1, f[x - 1])]
           F == CHOOSE f : Eq(f)
<1>1. v0 \in V
  OBVIOUS
<1>2. \A n \in 1 .. r + 1, s \in V : CircleTurn(n - 1, s) \in V
  BY DEF CircleTurn
<1>3. G \in [1 .. r + 1 -> [V -> V]]
  BY <1>2
<1>4. PICK f \in [0 .. r + 1 -> V] :
        f[0] = v0 /\ \A n \in 1 .. r + 1 : f[n] = G[n][f[n - 1]]
  <2> DEFINE N == r + 1
  <2>1. N \in Nat
    OBVIOUS
  <2>2. v0 \in V /\ G \in [1 .. N -> [V -> V]]
    BY <1>1, <1>3
  <2> HIDE DEF G, V, v0, N
  <2>3. \E f : Solves(f, N, V, v0, G)
    BY <2>1, <2>2, Recursion
  <2> QED BY <2>3 DEF N, Solves
<1>5. Eq(f)
  <2>1. ASSUME NEW x \in 0 .. r + 1 PROVE f[x] = IF x = 0 THEN v0 ELSE CircleTurn(x - 1, f[x - 1])
    <3>1. CASE x = 0
      BY <3>1, <1>4
    <3>2. CASE x # 0
      <4>1. x \in 1 .. r + 1 /\ f[x - 1] \in V
        BY <3>2
      <4>2. G[x][f[x - 1]] = CircleTurn(x - 1, f[x - 1])
        <5> HIDE DEF V
        <5> QED BY <4>1
      <4> HIDE DEF G
      <4> QED BY <3>2, <4>1, <4>2, <1>4
    <3> QED BY <3>1, <3>2
  <2> HIDE DEF v0, V, G
  <2> QED BY <2>1
<1>6. Eq(F)
  <2> HIDE DEF Eq
  <2> QED BY <1>5
<1>7. CircleSteps(r) = F
  BY DEF CircleSteps, CircleTurn
<1> HIDE DEF F
<1>8. F[0] = v0
  BY <1>6
<1>9. ASSUME NEW x \in 0 .. r PROVE F[x + 1] = CircleTurn(x, F[x])
  <2>1. x + 1 \in 0 .. r + 1 /\ x + 1 # 0 /\ (x + 1) - 1 = x
    OBVIOUS
  <2> HIDE DEF v0
  <2>2. F[x + 1] = CircleTurn((x + 1) - 1, F[(x + 1) - 1])
    BY <1>6, <2>1
  <2> QED BY <2>1, <2>2
<1> QED BY <1>7, <1>8, <1>9

(* The error d is that of the point between the two candidates for the     *)
(* next step, and every point so far is the nearest to the circle.         *)
NearCircle(x, y, d, r) ==
  /\ y \in Int /\ d \in Int /\ y <= r
  /\ d = (x + 1) * (x + 1) + y * y - y - r * r
  /\ x * x + y * y + y - r * r >= 0
  /\ r > 0 /\ x <= y => x * x + y * y - y - r * r < 0

LEMMA CircleKeeps ==
  ASSUME NEW r \in Nat, NEW x \in Nat, NEW y, NEW d, NearCircle(x, y, d, r),
         NEW y2, NEW d2,
         \/ d < 0 /\ y2 = y /\ d2 = d + 2 * x + 3
         \/ ~(d < 0) /\ y2 = y - 1 /\ d2 = d + 2 * (x - y) + 5
  PROVE  NearCircle(x + 1, y2, d2, r)
<1> DEFINE X == x * x
           Y == y * y
           Q == r * r
           X1 == (x + 1) * (x + 1)
           X2 == ((x + 1) + 1) * ((x + 1) + 1)
           Y1 == (y - 1) * (y - 1)
<1>1. /\ y \in Int /\ d \in Int /\ y <= r
      /\ d = X1 + Y - y - Q
      /\ X + Y + y - Q >= 0
      /\ r > 0 /\ x <= y => X + Y - y - Q < 0
  BY DEF NearCircle
<1>2. X1 = X + 2 * x + 1 /\ X2 = X + 4 * x + 4 /\ X \in Int /\ Q \in Int
  OBVIOUS
<1>3. Y1 = Y - 2 * y + 1 /\ Y \in Int
  BY <1>1
<1> HIDE DEF X, Y, Q, X1, X2, Y1
<1>4. CASE d < 0
  <2>1. y2 = y /\ d2 = d + 2 * x + 3
    BY <1>4
  <2>2. /\ y2 \in Int /\ d2 \in Int /\ y2 <= r
        /\ d2 = X2 + Y - y - Q
        /\ X1 + Y + y - Q >= 0
        /\ X1 + Y - y - Q < 0
    BY <1>1, <1>2, <1>3, <1>4, <2>1
  <2> QED BY <2>1, <2>2 DEF NearCircle, X1, X2, Y, Q
<1>5. CASE ~(d < 0)
  <2>1. y2 = y - 1 /\ d2 = d + 2 * (x - y) + 5
    BY <1>5
  <2>2. /\ y2 \in Int /\ d2 \in Int /\ y2 <= r
        /\ d2 = X2 + Y1 - y2 - Q
        /\ X1 + Y1 + y2 - Q >= 0
    BY <1>1, <1>2, <1>3, <1>5, <2>1
  <2>3. r > 0 /\ x + 1 <= y2 => X1 + Y1 - y2 - Q < 0
    BY <1>1, <1>2, <1>3, <1>5, <2>1
  <2> QED BY <2>1, <2>2, <2>3 DEF NearCircle, X1, X2, Y1, Q
<1> QED BY <1>4, <1>5

LEMMA CircleStepsNear ==
  ASSUME NEW r \in Nat
  PROVE  LET s == CircleSteps(r)
         IN  \A x \in 0 .. r + 1 :
               /\ NearCircle(x, s[x].y, s[x].d, r)
               /\ x <= r => s[x + 1].y <= s[x].y /\ s[x + 1].y >= s[x].y - 1
<1> DEFINE s == CircleSteps(r)
           T == {x \in Nat : x <= r + 1 => NearCircle(x, s[x].y, s[x].d, r)}
<1>1. s[0] = [y |-> r, d |-> 1 - r] /\ \A x \in 0 .. r : s[x + 1] = CircleTurn(x, s[x])
  BY CircleStepsAre
<1> HIDE DEF s
<1>2. 0 \in T
  <2>1. s[0].y = r /\ s[0].d = 1 - r
    BY <1>1
  <2>2. NearCircle(0, r, 1 - r, r)
    <3> DEFINE Q == r * r
    <3>1. Q \in Int /\ 0 * 0 = 0 /\ (0 + 1) * (0 + 1) = 1
      OBVIOUS
    <3> HIDE DEF Q
    <3>2. 1 - r = 1 + Q - r - Q /\ 0 + Q + r - Q >= 0 /\ (r > 0 => 0 + Q - r - Q < 0)
      BY <3>1
    <3> QED BY <3>1, <3>2 DEF NearCircle, Q
  <2> QED BY <2>1, <2>2
<1>3. ASSUME NEW x \in 0 .. r
      PROVE  \/ s[x].d < 0 /\ s[x + 1].y = s[x].y /\ s[x + 1].d = s[x].d + 2 * x + 3
             \/ ~(s[x].d < 0) /\ s[x + 1].y = s[x].y - 1 /\ s[x + 1].d = s[x].d + 2 * (x - s[x].y) + 5
  <2>1. s[x + 1] = CircleTurn(x, s[x])
    BY <1>1
  <2>2. CASE s[x].d < 0
    <3>1. s[x + 1] = [y |-> s[x].y, d |-> s[x].d + 2 * x + 3]
      BY <2>1, <2>2 DEF CircleTurn
    <3> QED BY <2>2, <3>1
  <2>3. CASE ~(s[x].d < 0)
    <3>1. s[x + 1] = [y |-> s[x].y - 1, d |-> s[x].d + 2 * (x - s[x].y) + 5]
      BY <2>1, <2>3 DEF CircleTurn
    <3> QED BY <2>3, <3>1
  <2> QED BY <2>2, <2>3
<1>4. ASSUME NEW x \in Nat, x \in T PROVE x + 1 \in T
  <2> SUFFICES ASSUME x + 1 <= r + 1 PROVE NearCircle(x + 1, s[x + 1].y, s[x + 1].d, r)
    OBVIOUS
  <2>1. NearCircle(x, s[x].y, s[x].d, r) /\ x \in 0 .. r
    BY <1>4
  <2> HIDE DEF T
  <2> QED BY <1>3, <2>1, CircleKeeps
<1>5. ASSUME NEW x \in 0 .. r + 1 PROVE NearCircle(x, s[x].y, s[x].d, r)
  <2> HIDE DEF T
  <2>1. x \in T
    BY <1>2, <1>4, Induction
  <2> QED BY <2>1 DEF T
<1>6. ASSUME NEW x \in 0 .. r PROVE s[x + 1].y <= s[x].y /\ s[x + 1].y >= s[x].y - 1
  <2>1. s[x].y \in Int
    BY <1>5 DEF NearCircle
  <2> QED BY <2>1, <1>3
<1> QED BY <1>5, <1>6 DEF s

(* A sequence of the pixels of S, each of them once.                       *)
Dots(ps, S) ==
  /\ ps \in Seq(Int \X Int)
  /\ \A p : p \in S <=> \E i \in 1 .. Len(ps) : ps[i] = p
  /\ \A i, j \in 1 .. Len(ps) : ps[i] = ps[j] => i = j

LEMMA NoDots == Dots(<< >>, {})
BY DEF Dots

LEMMA TwoDots ==
  ASSUME NEW u \in Int \X Int, NEW v \in Int \X Int, u # v
  PROVE  Dots(<<u, v>>, {u, v})
<1>1. <<u, v>> \in Seq(Int \X Int) /\ Len(<<u, v>>) = 2 /\ <<u, v>>[1] = u /\ <<u, v>>[2] = v
  OBVIOUS
<1>2. 1 .. 2 = {1, 2}
  OBVIOUS
<1> QED BY <1>1, <1>2 DEF Dots

LEMMA ConcatDots ==
  ASSUME NEW a, NEW b, NEW S, NEW T, Dots(a, S), Dots(b, T), S \cap T = {}
  PROVE  Dots(a \o b, S \union T)
<1>1. a \in Seq(Int \X Int) /\ b \in Seq(Int \X Int)
  BY DEF Dots
<1> DEFINE c == a \o b
           m == Len(a)
           n == Len(b)
<1>2. c \in Seq(Int \X Int)
  BY <1>1
<1>3. m \in Nat /\ n \in Nat /\ Len(c) = m + n
  BY <1>1
<1>4. /\ \A i \in 1 .. m : c[i] = a[i]
      /\ \A i \in 1 .. n : c[i + m] = b[i]
  <2>1. \A i \in 1 .. m : c[i] = a[i]
    BY <1>1
  <2>2. \A i \in 1 .. n : c[i + m] = b[i]
    BY <1>1
  <2> QED BY <2>1, <2>2
<1>5. /\ \A p : p \in S <=> \E i \in 1 .. m : a[i] = p
      /\ \A p : p \in T <=> \E i \in 1 .. n : b[i] = p
      /\ \A i, j \in 1 .. m : a[i] = a[j] => i = j
      /\ \A i, j \in 1 .. n : b[i] = b[j] => i = j
  BY DEF Dots
<1> HIDE DEF c, m, n
<1>6. \A i \in 1 .. m + n : i \in 1 .. m \/ (i - m \in 1 .. n /\ i = (i - m) + m)
  BY <1>3
<1>7. ASSUME NEW i \in 1 .. m + n
      PROVE  \/ i \in 1 .. m /\ c[i] = a[i] /\ c[i] \in S
             \/ i - m \in 1 .. n /\ c[i] = b[i - m] /\ c[i] \in T /\ i = (i - m) + m
  <2>1. CASE i \in 1 .. m
    BY <2>1, <1>4, <1>5
  <2>2. CASE i - m \in 1 .. n /\ i = (i - m) + m
    <3>1. c[(i - m) + m] = b[i - m]
      BY <2>2, <1>4
    <3> QED BY <2>2, <3>1, <1>5
  <2> QED BY <1>6, <2>1, <2>2
<1>8. ASSUME NEW p, p \in S \union T PROVE \E i \in 1 .. m + n : c[i] = p
  <2>1. CASE p \in S
    <3>1. PICK i \in 1 .. m : a[i] = p
      BY <2>1, <1>5
    <3>2. i \in 1 .. m + n
      BY <1>3
    <3> QED BY <3>1, <3>2, <1>4
  <2>2. CASE p \in T
    <3>1. PICK i \in 1 .. n : b[i] = p
      BY <2>2, <1>5
    <3>2. i + m \in 1 .. m + n
      BY <1>3
    <3> QED BY <3>1, <3>2, <1>4
  <2> QED BY <1>8, <2>1, <2>2
<1>9. ASSUME NEW i \in 1 .. m + n, NEW j \in 1 .. m + n, c[i] = c[j] PROVE i = j
  <2>1. CASE i \in 1 .. m /\ j \in 1 .. m
    BY <2>1, <1>4, <1>5, <1>9
  <2>2. CASE i - m \in 1 .. n /\ j - m \in 1 .. n /\ c[i] = b[i - m] /\ c[j] = b[j - m]
    <3>1. i - m = j - m
      BY <2>2, <1>5, <1>9
    <3> QED BY <3>1, <1>3
  <2>3. \/ i \in 1 .. m /\ j \in 1 .. m
        \/ i - m \in 1 .. n /\ j - m \in 1 .. n /\ c[i] = b[i - m] /\ c[j] = b[j - m]
    BY <1>7, <1>9
  <2> QED BY <2>1, <2>2, <2>3
<1>10. \A p : p \in S \union T <=> \E i \in 1 .. m + n : c[i] = p
  BY <1>7, <1>8
<1>11. \A i, j \in 1 .. m + n : c[i] = c[j] => i = j
  BY <1>9
<1>12. Dots(c, S \union T)
  BY <1>2, <1>3, <1>10, <1>11 DEF Dots
<1> QED BY <1>12 DEF c

LEMMA DotsPaint ==
  ASSUME NEW ps, NEW S, Dots(ps, S)
  PROVE  Paints(Pixels(ps), S)
<1>1. ps \in Seq(Int \X Int) /\ \A i, j \in 1 .. Len(ps) : ps[i] = ps[j] => i = j
  BY DEF Dots
<1>2. Paints(Pixels(ps), {p \in Screen : \E i \in 1 .. Len(ps) : p = ps[i]})
  BY <1>1, PixelsPaint
<1>3. \A p \in Screen : p \in {q \in Screen : \E i \in 1 .. Len(ps) : q = ps[i]} <=> p \in S
  BY DEF Dots
<1> QED BY <1>2, <1>3, SamePaints

-----------------------------------------------------------------------------
(* The mirrored points of an octant.                                       *)

Mirrored(p, cx, cy, x, y) == iabs(p[1] - cx) = x /\ iabs(p[2] - cy) = y

Ring(cx, cy, x, y) ==
  {p \in Int \X Int : Mirrored(p, cx, cy, x, y) \/ Mirrored(p, cx, cy, y, x)}

LEMMA MirroredIs ==
  ASSUME NEW cx \in Int, NEW cy \in Int, NEW x \in Nat, NEW y \in Nat, NEW p \in Int \X Int
  PROVE  Mirrored(p, cx, cy, x, y) <=> (p[1] = cx + x \/ p[1] = cx - x) /\ (p[2] = cy + y \/ p[2] = cy - y)
<1>1. p[1] \in Int /\ p[2] \in Int
  OBVIOUS
<1> QED BY <1>1 DEF Mirrored, iabs, Larger

LEMMA OctantDots ==
  ASSUME NEW cx \in Int, NEW cy \in Int, NEW x \in Nat, NEW y \in Nat, x <= y, y > 0
  PROVE  Dots(circle_points(cx, cy, x, y), Ring(cx, cy, x, y))
<1> DEFINE a1 == <<cx + x, cy + y>>
           a2 == <<cx + x, cy - y>>
           b1 == <<cx - x, cy + y>>
           b2 == <<cx - x, cy - y>>
           c1 == <<cx + y, cy + x>>
           c2 == <<cx - y, cy + x>>
           d1 == <<cx + y, cy - x>>
           d2 == <<cx - y, cy - x>>
           A == <<a1, a2>>
           B == IF x # 0 THEN <<b1, b2>> ELSE << >>
           C == IF x # y THEN <<c1, c2>> ELSE << >>
           D == IF x # y /\ x # 0 THEN <<d1, d2>> ELSE << >>
           SB == IF x # 0 THEN {b1, b2} ELSE {}
           SC == IF x # y THEN {c1, c2} ELSE {}
           SD == IF x # y /\ x # 0 THEN {d1, d2} ELSE {}
<1>1. circle_points(cx, cy, x, y) = ((A \o B) \o C) \o D
  BY DEF circle_points
<1>2. Dots(A, {a1, a2})
  <2>1. a1 \in Int \X Int /\ a2 \in Int \X Int /\ a1 # a2
    OBVIOUS
  <2> HIDE DEF a1, a2
  <2> QED BY <2>1, TwoDots
<1>3. Dots(B, SB)
  <2>1. b1 \in Int \X Int /\ b2 \in Int \X Int /\ b1 # b2
    OBVIOUS
  <2> HIDE DEF b1, b2
  <2> QED BY <2>1, TwoDots, NoDots
<1>4. Dots(C, SC)
  <2>1. c1 \in Int \X Int /\ c2 \in Int \X Int /\ c1 # c2
    OBVIOUS
  <2> HIDE DEF c1, c2
  <2> QED BY <2>1, TwoDots, NoDots
<1>5. Dots(D, SD)
  <2>1. d1 \in Int \X Int /\ d2 \in Int \X Int /\ d1 # d2
    OBVIOUS
  <2> HIDE DEF d1, d2
  <2> QED BY <2>1, TwoDots, NoDots
<1>6. {a1, a2} \cap SB = {} /\ ({a1, a2} \union SB) \cap SC = {}
  <2>1. x # 0 => a1 # b1 /\ a1 # b2 /\ a2 # b1 /\ a2 # b2
    OBVIOUS
  <2>2. x # y => /\ a1 # c1 /\ a1 # c2 /\ a2 # c1 /\ a2 # c2
                 /\ b1 # c1 /\ b1 # c2 /\ b2 # c1 /\ b2 # c2
    OBVIOUS
  <2> HIDE DEF a1, a2, b1, b2, c1, c2
  <2> QED BY <2>1, <2>2
<1>7. (({a1, a2} \union SB) \union SC) \cap SD = {}
  <2>1. x # y /\ x # 0 =>
          /\ a1 # d1 /\ a1 # d2 /\ a2 # d1 /\ a2 # d2
          /\ b1 # d1 /\ b1 # d2 /\ b2 # d1 /\ b2 # d2
          /\ c1 # d1 /\ c1 # d2 /\ c2 # d1 /\ c2 # d2
    OBVIOUS
  <2> HIDE DEF a1, a2, b1, b2, c1, c2, d1, d2
  <2> QED BY <2>1
<1>8. (({a1, a2} \union SB) \union SC) \union SD = Ring(cx, cy, x, y)
  <2> DEFINE S == (({a1, a2} \union SB) \union SC) \union SD
  <2>1. S \subseteq Int \X Int
    OBVIOUS
  <2>2. ASSUME NEW p \in Int \X Int PROVE p \in S <=> p \in Ring(cx, cy, x, y)
    <3>1. p = <<p[1], p[2]>> /\ p[1] \in Int /\ p[2] \in Int
      OBVIOUS
    <3>2. p \in Ring(cx, cy, x, y) <=>
            \/ (p[1] = cx + x \/ p[1] = cx - x) /\ (p[2] = cy + y \/ p[2] = cy - y)
            \/ (p[1] = cx + y \/ p[1] = cx - y) /\ (p[2] = cy + x \/ p[2] = cy - x)
      BY MirroredIs DEF Ring
    <3>3. /\ p = a1 <=> p[1] = cx + x /\ p[2] = cy + y
          /\ p = a2 <=> p[1] = cx + x /\ p[2] = cy - y
          /\ p = b1 <=> p[1] = cx - x /\ p[2] = cy + y
          /\ p = b2 <=> p[1] = cx - x /\ p[2] = cy - y
          /\ p = c1 <=> p[1] = cx + y /\ p[2] = cy + x
          /\ p = c2 <=> p[1] = cx - y /\ p[2] = cy + x
          /\ p = d1 <=> p[1] = cx + y /\ p[2] = cy - x
          /\ p = d2 <=> p[1] = cx - y /\ p[2] = cy - x
      BY <3>1
    <3>4. p \in S <=> \/ p = a1 \/ p = a2
                      \/ x # 0 /\ (p = b1 \/ p = b2)
                      \/ x # y /\ (p = c1 \/ p = c2)
                      \/ x # y /\ x # 0 /\ (p = d1 \/ p = d2)
      <4> HIDE DEF a1, a2, b1, b2, c1, c2, d1, d2
      <4> QED OBVIOUS
    <3> HIDE DEF S, a1, a2, b1, b2, c1, c2, d1, d2
    <3> QED BY <3>1, <3>2, <3>3, <3>4
  <2>3. Ring(cx, cy, x, y) \subseteq Int \X Int
    BY DEF Ring
  <2> HIDE DEF S
  <2>4. S = Ring(cx, cy, x, y)
    BY <2>1, <2>2, <2>3
  <2> QED BY <2>4 DEF S
<1> HIDE DEF A, B, C, D, SB, SC, SD, a1, a2
<1> DEFINE SA == {a1, a2}
<1> HIDE DEF SA
<1>9. Dots(A \o B, SA \union SB)
  BY <1>2, <1>3, <1>6, ConcatDots DEF SA
<1>10. Dots((A \o B) \o C, (SA \union SB) \union SC)
  BY <1>4, <1>6, <1>9, ConcatDots DEF SA
<1>11. Dots(((A \o B) \o C) \o D, ((SA \union SB) \union SC) \union SD)
  BY <1>5, <1>7, <1>10, ConcatDots DEF SA
<1> QED BY <1>1, <1>8, <1>11 DEF SA

(* Of two rows, the nearest to the circle in a column is one.              *)
LEMMA RowsApart ==
  ASSUME NEW m \in Nat, NEW n \in Int, n <= m - 1
  PROVE  n >= -1 => n * n + n <= m * m - m
<1> SUFFICES ASSUME n >= -1 PROVE n * n + n <= m * m - m
  OBVIOUS
<1> DEFINE k == n + 1
<1>1. k \in Nat /\ k <= m /\ n = k - 1
  OBVIOUS
<1> HIDE DEF k
<1>2. n * n + n = k * k - k /\ k * k \in Nat /\ m * m \in Nat
  BY <1>1
<1>3. CASE k = m
  BY <1>2, <1>3
<1>4. CASE k # m
  <2>1. m - 1 \in Nat /\ k <= m - 1
    BY <1>1, <1>4
  <2>2. k * k <= (m - 1) * (m - 1)
    BY <1>1, <2>1, SquareGrows
  <2>3. (m - 1) * (m - 1) = m * m - 2 * m + 1
    OBVIOUS
  <2>4. k >= 1 => k * k - k <= m * m - m
    BY <1>1, <1>2, <2>1, <2>2, <2>3
  <2>5. k = 0 => k * k - k <= m * m - m
    <3>1. m <= m * m
      <4>1. 1 <= m
        BY <2>1
      <4>2. 1 * m <= m * m
        BY <4>1, Product
      <4> QED BY <4>2
    <3> QED BY <3>1, <1>2
  <2> QED BY <1>1, <1>2, <2>4, <2>5
<1> QED BY <1>3, <1>4

(* The steps of the octant, and where the loop stops.                      *)
CircleEnd(r) ==
  LET step == CircleSteps(r)
  IN  CHOOSE x \in 0 .. r : x <= step[x].y /\ x + 1 > step[x + 1].y

LEMMA CircleEnds ==
  ASSUME NEW r \in Nat
  PROVE  LET s == CircleSteps(r)
             e == CircleEnd(r)
         IN  /\ e \in 0 .. r
             /\ \A x \in 0 .. e : x <= s[x].y
             /\ e + 1 > s[e + 1].y
<1> DEFINE s == CircleSteps(r)
           e == CircleEnd(r)
           S == {x \in 0 .. r + 1 : x > s[x].y}
<1>1. \A x \in 0 .. r + 1 : s[x].y \in Int /\ s[x].y <= r
  BY CircleStepsNear DEF NearCircle
<1>2. \A x \in 0 .. r : s[x + 1].y <= s[x].y
  BY CircleStepsNear
<1>3. s[0].y = r
  <2>1. s[0] = [y |-> r, d |-> 1 - r]
    BY CircleStepsAre
  <2> QED BY <2>1
<1>4. e = CHOOSE x \in 0 .. r : x <= s[x].y /\ x + 1 > s[x + 1].y
  BY DEF CircleEnd
<1> HIDE DEF s, e
<1>5. r + 1 \in S
  BY <1>1
<1>6. PICK n \in S : \A m \in S : n <= m
  <2>1. S \in SUBSET Nat /\ S # {}
    BY <1>5
  <2> HIDE DEF S
  <2> QED BY <2>1, Least
<1>7. n \in 0 .. r + 1 /\ n > s[n].y /\ n # 0
  BY <1>3, <1>6
<1>8. n - 1 \in 0 .. r /\ n - 1 \notin S /\ (n - 1) + 1 = n
  BY <1>6, <1>7
<1>9. n - 1 <= s[n - 1].y
  BY <1>1, <1>8
<1>10. \E x \in 0 .. r : x <= s[x].y /\ x + 1 > s[x + 1].y
  BY <1>7, <1>8, <1>9
<1>11. e \in 0 .. r /\ e <= s[e].y /\ e + 1 > s[e + 1].y
  BY <1>4, <1>10
<1> DEFINE T == {k \in Nat : k <= e => e - k <= s[e - k].y}
<1>12. 0 \in T
  BY <1>11
<1>13. ASSUME NEW k \in Nat, k \in T PROVE k + 1 \in T
  <2> SUFFICES ASSUME k + 1 <= e PROVE e - (k + 1) <= s[e - (k + 1)].y
    OBVIOUS
  <2> DEFINE x == e - (k + 1)
  <2>1. x \in 0 .. r /\ x + 1 = e - k /\ x + 1 \in 0 .. r + 1
    BY <1>11
  <2>2. x + 1 <= s[x + 1].y
    BY <1>11, <1>13, <2>1
  <2> HIDE DEF x
  <2>3. s[x + 1].y <= s[x].y /\ s[x + 1].y \in Int /\ s[x].y \in Int
    BY <1>1, <1>2, <2>1
  <2>4. x <= s[x].y
    BY <2>1, <2>2, <2>3
  <2> QED BY <2>4 DEF x
<1> HIDE DEF T
<1>14. ASSUME NEW x \in 0 .. e PROVE x <= s[x].y
  <2>1. e - x \in Nat /\ e - (e - x) = x /\ e - x <= e
    BY <1>11
  <2>2. e - x \in T
    BY <1>12, <1>13, <2>1, Induction
  <2>3. e - (e - x) <= s[e - (e - x)].y
    BY <2>1, <2>2 DEF T
  <2> QED BY <2>1, <2>3
<1> QED BY <1>11, <1>14 DEF s, e

(* The points of the octant are those the algorithm comes to.              *)
LEMMA OctantIs ==
  ASSUME NEW r \in Nat, r > 0, NEW a \in Nat, NEW b \in Nat
  PROVE  OnOctant(a, b, r) <=> a \in 0 .. CircleEnd(r) /\ b = CircleSteps(r)[a].y
<1> DEFINE s == CircleSteps(r)
           e == CircleEnd(r)
<1>1. /\ e \in 0 .. r
      /\ \A x \in 0 .. e : x <= s[x].y
      /\ e + 1 > s[e + 1].y
  BY CircleEnds
<1>2. \A x \in 0 .. r + 1 : NearCircle(x, s[x].y, s[x].d, r)
  BY CircleStepsNear
<1>3. s[e + 1].y >= s[e].y - 1
  BY <1>1, CircleStepsNear
<1> HIDE DEF s, e
<1>4. CASE a \in 0 .. e
  <2> DEFINE y == s[a].y
  <2>1. a <= y /\ y \in Int
    <3>1. NearCircle(a, y, s[a].d, r)
      BY <1>1, <1>2, <1>4
    <3> QED BY <1>1, <1>4, <3>1 DEF NearCircle
  <2>2. a * a + y * y + y - r * r >= 0 /\ a * a + y * y - y - r * r < 0
    <3>1. NearCircle(a, y, s[a].d, r)
      BY <1>1, <1>2, <1>4
    <3> QED BY <2>1, <3>1 DEF NearCircle
  <2> HIDE DEF y
  <2> DEFINE A == a * a
             B == b * b
             Y == y * y
             Q == r * r
  <2>3. y \in Nat /\ A \in Int /\ B \in Int /\ Y \in Int /\ Q \in Int
    BY <2>1
  <2>4. b <= y - 1 => B + b <= Y - y
    BY <2>3, RowsApart
  <2>5. y <= b - 1 => Y + y <= B - b
    BY <2>3, RowsApart
  <2>6. OnOctant(a, b, r) <=> a <= b /\ B - b < Q - A /\ Q - A <= B + b
    BY DEF OnOctant
  <2>7. A + Y + y - Q >= 0 /\ A + Y - y - Q < 0
    BY <2>2
  <2> HIDE DEF A, B, Y, Q
  <2>8. OnOctant(a, b, r) => b = y
    BY <2>3, <2>4, <2>5, <2>6, <2>7
  <2>9. b = y => B = Y
    BY DEF B, Y
  <2>10. b = y => OnOctant(a, b, r)
    BY <2>1, <2>3, <2>6, <2>7, <2>9
  <2> QED BY <1>4, <2>8, <2>10 DEF y, s, e
<1>5. CASE a \notin 0 .. e
  <2> DEFINE y == s[e + 1].y
  <2>1. e + 1 \in 0 .. r + 1 /\ e + 1 <= a /\ e \in Nat
    BY <1>1, <1>5
  <2>2. y \in Int /\ (e + 1) * (e + 1) + y * y + y - r * r >= 0 /\ y <= e /\ y >= -1
    <3>1. NearCircle(e + 1, y, s[e + 1].d, r) /\ NearCircle(e, s[e].y, s[e].d, r)
      BY <1>1, <1>2, <2>1
    <3>2. y \in Int /\ s[e].y \in Int /\ e <= s[e].y
      BY <1>1, <3>1 DEF NearCircle
    <3>3. y <= e /\ y >= -1
      BY <1>1, <1>3, <2>1, <3>2
    <3> QED BY <3>1, <3>2, <3>3 DEF NearCircle
  <2> HIDE DEF y
  <2> SUFFICES ASSUME OnOctant(a, b, r) PROVE FALSE
    BY <1>5 DEF e
  <2> DEFINE A == a * a
             B == b * b
             E == (e + 1) * (e + 1)
             Y == y * y
             Q == r * r
  <2>3. a <= b /\ B - b < Q - A
    BY DEF OnOctant
  <2>4. A \in Int /\ B \in Int /\ Y \in Int /\ Q \in Int /\ E \in Int
    BY <2>1, <2>2
  <2>5. E <= A
    BY <2>1, SquareGrows
  <2>6. y <= b - 1 => Y + y <= B - b
    BY <2>2, RowsApart
  <2>7. E + Y + y - Q >= 0
    BY <2>2
  <2> HIDE DEF A, B, E, Y, Q
  <2>8. ~(y <= b - 1)
    BY <2>2, <2>3, <2>4, <2>5, <2>6, <2>7
  <2> QED BY <2>1, <2>2, <2>3, <2>8
<1> QED BY <1>4, <1>5

Round(cx, cy, r) == {p \in Screen : OnCircle(p, <<cx, cy>>, r)}

CircleRow(cx, cy, r) ==
  [i \in 0 .. CircleEnd(r) |-> Pixels(circle_points(cx, cy, i, CircleSteps(r)[i].y))]

LEMMA CircleIs ==
  ASSUME NEW cx, NEW cy, NEW r \in Nat
  PROVE  Circle(cx, cy, r) = EachOf(CircleRow(cx, cy, r), 0, CircleEnd(r))
<1> DEFINE s == CircleSteps(r)
           e == CircleEnd(r)
           F == CircleRow(cx, cy, r)
<1>1. Circle(cx, cy, r) = FlattenSeq([i \in 1 .. Len(Run(0, e)) |->
        Pixels(circle_points(cx, cy, 0 + i - 1, s[0 + i - 1].y))])
  BY DEF Circle, CircleEnd, Each
<1>2. e \in 0 .. r
  BY CircleEnds
<1> HIDE DEF e
<1>3. \A i \in 1 .. Len(Run(0, e)) : 0 + i - 1 \in 0 .. e
  BY <1>2, RunIs
<1>4. \A i \in 1 .. Len(Run(0, e)) :
        F[0 + i - 1] = Pixels(circle_points(cx, cy, 0 + i - 1, s[0 + i - 1].y))
  BY <1>3 DEF CircleRow, e
<1> HIDE DEF F, s
<1>5. [i \in 1 .. Len(Run(0, e)) |-> Pixels(circle_points(cx, cy, 0 + i - 1, s[0 + i - 1].y))]
      = [i \in 1 .. Len(Run(0, e)) |-> F[0 + i - 1]]
  BY <1>4
<1> QED BY <1>1, <1>5 DEF EachOf, e, F

LEMMA AbsIs ==
  ASSUME NEW u \in Int
  PROVE  iabs(u) \in Nat /\ iabs(u) = IF u < 0 THEN -u ELSE u
BY DEF iabs, Larger

(* A circle of some size has each of its pixels written once, ...          *)
LEMMA CirclePaints ==
  ASSUME NEW cx \in Int, NEW cy \in Int, NEW r \in Nat, r > 0
  PROVE  Paints(Circle(cx, cy, r), Round(cx, cy, r))
<1> DEFINE s == CircleSteps(r)
           e == CircleEnd(r)
           F == CircleRow(cx, cy, r)
           R == [i \in 0 .. e |-> Ring(cx, cy, i, s[i].y)]
<1>1. e \in 0 .. r /\ \A x \in 0 .. e : x <= s[x].y
  BY CircleEnds
<1>2. \A a, b \in Nat : OnOctant(a, b, r) <=> a \in 0 .. e /\ b = s[a].y
  BY OctantIs
<1>3. \A i \in 0 .. e : s[i].y \in Int
  <2>1. \A i \in 0 .. e : NearCircle(i, s[i].y, s[i].d, r)
    BY <1>1, CircleStepsNear
  <2> QED BY <2>1 DEF NearCircle
<1>4. s[0].y = r
  <2>1. s[0] = [y |-> r, d |-> 1 - r]
    BY CircleStepsAre
  <2> QED BY <2>1
<1> HIDE DEF s, e
<1>5. ASSUME NEW i \in 0 .. e
      PROVE  i \in Nat /\ s[i].y \in Nat /\ i <= s[i].y /\ s[i].y > 0
  BY <1>1, <1>3, <1>4
<1>6. ASSUME NEW i \in 0 .. e PROVE Paints(F[i], R[i])
  <2>1. Dots(circle_points(cx, cy, i, s[i].y), Ring(cx, cy, i, s[i].y))
    BY <1>5, OctantDots
  <2>2. F[i] = Pixels(circle_points(cx, cy, i, s[i].y))
    BY DEF CircleRow, s, e
  <2> HIDE DEF F
  <2> QED BY <2>1, <2>2, DotsPaint
<1>7. ASSUME NEW i \in 0 .. e, NEW p \in Screen
      PROVE  LET a == iabs(p[1] - cx)
                 b == iabs(p[2] - cy)
             IN  /\ p \in R[i] <=> (a = i /\ b = s[i].y) \/ (b = i /\ a = s[i].y)
                 /\ a \in Nat /\ b \in Nat
  <2> DEFINE a == iabs(p[1] - cx)
             b == iabs(p[2] - cy)
  <2>1. p = <<p[1], p[2]>> /\ p[1] \in Int /\ p[2] \in Int
    BY ScreenPoint
  <2>2. a \in Nat /\ b \in Nat
    BY <2>1, AbsIs
  <2>3. p \in Int \X Int
    BY <2>1
  <2>4. R[i] = Ring(cx, cy, i, s[i].y)
    OBVIOUS
  <2> HIDE DEF R
  <2> QED BY <2>2, <2>3, <2>4 DEF Ring, Mirrored
<1>8. \A i, j \in 0 .. e : i # j => \A p \in Screen : ~(p \in R[i] /\ p \in R[j])
  <2> SUFFICES ASSUME NEW i \in 0 .. e, NEW j \in 0 .. e, i # j,
                      NEW p \in Screen, p \in R[i], p \in R[j]
               PROVE  FALSE
    OBVIOUS
  <2> DEFINE a == iabs(p[1] - cx)
             b == iabs(p[2] - cy)
  <2>1. (a = i /\ b = s[i].y) \/ (b = i /\ a = s[i].y)
    BY <1>7
  <2>2. (a = j /\ b = s[j].y) \/ (b = j /\ a = s[j].y)
    BY <1>7
  <2> HIDE DEF a, b, R
  <2>3. i <= s[i].y /\ j <= s[j].y /\ i \in Nat /\ j \in Nat /\ s[i].y \in Nat /\ s[j].y \in Nat
    BY <1>5
  <2> QED BY <2>1, <2>2, <2>3
<1>9. Paints(EachOf(F, 0, e), {p \in Screen : \E i \in 0 .. e : p \in R[i]})
  <2>1. e \in Int
    BY <1>1
  <2> HIDE DEF F, R
  <2> QED BY <1>6, <1>8, <2>1, EachPaints
<1>10. ASSUME NEW p \in Screen
       PROVE  p \in {q \in Screen : \E i \in 0 .. e : q \in R[i]} <=> p \in Round(cx, cy, r)
  <2> DEFINE a == iabs(p[1] - cx)
             b == iabs(p[2] - cy)
  <2>1. \A i \in 0 .. e : p \in R[i] <=> (a = i /\ b = s[i].y) \/ (b = i /\ a = s[i].y)
    BY <1>7
  <2>2. a \in Nat /\ b \in Nat
    <3>1. p[1] \in Int /\ p[2] \in Int
      BY ScreenPoint
    <3> QED BY <3>1, AbsIs
  <2>3. p \in Round(cx, cy, r) <=> OnOctant(a, b, r) \/ OnOctant(b, a, r)
    BY DEF Round, OnCircle
  <2> HIDE DEF a, b, R
  <2>4. OnOctant(a, b, r) <=> a \in 0 .. e /\ b = s[a].y
    BY <1>2, <2>2
  <2>5. OnOctant(b, a, r) <=> b \in 0 .. e /\ a = s[b].y
    BY <1>2, <2>2
  <2> QED BY <2>1, <2>3, <2>4, <2>5
<1> HIDE DEF F, R
<1>11. Paints(EachOf(F, 0, e), Round(cx, cy, r))
  BY <1>9, <1>10, SamePaints
<1> QED BY <1>11, CircleIs DEF e, F

(* ... and one of radius 0 its only pixel twice.                           *)
LEMMA PointCovers ==
  ASSUME NEW cx \in Int, NEW cy \in Int
  PROVE  Covers(Circle(cx, cy, 0), Round(cx, cy, 0))
<1> DEFINE s == CircleSteps(0)
           e == CircleEnd(0)
           F == CircleRow(cx, cy, 0)
           c == <<cx, cy>>
           R == [i \in 0 .. e |-> {c}]
<1>1. e = 0
  <2>1. e \in 0 .. 0
    BY CircleEnds
  <2> QED BY <2>1
<1>2. s[0].y = 0
  <2>1. s[0] = [y |-> 0, d |-> 1 - 0]
    BY CircleStepsAre
  <2> QED BY <2>1
<1>3. F[0] = Pixels(circle_points(cx, cy, 0, 0))
  BY <1>1, <1>2 DEF CircleRow
<1>4. circle_points(cx, cy, 0, 0) = <<c, c>>
  <2>1. circle_points(cx, cy, 0, 0) = ((<<c, c>> \o << >>) \o << >>) \o << >>
    BY DEF circle_points
  <2>2. <<c, c>> \in Seq(Int \X Int)
    OBVIOUS
  <2> HIDE DEF c
  <2> QED BY <2>1, <2>2
<1>5. Covers(Pixels(<<c, c>>), {p \in Screen : \E i \in 1 .. Len(<<c, c>>) : p = <<c, c>>[i]})
  <2>1. <<c, c>> \in Seq(Int \X Int)
    OBVIOUS
  <2> HIDE DEF c
  <2> QED BY <2>1, PixelsCover
<1>6. Covers(F[0], {c})
  <2> HIDE DEF c, F
  <2>1. \A p : (\E i \in 1 .. Len(<<c, c>>) : p = <<c, c>>[i]) <=> p = c
    <3>1. Len(<<c, c>>) = 2 /\ <<c, c>>[1] = c /\ <<c, c>>[2] = c /\ 1 .. 2 = {1, 2}
      OBVIOUS
    <3> QED BY <3>1
  <2>2. Covers(F[0], {p \in Screen : \E i \in 1 .. Len(<<c, c>>) : p = <<c, c>>[i]})
    BY <1>3, <1>4, <1>5
  <2>3. \A p \in Screen : p \in {q \in Screen : \E i \in 1 .. Len(<<c, c>>) : q = <<c, c>>[i]} <=> p \in {c}
    BY <2>1
  <2> QED BY <2>2, <2>3, SameCovers
<1>7. \A i \in 0 .. 0 : Covers(F[i], [j \in 0 .. 0 |-> {c}][i])
  <2> HIDE DEF F, c
  <2> QED BY <1>6
<1>8. Covers(EachOf(F, 0, 0), {p \in Screen : \E i \in 0 .. 0 : p \in [j \in 0 .. 0 |-> {c}][i]})
  <2> DEFINE S == [j \in 0 .. 0 |-> {c}]
  <2> HIDE DEF F, S
  <2>1. \A i \in 0 .. 0 : Covers(F[i], S[i])
    BY <1>7 DEF S
  <2>2. Covers(EachOf(F, 0, 0), {p \in Screen : \E i \in 0 .. 0 : p \in S[i]})
    BY <2>1, EachCovers
  <2> QED BY <2>2 DEF S
<1>9. ASSUME NEW p \in Screen
      PROVE  p \in {q \in Screen : \E i \in 0 .. 0 : q \in [j \in 0 .. 0 |-> {c}][i]} <=> p \in Round(cx, cy, 0)
  <2> DEFINE a == iabs(p[1] - cx)
             b == iabs(p[2] - cy)
  <2>1. a \in Nat /\ b \in Nat
    <3>1. p[1] \in Int /\ p[2] \in Int
      BY ScreenPoint
    <3> QED BY <3>1, AbsIs
  <2>2. p \in Round(cx, cy, 0) <=> p = c \/ OnOctant(a, b, 0) \/ OnOctant(b, a, 0)
    BY DEF Round, OnCircle
  <2> HIDE DEF a, b, c
  <2>3. ASSUME NEW u \in Nat, NEW v \in Nat PROVE ~OnOctant(u, v, 0)
    <3> SUFFICES ASSUME OnOctant(u, v, 0) PROVE FALSE
      OBVIOUS
    <3>1. v * v - v < 0 * 0 - u * u
      BY DEF OnOctant
    <3>2. u * u \in Nat /\ v * v \in Nat /\ 0 * 0 = 0
      OBVIOUS
    <3>3. v <= v * v
      <4>1. CASE v = 0
        BY <4>1
      <4>2. CASE v # 0
        <5>1. 1 * v <= v * v
          BY <4>2, Product
        <5> QED BY <5>1
      <4> QED BY <4>1, <4>2
    <3> QED BY <3>1, <3>2, <3>3
  <2>4. p \in Round(cx, cy, 0) <=> p = c
    BY <2>1, <2>2, <2>3
  <2> QED BY <2>4
<1> HIDE DEF F, c
<1>10. Covers(EachOf(F, 0, 0), Round(cx, cy, 0))
  BY <1>8, <1>9, SameCovers
<1> QED BY <1>1, <1>10, CircleIs DEF F

(* Bresenham's lines.                                                      *)

LEMMA QuotientIs ==
  ASSUME NEW v \in Int, NEW m \in Nat \ {0}, NEW j \in Int, m * j <= v, v < m * j + m
  PROVE  v \div m = j
<1> DEFINE q == v \div m
<1>1. q \in Int /\ m * q <= v /\ v < m * q + m
  OBVIOUS
<1> HIDE DEF q
<1>2. ~(q + 1 <= j)
  <2> SUFFICES ASSUME q + 1 <= j PROVE FALSE
    OBVIOUS
  <2>1. (q + 1) * m <= j * m
    BY <1>1, Product
  <2>2. (q + 1) * m = m * q + m /\ j * m = m * j /\ m * q \in Int /\ m * j \in Int
    BY <1>1
  <2> QED BY <1>1, <2>1, <2>2
<1>3. ~(j + 1 <= q)
  <2> SUFFICES ASSUME j + 1 <= q PROVE FALSE
    OBVIOUS
  <2>1. (j + 1) * m <= q * m
    BY <1>1, Product
  <2>2. (j + 1) * m = m * j + m /\ q * m = m * q /\ m * q \in Int /\ m * j \in Int
    BY <1>1
  <2> QED BY <1>1, <2>1, <2>2
<1>4. q = j
  BY <1>1, <1>2, <1>3
<1> QED BY <1>4 DEF q

(* The k-th number from u towards v.                                       *)
Along(u, v, k) == IF u < v THEN u + k ELSE u - k

LEMMA AlongIs ==
  ASSUME NEW u \in Int, NEW v \in Int, u # v
  PROVE  /\ iabs(v - u) \in Nat \ {0}
         /\ Along(u, v, iabs(v - u)) = v
         /\ Along(u, v, 0) = u
         /\ \A k \in Int : /\ Along(u, v, k) \in Int
                           /\ Along(u, v, k) + (IF u < v THEN 1 ELSE -1) = Along(u, v, k + 1)
         /\ \A k, l \in Int : Along(u, v, k) = Along(u, v, l) => k = l
         /\ \A w \in Int : Along(u, v, IF u <= v THEN w - u ELSE u - w) = w
         /\ \A k \in Int : (IF u <= v THEN Along(u, v, k) - u ELSE u - Along(u, v, k)) = k
BY AbsIs DEF Along, iabs, Larger

LineTurn(x0, y0, x1, y1, s) ==
  LET dx == iabs(x1 - x0)
      dy == -iabs(y1 - y0)
      mx == 2 * s.err >= dy
      my == 2 * s.err <= dx
  IN  [x   |-> IF mx THEN s.x + (IF x0 < x1 THEN 1 ELSE -1) ELSE s.x,
       y   |-> IF my THEN s.y + (IF y0 < y1 THEN 1 ELSE -1) ELSE s.y,
       err |-> s.err + (IF mx THEN dy ELSE 0) + (IF my THEN dx ELSE 0)]

LEMMA LineStepsAre ==
  ASSUME NEW x0 \in Int, NEW y0 \in Int, NEW x1 \in Int, NEW y1 \in Int
  PROVE  LET dx == iabs(x1 - x0)
             dy == -iabs(y1 - y0)
             s  == LineSteps(x0, y0, x1, y1)
         IN  /\ DOMAIN s = 0 .. dx - dy
             /\ s[0] = [x |-> x0, y |-> y0, err |-> dx + dy]
             /\ \A n \in 0 .. dx - dy - 1 : s[n + 1] = LineTurn(x0, y0, x1, y1, s[n])
<1> DEFINE dx == iabs(x1 - x0)
           dy == -iabs(y1 - y0)
           N  == dx - dy
           V  == [x : Int, y : Int, err : Int]
           v0 == [x |-> x0, y |-> y0, err |-> dx + dy]
           Turn(s) == LineTurn(x0, y0, x1, y1, s)
           G  == [n \in 1 .. N |-> [e \in V |-> Turn(e)]]
           Eq(f) == f = [n \in 0 .. N |-> IF n = 0 THEN v0 ELSE Turn(f[n - 1])]
           F  == CHOOSE f : Eq(f)
<1>1. dx \in Nat /\ dy \in Int /\ N \in Nat
  BY AbsIs
<1>2. v0 \in V
  <2> HIDE DEF dx, dy
  <2> QED BY <1>1
<1>3. \A s \in V : Turn(s) \in V
  <2> SUFFICES ASSUME NEW s \in V PROVE Turn(s) \in V
    OBVIOUS
  <2> DEFINE mx == 2 * s.err >= dy
             my == 2 * s.err <= dx
             u  == IF mx THEN s.x + (IF x0 < x1 THEN 1 ELSE -1) ELSE s.x
             v  == IF my THEN s.y + (IF y0 < y1 THEN 1 ELSE -1) ELSE s.y
             w  == s.err + (IF mx THEN dy ELSE 0) + (IF my THEN dx ELSE 0)
  <2>1. Turn(s) = [x |-> u, y |-> v, err |-> w]
    BY DEF LineTurn
  <2>2. s.x \in Int /\ s.y \in Int /\ s.err \in Int
    OBVIOUS
  <2>3. u \in Int /\ v \in Int /\ w \in Int
    <3> HIDE DEF dx, dy, mx, my
    <3> QED BY <1>1, <2>2
  <2> HIDE DEF u, v, w, Turn
  <2> QED BY <2>1, <2>3
<1> HIDE DEF dx, dy, Turn
<1>4. G \in [1 .. N -> [V -> V]]
  <2> HIDE DEF V
  <2> QED BY <1>3
<1>5. \E f : Solves(f, N, V, v0, G)
  <2> HIDE DEF V, v0, G, N
  <2> QED BY <1>1, <1>2, <1>4, Recursion
<1>6. PICK f : Solves(f, N, V, v0, G)
  BY <1>5
<1>7. f \in [0 .. N -> V] /\ f[0] = v0 /\ \A n \in 1 .. N : f[n] = G[n][f[n - 1]]
  BY <1>6 DEF Solves
<1>8. Eq(f)
  <2> HIDE DEF v0, V, N
  <2>1. ASSUME NEW n \in 0 .. N PROVE f[n] = IF n = 0 THEN v0 ELSE Turn(f[n - 1])
    <3>1. CASE n = 0
      BY <3>1, <1>7
    <3>2. CASE n # 0
      <4>1. n \in 1 .. N /\ n - 1 \in 0 .. N /\ f[n - 1] \in V
        BY <3>2, <1>1, <1>7 DEF N
      <4>2. G[n][f[n - 1]] = Turn(f[n - 1])
        BY <4>1
      <4> HIDE DEF G
      <4> QED BY <3>2, <4>1, <4>2, <1>7
    <3> QED BY <3>1, <3>2
  <2> HIDE DEF G
  <2> QED BY <2>1, <1>7
<1>9. Eq(F)
  <2> HIDE DEF Eq
  <2> QED BY <1>8
<1>10. LineSteps(x0, y0, x1, y1) = F
  BY DEF LineSteps, LineTurn, Turn, dx, dy
<1> HIDE DEF F, v0
<1>11. DOMAIN F = 0 .. N /\ F[0] = v0
  <2> HIDE DEF N
  <2>1. F = [n \in 0 .. N |-> IF n = 0 THEN v0 ELSE Turn(F[n - 1])]
    BY <1>9
  <2>2. 0 \in 0 .. N
    BY <1>1
  <2> QED BY <2>1, <2>2
<1>12. ASSUME NEW n \in 0 .. N - 1 PROVE F[n + 1] = Turn(F[n])
  <2> HIDE DEF N
  <2>1. n + 1 \in 0 .. N /\ n + 1 # 0 /\ (n + 1) - 1 = n
    BY <1>1
  <2>2. F[n + 1] = Turn(F[(n + 1) - 1])
    BY <1>9, <2>1
  <2> QED BY <2>1, <2>2
<1> QED BY <1>10, <1>11, <1>12 DEF N, v0, Turn, dx, dy

(* Place n of a line of run a and rise b, of which the run is not shorter: *)
(* j is the row nearest to the line there.                                 *)
Follows(n, j, a, b) == 2 * n * b + a - 2 * a * j \in 0 .. 2 * a - 1

LEMMA FollowsNearest ==
  ASSUME NEW n \in Int, NEW j \in Int, NEW a \in Nat \ {0}, NEW b \in Nat, Follows(n, j, a, b)
  PROVE  j = Nearest(n, a, b)
<1> DEFINE v == 2 * n * b + a
           m == 2 * a
<1>1. v \in Int /\ m \in Nat \ {0}
  OBVIOUS
<1>2. v - m * j \in 0 .. m - 1
  BY DEF Follows
<1> HIDE DEF v, m
<1>3. m * j \in Int
  BY <1>1
<1>4. m * j <= v /\ v < m * j + m
  BY <1>1, <1>2, <1>3
<1>5. v \div m = j
  BY <1>1, <1>4, QuotientIs
<1> QED BY <1>5 DEF Nearest, v, m

(* One turn along the run: the error tells whether to leave the row.       *)
LEMMA RunTurn ==
  ASSUME NEW n \in Nat, NEW j \in Int, NEW a \in Nat \ {0}, NEW b \in Nat \ {0}, a >= b,
         Follows(n, j, a, b), NEW e, e = (j + 1) * a - (n + 1) * b
  PROVE  /\ 2 * e >= -b
         /\ 2 * e <= a => Follows(n + 1, j + 1, a, b) /\ e - b + a = (j + 2) * a - (n + 2) * b
         /\ ~(2 * e <= a) => Follows(n + 1, j, a, b) /\ e - b = (j + 1) * a - (n + 2) * b
<1> DEFINE P == n * b
           R == a * j
<1>1. P \in Int /\ R \in Int
  OBVIOUS
<1>2. 2 * P + a - 2 * R \in 0 .. 2 * a - 1
  <2>1. 2 * n * b = 2 * P /\ 2 * a * j = 2 * R
    OBVIOUS
  <2> QED BY <2>1 DEF Follows
<1>3. e = R + a - P - b
  OBVIOUS
<1>4. /\ (j + 2) * a = R + 2 * a /\ (j + 1) * a = R + a /\ (n + 2) * b = P + 2 * b
      /\ 2 * (n + 1) * b = 2 * P + 2 * b /\ 2 * a * (j + 1) = 2 * R + 2 * a /\ 2 * a * j = 2 * R
  OBVIOUS
<1> HIDE DEF P, R
<1>5. e \in Int
  BY <1>1, <1>3
<1>6. 2 * e >= -b
  BY <1>1, <1>2, <1>3
<1>7. ASSUME 2 * e <= a
      PROVE  Follows(n + 1, j + 1, a, b) /\ e - b + a = (j + 2) * a - (n + 2) * b
  <2>1. (2 * P + 2 * b) + a - (2 * R + 2 * a) \in 0 .. 2 * a - 1
    BY <1>1, <1>2, <1>3, <1>7
  <2>2. e - b + a = (R + 2 * a) - (P + 2 * b)
    BY <1>1, <1>3
  <2> QED BY <1>4, <2>1, <2>2 DEF Follows
<1>8. ASSUME ~(2 * e <= a)
      PROVE  Follows(n + 1, j, a, b) /\ e - b = (j + 1) * a - (n + 2) * b
  <2>1. (2 * P + 2 * b) + a - 2 * R \in 0 .. 2 * a - 1
    BY <1>1, <1>2, <1>3, <1>8
  <2>2. e - b = (R + a) - (P + 2 * b)
    BY <1>1, <1>3
  <2> QED BY <1>4, <2>1, <2>2 DEF Follows
<1> QED BY <1>6, <1>7, <1>8

(* And along a rise that is longer.                                        *)
LEMMA RiseTurn ==
  ASSUME NEW n \in Nat, NEW i \in Int, NEW a \in Nat \ {0}, NEW b \in Nat \ {0}, a < b,
         Follows(n, i, b, a), NEW e, e = (n + 1) * a - (i + 1) * b
  PROVE  /\ 2 * e <= a
         /\ 2 * e >= -b => Follows(n + 1, i + 1, b, a) /\ e - b + a = (n + 2) * a - (i + 2) * b
         /\ ~(2 * e >= -b) => Follows(n + 1, i, b, a) /\ e + a = (n + 2) * a - (i + 1) * b
<1> DEFINE P == n * a
           R == b * i
<1>1. P \in Int /\ R \in Int
  OBVIOUS
<1>2. 2 * P + b - 2 * R \in 0 .. 2 * b - 1
  <2>1. 2 * n * a = 2 * P /\ 2 * b * i = 2 * R
    OBVIOUS
  <2> QED BY <2>1 DEF Follows
<1>3. e = P + a - R - b
  OBVIOUS
<1>4. /\ (i + 2) * b = R + 2 * b /\ (i + 1) * b = R + b /\ (n + 2) * a = P + 2 * a
      /\ 2 * (n + 1) * a = 2 * P + 2 * a /\ 2 * b * (i + 1) = 2 * R + 2 * b /\ 2 * b * i = 2 * R
  OBVIOUS
<1> HIDE DEF P, R
<1>5. e \in Int
  BY <1>1, <1>3
<1>6. 2 * e <= a
  BY <1>1, <1>2, <1>3
<1>7. ASSUME 2 * e >= -b
      PROVE  Follows(n + 1, i + 1, b, a) /\ e - b + a = (n + 2) * a - (i + 2) * b
  <2>1. (2 * P + 2 * a) + b - (2 * R + 2 * b) \in 0 .. 2 * b - 1
    BY <1>1, <1>2, <1>3, <1>7
  <2>2. e - b + a = (P + 2 * a) - (R + 2 * b)
    BY <1>1, <1>3
  <2> QED BY <1>4, <2>1, <2>2 DEF Follows
<1>8. ASSUME ~(2 * e >= -b)
      PROVE  Follows(n + 1, i, b, a) /\ e + a = (n + 2) * a - (i + 1) * b
  <2>1. (2 * P + 2 * a) + b - 2 * R \in 0 .. 2 * b - 1
    BY <1>1, <1>2, <1>3, <1>8
  <2>2. e + a = (P + 2 * a) - (R + b)
    BY <1>1, <1>3
  <2> QED BY <1>4, <2>1, <2>2 DEF Follows
<1> QED BY <1>6, <1>7, <1>8

(* The state after n turns.                                                *)
At(s, x0, y0, x1, y1, i, j) ==
  /\ s.x = Along(x0, x1, i)
  /\ s.y = Along(y0, y1, j)
  /\ s.err = (j + 1) * iabs(x1 - x0) - (i + 1) * iabs(y1 - y0)

Turned(t, s, x0, y0, x1, y1, i, j, a, b) ==
  LET mx == 2 * s.err >= -b
      my == 2 * s.err <= a
  IN  /\ t.x = Along(x0, x1, IF mx THEN i + 1 ELSE i)
      /\ t.y = Along(y0, y1, IF my THEN j + 1 ELSE j)
      /\ t.err = s.err + (IF mx THEN -b ELSE 0) + (IF my THEN a ELSE 0)

LEMMA TurnIs ==
  ASSUME NEW x0 \in Int, NEW y0 \in Int, NEW x1 \in Int, NEW y1 \in Int, x0 # x1, y0 # y1,
         NEW s, NEW i \in Int, NEW j \in Int, At(s, x0, y0, x1, y1, i, j),
         NEW a, a = iabs(x1 - x0), NEW b, b = iabs(y1 - y0),
         NEW t, t = LineTurn(x0, y0, x1, y1, s)
  PROVE  Turned(t, s, x0, y0, x1, y1, i, j, a, b)
<1> DEFINE mx == 2 * s.err >= -b
           my == 2 * s.err <= a
<1>1. /\ t.x = IF mx THEN s.x + (IF x0 < x1 THEN 1 ELSE -1) ELSE s.x
      /\ t.y = IF my THEN s.y + (IF y0 < y1 THEN 1 ELSE -1) ELSE s.y
      /\ t.err = s.err + (IF mx THEN -b ELSE 0) + (IF my THEN a ELSE 0)
  BY DEF LineTurn
<1>2. s.x = Along(x0, x1, i) /\ s.y = Along(y0, y1, j)
  BY DEF At
<1>3. Along(x0, x1, i) + (IF x0 < x1 THEN 1 ELSE -1) = Along(x0, x1, i + 1)
  BY AlongIs
<1>4. Along(y0, y1, j) + (IF y0 < y1 THEN 1 ELSE -1) = Along(y0, y1, j + 1)
  BY AlongIs
<1> HIDE DEF mx, my
<1> QED BY <1>1, <1>2, <1>3, <1>4 DEF mx, my, Turned

LEMMA StartFollows ==
  ASSUME NEW a \in Nat \ {0}, NEW b \in Nat
  PROVE  Follows(0, 0, a, b)
<1>1. 2 * 0 * b = 0 /\ 2 * a * 0 = 0
  OBVIOUS
<1>2. 0 + a - 0 \in 0 .. 2 * a - 1
  OBVIOUS
<1> QED BY <1>1, <1>2 DEF Follows

(* At the end of the run the line is at the end of the rise.               *)
LEMMA EndFollows ==
  ASSUME NEW j \in Int, NEW a \in Nat \ {0}, NEW b \in Nat, Follows(a, j, a, b)
  PROVE  j = b
<1>1. j = Nearest(a, a, b)
  BY FollowsNearest
<1>2. Follows(a, b, a, b)
  <2> DEFINE P == a * b
  <2>1. 2 * a * b = 2 * P /\ P \in Int
    OBVIOUS
  <2> HIDE DEF P
  <2>2. 2 * P + a - 2 * P \in 0 .. 2 * a - 1
    BY <2>1
  <2> QED BY <2>1, <2>2 DEF Follows
<1>3. b = Nearest(a, a, b)
  BY <1>2, FollowsNearest
<1> QED BY <1>1, <1>3

(* A line at least as long as it is high: one pixel in each column.        *)
LEMMA RunSteps ==
  ASSUME NEW x0 \in Int, NEW y0 \in Int, NEW x1 \in Int, NEW y1 \in Int, x0 # x1, y0 # y1,
         iabs(x1 - x0) >= iabs(y1 - y0)
  PROVE  LET a == iabs(x1 - x0)
             b == iabs(y1 - y0)
             s == LineSteps(x0, y0, x1, y1)
         IN  \A n \in 0 .. a : \E j \in Int : At(s[n], x0, y0, x1, y1, n, j) /\ Follows(n, j, a, b)
<1> DEFINE a == iabs(x1 - x0)
           b == iabs(y1 - y0)
           s == LineSteps(x0, y0, x1, y1)
           P(n) == \E j \in Int : At(s[n], x0, y0, x1, y1, n, j) /\ Follows(n, j, a, b)
           T == {n \in Nat : n <= a => P(n)}
<1>1. a \in Nat \ {0} /\ b \in Nat \ {0} /\ a >= b
  BY AlongIs
<1>2. s[0] = [x |-> x0, y |-> y0, err |-> a - b] /\ \A n \in 0 .. a + b - 1 : s[n + 1] = LineTurn(x0, y0, x1, y1, s[n])
  <2>1. /\ s[0] = [x |-> x0, y |-> y0, err |-> a + (-b)]
        /\ \A n \in 0 .. a - (-b) - 1 : s[n + 1] = LineTurn(x0, y0, x1, y1, s[n])
    BY LineStepsAre
  <2>2. a + (-b) = a - b /\ a - (-b) - 1 = a + b - 1
    BY <1>1
  <2> HIDE DEF a, b, s
  <2> QED BY <2>1, <2>2
<1>3. P(0)
  <2>1. Follows(0, 0, a, b)
    BY <1>1, StartFollows
  <2>2. Along(x0, x1, 0) = x0 /\ Along(y0, y1, 0) = y0
    BY AlongIs
  <2>3. a - b = (0 + 1) * a - (0 + 1) * b
    BY <1>1
  <2>4. At(s[0], x0, y0, x1, y1, 0, 0)
    <3> HIDE DEF s
    <3> QED BY <1>2, <2>2, <2>3 DEF At
  <2> HIDE DEF a, b, s
  <2> QED BY <2>1, <2>4
<1>4. ASSUME NEW n \in Nat, n + 1 <= a, P(n) PROVE P(n + 1)
  <2>1. PICK j \in Int : At(s[n], x0, y0, x1, y1, n, j) /\ Follows(n, j, a, b)
    BY <1>4
  <2> DEFINE e == s[n].err
             my == 2 * e <= a
             t == s[n + 1]
  <2>2. e = (j + 1) * a - (n + 1) * b
    BY <2>1 DEF At
  <2>3. /\ 2 * e >= -b
        /\ my => Follows(n + 1, j + 1, a, b) /\ e - b + a = (j + 2) * a - (n + 2) * b
        /\ ~my => Follows(n + 1, j, a, b) /\ e - b = (j + 1) * a - (n + 2) * b
    <3> HIDE DEF a, b, e
    <3> QED BY <1>1, <2>1, <2>2, RunTurn
  <2>4. t = LineTurn(x0, y0, x1, y1, s[n])
    <3>1. n \in 0 .. a + b - 1
      <4> HIDE DEF a, b
      <4> QED BY <1>1, <1>4
    <3> QED BY <1>2, <3>1
  <2>5. /\ t.x = Along(x0, x1, n + 1)
        /\ t.y = Along(y0, y1, IF my THEN j + 1 ELSE j)
        /\ t.err = e + (-b) + (IF my THEN a ELSE 0)
    <3> DEFINE u == LineTurn(x0, y0, x1, y1, s[n])
               mx == 2 * e >= -b
    <3>1. /\ u.x = Along(x0, x1, IF mx THEN n + 1 ELSE n)
          /\ u.y = Along(y0, y1, IF my THEN j + 1 ELSE j)
          /\ u.err = e + (IF mx THEN -b ELSE 0) + (IF my THEN a ELSE 0)
      <4>1. a = iabs(x1 - x0) /\ b = iabs(y1 - y0) /\ u = LineTurn(x0, y0, x1, y1, s[n])
        OBVIOUS
      <4>2. Turned(u, s[n], x0, y0, x1, y1, n, j, a, b)
        <5> HIDE DEF a, b, s, u
        <5> QED BY <2>1, <4>1, TurnIs
      <4> HIDE DEF a, b, s, u
      <4> QED BY <4>2 DEF Turned
    <3> HIDE DEF a, b, e, my, u, t, s
    <3> QED BY <2>3, <2>4, <3>1 DEF u
  <2>6. e \in Int
    <3> HIDE DEF e
    <3> QED BY <1>1, <2>2
  <2>7. CASE my
    <3>1. t.err = e - b + a
      <4> HIDE DEF a, b, e, t
      <4> QED BY <1>1, <2>5, <2>6, <2>7
    <3>2. (j + 1) + 1 = j + 2 /\ (n + 1) + 1 = n + 2 /\ j + 1 \in Int
      OBVIOUS
    <3>3. At(t, x0, y0, x1, y1, n + 1, j + 1)
      <4> HIDE DEF e, t
      <4> QED BY <2>3, <2>5, <2>7, <3>1, <3>2 DEF At
    <3> HIDE DEF a, b, s
    <3> QED BY <2>3, <2>7, <3>2, <3>3
  <2>8. CASE ~my
    <3>1. t.err = e - b
      <4> HIDE DEF a, b, e, t
      <4> QED BY <1>1, <2>5, <2>6, <2>8
    <3>2. (n + 1) + 1 = n + 2
      OBVIOUS
    <3>3. At(t, x0, y0, x1, y1, n + 1, j)
      <4> HIDE DEF e, t
      <4> QED BY <2>3, <2>5, <2>8, <3>1, <3>2 DEF At
    <3> HIDE DEF a, b, s
    <3> QED BY <2>3, <2>8, <3>3
  <2> QED BY <2>7, <2>8
<1> HIDE DEF P, a, b, s
<1>5. \A n \in Nat : n \in T => n + 1 \in T
  BY <1>1, <1>4
<1>6. 0 \in T
  BY <1>3
<1> HIDE DEF T
<1>7. \A n \in 0 .. a : n \in T
  BY <1>1, <1>5, <1>6, Induction
<1>8. \A n \in 0 .. a : P(n)
  BY <1>1, <1>7 DEF T
<1> QED BY <1>8, Zenon DEF P, a, b, s

(* A line higher than it is long: one pixel in each row.                   *)
LEMMA RiseSteps ==
  ASSUME NEW x0 \in Int, NEW y0 \in Int, NEW x1 \in Int, NEW y1 \in Int, x0 # x1, y0 # y1,
         iabs(x1 - x0) < iabs(y1 - y0)
  PROVE  LET a == iabs(x1 - x0)
             b == iabs(y1 - y0)
             s == LineSteps(x0, y0, x1, y1)
         IN  \A n \in 0 .. b : \E i \in Int : At(s[n], x0, y0, x1, y1, i, n) /\ Follows(n, i, b, a)
<1> DEFINE a == iabs(x1 - x0)
           b == iabs(y1 - y0)
           s == LineSteps(x0, y0, x1, y1)
           P(n) == \E i \in Int : At(s[n], x0, y0, x1, y1, i, n) /\ Follows(n, i, b, a)
           T == {n \in Nat : n <= b => P(n)}
<1>1. a \in Nat \ {0} /\ b \in Nat \ {0} /\ a < b
  BY AlongIs
<1>2. s[0] = [x |-> x0, y |-> y0, err |-> a - b] /\ \A n \in 0 .. a + b - 1 : s[n + 1] = LineTurn(x0, y0, x1, y1, s[n])
  <2>1. /\ s[0] = [x |-> x0, y |-> y0, err |-> a + (-b)]
        /\ \A n \in 0 .. a - (-b) - 1 : s[n + 1] = LineTurn(x0, y0, x1, y1, s[n])
    BY LineStepsAre
  <2>2. a + (-b) = a - b /\ a - (-b) - 1 = a + b - 1
    BY <1>1
  <2> HIDE DEF a, b, s
  <2> QED BY <2>1, <2>2
<1>3. P(0)
  <2>1. Follows(0, 0, b, a)
    BY <1>1, StartFollows
  <2>2. Along(x0, x1, 0) = x0 /\ Along(y0, y1, 0) = y0
    BY AlongIs
  <2>3. a - b = (0 + 1) * a - (0 + 1) * b
    BY <1>1
  <2>4. At(s[0], x0, y0, x1, y1, 0, 0)
    <3> HIDE DEF s
    <3> QED BY <1>2, <2>2, <2>3 DEF At
  <2> HIDE DEF a, b, s
  <2> QED BY <2>1, <2>4
<1>4. ASSUME NEW n \in Nat, n + 1 <= b, P(n) PROVE P(n + 1)
  <2>1. PICK i \in Int : At(s[n], x0, y0, x1, y1, i, n) /\ Follows(n, i, b, a)
    BY <1>4
  <2> DEFINE e == s[n].err
             mx == 2 * e >= -b
             t == s[n + 1]
  <2>2. e = (n + 1) * a - (i + 1) * b
    BY <2>1 DEF At
  <2>3. /\ 2 * e <= a
        /\ mx => Follows(n + 1, i + 1, b, a) /\ e - b + a = (n + 2) * a - (i + 2) * b
        /\ ~mx => Follows(n + 1, i, b, a) /\ e + a = (n + 2) * a - (i + 1) * b
    <3> HIDE DEF a, b, e
    <3> QED BY <1>1, <2>1, <2>2, RiseTurn
  <2>4. t = LineTurn(x0, y0, x1, y1, s[n])
    <3>1. n \in 0 .. a + b - 1
      <4> HIDE DEF a, b
      <4> QED BY <1>1, <1>4
    <3> QED BY <1>2, <3>1
  <2>5. /\ t.x = Along(x0, x1, IF mx THEN i + 1 ELSE i)
        /\ t.y = Along(y0, y1, n + 1)
        /\ t.err = e + (IF mx THEN -b ELSE 0) + a
    <3> DEFINE u == LineTurn(x0, y0, x1, y1, s[n])
               my == 2 * e <= a
    <3>1. /\ u.x = Along(x0, x1, IF mx THEN i + 1 ELSE i)
          /\ u.y = Along(y0, y1, IF my THEN n + 1 ELSE n)
          /\ u.err = e + (IF mx THEN -b ELSE 0) + (IF my THEN a ELSE 0)
      <4>1. a = iabs(x1 - x0) /\ b = iabs(y1 - y0) /\ u = LineTurn(x0, y0, x1, y1, s[n])
        OBVIOUS
      <4>2. Turned(u, s[n], x0, y0, x1, y1, i, n, a, b)
        <5> HIDE DEF a, b, s, u
        <5> QED BY <2>1, <4>1, TurnIs
      <4> HIDE DEF a, b, s, u
      <4> QED BY <4>2 DEF Turned
    <3> HIDE DEF a, b, e, mx, u, t, s
    <3> QED BY <2>3, <2>4, <3>1 DEF u
  <2>6. e \in Int
    <3> HIDE DEF e
    <3> QED BY <1>1, <2>2
  <2>7. CASE mx
    <3>1. t.err = e - b + a
      <4> HIDE DEF a, b, e, t
      <4> QED BY <1>1, <2>5, <2>6, <2>7
    <3>2. (i + 1) + 1 = i + 2 /\ (n + 1) + 1 = n + 2 /\ i + 1 \in Int
      OBVIOUS
    <3>3. At(t, x0, y0, x1, y1, i + 1, n + 1)
      <4> HIDE DEF e, t
      <4> QED BY <2>3, <2>5, <2>7, <3>1, <3>2 DEF At
    <3> HIDE DEF a, b, s
    <3> QED BY <2>3, <2>7, <3>2, <3>3
  <2>8. CASE ~mx
    <3>1. t.err = e + a
      <4> HIDE DEF a, b, e, t
      <4> QED BY <1>1, <2>5, <2>6, <2>8
    <3>2. (n + 1) + 1 = n + 2
      OBVIOUS
    <3>3. At(t, x0, y0, x1, y1, i, n + 1)
      <4> HIDE DEF e, t
      <4> QED BY <2>3, <2>5, <2>8, <3>1, <3>2 DEF At
    <3> HIDE DEF a, b, s
    <3> QED BY <2>3, <2>8, <3>3
  <2> QED BY <2>7, <2>8
<1> HIDE DEF P, a, b, s
<1>5. \A n \in Nat : n \in T => n + 1 \in T
  BY <1>1, <1>4
<1>6. 0 \in T
  BY <1>3
<1> HIDE DEF T
<1>7. \A n \in 0 .. b : n \in T
  BY <1>1, <1>5, <1>6, Induction
<1>8. \A n \in 0 .. b : P(n)
  BY <1>1, <1>7 DEF T
<1> QED BY <1>8, Zenon DEF P, a, b, s

LEMMA FollowsRange ==
  ASSUME NEW a \in Nat \ {0}, NEW b \in Nat, NEW n \in 0 .. a, NEW j \in Int, Follows(n, j, a, b)
  PROVE  j \in 0 .. b
<1> DEFINE P == n * b
           R == a * j
           Q == a * b
<1>1. P \in Int /\ R \in Int /\ Q \in Int
  OBVIOUS
<1>2. 2 * P + a - 2 * R \in 0 .. 2 * a - 1
  <2>1. 2 * n * b = 2 * P /\ 2 * a * j = 2 * R
    OBVIOUS
  <2> QED BY <2>1 DEF Follows
<1>3. 0 <= P /\ P <= Q
  <2>1. 0 * b <= n * b /\ n * b <= a * b
    BY Product
  <2> QED BY <2>1
<1>4. ~(b + 1 <= j)
  <2> SUFFICES ASSUME b + 1 <= j PROVE FALSE
    OBVIOUS
  <2>1. (b + 1) * a <= j * a
    BY Product
  <2>2. (b + 1) * a = Q + a /\ j * a = R
    OBVIOUS
  <2> HIDE DEF P, R, Q
  <2> QED BY <1>1, <1>2, <1>3, <2>1, <2>2
<1>5. ~(j <= -1)
  <2> SUFFICES ASSUME j <= -1 PROVE FALSE
    OBVIOUS
  <2>1. j * a <= (-1) * a
    BY Product
  <2>2. (-1) * a = -a /\ j * a = R
    OBVIOUS
  <2> HIDE DEF P, R, Q
  <2> QED BY <1>1, <1>2, <1>3, <2>1, <2>2
<1> QED BY <1>4, <1>5

(* The turns along the longer of run and rise are the pixels nearest to    *)
(* the line.                                                               *)
AlongRun(s, x0, y0, x1, y1, a, b) ==
  \A n \in 0 .. a : /\ Nearest(n, a, b) \in 0 .. b
                    /\ n = a => Nearest(n, a, b) = b
                    /\ s[n].x = Along(x0, x1, n)
                    /\ s[n].y = Along(y0, y1, Nearest(n, a, b))

LEMMA RunPixels ==
  ASSUME NEW x0 \in Int, NEW y0 \in Int, NEW x1 \in Int, NEW y1 \in Int, x0 # x1, y0 # y1,
         NEW a, a = iabs(x1 - x0), NEW b, b = iabs(y1 - y0), a >= b,
         NEW s, s = LineSteps(x0, y0, x1, y1)
  PROVE  AlongRun(s, x0, y0, x1, y1, a, b)
<1>1. a \in Nat \ {0} /\ b \in Nat
  BY AlongIs
<1>2. \A n \in 0 .. a : \E j \in Int : At(s[n], x0, y0, x1, y1, n, j) /\ Follows(n, j, a, b)
  BY RunSteps
<1>3. ASSUME NEW n \in 0 .. a
      PROVE  /\ Nearest(n, a, b) \in 0 .. b
             /\ n = a => Nearest(n, a, b) = b
             /\ s[n].x = Along(x0, x1, n)
             /\ s[n].y = Along(y0, y1, Nearest(n, a, b))
  <2>1. PICK j \in Int : At(s[n], x0, y0, x1, y1, n, j) /\ Follows(n, j, a, b)
    BY <1>2
  <2>2. n \in Int
    OBVIOUS
  <2>3. j = Nearest(n, a, b)
    BY <1>1, <2>1, <2>2, FollowsNearest
  <2>4. j \in 0 .. b
    BY <1>1, <2>1, FollowsRange
  <2>5. n = a => j = b
    BY <1>1, <2>1, EndFollows
  <2>6. s[n].x = Along(x0, x1, n) /\ s[n].y = Along(y0, y1, j)
    BY <2>1 DEF At
  <2> QED BY <2>3, <2>4, <2>5, <2>6
<1> QED BY <1>3 DEF AlongRun

AlongRise(s, x0, y0, x1, y1, a, b) ==
  \A n \in 0 .. b : /\ Nearest(n, b, a) \in 0 .. a
                    /\ n = b => Nearest(n, b, a) = a
                    /\ s[n].x = Along(x0, x1, Nearest(n, b, a))
                    /\ s[n].y = Along(y0, y1, n)

LEMMA RisePixels ==
  ASSUME NEW x0 \in Int, NEW y0 \in Int, NEW x1 \in Int, NEW y1 \in Int, x0 # x1, y0 # y1,
         NEW a, a = iabs(x1 - x0), NEW b, b = iabs(y1 - y0), a < b,
         NEW s, s = LineSteps(x0, y0, x1, y1)
  PROVE  AlongRise(s, x0, y0, x1, y1, a, b)
<1>1. b \in Nat \ {0} /\ a \in Nat
  BY AlongIs
<1>2. \A n \in 0 .. b : \E i \in Int : At(s[n], x0, y0, x1, y1, i, n) /\ Follows(n, i, b, a)
  BY RiseSteps
<1>3. ASSUME NEW n \in 0 .. b
      PROVE  /\ Nearest(n, b, a) \in 0 .. a
             /\ n = b => Nearest(n, b, a) = a
             /\ s[n].x = Along(x0, x1, Nearest(n, b, a))
             /\ s[n].y = Along(y0, y1, n)
  <2>1. PICK i \in Int : At(s[n], x0, y0, x1, y1, i, n) /\ Follows(n, i, b, a)
    BY <1>2
  <2>2. n \in Int
    OBVIOUS
  <2>3. i = Nearest(n, b, a)
    BY <1>1, <2>1, <2>2, FollowsNearest
  <2>4. i \in 0 .. a
    BY <1>1, <2>1, FollowsRange
  <2>5. n = b => i = a
    BY <1>1, <2>1, EndFollows
  <2>6. s[n].x = Along(x0, x1, i) /\ s[n].y = Along(y0, y1, n)
    BY <2>1 DEF At
  <2> QED BY <2>3, <2>4, <2>5, <2>6
<1> QED BY <1>3 DEF AlongRise

(* The loop ends after m turns if those are the first to reach the other   *)
(* end.                                                                    *)
LEMMA LineEnds ==
  ASSUME NEW x0 \in Int, NEW y0 \in Int, NEW x1 \in Int, NEW y1 \in Int,
         NEW m \in 0 .. iabs(x1 - x0) + iabs(y1 - y0),
         NEW s, s = LineSteps(x0, y0, x1, y1),
         \A n \in 0 .. m : s[n].x = x1 /\ s[n].y = y1 <=> n = m
  PROVE  LinePixels(x0, y0, x1, y1) = [i \in 1 .. m + 1 |-> <<s[i - 1].x, s[i - 1].y>>]
<1> DEFINE a == iabs(x1 - x0)
           b == iabs(y1 - y0)
           Ends(n) == s[n].x = x1 /\ s[n].y = y1
           Good(n) == n \in DOMAIN s /\ Ends(n) /\ \A k \in 0 .. n - 1 : ~Ends(k)
           last == CHOOSE n \in DOMAIN s : Ends(n) /\ \A k \in 0 .. n - 1 : ~Ends(k)
<1>1. a \in Nat /\ b \in Nat
  BY AbsIs
<1>2. DOMAIN s = 0 .. a + b
  <2>1. /\ DOMAIN s = 0 .. a - (-b)
        /\ s[0] = [x |-> x0, y |-> y0, err |-> a + (-b)]
        /\ \A n \in 0 .. a - (-b) - 1 : s[n + 1] = LineTurn(x0, y0, x1, y1, s[n])
    BY LineStepsAre
  <2> HIDE DEF a, b
  <2> QED BY <1>1, <2>1
<1>3. m \in 0 .. a + b
  OBVIOUS
<1>4. \A n \in 0 .. m : Ends(n) <=> n = m
  OBVIOUS
<1> HIDE DEF Ends, a, b
<1>5. Good(m)
  BY <1>2, <1>3, <1>4
<1>6. Good(last)
  BY <1>5
<1> HIDE DEF last
<1>7. last = m
  <2>1. last \in Nat /\ m \in Nat
    BY <1>1, <1>2, <1>3, <1>6
  <2>2. ~(last < m)
    BY <1>4, <1>6, <2>1
  <2>3. ~(m < last)
    BY <1>4, <1>6, <2>1
  <2> QED BY <2>1, <2>2, <2>3
<1>8. LinePixels(x0, y0, x1, y1) = [i \in 1 .. last + 1 |-> <<s[i - 1].x, s[i - 1].y>>]
  BY DEF LinePixels, last, Ends
<1> QED BY <1>7, <1>8

LinePoints(x0, y0, x1, y1) == {p \in Int \X Int : OnLine(p, <<x0, y0>>, <<x1, y1>>)}

(* The place of a point along a line, from its start.                      *)
LEMMA PlaceIs ==
  ASSUME NEW u \in Int, NEW v \in Int, u # v, NEW w \in Int
  PROVE  LET k == IF u <= v THEN w - u ELSE u - w
         IN  k \in Int /\ \A l \in Int : w = Along(u, v, l) <=> k = l
BY DEF Along

(* A sequence of the values of q.                                          *)
IsPath(ps, m, q, S) ==
  /\ ps = [i \in 1 .. m + 1 |-> q[i - 1]]
  /\ \A n \in 0 .. m : q[n] \in Int \X Int
  /\ \A n, k \in 0 .. m : q[n] = q[k] => n = k
  /\ \A p : p \in S <=> \E n \in 0 .. m : p = q[n]

LEMMA PathDots ==
  ASSUME NEW m \in Nat, NEW q, NEW S, NEW ps, IsPath(ps, m, q, S)
  PROVE  Dots(ps, S)
<1>0. /\ ps = [i \in 1 .. m + 1 |-> q[i - 1]]
      /\ \A n \in 0 .. m : q[n] \in Int \X Int
      /\ \A n, k \in 0 .. m : q[n] = q[k] => n = k
      /\ \A p : p \in S <=> \E n \in 0 .. m : p = q[n]
  BY DEF IsPath
<1>1. \A i \in 1 .. m + 1 : i - 1 \in 0 .. m /\ ps[i] = q[i - 1] /\ ps[i] \in Int \X Int
  <2> SUFFICES ASSUME NEW i \in 1 .. m + 1
               PROVE  i - 1 \in 0 .. m /\ ps[i] = q[i - 1] /\ ps[i] \in Int \X Int
    OBVIOUS
  <2>1. i - 1 \in 0 .. m /\ ps[i] = q[i - 1]
    BY <1>0
  <2> QED BY <1>0, <2>1
<1>2. ps \in Seq(Int \X Int) /\ Len(ps) = m + 1
  <2>1. ps \in [1 .. m + 1 -> Int \X Int] /\ m + 1 \in Nat
    BY <1>0, <1>1
  <2> QED BY <2>1, SeqIs
<1>3. \A i, j \in 1 .. m + 1 : ps[i] = ps[j] => i = j
  <2> SUFFICES ASSUME NEW i \in 1 .. m + 1, NEW j \in 1 .. m + 1, ps[i] = ps[j]
               PROVE  i = j
    OBVIOUS
  <2>1. i - 1 = j - 1
    BY <1>0, <1>1
  <2> QED BY <2>1
<1>4. \A p : p \in S <=> \E i \in 1 .. m + 1 : ps[i] = p
  <2> SUFFICES ASSUME NEW p PROVE p \in S <=> \E i \in 1 .. m + 1 : ps[i] = p
    OBVIOUS
  <2>1. ASSUME p \in S PROVE \E i \in 1 .. m + 1 : ps[i] = p
    <3>1. PICK n \in 0 .. m : p = q[n]
      BY <1>0, <2>1
    <3>2. n + 1 \in 1 .. m + 1 /\ (n + 1) - 1 = n
      OBVIOUS
    <3> QED BY <1>1, <3>1, <3>2
  <2>2. ASSUME NEW i \in 1 .. m + 1, ps[i] = p PROVE p \in S
    BY <1>0, <1>1, <2>2
  <2> QED BY <2>1, <2>2
<1> QED BY <1>2, <1>3, <1>4 DEF Dots

(* A sequence of the points of a line in their order is all of its dots.   *)
LEMMA RunDots ==
  ASSUME NEW x0 \in Int, NEW y0 \in Int, NEW x1 \in Int, NEW y1 \in Int, x0 # x1, y0 # y1,
         iabs(x1 - x0) >= iabs(y1 - y0)
  PROVE  Dots(LinePixels(x0, y0, x1, y1), LinePoints(x0, y0, x1, y1))
<1> DEFINE a == iabs(x1 - x0)
           b == iabs(y1 - y0)
           s == LineSteps(x0, y0, x1, y1)
           q  == [n \in 0 .. a |-> <<s[n].x, s[n].y>>]
           N(n) == Nearest(n, a, b)
<1>1. a \in Nat \ {0} /\ b \in Nat \ {0} /\ a >= b
  BY AlongIs
<1>2. \A n \in 0 .. a : /\ N(n) \in 0 .. b
                        /\ n = a => N(n) = b
                        /\ s[n].x = Along(x0, x1, n)
                        /\ s[n].y = Along(y0, y1, N(n))
  <2>1. a = iabs(x1 - x0) /\ b = iabs(y1 - y0) /\ s = LineSteps(x0, y0, x1, y1)
    OBVIOUS
  <2> HIDE DEF a, b, s, q
  <2>2. AlongRun(s, x0, y0, x1, y1, a, b)
    BY <1>1, <2>1, RunPixels
  <2> QED BY <2>2 DEF AlongRun
<1>3. /\ Along(x0, x1, a) = x1 /\ Along(y0, y1, b) = y1
      /\ \A k \in Int : Along(x0, x1, k) \in Int /\ Along(y0, y1, k) \in Int
      /\ \A k, l \in Int : Along(x0, x1, k) = Along(x0, x1, l) => k = l
  <2>1. /\ Along(x0, x1, a) = x1
        /\ \A k \in Int : Along(x0, x1, k) \in Int
        /\ \A k, l \in Int : Along(x0, x1, k) = Along(x0, x1, l) => k = l
    BY AlongIs
  <2>2. /\ Along(y0, y1, b) = y1
        /\ \A k \in Int : Along(y0, y1, k) \in Int
    BY AlongIs
  <2> HIDE DEF a, b
  <2> QED BY <2>1, <2>2
<1>4. LinePixels(x0, y0, x1, y1) = [i \in 1 .. a + 1 |-> <<s[i - 1].x, s[i - 1].y>>]
  <2>1. \A n \in 0 .. a : s[n].x = x1 /\ s[n].y = y1 <=> n = a
    <3> HIDE DEF a, b, s, N
    <3> SUFFICES ASSUME NEW n \in 0 .. a
                 PROVE  s[n].x = x1 /\ s[n].y = y1 <=> n = a
      OBVIOUS
    <3>1. n \in Int /\ a \in Int
      BY <1>1
    <3>2. ASSUME s[n].x = x1 PROVE n = a
      <4>1. Along(x0, x1, n) = Along(x0, x1, a)
        BY <1>2, <1>3, <3>2
      <4> QED BY <1>3, <3>1, <4>1
    <3>3. ASSUME n = a PROVE s[n].x = x1 /\ s[n].y = y1
      BY <1>2, <1>3, <3>3
    <3> QED BY <3>2, <3>3
  <2>2. a \in 0 .. a + b
    <3> HIDE DEF a, b
    <3> QED BY <1>1
  <2> QED BY <2>1, <2>2, LineEnds
<1>5. \A p \in Int \X Int :
        p \in LinePoints(x0, y0, x1, y1) <=>
          \E n \in 0 .. a : p = <<Along(x0, x1, n), Along(y0, y1, N(n))>>
  <2> SUFFICES ASSUME NEW p \in Int \X Int
               PROVE  p \in LinePoints(x0, y0, x1, y1) <=>
                        \E n \in 0 .. a : p = <<Along(x0, x1, n), Along(y0, y1, N(n))>>
    OBVIOUS
  <2> DEFINE kx == IF x0 <= x1 THEN p[1] - x0 ELSE x0 - p[1]
             ky == IF y0 <= y1 THEN p[2] - y0 ELSE y0 - p[2]
  <2>1. p = <<p[1], p[2]>> /\ p[1] \in Int /\ p[2] \in Int
    OBVIOUS
  <2>2. kx \in Int /\ \A l \in Int : p[1] = Along(x0, x1, l) <=> kx = l
    BY <2>1, PlaceIs
  <2>3. ky \in Int /\ \A l \in Int : p[2] = Along(y0, y1, l) <=> ky = l
    BY <2>1, PlaceIs
  <2>4. p \in LinePoints(x0, y0, x1, y1) <=>
          /\ kx \in 0 .. a
          /\ ky \in 0 .. b
          /\ IF a >= b THEN a = 0 \/ ky = N(kx) ELSE kx = Nearest(ky, b, a)
    BY DEF LinePoints, OnLine
  <2> HIDE DEF kx, ky, a, b, s, N
  <2>5. p \in LinePoints(x0, y0, x1, y1) <=> kx \in 0 .. a /\ ky \in 0 .. b /\ ky = N(kx)
    BY <1>1, <2>4
  <2>6. \A n \in 0 .. a : n \in Int /\ N(n) \in Int /\ N(n) \in 0 .. b
    BY <1>2
  <2>7. \A n \in 0 .. a : p = <<Along(x0, x1, n), Along(y0, y1, N(n))>> <=> kx = n /\ ky = N(n)
    <3> SUFFICES ASSUME NEW n \in 0 .. a
                 PROVE  p = <<Along(x0, x1, n), Along(y0, y1, N(n))>> <=> kx = n /\ ky = N(n)
      OBVIOUS
    <3>1. p = <<Along(x0, x1, n), Along(y0, y1, N(n))>> <=>
            p[1] = Along(x0, x1, n) /\ p[2] = Along(y0, y1, N(n))
      BY <2>1
    <3> QED BY <2>2, <2>3, <2>6, <3>1
  <2> QED BY <2>5, <2>6, <2>7
<1> HIDE DEF a, b, s, N
<1>6. \A n \in 0 .. a : q[n] = <<Along(x0, x1, n), Along(y0, y1, N(n))>>
  BY <1>2
<1>7. [i \in 1 .. a + 1 |-> <<s[i - 1].x, s[i - 1].y>>] = [i \in 1 .. a + 1 |-> q[i - 1]]
  <2>1. \A i \in 1 .. a + 1 : i - 1 \in 0 .. a
    BY <1>1
  <2> QED BY <2>1
<1> HIDE DEF q
<1>8. \A n \in 0 .. a : q[n] \in Int \X Int
  <2> SUFFICES ASSUME NEW n \in 0 .. a PROVE q[n] \in Int \X Int
    OBVIOUS
  <2>1. n \in Int /\ N(n) \in Int
    <3>1. N(n) \in 0 .. b
      BY <1>2
    <3> QED BY <3>1
  <2>2. Along(x0, x1, n) \in Int /\ Along(y0, y1, N(n)) \in Int
    BY <1>3, <2>1
  <2> QED BY <1>6, <2>2
<1>9. \A n, k \in 0 .. a : q[n] = q[k] => n = k
  <2> SUFFICES ASSUME NEW n \in 0 .. a, NEW k \in 0 .. a, q[n] = q[k] PROVE n = k
    OBVIOUS
  <2>1. Along(x0, x1, n) = Along(x0, x1, k)
    BY <1>6
  <2> QED BY <1>3, <2>1
<1>10. \A p : p \in LinePoints(x0, y0, x1, y1) <=> \E n \in 0 .. a : p = q[n]
  <2> SUFFICES ASSUME NEW p
               PROVE  p \in LinePoints(x0, y0, x1, y1) <=> \E n \in 0 .. a : p = q[n]
    OBVIOUS
  <2>1. p \in LinePoints(x0, y0, x1, y1) => p \in Int \X Int
    BY DEF LinePoints
  <2>2. (\E n \in 0 .. a : p = q[n]) => p \in Int \X Int
    BY <1>8
  <2> QED BY <1>5, <1>6, <2>1, <2>2
<1>11. a \in Nat
  BY <1>1
<1>12. LinePixels(x0, y0, x1, y1) = [i \in 1 .. a + 1 |-> q[i - 1]]
  BY <1>4, <1>7
<1> DEFINE ps == LinePixels(x0, y0, x1, y1)
           S  == LinePoints(x0, y0, x1, y1)
<1> HIDE DEF ps, S
<1>13. \A p : p \in S <=> \E n \in 0 .. a : p = q[n]
  BY <1>10 DEF S
<1>14. ps = [i \in 1 .. a + 1 |-> q[i - 1]]
  BY <1>12 DEF ps
<1>15. IsPath(ps, a, q, S)
  BY <1>8, <1>9, <1>13, <1>14 DEF IsPath
<1>16. Dots(ps, S)
  BY <1>11, <1>15, PathDots
<1> QED BY <1>16 DEF ps, S

LEMMA RiseDots ==
  ASSUME NEW x0 \in Int, NEW y0 \in Int, NEW x1 \in Int, NEW y1 \in Int, x0 # x1, y0 # y1,
         iabs(x1 - x0) < iabs(y1 - y0)
  PROVE  Dots(LinePixels(x0, y0, x1, y1), LinePoints(x0, y0, x1, y1))
<1> DEFINE a == iabs(x1 - x0)
           b == iabs(y1 - y0)
           s == LineSteps(x0, y0, x1, y1)
           q  == [n \in 0 .. b |-> <<s[n].x, s[n].y>>]
           N(n) == Nearest(n, b, a)
<1>1. b \in Nat \ {0} /\ a \in Nat \ {0} /\ a < b
  BY AlongIs
<1>2. \A n \in 0 .. b : /\ N(n) \in 0 .. a
                        /\ n = b => N(n) = a
                        /\ s[n].x = Along(x0, x1, N(n))
                        /\ s[n].y = Along(y0, y1, n)
  <2>1. a = iabs(x1 - x0) /\ b = iabs(y1 - y0) /\ s = LineSteps(x0, y0, x1, y1)
    OBVIOUS
  <2> HIDE DEF a, b, s, q
  <2>2. AlongRise(s, x0, y0, x1, y1, a, b)
    BY <1>1, <2>1, RisePixels
  <2> QED BY <2>2 DEF AlongRise
<1>3. /\ Along(y0, y1, b) = y1 /\ Along(x0, x1, a) = x1
      /\ \A k \in Int : Along(x0, x1, k) \in Int /\ Along(y0, y1, k) \in Int
      /\ \A k, l \in Int : Along(y0, y1, k) = Along(y0, y1, l) => k = l
  <2>1. /\ Along(y0, y1, b) = y1
        /\ \A k \in Int : Along(y0, y1, k) \in Int
        /\ \A k, l \in Int : Along(y0, y1, k) = Along(y0, y1, l) => k = l
    BY AlongIs
  <2>2. /\ Along(x0, x1, a) = x1
        /\ \A k \in Int : Along(x0, x1, k) \in Int
    BY AlongIs
  <2> HIDE DEF b, a
  <2> QED BY <2>1, <2>2
<1>4. LinePixels(x0, y0, x1, y1) = [i \in 1 .. b + 1 |-> <<s[i - 1].x, s[i - 1].y>>]
  <2>1. \A n \in 0 .. b : s[n].x = x1 /\ s[n].y = y1 <=> n = b
    <3> HIDE DEF b, a, s, N
    <3> SUFFICES ASSUME NEW n \in 0 .. b
                 PROVE  s[n].x = x1 /\ s[n].y = y1 <=> n = b
      OBVIOUS
    <3>1. n \in Int /\ b \in Int
      BY <1>1
    <3>2. ASSUME s[n].y = y1 PROVE n = b
      <4>1. Along(y0, y1, n) = Along(y0, y1, b)
        BY <1>2, <1>3, <3>2
      <4> QED BY <1>3, <3>1, <4>1
    <3>3. ASSUME n = b PROVE s[n].x = x1 /\ s[n].y = y1
      BY <1>2, <1>3, <3>3
    <3> QED BY <3>2, <3>3
  <2>2. b \in 0 .. a + b
    <3> HIDE DEF b, a
    <3> QED BY <1>1
  <2> QED BY <2>1, <2>2, LineEnds
<1>5. \A p \in Int \X Int :
        p \in LinePoints(x0, y0, x1, y1) <=>
          \E n \in 0 .. b : p = <<Along(x0, x1, N(n)), Along(y0, y1, n)>>
  <2> SUFFICES ASSUME NEW p \in Int \X Int
               PROVE  p \in LinePoints(x0, y0, x1, y1) <=>
                        \E n \in 0 .. b : p = <<Along(x0, x1, N(n)), Along(y0, y1, n)>>
    OBVIOUS
  <2> DEFINE kx == IF x0 <= x1 THEN p[1] - x0 ELSE x0 - p[1]
             ky == IF y0 <= y1 THEN p[2] - y0 ELSE y0 - p[2]
  <2>1. p = <<p[1], p[2]>> /\ p[1] \in Int /\ p[2] \in Int
    OBVIOUS
  <2>2. kx \in Int /\ \A l \in Int : p[1] = Along(x0, x1, l) <=> kx = l
    BY <2>1, PlaceIs
  <2>3. ky \in Int /\ \A l \in Int : p[2] = Along(y0, y1, l) <=> ky = l
    BY <2>1, PlaceIs
  <2>4. p \in LinePoints(x0, y0, x1, y1) <=>
          /\ kx \in 0 .. a
          /\ ky \in 0 .. b
          /\ IF a >= b THEN a = 0 \/ ky = Nearest(kx, a, b) ELSE kx = N(ky)
    BY DEF LinePoints, OnLine
  <2> HIDE DEF kx, ky, b, a, s, N
  <2>5. p \in LinePoints(x0, y0, x1, y1) <=> kx \in 0 .. a /\ ky \in 0 .. b /\ kx = N(ky)
    BY <1>1, <2>4
  <2>6. \A n \in 0 .. b : n \in Int /\ N(n) \in Int /\ N(n) \in 0 .. a
    BY <1>2
  <2>7. \A n \in 0 .. b : p = <<Along(x0, x1, N(n)), Along(y0, y1, n)>> <=> kx = N(n) /\ ky = n
    <3> SUFFICES ASSUME NEW n \in 0 .. b
                 PROVE  p = <<Along(x0, x1, N(n)), Along(y0, y1, n)>> <=> kx = N(n) /\ ky = n
      OBVIOUS
    <3>1. p = <<Along(x0, x1, N(n)), Along(y0, y1, n)>> <=>
            p[1] = Along(x0, x1, N(n)) /\ p[2] = Along(y0, y1, n)
      BY <2>1
    <3> QED BY <2>2, <2>3, <2>6, <3>1
  <2> QED BY <2>5, <2>6, <2>7
<1> HIDE DEF b, a, s, N
<1>6. \A n \in 0 .. b : q[n] = <<Along(x0, x1, N(n)), Along(y0, y1, n)>>
  BY <1>2
<1>7. [i \in 1 .. b + 1 |-> <<s[i - 1].x, s[i - 1].y>>] = [i \in 1 .. b + 1 |-> q[i - 1]]
  <2>1. \A i \in 1 .. b + 1 : i - 1 \in 0 .. b
    BY <1>1
  <2> QED BY <2>1
<1> HIDE DEF q
<1>8. \A n \in 0 .. b : q[n] \in Int \X Int
  <2> SUFFICES ASSUME NEW n \in 0 .. b PROVE q[n] \in Int \X Int
    OBVIOUS
  <2>1. n \in Int /\ N(n) \in Int
    <3>1. N(n) \in 0 .. a
      BY <1>2
    <3> QED BY <3>1
  <2>2. Along(x0, x1, N(n)) \in Int /\ Along(y0, y1, n) \in Int
    BY <1>3, <2>1
  <2>3. q[n] = <<Along(x0, x1, N(n)), Along(y0, y1, n)>>
    BY <1>6
  <2> QED BY <2>2, <2>3
<1>9. \A n, k \in 0 .. b : q[n] = q[k] => n = k
  <2> SUFFICES ASSUME NEW n \in 0 .. b, NEW k \in 0 .. b, q[n] = q[k] PROVE n = k
    OBVIOUS
  <2>1. Along(y0, y1, n) = Along(y0, y1, k)
    BY <1>6
  <2> QED BY <1>3, <2>1
<1>10. \A p : p \in LinePoints(x0, y0, x1, y1) <=> \E n \in 0 .. b : p = q[n]
  <2> SUFFICES ASSUME NEW p
               PROVE  p \in LinePoints(x0, y0, x1, y1) <=> \E n \in 0 .. b : p = q[n]
    OBVIOUS
  <2>1. p \in LinePoints(x0, y0, x1, y1) => p \in Int \X Int
    BY DEF LinePoints
  <2>2. (\E n \in 0 .. b : p = q[n]) => p \in Int \X Int
    BY <1>8
  <2> QED BY <1>5, <1>6, <2>1, <2>2
<1>11. b \in Nat
  BY <1>1
<1>12. LinePixels(x0, y0, x1, y1) = [i \in 1 .. b + 1 |-> q[i - 1]]
  BY <1>4, <1>7
<1> DEFINE ps == LinePixels(x0, y0, x1, y1)
           S  == LinePoints(x0, y0, x1, y1)
<1> HIDE DEF ps, S
<1>13. \A p : p \in S <=> \E n \in 0 .. b : p = q[n]
  BY <1>10 DEF S
<1>14. ps = [i \in 1 .. b + 1 |-> q[i - 1]]
  BY <1>12 DEF ps
<1>15. IsPath(ps, b, q, S)
  BY <1>8, <1>9, <1>13, <1>14 DEF IsPath
<1>16. Dots(ps, S)
  BY <1>11, <1>15, PathDots
<1> QED BY <1>16 DEF ps, S

Segment(x0, y0, x1, y1) == {p \in Screen : OnLine(p, <<x0, y0>>, <<x1, y1>>)}

(* A line in any direction.                                                *)
LEMMA LinePaints ==
  ASSUME NEW x0 \in Int, NEW y0 \in Int, NEW x1 \in Int, NEW y1 \in Int
  PROVE  Paints(Line(x0, y0, x1, y1), Segment(x0, y0, x1, y1))
<1> DEFINE S == Segment(x0, y0, x1, y1)
           a == iabs(x1 - x0)
           b == iabs(y1 - y0)
<1>1. a \in Nat /\ a = (IF x1 - x0 < 0 THEN -(x1 - x0) ELSE x1 - x0)
  BY AbsIs
<1>2. b \in Nat /\ b = (IF y1 - y0 < 0 THEN -(y1 - y0) ELSE y1 - y0)
  BY AbsIs
<1>3. ASSUME NEW p \in Screen
      PROVE  LET kx == IF x0 <= x1 THEN p[1] - x0 ELSE x0 - p[1]
                 ky == IF y0 <= y1 THEN p[2] - y0 ELSE y0 - p[2]
             IN  p \in S <=> /\ kx \in 0 .. a
                             /\ ky \in 0 .. b
                             /\ IF a >= b THEN a = 0 \/ ky = Nearest(kx, a, b)
                                          ELSE kx = Nearest(ky, b, a)
  BY DEF Segment, OnLine
<1>4. CASE y0 = y1
  <2> DEFINE m == Smaller(x0, x1)
  <2>1. Line(x0, y0, x1, y1) = HLine(m, y0, a + 1)
    BY <1>4 DEF Line
  <2>2. m \in Int /\ m = IF x0 < x1 THEN x0 ELSE x1
    BY DEF Smaller
  <2> HIDE DEF m
  <2>3. Paints(HLine(m, y0, a + 1), Box(m, y0, a + 1, 1))
    <3> HIDE DEF a
    <3>1. a + 1 \in Int
      BY <1>1
    <3> QED BY <2>2, <3>1, HLinePaints
  <2>4. ASSUME NEW p \in Screen PROVE p \in Box(m, y0, a + 1, 1) <=> p \in S
    <3> DEFINE kx == IF x0 <= x1 THEN p[1] - x0 ELSE x0 - p[1]
               ky == p[2] - y0
    <3>1. p[1] \in Int /\ p[2] \in Int
      BY ScreenPoint
    <3>2. a + 1 \in Int
      <4> HIDE DEF a
      <4> QED BY <1>1
    <3>3. p \in Box(m, y0, a + 1, 1) <=> m <= p[1] /\ p[1] < m + (a + 1) /\ y0 <= p[2] /\ p[2] < y0 + 1
      <4> HIDE DEF a
      <4> QED BY <2>2, <3>2, BoxIs
    <3>4. p \in S <=> /\ kx \in 0 .. a
                      /\ ky \in 0 .. b
                      /\ IF a >= b THEN a = 0 \/ ky = Nearest(kx, a, b)
                                   ELSE kx = Nearest(ky, b, a)
      BY <1>3, <1>4
    <3>5. b = 0
      BY <1>2, <1>4
    <3>6. kx \in Int /\ a # 0 => Nearest(kx, a, b) = 0
      <4> HIDE DEF a, b
      <4> SUFFICES ASSUME kx \in Int, a # 0 PROVE Nearest(kx, a, b) = 0
        OBVIOUS
      <4> HIDE DEF kx
      <4>1. 2 * kx * 0 + a = a
        BY <1>1
      <4>2. (2 * a) * 0 <= a /\ a < (2 * a) * 0 + 2 * a /\ 2 * a \in Nat \ {0}
        BY <1>1
      <4>3. a \div (2 * a) = 0
        <5> DEFINE mm == 2 * a
        <5>1. a \in Int /\ mm \in Nat \ {0} /\ 0 \in Int /\ mm * 0 <= a /\ a < mm * 0 + mm
          BY <1>1, <4>2
        <5> HIDE DEF mm
        <5>2. a \div mm = 0
          BY <5>1, QuotientIs
        <5> QED BY <5>2 DEF mm
      <4> QED BY <3>5, <4>1, <4>3 DEF Nearest
    <3>7. kx \in Int
      BY <3>1
    <3>8. kx \in 0 .. a <=> m <= p[1] /\ p[1] < m + (a + 1)
      <4> HIDE DEF a
      <4> QED BY <1>1, <2>2, <3>1
    <3> HIDE DEF kx, a, b
    <3>9. ky \in 0 .. b <=> y0 <= p[2] /\ p[2] < y0 + 1
      BY <3>1, <3>5
    <3>10. ky \in 0 .. b => ky = 0
      BY <3>1, <3>5
    <3> HIDE DEF ky, S
    <3> QED BY <1>1, <3>3, <3>4, <3>5, <3>6, <3>7, <3>8, <3>9, <3>10
  <2> HIDE DEF S
  <2>5. Paints(HLine(m, y0, a + 1), S)
    BY <2>3, <2>4, SamePaints
  <2> QED BY <2>1, <2>5 DEF S
<1>5. CASE y0 # y1 /\ x0 = x1
  <2> DEFINE m == Smaller(y0, y1)
  <2>1. Line(x0, y0, x1, y1) = VLine(x0, m, b + 1)
    BY <1>5 DEF Line
  <2>2. m \in Int /\ m = IF y0 < y1 THEN y0 ELSE y1
    BY DEF Smaller
  <2> HIDE DEF m
  <2>3. Paints(VLine(x0, m, b + 1), Box(x0, m, 1, b + 1))
    <3> HIDE DEF b
    <3>1. b + 1 \in Int
      BY <1>2
    <3> QED BY <2>2, <3>1, VLinePaints
  <2>4. ASSUME NEW p \in Screen PROVE p \in Box(x0, m, 1, b + 1) <=> p \in S
    <3> DEFINE kx == p[1] - x0
               ky == IF y0 <= y1 THEN p[2] - y0 ELSE y0 - p[2]
    <3>1. p[1] \in Int /\ p[2] \in Int
      BY ScreenPoint
    <3>2. b + 1 \in Int
      <4> HIDE DEF b
      <4> QED BY <1>2
    <3>3. p \in Box(x0, m, 1, b + 1) <=> x0 <= p[1] /\ p[1] < x0 + 1 /\ m <= p[2] /\ p[2] < m + (b + 1)
      <4> HIDE DEF b
      <4> QED BY <2>2, <3>2, BoxIs
    <3>4. p \in S <=> /\ kx \in 0 .. a
                      /\ ky \in 0 .. b
                      /\ IF a >= b THEN a = 0 \/ ky = Nearest(kx, a, b)
                                   ELSE kx = Nearest(ky, b, a)
      BY <1>3, <1>5
    <3>5. a = 0 /\ b # 0
      BY <1>1, <1>2, <1>5
    <3>6. ky \in Int /\ b # 0 => Nearest(ky, b, a) = 0
      <4> HIDE DEF a, b
      <4> SUFFICES ASSUME ky \in Int, b # 0 PROVE Nearest(ky, b, a) = 0
        OBVIOUS
      <4> HIDE DEF ky
      <4>1. 2 * ky * 0 + b = b
        BY <1>2
      <4>2. (2 * b) * 0 <= b /\ b < (2 * b) * 0 + 2 * b /\ 2 * b \in Nat \ {0}
        BY <1>2
      <4>3. b \div (2 * b) = 0
        <5> DEFINE mm == 2 * b
        <5>1. b \in Int /\ mm \in Nat \ {0} /\ 0 \in Int /\ mm * 0 <= b /\ b < mm * 0 + mm
          BY <1>2, <4>2
        <5> HIDE DEF mm
        <5>2. b \div mm = 0
          BY <5>1, QuotientIs
        <5> QED BY <5>2 DEF mm
      <4> QED BY <3>5, <4>1, <4>3 DEF Nearest
    <3>7. ky \in Int
      BY <3>1
    <3>8. ky \in 0 .. b <=> m <= p[2] /\ p[2] < m + (b + 1)
      <4> HIDE DEF b
      <4> QED BY <1>2, <2>2, <3>1
    <3> HIDE DEF ky, a, b
    <3>9. kx \in 0 .. a <=> x0 <= p[1] /\ p[1] < x0 + 1
      BY <3>1, <3>5
    <3>10. kx \in 0 .. a => kx = 0
      BY <3>1, <3>5
    <3> HIDE DEF kx, S
    <3> QED BY <1>2, <3>3, <3>4, <3>5, <3>6, <3>7, <3>8, <3>9, <3>10
  <2> HIDE DEF S
  <2>5. Paints(VLine(x0, m, b + 1), S)
    BY <2>3, <2>4, SamePaints
  <2> QED BY <2>1, <2>5 DEF S
<1>6. CASE y0 # y1 /\ x0 # x1
  <2>1. Line(x0, y0, x1, y1) = Pixels(LinePixels(x0, y0, x1, y1))
    BY <1>6 DEF Line
  <2>2. Dots(LinePixels(x0, y0, x1, y1), LinePoints(x0, y0, x1, y1))
    <3>1. iabs(x1 - x0) \in Nat /\ iabs(y1 - y0) \in Nat
      BY <1>1, <1>2
    <3>2. iabs(x1 - x0) >= iabs(y1 - y0) \/ iabs(x1 - x0) < iabs(y1 - y0)
      BY <3>1
    <3> QED BY <1>6, <3>2, RunDots, RiseDots
  <2>3. Paints(Line(x0, y0, x1, y1), LinePoints(x0, y0, x1, y1))
    BY <2>1, <2>2, DotsPaint
  <2>4. \A p \in Screen : p \in LinePoints(x0, y0, x1, y1) <=> p \in S
    <3> SUFFICES ASSUME NEW p \in Screen PROVE p \in LinePoints(x0, y0, x1, y1) <=> p \in S
      OBVIOUS
    <3>1. p \in Int \X Int
      BY ScreenPoint
    <3> QED BY <3>1 DEF LinePoints, Segment
  <2> HIDE DEF S
  <2>5. Paints(Line(x0, y0, x1, y1), S)
    BY <2>3, <2>4, SamePaints
  <2> QED BY <2>5 DEF S
<1> QED BY <1>4, <1>5, <1>6

(* The bit that Bitmap reads for a pixel is the one that Layout has put    *)
(* there.                                                                  *)
LEMMA LayoutIs ==
  ASSUME NEW pic, pic.w \in Nat \ {0}, pic.h \in Nat \ {0},
         NEW row \in 0 .. pic.h - 1, NEW col \in 0 .. pic.w - 1
  PROVE  (7 - (col % 8)) \in Layout(pic)[row * stride(pic.w) + col \div 8] <=> <<col, row>> \in pic.ones
<1> DEFINE w == pic.w
           h == pic.h
           per == (w + 7) \div 8
           k == col \div 8
           b == 7 - (col % 8)
           i == row * per + k
           Col(c) == (8 * (i % per)) + 7 - c
<1>1. w \in Nat \ {0} /\ h \in Nat \ {0} /\ row \in 0 .. h - 1 /\ col \in 0 .. w - 1
  OBVIOUS
<1> HIDE DEF w, h
<1>2. per \in Nat \ {0} /\ w <= 8 * per
  BY <1>1
<1>3. k \in Nat /\ 8 * k <= col /\ col = 8 * k + (col % 8) /\ col % 8 \in 0 .. 7
  BY <1>1
<1> HIDE DEF per, k
<1>4. k < per
  BY <1>1, <1>2, <1>3
<1>5. row * per \in Nat /\ per * row = row * per
  BY <1>1, <1>2
<1>6. row * per + per <= h * per
  <2>1. (row + 1) * per <= h * per
    BY <1>1, <1>2, Product
  <2>2. (row + 1) * per = row * per + per
    BY <1>1, <1>2
  <2> QED BY <2>1, <2>2
<1>7. h * per \in Nat
  BY <1>1, <1>2
<1>8. i \in 0 .. h * per - 1
  <2> DEFINE P == row * per
             Q == h * per
  <2>1. P \in Nat /\ Q \in Nat /\ P + per <= Q
    BY <1>5, <1>6, <1>7
  <2> HIDE DEF P, Q
  <2>2. P + k \in 0 .. Q - 1
    BY <1>2, <1>3, <1>4, <2>1
  <2> QED BY <2>2 DEF P, Q
<1>9. i \in Int /\ per * row <= i /\ i < per * row + per
  BY <1>2, <1>3, <1>4, <1>5
<1>10. i \div per = row
  <2>1. row \in Int
    BY <1>1
  <2> HIDE DEF i
  <2> QED BY <1>2, <1>9, <2>1, QuotientIs
<1>11. i % per = k
  <2>1. i = per * (i \div per) + (i % per) /\ i % per \in Int
    BY <1>2, <1>9
  <2>2. i = per * row + (i % per)
    BY <1>10, <2>1
  <2>3. i = per * row + k
    BY <1>5
  <2> HIDE DEF i
  <2> DEFINE P == per * row
             m == i % per
  <2>4. P \in Int /\ m \in Int /\ i = P + m /\ i = P + k
    BY <1>1, <1>2, <2>1, <2>2, <2>3
  <2> HIDE DEF P, m
  <2>5. m = k
    BY <1>3, <2>4
  <2> QED BY <2>5 DEF m
<1>12. b \in Bits /\ Col(b) = col
  <2>1. Col(b) = 8 * k + 7 - b
    BY <1>11
  <2> HIDE DEF i
  <2>2. b \in 0 .. 7 /\ 8 * k + 7 - b = col
    BY <1>3
  <2> QED BY <2>1, <2>2 DEF Bits
<1>13. Layout(pic)[i] = {c \in Bits : Col(c) >= w \/ <<Col(c), i \div per>> \in pic.ones}
  <2>1. Layout(pic) = [j \in 0 .. h * per - 1 |->
          {c \in Bits : ((8 * (j % per)) + 7 - c) >= w \/ <<(8 * (j % per)) + 7 - c, j \div per>> \in pic.ones}]
    BY DEF Layout, w, h, per
  <2> HIDE DEF i
  <2> QED BY <1>8, <2>1
<1>14. b \in Layout(pic)[i] <=> <<col, row>> \in pic.ones
  <2>1. ~(col >= w)
    BY <1>1
  <2> HIDE DEF i, b, Col
  <2> QED BY <1>10, <1>12, <1>13, <2>1 DEF Col
<1> QED BY <1>14 DEF stride, per, k, w

Picture(x, y, pic) == {p \in Screen : <<p[1] - x, p[2] - y>> \in pic.ones}

(* A row of a picture, pixel by pixel.                                     *)
BitmapDots(x, y, w, bits, row) ==
  [col \in 0 .. w - 1 |-> IF (7 - (col % 8)) \in bits[row * stride(w) + col \div 8]
                          THEN fb_pixel(<<x + col, y + row>>) ELSE << >>]

BitmapRow(x, y, w, bits, row) ==
  IF y + row \notin 0 .. HEXA_OLED_HEIGHT - 1 THEN << >>
  ELSE EachOf(BitmapDots(x, y, w, bits, row), 0, w - 1)

PictureRow(x, y, pic, row) ==
  {p \in Screen : /\ p[2] = y + row
                  /\ p[1] - x \in 0 .. pic.w - 1
                  /\ <<p[1] - x, row>> \in pic.ones}

LEMMA BitmapIs ==
  ASSUME NEW x \in Int, NEW y \in Int, NEW w \in Int, NEW h \in Int, NEW bits
  PROVE  Bitmap(x, y, w, h, bits)
         = EachOf([row \in 0 .. h - 1 |-> BitmapRow(x, y, w, bits, row)], 0, h - 1)
<1> DEFINE a == 0
           c == w - 1
           b == h - 1
           Bit(row, col) == (7 - (col % 8)) \in bits[row * stride(w) + col \div 8]
           Dot(row, col) == IF Bit(row, col) THEN fb_pixel(<<x + col, y + row>>) ELSE << >>
           Row(row) == IF y + row \notin 0 .. HEXA_OLED_HEIGHT - 1 THEN << >>
                       ELSE FlattenSeq([i \in 1 .. Len(Run(a, c)) |-> Dot(row, a + i - 1)])
           F == [row \in a .. b |-> BitmapRow(x, y, w, bits, row)]
<1>1. a \in Int /\ b \in Int /\ c \in Int
  OBVIOUS
<1>2. Bitmap(x, y, w, h, bits) = FlattenSeq([i \in 1 .. Len(Run(a, b)) |-> Row(a + i - 1)])
  BY DEF Bitmap, Each
<1>3. ASSUME NEW row \in a .. b PROVE Row(row) = BitmapRow(x, y, w, bits, row)
  <2> DEFINE G == BitmapDots(x, y, w, bits, row)
  <2>1. \A i \in 1 .. Len(Run(a, c)) : G[a + i - 1] = Dot(row, a + i - 1)
    <3> SUFFICES ASSUME NEW i \in 1 .. Len(Run(a, c)) PROVE G[a + i - 1] = Dot(row, a + i - 1)
      OBVIOUS
    <3>1. a + i - 1 \in a .. c
      <4> HIDE DEF a, c
      <4> QED BY <1>1, RunIs
    <3> QED BY <3>1 DEF BitmapDots
  <2> HIDE DEF G, Dot, a, c
  <2>2. [i \in 1 .. Len(Run(a, c)) |-> Dot(row, a + i - 1)] = [i \in 1 .. Len(Run(a, c)) |-> G[a + i - 1]]
    BY <2>1
  <2> QED BY <2>2 DEF BitmapRow, EachOf, G, a, c
<1>4. \A i \in 1 .. Len(Run(a, b)) : F[a + i - 1] = Row(a + i - 1)
  <2> SUFFICES ASSUME NEW i \in 1 .. Len(Run(a, b)) PROVE F[a + i - 1] = Row(a + i - 1)
    OBVIOUS
  <2>1. a + i - 1 \in a .. b
    <3> HIDE DEF a, b
    <3> QED BY <1>1, RunIs
  <2> HIDE DEF Row
  <2> QED BY <1>3, <2>1
<1> HIDE DEF Row, F, a, b, c
<1>5. [i \in 1 .. Len(Run(a, b)) |-> Row(a + i - 1)] = [i \in 1 .. Len(Run(a, b)) |-> F[a + i - 1]]
  BY <1>4
<1> QED BY <1>2, <1>5 DEF EachOf, F, a, b

LEMMA BitmapRowPaints ==
  ASSUME NEW x \in Int, NEW y \in Int, NEW pic, pic.w \in Nat \ {0}, pic.h \in Nat \ {0},
         NEW row \in 0 .. pic.h - 1
  PROVE  Paints(BitmapRow(x, y, pic.w, Layout(pic), row), PictureRow(x, y, pic, row))
<1> DEFINE w == pic.w
           b == w - 1
           S == PictureRow(x, y, pic, row)
           F == BitmapDots(x, y, w, Layout(pic), row)
           R == [col \in 0 .. b |-> IF <<col, row>> \in pic.ones THEN {<<x + col, y + row>>} ELSE {}]
<1>1. row \in Int /\ y + row \in Int /\ b \in Int
  OBVIOUS
<1>2. CASE y + row \notin 0 .. HEXA_OLED_HEIGHT - 1
  <2>1. \A p \in Screen : p \notin S
    <3> SUFFICES ASSUME NEW p \in Screen PROVE p[2] # y + row
      BY DEF PictureRow
    <3>1. p[2] \in 0 .. HEXA_OLED_HEIGHT - 1
      BY ScreenPoint
    <3> QED BY <1>2, <3>1
  <2>2. BitmapRow(x, y, w, Layout(pic), row) = << >>
    BY <1>2 DEF BitmapRow
  <2> QED BY <2>1, <2>2, EmptyPaints
<1>3. CASE y + row \in 0 .. HEXA_OLED_HEIGHT - 1
  <2>1. ASSUME NEW col \in 0 .. b
        PROVE  F[col] = IF <<col, row>> \in pic.ones THEN fb_pixel(<<x + col, y + row>>) ELSE << >>
    <3>1. (7 - (col % 8)) \in Layout(pic)[row * stride(pic.w) + col \div 8] <=> <<col, row>> \in pic.ones
      BY LayoutIs
    <3> QED BY <3>1 DEF BitmapDots
  <2>2. ASSUME NEW col \in 0 .. b PROVE Paints(F[col], R[col])
    <3>1. CASE <<col, row>> \in pic.ones
      <4>1. <<x + col, y + row>> \in Int \X Int
        BY <1>1
      <4>2. F[col] = fb_pixel(<<x + col, y + row>>) /\ R[col] = {<<x + col, y + row>>}
        BY <2>1, <3>1
      <4> HIDE DEF F, R
      <4> QED BY <4>1, <4>2, PixelPaints
    <3>2. CASE <<col, row>> \notin pic.ones
      <4>1. F[col] = << >> /\ R[col] = {}
        BY <2>1, <3>2
      <4> HIDE DEF F, R
      <4> QED BY <4>1, EmptyPaints
    <3> QED BY <3>1, <3>2
  <2>3. ASSUME NEW col \in 0 .. b, NEW p \in Screen
        PROVE  p \in R[col] <=> <<col, row>> \in pic.ones /\ p[1] - x = col /\ p[2] = y + row
    <3>1. p = <<p[1], p[2]>> /\ p[1] \in Int /\ p[2] \in Int
      BY ScreenPoint
    <3>2. p = <<x + col, y + row>> <=> p[1] - x = col /\ p[2] = y + row
      <4>1. p = <<x + col, y + row>> <=> p[1] = x + col /\ p[2] = y + row
        BY <3>1
      <4> QED BY <3>1, <4>1
    <3> QED BY <3>2
  <2>4. \A i, j \in 0 .. b : i # j => \A p \in Screen : ~(p \in R[i] /\ p \in R[j])
    <3> SUFFICES ASSUME NEW i \in 0 .. b, NEW j \in 0 .. b, i # j, NEW p \in Screen, p \in R[i], p \in R[j]
                 PROVE  FALSE
      OBVIOUS
    <3>1. p[1] - x = i /\ p[1] - x = j
      BY <2>3
    <3> QED BY <3>1
  <2>5. Paints(EachOf(F, 0, b), {p \in Screen : \E i \in 0 .. b : p \in R[i]})
    <3> HIDE DEF F, R, b
    <3> QED BY <1>1, <2>2, <2>4, EachPaints
  <2>6. ASSUME NEW p \in Screen
        PROVE  p \in {q \in Screen : \E i \in 0 .. b : q \in R[i]} <=> p \in S
    <3> DEFINE k == p[1] - x
    <3>1. p \in S <=> p[2] = y + row /\ k \in 0 .. b /\ <<k, row>> \in pic.ones
      BY DEF PictureRow
    <3>2. \A i \in 0 .. b : p \in R[i] <=> <<i, row>> \in pic.ones /\ k = i /\ p[2] = y + row
      BY <2>3
    <3> HIDE DEF R, S, b, k
    <3> QED BY <3>1, <3>2
  <2> HIDE DEF F, R, S, b
  <2>7. Paints(EachOf(F, 0, b), S)
    BY <2>5, <2>6, SamePaints
  <2>8. BitmapRow(x, y, w, Layout(pic), row) = EachOf(F, 0, b)
    BY <1>3 DEF BitmapRow, F, b
  <2> QED BY <2>7, <2>8 DEF S, b
<1> QED BY <1>2, <1>3

LEMMA BitmapPaints ==
  ASSUME NEW x \in Int, NEW y \in Int, NEW pic, pic.w \in Nat \ {0}, pic.h \in Nat \ {0},
         pic.ones \subseteq (0 .. pic.w - 1) \X (0 .. pic.h - 1)
  PROVE  Paints(Bitmap(x, y, pic.w, pic.h, Layout(pic)), Picture(x, y, pic))
<1> DEFINE w == pic.w
           h == pic.h
           b == h - 1
           F == [row \in 0 .. b |-> BitmapRow(x, y, w, Layout(pic), row)]
           R == [row \in 0 .. b |-> PictureRow(x, y, pic, row)]
<1>1. b \in Int
  OBVIOUS
<1>2. Bitmap(x, y, w, h, Layout(pic)) = EachOf(F, 0, b)
  BY BitmapIs
<1>3. ASSUME NEW i \in 0 .. b PROVE Paints(F[i], R[i])
  <2>1. i \in 0 .. pic.h - 1
    OBVIOUS
  <2>2. Paints(BitmapRow(x, y, pic.w, Layout(pic), i), PictureRow(x, y, pic, i))
    BY <2>1, BitmapRowPaints
  <2> QED BY <2>2
<1>4. ASSUME NEW i \in 0 .. b, NEW p \in Screen
      PROVE  p \in R[i] <=> p[2] = y + i /\ <<p[1] - x, i>> \in pic.ones
  <2>1. <<p[1] - x, i>> \in pic.ones => p[1] - x \in 0 .. w - 1
    OBVIOUS
  <2> HIDE DEF w, b
  <2> QED BY <2>1 DEF PictureRow, w
<1>5. \A i, j \in 0 .. b : i # j => \A p \in Screen : ~(p \in R[i] /\ p \in R[j])
  <2> SUFFICES ASSUME NEW i \in 0 .. b, NEW j \in 0 .. b, i # j, NEW p \in Screen, p \in R[i], p \in R[j]
               PROVE  FALSE
    OBVIOUS
  <2>1. p[2] = y + i /\ p[2] = y + j
    BY <1>4
  <2>2. i \in Int /\ j \in Int
    OBVIOUS
  <2>3. p[2] \in Int
    BY ScreenPoint
  <2> HIDE DEF R, F, b, w, h
  <2> QED BY <2>1, <2>2, <2>3
<1>6. Paints(EachOf(F, 0, b), {p \in Screen : \E i \in 0 .. b : p \in R[i]})
  <2>1. 0 \in Int
    OBVIOUS
  <2>2. \A i \in 0 .. b : Paints(F[i], R[i])
    BY <1>3
  <2> HIDE DEF F, R, b, w, h
  <2> QED BY <1>1, <1>5, <2>1, <2>2, EachPaints
<1>7. ASSUME NEW p \in Screen
      PROVE  p \in {q \in Screen : \E i \in 0 .. b : q \in R[i]} <=> p \in Picture(x, y, pic)
  <2> DEFINE k == p[1] - x
             l == p[2] - y
  <2>1. p \in Picture(x, y, pic) <=> <<k, l>> \in pic.ones
    BY DEF Picture
  <2>2. <<k, l>> \in pic.ones => l \in 0 .. b
    OBVIOUS
  <2>3. \A i \in 0 .. b : p \in R[i] <=> l = i /\ <<k, i>> \in pic.ones
    <3> SUFFICES ASSUME NEW i \in 0 .. b PROVE p \in R[i] <=> l = i /\ <<k, i>> \in pic.ones
      OBVIOUS
    <3>1. p[2] = y + i <=> l = i
      <4>1. p[2] \in Int
        BY ScreenPoint
      <4> QED BY <4>1
    <3>2. p \in R[i] <=> p[2] = y + i /\ <<k, i>> \in pic.ones
      BY <1>4
    <3> HIDE DEF R, k, l
    <3> QED BY <3>1, <3>2
  <2> HIDE DEF R, k, l, b
  <2> QED BY <2>1, <2>2, <2>3
<1> HIDE DEF F, R, b
<1>8. Paints(EachOf(F, 0, b), Picture(x, y, pic))
  BY <1>6, <1>7, SamePaints
<1> QED BY <1>2, <1>8

(* Text.                                                                   *)

LEMMA SetToSeqDots ==
  ASSUME NEW S \in SUBSET (Int \X Int), IsFiniteSet(S)
  PROVE  Dots(SetToSeq(S), S)
<1> DEFINE n == Cardinality(S)
           f == SetToSeq(S)
<1>1. n \in Nat /\ ExistsBijection(1 .. n, S)
  BY FS_CardinalityType
<1>2. \E g \in [1 .. n -> S] : IsInjective(g)
  BY <1>1 DEF ExistsBijection, Bijection, Injection
<1>3. f \in [1 .. n -> S] /\ IsInjective(f)
  <2>1. f = CHOOSE g \in [1 .. n -> S] : IsInjective(g)
    BY DEF SetToSeq
  <2> HIDE DEF f, n
  <2> QED BY <1>2, <2>1
<1> HIDE DEF f
<1>4. f \in Surjection(1 .. n, S)
  <2>1. f \in Injection(1 .. n, S)
    BY <1>3 DEF Injection
  <2>2. Cardinality(1 .. n) = n /\ IsFiniteSet(1 .. n)
    <3>1. Cardinality(1 .. n) = IF 1 > n THEN 0 ELSE n - 1 + 1
      BY <1>1, FS_Interval
    <3>2. IsFiniteSet(1 .. n)
      BY <1>1, FS_Interval
    <3> HIDE DEF n
    <3> QED BY <1>1, <3>1, <3>2
  <2> QED BY <2>1, <2>2, FS_Injection
<1>5. \A p \in S : \E i \in 1 .. n : f[i] = p
  BY <1>4 DEF Surjection
<1> HIDE DEF n
<1>6. f \in Seq(S) /\ Len(f) = n /\ DOMAIN f = 1 .. n
  BY <1>1, <1>3, SeqIs
<1>7. f \in Seq(Int \X Int)
  BY <1>6
<1>8. \A p : p \in S <=> \E i \in 1 .. n : f[i] = p
  BY <1>3, <1>5
<1>9. \A i, j \in 1 .. n : f[i] = f[j] => i = j
  BY <1>3, <1>6 DEF IsInjective
<1> QED BY <1>6, <1>7, <1>8, <1>9 DEF Dots, f

LEMMA GlyphIs ==
  ASSUME NEW c
  PROVE  Glyph(c) \subseteq (0 .. 4) \X (0 .. 6)
BY ScreenAssumption, ArgumentsAssumption DEF Glyph

(* A character whose cell begins at u, v.                                  *)
Cell(c, u, v) == {<<u + g[1], v + g[2]>> : g \in Glyph(c)}

LEMMA CellIs ==
  ASSUME NEW c, NEW u \in Int, NEW v \in Int
  PROVE  /\ Cell(c, u, v) \subseteq (u .. u + 4) \X (v .. v + 6)
         /\ \A p \in Int \X Int : p \in Cell(c, u, v) <=> <<p[1] - u, p[2] - v>> \in Glyph(c)
<1>1. \A g \in Glyph(c) : /\ g = <<g[1], g[2]>> /\ g[1] \in 0 .. 4 /\ g[2] \in 0 .. 6
  BY GlyphIs
<1>2. ASSUME NEW p, p \in Cell(c, u, v) PROVE p \in (u .. u + 4) \X (v .. v + 6)
  <2>1. PICK g \in Glyph(c) : p = <<u + g[1], v + g[2]>>
    BY <1>2 DEF Cell
  <2>2. g[1] \in 0 .. 4 /\ g[2] \in 0 .. 6
    BY <1>1
  <2>3. u + g[1] \in u .. u + 4 /\ v + g[2] \in v .. v + 6
    BY <2>2
  <2> QED BY <2>1, <2>3
<1>3. ASSUME NEW p \in Int \X Int
      PROVE  p \in Cell(c, u, v) <=> <<p[1] - u, p[2] - v>> \in Glyph(c)
  <2>1. p = <<p[1], p[2]>> /\ p[1] \in Int /\ p[2] \in Int
    OBVIOUS
  <2>2. ASSUME NEW g \in Glyph(c), p = <<u + g[1], v + g[2]>>
        PROVE  <<p[1] - u, p[2] - v>> \in Glyph(c)
    <3>1. g = <<g[1], g[2]>> /\ g[1] \in Int /\ g[2] \in Int
      BY <1>1
    <3>2. p[1] - u = g[1] /\ p[2] - v = g[2]
      BY <2>2, <3>1
    <3> QED BY <3>1, <3>2
  <2>3. ASSUME <<p[1] - u, p[2] - v>> \in Glyph(c) PROVE p \in Cell(c, u, v)
    <3> DEFINE g == <<p[1] - u, p[2] - v>>
    <3>1. p = <<u + g[1], v + g[2]>>
      BY <2>1
    <3>2. g \in Glyph(c)
      BY <2>3
    <3> HIDE DEF g
    <3> QED BY <3>1, <3>2 DEF Cell
  <2> QED BY <2>2, <2>3 DEF Cell
<1> QED BY <1>2, <1>3

LEMMA CellPaints ==
  ASSUME NEW c, NEW u \in Int, NEW v \in Int
  PROVE  Paints(Pixels(SetToSeq(Cell(c, u, v))), Cell(c, u, v))
<1> DEFINE S == Cell(c, u, v)
<1>1. S \subseteq (u .. u + 4) \X (v .. v + 6)
  BY CellIs
<1> HIDE DEF S
<1>2. IsFiniteSet(S)
  <2> DEFINE A == u .. u + 4
             B == v .. v + 6
  <2>1. u + 4 \in Int /\ v + 6 \in Int
    OBVIOUS
  <2>2. IsFiniteSet(A) /\ IsFiniteSet(B)
    BY <2>1, FS_Interval
  <2> HIDE DEF A, B
  <2>3. IsFiniteSet(A \X B)
    BY <2>2, FS_Product
  <2>4. S \in SUBSET (A \X B)
    BY <1>1 DEF A, B
  <2> QED BY <2>3, <2>4, FS_Subset
<1>3. S \in SUBSET (Int \X Int)
  BY <1>1
<1>4. Dots(SetToSeq(S), S)
  BY <1>2, <1>3, SetToSeqDots
<1> QED BY <1>4, DotsPaint DEF S

Writing(text, x, y) == {p \in Screen : InText(p, text, x, y)}

LetterRow(text, x, y) ==
  [i \in 1 .. Len(text) |-> IF x + 6 * (i - 1) >= HEXA_OLED_WIDTH THEN << >>
                            ELSE Pixels(SetToSeq(Cell(text[i], x + 6 * (i - 1), y)))]

LEMMA LettersIs ==
  ASSUME NEW text, Len(text) \in Nat, NEW x \in Nat, NEW y \in Nat, y < HEXA_OLED_HEIGHT
  PROVE  Letters(text, x, y) = EachOf(LetterRow(text, x, y), 1, Len(text))
<1> DEFINE a == 1
           b == Len(text)
           F == LetterRow(text, x, y)
           Letter(i) == IF x + 6 * (i - 1) >= HEXA_OLED_WIDTH THEN << >>
                        ELSE Pixels(SetToSeq({<<x + 6 * (i - 1) + g[1], y + g[2]>> : g \in Glyph(text[i])}))
<1>1. a \in Int /\ b \in Int
  OBVIOUS
<1>2. Letters(text, x, y) = FlattenSeq([i \in 1 .. Len(Run(a, b)) |-> Letter(a + i - 1)])
  <2>1. ~(y >= HEXA_OLED_HEIGHT)
    BY ScreenIs
  <2> QED BY <2>1 DEF Letters, Each
<1>3. ASSUME NEW i \in a .. b PROVE F[i] = Letter(i)
  BY DEF LetterRow, Cell
<1>4. \A i \in 1 .. Len(Run(a, b)) : F[a + i - 1] = Letter(a + i - 1)
  <2> SUFFICES ASSUME NEW i \in 1 .. Len(Run(a, b)) PROVE F[a + i - 1] = Letter(a + i - 1)
    OBVIOUS
  <2> HIDE DEF a, b, F, Letter
  <2>1. a + i - 1 \in a .. b
    BY <1>1, RunIs
  <2> QED BY <1>3, <2>1
<1> HIDE DEF a, b, F, Letter
<1>5. [i \in 1 .. Len(Run(a, b)) |-> Letter(a + i - 1)] = [i \in 1 .. Len(Run(a, b)) |-> F[a + i - 1]]
  BY <1>4
<1> QED BY <1>2, <1>5 DEF EachOf, F, a, b

(* Letters are six columns apart, and a glyph has five.                    *)
LEMMA LettersPaint ==
  ASSUME NEW text, Len(text) \in Nat, NEW x \in Nat, NEW y \in Nat
  PROVE  Paints(Letters(text, x, y), Writing(text, x, y))
<1> DEFINE n == Len(text)
           F == LetterRow(text, x, y)
           U(i) == x + 6 * (i - 1)
           R == [i \in 1 .. n |-> IF U(i) >= HEXA_OLED_WIDTH THEN {} ELSE Cell(text[i], U(i), y)]
           S == Writing(text, x, y)
<1>1. \A p \in Screen : /\ p = <<p[1], p[2]>> /\ p \in Int \X Int
                        /\ p[1] \in Nat /\ p[2] \in Nat
                        /\ p[1] < HEXA_OLED_WIDTH /\ p[2] < HEXA_OLED_HEIGHT
  <2> SUFFICES ASSUME NEW p \in Screen
               PROVE  /\ p = <<p[1], p[2]>> /\ p \in Int \X Int
                      /\ p[1] \in Nat /\ p[2] \in Nat
                      /\ p[1] < HEXA_OLED_WIDTH /\ p[2] < HEXA_OLED_HEIGHT
    OBVIOUS
  <2>1. p = <<p[1], p[2]>> /\ p[1] \in Nat /\ p[2] \in Nat /\ p[1] < HEXA_OLED_WIDTH /\ p[2] < HEXA_OLED_HEIGHT
    BY ScreenPoint
  <2> QED BY <2>1
<1>2. ASSUME NEW p \in Screen
      PROVE  p \in S <=> \E i \in 1 .. n : p \in Cell(text[i], U(i), y)
  <2>1. ASSUME NEW i \in 1 .. n
        PROVE  p \in Cell(text[i], U(i), y) <=> <<p[1] - x - 6 * (i - 1), p[2] - y>> \in Glyph(text[i])
    <3>1. U(i) \in Int /\ p[1] - U(i) = p[1] - x - 6 * (i - 1)
      BY <1>1
    <3>2. p \in Int \X Int
      BY <1>1
    <3> HIDE DEF U
    <3>3. p \in Cell(text[i], U(i), y) <=> <<p[1] - U(i), p[2] - y>> \in Glyph(text[i])
      BY <3>1, <3>2, CellIs
    <3> QED BY <3>1, <3>3
  <2>2. p \in S <=> \E i \in 1 .. n : <<p[1] - x - 6 * (i - 1), p[2] - y>> \in Glyph(text[i])
    BY DEF Writing, InText
  <2> HIDE DEF S, U
  <2> QED BY <2>1, <2>2
<1>3. ASSUME NEW i \in 1 .. n, NEW p \in Screen, p \in Cell(text[i], U(i), y)
      PROVE  U(i) <= p[1] /\ p[1] <= U(i) + 4 /\ y <= p[2] /\ U(i) \in Int
  <2>1. U(i) \in Int
    OBVIOUS
  <2> HIDE DEF U
  <2>2. p \in (U(i) .. U(i) + 4) \X (y .. y + 6)
    BY <1>3, <2>1, CellIs
  <2>3. p[1] \in U(i) .. U(i) + 4 /\ p[2] \in y .. y + 6
    BY <2>2
  <2> QED BY <2>1, <2>3
<1>4. CASE y >= HEXA_OLED_HEIGHT
  <2>1. Letters(text, x, y) = << >>
    BY <1>4 DEF Letters
  <2>2. \A p \in Screen : p \notin S
    <3> SUFFICES ASSUME NEW p \in Screen, p \in S PROVE FALSE
      OBVIOUS
    <3>1. PICK i \in 1 .. n : p \in Cell(text[i], U(i), y)
      BY <1>2
    <3>2. y <= p[2]
      BY <1>3, <3>1
    <3> HIDE DEF S
    <3> QED BY <1>1, <1>4, <3>2, ScreenIs
  <2> QED BY <2>1, <2>2, EmptyPaints
<1>5. CASE y < HEXA_OLED_HEIGHT
  <2>1. Letters(text, x, y) = EachOf(F, 1, n)
    BY <1>5, LettersIs
  <2>2. ASSUME NEW i \in 1 .. n PROVE Paints(F[i], R[i])
    <3>1. U(i) \in Int
      OBVIOUS
    <3>2. CASE U(i) >= HEXA_OLED_WIDTH
      <4>1. F[i] = << >> /\ R[i] = {}
        BY <3>2 DEF LetterRow
      <4> HIDE DEF F, R
      <4> QED BY <4>1, EmptyPaints
    <3>3. CASE ~(U(i) >= HEXA_OLED_WIDTH)
      <4>1. F[i] = Pixels(SetToSeq(Cell(text[i], U(i), y))) /\ R[i] = Cell(text[i], U(i), y)
        BY <3>3 DEF LetterRow
      <4> HIDE DEF F, R, U
      <4>2. Paints(Pixels(SetToSeq(Cell(text[i], U(i), y))), Cell(text[i], U(i), y))
        BY <3>1, CellPaints
      <4> QED BY <4>1, <4>2
    <3> QED BY <3>2, <3>3
  <2>3. ASSUME NEW i \in 1 .. n, NEW p \in Screen
        PROVE  p \in R[i] <=> p \in Cell(text[i], U(i), y)
    <3>1. U(i) >= HEXA_OLED_WIDTH => p \notin Cell(text[i], U(i), y)
      <4> SUFFICES ASSUME U(i) >= HEXA_OLED_WIDTH, p \in Cell(text[i], U(i), y) PROVE FALSE
        OBVIOUS
      <4>1. U(i) <= p[1] /\ U(i) \in Int /\ p[1] \in Nat /\ p[1] < HEXA_OLED_WIDTH
        BY <1>1, <1>3
      <4> HIDE DEF U
      <4> QED BY <4>1, ScreenIs
    <3> HIDE DEF U
    <3> QED BY <3>1
  <2>4. \A i, j \in 1 .. n : i # j => \A p \in Screen : ~(p \in R[i] /\ p \in R[j])
    <3> SUFFICES ASSUME NEW i \in 1 .. n, NEW j \in 1 .. n, i # j,
                        NEW p \in Screen, p \in R[i], p \in R[j]
                 PROVE  FALSE
      OBVIOUS
    <3>1. U(i) <= p[1] /\ p[1] <= U(i) + 4
      BY <1>3, <2>3
    <3>2. U(j) <= p[1] /\ p[1] <= U(j) + 4
      BY <1>3, <2>3
    <3>3. p[1] \in Nat
      BY <1>1
    <3> HIDE DEF R
    <3> QED BY <3>1, <3>2, <3>3
  <2>5. Paints(EachOf(F, 1, n), {p \in Screen : \E i \in 1 .. n : p \in R[i]})
    <3>1. 1 \in Int /\ n \in Int
      OBVIOUS
    <3> HIDE DEF F, R, n
    <3> QED BY <2>2, <2>4, <3>1, EachPaints
  <2>6. ASSUME NEW p \in Screen
        PROVE  p \in {q \in Screen : \E i \in 1 .. n : q \in R[i]} <=> p \in S
    <3> HIDE DEF R, S, U, n
    <3> QED BY <1>2, <2>3
  <2> HIDE DEF F, R, S, n
  <2> QED BY <2>1, <2>5, <2>6, SamePaints DEF S
<1>6. y >= HEXA_OLED_HEIGHT \/ y < HEXA_OLED_HEIGHT
  BY ScreenIs
<1> QED BY <1>4, <1>5, <1>6

(* The figures by their names.                                             *)

LEMMA PixelFigureIs ==
  ASSUME NEW x, NEW y, NEW k
  PROVE  Figure([fn |-> "pixel", args |-> <<x, y>>, color |-> k]) = {p \in Screen : p = <<x, y>>}
BY DEF Figure

LEMMA AxisFigureIs ==
  ASSUME NEW x, NEW y, NEW l, NEW k
  PROVE  /\ Figure([fn |-> "hline", args |-> <<x, y, l>>, color |-> k]) = Box(x, y, l, 1)
         /\ Figure([fn |-> "vline", args |-> <<x, y, l>>, color |-> k]) = Box(x, y, 1, l)
<1>1. Figure([fn |-> "hline", args |-> <<x, y, l>>, color |-> k]) = Box(x, y, l, 1)
  BY DEF Figure, Box
<1>2. Figure([fn |-> "vline", args |-> <<x, y, l>>, color |-> k]) = Box(x, y, 1, l)
  BY DEF Figure, Box
<1> QED BY <1>1, <1>2

LEMMA LineFigureIs ==
  ASSUME NEW x0, NEW y0, NEW x1, NEW y1, NEW k
  PROVE  Figure([fn |-> "line", args |-> <<x0, y0, x1, y1>>, color |-> k]) = Segment(x0, y0, x1, y1)
BY DEF Figure, Segment

LEMMA RectFigureIs ==
  ASSUME NEW x, NEW y, NEW w, NEW h, NEW k
  PROVE  /\ Figure([fn |-> "rect", args |-> <<x, y, w, h>>, color |-> k]) = Frame(x, y, w, h)
         /\ Figure([fn |-> "fill_rect", args |-> <<x, y, w, h>>, color |-> k]) = Box(x, y, w, h)
<1>1. Figure([fn |-> "rect", args |-> <<x, y, w, h>>, color |-> k]) = Frame(x, y, w, h)
  BY DEF Figure, Frame
<1>2. Figure([fn |-> "fill_rect", args |-> <<x, y, w, h>>, color |-> k]) = Box(x, y, w, h)
  BY DEF Figure, Box
<1> QED BY <1>1, <1>2

LEMMA CircleFigureIs ==
  ASSUME NEW x, NEW y, NEW r, NEW k
  PROVE  /\ Figure([fn |-> "circle", args |-> <<x, y, r>>, color |-> k]) = Round(x, y, r)
         /\ Figure([fn |-> "fill_circle", args |-> <<x, y, r>>, color |-> k]) = Disc(x, y, r)
<1>1. Figure([fn |-> "circle", args |-> <<x, y, r>>, color |-> k]) = Round(x, y, r)
  BY DEF Figure, Round
<1>2. Figure([fn |-> "fill_circle", args |-> <<x, y, r>>, color |-> k]) = Disc(x, y, r)
  BY DEF Figure, Disc
<1> QED BY <1>1, <1>2

LEMMA PictureFigureIs ==
  ASSUME NEW x, NEW y, NEW z, NEW k
  PROVE  /\ Figure([fn |-> "bitmap", args |-> <<x, y, z>>, color |-> k]) = Picture(x, y, z)
         /\ Figure([fn |-> "print", args |-> <<x, y, z>>, color |-> k]) = Writing(z, x, y)
<1>1. Figure([fn |-> "bitmap", args |-> <<x, y, z>>, color |-> k]) = Picture(x, y, z)
  BY DEF Figure, Picture
<1>2. Figure([fn |-> "print", args |-> <<x, y, z>>, color |-> k]) = Writing(z, x, y)
  BY DEF Figure, Writing
<1> QED BY <1>1, <1>2

-----------------------------------------------------------------------------
(* The invariant.                                                          *)

(* The pointer of the display is where the flushes cut short have left it. *)
Shape ==
  /\ TypeOK
  /\ display.at = lost
  /\ ready => display.on

Drawn == LinesExact /\ RectsExact /\ CirclesExact /\ PicturesExact

IInv == Shape /\ FrameIsShown /\ Drawn

LEMMA TypeIs ==
  TypeOK <=> /\ fb \in Frames
             /\ fb[0] = ControlByte
             /\ st \in {"OK", "ERR", "ERR_PARAM", "ERR_BUS"}
             /\ display \in [ram : [0 .. FB_DATA_SIZE - 1 -> SUBSET Bits],
                             at : 0 .. FB_DATA_SIZE - 1, on : BOOLEAN]
BY DEF TypeOK, Frames

LEMMA BlankIs == Blank \in Frames /\ Blank[0] = ControlByte
<1>1. FB_SIZE - 1 \in Nat /\ 0 \in 0 .. FB_SIZE - 1
  BY Bytes
<1>2. ControlByte \in SUBSET Bits
  BY DEF ControlByte, Bits
<1> QED BY <1>1, <1>2 DEF Blank, Frames

LEMMA Initially == Init => IInv
<1> SUFFICES ASSUME Init PROVE IInv
  OBVIOUS
<1>1. fb \in Frames /\ fb[0] = ControlByte /\ st = "OK" /\ call.fn = "none"
  BY BlankIs DEF Init, NoCall
<1>2. /\ display \in [ram : [0 .. FB_DATA_SIZE - 1 -> SUBSET Bits],
                      at : 0 .. FB_DATA_SIZE - 1, on : BOOLEAN]
      /\ display.at = 0
  <2>1. 0 \in 0 .. FB_DATA_SIZE - 1
    BY Bytes
  <2> QED BY <2>1 DEF Init, PowerOn
<1>3. Shape
  BY <1>1, <1>2, TypeIs DEF Shape, Init
<1>4. FrameIsShown /\ Drawn
  BY <1>1 DEF FrameIsShown, Drawn, LinesExact, RectsExact, CirclesExact, PicturesExact
<1> QED BY <1>3, <1>4 DEF IInv

(* A call of which nothing is said but that it draws its figure.           *)
LEMMA CallIs ==
  ASSUME Shape', call'.fn # "flush", IsDrawn'
  PROVE  IInv'
BY DEF IInv, FrameIsShown, Drawn, LinesExact, RectsExact, CirclesExact, PicturesExact

LEMMA NoCallIs ==
  ASSUME Shape', call'.fn \in {"none", "init"}
  PROVE  IInv'
BY DEF IInv, FrameIsShown, Drawn, LinesExact, RectsExact, CirclesExact, PicturesExact

-----------------------------------------------------------------------------
(* The functions that draw.                                                *)

LEMMA DrawsShape ==
  ASSUME Shape, NEW c, NEW status \in {"OK", "ERR", "ERR_PARAM"}, NEW writes,
         Draws(c, status, writes), status = "OK" => writes \in Seq(Writes)
  PROVE  Shape' /\ call' = c
<1>1. fb \in Frames /\ fb[0] = ControlByte
  BY TypeIs DEF Shape
<1>2. written' \in Seq(Writes)
  BY DEF Draws
<1>3. fb' = fb_apply(fb, written', c.color)
  BY DEF Draws
<1>4. fb' \in Frames /\ fb'[0] = ControlByte
  BY <1>1, <1>2, <1>3, ApplyType
<1>5. /\ display' = display /\ lost' = lost /\ ready' = ready
      /\ st' \in {"OK", "ERR", "ERR_PARAM", "ERR_BUS"} /\ call' = c
  BY DEF Draws
<1>6. TypeOK'
  BY <1>4, <1>5, TypeIs DEF Shape, TypeOK, Frames
<1> QED BY <1>5, <1>6 DEF Shape

LEMMA DrawsExactly ==
  ASSUME Shape, NEW c, NEW status \in {"OK", "ERR", "ERR_PARAM"}, NEW writes,
         Draws(c, status, writes), status = "OK" => Paints(writes, Figure(c)),
         c.fn # "flush"
  PROVE  IInv'
<1>1. fb \in Frames
  BY TypeIs DEF Shape
<1>2. status = "OK" => writes \in Seq(Writes)
  BY DEF Paints, Covers
<1>3. Shape' /\ call' = c
  BY <1>2, DrawsShape
<1>4. /\ fb' = fb_apply(fb, written', c.color) /\ before' = fb /\ st' = status
      /\ written' = IF status = "OK" THEN writes ELSE << >>
  BY DEF Draws
<1>5. CASE status = "OK"
  <2>1. Figure(c) \in SUBSET Screen
    BY DEF Figure
  <2>2. Lit(fb_apply(fb, writes, c.color)) = Painted(Lit(fb), Figure(c), c.color)
    BY <1>1, <1>5, <2>1, PaintsDraws
  <2>3. IsDrawn'
    <3>1. IsDrawn' <=> Lit(fb') = IF st' = "OK" THEN Painted(Lit(before'), Figure(call'), call'.color)
                                                ELSE Lit(before')
      BY DEF IsDrawn, Lit, Painted, Figure
    <3> QED BY <1>3, <1>4, <1>5, <2>2, <3>1
  <2> QED BY <1>3, <2>3, CallIs
<1>6. CASE status # "OK"
  <2>1. Lit(fb_apply(fb, << >>, c.color)) = Lit(fb)
    BY <1>1, NothingDraws
  <2>2. IsDrawn'
    <3>1. IsDrawn' <=> Lit(fb') = IF st' = "OK" THEN Painted(Lit(before'), Figure(call'), call'.color)
                                                ELSE Lit(before')
      BY DEF IsDrawn, Lit, Painted, Figure
    <3> QED BY <1>4, <1>6, <2>1, <3>1
  <2> QED BY <1>3, <2>2, CallIs
<1> QED BY <1>5, <1>6

(* A circle of radius 0, whose pixel is written twice.                     *)
LEMMA DrawsPoint ==
  ASSUME Shape, NEW c, NEW writes,
         Draws(c, "OK", writes), Covers(writes, Figure(c)),
         c.fn = "circle", c.args[3] = 0, c.color \in Colors
  PROVE  IInv'
<1>1. fb \in Frames
  BY TypeIs DEF Shape
<1>2. Shape' /\ call' = c
  <2>1. writes \in Seq(Writes)
    BY DEF Covers
  <2> QED BY <2>1, DrawsShape
<1>3. CASE c.color \in {0, 1}
  <2>1. Figure(c) \in SUBSET Screen
    BY DEF Figure
  <2>2. Lit(fb_apply(fb, writes, c.color)) = Painted(Lit(fb), Figure(c), c.color)
    BY <1>1, <1>3, <2>1, CoversDraws
  <2>3. fb' = fb_apply(fb, writes, c.color) /\ before' = fb /\ st' = "OK"
    BY DEF Draws
  <2>4. IsDrawn'
    <3>1. IsDrawn' <=> Lit(fb') = IF st' = "OK" THEN Painted(Lit(before'), Figure(call'), call'.color)
                                                ELSE Lit(before')
      BY DEF IsDrawn, Lit, Painted, Figure
    <3> QED BY <1>2, <2>2, <2>3, <3>1
  <2> QED BY <1>2, <2>4, CallIs
<1>4. CASE c.color \notin {0, 1}
  <2>1. call'.fn = "circle" /\ call'.args[3] = 0 /\ ~(call'.color < 2)
    BY <1>2, <1>4 DEF Colors
  <2>2. FrameIsShown' /\ Drawn'
    BY <2>1 DEF FrameIsShown, Drawn, LinesExact, RectsExact, CirclesExact, PicturesExact
  <2> QED BY <1>2, <2>2 DEF IInv
<1> QED BY <1>3, <1>4

LEMMA ArgumentsAre ==
  /\ Xs \subseteq Int /\ Ys \subseteq Int /\ Sizes \subseteq Int /\ Radii \subseteq Int
  /\ \A text \in Texts : Len(text) \in Nat
<1>1. Xs \union Ys \union Sizes \union Radii \subseteq Int
  BY ScreenAssumption
<1>2. \A text \in Texts : Len(text) \in Nat
  <2>1. Texts \subseteq Seq(STRING)
    BY ArgumentsAssumption
  <2> QED BY <2>1
<1> QED BY <1>1, <1>2

LEMMA PixelStep == Shape /\ hexa_oled_pixel => IInv'
<1> SUFFICES ASSUME Shape, hexa_oled_pixel PROVE IInv'
  OBVIOUS
<1>1. PICK x \in Xs \cap Nat, y \in Ys \cap Nat, k \in Colors :
        Draws([fn |-> "pixel", args |-> <<x, y>>, color |-> k],
              IF OnScreen(<<x, y>>) THEN "OK" ELSE "ERR", fb_pixel(<<x, y>>))
  BY DEF hexa_oled_pixel
<1> DEFINE c == [fn |-> "pixel", args |-> <<x, y>>, color |-> k]
           status == IF OnScreen(<<x, y>>) THEN "OK" ELSE "ERR"
<1>2. Paints(fb_pixel(<<x, y>>), {<<x, y>>})
  <2>1. <<x, y>> \in Int \X Int
    OBVIOUS
  <2> QED BY <2>1, PixelPaints
<1>3. Paints(fb_pixel(<<x, y>>), Figure(c))
  <2>1. Figure(c) = {p \in Screen : p = <<x, y>>}
    BY PixelFigureIs
  <2>2. \A p \in Screen : p \in {<<x, y>>} <=> p \in Figure(c)
    BY <2>1
  <2> HIDE DEF c
  <2> QED BY <1>2, <2>2, SamePaints
<1>4. c.fn # "flush" /\ status \in {"OK", "ERR", "ERR_PARAM"}
  OBVIOUS
<1> HIDE DEF c, status
<1>5. Draws(c, status, fb_pixel(<<x, y>>))
  BY <1>1 DEF c, status
<1> QED BY <1>3, <1>4, <1>5, DrawsExactly

LEMMA HLineStep == Shape /\ hexa_oled_hline => IInv'
<1> SUFFICES ASSUME Shape, hexa_oled_hline PROVE IInv'
  OBVIOUS
<1>1. PICK x \in Xs, y \in Ys, w \in Sizes, k \in Colors :
        Draws([fn |-> "hline", args |-> <<x, y, w>>, color |-> k], ParamStatus(w > 0), HLine(x, y, w))
  BY DEF hexa_oled_hline
<1> DEFINE c == [fn |-> "hline", args |-> <<x, y, w>>, color |-> k]
           status == ParamStatus(w > 0)
<1>2. ASSUME status = "OK" PROVE Paints(HLine(x, y, w), Figure(c))
  <2>1. x \in Int /\ y \in Int /\ w \in Int
    BY <1>2, ArgumentsAre DEF ParamStatus
  <2>2. Figure(c) = Box(x, y, w, 1)
    BY AxisFigureIs
  <2> HIDE DEF c
  <2> QED BY <2>1, <2>2, HLinePaints
<1>3. c.fn # "flush" /\ status \in {"OK", "ERR", "ERR_PARAM"}
  BY DEF ParamStatus
<1> HIDE DEF c, status
<1>4. Draws(c, status, HLine(x, y, w))
  BY <1>1 DEF c, status
<1> QED BY <1>2, <1>3, <1>4, DrawsExactly

LEMMA VLineStep == Shape /\ hexa_oled_vline => IInv'
<1> SUFFICES ASSUME Shape, hexa_oled_vline PROVE IInv'
  OBVIOUS
<1>1. PICK x \in Xs, y \in Ys, h \in Sizes, k \in Colors :
        Draws([fn |-> "vline", args |-> <<x, y, h>>, color |-> k], ParamStatus(h > 0), VLine(x, y, h))
  BY DEF hexa_oled_vline
<1> DEFINE c == [fn |-> "vline", args |-> <<x, y, h>>, color |-> k]
           status == ParamStatus(h > 0)
<1>2. ASSUME status = "OK" PROVE Paints(VLine(x, y, h), Figure(c))
  <2>1. x \in Int /\ y \in Int /\ h \in Int
    BY <1>2, ArgumentsAre DEF ParamStatus
  <2>2. Figure(c) = Box(x, y, 1, h)
    BY AxisFigureIs
  <2> HIDE DEF c
  <2> QED BY <2>1, <2>2, VLinePaints
<1>3. c.fn # "flush" /\ status \in {"OK", "ERR", "ERR_PARAM"}
  BY DEF ParamStatus
<1> HIDE DEF c, status
<1>4. Draws(c, status, VLine(x, y, h))
  BY <1>1 DEF c, status
<1> QED BY <1>2, <1>3, <1>4, DrawsExactly

LEMMA LineStep == Shape /\ hexa_oled_line => IInv'
<1> SUFFICES ASSUME Shape, hexa_oled_line PROVE IInv'
  OBVIOUS
<1>1. PICK x0 \in Xs, x1 \in Xs, y0 \in Ys, y1 \in Ys, k \in Colors :
        Draws([fn |-> "line", args |-> <<x0, y0, x1, y1>>, color |-> k], "OK", Line(x0, y0, x1, y1))
  BY DEF hexa_oled_line
<1> DEFINE c == [fn |-> "line", args |-> <<x0, y0, x1, y1>>, color |-> k]
           status == "OK"
<1>2. ASSUME status = "OK" PROVE Paints(Line(x0, y0, x1, y1), Figure(c))
  <2>1. x0 \in Int /\ y0 \in Int /\ x1 \in Int /\ y1 \in Int
    BY <1>2, ArgumentsAre DEF ParamStatus
  <2>2. Figure(c) = Segment(x0, y0, x1, y1)
    BY LineFigureIs
  <2> HIDE DEF c
  <2> QED BY <2>1, <2>2, LinePaints
<1>3. c.fn # "flush" /\ status \in {"OK", "ERR", "ERR_PARAM"}
  BY DEF ParamStatus
<1> HIDE DEF c, status
<1>4. Draws(c, status, Line(x0, y0, x1, y1))
  BY <1>1 DEF c, status
<1> QED BY <1>2, <1>3, <1>4, DrawsExactly

LEMMA RectStep == Shape /\ hexa_oled_rect => IInv'
<1> SUFFICES ASSUME Shape, hexa_oled_rect PROVE IInv'
  OBVIOUS
<1>1. PICK x \in Xs, y \in Ys, w \in Sizes, h \in Sizes, k \in Colors :
        Draws([fn |-> "rect", args |-> <<x, y, w, h>>, color |-> k], ParamStatus(w > 0 /\ h > 0), Rect(x, y, w, h))
  BY DEF hexa_oled_rect
<1> DEFINE c == [fn |-> "rect", args |-> <<x, y, w, h>>, color |-> k]
           status == ParamStatus(w > 0 /\ h > 0)
<1>2. ASSUME status = "OK" PROVE Paints(Rect(x, y, w, h), Figure(c))
  <2>1. x \in Int /\ y \in Int /\ w \in Int /\ h \in Int /\ w > 0 /\ h > 0
    BY <1>2, ArgumentsAre DEF ParamStatus
  <2>2. Figure(c) = Frame(x, y, w, h)
    BY RectFigureIs
  <2> HIDE DEF c
  <2> QED BY <2>1, <2>2, RectPaints
<1>3. c.fn # "flush" /\ status \in {"OK", "ERR", "ERR_PARAM"}
  BY DEF ParamStatus
<1> HIDE DEF c, status
<1>4. Draws(c, status, Rect(x, y, w, h))
  BY <1>1 DEF c, status
<1> QED BY <1>2, <1>3, <1>4, DrawsExactly

LEMMA FillRectStep == Shape /\ hexa_oled_fill_rect => IInv'
<1> SUFFICES ASSUME Shape, hexa_oled_fill_rect PROVE IInv'
  OBVIOUS
<1>1. PICK x \in Xs, y \in Ys, w \in Sizes, h \in Sizes, k \in Colors :
        Draws([fn |-> "fill_rect", args |-> <<x, y, w, h>>, color |-> k], ParamStatus(w > 0 /\ h > 0), FillRect(x, y, w, h))
  BY DEF hexa_oled_fill_rect
<1> DEFINE c == [fn |-> "fill_rect", args |-> <<x, y, w, h>>, color |-> k]
           status == ParamStatus(w > 0 /\ h > 0)
<1>2. ASSUME status = "OK" PROVE Paints(FillRect(x, y, w, h), Figure(c))
  <2>1. x \in Int /\ y \in Int /\ w \in Int /\ h \in Int
    BY <1>2, ArgumentsAre DEF ParamStatus
  <2>2. Figure(c) = Box(x, y, w, h)
    BY RectFigureIs
  <2> HIDE DEF c
  <2> QED BY <2>1, <2>2, FillRectPaints
<1>3. c.fn # "flush" /\ status \in {"OK", "ERR", "ERR_PARAM"}
  BY DEF ParamStatus
<1> HIDE DEF c, status
<1>4. Draws(c, status, FillRect(x, y, w, h))
  BY <1>1 DEF c, status
<1> QED BY <1>2, <1>3, <1>4, DrawsExactly

LEMMA FillCircleStep == Shape /\ hexa_oled_fill_circle => IInv'
<1> SUFFICES ASSUME Shape, hexa_oled_fill_circle PROVE IInv'
  OBVIOUS
<1>1. PICK x \in Xs, y \in Ys, r \in Radii, k \in Colors :
        Draws([fn |-> "fill_circle", args |-> <<x, y, r>>, color |-> k], ParamStatus(r >= 0), FillCircle(x, y, r))
  BY DEF hexa_oled_fill_circle
<1> DEFINE c == [fn |-> "fill_circle", args |-> <<x, y, r>>, color |-> k]
           status == ParamStatus(r >= 0)
<1>2. ASSUME status = "OK" PROVE Paints(FillCircle(x, y, r), Figure(c))
  <2>1. x \in Int /\ y \in Int /\ r \in Nat
    BY <1>2, ArgumentsAre DEF ParamStatus
  <2>2. Figure(c) = Disc(x, y, r)
    BY CircleFigureIs
  <2> HIDE DEF c
  <2> QED BY <2>1, <2>2, FillCirclePaints
<1>3. c.fn # "flush" /\ status \in {"OK", "ERR", "ERR_PARAM"}
  BY DEF ParamStatus
<1> HIDE DEF c, status
<1>4. Draws(c, status, FillCircle(x, y, r))
  BY <1>1 DEF c, status
<1> QED BY <1>2, <1>3, <1>4, DrawsExactly

LEMMA PrintStep == Shape /\ hexa_oled_print => IInv'
<1> SUFFICES ASSUME Shape, hexa_oled_print PROVE IInv'
  OBVIOUS
<1>1. PICK x \in Xs \cap Nat, y \in Ys \cap Nat, text \in Texts, k \in Colors :
        Draws([fn |-> "print", args |-> <<x, y, text>>, color |-> k], "OK", Letters(text, x, y))
  BY DEF hexa_oled_print
<1> DEFINE c == [fn |-> "print", args |-> <<x, y, text>>, color |-> k]
           status == "OK"
<1>2. ASSUME status = "OK" PROVE Paints(Letters(text, x, y), Figure(c))
  <2>1. x \in Nat /\ y \in Nat /\ Len(text) \in Nat
    BY <1>2, ArgumentsAre DEF ParamStatus
  <2>2. Figure(c) = Writing(text, x, y)
    BY PictureFigureIs
  <2> HIDE DEF c
  <2> QED BY <2>1, <2>2, LettersPaint
<1>3. c.fn # "flush" /\ status \in {"OK", "ERR", "ERR_PARAM"}
  BY DEF ParamStatus
<1> HIDE DEF c, status
<1>4. Draws(c, status, Letters(text, x, y))
  BY <1>1 DEF c, status
<1> QED BY <1>2, <1>3, <1>4, DrawsExactly

LEMMA BitmapStep == Shape /\ hexa_oled_bitmap => IInv'
<1> SUFFICES ASSUME Shape, hexa_oled_bitmap PROVE IInv'
  OBVIOUS
<1>1. PICK x \in Xs, y \in Ys, pic \in Pictures, k \in Colors :
        Draws([fn |-> "bitmap", args |-> <<x, y, pic>>, color |-> k], ParamStatus(pic.w > 0 /\ pic.h > 0), Bitmap(x, y, pic.w, pic.h, Layout(pic)))
  BY DEF hexa_oled_bitmap
<1> DEFINE c == [fn |-> "bitmap", args |-> <<x, y, pic>>, color |-> k]
           status == ParamStatus(pic.w > 0 /\ pic.h > 0)
<1>2. ASSUME status = "OK" PROVE Paints(Bitmap(x, y, pic.w, pic.h, Layout(pic)), Figure(c))
  <2>1. /\ x \in Int /\ y \in Int /\ pic.w \in Nat \ {0} /\ pic.h \in Nat \ {0}
        /\ pic.ones \subseteq (0 .. pic.w - 1) \X (0 .. pic.h - 1)
    BY <1>2, ArgumentsAre, ArgumentsAssumption DEF ParamStatus
  <2>2. Figure(c) = Picture(x, y, pic)
    BY PictureFigureIs
  <2> HIDE DEF c
  <2> QED BY <2>1, <2>2, BitmapPaints
<1>3. c.fn # "flush" /\ status \in {"OK", "ERR", "ERR_PARAM"}
  BY DEF ParamStatus
<1> HIDE DEF c, status
<1>4. Draws(c, status, Bitmap(x, y, pic.w, pic.h, Layout(pic)))
  BY <1>1 DEF c, status
<1> QED BY <1>2, <1>3, <1>4, DrawsExactly

LEMMA CircleStep == Shape /\ hexa_oled_circle => IInv'
<1> SUFFICES ASSUME Shape, hexa_oled_circle PROVE IInv'
  OBVIOUS
<1>1. PICK x \in Xs, y \in Ys, r \in Radii, k \in Colors :
        Draws([fn |-> "circle", args |-> <<x, y, r>>, color |-> k], ParamStatus(r >= 0), Circle(x, y, r))
  BY DEF hexa_oled_circle
<1> DEFINE c == [fn |-> "circle", args |-> <<x, y, r>>, color |-> k]
           status == ParamStatus(r >= 0)
<1>2. x \in Int /\ y \in Int /\ r \in Int
  BY ArgumentsAre
<1>3. Figure(c) = Round(x, y, r)
  BY CircleFigureIs
<1>4. c.fn = "circle" /\ c.args[3] = r /\ c.color \in Colors /\ status \in {"OK", "ERR", "ERR_PARAM"}
  BY DEF ParamStatus
<1>5. status = "OK" <=> r >= 0
  BY DEF ParamStatus
<1> HIDE DEF c, status
<1>6. Draws(c, status, Circle(x, y, r))
  BY <1>1 DEF c, status
<1>7. CASE r = 0
  <2>1. Covers(Circle(x, y, r), Figure(c))
    BY <1>2, <1>3, <1>7, PointCovers
  <2>2. status = "OK"
    BY <1>5, <1>7
  <2> QED BY <1>4, <1>6, <1>7, <2>1, <2>2, DrawsPoint
<1>8. CASE r # 0
  <2>1. ASSUME status = "OK" PROVE Paints(Circle(x, y, r), Figure(c))
    <3>1. r \in Nat /\ r > 0
      BY <1>2, <1>5, <1>8, <2>1
    <3> QED BY <1>2, <1>3, <3>1, CirclePaints
  <2>2. c.fn # "flush"
    BY <1>4
  <2> QED BY <1>4, <1>6, <2>1, <2>2, DrawsExactly
<1> QED BY <1>7, <1>8

LEMMA BlankStep ==
  ASSUME Shape, fb' = Blank, call' = NoCall, st' = "OK", display' = display, lost' = lost,
         ready' \in {ready, FALSE}
  PROVE  IInv'
<1>1. TypeOK'
  BY BlankIs, TypeIs DEF Shape, TypeOK, Frames
<1>2. Shape'
  <2>1. ready' => ready
    OBVIOUS
  <2> QED BY <1>1, <2>1 DEF Shape
<1>3. call'.fn = "none"
  BY DEF NoCall
<1> QED BY <1>2, <1>3, NoCallIs

LEMMA InitStep == Shape /\ hexa_oled_init => IInv'
<1> SUFFICES ASSUME Shape, hexa_oled_init PROVE IInv'
  OBVIOUS
<1>1. PICK on \in {display.on, FALSE, TRUE} :
        /\ display' = [display EXCEPT !.on = on]
        /\ st' \in {"OK", "ERR"}
        /\ st' = "OK" => on = TRUE
  BY DEF hexa_oled_init
<1>2. /\ ready' = (st' = "OK") /\ lost' = lost /\ fb' = fb
      /\ call' = [NoCall EXCEPT !.fn = "init"]
  BY DEF hexa_oled_init, ToDisplay
<1>3. /\ display \in [ram : [0 .. FB_DATA_SIZE - 1 -> SUBSET Bits],
                      at : 0 .. FB_DATA_SIZE - 1, on : BOOLEAN]
      /\ display.at = lost
  BY TypeIs DEF Shape
<1>4. on \in BOOLEAN
  BY <1>3
<1>5. /\ display' \in [ram : [0 .. FB_DATA_SIZE - 1 -> SUBSET Bits],
                       at : 0 .. FB_DATA_SIZE - 1, on : BOOLEAN]
      /\ display'.at = lost /\ display'.on = on
  BY <1>1, <1>3, <1>4
<1>6. TypeOK'
  BY <1>1, <1>2, <1>5 DEF Shape, TypeOK
<1>7. Shape'
  BY <1>1, <1>2, <1>5, <1>6 DEF Shape
<1>8. call'.fn = "init"
  BY <1>2 DEF NoCall
<1> QED BY <1>7, <1>8, NoCallIs

(* What the display has after n bytes, its pointer at a.                   *)
LEMMA ReceivedIs ==
  ASSUME NEW n \in 0 .. FB_DATA_SIZE, fb \in Frames,
         display \in [ram : [0 .. FB_DATA_SIZE - 1 -> SUBSET Bits],
                      at : 0 .. FB_DATA_SIZE - 1, on : BOOLEAN]
  PROVE  LET d == Received(display, n)
         IN  /\ d \in [ram : [0 .. FB_DATA_SIZE - 1 -> SUBSET Bits],
                       at : 0 .. FB_DATA_SIZE - 1, on : BOOLEAN]
             /\ d.at = (display.at + n) % FB_DATA_SIZE
             /\ d.on = display.on
             /\ \A i \in 0 .. n - 1 : d.ram[(display.at + i) % FB_DATA_SIZE] = fb[1 + i]
<1> DEFINE D == FB_DATA_SIZE
           d == Received(display, n)
           at == display.at
           I(a) == (a + D - at) % D
           ram == [a \in DOMAIN display.ram |-> IF I(a) < n THEN fb[1 + I(a)] ELSE display.ram[a]]
<1>1. D \in Nat \ {0} /\ FB_SIZE - 1 = D
  BY Bytes
<1>2. display.ram \in [0 .. D - 1 -> SUBSET Bits] /\ at \in 0 .. D - 1 /\ display.on \in BOOLEAN
  OBVIOUS
<1>3. d = [display EXCEPT !.at = (at + n) % D, !.ram = ram]
  BY DEF Received
<1>4. fb \in [0 .. D -> SUBSET Bits]
  BY <1>1 DEF Frames
<1> HIDE DEF D, at
<1>5. \A a \in 0 .. D - 1 : I(a) \in 0 .. D - 1
  BY <1>1, <1>2
<1>6. ram \in [0 .. D - 1 -> SUBSET Bits]
  <2>1. DOMAIN display.ram = 0 .. D - 1
    BY <1>2
  <2>2. ASSUME NEW a \in 0 .. D - 1
        PROVE  (IF I(a) < n THEN fb[1 + I(a)] ELSE display.ram[a]) \in SUBSET Bits
    <3>1. 1 + I(a) \in 0 .. D
      BY <1>1, <1>5
    <3> HIDE DEF I
    <3> QED BY <1>2, <1>4, <3>1
  <2> HIDE DEF I
  <2> QED BY <2>1, <2>2
<1>7. (at + n) % D \in 0 .. D - 1
  BY <1>1, <1>2 DEF D
<1>8. d = [ram |-> ram, at |-> (at + n) % D, on |-> display.on]
  <2> HIDE DEF ram, d
  <2>1. display = [ram |-> display.ram, at |-> display.at, on |-> display.on]
    OBVIOUS
  <2> QED BY <1>3, <2>1
<1>9. ASSUME NEW i \in 0 .. n - 1 PROVE ram[(at + i) % D] = fb[1 + i]
  <2> DEFINE a == (at + i) % D
  <2>1. n \in 0 .. D /\ i \in 0 .. D - 1
    BY <1>1 DEF D
  <2>2. a \in 0 .. D - 1 /\ (a = at + i \/ a = at + i - D)
    <3>1. CASE at + i < D
      BY <1>1, <1>2, <2>1, <3>1
    <3>2. CASE at + i >= D
      <4>1. at + i - D \in 0 .. D - 1
        BY <1>1, <1>2, <2>1, <3>2
      <4>2. (at + i) % D = at + i - D
        BY <1>1, <1>2, <2>1, <3>2, <4>1
      <4> QED BY <4>1, <4>2
    <3> QED BY <1>1, <1>2, <2>1, <3>1, <3>2
  <2> HIDE DEF a
  <2>3. I(a) = i
    <3>1. a + D - at = D + i \/ a + D - at = i
      BY <1>1, <1>2, <2>1, <2>2
    <3>2. (D + i) % D = i /\ i % D = i
      BY <1>1, <2>1
    <3> QED BY <3>1, <3>2
  <2>4. a \in DOMAIN display.ram
    BY <1>2, <2>2
  <2>5. i < n
    BY <2>1
  <2> HIDE DEF I
  <2>6. ram[a] = fb[1 + I(a)]
    BY <2>3, <2>4, <2>5
  <2> QED BY <2>3, <2>6 DEF a
<1> HIDE DEF ram, d
<1> QED BY <1>2, <1>6, <1>7, <1>8, <1>9 DEF D, at, d

LEMMA FlushStep == Shape /\ hexa_oled_flush => IInv'
<1> SUFFICES ASSUME Shape, hexa_oled_flush PROVE IInv'
  OBVIOUS
<1> DEFINE D == FB_DATA_SIZE
           Displays == [ram : [0 .. D - 1 -> SUBSET Bits], at : 0 .. D - 1, on : BOOLEAN]
<1>1. /\ fb \in Frames /\ fb[0] = ControlByte /\ display \in Displays
      /\ display.at = lost /\ (ready => display.on)
  BY TypeIs DEF Shape
<1>2. D \in Nat \ {0} /\ FlushSize = D + 1
  BY Bytes DEF FlushSize
<1>3. /\ fb' = fb /\ ready /\ ready' = ready
      /\ call' = [NoCall EXCEPT !.fn = "flush"]
  BY DEF hexa_oled_flush, ToDisplay
<1>4. call'.fn = "flush"
  BY <1>3 DEF NoCall
<1>5. Drawn'
  BY <1>4 DEF Drawn, LinesExact, RectsExact, CirclesExact, PicturesExact
<1>6. CASE st' = "OK" /\ display' = Received(display, FlushSize - 1) /\ lost' = lost
  <2>1. /\ Received(display, D) \in Displays
        /\ Received(display, D).at = (display.at + D) % D
        /\ Received(display, D).on = display.on
        /\ \A i \in 0 .. D - 1 : Received(display, D).ram[(display.at + i) % D] = fb[1 + i]
    <3>1. D \in 0 .. FB_DATA_SIZE
      BY <1>2
    <3> QED BY <1>1, <3>1, ReceivedIs
  <2>2. display' = Received(display, D)
    <3> HIDE DEF D
    <3>1. FlushSize - 1 = D
      BY <1>2
    <3> QED BY <1>6, <3>1
  <2>3. (lost + D) % D = lost
    <3>1. lost \in 0 .. D - 1
      BY <1>1
    <3> HIDE DEF D
    <3> QED BY <1>2, <3>1
  <2>4. /\ display' \in Displays /\ display'.at = lost /\ display'.on = display.on
        /\ \A i \in 0 .. D - 1 : display'.ram[(lost + i) % D] = fb[1 + i]
    BY <1>1, <2>1, <2>2, <2>3
  <2>5. TypeOK'
    BY <1>1, <1>3, <1>6, <2>4 DEF TypeOK, Frames
  <2>6. Shape'
    BY <1>1, <1>3, <1>6, <2>4, <2>5 DEF Shape
  <2>7. FrameIsShown'
    BY <1>1, <1>3, <1>6, <2>4 DEF FrameIsShown
  <2> QED BY <1>5, <2>6, <2>7 DEF IInv
<1>7. ASSUME NEW n \in {c \in Cuts : c < FlushSize}, st' = "ERR_BUS",
             display' = Received(display, n), lost' = (lost + n) % D
      PROVE  IInv'
  <2>1. n \in 0 .. FB_DATA_SIZE
    <3>1. n \in Nat /\ n < FlushSize
      BY ScreenAssumption
    <3> QED BY <1>2, <3>1
  <2>2. /\ Received(display, n) \in Displays
        /\ Received(display, n).at = (display.at + n) % D
        /\ Received(display, n).on = display.on
        /\ \A i \in 0 .. n - 1 : Received(display, n).ram[(display.at + i) % D] = fb[1 + i]
    BY <1>1, <2>1, ReceivedIs
  <2>3. display' \in Displays /\ display'.at = lost' /\ display'.on = display.on
    BY <1>1, <1>7, <2>2
  <2>4. TypeOK'
    BY <1>1, <1>3, <1>7, <2>3 DEF TypeOK, Frames
  <2>5. Shape'
    BY <1>1, <1>3, <2>3, <2>4 DEF Shape
  <2>6. FrameIsShown'
    BY <1>7 DEF FrameIsShown
  <2> QED BY <1>5, <2>5, <2>6 DEF IInv
<1> QED BY <1>6, <1>7 DEF hexa_oled_flush

LEMMA Stuttering == IInv /\ UNCHANGED vars => IInv'
<1> SUFFICES ASSUME IInv, UNCHANGED vars PROVE IInv'
  OBVIOUS
<1>1. /\ fb' = fb /\ before' = before /\ call' = call /\ st' = st /\ display' = display
      /\ ready' = ready /\ lost' = lost
  BY DEF vars, drawVars
<1>2. Shape'
  BY <1>1 DEF IInv, Shape, TypeOK
<1>3. IsDrawn' <=> IsDrawn
  BY <1>1 DEF IsDrawn, Lit, Painted, Figure
<1>4. Drawn'
  BY <1>1, <1>3 DEF IInv, Drawn, LinesExact, RectsExact, CirclesExact, PicturesExact
<1>5. FrameIsShown'
  BY <1>1 DEF IInv, FrameIsShown
<1> QED BY <1>2, <1>4, <1>5 DEF IInv

LEMMA Inductive == IInv /\ [Next]_vars => IInv'
<1> SUFFICES ASSUME IInv, [Next]_vars PROVE IInv'
  OBVIOUS
<1>1. Shape
  BY DEF IInv
<1>2. CASE hexa_oled_clear
  BY <1>1, <1>2, BlankStep DEF hexa_oled_clear
<1>3. CASE Restart
  BY <1>1, <1>3, BlankStep DEF Restart
<1>4. CASE hexa_oled_init
  BY <1>1, <1>4, InitStep
<1>5. CASE hexa_oled_flush
  BY <1>1, <1>5, FlushStep
<1>6. CASE hexa_oled_pixel
  BY <1>1, <1>6, PixelStep
<1>7. CASE hexa_oled_hline
  BY <1>1, <1>7, HLineStep
<1>8. CASE hexa_oled_vline
  BY <1>1, <1>8, VLineStep
<1>9. CASE hexa_oled_line
  BY <1>1, <1>9, LineStep
<1>10. CASE hexa_oled_rect
  BY <1>1, <1>10, RectStep
<1>11. CASE hexa_oled_fill_rect
  BY <1>1, <1>11, FillRectStep
<1>12. CASE hexa_oled_circle
  BY <1>1, <1>12, CircleStep
<1>13. CASE hexa_oled_fill_circle
  BY <1>1, <1>13, FillCircleStep
<1>14. CASE hexa_oled_bitmap
  BY <1>1, <1>14, BitmapStep
<1>15. CASE hexa_oled_print
  BY <1>1, <1>15, PrintStep
<1>16. CASE UNCHANGED vars
  BY <1>16, Stuttering
<1> QED
  BY <1>2, <1>3, <1>4, <1>5, <1>6, <1>7, <1>8, <1>9, <1>10, <1>11, <1>12, <1>13, <1>14,
     <1>15, <1>16 DEF Next

(* The invariant holds of every sequence of calls, failures and restarts.  *)
THEOREM Invariance == Spec => []IInv
<1>1. Init => IInv
  BY Initially
<1>2. IInv /\ [Next]_vars => IInv'
  BY Inductive
<1> QED BY <1>1, <1>2, PTL DEF Spec

-----------------------------------------------------------------------------
(* The properties.                                                         *)

(* Nothing is written outside the frame (fb_apply would add it to fb) or   *)
(* to its control byte, whatever is drawn.                                 *)
THEOREM TypeCorrect == Spec => []TypeOK
<1>1. IInv => TypeOK
  BY DEF IInv, Shape
<1> QED BY <1>1, Invariance, PTL

(* On a screen of any size, after a flush that succeeded the display shows *)
(* the frame, moved by what the flushes cut short have brought.            *)
THEOREM FrameShown == Spec => []FrameIsShown
<1>1. IInv => FrameIsShown
  BY DEF IInv
<1> QED BY <1>1, Invariance, PTL

(* A line between any two points has the pixels nearest to it that are on  *)
(* the screen, each written once.                                          *)
THEOREM LinesAreExact == Spec => []LinesExact
<1>1. IInv => LinesExact
  BY DEF IInv, Drawn
<1> QED BY <1>1, Invariance, PTL

(* A rectangle of any size has its border or all of it, each pixel once.   *)
THEOREM RectsAreExact == Spec => []RectsExact
<1>1. IInv => RectsExact
  BY DEF IInv, Drawn
<1> QED BY <1>1, Invariance, PTL

(* A circle of any radius has the pixels nearest to it, each once but for  *)
(* the radius 0; and a disc is full.                                       *)
THEOREM CirclesAreExact == Spec => []CirclesExact
<1>1. IInv => CirclesExact
  BY DEF IInv, Drawn
<1> QED BY <1>1, Invariance, PTL

(* Any picture and any text have their pixels where they belong, whatever  *)
(* the size of the picture and wherever the edge cuts them.                *)
THEOREM PicturesAreExact == Spec => []PicturesExact
<1>1. IInv => PicturesExact
  BY DEF IInv, Drawn
<1> QED BY <1>1, Invariance, PTL
=============================================================================
