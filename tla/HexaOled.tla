------------------------------ MODULE HexaOled ------------------------------
(***************************************************************************)
(* Drawing into the frame buffer of the OLED display                       *)
(* (drivers/src/hexa_oled.c): the arithmetic of pages and masks, clipping, *)
(* lines, circles, text and pictures, in the three colours; and the way of *)
(* the buffer to the display, which failures and restarts may cut short.   *)
(*                                                                         *)
(* A byte of the buffer is the set of its bits that are one.  Coordinates  *)
(* are small enough here that no int16_t overflows.                        *)
(***************************************************************************)
EXTENDS Integers, FiniteSets, SequencesExt

CONSTANTS
  HEXA_OLED_WIDTH, HEXA_OLED_HEIGHT,
  Font,        \* a glyph, the set of its <<col, row>>, for each character
  BaseFrames,  \* the frames that are drawn over, beside a blank one: a bound
  Xs, Ys,      \* coordinates, on and off the screen
  Sizes,       \* widths and heights
  Radii,
  Pictures,    \* records of width, height and set of <<col, row>>
  Texts,       \* sequences of characters
  Cuts,        \* where a flush is cut short: data bytes that have arrived
  MaxCuts      \* bound on the flushes cut short

ASSUME ScreenAssumption ==
  /\ HEXA_OLED_WIDTH \in Nat \ {0}
  /\ HEXA_OLED_HEIGHT \in Nat \ {0}
  /\ HEXA_OLED_HEIGHT % 8 = 0       \* the _Static_assert
  /\ Xs \union Ys \union Sizes \union Radii \subseteq Int
  /\ " " \in DOMAIN Font
  /\ Cuts \subseteq Nat
  /\ MaxCuts \in Nat

(* Glyphs are those of font5x7; a picture has no pixel outside its size.   *)
ASSUME ArgumentsAssumption ==
  /\ \A c \in DOMAIN Font : Font[c] \subseteq (0 .. 4) \X (0 .. 6)
  /\ Texts \subseteq Seq(STRING)
  /\ \A pic \in Pictures : /\ pic.w \in Int /\ pic.h \in Int
                            /\ pic.ones \subseteq (0 .. pic.w - 1) \X (0 .. pic.h - 1)

VARIABLES
  fb,      \* the frame buffer, its control byte first
  before,  \* history: fb before the last call
  call,    \* history: the last call, its arguments and its colour
  written, \* history: what it has written
  st,      \* the status it returned
  display, \* its memory, the address its pointer is at, and if it is on
  ready,   \* hexa_oled_init has succeeded since the program began
  cuts,    \* history: the flushes cut short, and ...
  lost     \* ... how far they have moved the pointer

drawVars == <<fb, before, call, written, st>>
vars     == <<drawVars, display, ready, cuts, lost>>

Bits == 0 .. 7

FB_OFFSET == 1

(* A byte for each column of a page of eight rows, in fb and the display.  *)
FB_DATA_SIZE == (HEXA_OLED_WIDTH * HEXA_OLED_HEIGHT) \div 8

FB_SIZE == FB_OFFSET + FB_DATA_SIZE

(* 0x40: data follows.                                                     *)
ControlByte == {6}

Blank == [i \in 0 .. FB_SIZE - 1 |-> IF i = 0 THEN ControlByte ELSE {}]

(* The display when it gets its power.                                     *)
PowerOn == [ram |-> [a \in 0 .. FB_DATA_SIZE - 1 |-> Bits], at |-> 0, on |-> FALSE]

NoCall == [fn |-> "none", args |-> << >>, color |-> 1]

Init ==
  /\ fb = Blank
  /\ before = Blank
  /\ call = NoCall
  /\ written = << >>
  /\ st = "OK"
  /\ display = PowerOn
  /\ ready = FALSE
  /\ cuts = 0
  /\ lost = 0

-----------------------------------------------------------------------------
(* What a function writes is the sequence of its calls of fb_apply, each   *)
(* with a byte of the buffer and a mask; all have the function's colour.   *)

fb_index(x, y) == FB_OFFSET + x + (y \div 8) * HEXA_OLED_WIDTH

(* Fault: a pixel one beyond each edge is let through.                     *)
OnOrBeside(p) == p[1] \in 0 .. HEXA_OLED_WIDTH /\ p[2] \in 0 .. HEXA_OLED_HEIGHT

OnScreen(p) == p[1] \in 0 .. HEXA_OLED_WIDTH - 1 /\ p[2] \in 0 .. HEXA_OLED_HEIGHT - 1

fb_pixel(p) ==
  IF OnScreen(p) THEN <<[idx |-> fb_index(p[1], p[2]), mask |-> {p[2] % 8}]>> ELSE << >>

(* A sequence of pixels, one after the other.                              *)
Pixels(ps) == FlattenSeq([i \in 1 .. Len(ps) |-> fb_pixel(ps[i])])

(* The numbers from a to b, in this order, and a function of each.         *)
Run(a, b)       == [i \in 1 .. (IF b < a THEN 0 ELSE b - a + 1) |-> a + i - 1]
Each(F(_), a, b) == FlattenSeq([i \in 1 .. Len(Run(a, b)) |-> F(a + i - 1)])

(* Nothing stops a write at the end of the buffer: the byte it reaches, of *)
(* another variable then, becomes part of the frame here.                  *)
Reached(frame, writes) == DOMAIN frame \union {writes[k].idx : k \in DOMAIN writes}

(* A bit inverted twice is as it was; putting out and lighting may be      *)
(* repeated.                                                               *)
fb_apply(frame, writes, color) ==
  [i \in Reached(frame, writes) |->
     LET old      == IF i \in DOMAIN frame THEN frame[i] ELSE {}
         mine     == {k \in DOMAIN writes : writes[k].idx = i}
         any      == UNION {writes[k].mask : k \in mine}
         Times(b) == Cardinality({k \in mine : b \in writes[k].mask})
         odd      == {b \in any : Times(b) % 2 = 1}
     IN  CASE color = 0 -> old \ any
           [] color = 1 -> old \union any
           [] OTHER     -> (old \ odd) \union (odd \ old)]

Smaller(a, b) == IF a < b THEN a ELSE b
Larger(a, b)  == IF a < b THEN b ELSE a
iabs(v)       == Larger(v, -v)

-----------------------------------------------------------------------------
(* Straight lines.  First clipping, then whole bytes.                      *)

HLine(x, y, w) ==
  LET Byte(i) == <<[idx |-> fb_index(i, y), mask |-> {y % 8}]>>
  IN  IF w <= 0 \/ y \notin 0 .. HEXA_OLED_HEIGHT - 1 THEN << >>
      ELSE Each(Byte, Larger(x, 0), Smaller(x + w, HEXA_OLED_WIDTH) - 1)

(* Fault: the line ends one row late in its last byte.                     *)
MaskTooLong(y, y_end) ==
  {b \in Bits : b >= y % 8 /\ (y_end < (y \div 8) * 8 + 8 => b <= y_end % 8)}

(* The mask of the byte that row y is in, for a line from y to y_end - 1.  *)
PageMask(y, y_end) ==
  {b \in Bits : b >= y % 8 /\ (y_end < (y \div 8) * 8 + 8 => b <= (y_end - 1) % 8)}

VLine(x, y, h) ==
  LET top     == Larger(y, 0)
      y_end   == Smaller(y + h, HEXA_OLED_HEIGHT)
      Row(p)  == Larger(top, 8 * p)
      Byte(p) == <<[idx |-> fb_index(x, Row(p)), mask |-> PageMask(Row(p), y_end)]>>
  IN  IF h <= 0 \/ x \notin 0 .. HEXA_OLED_WIDTH - 1 \/ y_end <= top THEN << >>
      ELSE Each(Byte, top \div 8, (y_end - 1) \div 8)

(* Bresenham: the pixel and the error after n turns of the loop.           *)
LineSteps(x0, y0, x1, y1) ==
  LET dx == iabs(x1 - x0)
      dy == -iabs(y1 - y0)
      Turn(s) ==
        LET mx == 2 * s.err >= dy
            my == 2 * s.err <= dx
        IN  [x   |-> IF mx THEN s.x + (IF x0 < x1 THEN 1 ELSE -1) ELSE s.x,
             y   |-> IF my THEN s.y + (IF y0 < y1 THEN 1 ELSE -1) ELSE s.y,
             err |-> s.err + (IF mx THEN dy ELSE 0) + (IF my THEN dx ELSE 0)]
      step[n \in 0 .. dx - dy] ==
        IF n = 0 THEN [x |-> x0, y |-> y0, err |-> dx + dy] ELSE Turn(step[n - 1])
  IN  step

(* The loop ends at the first pixel that is the other end.                 *)
LinePixels(x0, y0, x1, y1) ==
  LET step == LineSteps(x0, y0, x1, y1)
      Ends(n) == step[n].x = x1 /\ step[n].y = y1
      last == CHOOSE n \in DOMAIN step : Ends(n) /\ \A k \in 0 .. n - 1 : ~Ends(k)
  IN  [i \in 1 .. last + 1 |-> <<step[i - 1].x, step[i - 1].y>>]

Line(x0, y0, x1, y1) ==
  CASE y0 = y1 -> HLine(Smaller(x0, x1), y0, iabs(x1 - x0) + 1)
    [] y0 # y1 /\ x0 = x1 -> VLine(x0, Smaller(y0, y1), iabs(y1 - y0) + 1)
    [] OTHER -> Pixels(LinePixels(x0, y0, x1, y1))

-----------------------------------------------------------------------------
(* Rectangles.                                                             *)

(* Fault: the sides include the corners.                                   *)
FullSides(x, y, w, h) ==
  IF h <= 2 THEN << >>
  ELSE VLine(x, y, h) \o (IF w > 1 THEN VLine(x + w - 1, y, h) ELSE << >>)

(* The sides lack the corners, which belong to the top and the bottom.     *)
Sides(x, y, w, h) ==
  IF h <= 2 THEN << >>
  ELSE VLine(x, y + 1, h - 2) \o (IF w > 1 THEN VLine(x + w - 1, y + 1, h - 2) ELSE << >>)

Rect(x, y, w, h) ==
  HLine(x, y, w) \o (IF h = 1 THEN << >> ELSE HLine(x, y + h - 1, w) \o Sides(x, y, w, h))

FillRect(x, y, w, h) == Each(LAMBDA i : HLine(x, y + i, w), 0, h - 1)

-----------------------------------------------------------------------------
(* Circles.                                                                *)

(* Fault: the points of the diagonal are drawn twice.                      *)
EightPoints(cx, cy, x, y) ==
  <<<<cx + x, cy + y>>, <<cx + x, cy - y>>>>
  \o (IF x # 0 THEN <<<<cx - x, cy + y>>, <<cx - x, cy - y>>>> ELSE << >>)
  \o <<<<cx + y, cy + x>>, <<cx - y, cy + x>>>>
  \o (IF x # 0 THEN <<<<cx + y, cy - x>>, <<cx - y, cy - x>>>> ELSE << >>)

circle_points(cx, cy, x, y) ==
  <<<<cx + x, cy + y>>, <<cx + x, cy - y>>>>
  \o (IF x # 0 THEN <<<<cx - x, cy + y>>, <<cx - x, cy - y>>>> ELSE << >>)
  \o (IF x # y THEN <<<<cx + y, cy + x>>, <<cx - y, cy + x>>>> ELSE << >>)
  \o (IF x # y /\ x # 0 THEN <<<<cx + y, cy - x>>, <<cx - y, cy - x>>>> ELSE << >>)

(* The middle-point algorithm: y and d when the loop has come to x.        *)
CircleSteps(r) ==
  LET Turn(x, s) == IF s.d < 0
                    THEN [y |-> s.y, d |-> s.d + 2 * x + 3]
                    ELSE [y |-> s.y - 1, d |-> s.d + 2 * (x - s.y) + 5]
      step[x \in 0 .. r + 1] ==
        IF x = 0 THEN [y |-> r, d |-> 1 - r] ELSE Turn(x - 1, step[x - 1])
  IN  step

Circle(cx, cy, r) ==
  LET step == CircleSteps(r)
      last == CHOOSE x \in 0 .. r : x <= step[x].y /\ x + 1 > step[x + 1].y
  IN  Each(LAMBDA x : Pixels(circle_points(cx, cy, x, step[x].y)), 0, last)

isqrt32(v) == CHOOSE r \in 0 .. v : r * r <= v /\ (r + 1) * (r + 1) > v

FillCircle(cx, cy, r) ==
  LET Row(dy) == LET dx == isqrt32(r * r - dy * dy) IN HLine(cx - dx, cy + dy, 2 * dx + 1)
  IN  Each(Row, -r, r)

-----------------------------------------------------------------------------
(* Pictures and text.                                                      *)

(* Fault: the last bits of a row share a byte with the next row.           *)
StrideShort(w) == Larger(w \div 8, 1)

(* Bytes of a row of a picture.                                            *)
stride(w) == (w + 7) \div 8

Bitmap(x, y, w, h, bits) ==
  LET Bit(row, col) == (7 - (col % 8)) \in bits[row * stride(w) + col \div 8]
      Row(row) == IF y + row \notin 0 .. HEXA_OLED_HEIGHT - 1 THEN << >>
                  ELSE Each(LAMBDA col : IF Bit(row, col) THEN fb_pixel(<<x + col, y + row>>)
                                                          ELSE << >>, 0, w - 1)
  IN  Each(Row, 0, h - 1)

(* What is not in the font is printed as a space.                          *)
Glyph(c) == IF c \in DOMAIN Font THEN Font[c] ELSE Font[" "]

Letters(text, x, y) ==
  LET Letter(i) ==
        IF x + 6 * (i - 1) >= HEXA_OLED_WIDTH THEN << >>
        ELSE Pixels(SetToSeq({<<x + 6 * (i - 1) + g[1], y + g[2]>> : g \in Glyph(text[i])}))
  IN  IF y >= HEXA_OLED_HEIGHT THEN << >> ELSE Each(Letter, 1, Len(text))

-----------------------------------------------------------------------------
(* The functions of hexa_oled.h.  A call is kept with its arguments, for   *)
(* the properties.                                                         *)

Colors == 0 .. 2

(* A bound: a call is made on a blank frame or on one of BaseFrames that   *)
(* the call before it has lit; once the display is in use, only a picture  *)
(* as wide as the screen is drawn, on a blank frame.                       *)
Bounded(c) ==
  /\ call = NoCall \/ (call.color = 1 /\ fb # before /\ fb \in BaseFrames)
  /\ display # PowerOn =>
       /\ call = NoCall
       /\ c.fn = "bitmap" /\ c.color = 1
       /\ c.args[1] = 0 /\ c.args[2] = 0 /\ c.args[3].w = HEXA_OLED_WIDTH

Draws(c, status, writes) ==
  /\ Bounded(c)
  /\ before' = fb
  /\ call' = c
  /\ st' = status
  /\ written' = IF status = "OK" THEN writes ELSE << >>
  /\ fb' = fb_apply(fb, written', c.color)
  /\ UNCHANGED <<display, ready, cuts, lost>>

ParamStatus(ok) == IF ok THEN "OK" ELSE "ERR_PARAM"

hexa_oled_clear ==
  /\ fb' = Blank
  /\ before' = Blank
  /\ call' = NoCall
  /\ written' = << >>
  /\ st' = "OK"
  /\ UNCHANGED <<display, ready, cuts, lost>>

(* uint8_t coordinates: not negative.                                      *)
hexa_oled_pixel ==
  \E x \in Xs \cap Nat, y \in Ys \cap Nat, c \in Colors :
    Draws([fn |-> "pixel", args |-> <<x, y>>, color |-> c],
          IF OnScreen(<<x, y>>) THEN "OK" ELSE "ERR", fb_pixel(<<x, y>>))

hexa_oled_hline ==
  \E x \in Xs, y \in Ys, w \in Sizes, c \in Colors :
    Draws([fn |-> "hline", args |-> <<x, y, w>>, color |-> c],
          ParamStatus(w > 0), HLine(x, y, w))

hexa_oled_vline ==
  \E x \in Xs, y \in Ys, h \in Sizes, c \in Colors :
    Draws([fn |-> "vline", args |-> <<x, y, h>>, color |-> c],
          ParamStatus(h > 0), VLine(x, y, h))

hexa_oled_line ==
  \E x0, x1 \in Xs, y0, y1 \in Ys, c \in Colors :
    Draws([fn |-> "line", args |-> <<x0, y0, x1, y1>>, color |-> c],
          "OK", Line(x0, y0, x1, y1))

hexa_oled_rect ==
  \E x \in Xs, y \in Ys, w, h \in Sizes, c \in Colors :
    Draws([fn |-> "rect", args |-> <<x, y, w, h>>, color |-> c],
          ParamStatus(w > 0 /\ h > 0), Rect(x, y, w, h))

hexa_oled_fill_rect ==
  \E x \in Xs, y \in Ys, w, h \in Sizes, c \in Colors :
    Draws([fn |-> "fill_rect", args |-> <<x, y, w, h>>, color |-> c],
          ParamStatus(w > 0 /\ h > 0), FillRect(x, y, w, h))

hexa_oled_circle ==
  \E x \in Xs, y \in Ys, r \in Radii, c \in Colors :
    Draws([fn |-> "circle", args |-> <<x, y, r>>, color |-> c],
          ParamStatus(r >= 0), Circle(x, y, r))

hexa_oled_fill_circle ==
  \E x \in Xs, y \in Ys, r \in Radii, c \in Colors :
    Draws([fn |-> "fill_circle", args |-> <<x, y, r>>, color |-> c],
          ParamStatus(r >= 0), FillCircle(x, y, r))

(* A picture as hexa_oled.h lays it out: rows of whole bytes, the highest  *)
(* bit first, what is left of the last byte filled with ones.              *)
Layout(pic) ==
  [i \in 0 .. pic.h * ((pic.w + 7) \div 8) - 1 |->
     LET per == (pic.w + 7) \div 8
         Col(b) == (8 * (i % per)) + 7 - b
     IN  {b \in Bits : Col(b) >= pic.w \/ <<Col(b), i \div per>> \in pic.ones}]

hexa_oled_bitmap ==
  \E x \in Xs, y \in Ys, pic \in Pictures, c \in Colors :
    Draws([fn |-> "bitmap", args |-> <<x, y, pic>>, color |-> c],
          ParamStatus(pic.w > 0 /\ pic.h > 0), Bitmap(x, y, pic.w, pic.h, Layout(pic)))

hexa_oled_print ==
  \E x \in Xs \cap Nat, y \in Ys \cap Nat, text \in Texts, c \in Colors :
    Draws([fn |-> "print", args |-> <<x, y, text>>, color |-> c],
          "OK", Letters(text, x, y))

-----------------------------------------------------------------------------
(* The display.  In the addressing mode that init chooses, each byte of    *)
(* data goes where the pointer is, and the pointer moves on to the next,   *)
(* from the last one to the first.                                         *)

(* d after n bytes of data, those of fb from the one after the control     *)
(* byte on.                                                                *)
Received(d, n) ==
  [d EXCEPT !.at = (@ + n) % FB_DATA_SIZE,
            !.ram = [a \in DOMAIN @ |->
                       LET i == (a + FB_DATA_SIZE - d.at) % FB_DATA_SIZE
                       IN IF i < n THEN fb[1 + i] ELSE @[a]]]

(* A call that leaves the buffer alone.                                    *)
ToDisplay(fn) ==
  /\ call' = [NoCall EXCEPT !.fn = fn]
  /\ before' = fb
  /\ written' = << >>
  /\ UNCHANGED fb

(* The commands put the display out first and on last; none of them sets   *)
(* the pointer.  A failed write may have brought any part of them.         *)
hexa_oled_init ==
  /\ \/ st' = "OK" /\ display' = [display EXCEPT !.on = TRUE]
     \/ /\ st' = "ERR"
        /\ \E on \in {display.on, FALSE, TRUE} : display' = [display EXCEPT !.on = on]
  /\ ready' = (st' = "OK")
  /\ ToDisplay("init")
  /\ UNCHANGED <<cuts, lost>>

(* Fault: the size of the picture instead of that of the buffer, which has *)
(* the control byte too.                                                   *)
NoControlByte == FB_DATA_SIZE

(* sizeof(fb)                                                              *)
FlushSize == FB_SIZE

(* One write of the whole buffer; its callers have seen init succeed.  The *)
(* bound: a frame flushed is blank or one of BaseFrames.                   *)
hexa_oled_flush ==
  /\ ready
  /\ fb = Blank \/ fb \in BaseFrames
  /\ \/ /\ st' = "OK"
        /\ display' = Received(display, FlushSize - 1)
        /\ UNCHANGED <<cuts, lost>>
     \/ /\ cuts < MaxCuts
        /\ st' = "ERR_BUS"
        /\ \E n \in {c \in Cuts : c < FlushSize} :
             /\ display' = Received(display, n)
             /\ lost' = (lost + n) % FB_DATA_SIZE
        /\ cuts' = cuts + 1
  /\ ToDisplay("flush")
  /\ UNCHANGED ready

(* The microcontroller restarts; the display keeps what it has.  After a   *)
(* flush cut short, that is a restart in the middle of it.                 *)
Restart ==
  /\ fb' = Blank
  /\ before' = Blank
  /\ call' = NoCall
  /\ written' = << >>
  /\ st' = "OK"
  /\ ready' = FALSE
  /\ UNCHANGED <<display, cuts, lost>>

Next == \/ hexa_oled_init \/ hexa_oled_flush \/ Restart
        \/ hexa_oled_clear \/ hexa_oled_pixel \/ hexa_oled_hline \/ hexa_oled_vline
        \/ hexa_oled_line \/ hexa_oled_rect \/ hexa_oled_fill_rect \/ hexa_oled_circle
        \/ hexa_oled_fill_circle \/ hexa_oled_bitmap \/ hexa_oled_print

Spec == Init /\ [][Next]_vars

-----------------------------------------------------------------------------
(* What each function promises: the pixels of the figure, defined without  *)
(* pages, errors or octants.                                               *)

Screen == (0 .. HEXA_OLED_WIDTH - 1) \X (0 .. HEXA_OLED_HEIGHT - 1)

Lit(frame) == {p \in Screen : p[2] % 8 \in frame[1 + p[1] + (p[2] \div 8) * HEXA_OLED_WIDTH]}

InBox(p, x, y, w, h) == p[1] \in x .. x + w - 1 /\ p[2] \in y .. y + h - 1

(* The row nearest to a line of run dx and rise dy in its k-th column, and *)
(* of two that are equally near the farther from the start.                *)
Nearest(k, dx, dy) == (2 * k * dy + dx) \div (2 * dx)

OnLine(p, a, b) ==
  LET dx == iabs(b[1] - a[1])
      dy == iabs(b[2] - a[2])
      kx == IF a[1] <= b[1] THEN p[1] - a[1] ELSE a[1] - p[1]
      ky == IF a[2] <= b[2] THEN p[2] - a[2] ELSE a[2] - p[2]
  IN  /\ kx \in 0 .. dx
      /\ ky \in 0 .. dy
      /\ IF dx >= dy THEN dx = 0 \/ ky = Nearest(kx, dx, dy) ELSE kx = Nearest(ky, dy, dx)

Square(v) == v * v

(* In the octants where |x| <= |y|, y is the nearest to the circle, and    *)
(* the others mirror them.                                                 *)
OnOctant(x, y, r) == x <= y /\ y * y - y < r * r - x * x /\ r * r - x * x <= y * y + y

OnCircle(p, c, r) ==
  LET x == iabs(p[1] - c[1])
      y == iabs(p[2] - c[2])
  IN  (p = c /\ r = 0) \/ OnOctant(x, y, r) \/ OnOctant(y, x, r)

InCircle(p, c, r) == Square(p[1] - c[1]) + Square(p[2] - c[2]) <= r * r

InText(p, text, x, y) ==
  \E i \in 1 .. Len(text) : <<p[1] - x - 6 * (i - 1), p[2] - y>> \in Glyph(text[i])

Figure(c) ==
  LET a == c.args
      x == a[1]
      y == a[2]
  IN  {p \in Screen :
         CASE c.fn = "none"  -> FALSE
           [] c.fn = "pixel" -> p = a
           [] c.fn = "hline" -> InBox(p, x, y, a[3], 1)
           [] c.fn = "vline" -> InBox(p, x, y, 1, a[3])
           [] c.fn = "line"  -> OnLine(p, <<x, y>>, <<a[3], a[4]>>)
           [] c.fn = "rect"  -> InBox(p, x, y, a[3], a[4])
                                  /\ ~InBox(p, x + 1, y + 1, a[3] - 2, a[4] - 2)
           [] c.fn = "fill_rect"   -> InBox(p, x, y, a[3], a[4])
           [] c.fn = "circle"      -> OnCircle(p, <<x, y>>, a[3])
           [] c.fn = "fill_circle" -> InCircle(p, <<x, y>>, a[3])
           [] c.fn = "bitmap" -> <<p[1] - x, p[2] - y>> \in a[3].ones
           [] c.fn = "print"  -> InText(p, a[3], x, y)}

(* The colours: 0 puts out, 1 lights, any other inverts.                   *)
Painted(lit, figure, color) ==
  CASE color = 0 -> lit \ figure
    [] color = 1 -> lit \union figure
    [] OTHER     -> (lit \ figure) \union (figure \ lit)

IsDrawn == Lit(fb) = IF st = "OK" THEN Painted(Lit(before), Figure(call), call.color)
                                  ELSE Lit(before)

-----------------------------------------------------------------------------
(* Properties.                                                             *)

(* After a flush that returned HEXA_OK the display shows the frame, all of *)
(* it and at its place, whatever it showed before; but moved by what the   *)
(* flushes cut short since it got its power have brought, which neither a  *)
(* good flush, nor init, nor a restart undoes (hexa_oled_flush,            *)
(* hexa_oled_init).                                                        *)
FrameIsShown ==
  call.fn = "flush" /\ st = "OK" =>
    /\ display.on
    /\ \A i \in 0 .. FB_DATA_SIZE - 1 : display.ram[(lost + i) % FB_DATA_SIZE] = fb[1 + i]

(* No call writes a byte outside the frame, which fb_apply would add to    *)
(* it, or changes its control byte, without which flush would send a       *)
(* kilobyte of commands.                                                   *)
TypeOK ==
  /\ fb \in [0 .. FB_SIZE - 1 -> SUBSET Bits]
  /\ fb[0] = ControlByte
  /\ st \in {"OK", "ERR", "ERR_PARAM", "ERR_BUS"}
  /\ display \in [ram : [0 .. FB_DATA_SIZE - 1 -> SUBSET Bits], at : 0 .. FB_DATA_SIZE - 1, on : BOOLEAN]

(* A line in any direction, partly or wholly off the screen, changes the   *)
(* pixels of the figure, those only, and each of them once.                *)
LinesExact == call.fn \in {"hline", "vline", "line"} => IsDrawn

(* The same of rectangles, down to one row or column: no corner is drawn   *)
(* twice.                                                                  *)
RectsExact == call.fn \in {"rect", "fill_rect"} => IsDrawn

(* The same of circles: the eight mirrored points never fall together.     *)
(* Left out is a circle of radius 0 in the inverting colour.               *)
CirclesExact ==
  /\ call.fn = "circle" /\ (call.args[3] # 0 \/ call.color < 2) => IsDrawn
  /\ call.fn = "fill_circle" => IsDrawn

(* The same of pictures, whose last bits mean nothing, and of text, which  *)
(* ends at the edge.                                                       *)
PicturesExact == call.fn \in {"bitmap", "print", "pixel"} => IsDrawn
=============================================================================
