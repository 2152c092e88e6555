----------------------------- MODULE MCHexaOled -----------------------------
(***************************************************************************)
(* A screen of two pages for TLC.                                          *)
(***************************************************************************)
EXTENDS HexaOled

MCFont == [c \in {" ", "I", "~"} |->
             CASE c = " " -> {}
               [] c = "I" -> {<<1, 0>>, <<1, 6>>, <<2, 0>>, <<2, 3>>, <<2, 6>>, <<3, 0>>, <<3, 6>>}
               [] c = "~" -> {<<0, 3>>, <<1, 2>>, <<2, 3>>, <<3, 4>>, <<4, 3>>}]

(* A picture as large as the screen, every other pixel of it.              *)
Chequers == [w |-> 7, h |-> 16, ones |-> {p \in (0 .. 6) \X (0 .. 15) : (p[1] + p[2]) % 2 = 0}]

MCPictures ==
  {Chequers,
   [w |-> 3, h |-> 2, ones |-> {<<0, 0>>, <<2, 0>>, <<1, 1>>}],
   [w |-> 9, h |-> 3, ones |-> {<<0, 0>>, <<8, 0>>, <<8, 1>>, <<7, 2>>}],
   [w |-> 0, h |-> 1, ones |-> {}]}

(* The frame with Chequers on it.                                          *)
MCBaseFrames ==
  {[i \in 0 .. FB_SIZE - 1 |-> CASE i = 0 -> ControlByte
                                 [] i \in {1, 3, 5, 7, 9, 11, 13} -> IF i <= 7 THEN {0, 2, 4, 6} ELSE {1, 3, 5, 7}
                                 [] OTHER -> IF i <= 7 THEN {1, 3, 5, 7} ELSE {0, 2, 4, 6}]}

MCXs == {-3, 0, 4, 8}
MCYs == {-2, 0, 7, 9, 17}
MCSizes == {0, 1, 2, 3, 9}
MCRadii == -1 .. 6

MCTexts == {<<"I", "~", "I">>, <<"?", "~">>, << >>}
=============================================================================
