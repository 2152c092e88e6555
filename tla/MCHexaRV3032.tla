---------------------------- MODULE MCHexaRV3032 ----------------------------
(***************************************************************************)
(* Times for TLC: moments before every kind of carry, and requests at and  *)
(* beyond the ends of their ranges.                                        *)
(***************************************************************************)
EXTENDS HexaRV3032

MCRequests ==
  {<<58, 59, 23, 6, 31, 12, 2099>>,   \* the end of the century
   <<59, 9, 19, 2, 28, 2, 2024>>,     \* a leap year, and a carry of a BCD digit
   <<0, 0, 0, 0, 1, 1, 2100>>,        \* refused: the year
   <<60, 0, 0, 0, 1, 1, 2026>>}       \* refused: the seconds

MCRandomTimes == {<<58, 59, 12, 3, 9, 9, 9>>}
=============================================================================
