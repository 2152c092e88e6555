----------------------------- MODULE MCHexaDemo -----------------------------
(* The demo with one sensor and a snapshot of two words, for TLC.          *)
EXTENDS HexaDemo

MCSensors == <<"vl53l0x">>
=============================================================================
