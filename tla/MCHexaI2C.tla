----------------------------- MODULE MCHexaI2C -----------------------------
(* Instances of HexaI2C for TLC: one device and one empty address.         *)
EXTENDS HexaI2C, TLC

MCCall(fn, addr, len) == [fn |-> fn, addr |-> addr, reg |-> 0, len |-> len]

(* A chunked read and a write of both registers (three bytes on the wire,  *)
(* in as many chunks), a write that does not fit tmp, and a ping of the    *)
(* empty address.                                                          *)
SafetyCalls == {MCCall("read", 1, 2), MCCall("write", 1, 2),
                MCCall("write", 1, 3), MCCall("ping", 0, 0)}

(* A bare write that moves the register pointer, a bare read, and a scan.  *)
RawCalls == {MCCall("write_raw", 1, 1), MCCall("read_raw", 1, 1),
             MCCall("scan", 0, 0)}

(* Single-byte reads of two registers, one of which is written.            *)
StaleCalls == {[MCCall("read", 1, 1) EXCEPT !.reg = r] : r \in {0, 1}}
              \cup {MCCall("write", 1, 1)}

TaskSymmetry == Permutations(Tasks)
=============================================================================
