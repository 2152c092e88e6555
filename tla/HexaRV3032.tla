----------------------------- MODULE HexaRV3032 -----------------------------
(***************************************************************************)
(* The driver of the RV-3032 clock (drivers/src/hexa_rv3032.c): reading    *)
(* the time while it goes on, setting it, and the flags that say whether   *)
(* it may be trusted, against losses of power, resets of the               *)
(* microcontroller and transfers that fail half-way.                       *)
(*                                                                         *)
(* A time is <<sec, min, hour, wday, day, month, year>>: the order of the  *)
(* chip's registers, which hold it in BCD.                                 *)
(***************************************************************************)
EXTENDS Naturals, Sequences

CONSTANTS
  Requests,      \* the times asked of set_time, sensible or not
  RandomTimes,   \* what the clock may show when power comes (the year 0..99)
  MaxSeconds     \* bound on the seconds that pass in a behaviour

Fields == 1 .. 7

(* The numbers there is room for in the bits that each register has in     *)
(* use: what the chip can show, sensible or not.                           *)
Numbers == <<80, 80, 40, 8, 40, 20, 100>>

Times == {t \in [Fields -> 0 .. 99] : \A i \in Fields : t[i] < Numbers[i]}

ASSUME TimesAssumption ==
  /\ Requests \subseteq [Fields -> Nat]
  /\ RandomTimes \subseteq Times
  /\ MaxSeconds \in Nat

VARIABLES
  clock,       \* chip: the time, with the year counted from 2000
  reserved,    \* chip: the unused bits of its registers read as ones
  porf,        \* chip: power has been lost (PORF, VLF)
  pc,          \* where the driver is: "idle", or the transfer to come
  f,           \* the register a burst has come to
  asked,       \* argument of set_time
  raw,         \* the variable of that name
  ret,         \* what the last call returned
  shown,       \* history: the times of the clock since the call began
  turned,      \* history: a second has ended during the call
  seconds,     \* history: seconds that have passed
  set          \* history: all registers have been written since power came

chipVars == <<clock, reserved, porf>>
callVars == <<pc, f, asked, raw, ret>>
vars     == <<chipVars, callVars, shown, turned, seconds, set>>

Zeros     == [i \in Fields |-> 0]
NotCalled == [call |-> "none", st |-> "OK", dt |-> Zeros, valid |-> FALSE]

Init ==
  /\ clock \in RandomTimes
  /\ reserved \in BOOLEAN
  /\ porf = TRUE
  /\ pc = "idle"
  /\ f = 1
  /\ asked = Zeros
  /\ raw = Zeros
  /\ ret = NotCalled
  /\ shown = {}
  /\ turned = FALSE
  /\ seconds = 0
  /\ set = FALSE

-----------------------------------------------------------------------------
(* The chip.                                                               *)

DaysIn(t) == CASE t[6] = 2 -> IF t[7] % 4 = 0 THEN 29 ELSE 28
               [] t[6] \in {4, 6, 9, 11} -> 30
               [] OTHER -> 31

First   == <<0, 0, 0, 0, 1, 1, 0>>
Last(t) == <<59, 59, 23, 6, DaysIn(t), 12, 99>>

(* All fields that carry into field i are at their last value.             *)
Rolls(t, i) == \A j \in (1 .. i - 1) \ {4} : t[j] >= Last(t)[j]

Later(t) == [i \in Fields |-> IF ~Rolls(t, i) THEN t[i]
                              ELSE IF t[i] >= Last(t)[i] THEN First[i] ELSE t[i] + 1]

(* The bits of each register that are in use, plus one.                    *)
Used == <<128, 128, 64, 8, 64, 32, 256>>

(* What a read of register i returns, and what a byte written to it means. *)
Register(i) == (clock[i] \div 10) * 16 + (clock[i] % 10)
                 + (IF reserved THEN 256 - Used[i] ELSE 0)
Meaning(b)  == (b \div 16) * 10 + (b % 16)

-----------------------------------------------------------------------------
(* Conversions.                                                            *)

bcd_to_bin(v) == (v \div 16) * 10 + (v % 16)

(* Fault: the tens are shifted by three bits.                              *)
bin_to_bcd_short(v) == (v \div 10) * 8 + (v % 10)

bin_to_bcd(v) == (v \div 10) * 16 + (v % 10)

unpack_time(r) ==
  <<bcd_to_bin(r[1] % 128), bcd_to_bin(r[2] % 128), bcd_to_bin(r[3] % 64), r[4] % 8,
    bcd_to_bin(r[5] % 64), bcd_to_bin(r[6] % 32), 2000 + bcd_to_bin(r[7])>>

(* raw[0] to raw[6] of hexa_rv3032_set_time                                *)
Packed(t) == <<bin_to_bcd(t[1]), bin_to_bcd(t[2]), bin_to_bcd(t[3]), t[4],
               bin_to_bcd(t[5]), bin_to_bcd(t[6]), bin_to_bcd(t[7] - 2000)>>

(* The checks of hexa_rv3032_set_time.                                     *)
InRange(t) == /\ t[1] <= 59 /\ t[2] <= 59 /\ t[3] <= 23 /\ t[4] <= 6
              /\ t[5] \in 1 .. 31 /\ t[6] \in 1 .. 12 /\ t[7] \in 2000 .. 2099

-----------------------------------------------------------------------------
(* The driver.                                                             *)

Returns(r) ==
  /\ ret' = r
  /\ pc' = "idle"
  /\ f' = 1
  /\ raw' = Zeros
  /\ asked' = Zeros
  /\ shown' = {}
  /\ turned' = FALSE

GoesOn == UNCHANGED <<asked, ret, shown, turned>>

Outcome(s) == [ret EXCEPT !.st = s]

(* The transfer to come fails; hexa_i2c's status is passed on.             *)
Fails == Returns(Outcome("ERR_BUS"))

Calls(c, step) ==
  /\ pc = "idle"
  /\ pc' = step
  /\ ret' = [NotCalled EXCEPT !.call = c]
  /\ shown' = {clock}
  /\ turned' = FALSE
  /\ UNCHANGED <<f, raw, seconds, set, chipVars>>

hexa_rv3032_get_time   == Calls("get", "read") /\ UNCHANGED asked
hexa_rv3032_time_valid == Calls("valid", "read_status") /\ UNCHANGED asked

(* Fault: the flags are cleared before the time is written.                *)
FlagsFirst == [begin |-> "read_status", write |-> "return", write_status |-> "write"]

(* The order of the transfers of hexa_rv3032_set_time.                     *)
SetOrder == [begin |-> "write", write |-> "read_status", write_status |-> "return"]

SetGoesOn(step) ==
  IF SetOrder[step] = "return"
  THEN Returns(ret)
  ELSE pc' = SetOrder[step] /\ f' = 1 /\ UNCHANGED raw /\ GoesOn

hexa_rv3032_set_time ==
  \E t \in Requests :
    /\ IF InRange(t)
       THEN Calls("set", SetOrder["begin"]) /\ asked' = t
       ELSE /\ pc = "idle"
            /\ ret' = [NotCalled EXCEPT !.call = "set", !.st = "ERR_PARAM"]
            /\ UNCHANGED <<pc, f, asked, raw, shown, turned, seconds, set, chipVars>>

(* Fault: the first burst is believed.                                     *)
ReadOnce(r) == FALSE

(* sec_again against raw[0]                                                *)
SecondsTurned(r) == Register(1) % 128 # r[1] % 128

GotTime(r) == Returns([ret EXCEPT !.dt = unpack_time(r)])

(* The burst of seven registers, one at a time ...                         *)
ReadBurst ==
  /\ pc \in {"read", "reread"}
  /\ LET r == [raw EXCEPT ![f] = Register(f)]
     IN  \/ Fails
         \/ f < 7 /\ f' = f + 1 /\ raw' = r /\ UNCHANGED pc /\ GoesOn
         \/ /\ f = 7 /\ pc = "read"
            /\ pc' = "again" /\ f' = 1 /\ raw' = r
            /\ GoesOn
         \/ f = 7 /\ pc = "reread" /\ GotTime(r)
  /\ UNCHANGED <<seconds, set, chipVars>>

(* ... and the seconds again.                                              *)
ReadAgain ==
  /\ pc = "again"
  /\ \/ Fails
     \/ SecondsTurned(raw) /\ pc' = "reread" /\ UNCHANGED <<f, raw>> /\ GoesOn
     \/ ~SecondsTurned(raw) /\ GotTime(raw)
  /\ UNCHANGED <<seconds, set, chipVars>>

(* A transfer may fail after the byte has been taken.                      *)
WriteBurst ==
  /\ pc = "write"
  /\ \/ Fails /\ UNCHANGED <<clock, set>>
     \/ /\ clock' = [clock EXCEPT ![f] = Meaning(Packed(asked)[f])]
        /\ set' = (set \/ f = 7)
        /\ \/ Fails
           \/ f < 7 /\ f' = f + 1 /\ UNCHANGED <<pc, raw>> /\ GoesOn
           \/ f = 7 /\ SetGoesOn("write")
  /\ UNCHANGED <<seconds, reserved, porf>>

ReadStatus ==
  /\ pc = "read_status"
  /\ \/ Fails
     \/ ret.call = "valid" /\ Returns([ret EXCEPT !.valid = ~porf])
     \/ /\ ret.call = "set"
        /\ pc' = "write_status"
        /\ UNCHANGED <<f, raw>> /\ GoesOn
  /\ UNCHANGED <<seconds, set, chipVars>>

(* PORF and VLF are cleared by writing zeros.                              *)
WriteStatus ==
  /\ pc = "write_status"
  /\ \/ Fails /\ UNCHANGED porf
     \/ /\ Fails \/ SetGoesOn("write_status")
        /\ porf' = FALSE
  /\ UNCHANGED <<seconds, set, clock, reserved>>

Driver == \/ hexa_rv3032_get_time \/ hexa_rv3032_time_valid \/ hexa_rv3032_set_time
          \/ ReadBurst \/ ReadAgain \/ WriteBurst \/ ReadStatus \/ WriteStatus

-----------------------------------------------------------------------------
(* A call takes less than a second: at most one turn of the clock falls    *)
(* into it.  A write of the seconds begins a new second, which does not    *)
(* end before the burst does.                                              *)
Second ==
  /\ seconds < MaxSeconds
  /\ pc # "idle" => ~turned /\ ~(pc = "write" /\ f > 1)
  /\ clock' = Later(clock)
  /\ seconds' = seconds + 1
  /\ turned' = (pc # "idle")
  /\ shown' = IF pc = "idle" THEN shown ELSE shown \union {Later(clock)}
  /\ UNCHANGED <<reserved, porf, set, callVars>>

(* The microcontroller restarts; the clock goes on.                        *)
Restart ==
  /\ Returns(NotCalled)
  /\ UNCHANGED <<seconds, set, chipVars>>

(* Everything loses power; later it comes back.                            *)
PowerLoss ==
  /\ Returns(NotCalled)
  /\ clock' \in RandomTimes
  /\ porf' = TRUE
  /\ set' = FALSE
  /\ UNCHANGED <<seconds, reserved>>

Next == Driver \/ Second \/ Restart \/ PowerLoss

Spec == Init /\ [][Next]_vars

-----------------------------------------------------------------------------
(* Properties.                                                             *)

(* A time as the application knows it.                                     *)
FullYear(t) == [t EXCEPT ![7] = 2000 + t[7]]

Outcomes == [call  : {"none", "get", "set", "valid"},
             st    : {"OK", "ERR_PARAM", "ERR_BUS"},
             dt    : [Fields -> Nat],
             valid : BOOLEAN]

(* Every variable keeps its type; the clock never shows what its registers *)
(* have no room for.                                                       *)
TypeOK ==
  /\ clock \in Times
  /\ reserved \in BOOLEAN /\ porf \in BOOLEAN /\ turned \in BOOLEAN /\ set \in BOOLEAN
  /\ pc \in {"idle", "read", "again", "reread", "write", "read_status", "write_status"}
  /\ f \in Fields
  /\ asked \in Requests \union {Zeros}
  /\ raw \in [Fields -> 0 .. 255]
  /\ ret \in Outcomes
  /\ shown \subseteq Times
  /\ seconds \in 0 .. MaxSeconds

(* get_time returns a time the clock has shown during the call, never a    *)
(* mixture of two, whichever register the turn of the clock falls on.      *)
TimeWasShown ==
  [][pc # "idle" /\ pc' = "idle" /\ ret'.call = "get" /\ ret'.st = "OK"
       => ret'.dt \in {FullYear(t) : t \in shown}]_vars

(* time_valid answers true only when all registers have been written since *)
(* power was last lost, wherever set_time was cut short by a restart or an *)
(* error: the flags go last.                                               *)
ValidMeansSet == ret.valid => set

(* When set_time returns HEXA_OK the clock shows what was asked, or one    *)
(* second more.                                                            *)
SetTimeHolds ==
  [][pc # "idle" /\ pc' = "idle" /\ ret'.call = "set" /\ ret'.st = "OK"
       => LET t == [asked EXCEPT ![7] = @ - 2000] IN clock' \in {t, Later(t)}]_vars
=============================================================================
