-------------------------- MODULE HexaRV3032Proofs --------------------------
(***************************************************************************)
(* The clock's driver, for any times asked for, any times the chip may     *)
(* show when power comes, and any number of seconds.                       *)
(***************************************************************************)
EXTENDS HexaRV3032, TLAPS

Inside == pc # "idle"

(* What the code says when register i shows time t.                        *)
Coded(t, i) == (t[i] \div 10) * 16 + (t[i] % 10) + (IF reserved THEN 256 - Used[i] ELSE 0)

(* The time asked for, as the chip shows it.                               *)
Wanted == [asked EXCEPT ![7] = @ - 2000]

(* Which call is at which step, and where a burst begins.                  *)
StepsFit ==
  /\ pc \in {"read", "again", "reread"} => ret.call = "get"
  /\ pc \in {"write", "write_status"} => ret.call = "set"
  /\ pc = "read_status" => ret.call \in {"set", "valid"}
  /\ pc \notin {"read", "reread", "write"} => f = 1

(* The flag goes down only when all registers have been written.           *)
FlagFits ==
  /\ ~porf => set
  /\ pc = "write_status" => set
  /\ pc = "read_status" /\ ret.call = "set" => set
  /\ ret.valid => set

(* The call has seen one time, or two of which the second is the later.    *)
ShownFits ==
  Inside /\ ret.call = "get" => clock \in shown

(* The n - 1 registers read so far are those of the clock; or it has       *)
(* turned since the seconds were read.                                     *)
ReadSoFar(n) ==
  \/ \A j \in Fields : j < n => raw[j] = Coded(clock, j)
  \/ /\ turned
     /\ n > 1
     /\ \E t \in Times : clock = Later(t) /\ raw[1] = Coded(t, 1)

BurstFits ==
  /\ pc = "read" => ReadSoFar(f)
  /\ pc = "again" => ReadSoFar(8)
  /\ pc = "reread" => /\ turned
                      /\ \A j \in Fields : j < f => raw[j] = Coded(clock, j)

(* The registers written so far show what was asked; once all are, the     *)
(* clock turns at most once.                                               *)
WriteFits ==
  /\ ret.call = "set" /\ Inside => InRange(asked)
  /\ pc = "write" => \A j \in Fields : j < f => clock[j] = Wanted[j]
  /\ ret.call = "set" /\ pc \in {"read_status", "write_status"} =>
       \/ clock = Wanted
       \/ turned /\ clock = Later(Wanted)

IInv == TypeOK /\ StepsFit /\ FlagFits /\ ShownFits /\ BurstFits /\ WriteFits
-----------------------------------------------------------------------------
(* The conversions.                                                        *)

(* The two digits of a number.                                             *)
LEMMA Digits ==
  ASSUME NEW n \in 0 .. 99
  PROVE  /\ n \div 10 \in 0 .. 9
         /\ n % 10 \in 0 .. 9
         /\ n = 10 * (n \div 10) + (n % 10)
  BY SMT

(* The two halves of a byte.                                               *)
LEMMA Halves ==
  ASSUME NEW q \in 0 .. 15, NEW r \in 0 .. 9
  PROVE  (q * 16 + r) \div 16 = q /\ (q * 16 + r) % 16 = r
  BY SMT

(* bcd_to_bin undoes bin_to_bcd, and the chip reads a byte as it does.     *)
LEMMA BackAgain ==
  ASSUME NEW n \in 0 .. 99
  PROVE  bcd_to_bin(bin_to_bcd(n)) = n /\ Meaning(bin_to_bcd(n)) = n
  <1> DEFINE q == n \div 10
             r == n % 10
  <1>1. q \in 0 .. 15 /\ r \in 0 .. 9 /\ n = 10 * q + r
    BY Digits
  <1>2. (q * 16 + r) \div 16 = q /\ (q * 16 + r) % 16 = r
    BY <1>1, Halves
  <1>3. q * 10 + r = n
    BY <1>1
  <1> QED
    BY <1>2, <1>3 DEF bcd_to_bin, bin_to_bcd, Meaning

(* The size of a number in BCD.                                            *)
LEMMA CodeSize ==
  ASSUME NEW n \in 0 .. 99
  PROVE  /\ bin_to_bcd(n) \in 0 .. 153
         /\ n < 80 => bin_to_bcd(n) < 128
         /\ n < 40 => bin_to_bcd(n) < 64
         /\ n < 20 => bin_to_bcd(n) < 32
         /\ n < 8  => bin_to_bcd(n) = n
  BY Digits DEF bin_to_bcd

(* The bits out of use come above those in use.                            *)
LEMMA Masked ==
  ASSUME NEW u \in {8, 32, 64, 128, 256}, NEW v \in 0 .. u - 1
  PROVE  v % u = v /\ (v + (256 - u)) % u = v
  BY SMT

(* What is read of a register fits a byte, and without the unused bits is  *)
(* the number in BCD.                                                      *)
LEMMA Decodes ==
  ASSUME NEW t \in Times, NEW i \in Fields, reserved \in BOOLEAN
  PROVE  /\ Coded(t, i) \in 0 .. 255
         /\ Coded(t, i) % Used[i] = bin_to_bcd(t[i])
  <1> DEFINE v == bin_to_bcd(t[i])
             u == Used[i]
  <1>1. t[i] \in 0 .. 99 /\ t[i] < Numbers[i]
    BY DEF Times
  <1>0. /\ v \in 0 .. 153
        /\ t[i] < 80 => v < 128
        /\ t[i] < 40 => v < 64
        /\ t[i] < 20 => v < 32
        /\ t[i] < 8  => v = t[i]
    BY <1>1, CodeSize
  <1> HIDE DEF v
  <1>2. u \in {8, 32, 64, 128, 256} /\ v \in 0 .. u - 1
    <2>1. CASE i \in {1, 2}
      BY <1>0, <1>1, <2>1 DEF Numbers, Used
    <2>2. CASE i \in {3, 5}
      BY <1>0, <1>1, <2>2 DEF Numbers, Used
    <2>3. CASE i = 4
      BY <1>0, <1>1, <2>3 DEF Numbers, Used
    <2>4. CASE i = 6
      BY <1>0, <1>1, <2>4 DEF Numbers, Used
    <2>5. CASE i = 7
      BY <1>0, <1>1, <2>5 DEF Numbers, Used
    <2> QED
      BY <2>1, <2>2, <2>3, <2>4, <2>5 DEF Fields
  <1>3. Coded(t, i) = v + (IF reserved THEN 256 - u ELSE 0)
    BY DEF v, Coded, bin_to_bcd
  <1>4. v % u = v /\ (v + (256 - u)) % u = v
    BY <1>2, Masked
  <1>5. v + (256 - u) \in 0 .. 255 /\ v \in 0 .. 255
    BY <1>2
  <1> HIDE DEF u
  <1>6. CASE reserved
    BY <1>3, <1>4, <1>5, <1>6 DEF v, u
  <1>7. CASE ~reserved
    <2>1. Coded(t, i) = v
      BY <1>2, <1>3, <1>7
    <2> QED
      BY <2>1, <1>4, <1>5 DEF v, u
  <1> QED
    BY <1>6, <1>7

(* A whole burst, unpacked.                                                *)
LEMMA Unpacks ==
  ASSUME NEW t \in Times, NEW r \in [Fields -> 0 .. 255], reserved \in BOOLEAN,
         \A j \in Fields : r[j] = Coded(t, j)
  PROVE  unpack_time(r) = FullYear(t) /\ unpack_time(r) \in [Fields -> Nat]
  <1>1. \A j \in Fields : r[j] % Used[j] = bin_to_bcd(t[j]) /\ r[j] \in 0 .. 255
    BY Decodes
  <1>2. \A j \in Fields : t[j] \in 0 .. 99 /\ bcd_to_bin(bin_to_bcd(t[j])) = t[j]
    BY BackAgain DEF Times
  <1>3. bcd_to_bin(r[1] % 128) = t[1] /\ bcd_to_bin(r[2] % 128) = t[2]
    BY <1>1, <1>2 DEF Fields, Used
  <1>4. bcd_to_bin(r[3] % 64) = t[3] /\ bcd_to_bin(r[5] % 64) = t[5]
    BY <1>1, <1>2 DEF Fields, Used
  <1>5. bcd_to_bin(r[6] % 32) = t[6]
    BY <1>1, <1>2 DEF Fields, Used
  <1>6. r[4] % 8 = t[4]
    <2>1. t[4] < 8 /\ t[4] \in 0 .. 99
      BY DEF Times, Numbers, Fields
    <2> QED
      BY <2>1, <1>1, CodeSize DEF Fields, Used
  <1>7. bcd_to_bin(r[7]) = t[7]
    <2>1. r[7] % 256 = r[7]
      BY DEF Fields
    <2> QED
      BY <2>1, <1>1, <1>2 DEF Fields, Used
  <1>8. unpack_time(r) = <<t[1], t[2], t[3], t[4], t[5], t[6], 2000 + t[7]>>
    BY <1>3, <1>4, <1>5, <1>6, <1>7 DEF unpack_time
  <1>9. t \in [Fields -> 0 .. 99]
    BY DEF Times
  <1> QED
    BY <1>8, <1>9 DEF FullYear, Fields
LEMMA Between ==
  ASSUME NEW n \in 0 .. 99, NEW l \in 0 .. 99, NEW m \in 8 .. 100, n + 1 <= l, l < m
  PROVE  n + 1 \in 0 .. 99 /\ n + 1 < m
  BY SMT

(* A second later the chip shows a time again, and other seconds.          *)
LEMMA Goes ==
  ASSUME NEW t \in Times
  PROVE  Later(t) \in Times /\ Later(t)[1] # t[1]
  <1>1. t \in [Fields -> 0 .. 99] /\ \A i \in Fields : t[i] < Numbers[i]
    BY DEF Times
  <1>2. DaysIn(t) \in 28 .. 31
    BY DEF DaysIn
  <1>3. \A i \in Fields : /\ Last(t)[i] \in 0 .. 99 /\ Last(t)[i] < Numbers[i]
                         /\ First[i] \in 0 .. 1
    BY <1>2 DEF Last, First, Numbers, Fields
  <1>4. ASSUME NEW i \in Fields
        PROVE  Later(t)[i] \in 0 .. 99 /\ Later(t)[i] < Numbers[i]
    <2>1. Later(t)[i] = IF ~Rolls(t, i) THEN t[i]
                        ELSE IF t[i] >= Last(t)[i] THEN First[i] ELSE t[i] + 1
      BY DEF Later
    <2>2. Numbers[i] \in 8 .. 100
      BY DEF Numbers, Fields
    <2>3. t[i] \in 0 .. 99 /\ t[i] < Numbers[i]
      BY <1>1
    <2>4. Last(t)[i] \in 0 .. 99 /\ Last(t)[i] < Numbers[i] /\ First[i] \in 0 .. 1
      BY <1>3
    <2>5. CASE ~Rolls(t, i)
      BY <2>1, <2>3, <2>5
    <2>6. CASE Rolls(t, i) /\ t[i] >= Last(t)[i]
      BY <2>1, <2>2, <2>4, <2>6
    <2>7. CASE Rolls(t, i) /\ ~(t[i] >= Last(t)[i])
      <3>1. Later(t)[i] = t[i] + 1
        BY <2>1, <2>7
      <3>2. t[i] + 1 <= Last(t)[i]
        BY <2>3, <2>4, <2>7
      <3> QED
        BY <2>2, <2>3, <2>4, <3>1, <3>2, Between
    <2> QED
      BY <2>5, <2>6, <2>7
  <1>5. Later(t) \in [Fields -> 0 .. 99]
    BY <1>4 DEF Later
  <1>6. Later(t)[1] # t[1]
    <2>1. 1 \in Fields /\ Last(t)[1] = 59 /\ First[1] = 0 /\ t[1] \in 0 .. 99
      BY <1>1 DEF Last, First, Fields
    <2>2. Rolls(t, 1)
      BY DEF Rolls
    <2> QED
      BY <2>1, <2>2 DEF Later
  <1> QED
    BY <1>4, <1>5, <1>6 DEF Times

(* The seconds read at two different times differ.                         *)
LEMMA SecondsDiffer ==
  ASSUME NEW t \in Times, reserved \in BOOLEAN
  PROVE  Coded(Later(t), 1) % 128 # Coded(t, 1) % 128
  <1>1. Later(t) \in Times /\ Later(t)[1] # t[1]
    BY Goes
  <1>2. 1 \in Fields /\ Used[1] = 128
    BY DEF Fields, Used
  <1>3. /\ Coded(Later(t), 1) % 128 = bin_to_bcd(Later(t)[1])
        /\ Coded(t, 1) % 128 = bin_to_bcd(t[1])
    BY <1>1, <1>2, Decodes
  <1>4. t[1] \in 0 .. 99 /\ Later(t)[1] \in 0 .. 99
    BY <1>1, <1>2 DEF Times
  <1>5. /\ bcd_to_bin(bin_to_bcd(t[1])) = t[1]
        /\ bcd_to_bin(bin_to_bcd(Later(t)[1])) = Later(t)[1]
    BY <1>4, BackAgain
  <1> QED
    BY <1>1, <1>3, <1>5

(* What set_time writes means what was asked.                              *)
LEMMA Writes ==
  ASSUME asked \in [Fields -> Nat], InRange(asked)
  PROVE  /\ Wanted \in Times
         /\ \A i \in Fields : Meaning(Packed(asked)[i]) = Wanted[i]
  <1>1. /\ asked[1] \in 0 .. 59 /\ asked[2] \in 0 .. 59 /\ asked[3] \in 0 .. 23
        /\ asked[4] \in 0 .. 6 /\ asked[5] \in 1 .. 31 /\ asked[6] \in 1 .. 12
        /\ asked[7] - 2000 \in 0 .. 99
    BY DEF InRange, Fields
  <1> DEFINE year == asked[7] - 2000
  <1>2. Wanted = [i \in Fields |-> IF i = 7 THEN year ELSE asked[i]]
    <2>1. Wanted = [asked EXCEPT ![7] = year]
      BY DEF Wanted
    <2> HIDE DEF year
    <2> QED
      BY <2>1
  <1>3. \A i \in Fields : Wanted[i] \in 0 .. 99 /\ Wanted[i] < Numbers[i]
    BY <1>1, <1>2 DEF Fields, Numbers
  <1>4. Wanted \in Times
    BY <1>2, <1>3 DEF Times
  <1>5. \A i \in Fields : Meaning(bin_to_bcd(Wanted[i])) = Wanted[i]
    BY <1>3, BackAgain
  <1>6. bin_to_bcd(asked[4]) = asked[4]
    BY <1>1, CodeSize
  <1>7. \A i \in Fields : Packed(asked)[i] = bin_to_bcd(Wanted[i])
    BY <1>2, <1>6 DEF Packed, Fields
  <1> QED
    BY <1>4, <1>5, <1>7
-----------------------------------------------------------------------------
(* The invariant.                                                          *)

LEMMA ZerosFit == Zeros \in [Fields -> 0 .. 255] /\ Zeros \in [Fields -> Nat]
  BY DEF Zeros

LEMMA NotCalledFits == NotCalled \in Outcomes /\ ~NotCalled.valid /\ NotCalled.call = "none"
  BY ZerosFit DEF NotCalled, Outcomes

LEMMA InitFits == Init => IInv
  <1> SUFFICES ASSUME Init PROVE IInv
    OBVIOUS
  <1>1. f \in Fields /\ seconds \in 0 .. MaxSeconds
    BY TimesAssumption DEF Init, Fields
  <1>2. clock \in Times /\ raw \in [Fields -> 0 .. 255] /\ asked \in Requests \union {Zeros}
    BY TimesAssumption, ZerosFit DEF Init
  <1>3. TypeOK
    BY <1>1, <1>2, NotCalledFits DEF Init, TypeOK
  <1>4. StepsFit /\ FlagFits /\ ShownFits /\ BurstFits /\ WriteFits
    BY NotCalledFits DEF Init, StepsFit, FlagFits, ShownFits, BurstFits, WriteFits, Inside
  <1> QED
    BY <1>3, <1>4 DEF IInv

(* Once a call has returned the invariant is about the chip and the        *)
(* outcome alone.                                                          *)
LEMMA ReturnKeeps ==
  ASSUME NEW r \in Outcomes, Returns(r), r.valid => set',
         clock' \in Times, reserved' \in BOOLEAN, porf' \in BOOLEAN, set' \in BOOLEAN,
         ~porf' => set', seconds' \in 0 .. MaxSeconds
  PROVE  IInv'
  <1>1. /\ pc' = "idle" /\ f' = 1 /\ raw' = Zeros /\ asked' = Zeros
        /\ shown' = {} /\ turned' = FALSE /\ ret' = r
    BY DEF Returns
  <1>2. TypeOK'
    <2>1. f' \in Fields
      BY <1>1 DEF Fields
    <2>2. turned' \in BOOLEAN
      BY <1>1
    <2>3. pc' \in {"idle", "read", "again", "reread", "write", "read_status", "write_status"}
      BY <1>1
    <2>4. asked' \in Requests \union {Zeros} /\ raw' \in [Fields -> 0 .. 255] /\ shown' \subseteq Times
      BY <1>1, ZerosFit
    <2> QED
      BY <1>1, <2>1, <2>2, <2>3, <2>4 DEF TypeOK
  <1>3. StepsFit' /\ FlagFits' /\ ShownFits' /\ BurstFits' /\ WriteFits'
    BY <1>1 DEF StepsFit, FlagFits, ShownFits, BurstFits, WriteFits, Inside
  <1> QED
    BY <1>2, <1>3 DEF IInv

(* The outcome of a transfer that failed.                                  *)
LEMMA FailureFits ==
  ASSUME IInv
  PROVE  Outcome("ERR_BUS") \in Outcomes /\ (Outcome("ERR_BUS").valid => set)
  BY DEF IInv, TypeOK, FlagFits, Outcome, Outcomes

LEMMA FailureKeeps ==
  ASSUME IInv, Fails, UNCHANGED reserved, clock' \in Times, porf' \in BOOLEAN,
         ~porf' => set', set' \in BOOLEAN, set => set', UNCHANGED seconds
  PROVE  IInv'
  BY FailureFits, ReturnKeeps DEF Fails, IInv, TypeOK

(* A call begins.                                                          *)
LEMMA CallKeeps ==
  ASSUME IInv, NEW c, NEW step, Calls(c, step), asked' \in Requests \union {Zeros},
         \/ c = "get"   /\ step = "read"
         \/ c = "valid" /\ step = "read_status"
         \/ c = "set"   /\ step = "write" /\ InRange(asked')
  PROVE  IInv'
  <1>1. /\ pc = "idle" /\ pc' = step /\ ret' = [NotCalled EXCEPT !.call = c]
        /\ shown' = {clock} /\ turned' = FALSE
        /\ UNCHANGED <<f, raw, seconds, set, clock, reserved, porf>>
    BY DEF Calls, chipVars
  <1>2. ret' \in Outcomes /\ ret'.call = c /\ ~ret'.valid
    BY <1>1, ZerosFit DEF NotCalled, Outcomes
  <1>3. f' = 1
    BY <1>1 DEF IInv, StepsFit
  <1>4. TypeOK'
    BY <1>1, <1>2 DEF IInv, TypeOK
  <1>5. StepsFit' /\ FlagFits' /\ ShownFits'
    BY <1>1, <1>2, <1>3 DEF IInv, StepsFit, FlagFits, ShownFits, Inside
  <1>6. BurstFits'
    BY <1>1, <1>3 DEF BurstFits, ReadSoFar, Fields
  <1>7. WriteFits'
    BY <1>1, <1>2, <1>3 DEF WriteFits, Inside, Fields
  <1> QED
    BY <1>4, <1>5, <1>6, <1>7 DEF IInv

LEMMA SetTimeKeeps ==
  ASSUME IInv, hexa_rv3032_set_time
  PROVE  IInv'
  <1> PICK t \in Requests :
        IF InRange(t)
        THEN Calls("set", SetOrder["begin"]) /\ asked' = t
        ELSE /\ pc = "idle"
             /\ ret' = [NotCalled EXCEPT !.call = "set", !.st = "ERR_PARAM"]
             /\ UNCHANGED <<pc, f, asked, raw, shown, turned, seconds, set, chipVars>>
    BY DEF hexa_rv3032_set_time
  <1>1. CASE InRange(t)
    <2>1. Calls("set", "write") /\ asked' = t
      BY <1>1 DEF SetOrder
    <2> QED
      BY <1>1, <2>1, CallKeeps
  <1>2. CASE ~InRange(t)
    <2>1. ret' \in Outcomes /\ ~ret'.valid
      BY <1>2, ZerosFit DEF NotCalled, Outcomes
    <2> QED
      BY <1>2, <2>1
      DEF IInv, TypeOK, StepsFit, FlagFits, ShownFits, BurstFits, WriteFits, Inside, chipVars
  <1> QED
    BY <1>1, <1>2
(* What a step changes when the chip is only read.                         *)
LEMMA ReadFits ==
  ASSUME IInv, pc \in {"read", "reread"}
  PROVE  /\ [raw EXCEPT ![f] = Register(f)] \in [Fields -> 0 .. 255]
         /\ Register(f) = Coded(clock, f)
  <1>1. Register(f) = Coded(clock, f)
    BY DEF Register, Coded
  <1>2. Coded(clock, f) \in 0 .. 255
    BY Decodes DEF IInv, TypeOK
  <1> QED
    BY <1>1, <1>2 DEF IInv, TypeOK

LEMMA GotTimeKeeps ==
  ASSUME IInv, NEW r \in [Fields -> 0 .. 255], GotTime(r), UNCHANGED <<seconds, set, chipVars>>,
         \A j \in Fields : r[j] = Coded(clock, j)
  PROVE  IInv' /\ ret'.dt = FullYear(clock)
  <1>1. unpack_time(r) = FullYear(clock) /\ unpack_time(r) \in [Fields -> Nat]
    BY Unpacks DEF IInv, TypeOK
  <1> DEFINE o == [ret EXCEPT !.dt = unpack_time(r)]
  <1>2. o \in Outcomes /\ (o.valid => set) /\ o.dt = FullYear(clock)
    BY <1>1 DEF IInv, TypeOK, FlagFits, Outcomes
  <1>3. Returns(o)
    BY DEF GotTime
  <1>4. ret' = o
    BY <1>3 DEF Returns
  <1> HIDE DEF o
  <1>5. IInv'
    BY <1>2, <1>3, ReturnKeeps DEF IInv, TypeOK, FlagFits, chipVars
  <1> QED
    BY <1>2, <1>4, <1>5

LEMMA ReadBurstKeeps ==
  ASSUME IInv, ReadBurst
  PROVE  IInv'
  <1> DEFINE r == [raw EXCEPT ![f] = Register(f)]
  <1>1. /\ pc \in {"read", "reread"}
        /\ UNCHANGED <<seconds, set, clock, reserved, porf>>
    BY DEF ReadBurst, chipVars
  <1>2. /\ r \in [Fields -> 0 .. 255]
        /\ r[f] = Coded(clock, f)
        /\ \A j \in Fields : j < f => r[j] = raw[j]
    BY <1>1, ReadFits DEF IInv, TypeOK, Fields
  <1>3. f \in 1 .. 7
    BY DEF IInv, TypeOK, Fields
  <1>4. pc = "read" => \/ \A j \in Fields : j < f + 1 => r[j] = Coded(clock, j)
                      \/ /\ turned
                         /\ \E t \in Times : clock = Later(t) /\ r[1] = Coded(t, 1)
    <2> SUFFICES ASSUME pc = "read"
                 PROVE  \/ \A j \in Fields : j < f + 1 => r[j] = Coded(clock, j)
                        \/ /\ turned
                           /\ \E t \in Times : clock = Later(t) /\ r[1] = Coded(t, 1)
      OBVIOUS
    <2>1. CASE \A j \in Fields : j < f => raw[j] = Coded(clock, j)
      BY <1>2, <1>3, <2>1 DEF Fields
    <2>2. CASE turned /\ f > 1 /\ \E t \in Times : clock = Later(t) /\ raw[1] = Coded(t, 1)
      BY <1>2, <1>3, <2>2 DEF Fields
    <2> QED
      BY <2>1, <2>2 DEF IInv, BurstFits, ReadSoFar
  <1>5. pc = "reread" => turned /\ \A j \in Fields : j < f + 1 => r[j] = Coded(clock, j)
    BY <1>2, <1>3 DEF IInv, BurstFits, Fields
  <1>6. CASE Fails
    BY <1>1, <1>6, FailureKeeps DEF IInv, TypeOK, FlagFits
  <1>7. CASE f < 7 /\ f' = f + 1 /\ raw' = r /\ UNCHANGED pc /\ GoesOn
    <2>1. UNCHANGED <<asked, ret, shown, turned>> /\ f' \in Fields
      BY <1>3, <1>7 DEF GoesOn, Fields
    <2>2. TypeOK'
      BY <1>1, <1>2, <1>7, <2>1 DEF IInv, TypeOK
    <2>3. StepsFit' /\ FlagFits' /\ ShownFits' /\ WriteFits'
      BY <1>1, <1>7, <2>1 DEF IInv, StepsFit, FlagFits, ShownFits, WriteFits, Inside
    <2>4. BurstFits'
      BY <1>1, <1>3, <1>4, <1>5, <1>7, <2>1 DEF BurstFits, ReadSoFar, Coded
    <2> QED
      BY <2>2, <2>3, <2>4 DEF IInv
  <1>8. CASE f = 7 /\ pc = "read" /\ pc' = "again" /\ f' = 1 /\ raw' = r /\ GoesOn
    <2>1. UNCHANGED <<asked, ret, shown, turned>> /\ f' \in Fields
      BY <1>8 DEF GoesOn, Fields
    <2>2. TypeOK'
      BY <1>1, <1>2, <1>8, <2>1 DEF IInv, TypeOK
    <2>3. StepsFit' /\ FlagFits' /\ ShownFits' /\ WriteFits'
      BY <1>1, <1>8, <2>1 DEF IInv, StepsFit, FlagFits, ShownFits, WriteFits, Inside
    <2>4. BurstFits'
      BY <1>1, <1>4, <1>8, <2>1 DEF BurstFits, ReadSoFar, Coded
    <2> QED
      BY <2>2, <2>3, <2>4 DEF IInv
  <1>9. CASE f = 7 /\ pc = "reread" /\ GotTime(r)
    <2>1. \A j \in Fields : r[j] = Coded(clock, j)
      BY <1>5, <1>9 DEF Fields
    <2> QED
      BY <1>1, <1>2, <1>9, <2>1, GotTimeKeeps DEF chipVars
  <1> QED
    BY <1>6, <1>7, <1>8, <1>9 DEF ReadBurst

(* A burst that is believed has not met a turn of the clock.               *)
LEMMA BelievedIsWhole ==
  ASSUME IInv, pc = "again", ~SecondsTurned(raw)
  PROVE  \A j \in Fields : raw[j] = Coded(clock, j)
  <1>1. Register(1) = Coded(clock, 1)
    BY DEF Register, Coded
  <1>2. Coded(clock, 1) % 128 = raw[1] % 128
    BY <1>1 DEF SecondsTurned
  <1>3. ~ \E t \in Times : clock = Later(t) /\ raw[1] = Coded(t, 1)
    BY <1>2, SecondsDiffer DEF IInv, TypeOK
  <1>4. \A j \in Fields : j < 8 => raw[j] = Coded(clock, j)
    BY <1>3 DEF IInv, BurstFits, ReadSoFar
  <1> QED
    BY <1>4 DEF Fields

(* A burst that is not believed has met one.                               *)
LEMMA RereadHasTurned ==
  ASSUME IInv, pc = "again", SecondsTurned(raw)
  PROVE  turned
  <1>1. Register(1) = Coded(clock, 1)
    BY DEF Register, Coded
  <1>2. raw[1] # Coded(clock, 1)
    BY <1>1 DEF SecondsTurned
  <1> QED
    BY <1>2 DEF IInv, BurstFits, ReadSoFar, Fields

LEMMA ReadAgainKeeps ==
  ASSUME IInv, ReadAgain
  PROVE  IInv'
  <1>1. pc = "again" /\ UNCHANGED <<seconds, set, clock, reserved, porf>>
    BY DEF ReadAgain, chipVars
  <1>2. CASE Fails
    BY <1>1, <1>2, FailureKeeps DEF IInv, TypeOK, FlagFits
  <1>3. CASE SecondsTurned(raw) /\ pc' = "reread" /\ UNCHANGED <<f, raw>> /\ GoesOn
    <2>1. UNCHANGED <<asked, ret, shown, turned>> /\ f' = 1 /\ turned
      BY <1>1, <1>3, RereadHasTurned DEF GoesOn, IInv, StepsFit
    <2>2. TypeOK'
      BY <1>1, <1>3, <2>1 DEF IInv, TypeOK
    <2>3. StepsFit' /\ FlagFits' /\ ShownFits' /\ WriteFits'
      BY <1>1, <1>3, <2>1 DEF IInv, StepsFit, FlagFits, ShownFits, WriteFits, Inside
    <2>4. BurstFits'
      BY <1>3, <2>1 DEF BurstFits, Fields
    <2> QED
      BY <2>2, <2>3, <2>4 DEF IInv
  <1>4. CASE ~SecondsTurned(raw) /\ GotTime(raw)
    BY <1>1, <1>4, BelievedIsWhole, GotTimeKeeps DEF IInv, TypeOK, chipVars
  <1> QED
    BY <1>2, <1>3, <1>4 DEF ReadAgain
LEMMA WriteBurstKeeps ==
  ASSUME IInv, WriteBurst
  PROVE  IInv'
  <1>1. pc = "write" /\ UNCHANGED <<seconds, reserved, porf>> /\ ret.call = "set" /\ InRange(asked)
    BY DEF WriteBurst, IInv, StepsFit, WriteFits, Inside
  <1>2. asked \in [Fields -> Nat]
    BY TimesAssumption, ZerosFit DEF IInv, TypeOK
  <1>3. Wanted \in Times /\ \A i \in Fields : Meaning(Packed(asked)[i]) = Wanted[i]
    BY <1>1, <1>2, Writes
  <1>4. f \in 1 .. 7 /\ f \in Fields /\ clock \in Times
    BY DEF IInv, TypeOK, Fields
  <1> DEFINE c == [clock EXCEPT ![f] = Meaning(Packed(asked)[f])]
  <1>5. /\ c \in Times
        /\ \A j \in Fields : j < f + 1 => c[j] = Wanted[j]
    <2>1. c = [clock EXCEPT ![f] = Wanted[f]]
      BY <1>3, <1>4
    <2>2. c \in [Fields -> 0 .. 99] /\ \A i \in Fields : c[i] = IF i = f THEN Wanted[i] ELSE clock[i]
      BY <1>3, <1>4, <2>1 DEF Times
    <2>3. \A i \in Fields : c[i] < Numbers[i]
      BY <1>3, <1>4, <2>2 DEF Times
    <2>4. \A j \in Fields : j < f => clock[j] = Wanted[j]
      BY <1>1 DEF IInv, WriteFits
    <2>5. ASSUME NEW j \in Fields, j < f + 1 PROVE c[j] = Wanted[j]
      BY <1>4, <2>2, <2>4, <2>5 DEF Fields
    <2> QED
      BY <2>2, <2>3, <2>5 DEF Times
  <1>6. CASE Fails /\ UNCHANGED <<clock, set>>
    BY <1>1, <1>6, FailureKeeps DEF IInv, TypeOK, FlagFits
  <1>7. CASE clock' = c /\ set' = (set \/ f = 7)
    <2>1. set' \in BOOLEAN /\ (set => set') /\ clock' \in Times
      BY <1>5, <1>7 DEF IInv, TypeOK
    <2> HIDE DEF c
    <2>2. CASE Fails
      BY <1>1, <2>1, <2>2, FailureKeeps DEF IInv, TypeOK, FlagFits
    <2>3. CASE f < 7 /\ f' = f + 1 /\ UNCHANGED <<pc, raw>> /\ GoesOn
      <3>1. UNCHANGED <<asked, ret, shown, turned>> /\ f' \in Fields
        BY <1>4, <2>3 DEF GoesOn, Fields
      <3>2. TypeOK'
        BY <1>1, <2>1, <2>3, <3>1 DEF IInv, TypeOK
      <3>3. StepsFit' /\ FlagFits' /\ ShownFits' /\ BurstFits'
        BY <1>1, <2>1, <2>3, <3>1 DEF IInv, StepsFit, FlagFits, ShownFits, BurstFits, Inside
      <3>4. Wanted' = Wanted
        BY <3>1 DEF Wanted
      <3>5. WriteFits'
        BY <1>1, <1>5, <1>7, <2>3, <3>1, <3>4 DEF WriteFits, Inside
      <3> QED
        BY <3>2, <3>3, <3>5 DEF IInv
    <2>4. CASE f = 7 /\ SetGoesOn("write")
      <3>1. /\ pc' = "read_status" /\ f' = 1
            /\ UNCHANGED <<raw, asked, ret, shown, turned>>
        BY <2>4 DEF SetGoesOn, SetOrder, GoesOn
      <3>2. clock' = Wanted /\ set'
        <4>1. \A j \in Fields : c[j] = Wanted[j]
          BY <1>5, <2>4 DEF Fields
        <4>2. c = Wanted
          BY <1>3, <1>5, <4>1 DEF Times
        <4> QED
          BY <1>7, <2>4, <4>2
      <3>3. TypeOK'
        BY <1>1, <2>1, <3>1 DEF IInv, TypeOK, Fields
      <3>4. StepsFit' /\ FlagFits' /\ ShownFits' /\ BurstFits'
        BY <1>1, <3>1, <3>2 DEF IInv, StepsFit, FlagFits, ShownFits, BurstFits, Inside
      <3>5. Wanted' = Wanted
        BY <3>1 DEF Wanted
      <3>6. WriteFits'
        BY <1>1, <3>1, <3>2, <3>5 DEF WriteFits, Inside
      <3> QED
        BY <3>3, <3>4, <3>6 DEF IInv
    <2> QED
      BY <1>7, <2>2, <2>3, <2>4, <1>6 DEF WriteBurst
  <1> QED
    BY <1>6, <1>7 DEF WriteBurst
LEMMA ReadStatusKeeps ==
  ASSUME IInv, ReadStatus
  PROVE  IInv'
  <1>1. pc = "read_status" /\ UNCHANGED <<seconds, set, clock, reserved, porf>>
    BY DEF ReadStatus, chipVars
  <1>2. CASE Fails
    BY <1>1, <1>2, FailureKeeps DEF IInv, TypeOK, FlagFits
  <1>3. CASE Returns([ret EXCEPT !.valid = ~porf])
    <2> DEFINE o == [ret EXCEPT !.valid = ~porf]
    <2>1. o \in Outcomes /\ o.valid = ~porf
      BY DEF IInv, TypeOK, Outcomes
    <2> HIDE DEF o
    <2>2. Returns(o)
      BY <1>3 DEF o
    <2> QED
      BY <1>1, <2>1, <2>2, ReturnKeeps DEF IInv, TypeOK, FlagFits
  <1>4. CASE ret.call = "set" /\ pc' = "write_status" /\ UNCHANGED <<f, raw>> /\ GoesOn
    <2>1. UNCHANGED <<asked, ret, shown, turned>>
      BY <1>4 DEF GoesOn
    <2>2. TypeOK'
      BY <1>1, <1>4, <2>1 DEF IInv, TypeOK
    <2>3. StepsFit' /\ FlagFits' /\ ShownFits' /\ BurstFits'
      BY <1>1, <1>4, <2>1 DEF IInv, StepsFit, FlagFits, ShownFits, BurstFits, Inside
    <2>4. Wanted' = Wanted
      BY <2>1 DEF Wanted
    <2>5. WriteFits'
      BY <1>1, <1>4, <2>1, <2>4 DEF IInv, WriteFits, Inside, Later, Rolls, Last, DaysIn
    <2> QED
      BY <2>2, <2>3, <2>5 DEF IInv
  <1> QED
    BY <1>2, <1>3, <1>4 DEF ReadStatus

LEMMA WriteStatusKeeps ==
  ASSUME IInv, WriteStatus
  PROVE  IInv'
  <1>1. pc = "write_status" /\ set /\ UNCHANGED <<seconds, set, clock, reserved>> /\ porf' \in BOOLEAN
    BY DEF WriteStatus, IInv, FlagFits, TypeOK
  <1>2. CASE Fails
    BY <1>1, <1>2, FailureKeeps DEF IInv, TypeOK
  <1>3. CASE SetGoesOn("write_status")
    <2>1. Returns(ret)
      BY <1>3 DEF SetGoesOn, SetOrder
    <2> QED
      BY <1>1, <2>1, ReturnKeeps DEF IInv, TypeOK
  <1> QED
    BY <1>2, <1>3 DEF WriteStatus

LEMMA SecondKeeps ==
  ASSUME IInv, Second
  PROVE  IInv'
  <1>1. /\ clock \in Times /\ clock' = Later(clock) /\ clock' \in Times
        /\ turned' = Inside
        /\ Inside => ~turned /\ ~(pc = "write" /\ f > 1)
        /\ UNCHANGED <<reserved, porf, set, pc, f, asked, raw, ret>>
    BY Goes DEF Second, IInv, TypeOK, Inside, callVars
  <1>2. shown' = IF Inside THEN shown \union {clock'} ELSE shown
    BY <1>1 DEF Second, Inside
  <1>3. seconds' \in 0 .. MaxSeconds
    BY TimesAssumption DEF Second, IInv, TypeOK
  <1>4. TypeOK'
    <2>1. turned' \in BOOLEAN /\ shown' \subseteq Times
      BY <1>1, <1>2 DEF Inside, IInv, TypeOK
    <2> QED
      BY <1>1, <1>3, <2>1 DEF IInv, TypeOK
  <1>5. StepsFit' /\ FlagFits' /\ ShownFits'
    BY <1>1, <1>2 DEF IInv, StepsFit, FlagFits, ShownFits, Inside
  <1>6. ASSUME NEW n \in 1 .. 8, ReadSoFar(n), Inside
        PROVE  ReadSoFar(n)'
    <2>1. \A j \in Fields : j < n => raw[j] = Coded(clock, j)
      BY <1>1, <1>6 DEF ReadSoFar
    <2>2. CASE n = 1
      BY <2>2 DEF ReadSoFar, Fields
    <2>3. CASE n > 1
      <3>1. raw[1] = Coded(clock, 1)
        BY <2>1, <2>3 DEF Fields
      <3>2. \A t \in Times : Coded(t, 1)' = Coded(t, 1)
        BY <1>1 DEF Coded
      <3>3. turned' /\ raw' = raw
        BY <1>1, <1>6
      <3> QED
        BY <1>1, <2>3, <3>1, <3>2, <3>3 DEF ReadSoFar
    <2> QED
      BY <2>2, <2>3
  <1>7. BurstFits'
    <2>1. f \in 1 .. 8 /\ 8 \in 1 .. 8 /\ f' = f /\ pc' = pc
      BY <1>1 DEF IInv, TypeOK, Fields
    <2>2. pc = "read" => ReadSoFar(f)'
      BY <1>6, <2>1 DEF IInv, BurstFits, Inside
    <2>3. pc = "again" => ReadSoFar(8)'
      BY <1>6, <2>1 DEF IInv, BurstFits, Inside
    <2>4. pc # "reread"
      BY <1>1 DEF IInv, BurstFits, Inside
    <2> QED
      BY <2>1, <2>2, <2>3, <2>4 DEF BurstFits
  <1>8. WriteFits'
    <2>1. Wanted' = Wanted
      BY <1>1 DEF Wanted
    <2>2. pc = "write" => f = 1
      BY <1>1 DEF Inside, IInv, TypeOK, Fields
    <2>3. ret.call = "set" /\ pc \in {"read_status", "write_status"} => clock = Wanted /\ turned'
      BY <1>1 DEF IInv, WriteFits, Inside
    <2>4. clock = Wanted => clock' = Later(Wanted)
      BY <1>1
    <2>5. Later(Wanted)' = Later(Wanted)
      BY <2>1 DEF Later, Rolls, Last, DaysIn
    <2> QED
      BY <1>1, <2>1, <2>2, <2>3, <2>4, <2>5 DEF IInv, WriteFits, Inside, Fields
  <1> QED
    BY <1>4, <1>5, <1>7, <1>8 DEF IInv

LEMMA RestartKeeps ==
  ASSUME IInv, Restart
  PROVE  IInv'
  BY NotCalledFits, ReturnKeeps DEF Restart, chipVars, IInv, TypeOK, FlagFits

LEMMA PowerLossKeeps ==
  ASSUME IInv, PowerLoss
  PROVE  IInv'
  BY NotCalledFits, ReturnKeeps, TimesAssumption DEF PowerLoss, IInv, TypeOK

LEMMA StutterKeeps ==
  ASSUME IInv, UNCHANGED vars
  PROVE  IInv'
  <1>1. UNCHANGED <<clock, reserved, porf, pc, f, asked, raw, ret, shown, turned, seconds, set>>
    BY DEF vars, chipVars, callVars
  <1>2. TypeOK'
    BY <1>1 DEF IInv, TypeOK
  <1>3. StepsFit' /\ FlagFits' /\ ShownFits'
    BY <1>1 DEF IInv, StepsFit, FlagFits, ShownFits, Inside
  <1>4. BurstFits'
    BY <1>1 DEF IInv, BurstFits, ReadSoFar, Coded
  <1>5. Wanted' = Wanted
    BY <1>1 DEF Wanted
  <1>6. WriteFits'
    BY <1>1, <1>5 DEF IInv, WriteFits, Inside
  <1> QED
    BY <1>2, <1>3, <1>4, <1>6 DEF IInv

LEMMA StepKeeps ==
  ASSUME IInv, [Next]_vars
  PROVE  IInv'
  <1>1. ASSUME hexa_rv3032_get_time PROVE IInv'
    BY <1>1, CallKeeps DEF hexa_rv3032_get_time, IInv, TypeOK
  <1>2. ASSUME hexa_rv3032_time_valid PROVE IInv'
    BY <1>2, CallKeeps DEF hexa_rv3032_time_valid, IInv, TypeOK
  <1>3. ASSUME Driver PROVE IInv'
    BY <1>1, <1>2, <1>3, SetTimeKeeps, ReadBurstKeeps, ReadAgainKeeps, WriteBurstKeeps,
       ReadStatusKeeps, WriteStatusKeeps DEF Driver
  <1> QED
    BY <1>3, SecondKeeps, RestartKeeps, PowerLossKeeps, StutterKeeps DEF Next

-----------------------------------------------------------------------------
(* What calls return.                                                      *)

(* Any value that is returned has the status the step gives it.            *)
LEMMA FailureReturns ==
  ASSUME IInv, Fails
  PROVE  ret'.st = "ERR_BUS"
  BY DEF Fails, Returns, Outcome, IInv, TypeOK, Outcomes

LEMMA GetReturns ==
  ASSUME IInv, ReadBurst \/ ReadAgain, pc' = "idle", ret'.st = "OK"
  PROVE  ret'.call = "get" /\ ret'.dt = FullYear(clock) /\ clock \in shown
  <1>1. /\ pc \in {"read", "again", "reread"} /\ ret.call = "get" /\ clock \in shown
        /\ UNCHANGED <<seconds, set, chipVars>>
    BY DEF ReadBurst, ReadAgain, IInv, StepsFit, ShownFits, Inside
  <1>2. ASSUME NEW r, GotTime(r) PROVE ret'.call = "get"
    BY <1>1, <1>2 DEF GotTime, Returns, IInv, TypeOK, Outcomes
  <1>3. CASE ReadBurst
    <2> DEFINE r == [raw EXCEPT ![f] = Register(f)]
    <2>1. pc = "reread" /\ f = 7 /\ GotTime(r)
      BY <1>3, FailureReturns DEF ReadBurst
    <2>2. r \in [Fields -> 0 .. 255] /\ r[f] = Coded(clock, f)
      BY <2>1, ReadFits DEF IInv, TypeOK
    <2>3. \A j \in Fields : r[j] = Coded(clock, j)
      BY <2>1, <2>2 DEF IInv, TypeOK, BurstFits, Fields
    <2> HIDE DEF r
    <2> QED
      BY <1>1, <1>2, <2>1, <2>2, <2>3, GotTimeKeeps
  <1>4. CASE ReadAgain
    <2>1. pc = "again" /\ ~SecondsTurned(raw) /\ GotTime(raw)
      BY <1>4, FailureReturns DEF ReadAgain
    <2> QED
      BY <1>1, <1>2, <2>1, BelievedIsWhole, GotTimeKeeps DEF IInv, TypeOK
  <1> QED
    BY <1>3, <1>4

LEMMA ValidReturns ==
  ASSUME IInv, ReadStatus, pc' = "idle", ret'.st = "OK"
  PROVE  ret'.call = "valid"
  <1>1. ret.call = "valid" /\ Returns([ret EXCEPT !.valid = ~porf])
    BY FailureReturns DEF ReadStatus
  <1> QED
    BY <1>1 DEF Returns, IInv, TypeOK, Outcomes

LEMMA SetReturns ==
  ASSUME IInv, WriteBurst \/ WriteStatus, pc' = "idle", ret'.st = "OK"
  PROVE  /\ ret'.call = "set"
         /\ clock' \in {Wanted, Later(Wanted)}
  <1>1. ~WriteBurst
    BY FailureReturns DEF WriteBurst, SetGoesOn, SetOrder, IInv, TypeOK, Fields
  <1>2. WriteStatus /\ pc = "write_status" /\ ret.call = "set" /\ clock' = clock
    BY <1>1 DEF WriteStatus, IInv, StepsFit
  <1>3. ret' = ret
    BY <1>2, FailureReturns DEF WriteStatus, SetGoesOn, SetOrder, Returns
  <1> QED
    BY <1>2, <1>3 DEF IInv, WriteFits

LEMMA OthersReturnNothing ==
  ASSUME IInv, [Second \/ Restart \/ PowerLoss]_vars, Inside, pc' = "idle"
  PROVE  ret'.call = "none"
  BY NotCalledFits
  DEF Second, Restart, PowerLoss, Returns, Inside, vars, chipVars, callVars

LEMMA CallsBegin ==
  ASSUME hexa_rv3032_get_time \/ hexa_rv3032_time_valid \/ hexa_rv3032_set_time
  PROVE  ~Inside
  BY DEF hexa_rv3032_get_time, hexa_rv3032_time_valid, hexa_rv3032_set_time, Calls, Inside

-----------------------------------------------------------------------------
(* The theorems.                                                           *)

(* The invariant holds.                                                    *)
THEOREM Invariance == Spec => []IInv
  <1>1. Init => IInv
    BY InitFits
  <1>2. IInv /\ [Next]_vars => IInv'
    BY StepKeeps
  <1> QED
    BY <1>1, <1>2, PTL DEF Spec

(* The registers of the clock, and everything read of them, stay within    *)
(* what they have room for.                                                *)
THEOREM TypeCorrect == Spec => []TypeOK
  <1>1. IInv => TypeOK
    BY DEF IInv
  <1> QED
    BY <1>1, Invariance, PTL

(* time_valid never answers true for a clock that has not been set since   *)
(* its power was lost, wherever set_time is cut short.                     *)
THEOREM ValidIsSet == Spec => []ValidMeansSet
  <1>1. IInv => ValidMeansSet
    BY DEF IInv, FlagFits, ValidMeansSet
  <1> QED
    BY <1>1, Invariance, PTL

(* get_time returns a time that the clock has shown during the call.       *)
THEOREM TimeIsWhole == Spec => TimeWasShown
  <1>1. ASSUME IInv, [Next]_vars, pc # "idle", pc' = "idle", ret'.call = "get", ret'.st = "OK"
        PROVE  ret'.dt \in {FullYear(t) : t \in shown}
    <2>1. CASE ReadBurst \/ ReadAgain
      BY <1>1, <2>1, GetReturns
    <2>2. CASE ReadStatus
      BY <1>1, <2>2, ValidReturns
    <2>3. CASE WriteBurst \/ WriteStatus
      BY <1>1, <2>3, SetReturns
    <2>4. CASE [Second \/ Restart \/ PowerLoss]_vars
      BY <1>1, <2>4, OthersReturnNothing DEF Inside
    <2> QED
      BY <1>1, <2>1, <2>2, <2>3, <2>4, CallsBegin DEF Next, Driver, Inside
  <1> QED
    BY <1>1, Invariance, PTL DEF Spec, TimeWasShown

(* After a set_time that returned HEXA_OK the clock shows what was asked,  *)
(* or a second more.                                                       *)
THEOREM TimeIsSet == Spec => SetTimeHolds
  <1>1. ASSUME IInv, [Next]_vars, pc # "idle", pc' = "idle", ret'.call = "set", ret'.st = "OK"
        PROVE  LET t == [asked EXCEPT ![7] = @ - 2000] IN clock' \in {t, Later(t)}
    <2>1. CASE ReadBurst \/ ReadAgain
      BY <1>1, <2>1, GetReturns
    <2>2. CASE ReadStatus
      BY <1>1, <2>2, ValidReturns
    <2>3. CASE WriteBurst \/ WriteStatus
      BY <1>1, <2>3, SetReturns DEF Wanted
    <2>4. CASE [Second \/ Restart \/ PowerLoss]_vars
      BY <1>1, <2>4, OthersReturnNothing DEF Inside
    <2> QED
      BY <1>1, <2>1, <2>2, <2>3, <2>4, CallsBegin DEF Next, Driver, Inside
  <1> QED
    BY <1>1, Invariance, PTL DEF Spec, SetTimeHolds
=============================================================================
