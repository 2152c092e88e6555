-------------------------- MODULE HexaSensorProofs --------------------------
(***************************************************************************)
(* Machine-checked facts about HexaSensor, for every set of sensors and    *)
(* every tick rate of which POLL_STEP_MS is a whole number of ticks.       *)
(***************************************************************************)
EXTENDS HexaSensor, TLAPS

-----------------------------------------------------------------------------
(* The inductive invariant.  The properties of the results need to know,   *)
(* for every step of a script, what the chip is doing.                     *)

(* The ticks that have passed and those still to be slept make up waited.  *)
TimeFits == \/ elapsed = MaxTicks
            \/ waited * TICK_RATE_HZ <= (elapsed + sleep) * 1000

(* A conversion that this job started, or that went on when it did, leaves *)
(* its result when it ends.                                                *)
ResultFits == /\ triggered = "yes" /\ ~busy => result = "new"
              /\ triggered = "ignored" /\ ~busy => result = "late"

ChipFits == /\ ResultFits
            /\ sensor = "bmp280" /\ job = "init" => triggered = "no"

(* As long as no job has failed no start finds the chip busy: AHT20 and    *)
(* BMP280 convert between the start of a measure and the end of its wait.  *)
CleanFits ==
  clean => /\ triggered # "ignored"
           /\ sensor # "vl53l0x" /\ busy => job = "measure" /\ at \in {2, 3}

(* Calibration is read only after the copy from NVM.                       *)
CalibFits == /\ calib # "garbage"
             /\ sensor = "bmp280" /\ job = "init" /\ at = 5 => ~im_update

(* AHT20 and BMP280: the frame is read only after a conversion that went   *)
(* on after this job's start has ended.                                    *)
FrameFits ==
  sensor # "vl53l0x" /\ job = "measure" =>
    /\ at > 1 => triggered # "no"
    /\ at = 4 => ~busy
    /\ at = 5 => got.status \in {"late", "new"} /\ got.value = got.status
    /\ at = 5 /\ clean => got.status = "new"

(* VL53L0X, as long as no job has failed: outside the steps between a      *)
(* start and its clear the chip is at rest and its flag down; in between   *)
(* the flag is up as soon as the conversion has ended.                     *)
AtRest == \/ job = "none"
          \/ job = "measure" /\ at \in {1, 2, 8}
          \/ job = "init" /\ at \in {1, 2, 3, 4, 7, 8, 11, 12}

Converts == \/ job = "measure" /\ at \in {3, 4}
            \/ job = "init" /\ at \in {5, 9}

RangeFits ==
  sensor = "vl53l0x" /\ clean =>
    /\ AtRest => ~busy /\ ~flag
    /\ Converts => (flag <=> ~busy)
    /\ ~AtRest /\ ~Converts => flag /\ ~busy
    /\ job = "measure" =>
         /\ at > 2 => triggered = "yes"
         /\ at > 5 => got.status = "new"
         /\ at > 6 => got.value = "new"

IInv == TypeOK /\ TimeFits /\ ChipFits /\ CleanFits /\ CalibFits /\ FrameFits /\ RangeFits

-----------------------------------------------------------------------------
(* Facts about the scripts and the delays.                                 *)

(* The place of every step in the script of VL53L0X's measure ...          *)
LEMMA RangeMeasureSteps ==
  ASSUME sensor = "vl53l0x", job = "measure", at \in 1 .. Len(Script) + 1
  PROVE  /\ Len(Script) = 7
         /\ \/ at = 1 /\ Step = "setup"
            \/ at = 2 /\ Step = "trigger"
            \/ at = 3 /\ Step = "pause"
            \/ at = 4 /\ Step = "wait"
            \/ at = 5 /\ Step = "status"
            \/ at = 6 /\ Step = "value"
            \/ at = 7 /\ Step = "clear"
            \/ at = 8 /\ Step = "return"
  BY DEF Script, Step, Measure

(* ... of its init ...                                                     *)
LEMMA RangeInitSteps ==
  ASSUME sensor = "vl53l0x", job = "init", at \in 1 .. Len(Script) + 1
  PROVE  /\ Len(Script) = 11
         /\ \/ at \in {1, 3, 7, 11} /\ Step = "setup"
            \/ at \in {2, 6, 10} /\ Step = "clear"
            \/ at \in {4, 8} /\ Step = "trigger"
            \/ at \in {5, 9} /\ Step = "wait"
            \/ at = 12 /\ Step = "return"
  BY DEF Script, Step, SetUp

(* ... and of the other sensors' measure and init.                         *)
LEMMA FrameMeasureSteps ==
  ASSUME sensor \in {"aht20", "bmp280"}, job = "measure",
         at \in 1 .. Len(Script) + 1
  PROVE  /\ Len(Script) = 4
         /\ \/ at = 1 /\ Step = "trigger"
            \/ at = 2 /\ Step = "pause"
            \/ at = 3 /\ Step = "wait"
            \/ at = 4 /\ Step = "frame"
            \/ at = 5 /\ Step = "return"
  BY DEF Script, Step, Measure

(* ... AHT20, which looks at its status twice ...                          *)
LEMMA HumidityInitSteps ==
  ASSUME sensor = "aht20", job = "init", at \in 1 .. Len(Script) + 1
  PROVE  /\ Len(Script) = 5
         /\ \/ at \in {1, 4} /\ Step = "pause"
            \/ at = 2 /\ Step = "probe"
            \/ at = 3 /\ Step = "setup"
            \/ at = 5 /\ Step = "check"
            \/ at = 6 /\ Step = "return"
  BY DEF Script, Step, SetUp

(* ... and BMP280, which is reset first.                                   *)
LEMMA PressureInitSteps ==
  ASSUME sensor = "bmp280", job = "init", at \in 1 .. Len(Script) + 1
  PROVE  /\ Len(Script) = 6
         /\ \/ at \in {1, 6} /\ Step = "setup"
            \/ at = 2 /\ Step = "reset"
            \/ at = 3 /\ Step = "pause"
            \/ at = 4 /\ Step = "wait"
            \/ at = 5 /\ Step = "calib"
            \/ at = 7 /\ Step = "return"
  BY DEF Script, Step, SetUp

(* Rounded down to ticks, no delay is longer than asked for, and a         *)
(* multiple of POLL_STEP_MS is exact (pdMS_TO_TICKS).                      *)
LEMMA TicksFit ==
  /\ \A ms \in {5, 10, 30, 80, 100} :
       /\ pdMS_TO_TICKS(ms) \in Nat
       /\ pdMS_TO_TICKS(ms) * 1000 <= 100 * TICK_RATE_HZ
  /\ \A ms \in {10, 30, 80} : pdMS_TO_TICKS(ms) * 1000 = ms * TICK_RATE_HZ
  BY TicksAssumption, StepAssumption DEF pdMS_TO_TICKS

(* Where the steps of each kind stand, and that a step which is not the    *)
(* last has a next one.                                                    *)
LEMMA Places ==
  ASSUME TypeOK, job # "none"
  PROVE  /\ at \in Nat
         /\ Step # "return" => at + 1 \in 1 .. Len(Script) + 1
         /\ Step = "trigger" =>
              \/ sensor = "vl53l0x" /\ job = "measure" /\ at = 2
              \/ sensor = "vl53l0x" /\ job = "init" /\ at \in {4, 8}
              \/ sensor # "vl53l0x" /\ job = "measure" /\ at = 1
         /\ Step = "wait" =>
              \/ sensor = "vl53l0x" /\ job = "measure" /\ at = 4
              \/ sensor = "vl53l0x" /\ job = "init" /\ at \in {5, 9}
              \/ sensor # "vl53l0x" /\ job = "measure" /\ at = 3
              \/ sensor = "bmp280" /\ job = "init" /\ at = 4
         /\ Step = "pause" =>
              \/ sensor = "vl53l0x" /\ job = "measure" /\ at = 3
              \/ sensor # "vl53l0x" /\ job = "measure" /\ at = 2
              \/ sensor = "aht20" /\ job = "init" /\ at \in {1, 4}
              \/ sensor = "bmp280" /\ job = "init" /\ at = 3
         /\ Step = "setup" =>
              \/ sensor = "vl53l0x" /\ job = "measure" /\ at = 1
              \/ sensor = "vl53l0x" /\ job = "init" /\ at \in {1, 3, 7, 11}
              \/ sensor = "aht20" /\ job = "init" /\ at = 3
              \/ sensor = "bmp280" /\ job = "init" /\ at \in {1, 6}
         /\ Step = "clear" =>
              \/ sensor = "vl53l0x" /\ job = "measure" /\ at = 7
              \/ sensor = "vl53l0x" /\ job = "init" /\ at \in {2, 6, 10}
         /\ Step = "status" => sensor = "vl53l0x" /\ job = "measure" /\ at = 5
         /\ Step = "value"  => sensor = "vl53l0x" /\ job = "measure" /\ at = 6
         /\ Step = "frame"  => sensor # "vl53l0x" /\ job = "measure" /\ at = 4
         /\ Step = "reset"  => sensor = "bmp280" /\ job = "init" /\ at = 2
         /\ Step = "calib"  => sensor = "bmp280" /\ job = "init" /\ at = 5
         /\ Step = "probe"  => sensor = "aht20" /\ job = "init" /\ at = 2
         /\ Step = "check"  => sensor = "aht20" /\ job = "init" /\ at = 5
         /\ Step = "return" =>
              \/ sensor = "vl53l0x" /\ job = "measure" /\ at = 8
              \/ sensor = "vl53l0x" /\ job = "init" /\ at = 12
              \/ sensor # "vl53l0x" /\ job = "measure" /\ at = 5
              \/ sensor = "aht20" /\ job = "init" /\ at = 6
              \/ sensor = "bmp280" /\ job = "init" /\ at = 7
  <1>1. /\ at \in 1 .. Len(Script) + 1
        /\ sensor \in {"vl53l0x", "aht20", "bmp280"}
        /\ job \in {"init", "measure"}
    BY SensorsAssumption DEF TypeOK, AllSensors
  <1>2. CASE sensor = "vl53l0x" /\ job = "measure"
    BY <1>1, <1>2, RangeMeasureSteps, SMTT(40)
  <1>3. CASE sensor = "vl53l0x" /\ job = "init"
    BY <1>1, <1>3, RangeInitSteps, SMTT(40)
  <1>4. CASE sensor \in {"aht20", "bmp280"} /\ job = "measure"
    BY <1>1, <1>4, FrameMeasureSteps
  <1>5. CASE sensor = "aht20" /\ job = "init"
    BY <1>1, <1>5, HumidityInitSteps
  <1>6. CASE sensor = "bmp280" /\ job = "init"
    BY <1>1, <1>6, PressureInitSteps, SMTT(40)
  <1>. QED
    BY <1>1, <1>2, <1>3, <1>4, <1>5, <1>6

(* Arithmetic of ticks and milliseconds (SMT needs it in small pieces).    *)
LEMMA ExactTicks ==
  ASSUME NEW x, NEW s \in Nat, x = s * 1000
  PROVE  x <= s * 1000
  OBVIOUS

(* Ticks passed only add to those still to come.                           *)
LEMMA MoreTicks ==
  ASSUME NEW x \in Nat, NEW e \in Nat, NEW s \in Nat, x <= s * 1000
  PROVE  x <= (e + s) * 1000
  OBVIOUS

(* One more turn of the wait loop adds as much to waited as to the sleep.  *)
LEMMA OneMorePoll ==
  ASSUME NEW w \in Nat, NEW e \in Nat, NEW s \in Nat,
         w * TICK_RATE_HZ <= (e + 0) * 1000, s * 1000 = 10 * TICK_RATE_HZ
  PROVE  (w + 10) * TICK_RATE_HZ <= (e + s) * 1000
  BY TicksAssumption

(* What is over by tick a is over by any later tick.                       *)
LEMMA LaterStill ==
  ASSUME NEW x \in Nat, NEW a \in Nat, NEW b \in Nat, x <= a * 1000, a <= b
  PROVE  x <= b * 1000
  OBVIOUS

(* Sums of ticks are ticks.                                                *)
LEMMA SumOfNats == \A a, b \in Nat : a + b \in Nat
  OBVIOUS

(* A sleep that is cut by a tick keeps its bound.                          *)
LEMMA ShorterStill ==
  ASSUME NEW a \in Nat, NEW b \in Nat, a <= b, b * 1000 <= 100 * TICK_RATE_HZ
  PROVE  a * 1000 <= 100 * TICK_RATE_HZ
  BY TicksAssumption

(* A longer time is at least as many ticks.                                *)
LEMMA LongerTakesLonger ==
  ASSUME NEW v \in Nat, NEW w \in Nat, v < w
  PROVE  w * TICK_RATE_HZ >= v * TICK_RATE_HZ
  BY TicksAssumption

-----------------------------------------------------------------------------
(* The invariant is inductive.                                             *)

(* Before the first call the chip is at rest.                              *)
LEMMA InitIInv == Init => IInv
  <1> SUFFICES ASSUME Init PROVE IInv
    OBVIOUS
  <1>1. TypeOK
    <2>1. at \in 1 .. Len(Script) + 1
      BY DEF Init, Script
    <2>2. waited \in 0 .. TIMEOUT_MS + POLL_STEP_MS
      BY DEF Init, TIMEOUT_MS, POLL_STEP_MS
    <2>3. sleep \in Nat /\ sleep * 1000 <= 100 * TICK_RATE_HZ /\ elapsed \in 0 .. MaxTicks
      BY TicksAssumption DEF Init
    <2>. QED
      BY <2>1, <2>2, <2>3 DEF Init, TypeOK, NoResult, Results
  <1>2. TimeFits
    BY TicksAssumption DEF Init, TimeFits
  <1>. QED
    BY <1>1, <1>2
    DEF Init, IInv, ChipFits, ResultFits, CleanFits, CalibFits, FrameFits,
        RangeFits, AtRest, Converts

(* A job may end at any step, if the chip keeps to ChipFits; one that ends *)
(* well must leave the chip of VL53L0X at rest.                            *)
LEMMA EndsIInv ==
  ASSUME IInv, job # "none", NEW s \in {"OK", "ERR", "ERR_BUS", "ERR_TIMEOUT"},
         Ends(s), UNCHANGED <<sensor, elapsed, got, calib>>,
         busy' \in BOOLEAN, flag' \in BOOLEAN, im_update' \in BOOLEAN,
         triggered' \in {"no", "ignored", "yes"}, result' \in Results, ResultFits',
         clean /\ s \in {"OK", "ERR"} =>
           ~busy' /\ triggered' # "ignored" /\ (sensor = "vl53l0x" => ~flag')
  PROVE  IInv'
  <1>1. TypeOK'
    <2>1. Script' = << >> /\ at' = 1
      BY DEF Ends, Script
    <2>2. waited' \in 0 .. TIMEOUT_MS' + POLL_STEP_MS'
      BY DEF Ends, TIMEOUT_MS, POLL_STEP_MS
    <2>. QED
      BY <2>1, <2>2 DEF IInv, TypeOK, Ends
  <1>2. TimeFits'
    BY TicksAssumption DEF IInv, TypeOK, TimeFits, Ends
  <1>. QED
    BY <1>1, <1>2
    DEF IInv, TypeOK, ChipFits, ResultFits, CleanFits, CalibFits, FrameFits,
        RangeFits, AtRest, Converts, Ends

(* The type invariant after a step that goes on in the script.             *)
LEMMA GoesTypeOK ==
  ASSUME TypeOK, job # "none", Step # "return", NextStep,
         UNCHANGED <<sensor, job, elapsed, st, clean>>,
         waited' \in {0, waited, WaitedFrom}, sleep' \in Nat,
         sleep' * 1000 <= 100 * TICK_RATE_HZ,
         got' \in [status : {"none"} \cup Results, value : {"none"} \cup Results],
         calib' \in {"unset", "loaded", "garbage"},
         busy' \in BOOLEAN, flag' \in BOOLEAN, im_update' \in BOOLEAN,
         triggered' \in {"no", "ignored", "yes"}, result' \in Results
  PROVE  TypeOK'
  <1>1. at' \in 1 .. Len(Script)' + 1
    <2>1. Script' = Script
      BY DEF Script, Measure, SetUp
    <2>. QED
      BY <2>1, Places DEF NextStep
  <1>2. waited' \in 0 .. TIMEOUT_MS' + POLL_STEP_MS'
    <2>1. waited \in 0 .. TIMEOUT_MS + POLL_STEP_MS /\ TIMEOUT_MS' = TIMEOUT_MS
      BY DEF TypeOK, TIMEOUT_MS
    <2>2. WaitedFrom \in 0 .. TIMEOUT_MS + POLL_STEP_MS
      BY DEF WaitedFrom, PauseMs, TIMEOUT_MS, POLL_STEP_MS
    <2>. QED
      BY <2>1, <2>2 DEF POLL_STEP_MS, TIMEOUT_MS
  <1>. QED
    BY <1>1, <1>2 DEF TypeOK

(* One lemma per action.  A transfer that fails ends the job (EndsIInv).   *)
LEMMA FailsIInv ==
  ASSUME IInv, job # "none", Fails, UNCHANGED <<sensor, elapsed>>,
         busy' \in BOOLEAN, flag' \in BOOLEAN, im_update' \in BOOLEAN,
         triggered' \in {"no", "ignored", "yes"}, result' \in Results, ResultFits'
  PROVE  IInv'
  BY EndsIInv DEF Fails

(* A step that changes neither chip nor results keeps what is known of     *)
(* them, except what depends on the place in the script.                   *)
LEMMA TransferIInv == ASSUME IInv, Transfer PROVE IInv'
  <1>1. job # "none" /\ Step = "setup"
    BY DEF Transfer, Runs
  <1>2. CASE Fails
    BY <1>1, <1>2, FailsIInv
    DEF Transfer, IInv, TypeOK, ChipFits, ResultFits, chipVars
  <1>3. CASE WrongChip
    <2>1. ResultFits'
      BY <1>3 DEF Transfer, WrongChip, IInv, ChipFits, ResultFits, chipVars
    <2>2. clean => ~busy' /\ triggered' # "ignored" /\ (sensor = "vl53l0x" => ~flag')
      BY <1>3 DEF Transfer, WrongChip, IInv, CleanFits, RangeFits, AtRest, chipVars
    <2>. QED
      BY <1>1, <1>3, <2>1, <2>2, EndsIInv
      DEF Transfer, WrongChip, IInv, TypeOK, chipVars
  <1>4. CASE NextStep /\ Goes /\ UNCHANGED <<got, calib>>
    <2>1. TypeOK'
      BY <1>1, <1>4, GoesTypeOK DEF Transfer, Goes, IInv, TypeOK, chipVars
    <2>2. TimeFits'
      BY <1>4 DEF Transfer, Goes, IInv, TimeFits
    <2>. QED
      BY <1>1, <1>4, <2>1, <2>2, Places
      DEF Transfer, Goes, NextStep, IInv, ChipFits, ResultFits, CleanFits,
          CalibFits, FrameFits, RangeFits, AtRest, Converts, chipVars
  <1>. QED
    BY <1>2, <1>3, <1>4 DEF Transfer

(* vTaskDelay: the sleep is what waited is set to.                         *)
LEMMA DelayIInv == ASSUME IInv, hexa_delay_ms PROVE IInv'
  <1>1. job # "none" /\ Step = "pause" /\ sleep = 0
    BY DEF hexa_delay_ms, Runs
  <1>2. PauseMs \in {5, 10, 30, 80, 100}
    BY DEF PauseMs
  <1>3. /\ sleep' \in Nat
        /\ sleep' * 1000 <= 100 * TICK_RATE_HZ
        /\ PauseMs \in {10, 30, 80} => sleep' * 1000 = PauseMs * TICK_RATE_HZ
    BY <1>2, TicksFit DEF hexa_delay_ms
  <1>4. TypeOK'
    BY <1>1, <1>3, GoesTypeOK DEF hexa_delay_ms, IInv, TypeOK, chipVars
  <1>5. TimeFits'
    <2>1. waited' = WaitedFrom /\ elapsed' = elapsed /\ elapsed \in Nat
      BY TicksAssumption DEF hexa_delay_ms, IInv, TypeOK
    <2>2. WaitedFrom * TICK_RATE_HZ <= sleep' * 1000
      <3>1. CASE job = "measure"
        <4>1. PauseMs \in {10, 30, 80} /\ WaitedFrom = PauseMs
          BY <3>1 DEF PauseMs, WaitedFrom
        <4>2. WaitedFrom * TICK_RATE_HZ = sleep' * 1000
          BY <1>3, <4>1
        <4>3. sleep' \in Nat
          BY <1>3
        <4>. QED
          BY <4>2, <4>3, ExactTicks
      <3>2. CASE job # "measure"
        <4>1. WaitedFrom = 0
          BY <3>2 DEF WaitedFrom
        <4>2. WaitedFrom * TICK_RATE_HZ = 0
          BY <4>1, TicksAssumption
        <4>. QED
          BY <1>3, <4>2
      <3>. QED
        BY <3>1, <3>2
    <2>3. WaitedFrom * TICK_RATE_HZ \in Nat
      BY <1>2, TicksAssumption DEF WaitedFrom
    <2>. QED
      BY <1>3, <2>1, <2>2, <2>3, MoreTicks DEF TimeFits
  <1>. QED
    BY <1>1, <1>4, <1>5, Places
    DEF hexa_delay_ms, NextStep, IInv, ChipFits, ResultFits, CleanFits,
        CalibFits, FrameFits, RangeFits, AtRest, Converts, chipVars

(* A start makes the chip busy, and its result is not there yet.           *)
LEMMA StartIInv == ASSUME IInv, hexa_start PROVE IInv'
  <1>1. job # "none" /\ Step = "trigger"
    BY DEF hexa_start, Runs
  <1>2. CASE Fails
    <2>1. /\ UNCHANGED <<sensor, elapsed, flag, im_update>>
          /\ \/ UNCHANGED <<busy, result, triggered>>
             \/ busy' = TRUE /\ result' = "old" /\ triggered' \in {"ignored", "yes"}
      BY DEF hexa_start, chipVars
    <2>2. /\ busy' \in BOOLEAN /\ flag' \in BOOLEAN /\ im_update' \in BOOLEAN
          /\ triggered' \in {"no", "ignored", "yes"} /\ result' \in Results
      BY <2>1 DEF IInv, TypeOK, Results
    <2>3. ResultFits'
      BY <2>1 DEF IInv, ChipFits, ResultFits
    <2>. QED
      BY <1>1, <1>2, <2>1, <2>2, <2>3, FailsIInv
  <1>3. CASE /\ NextStep /\ Goes /\ UNCHANGED <<got, calib>>
             /\ busy' = TRUE /\ result' = "old"
             /\ triggered' \in IF busy THEN {"ignored", "yes"} ELSE {"yes"}
             /\ UNCHANGED <<flag, im_update>>
    <2>1. TypeOK'
      <3>1. triggered' \in {"no", "ignored", "yes"} /\ result' \in Results
        BY <1>3 DEF Results
      <3>. QED
        BY <1>1, <1>3, <3>1, GoesTypeOK DEF hexa_start, Goes, IInv, TypeOK
    <2>2. TimeFits'
      BY <1>3 DEF hexa_start, Goes, IInv, TimeFits
    <2>. QED
      BY <1>1, <1>3, <2>1, <2>2, Places
      DEF hexa_start, Goes, NextStep, IInv, ChipFits, ResultFits, CleanFits,
          CalibFits, FrameFits, RangeFits, AtRest, Converts
  <1>. QED
    BY <1>2, <1>3 DEF hexa_start

(* Clearing the flag brings VL53L0X back to rest.                          *)
LEMMA ClearIInv == ASSUME IInv, ClearFlag PROVE IInv'
  <1>1. job # "none" /\ Step = "clear"
    BY DEF ClearFlag, Runs
  <1>2. CASE Fails
    BY <1>1, <1>2, FailsIInv DEF ClearFlag, IInv, TypeOK, ChipFits, ResultFits
  <1>3. CASE NextStep /\ Goes /\ UNCHANGED <<got, calib>> /\ flag' = FALSE
    <2>1. TypeOK'
      <3>1. /\ busy' \in BOOLEAN /\ flag' \in BOOLEAN /\ im_update' \in BOOLEAN
            /\ triggered' \in {"no", "ignored", "yes"} /\ result' \in Results
        BY <1>3 DEF ClearFlag, IInv, TypeOK
      <3>. QED
        BY <1>1, <1>3, <3>1, GoesTypeOK DEF ClearFlag, Goes, IInv, TypeOK
    <2>2. TimeFits'
      BY <1>3 DEF ClearFlag, Goes, IInv, TimeFits
    <2>. QED
      BY <1>1, <1>3, <2>1, <2>2, Places
      DEF ClearFlag, Goes, NextStep, IInv, ChipFits, ResultFits, CleanFits,
          CalibFits, FrameFits, RangeFits, AtRest, Converts
  <1>. QED
    BY <1>2, <1>3 DEF ClearFlag

(* The reset begins a copy of the calibration; no conversion is awaited.   *)
LEMMA ResetIInv == ASSUME IInv, Reset PROVE IInv'
  <1>1. job # "none" /\ sensor = "bmp280" /\ job = "init" /\ at = 2 /\ Step = "reset"
    BY Places DEF Reset, Runs, IInv
  <1>2. CASE Fails
    BY <1>1, <1>2, FailsIInv DEF Reset, IInv, TypeOK, ChipFits, ResultFits
  <1>3. CASE /\ NextStep /\ Goes /\ UNCHANGED <<got, calib>>
             /\ busy' = FALSE /\ im_update' = TRUE
    <2>1. TypeOK'
      <3>1. /\ busy' \in BOOLEAN /\ flag' \in BOOLEAN /\ im_update' \in BOOLEAN
            /\ triggered' \in {"no", "ignored", "yes"} /\ result' \in Results
        BY <1>3 DEF Reset, IInv, TypeOK
      <3>. QED
        BY <1>1, <1>3, <3>1, GoesTypeOK DEF Reset, Goes, IInv, TypeOK
    <2>2. TimeFits'
      BY <1>3 DEF Reset, Goes, IInv, TimeFits
    <2>. QED
      BY <1>1, <1>3, <2>1, <2>2, Places
      DEF Reset, Goes, NextStep, IInv, ChipFits, ResultFits, CleanFits,
          CalibFits, FrameFits, RangeFits, AtRest, Converts
  <1>. QED
    BY <1>2, <1>3 DEF Reset

(* One turn of the loop: the chip is ready, or the loop sleeps for one     *)
(* more POLL_STEP_MS, or it gives up.                                      *)
LEMMA WaitLoopIInv == ASSUME IInv, WaitLoop PROVE IInv'
  <1>1. job # "none" /\ Step = "wait" /\ sleep = 0
    BY DEF WaitLoop, Runs
  <1>2. CASE Fails
    BY <1>1, <1>2, FailsIInv
    DEF WaitLoop, IInv, TypeOK, ChipFits, ResultFits, chipVars
  <1>3. CASE Ends("ERR_TIMEOUT") /\ UNCHANGED <<got, calib>>
    BY <1>1, <1>3, EndsIInv
    DEF WaitLoop, IInv, TypeOK, ChipFits, ResultFits, chipVars
  <1>4. CASE /\ Ready /\ NextStep /\ waited' = 0 /\ UNCHANGED sleep
             /\ UNCHANGED <<job, st, clean, got, calib>>
    <2>1. TypeOK'
      BY <1>1, <1>4, GoesTypeOK DEF WaitLoop, IInv, TypeOK, chipVars
    <2>2. TimeFits'
      <3>1. /\ elapsed' = elapsed /\ elapsed \in Nat
            /\ sleep' = 0 /\ waited' = 0
        BY <1>1, <1>4, TicksAssumption DEF WaitLoop, IInv, TypeOK
      <3>. QED
        BY <3>1, TicksAssumption DEF TimeFits
    <2>3. ChipFits' /\ CleanFits'
      BY <1>1, <1>4, Places
      DEF WaitLoop, Ready, NextStep, IInv, TypeOK, ChipFits, ResultFits,
          CleanFits, chipVars
    <2>4. CalibFits' /\ FrameFits'
      BY <1>1, <1>4, Places
      DEF WaitLoop, Ready, NextStep, IInv, TypeOK, CalibFits, FrameFits,
          chipVars
    <2>5. RangeFits'
      BY <1>1, <1>4, Places
      DEF WaitLoop, Ready, NextStep, IInv, TypeOK, RangeFits, AtRest, Converts,
          chipVars
    <2>. QED
      BY <2>1, <2>2, <2>3, <2>4, <2>5 DEF IInv
  <1>5. CASE /\ waited <= TIMEOUT_MS
             /\ sleep' = pdMS_TO_TICKS(POLL_STEP_MS)
             /\ waited' = WaitedNext
             /\ UNCHANGED <<at, job, st, clean, got, calib>>
    <2>1. /\ sleep' \in Nat
          /\ sleep' * 1000 <= 100 * TICK_RATE_HZ
          /\ sleep' * 1000 = 10 * TICK_RATE_HZ
      BY <1>5, TicksFit DEF POLL_STEP_MS
    <2>2. waited' = waited + 10 /\ waited \in Nat
      BY <1>5 DEF IInv, TypeOK, WaitedNext, POLL_STEP_MS, TIMEOUT_MS
    <2>3. TypeOK'
      <3>1. Script' = Script
        BY <1>5 DEF WaitLoop, Script, Measure, SetUp
      <3>2. waited' \in 0 .. TIMEOUT_MS' + POLL_STEP_MS'
        BY <1>5, <2>2 DEF WaitLoop, TIMEOUT_MS, POLL_STEP_MS
      <3>. QED
        BY <1>5, <2>1, <3>1, <3>2 DEF WaitLoop, IInv, TypeOK, chipVars
    <2>4. TimeFits'
      <3>1. elapsed' = elapsed /\ elapsed \in Nat
        BY TicksAssumption DEF WaitLoop, IInv, TypeOK
      <3>2. CASE elapsed = MaxTicks
        BY <3>1, <3>2 DEF TimeFits
      <3>3. CASE waited * TICK_RATE_HZ <= (elapsed + 0) * 1000
        <4>1. (waited + 10) * TICK_RATE_HZ <= (elapsed + sleep') * 1000
          BY <2>1, <2>2, <3>1, <3>3, OneMorePoll
        <4>. QED
          BY <2>2, <3>1, <4>1 DEF TimeFits
      <3>. QED
        BY <1>1, <3>2, <3>3 DEF IInv, TimeFits
    <2>. QED
      BY <1>5, <2>3, <2>4
      DEF WaitLoop, IInv, ChipFits, ResultFits, CleanFits, CalibFits,
          FrameFits, RangeFits, AtRest, Converts, chipVars
  <1>. QED
    BY <1>2, <1>3, <1>4, <1>5 DEF WaitLoop

(* What the reads deliver is what the chip has converted.                  *)
LEMMA ReadStatusIInv == ASSUME IInv, ReadStatus PROVE IInv'
  <1>1. job # "none" /\ Step = "status"
    BY DEF ReadStatus, Runs
  <1>2. CASE Fails
    BY <1>1, <1>2, FailsIInv
    DEF ReadStatus, IInv, TypeOK, ChipFits, ResultFits, chipVars
  <1>3. CASE /\ NextStep /\ Goes /\ UNCHANGED calib
             /\ got' = [got EXCEPT !.status = result]
    <2>1. TypeOK'
      BY <1>1, <1>3, GoesTypeOK DEF ReadStatus, Goes, IInv, TypeOK, chipVars
    <2>2. TimeFits'
      BY <1>3 DEF ReadStatus, Goes, IInv, TimeFits
    <2>. QED
      BY <1>1, <1>3, <2>1, <2>2, Places
      DEF ReadStatus, Goes, NextStep, IInv, TypeOK, ChipFits, ResultFits,
          CleanFits, CalibFits, FrameFits, RangeFits, AtRest, Converts,
          chipVars
  <1>. QED
    BY <1>2, <1>3 DEF ReadStatus

(* hexa_vl53l0x_get: the range itself.                                     *)
LEMMA ReadValueIInv == ASSUME IInv, ReadValue PROVE IInv'
  <1>1. job # "none" /\ Step = "value"
    BY DEF ReadValue, Runs
  <1>2. CASE Fails
    BY <1>1, <1>2, FailsIInv
    DEF ReadValue, IInv, TypeOK, ChipFits, ResultFits, chipVars
  <1>3. CASE /\ NextStep /\ Goes /\ UNCHANGED calib
             /\ got' = [got EXCEPT !.value = result]
    <2>1. TypeOK'
      BY <1>1, <1>3, GoesTypeOK DEF ReadValue, Goes, IInv, TypeOK, chipVars
    <2>2. TimeFits'
      BY <1>3 DEF ReadValue, Goes, IInv, TimeFits
    <2>. QED
      BY <1>1, <1>3, <2>1, <2>2, Places
      DEF ReadValue, Goes, NextStep, IInv, TypeOK, ChipFits, ResultFits,
          CleanFits, CalibFits, FrameFits, RangeFits, AtRest, Converts,
          chipVars
  <1>. QED
    BY <1>2, <1>3 DEF ReadValue

(* AHT20 and BMP280: the whole frame, when the chip is not busy.           *)
LEMMA ReadFrameIInv == ASSUME IInv, ReadFrame PROVE IInv'
  <1>1. job # "none" /\ Step = "frame"
    BY DEF ReadFrame, Runs
  <1>2. CASE Fails
    BY <1>1, <1>2, FailsIInv
    DEF ReadFrame, IInv, TypeOK, ChipFits, ResultFits, chipVars
  <1>3. CASE sensor = "aht20" /\ Ends("ERR") /\ UNCHANGED <<got, calib>>
    <2>1. ~busy /\ (clean => triggered # "ignored")
      BY <1>1, Places DEF IInv, FrameFits, CleanFits
    <2>. QED
      BY <1>1, <1>3, <2>1, EndsIInv
      DEF ReadFrame, IInv, TypeOK, ChipFits, ResultFits, chipVars
  <1>4. CASE /\ got' = [status |-> result, value |-> result]
             /\ NextStep /\ Goes /\ UNCHANGED calib
    <2>1. TypeOK'
      BY <1>1, <1>4, GoesTypeOK DEF ReadFrame, Goes, IInv, TypeOK, chipVars
    <2>2. TimeFits'
      BY <1>4 DEF ReadFrame, Goes, IInv, TimeFits
    <2>. QED
      BY <1>1, <1>4, <2>1, <2>2, Places
      DEF ReadFrame, Goes, NextStep, IInv, TypeOK, ChipFits, ResultFits,
          CleanFits, CalibFits, FrameFits, RangeFits, AtRest, Converts,
          chipVars
  <1>. QED
    BY <1>2, <1>3, <1>4 DEF ReadFrame

(* bmp280_read_calib comes after the wait for the copy.                    *)
LEMMA ReadCalibIInv == ASSUME IInv, ReadCalib PROVE IInv'
  <1>1. job # "none" /\ Step = "calib"
    BY DEF ReadCalib, Runs
  <1>2. CASE Fails
    BY <1>1, <1>2, FailsIInv
    DEF ReadCalib, IInv, TypeOK, ChipFits, ResultFits, chipVars
  <1>3. CASE /\ calib' = IF im_update THEN "garbage" ELSE "loaded"
             /\ NextStep /\ Goes /\ UNCHANGED got
    <2>1. TypeOK'
      BY <1>1, <1>3, GoesTypeOK DEF ReadCalib, Goes, IInv, TypeOK, chipVars
    <2>2. TimeFits'
      BY <1>3 DEF ReadCalib, Goes, IInv, TimeFits
    <2>. QED
      BY <1>1, <1>3, <2>1, <2>2, Places
      DEF ReadCalib, Goes, NextStep, IInv, TypeOK, ChipFits, ResultFits,
          CleanFits, CalibFits, FrameFits, RangeFits, AtRest, Converts,
          chipVars
  <1>. QED
    BY <1>2, <1>3 DEF ReadCalib

(* AHT20 converts nothing during its init.                                 *)
LEMMA LookForCalIInv == ASSUME IInv, LookForCal PROVE IInv'
  <1>1. job # "none" /\ sensor = "aht20" /\ job = "init" /\ Step \in {"probe",
  "check"}
    BY Places DEF LookForCal, Runs, IInv
  <1>2. CASE Fails
    BY <1>1, <1>2, FailsIInv
    DEF LookForCal, IInv, TypeOK, ChipFits, ResultFits, chipVars
  <1>3. ASSUME NEW s \in {"OK", "ERR"}, Ends(s), UNCHANGED <<got, calib>>
        PROVE  IInv'
    <2>1. clean => ~busy /\ triggered # "ignored"
      BY <1>1 DEF IInv, CleanFits
    <2>. QED
      BY <1>1, <1>3, <2>1, EndsIInv
      DEF LookForCal, IInv, TypeOK, ChipFits, ResultFits, chipVars
  <1>4. CASE NextStep /\ Goes /\ UNCHANGED <<got, calib>>
    <2>1. TypeOK'
      BY <1>1, <1>4, GoesTypeOK DEF LookForCal, Goes, IInv, TypeOK, chipVars
    <2>2. TimeFits'
      BY <1>4 DEF LookForCal, Goes, IInv, TimeFits
    <2>. QED
      BY <1>1, <1>4, <2>1, <2>2, Places
      DEF LookForCal, Goes, NextStep, IInv, ChipFits, ResultFits, CleanFits,
          CalibFits, FrameFits, RangeFits, AtRest, Converts, chipVars
  <1>. QED
    BY <1>2, <1>3, <1>4 DEF LookForCal

(* A script that has been gone through leaves the chip at rest.            *)
LEMMA ReturnIInv == ASSUME IInv, Return PROVE IInv'
  <1>1. job # "none" /\ Step = "return"
    BY DEF Return, Runs
  <1>2. PICK s \in {"OK", "ERR"} : Ends(s)
    BY DEF Return
  <1>3. clean => ~busy /\ triggered # "ignored" /\ (sensor = "vl53l0x" => ~flag)
    BY <1>1, Places DEF IInv, CleanFits, RangeFits, AtRest
  <1>. QED
    BY <1>1, <1>2, <1>3, EndsIInv
    DEF Return, IInv, TypeOK, ChipFits, ResultFits, chipVars

(* A call begins with everything of the last one forgotten.                *)
LEMMA CallIInv ==
  ASSUME IInv, NEW j \in {"init", "measure"}, Call(j)
  PROVE  IInv'
  <1>1. TypeOK'
    <2>1. at' \in 1 .. Len(Script)' + 1
      <3>1. Script' \in {Measure', SetUp'}
        BY DEF Call, Script
      <3>2. Len(Measure') \in Nat /\ Len(SetUp') \in Nat
        BY DEF Measure, SetUp
      <3>3. at' = 1 /\ Len(Script)' \in Nat
        BY <3>1, <3>2 DEF Call
      <3>. QED
        BY <3>3
    <2>2. waited' \in 0 .. TIMEOUT_MS' + POLL_STEP_MS'
      BY DEF Call, TIMEOUT_MS, POLL_STEP_MS
    <2>3. got' \in [status : {"none"} \cup Results, value : {"none"} \cup Results]
      BY DEF Call, NoResult
    <2>4. elapsed' \in 0 .. MaxTicks
      BY TicksAssumption DEF Call
    <2>5. /\ job' \in {"none", "init", "measure"}
          /\ triggered' \in {"no", "ignored", "yes"}
          /\ UNCHANGED <<sensor, sleep, st, calib, busy, flag, im_update, result, clean>>
      BY DEF Call
    <2>. QED
      BY <2>1, <2>2, <2>3, <2>4, <2>5 DEF IInv, TypeOK
  <1>2. TimeFits'
    BY TicksAssumption DEF Call, IInv, TypeOK, TimeFits
  <1>. QED
    BY <1>1, <1>2
    DEF Call, IInv, TypeOK, ChipFits, ResultFits, CleanFits, CalibFits,
        FrameFits, RangeFits, AtRest, Converts

(* A tick moves one from the sleep to the ticks elapsed.                   *)
LEMMA TickIInv == ASSUME IInv, Tick PROVE IInv'
  <1>1. /\ elapsed \in 0 .. MaxTicks /\ elapsed' \in 0 .. MaxTicks
        /\ elapsed \in Nat /\ elapsed' \in Nat
        /\ sleep \in Nat /\ sleep' \in Nat /\ sleep' <= sleep
    BY TicksAssumption DEF Tick, IInv, TypeOK
  <1>2. TypeOK'
    <2>1. Script' = Script /\ TIMEOUT_MS' = TIMEOUT_MS
      BY DEF Tick, Script, Measure, SetUp, TIMEOUT_MS
    <2>2. sleep' * 1000 <= 100 * TICK_RATE_HZ
      <3>1. sleep * 1000 <= 100 * TICK_RATE_HZ
        BY DEF IInv, TypeOK
      <3>. QED
        BY <1>1, <3>1, ShorterStill
    <2>. QED
      BY <1>1, <2>1, <2>2 DEF Tick, IInv, TypeOK, chipVars, POLL_STEP_MS
  <1>3. TimeFits'
    <2>1. CASE elapsed = MaxTicks
      BY <2>1, TicksAssumption DEF Tick, TimeFits
    <2>2. CASE elapsed < MaxTicks
      <3>1. elapsed' + sleep' >= elapsed + sleep
        BY <1>1, <2>2 DEF Tick
      <3>2. waited * TICK_RATE_HZ <= (elapsed + sleep) * 1000
        BY <1>1, <2>2, TicksAssumption DEF IInv, TimeFits
      <3>3. waited \in Nat
        BY DEF IInv, TypeOK, TIMEOUT_MS, POLL_STEP_MS
      <3>4. waited * TICK_RATE_HZ \in Nat
        BY <3>3, TicksAssumption
      <3>5. elapsed + sleep \in Nat /\ elapsed' + sleep' \in Nat
        BY <1>1, SumOfNats
      <3>6. waited * TICK_RATE_HZ <= (elapsed' + sleep') * 1000
        BY <3>1, <3>2, <3>4, <3>5, LaterStill
      <3>. QED
        BY <3>6 DEF Tick, TimeFits
    <2>. QED
      BY <1>1, <2>1, <2>2, TicksAssumption
  <1>. QED
    BY <1>2, <1>3
    DEF Tick, IInv, ChipFits, ResultFits, CleanFits, CalibFits, FrameFits,
        RangeFits, AtRest, Converts, chipVars

(* The chip ends a conversion or the copy of its calibration.              *)
LEMMA ChipIInv == ASSUME IInv, Chip PROVE IInv'
  <1>1. UNCHANGED <<sensor, jobVars>>
    BY DEF Chip, ConversionEnds, CopyEnds
  <1>2. TypeOK'
    <2>1. Script' = Script /\ TIMEOUT_MS' = TIMEOUT_MS
      BY <1>1 DEF jobVars, Script, Measure, SetUp, TIMEOUT_MS
    <2>2. /\ busy' \in BOOLEAN /\ flag' \in BOOLEAN /\ im_update' \in BOOLEAN
          /\ triggered' \in {"no", "ignored", "yes"} /\ result' \in Results
      BY DEF Chip, ConversionEnds, CopyEnds, IInv, TypeOK, Results
    <2>. QED
      BY <1>1, <2>1, <2>2 DEF jobVars, IInv, TypeOK, POLL_STEP_MS
  <1>3. TimeFits'
    BY <1>1 DEF jobVars, IInv, TimeFits
  <1>. QED
    BY <1>1, <1>2, <1>3
    DEF jobVars, Chip, ConversionEnds, CopyEnds, IInv, TypeOK, ChipFits,
        ResultFits, CleanFits, CalibFits, FrameFits, RangeFits, AtRest,
        Converts

(* All steps together.                                                     *)
LEMMA NextIInv == ASSUME IInv, [Next]_vars PROVE IInv'
  <1>1. CASE Driver
    BY <1>1, DelayIInv, TransferIInv, StartIInv, ClearIInv, ResetIInv,
       WaitLoopIInv, ReadStatusIInv, ReadValueIInv, ReadFrameIInv,
       ReadCalibIInv, LookForCalIInv, ReturnIInv
    DEF Driver
  <1>2. CASE Tick
    BY <1>2, TickIInv
  <1>3. CASE Chip
    BY <1>3, ChipIInv
  <1>4. CASE \E j \in {"init", "measure"} : Call(j)
    BY <1>4, CallIInv
  <1>5. CASE UNCHANGED vars
    <2>1. Script' = Script /\ TIMEOUT_MS' = TIMEOUT_MS
      BY <1>5 DEF vars, jobVars, Script, Measure, SetUp, TIMEOUT_MS
    <2>. QED
      BY <1>5, <2>1
      DEF vars, jobVars, chipVars, IInv, TypeOK, TimeFits, ChipFits,
          ResultFits, CleanFits, CalibFits, FrameFits, RangeFits, AtRest,
          Converts, POLL_STEP_MS
  <1>. QED
    BY <1>1, <1>2, <1>3, <1>4, <1>5 DEF Next

-----------------------------------------------------------------------------
(* The theorems.                                                           *)

(* Every reachable state satisfies the inductive invariant.                *)
THEOREM Invariance == Spec => []IInv
  BY InitIInv, NextIInv, PTL DEF Spec

(* Types: in particular no script is overrun and waited stays bounded (the *)
(* loops of hexa_vl53l0x.c, hexa_aht20.c, hexa_bmp280.c).                  *)
THEOREM TypeCorrect == Spec => []TypeOK
  <1>1. IInv => TypeOK
    BY DEF IInv
  <1>. QED
    BY <1>1, Invariance, PTL

(* As long as no job has failed, a delivered result is of the conversion   *)
(* that this measure began; AHT20 and BMP280 deliver, whatever has failed  *)
(* before, none that had ended before this measure's start.                *)
THEOREM ResultsAreFresh == Spec => []FreshResult
  <1>1. ASSUME IInv, job = "measure", Step = "return"
        PROVE  /\ clean => got.status = "new" /\ got.value = "new"
               /\ sensor # "vl53l0x" =>
                    got.status \in {"late", "new"} /\ got.value \in {"late", "new"}
    BY <1>1, Places DEF IInv, FrameFits, RangeFits
  <1>2. IInv => FreshResult
    BY <1>1 DEF FreshResult, Delivers
  <1>. QED
    BY <1>2, Invariance, PTL

(* BMP280 never computes with a calibration read too early.                *)
THEOREM CalibrationIsLoaded == Spec => []CalibIsLoaded
  <1>1. IInv => CalibIsLoaded
    BY DEF IInv, CalibFits, CalibIsLoaded
  <1>. QED
    BY <1>1, Invariance, PTL

(* No wait loop gives up before TIMEOUT_MS have passed, at any tick rate   *)
(* of which POLL_STEP_MS is a whole number of ticks.                       *)
THEOREM TimeoutIsHonest == Spec => []HonestTimeout
  <1>1. ASSUME IInv, sleep = 0, waited > TIMEOUT_MS
        PROVE  elapsed * 1000 >= TIMEOUT_MS * TICK_RATE_HZ
    <2>1. waited \in Nat /\ elapsed \in Nat /\ TIMEOUT_MS \in {50, 100, 200}
      BY <1>1, TicksAssumption DEF IInv, TypeOK, TIMEOUT_MS, POLL_STEP_MS
    <2>2. CASE elapsed = MaxTicks
      <3>1. TIMEOUT_MS * TICK_RATE_HZ <= 200 * TICK_RATE_HZ
        BY <2>1, TicksAssumption
      <3>2. TIMEOUT_MS * TICK_RATE_HZ \in Nat
        BY <2>1, TicksAssumption
      <3>. QED
        BY <2>1, <2>2, <3>1, <3>2, BoundAssumption, TicksAssumption
    <2>3. CASE waited * TICK_RATE_HZ <= (elapsed + sleep) * 1000
      <3>1. waited * TICK_RATE_HZ >= TIMEOUT_MS * TICK_RATE_HZ
        BY <1>1, <2>1, LongerTakesLonger
      <3>2. waited * TICK_RATE_HZ \in Nat /\ TIMEOUT_MS * TICK_RATE_HZ \in Nat
        BY <2>1, TicksAssumption
      <3>. QED
        BY <1>1, <2>1, <2>3, <3>1, <3>2
    <2>. QED
      BY <1>1, <2>2, <2>3 DEF IInv, TimeFits
  <1>2. IInv => HonestTimeout
    BY <1>1 DEF HonestTimeout
  <1>. QED
    BY <1>2, Invariance, PTL
=============================================================================
