----------------------------- MODULE HexaSensor -----------------------------
(***************************************************************************)
(* How the drivers of the slow sensors measure: VL53L0X (range), AHT20     *)
(* (humidity) and BMP280 (pressure), each on its own: init and measure,    *)
(* which is start, a delay, a loop of ready and get (drivers/src/          *)
(* hexa_vl53l0x.c, hexa_aht20.c, hexa_bmp280.c), with hexa_delay_ms of     *)
(* hexa_time.c under FreeRTOS.                                             *)
(*                                                                         *)
(* A function of a driver is a script of steps, most of them a transfer on *)
(* the bus.  A transfer may fail, and one that failed may still have       *)
(* reached the chip.  The chip converts for as long as it likes, also      *)
(* after the driver has given up waiting.                                  *)
(***************************************************************************)
EXTENDS Naturals, Sequences

CONSTANTS
  Sensors,       \* the sensors considered
  TICK_RATE_HZ,  \* configTICK_RATE_HZ (100)
  MaxTicks       \* bound on elapsed, above which ticks are not told apart

AllSensors == {"vl53l0x", "aht20", "bmp280"}

ASSUME SensorsAssumption == Sensors \subseteq AllSensors
ASSUME TicksAssumption   == TICK_RATE_HZ \in Nat /\ MaxTicks \in Nat
(* POLL_STEP_MS is a whole number of ticks, and MaxTicks no shorter than   *)
(* the longest timeout.                                                    *)
ASSUME StepAssumption    == TICK_RATE_HZ % 100 = 0
ASSUME BoundAssumption   == 200 * TICK_RATE_HZ <= MaxTicks * 1000

VARIABLES
  sensor,        \* the sensor, the same all along
  job,           \* the driver's function in progress: "none", "init", "measure"
  at,            \* the step of its script
  waited,        \* the variable of that name in the wait loop, in ms
  sleep,         \* the ticks vTaskDelay still waits for
  elapsed,       \* ticks since the job began
  st,            \* the status the last job returned
  got,           \* the results delivered: of the range status and of the value
  calib,         \* BMP280: s_calib is "unset", "loaded" or "garbage"
  busy,          \* chip: a conversion is going on
  flag,          \* VL53L0X: RESULT_INTERRUPT_STATUS is not zero
  im_update,     \* BMP280: calibration is being copied from NVM after a reset
  result,        \* chip: its result register is "old", "late" or "new" (see below)
  triggered,     \* history: has this job's start begun a conversion? "no",
                 \* "ignored" (one was going on, which the chip finishes) or "yes"
  clean          \* history: no job has failed, and none was cut short

jobVars  == <<job, at, waited, sleep, elapsed, st, got, calib, clean>>
chipVars == <<busy, flag, im_update, result, triggered>>
vars     == <<sensor, jobVars, chipVars>>

NoResult == [status |-> "none", value |-> "none"]

Init ==
  /\ sensor \in Sensors
  /\ job = "none"
  /\ at = 1
  /\ waited = 0
  /\ sleep = 0
  /\ elapsed = 0
  /\ st = "OK"
  /\ got = NoResult
  /\ calib = "unset"
  /\ busy = FALSE
  /\ flag = FALSE
  /\ im_update = FALSE
  /\ result = "old"
  /\ triggered = "no"
  /\ clean = TRUE

-----------------------------------------------------------------------------
(* The scripts.  "setup" stands for any number of transfers that neither   *)
(* start a conversion nor touch its flag.                                  *)

(* Fault: get leaves the interrupt flag as it is.                          *)
MeasureLeavesFlag ==
  CASE sensor = "vl53l0x" -> <<"setup", "trigger", "pause", "wait", "status", "value">>
    [] OTHER              -> <<"trigger", "pause", "wait", "frame">>

(* hexa_..._measure                                                        *)
Measure ==
  CASE sensor = "vl53l0x" -> <<"setup", "trigger", "pause", "wait", "status",
                               "value", "clear">>
    [] OTHER              -> <<"trigger", "pause", "wait", "frame">>

(* Fault: the calibration is read without waiting for the copy from NVM.   *)
SetUpWithoutWait ==
  CASE sensor = "bmp280" -> <<"setup", "reset", "pause", "calib", "setup">>
    [] OTHER             -> <<"setup">>

(* hexa_..._init: VL53L0X calibrates twice, each time like a measurement.  *)
SetUp ==
  CASE sensor = "vl53l0x" -> <<"setup", "clear", "setup", "trigger", "wait", "clear",
                               "setup", "trigger", "wait", "clear", "setup">>
    [] sensor = "aht20"   -> <<"pause", "probe", "setup", "pause", "check">>
    [] OTHER              -> <<"setup", "reset", "pause", "wait", "calib", "setup">>

Script == CASE job = "init" -> SetUp [] job = "measure" -> Measure [] OTHER -> << >>

Step == IF at <= Len(Script) THEN Script[at] ELSE "return"

(* The delays, in milliseconds.                                            *)
PauseMs ==
  CASE sensor = "vl53l0x" -> 30
    [] sensor = "aht20"   -> IF job = "measure" THEN 80 ELSE IF at = 1 THEN 100 ELSE 10
    [] OTHER              -> IF job = "measure" THEN 10 ELSE 5

(* Fault: the step of five milliseconds the comments warn against.         *)
HalfStep == 5

POLL_STEP_MS == 10

TIMEOUT_MS == CASE sensor = "vl53l0x" -> 100 [] sensor = "aht20" -> 200 [] OTHER -> 50

(* waited starts at the delay already spent; the loops of the two inits    *)
(* start at zero.                                                          *)
WaitedFrom == IF job = "measure" THEN PauseMs ELSE 0

(* A delay shorter than a tick is none.                                    *)
pdMS_TO_TICKS(ms) == (ms * TICK_RATE_HZ) \div 1000

-----------------------------------------------------------------------------
(* Steps of a job.                                                         *)

NextStep == at' = at + 1

(* The function returns status; with it goes what the job knew.            *)
Ends(status) ==
  /\ st' = status
  /\ job' = "none"
  /\ at' = 1
  /\ waited' = 0
  /\ clean' = (clean /\ status \in {"OK", "ERR"})
  /\ UNCHANGED sleep

Goes == UNCHANGED <<job, waited, sleep, st, clean>>

Call(j) ==
  /\ job = "none"
  /\ job' = j
  /\ at' = 1
  /\ waited' = 0
  /\ elapsed' = 0
  /\ got' = NoResult
  /\ triggered' = "no"
  /\ UNCHANGED <<sensor, sleep, st, calib, busy, flag, im_update, result, clean>>

Runs(step) == job # "none" /\ sleep = 0 /\ Step = step

(* A transfer that fails ends the job, whether or not it reached the chip. *)
Fails == /\ Ends("ERR_BUS")
         /\ UNCHANGED <<got, calib>>

(* vTaskDelay(pdMS_TO_TICKS(ms))                                           *)
hexa_delay_ms ==
  /\ Runs("pause")
  /\ sleep' = pdMS_TO_TICKS(PauseMs)
  /\ NextStep
  /\ waited' = WaitedFrom
  /\ UNCHANGED <<sensor, job, elapsed, st, got, calib, clean, chipVars>>

(* Two of the inits read the chip's number first and refuse another chip.  *)
WrongChip == /\ job = "init" /\ at = 1 /\ sensor # "aht20"
             /\ Ends("ERR")
             /\ UNCHANGED <<got, calib>>

Transfer ==
  /\ Runs("setup")
  /\ \/ Fails
     \/ WrongChip
     \/ NextStep /\ Goes /\ UNCHANGED <<got, calib>>
  /\ UNCHANGED <<sensor, elapsed, chipVars>>

(* A start during a conversion may be ignored or begin another; either way *)
(* one is going on.  The result register is "old" until it ends, then      *)
(* "new" when this job's start began it, and "late" when an earlier one    *)
(* did.                                                                    *)
hexa_start ==
  /\ Runs("trigger")
  /\ \/ Fails /\ UNCHANGED chipVars
     \/ /\ Fails \/ (NextStep /\ Goes /\ UNCHANGED <<got, calib>>)
        /\ busy' = TRUE
        /\ result' = "old"
        /\ triggered' \in IF busy THEN {"ignored", "yes"} ELSE {"yes"}
        /\ UNCHANGED <<flag, im_update>>
  /\ UNCHANGED <<sensor, elapsed>>

(* SYSTEM_INTERRUPT_CLEAR                                                  *)
ClearFlag ==
  /\ Runs("clear")
  /\ \/ Fails /\ UNCHANGED flag
     \/ /\ Fails \/ (NextStep /\ Goes /\ UNCHANGED <<got, calib>>)
        /\ flag' = FALSE
  /\ UNCHANGED <<sensor, elapsed, busy, im_update, result, triggered>>

(* BMP280_RESET_MAGIC: the chip forgets a conversion and copies its NVM.   *)
Reset ==
  /\ Runs("reset")
  /\ \/ Fails /\ UNCHANGED <<busy, im_update>>
     \/ /\ Fails \/ (NextStep /\ Goes /\ UNCHANGED <<got, calib>>)
        /\ busy' = FALSE
        /\ im_update' = TRUE
  /\ UNCHANGED <<sensor, elapsed, flag, result, triggered>>

(* Fault: the loop takes any answer for a result.                          *)
AnyAnswer == TRUE

(* What ready, wait_interrupt and the loop of hexa_bmp280_init look at.    *)
Ready == CASE sensor = "vl53l0x" -> flag
           [] sensor = "bmp280" /\ job = "init" -> ~im_update
           [] OTHER -> ~busy

(* Fault: waited stays where it is.                                        *)
WaitedStays == waited

WaitedNext == waited + POLL_STEP_MS

(* One turn of the loop: a poll, and a delay when it finds nothing.  After *)
(* the delay the condition waited <= TIMEOUT_MS is tested.                 *)
WaitLoop ==
  /\ Runs("wait")
  /\ \/ Fails
     \/ /\ waited > TIMEOUT_MS
        /\ Ends("ERR_TIMEOUT")
        /\ UNCHANGED <<got, calib>>
     \/ /\ waited <= TIMEOUT_MS
        /\ IF Ready THEN NextStep /\ waited' = 0 /\ UNCHANGED sleep
                    ELSE /\ sleep' = pdMS_TO_TICKS(POLL_STEP_MS)
                         /\ waited' = WaitedNext
                         /\ UNCHANGED at
        /\ UNCHANGED <<job, st, clean, got, calib>>
  /\ UNCHANGED <<sensor, elapsed, chipVars>>

(* hexa_vl53l0x_get reads the range status and then the range ...          *)
ReadStatus ==
  /\ Runs("status")
  /\ \/ Fails
     \/ NextStep /\ Goes /\ UNCHANGED calib /\ got' = [got EXCEPT !.status = result]
  /\ UNCHANGED <<sensor, elapsed, chipVars>>

ReadValue ==
  /\ Runs("value")
  /\ \/ Fails
     \/ NextStep /\ Goes /\ UNCHANGED calib /\ got' = [got EXCEPT !.value = result]
  /\ UNCHANGED <<sensor, elapsed, chipVars>>

(* ... the other two read one frame; AHT20 refuses a frame marked busy,    *)
(* and one whose CRC is wrong.                                             *)
ReadFrame ==
  /\ Runs("frame")
  /\ \/ Fails
     \/ /\ sensor = "aht20" /\ busy
        /\ Ends("ERR")
        /\ UNCHANGED <<got, calib>>
     \/ /\ ~(sensor = "aht20" /\ busy)
        /\ got' = [status |-> result, value |-> result]
        /\ NextStep /\ Goes /\ UNCHANGED calib
  /\ UNCHANGED <<sensor, elapsed, chipVars>>

(* bmp280_read_calib                                                       *)
ReadCalib ==
  /\ Runs("calib")
  /\ \/ Fails
     \/ /\ calib' = IF im_update THEN "garbage" ELSE "loaded"
        /\ NextStep /\ Goes /\ UNCHANGED got
  /\ UNCHANGED <<sensor, elapsed, chipVars>>

(* hexa_aht20_init: the first look at AHT20_STATUS_CAL may end it with     *)
(* HEXA_OK, the second ends it either way.                                 *)
LookForCal ==
  /\ \/ Runs("probe") /\ (Fails \/ (Ends("OK") /\ UNCHANGED <<got, calib>>)
                                \/ (NextStep /\ Goes /\ UNCHANGED <<got, calib>>))
     \/ Runs("check") /\ (Fails \/ (Ends("ERR") /\ UNCHANGED <<got, calib>>)
                                \/ (NextStep /\ Goes /\ UNCHANGED <<got, calib>>))
  /\ UNCHANGED <<sensor, elapsed, chipVars>>

(* A range the chip marks as not valid is returned as HEXA_ERR.            *)
Return ==
  /\ Runs("return")
  /\ \/ Ends("OK")
     \/ sensor = "vl53l0x" /\ job = "measure" /\ Ends("ERR")
  /\ UNCHANGED <<sensor, elapsed, got, calib, chipVars>>

Driver == \/ hexa_delay_ms \/ Transfer \/ hexa_start \/ ClearFlag \/ Reset
          \/ WaitLoop \/ ReadStatus \/ ReadValue \/ ReadFrame \/ ReadCalib
          \/ LookForCal \/ Return

-----------------------------------------------------------------------------
(* Time and the chip.                                                      *)

(* A tick may come at any moment of a job.                                 *)
Tick ==
  /\ job # "none"
  /\ sleep > 0 \/ elapsed < MaxTicks
  /\ elapsed' = IF elapsed < MaxTicks THEN elapsed + 1 ELSE elapsed
  /\ sleep' = IF sleep > 0 THEN sleep - 1 ELSE 0
  /\ UNCHANGED <<sensor, job, at, waited, st, got, calib, clean, chipVars>>

ConversionEnds ==
  /\ busy
  /\ busy' = FALSE
  /\ flag' = (sensor = "vl53l0x")
  /\ result' = CASE triggered = "yes"     -> "new"
                 [] triggered = "ignored" -> "late"
                 [] triggered = "no"      -> "old"
  /\ UNCHANGED <<sensor, jobVars, im_update, triggered>>

CopyEnds ==
  /\ im_update
  /\ im_update' = FALSE
  /\ UNCHANGED <<sensor, jobVars, busy, flag, result, triggered>>

Chip == ConversionEnds \/ CopyEnds

-----------------------------------------------------------------------------
Next == Driver \/ Tick \/ Chip \/ \E j \in {"init", "measure"} : Call(j)

Spec == Init /\ [][Next]_vars

(* The task gets to run and time passes; nothing is assumed of the chip.   *)
FairSpec == Spec /\ WF_vars(Driver) /\ WF_vars(Tick)

-----------------------------------------------------------------------------
(* Properties.                                                             *)

Results == {"old", "late", "new"}

(* Every variable keeps its type; no script is overrun and no delay is     *)
(* longer than the 100 ms of the longest.                                  *)
TypeOK ==
  /\ sensor \in Sensors
  /\ job \in {"none", "init", "measure"}
  /\ at \in 1 .. Len(Script) + 1
  /\ waited \in 0 .. TIMEOUT_MS + POLL_STEP_MS
  /\ sleep \in Nat /\ sleep * 1000 <= 100 * TICK_RATE_HZ
  /\ elapsed \in 0 .. MaxTicks
  /\ st \in {"OK", "ERR", "ERR_BUS", "ERR_TIMEOUT"}
  /\ got \in [status : {"none"} \cup Results, value : {"none"} \cup Results]
  /\ calib \in {"unset", "loaded", "garbage"}
  /\ busy \in BOOLEAN /\ flag \in BOOLEAN /\ im_update \in BOOLEAN
  /\ triggered \in {"no", "ignored", "yes"} /\ clean \in BOOLEAN
  /\ result \in Results

(* What a measure that is about to return delivers.                        *)
Delivers(results) ==
  job = "measure" /\ Step = "return" => got.status \in results /\ got.value \in results

(* As long as no job has failed, every measure delivers the result of the  *)
(* conversion its own start began.  AHT20 and BMP280 never deliver one     *)
(* that had ended before that start, also after timeouts and failed        *)
(* transfers; but it may have begun before, when the chip was still busy   *)
(* and ignored the start.                                                  *)
FreshResult ==
  /\ clean => Delivers({"new"})
  /\ sensor # "vl53l0x" => Delivers({"late", "new"})

(* A timeout is not declared early: when a wait loop gives up, as many     *)
(* ticks have passed as TIMEOUT_MS takes (the comments on POLL_STEP_MS).   *)
HonestTimeout ==
  job # "none" /\ Step = "wait" /\ sleep = 0 /\ waited > TIMEOUT_MS
    => elapsed * 1000 >= TIMEOUT_MS * TICK_RATE_HZ

(* BMP280 never computes with a calibration read before its copy from NVM  *)
(* was complete, whatever failed or timed out in earlier calls of init.    *)
CalibIsLoaded == calib # "garbage"

(* init and measure return, however long the chip converts.                *)
JobsEnd == job # "none" ~> job = "none"

(* docs/06-sensors.md: every measure starts a new cycle, whose result it   *)
(* returns; so at least none that had ended before.                        *)
AlwaysFresh == Delivers({"late", "new"})
=============================================================================
