------------------------------ MODULE HexaDemo ------------------------------
(***************************************************************************)
(* The demo (examples/demo/demo.c): app_main looks for the devices and     *)
(* starts three tasks.  input_task answers the buttons, sensor_task reads  *)
(* the sensors into s_data once a second, ui_task draws s_data.            *)
(*                                                                         *)
(* A call of a device's driver is one turn on the bus, which is BusLock:   *)
(* MCHexaI2C shows that the I2C driver implements it.  The pictures drawn, *)
(* and the flags s_screen and s_inverted that choose among them, are left  *)
(* out.                                                                    *)
(***************************************************************************)
EXTENDS Naturals, Sequences

CONSTANTS
  Sensors,       \* the sensors in the order sensor_task reads them
  Words,         \* the machine words of s_data
  CYCLES,        \* the counter s_data.cycles wraps there (2^32)
  CLICK,         \* turns of input_task a press sounds (3)
  RESCAN         \* turns of input_task the rescan button sounds (6)

ASSUME SensorsAssumption == Sensors \in Seq(STRING)
ASSUME WordsAssumption  == "cycles" \in Words
ASSUME CyclesAssumption == CYCLES \in Nat \ {0, 1}
ASSUME BeepAssumption   == CLICK \in 1 .. RESCAN /\ RESCAN \in 1 .. 255

Devices == <<"oled">> \o Sensors

DeviceSet == {Devices[k] : k \in 1 .. Len(Devices)}

BusTasks == {"app_main", "sensor", "ui"}

Buttons == 0 .. 4

VARIABLES
  pc,            \* where app_main and its tasks are; "none": not created
  halted,        \* vApplicationMallocFailedHook stopped everything
  bus,           \* BusLock's where: the tasks and the I2C bus
  s_lock,        \* the mutex of s_data: its holder or "free"
  s_data,        \* for every word, the cycle it was written in
  v,             \* sensor_task: the number of the cycle it publishes
  snap,          \* ui_task: its copy of s_data
  copied,        \* the words a task's assignment of s_data has copied so far
  s_present,     \* the devices found and initialised
  found,         \* detect: the devices that answered the scan
  at,            \* detect and sensor_task: the device it is at
  s_rescan,
  s_sound,
  beep,          \* input_task: how many more of its turns to sound
  tone,          \* the buzzer sounds
  asked          \* history: a rescan asked for that no detect has begun for

lockVars  == <<s_lock, s_data, v, snap, copied>>
findVars  == <<s_present, found, at>>
inputVars == <<s_rescan, s_sound, beep, tone>>
vars      == <<pc, halted, bus, lockVars, findVars, inputVars, asked>>

Bus == INSTANCE BusLock WITH Tasks <- BusTasks, where <- bus

Goto(t, label) == pc' = [pc EXCEPT ![t] = label]

Zeros == [w \in Words |-> 0]

Init ==
  /\ pc = [t \in BusTasks \cup {"input"} |-> IF t = "app_main" THEN "scan" ELSE "none"]
  /\ halted = FALSE
  /\ Bus!Init
  /\ s_lock = "free"
  /\ s_data = Zeros
  /\ v = 0
  /\ snap = Zeros
  /\ copied = [t \in {"sensor", "ui"} |-> {}]
  /\ s_present = {}
  /\ found = {}
  /\ at = 1
  /\ s_rescan = FALSE
  /\ s_sound = TRUE
  /\ beep = 0
  /\ tone = FALSE
  /\ asked = FALSE

-----------------------------------------------------------------------------
(* The bus.                                                                *)

(* Whether the task stands before a function that uses the bus.            *)
CallsBus(t) ==
  \/ pc[t] \in {"scan", "flush"}
  \/ pc[t] = "init"    /\ at <= Len(Devices) /\ Devices[at] \in found
  \/ pc[t] = "measure" /\ at <= Len(Sensors) /\ Sensors[at] \in s_present
  \/ pc[t] = "splash"  /\ "oled" \in s_present

AskBus(t) ==
  /\ CallsBus(t)
  /\ Bus!Ask(t)
  /\ asked' = (asked /\ pc[t] # "scan")
  /\ UNCHANGED <<pc, halted, lockVars, findVars, inputVars>>

EnterBus(t) ==
  /\ Bus!Enter(t)
  /\ UNCHANGED <<pc, halted, lockVars, findVars, inputVars, asked>>

-----------------------------------------------------------------------------
(* detect, called by app_main and by sensor_task.                          *)

(* Fault: the request is cleared when detect has answered it.              *)
ClearLast == [check |-> "scan", clear |-> "measure", detect |-> "clear"]

(* What sensor_task does after it has seen the request, cleared it, and    *)
(* called detect.                                                          *)
RescanOrder == [check |-> "clear", clear |-> "scan", detect |-> "measure"]

AfterDetect(t) == IF t = "sensor" THEN RescanOrder.detect ELSE "splash"

(* hexa_i2c_scan; any device may have been plugged in or out.              *)
Scan(t) ==
  /\ pc[t] = "scan"
  /\ Bus!Leave(t)
  /\ found' \in SUBSET DeviceSet
  /\ at' = 1
  /\ Goto(t, "init")
  /\ UNCHANGED <<halted, lockVars, s_present, inputVars, asked>>

(* s_present.d = found[d] && hexa_d_init() == HEXA_OK, device by device.   *)
Detect(t) ==
  /\ pc[t] = "init"
  /\ at <= Len(Devices)
  /\ \/ /\ Devices[at] \notin found
        /\ s_present' = s_present \ {Devices[at]}
        /\ UNCHANGED bus
     \/ /\ Devices[at] \in found
        /\ Bus!Leave(t)
        /\ s_present' \in {s_present \cup {Devices[at]}, s_present \ {Devices[at]}}
  /\ at' = at + 1
  /\ UNCHANGED <<pc, halted, lockVars, found, inputVars, asked>>

DetectEnds(t) ==
  /\ pc[t] = "init"
  /\ at > Len(Devices)
  /\ at' = 1
  /\ found' = {}
  /\ Goto(t, AfterDetect(t))
  /\ UNCHANGED <<halted, bus, lockVars, s_present, inputVars, asked>>

-----------------------------------------------------------------------------
(* app_main after detect.                                                  *)

Splash ==
  /\ pc["app_main"] = "splash"
  /\ IF "oled" \in s_present THEN Bus!Leave("app_main") ELSE UNCHANGED bus
  /\ Goto("app_main", "mutex")
  /\ UNCHANGED <<halted, lockVars, findVars, inputVars, asked>>

(* Every allocation that fails calls vApplicationMallocFailedHook, which   *)
(* does not return.                                                        *)
MallocFails ==
  /\ pc["app_main"] \in {"mutex", "input", "sensor", "ui"}
  /\ halted' = TRUE
  /\ UNCHANGED <<pc, bus, lockVars, findVars, inputVars, asked>>

CreateMutex ==
  /\ pc["app_main"] = "mutex"
  /\ Goto("app_main", "input")
  /\ UNCHANGED <<halted, bus, lockVars, findVars, inputVars, asked>>

(* xTaskCreate: the task may run before app_main goes on.                  *)
Creates(task, label, next) ==
  /\ pc["app_main"] = task
  /\ pc' = [pc EXCEPT !["app_main"] = next, ![task] = label]
  /\ UNCHANGED <<halted, bus, lockVars, findVars, inputVars, asked>>

app_main == \/ Scan("app_main") \/ Detect("app_main") \/ DetectEnds("app_main")
            \/ Splash \/ CreateMutex \/ MallocFails
            \/ Creates("input", "run", "sensor")
            \/ Creates("sensor", "check", "ui")
            \/ Creates("ui", "take", "end")

-----------------------------------------------------------------------------
(* s_data, written by sensor_task and read by ui_task.                     *)

(* Fault: s_data is copied without the mutex.                              *)
NoLock == TRUE

LockIsFree == s_lock = "free"

(* xSemaphoreTake(s_lock, portMAX_DELAY)                                   *)
Take(t) ==
  /\ pc[t] = "take"
  /\ LockIsFree
  /\ s_lock' = t
  /\ Goto(t, IF t = "sensor" THEN "count" ELSE "copy")
  /\ UNCHANGED <<halted, bus, s_data, v, snap, copied, findVars, inputVars, asked>>

(* v.cycles = s_data.cycles + 1                                            *)
Count ==
  /\ pc["sensor"] = "count"
  /\ v' = (s_data["cycles"] + 1) % CYCLES
  /\ Goto("sensor", "copy")
  /\ UNCHANGED <<halted, bus, s_lock, s_data, snap, copied, findVars, inputVars, asked>>

(* s_data = v and snap = s_data, word by word.                             *)
Copy(t) ==
  /\ pc[t] = "copy"
  /\ \E w \in Words \ copied[t] :
       /\ copied' = [copied EXCEPT ![t] = @ \cup {w}]
       /\ \/ t = "sensor" /\ s_data' = [s_data EXCEPT ![w] = v] /\ UNCHANGED snap
          \/ t = "ui" /\ snap' = [snap EXCEPT ![w] = s_data[w]] /\ UNCHANGED s_data
  /\ UNCHANGED <<pc, halted, bus, s_lock, v, findVars, inputVars, asked>>

(* Fault: the mutex is not given back.                                     *)
LockIsKept == s_lock

LockAfterGive == "free"

(* xSemaphoreGive(s_lock)                                                  *)
Give(t) ==
  /\ pc[t] = "copy"
  /\ copied[t] = Words
  /\ s_lock' = LockAfterGive
  /\ copied' = [copied EXCEPT ![t] = {}]
  /\ Goto(t, IF t = "sensor" THEN "sleep" ELSE "draw")
  /\ UNCHANGED <<halted, bus, s_data, v, snap, findVars, inputVars, asked>>

-----------------------------------------------------------------------------
(* sensor_task                                                             *)

LookForRescan ==
  /\ pc["sensor"] = "check"
  /\ Goto("sensor", IF s_rescan THEN RescanOrder.check ELSE "measure")
  /\ at' = 1
  /\ UNCHANGED <<halted, bus, lockVars, s_present, found, inputVars, asked>>

ClearRescan ==
  /\ pc["sensor"] = "clear"
  /\ s_rescan' = FALSE
  /\ Goto("sensor", RescanOrder.clear)
  /\ UNCHANGED <<halted, bus, lockVars, findVars, s_sound, beep, tone, asked>>

(* The sensors that are present, one after the other, without s_lock.      *)
Measure ==
  /\ pc["sensor"] = "measure"
  /\ at <= Len(Sensors)
  /\ IF Sensors[at] \in s_present THEN Bus!Leave("sensor") ELSE UNCHANGED bus
  /\ at' = at + 1
  /\ UNCHANGED <<pc, halted, lockVars, s_present, found, inputVars, asked>>

MeasureEnds ==
  /\ pc["sensor"] = "measure"
  /\ at > Len(Sensors)
  /\ at' = 1
  /\ Goto("sensor", "take")
  /\ UNCHANGED <<halted, bus, lockVars, s_present, found, inputVars, asked>>

(* vTaskDelayUntil returns, and the task's locals are new.                 *)
Wakes(t, label) ==
  /\ pc[t] = "sleep"
  /\ v' = IF t = "sensor" THEN 0 ELSE v
  /\ Goto(t, label)
  /\ UNCHANGED <<halted, bus, s_lock, s_data, snap, copied, findVars, inputVars, asked>>

sensor_task == \/ LookForRescan \/ ClearRescan \/ Scan("sensor") \/ Detect("sensor")
               \/ DetectEnds("sensor") \/ Measure \/ MeasureEnds \/ Count
               \/ Copy("sensor") \/ Give("sensor") \/ Wakes("sensor", "check")

-----------------------------------------------------------------------------
(* ui_task                                                                 *)

(* The frame is drawn; snap is not read again.                             *)
Draw ==
  /\ pc["ui"] = "draw"
  /\ snap' = Zeros
  /\ Goto("ui", "flush")
  /\ UNCHANGED <<halted, bus, s_lock, s_data, v, copied, findVars, inputVars, asked>>

(* hexa_oled_flush; its status is not looked at.                           *)
Flush ==
  /\ pc["ui"] = "flush"
  /\ Bus!Leave("ui")
  /\ Goto("ui", "sleep")
  /\ UNCHANGED <<halted, lockVars, findVars, inputVars, asked>>

ui_task == Copy("ui") \/ Give("ui") \/ Draw \/ Flush \/ Wakes("ui", "take")

-----------------------------------------------------------------------------
(* input_task: its priority is above that of the other tasks and it never  *)
(* waits within a turn, so a turn is one step.                             *)

BeepAfter(pressed) == IF 4 \in pressed THEN RESCAN
                      ELSE IF pressed \cap {0, 1, 3} # {} THEN CLICK ELSE beep

(* --beep == 0                                                             *)
LastBeep(left, sound) == left = 1

input_task ==
  /\ pc["input"] = "run"
  /\ \E pressed \in SUBSET Buttons :
       LET sound == IF 2 \in pressed THEN ~s_sound ELSE s_sound
           left  == BeepAfter(pressed)
       IN /\ s_sound' = sound
          /\ s_rescan' = (s_rescan \/ 4 \in pressed)
          /\ asked' = (asked \/ 4 \in pressed)
          /\ \/ left = 0 /\ UNCHANGED <<beep, tone>>
             \/ /\ left > 0
                /\ beep' = left - 1
                /\ tone' = ((tone \/ sound) /\ ~LastBeep(left, sound))
  /\ UNCHANGED <<pc, halted, bus, lockVars, findVars>>

-----------------------------------------------------------------------------
Halted == halted /\ UNCHANGED vars

Next == \/ Halted
        \/ /\ ~halted
           /\ \/ app_main \/ sensor_task \/ ui_task \/ input_task
              \/ \E t \in BusTasks : AskBus(t) \/ EnterBus(t)
              \/ \E t \in {"sensor", "ui"} : Take(t)

Spec == Init /\ [][Next]_vars

(* The tasks run until they wait.  Whoever gives a mutex back sleeps or    *)
(* yields (vTaskDelayUntil) before it asks again, so a task that waits for *)
(* it is not passed over for ever.                                         *)
FairSpec ==
  /\ Spec
  /\ WF_vars(~halted /\ app_main)
  /\ WF_vars(~halted /\ sensor_task)
  /\ WF_vars(~halted /\ ui_task)
  /\ \A t \in BusTasks : WF_vars(~halted /\ AskBus(t)) /\ SF_vars(~halted /\ EnterBus(t))
  /\ \A t \in {"sensor", "ui"} : SF_vars(~halted /\ Take(t))

-----------------------------------------------------------------------------
(* Properties.                                                             *)

(* The types; beep is a uint8_t that never passes the length of a rescan's *)
(* sound (input_task).                                                     *)
TypeOK ==
  /\ halted \in BOOLEAN
  /\ bus \in [BusTasks -> Bus!Places]
  /\ s_lock \in {"free", "sensor", "ui"}
  /\ s_data \in [Words -> 0 .. CYCLES - 1]
  /\ snap \in [Words -> 0 .. CYCLES - 1]
  /\ v \in 0 .. CYCLES - 1
  /\ copied \in [{"sensor", "ui"} -> SUBSET Words]
  /\ s_present \subseteq DeviceSet
  /\ found \subseteq DeviceSet
  /\ at \in 1 .. Len(Devices) + 1
  /\ beep \in 0 .. RESCAN - 1
  /\ s_rescan \in BOOLEAN
  /\ s_sound \in BOOLEAN
  /\ tone \in BOOLEAN
  /\ asked \in BOOLEAN

(* What ui_task draws was written by one cycle of sensor_task: the copy    *)
(* in ui_task is never half of one cycle and half of the next.             *)
SnapshotWhole ==
  pc["ui"] = "draw" => \A a, b \in Words : snap[a] = snap[b]

(* A rescan asked for by the button is in s_rescan or in the hands of      *)
(* sensor_task before it scans the bus, however input_task interrupts it.  *)
RescanKept ==
  asked => s_rescan \/ (pc["sensor"] = "scan" /\ bus["sensor"] = "out")

(* While the buzzer sounds, input_task has turns left to end it, also when *)
(* sound is switched off meanwhile.                                        *)
SoundEnds == tone => beep > 0

(* A bus scan answers every request of the rescan button that input_task   *)
(* leaves in s_rescan, unless the memory runs out first.                   *)
RescanServed == asked ~> (~asked \/ halted)

(* ui_task finishes every frame it begins: it waits for ever neither for   *)
(* s_lock nor for the bus.                                                 *)
FramesGoOn == (pc["ui"] = "take") ~> (pc["ui"] = "sleep")
=============================================================================
