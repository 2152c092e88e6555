--------------------------- MODULE HexaDemoProofs ---------------------------
(***************************************************************************)
(* Proofs about HexaDemo: what ui_task draws is one cycle of sensor_task,  *)
(* and no rescan asked for is lost.                                        *)
(***************************************************************************)
EXTENDS HexaDemo, TLAPS

AppPlaces == {"scan", "init", "splash", "mutex", "input", "sensor", "ui", "end"}

SensorPlaces == {"none", "check", "clear", "scan", "init", "measure", "take",
                 "count", "copy", "sleep"}

UIPlaces == {"none", "take", "copy", "draw", "flush", "sleep"}

(* Where each task may stand, and that app_main creates a task only once.  *)
PlacesFit ==
  /\ pc = [t \in BusTasks \cup {"input"} |-> pc[t]]
  /\ pc["app_main"] \in AppPlaces
  /\ pc["sensor"] \in SensorPlaces
  /\ pc["ui"] \in UIPlaces
  /\ pc["app_main"] \notin {"ui", "end"} => pc["sensor"] = "none"
  /\ pc["app_main"] # "end" => pc["ui"] = "none"

(* The holder of s_lock is the task that stands between take and give.     *)
LockFits ==
  /\ s_lock = "sensor" <=> pc["sensor"] \in {"count", "copy"}
  /\ s_lock = "ui" <=> pc["ui"] = "copy"
  /\ \A t \in {"sensor", "ui"} : pc[t] # "copy" => copied[t] = {}

(* s_data is of one cycle, but for the words sensor_task has replaced, and *)
(* the words ui_task has copied are those of s_data.                       *)
DataFits ==
  /\ \A w \in copied["sensor"] : s_data[w] = v
  /\ \A a, b \in Words \ copied["sensor"] : s_data[a] = s_data[b]
  /\ \A w \in copied["ui"] : snap[w] = s_data[w]

(* sensor_task is on the bus only in front of a function that uses it.     *)
BusFits == bus["sensor"] # "out" => CallsBus("sensor")

IInv == TypeOK /\ PlacesFit /\ LockFits /\ DataFits /\ BusFits
        /\ SnapshotWhole /\ RescanKept

-----------------------------------------------------------------------------
(* The display is one device more than the sensors.                        *)
LEMMA Lengths == Len(Sensors) \in Nat /\ Len(Devices) = Len(Sensors) + 1
BY SensorsAssumption DEF Devices

(* A counter that wraps stays below the value it wraps at.                 *)
LEMMA Wraps == \A n \in Nat : (n + 1) % CYCLES \in 0 .. CYCLES - 1
BY CyclesAssumption

(* The invariant holds before app_main runs.                               *)
LEMMA InitInv == Init => IInv
<1> SUFFICES ASSUME Init PROVE IInv
  OBVIOUS
<1>1. TypeOK
  <2>1. bus \in [BusTasks -> Bus!Places]
    BY DEF Init, Bus!Init, Bus!Places
  <2>2. s_data \in [Words -> 0 .. CYCLES - 1] /\ snap \in [Words -> 0 .. CYCLES - 1]
    BY CyclesAssumption DEF Init, Zeros
  <2>3. v \in 0 .. CYCLES - 1 /\ beep \in 0 .. RESCAN - 1
    BY CyclesAssumption, BeepAssumption DEF Init
  <2>4. copied \in [{"sensor", "ui"} -> SUBSET Words]
    BY DEF Init
  <2>5. at \in 1 .. Len(Devices) + 1
    BY Lengths DEF Init
  <2> QED
    BY <2>1, <2>2, <2>3, <2>4, <2>5 DEF Init, TypeOK
<1>2. PlacesFit
  BY DEF Init, PlacesFit, BusTasks, AppPlaces, SensorPlaces, UIPlaces
<1>3. LockFits /\ DataFits
  BY DEF Init, LockFits, DataFits, Zeros, BusTasks
<1>4. BusFits /\ SnapshotWhole /\ RescanKept
  BY DEF Init, BusFits, SnapshotWhole, RescanKept, Bus!Init, BusTasks
<1> QED BY <1>1, <1>2, <1>3, <1>4 DEF IInv

(* A task asks for the bus.                                                *)
LEMMA AskBusStep == ASSUME IInv, NEW t \in BusTasks, AskBus(t)
  PROVE  IInv'
<1>1. TypeOK'
  BY DEF IInv, TypeOK, AskBus, Bus!Ask, Bus!Places, lockVars, findVars,
     inputVars
<1>2. PlacesFit' /\ LockFits' /\ DataFits' /\ SnapshotWhole'
  BY DEF IInv, PlacesFit, LockFits, DataFits, SnapshotWhole, AskBus, lockVars
<1>3. BusFits'
  BY DEF IInv, BusFits, AskBus, Bus!Ask, CallsBus, findVars
<1>4. RescanKept'
  BY DEF IInv, TypeOK, RescanKept, AskBus, Bus!Ask, inputVars
<1> QED BY <1>1, <1>2, <1>3, <1>4 DEF IInv

(* A task gets the bus.                                                    *)
LEMMA EnterBusStep == ASSUME IInv, NEW t \in BusTasks, EnterBus(t)
  PROVE  IInv'
<1>1. TypeOK'
  BY DEF IInv, TypeOK, EnterBus, Bus!Enter, Bus!Places, lockVars, findVars,
     inputVars
<1>2. PlacesFit' /\ LockFits' /\ DataFits' /\ SnapshotWhole'
  BY DEF IInv, PlacesFit, LockFits, DataFits, SnapshotWhole, EnterBus,
     lockVars
<1>3. BusFits'
  BY DEF IInv, BusFits, EnterBus, Bus!Enter, CallsBus, findVars
<1>4. RescanKept'
  BY DEF IInv, RescanKept, EnterBus, Bus!Enter, inputVars
<1> QED BY <1>1, <1>2, <1>3, <1>4 DEF IInv

(* The scan of the bus.                                                    *)
LEMMA ScanStep == ASSUME IInv, NEW t \in {"app_main", "sensor"}, Scan(t)
  PROVE  IInv'
<1>1. TypeOK'
  BY DEF IInv, TypeOK, Scan, Bus!Leave, Bus!Places, BusTasks, lockVars,
     inputVars
<1>2. PlacesFit'
  BY DEF IInv, PlacesFit, AppPlaces, SensorPlaces, Scan, Goto, BusTasks
<1>3. LockFits' /\ DataFits' /\ SnapshotWhole'
  BY DEF IInv, LockFits, DataFits, SnapshotWhole, Scan, Goto, lockVars
<1>4. BusFits'
  BY DEF IInv, TypeOK, PlacesFit, BusFits, Scan, Bus!Leave, CallsBus, BusTasks
<1>5. RescanKept'
  BY DEF IInv, RescanKept, Scan, Bus!Leave, Goto, inputVars
<1> QED BY <1>1, <1>2, <1>3, <1>4, <1>5 DEF IInv

(* One device of detect.                                                   *)
LEMMA DetectStep == ASSUME IInv, NEW t \in {"app_main", "sensor"}, Detect(t)
  PROVE  IInv'
<1>1. TypeOK'
  BY DEF IInv, TypeOK, Detect, Bus!Leave, Bus!Places, lockVars, inputVars
<1>2. PlacesFit' /\ LockFits' /\ DataFits' /\ SnapshotWhole'
  BY DEF IInv, PlacesFit, LockFits, DataFits, SnapshotWhole, Detect, lockVars
<1>3. BusFits'
  BY DEF IInv, TypeOK, PlacesFit, BusFits, Detect, Bus!Leave, CallsBus,
     BusTasks
<1>4. RescanKept'
  BY DEF IInv, TypeOK, RescanKept, Detect, Bus!Leave, BusTasks, inputVars
<1> QED BY <1>1, <1>2, <1>3, <1>4 DEF IInv

(* The end of detect.                                                      *)
LEMMA DetectEndsStep == ASSUME IInv, NEW t \in {"app_main", "sensor"}, DetectEnds(t)
  PROVE  IInv'
<1>1. TypeOK'
  BY DEF IInv, TypeOK, DetectEnds, lockVars, inputVars
<1>2. PlacesFit'
  BY DEF IInv, PlacesFit, AppPlaces, SensorPlaces, DetectEnds, AfterDetect,
     RescanOrder, Goto, BusTasks
<1>3. LockFits' /\ DataFits' /\ SnapshotWhole'
  BY DEF IInv, LockFits, DataFits, SnapshotWhole, DetectEnds, AfterDetect,
     RescanOrder, Goto, lockVars
<1>4. BusFits'
  BY DEF IInv, TypeOK, PlacesFit, BusFits, DetectEnds, CallsBus
<1>5. RescanKept'
  BY DEF IInv, RescanKept, DetectEnds, Goto, inputVars
<1> QED BY <1>1, <1>2, <1>3, <1>4, <1>5 DEF IInv

(* The splash screen.                                                      *)
LEMMA SplashStep == ASSUME IInv, Splash
  PROVE  IInv'
<1>1. TypeOK'
  BY DEF IInv, TypeOK, Splash, Bus!Leave, Bus!Places, lockVars, findVars,
     inputVars
<1>2. PlacesFit'
  BY DEF IInv, PlacesFit, AppPlaces, Splash, Goto, BusTasks
<1>3. LockFits' /\ DataFits' /\ SnapshotWhole'
  BY DEF IInv, LockFits, DataFits, SnapshotWhole, Splash, Goto, lockVars
<1>4. BusFits'
  BY DEF IInv, TypeOK, BusFits, Splash, Bus!Leave, Goto, CallsBus, BusTasks,
     findVars
<1>5. RescanKept'
  BY DEF IInv, TypeOK, RescanKept, Splash, Bus!Leave, Goto, BusTasks,
     inputVars
<1> QED BY <1>1, <1>2, <1>3, <1>4, <1>5 DEF IInv

(* The allocations of app_main.                                            *)
LEMMA StartsStep == ASSUME IInv, CreateMutex \/ MallocFails \/ Creates("input", "run", "sensor") \/ Creates("sensor", "check", "ui") \/ Creates("ui", "take", "end")
  PROVE  IInv'
<1>1. TypeOK'
  BY DEF IInv, TypeOK, CreateMutex, MallocFails, Creates, lockVars, findVars,
     inputVars
<1>2. PlacesFit'
  BY DEF IInv, PlacesFit, AppPlaces, SensorPlaces, UIPlaces, CreateMutex,
     MallocFails, Creates, Goto, BusTasks
<1>3. LockFits' /\ DataFits' /\ SnapshotWhole'
  BY DEF IInv, PlacesFit, LockFits, DataFits, SnapshotWhole, CreateMutex,
     MallocFails, Creates, Goto, BusTasks, lockVars
<1>4. BusFits'
  BY DEF IInv, PlacesFit, BusFits, CreateMutex, MallocFails, Creates,
     CallsBus, BusTasks, findVars
<1>5. RescanKept'
  BY DEF IInv, PlacesFit, RescanKept, CreateMutex, MallocFails, Creates,
     BusTasks, inputVars
<1> QED BY <1>1, <1>2, <1>3, <1>4, <1>5 DEF IInv

(* A task takes s_lock.                                                    *)
LEMMA TakeStep == ASSUME IInv, NEW t \in {"sensor", "ui"}, Take(t)
  PROVE  IInv'
<1>1. TypeOK'
  BY DEF IInv, TypeOK, Take, findVars, inputVars
<1>2. PlacesFit'
  BY DEF IInv, PlacesFit, SensorPlaces, UIPlaces, Take, Goto, BusTasks
<1>3. LockFits'
  BY DEF IInv, PlacesFit, LockFits, Take, LockIsFree, Goto, BusTasks
<1>4. DataFits'
  BY DEF IInv, DataFits, Take
<1>5. SnapshotWhole'
  BY DEF IInv, SnapshotWhole, Take, Goto
<1>6. BusFits' /\ RescanKept'
  BY DEF IInv, BusFits, RescanKept, Take, Goto, CallsBus, findVars, inputVars
<1> QED BY <1>1, <1>2, <1>3, <1>4, <1>5, <1>6 DEF IInv

(* sensor_task numbers its cycle.                                          *)
LEMMA CountStep == ASSUME IInv, Count
  PROVE  IInv'
<1>1. TypeOK'
  BY Wraps, WordsAssumption DEF IInv, TypeOK, Count, findVars, inputVars
<1>2. PlacesFit'
  BY DEF IInv, PlacesFit, SensorPlaces, Count, Goto, BusTasks
<1>3. LockFits'
  BY DEF IInv, LockFits, Count, Goto
<1>4. DataFits'
  BY DEF IInv, LockFits, DataFits, Count
<1>5. SnapshotWhole'
  BY DEF IInv, SnapshotWhole, Count, Goto
<1>6. BusFits' /\ RescanKept'
  BY DEF IInv, BusFits, RescanKept, Count, CallsBus, inputVars
<1> QED BY <1>1, <1>2, <1>3, <1>4, <1>5, <1>6 DEF IInv

(* A word is copied.                                                       *)
LEMMA CopyStep == ASSUME IInv, NEW t \in {"sensor", "ui"}, Copy(t)
  PROVE  IInv'
<1>1. TypeOK'
  BY DEF IInv, TypeOK, Copy, findVars, inputVars
<1>2. PlacesFit'
  BY DEF IInv, PlacesFit, Copy
<1>3. LockFits'
  BY DEF IInv, LockFits, Copy
<1>4. DataFits'
  BY DEF IInv, TypeOK, LockFits, DataFits, Copy
<1>5. SnapshotWhole'
  BY DEF IInv, SnapshotWhole, Copy
<1>6. BusFits' /\ RescanKept'
  BY DEF IInv, BusFits, RescanKept, Copy, CallsBus, findVars, inputVars
<1> QED BY <1>1, <1>2, <1>3, <1>4, <1>5, <1>6 DEF IInv

(* A task gives s_lock back.                                               *)
LEMMA GiveStep == ASSUME IInv, NEW t \in {"sensor", "ui"}, Give(t)
  PROVE  IInv'
<1>1. TypeOK'
  BY DEF IInv, TypeOK, Give, LockAfterGive, findVars, inputVars
<1>2. PlacesFit'
  BY DEF IInv, PlacesFit, SensorPlaces, UIPlaces, Give, Goto, BusTasks
<1>3. LockFits'
  BY DEF IInv, TypeOK, PlacesFit, LockFits, Give, LockAfterGive, Goto,
     BusTasks
<1>4. DataFits'
  BY DEF IInv, DataFits, Give
<1>5. SnapshotWhole'
  BY DEF IInv, LockFits, DataFits, SnapshotWhole, Give, Goto
<1>6. BusFits' /\ RescanKept'
  BY DEF IInv, BusFits, RescanKept, Give, Goto, CallsBus, findVars, inputVars
<1> QED BY <1>1, <1>2, <1>3, <1>4, <1>5, <1>6 DEF IInv

(* sensor_task looks at s_rescan.                                          *)
LEMMA RescanStep == ASSUME IInv, LookForRescan \/ ClearRescan
  PROVE  IInv'
<1>1. TypeOK'
  <2>1. CASE LookForRescan
    BY <2>1, Lengths DEF IInv, TypeOK, LookForRescan, lockVars, inputVars
  <2>2. CASE ClearRescan
    BY <2>2 DEF IInv, TypeOK, ClearRescan, lockVars, findVars
  <2> QED BY <2>1, <2>2
<1>2. PlacesFit'
  BY DEF IInv, PlacesFit, SensorPlaces, LookForRescan, ClearRescan,
     RescanOrder, Goto, BusTasks
<1>3. LockFits' /\ DataFits' /\ SnapshotWhole'
  BY DEF IInv, PlacesFit, LockFits, DataFits, SnapshotWhole, LookForRescan,
     ClearRescan, RescanOrder, Goto, BusTasks, lockVars
<1>4. BusFits'
  BY DEF IInv, BusFits, LookForRescan, ClearRescan, CallsBus
<1>5. RescanKept'
  BY DEF IInv, PlacesFit, BusFits, RescanKept, LookForRescan, ClearRescan,
     RescanOrder, Goto, CallsBus, BusTasks, inputVars
<1> QED BY <1>1, <1>2, <1>3, <1>4, <1>5 DEF IInv

(* The sensors are read.                                                   *)
LEMMA MeasureStep == ASSUME IInv, Measure \/ MeasureEnds
  PROVE  IInv'
<1>1. TypeOK'
  BY Lengths DEF IInv, TypeOK, Measure, MeasureEnds, Bus!Leave, Bus!Places,
     lockVars, inputVars
<1>2. PlacesFit'
  BY DEF IInv, PlacesFit, SensorPlaces, Measure, MeasureEnds, Goto, BusTasks
<1>3. LockFits' /\ DataFits' /\ SnapshotWhole'
  BY DEF IInv, PlacesFit, LockFits, DataFits, SnapshotWhole, Measure,
     MeasureEnds, Goto, BusTasks, lockVars
<1>4. BusFits'
  BY DEF IInv, TypeOK, BusFits, Measure, MeasureEnds, Bus!Leave, CallsBus,
     BusTasks
<1>5. RescanKept'
  BY DEF IInv, RescanKept, Measure, MeasureEnds, inputVars
<1> QED BY <1>1, <1>2, <1>3, <1>4, <1>5 DEF IInv

(* A task's period is over.                                                *)
LEMMA WakesStep == ASSUME IInv, Wakes("sensor", "check") \/ Wakes("ui", "take")
  PROVE  IInv'
<1>1. TypeOK'
  BY CyclesAssumption DEF IInv, TypeOK, Wakes, findVars, inputVars
<1>2. PlacesFit'
  BY DEF IInv, PlacesFit, SensorPlaces, UIPlaces, Wakes, Goto, BusTasks
<1>3. LockFits' /\ DataFits' /\ SnapshotWhole'
  BY DEF IInv, PlacesFit, LockFits, DataFits, SnapshotWhole, Wakes, Goto,
     BusTasks
<1>4. BusFits'
  BY DEF IInv, PlacesFit, BusFits, Wakes, Goto, CallsBus, BusTasks, findVars
<1>5. RescanKept'
  BY DEF IInv, PlacesFit, RescanKept, Wakes, Goto, BusTasks, inputVars
<1> QED BY <1>1, <1>2, <1>3, <1>4, <1>5 DEF IInv

(* ui_task draws and shows the frame.                                      *)
LEMMA DrawStep == ASSUME IInv, Draw \/ Flush
  PROVE  IInv'
<1>1. TypeOK'
  BY CyclesAssumption DEF IInv, TypeOK, Draw, Flush, Zeros, Bus!Leave,
     Bus!Places, lockVars, findVars, inputVars
<1>2. PlacesFit'
  BY DEF IInv, PlacesFit, UIPlaces, Draw, Flush, Goto, BusTasks
<1>3. LockFits' /\ DataFits' /\ SnapshotWhole'
  BY DEF IInv, PlacesFit, LockFits, DataFits, SnapshotWhole, Draw, Flush,
     Goto, BusTasks, lockVars
<1>4. BusFits'
  BY DEF IInv, TypeOK, PlacesFit, BusFits, Draw, Flush, Bus!Leave, Goto,
     CallsBus, BusTasks, findVars
<1>5. RescanKept'
  BY DEF IInv, TypeOK, PlacesFit, RescanKept, Draw, Flush, Bus!Leave, Goto,
     BusTasks, inputVars
<1> QED BY <1>1, <1>2, <1>3, <1>4, <1>5 DEF IInv

(* A turn of input_task.                                                   *)
LEMMA InputStep == ASSUME IInv, input_task
  PROVE  IInv'
<1>1. TypeOK'
  <2>1. CLICK \in Nat /\ RESCAN \in Nat /\ 1 <= CLICK /\ CLICK <= RESCAN
    BY BeepAssumption
  <2>2. beep \in Nat /\ beep <= RESCAN - 1
    BY <2>1 DEF IInv, TypeOK
  <2>3. beep' \in 0 .. RESCAN - 1
    BY <2>1, <2>2 DEF input_task, BeepAfter
  <2>4. s_sound' \in BOOLEAN /\ s_rescan' \in BOOLEAN /\ tone' \in BOOLEAN /\ asked' \in BOOLEAN
    BY DEF IInv, TypeOK, input_task, LastBeep
  <2> QED
    BY <2>3, <2>4 DEF IInv, TypeOK, input_task, lockVars, findVars
<1>2. PlacesFit' /\ LockFits' /\ DataFits' /\ SnapshotWhole'
  BY DEF IInv, PlacesFit, LockFits, DataFits, SnapshotWhole, input_task,
     lockVars
<1>3. BusFits'
  BY DEF IInv, BusFits, input_task, CallsBus, findVars
<1>4. RescanKept'
  BY DEF IInv, RescanKept, input_task
<1> QED BY <1>1, <1>2, <1>3, <1>4 DEF IInv

(* No step leaves the invariant.                                           *)
LEMMA StepInv == IInv /\ [Next]_vars => IInv'
<1> SUFFICES ASSUME IInv, [Next]_vars PROVE IInv'
  OBVIOUS
<1>1. CASE Halted \/ UNCHANGED vars
  BY <1>1 DEF Halted, vars, IInv, TypeOK, PlacesFit, LockFits, DataFits, BusFits,
     CallsBus, SnapshotWhole, RescanKept, lockVars, findVars, inputVars
<1>2. CASE app_main
  BY <1>2, ScanStep, DetectStep, DetectEndsStep, SplashStep, StartsStep DEF app_main
<1>3. CASE sensor_task
  BY <1>3, RescanStep, ScanStep, DetectStep, DetectEndsStep, MeasureStep, CountStep,
     CopyStep, GiveStep, WakesStep DEF sensor_task
<1>4. CASE ui_task
  BY <1>4, CopyStep, GiveStep, DrawStep, WakesStep DEF ui_task
<1>5. CASE input_task
  BY <1>5, InputStep
<1>6. CASE \E t \in BusTasks : AskBus(t) \/ EnterBus(t)
  BY <1>6, AskBusStep, EnterBusStep
<1>7. CASE \E t \in {"sensor", "ui"} : Take(t)
  BY <1>7, TakeStep
<1> QED BY <1>1, <1>2, <1>3, <1>4, <1>5, <1>6, <1>7 DEF Next

-----------------------------------------------------------------------------
(* The invariant holds in every behaviour.                                 *)
THEOREM Invariance == Spec => []IInv
<1> QED BY InitInv, StepInv, PTL DEF Spec

(* The variables keep their types; beep stays within a uint8_t and below   *)
(* the length of a rescan's sound (input_task).                            *)
THEOREM TypeCorrect == Spec => []TypeOK
<1>1. IInv => TypeOK
  BY DEF IInv
<1> QED BY <1>1, Invariance, PTL

(* However many words s_data has, the copy ui_task draws comes from one    *)
(* cycle of sensor_task (s_lock in ui_task and sensor_task).               *)
THEOREM SnapshotsAreWhole == Spec => []SnapshotWhole
<1>1. IInv => SnapshotWhole
  BY DEF IInv
<1> QED BY <1>1, Invariance, PTL

(* A press of the rescan button is never lost, whatever sensor_task is     *)
(* doing when input_task notes it (s_rescan).                              *)
THEOREM RescansAreKept == Spec => []RescanKept
<1>1. IInv => RescanKept
  BY DEF IInv
<1> QED BY <1>1, Invariance, PTL

(* Whatever is pressed while the buzzer sounds, input_task has turns left  *)
(* to switch it off (beep in input_task).                                  *)
THEOREM BuzzerFallsSilent == Spec => []SoundEnds
<1>1. Init => SoundEnds
  BY DEF Init, SoundEnds
<1>2. ASSUME TypeOK, SoundEnds, [Next]_vars PROVE SoundEnds'
  <2>1. CASE input_task
    <3>1. CLICK \in Nat /\ RESCAN \in Nat
      BY BeepAssumption
    <3>2. beep \in Nat
      BY <1>2, <3>1 DEF TypeOK
    <3>3. \A pressed : BeepAfter(pressed) \in Nat
      BY <3>1, <3>2 DEF BeepAfter
    <3>4. CASE UNCHANGED <<beep, tone>>
      BY <1>2, <3>4 DEF SoundEnds
    <3>5. CASE \E left \in Nat : left > 0 /\ beep' = left - 1 /\ (tone' => left # 1)
      BY <3>5 DEF SoundEnds
    <3> QED
      BY <2>1, <3>3, <3>4, <3>5 DEF input_task, LastBeep
  <2>2. CASE UNCHANGED <<beep, tone>>
    BY <1>2, <2>2 DEF SoundEnds
  <2>3. input_task \/ UNCHANGED <<beep, tone>>
    BY <1>2 DEF Next, vars, inputVars, Halted, app_main, sensor_task, ui_task,
       AskBus, EnterBus, Scan, Detect, DetectEnds, Splash, CreateMutex,
       MallocFails, Creates, Take, Count, Copy, Give, LookForRescan,
       ClearRescan, Measure, MeasureEnds, Wakes, Draw, Flush
  <2> QED BY <2>1, <2>2, <2>3
<1> QED BY <1>1, <1>2, TypeCorrect, PTL DEF Spec
=============================================================================
