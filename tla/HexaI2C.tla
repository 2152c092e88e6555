------------------------------ MODULE HexaI2C ------------------------------
(***************************************************************************)
(* The I2C driver of the SDK (drivers/src/hexa_i2c.c) under FreeRTOS,      *)
(* with the blocking master functions of the HAL it calls                  *)
(* (hal/peripherals/Source/mik32_hal_i2c.c), the controller I2C_1 and the  *)
(* devices on the bus.                                                     *)
(*                                                                         *)
(* Several tasks call the driver.  Every poll of the controller's status   *)
(* register is one step, so a device may answer before, between or after   *)
(* the polls of the HAL, and another task may run between any two steps.   *)
(* Controller and devices are external: they are modelled by what the code *)
(* reads from and writes to their registers.                               *)
(***************************************************************************)
EXTENDS Naturals, Sequences

CONSTANTS
  Tasks,         \* the tasks that use the driver
  NoTask,        \* nobody holds the mutex
  Power,         \* what a register holds that nobody wrote since power-on
  Junk,          \* what RXDR and TXDR hold before any byte came
  MaxAddr,       \* hexa_i2c_scan walks over the addresses 0 .. MaxAddr (127)
  Devices,       \* the addresses at which a device sits
  MaxReg,        \* the registers of a device are 0 .. MaxReg
  Calls,         \* the calls the tasks make, records of CallSet
  NByteMax,      \* I2C_NBYTE_MAX: the longest chunk the controller counts (255)
  TmpMax,        \* sizeof(tmp) - 1 in hexa_i2c_write (31)
  BusTimeout,    \* HEXA_I2C_TIMEOUT_MS: a number of polls, not of milliseconds
  ScanTimeout    \* the polls hexa_i2c_scan allows (5)

Addrs == 0 .. MaxAddr
Regs  == 0 .. MaxReg

Functions == {"read", "read_raw", "write", "write_raw", "ping", "scan"}

(* reg is the register of a read or write, and the first byte of the       *)
(* buffer of a write_raw; len is the argument of that name.                *)
CallSet == [fn : Functions, addr : Addrs, reg : Regs, len : Nat]

ASSUME TasksAssumption   == NoTask \notin Tasks
ASSUME MaxAssumption     == MaxAddr \in Nat /\ MaxReg \in Nat
ASSUME DevicesAssumption == Devices \subseteq Addrs
ASSUME CallsAssumption   == Calls \subseteq CallSet
ASSUME LimitsAssumption  == /\ NByteMax \in Nat \ {0}
                            /\ TmpMax \in Nat
                            /\ BusTimeout \in Nat
                            /\ ScanTimeout \in Nat

NoCall == [fn |-> "none", addr |-> 0, reg |-> 0, len |-> 0]

VARIABLES
  sys,           \* "boot", "up" (hexa_i2c_init returned) or "halted"
  s_i2c_mutex,   \* is the handle a mutex (TRUE) or still NULL (FALSE)?
  owner,         \* the task that holds the mutex, or NoTask
  ErrorCode,     \* s_bus.ErrorCode, shared by all tasks
  pc,            \* pc[t]: where task t is
  call,          \* call[t]: the call task t is making
  stage,         \* stage[t]: the transfer within the call (scan: the address)
  hal,           \* hal[t]: the locals of the HAL function task t is in
  res,           \* res[t]: what the last HAL function returned to t
  st,            \* st[t]: the hexa_status_t that t is about to return
  buf,           \* buf[t]: the bytes the last Receive stored
  found,         \* found[t]: the addresses a scan has marked
  ctl,           \* the controller I2C_1
  dev            \* dev[d]: register pointer and registers of device d

taskVars == <<pc, call, stage, hal, res, st, buf, found>>
vars == <<sys, s_i2c_mutex, owner, ErrorCode, taskVars, ctl, dev>>

-----------------------------------------------------------------------------
(* Types.                                                                  *)

Waits     == {"txis", "rxne", "tc", "tcr"}
InHal     == {"start", "ret"} \cup Waits
HalErrors == {"NONE", "TIMEOUT", "NACK", "BUS"}     \* BUS: BERR or ARLO
HalStatus == {"HAL_OK", "HAL_ERROR", "HAL_TIMEOUT"}
Statuses  == {"OK", "ERR_TIMEOUT", "ERR_NACK", "ERR_BUS", "ERR_PARAM"}
Phases    == {"off", "idle", "addr", "tx", "rx", "tc", "tcr", "stop"}

(* A byte on the bus is the number of a register, or byte number i of the  *)
(* data that task t sends.                                                 *)
RegByte(r)     == <<NoTask, r>>
DataByte(t, i) == <<t, i>>
Bytes          == ((Tasks \cup {NoTask}) \X Nat) \cup {Power, Junk}

(* The locals of HAL_I2C_Master_Transmit and _Receive: direction, position  *)
(* of pData, bytes to go in this chunk (nbytes - i), bytes after it         *)
(* (DataSize) and the polls left to the wait loop (Timeout).                *)
HalFrame == [rx : BOOLEAN, at : Nat, todo : Nat, left : Nat, polls : Nat]
NoFrame  == [rx |-> FALSE, at |-> 0, todo |-> 0, left |-> 0, polls |-> 0]

(* The controller: its phase, CR2 (direction, address, bytes to go in the   *)
(* chunk, RELOAD), whether the next byte is the first after START, TXDR and *)
(* RXDR with their full flags, and the sticky flags of ISR: NACKF, and BERR *)
(* or ARLO.                                                                 *)
Controller ==
  [phase : Phases, rx : BOOLEAN, sadd : Addrs, nbytes : Nat, reload : BOOLEAN,
   first : BOOLEAN, txfull : BOOLEAN, txdr : Bytes, rxne : BOOLEAN,
   rxdr : Bytes, nackf : BOOLEAN, fault : BOOLEAN]

Device == [ptr : Regs, mem : [Regs -> Bytes]]

Init ==
  /\ sys = "boot"
  /\ s_i2c_mutex = FALSE
  /\ owner = NoTask
  /\ ErrorCode = "NONE"
  /\ pc    = [t \in Tasks |-> "idle"]
  /\ call  = [t \in Tasks |-> NoCall]
  /\ stage = [t \in Tasks |-> 0]
  /\ hal   = [t \in Tasks |-> NoFrame]
  /\ res   = [t \in Tasks |-> "HAL_OK"]
  /\ st    = [t \in Tasks |-> "OK"]
  /\ buf   = [t \in Tasks |-> << >>]
  /\ found = [t \in Tasks |-> {}]
  /\ ctl = [phase |-> "off", rx |-> FALSE, sadd |-> 0, nbytes |-> 0,
            reload |-> FALSE, first |-> FALSE, txfull |-> FALSE,
            txdr |-> Junk, rxne |-> FALSE, rxdr |-> Junk,
            nackf |-> FALSE, fault |-> FALSE]
  /\ dev = [d \in Devices |-> [ptr |-> 0, mem |-> [r \in Regs |-> Power]]]

-----------------------------------------------------------------------------
(* The calls and the transfers they are made of.                           *)

Goto(t, label) == pc' = [pc EXCEPT ![t] = label]

(* A read is a Transmit of the register number, then a Receive.            *)
IsReceive(t) == \/ call[t].fn \in {"read_raw", "scan"}
                \/ call[t].fn = "read" /\ stage[t] = 2

TransferSize(t) ==
  CASE call[t].fn = "read"  -> IF stage[t] = 1 THEN 1 ELSE call[t].len
    [] call[t].fn = "write" -> call[t].len + 1
    [] call[t].fn = "ping"  -> 0
    [] call[t].fn = "scan"  -> 1
    [] OTHER                -> call[t].len

TransferAddr(t) == IF call[t].fn = "scan" THEN stage[t] ELSE call[t].addr

TransferTimeout(t) == IF call[t].fn = "scan" THEN ScanTimeout ELSE BusTimeout

(* Fault: tmp[i] is filled from buf[i].                                   *)
TxByteNext(t, at) == IF at = 0 THEN RegByte(call[t].reg) ELSE DataByte(t, at)

(* Byte number at of the buffer that is sent: the register, then the data  *)
(* in order.                                                               *)
TxByte(t, at) == IF at = 0 THEN RegByte(call[t].reg) ELSE DataByte(t, at - 1)

(* Fault: the longest chunk is one byte too long.                          *)
ChunkTooLong(size) == IF size <= NByteMax + 1 THEN size ELSE NByteMax + 1

Chunk(size) == IF size <= NByteMax THEN size ELSE NByteMax

(* Fault: the default branch is forgotten and falls out as HEXA_OK.        *)
MapWithoutDefault(e) ==
  CASE e = "TIMEOUT" -> "ERR_TIMEOUT"
    [] e = "NACK"    -> "ERR_NACK"
    [] OTHER         -> "OK"

i2c_map_error(e) ==
  CASE e = "NONE"    -> "OK"
    [] e = "TIMEOUT" -> "ERR_TIMEOUT"
    [] e = "NACK"    -> "ERR_NACK"
    [] OTHER         -> "ERR_BUS"

-----------------------------------------------------------------------------
(* Entering and leaving the driver.                                        *)

(* The controller is set up and the mutex created.  When the heap has no   *)
(* room for it, vApplicationMallocFailedHook spins for ever, before the    *)
(* HEXA_ERR_BUS of the code could be returned.                             *)
hexa_i2c_init ==
  /\ sys = "boot"
  /\ ctl' = [ctl EXCEPT !.phase = "idle"]
  /\ \/ sys' = "up" /\ s_i2c_mutex' = TRUE
     \/ sys' = "halted" /\ UNCHANGED s_i2c_mutex
  /\ UNCHANGED <<owner, ErrorCode, taskVars, dev>>

(* Any function of the driver is entered; hexa_i2c_write refuses a length  *)
(* that does not fit tmp before it takes the mutex.                        *)
Invoke(t) ==
  /\ pc[t] = "idle"
  /\ \E c \in Calls :
       /\ call' = [call EXCEPT ![t] = c]
       /\ IF c.fn = "write" /\ c.len > TmpMax
            THEN /\ st' = [st EXCEPT ![t] = "ERR_PARAM"]
                 /\ Goto(t, "return")
            ELSE /\ Goto(t, "lock")
                 /\ UNCHANGED st
  /\ UNCHANGED <<sys, s_i2c_mutex, owner, ErrorCode, stage, hal, res, buf,
                 found, ctl, dev>>

(* A call before hexa_board_init: xSemaphoreTake asserts on the NULL       *)
(* handle, and vAssertCalled ends the scheduler: nothing runs any more.    *)
TakeNull(t) ==
  /\ pc[t] = "lock"
  /\ ~s_i2c_mutex
  /\ sys' = "halted"
  /\ UNCHANGED <<s_i2c_mutex, owner, ErrorCode, taskVars, ctl, dev>>

(* Fault: the empty i2c_lock of the bare-metal build.                      *)
NoMutex == TRUE

(* xSemaphoreTake with portMAX_DELAY returns only with the mutex.          *)
MutexIsFree == owner = NoTask

i2c_lock(t) ==
  /\ pc[t] = "lock"
  /\ s_i2c_mutex
  /\ MutexIsFree
  /\ owner' = t
  /\ Goto(t, "start")
  /\ stage' = [stage EXCEPT ![t] = IF call[t].fn = "scan" THEN 0 ELSE 1]
  /\ UNCHANGED <<sys, s_i2c_mutex, ErrorCode, call, hal, res, st, buf, found,
                 ctl, dev>>

i2c_unlock(t) ==
  /\ pc[t] = "unlock"
  /\ owner' = NoTask
  /\ Goto(t, "return")
  /\ UNCHANGED <<sys, s_i2c_mutex, ErrorCode, call, stage, hal, res, st, buf,
                 found, ctl, dev>>

(* The function returns and its locals are gone.                           *)
Return(t) ==
  /\ pc[t] = "return"
  /\ Goto(t, "idle")
  /\ call'  = [call EXCEPT ![t] = NoCall]
  /\ stage' = [stage EXCEPT ![t] = 0]
  /\ hal'   = [hal EXCEPT ![t] = NoFrame]
  /\ res'   = [res EXCEPT ![t] = "HAL_OK"]
  /\ st'    = [st EXCEPT ![t] = "OK"]
  /\ buf'   = [buf EXCEPT ![t] = << >>]
  /\ found' = [found EXCEPT ![t] = {}]
  /\ UNCHANGED <<sys, s_i2c_mutex, owner, ErrorCode, ctl, dev>>

-----------------------------------------------------------------------------
(* HAL_I2C_Master_Transmit and HAL_I2C_Master_Receive.                     *)

WaitByte(rx) == IF rx THEN "rxne" ELSE "txis"

(* The common prelude: CR2 is programmed and START written.  START ends    *)
(* TC and TCR.  It leaves RXNE alone; nothing in the SDK clears NACKF,     *)
(* BERR, ARLO or a byte left in TXDR, and both outcomes are allowed.       *)
StartTransfer(t) ==
  LET size  == TransferSize(t)
      chunk == Chunk(size)
      rx    == IsReceive(t)
  IN /\ pc[t] = "start"
     /\ hal' = [hal EXCEPT ![t] = [rx |-> rx, at |-> 0, todo |-> chunk,
                                   left |-> size - chunk,
                                   polls |-> TransferTimeout(t)]]
     /\ \E flags, txdr \in BOOLEAN :
          ctl' = [ctl EXCEPT !.phase = "addr", !.rx = rx,
                             !.sadd = TransferAddr(t), !.nbytes = chunk,
                             !.reload = size > NByteMax, !.first = TRUE,
                             !.txfull = @ /\ txdr,
                             !.txdr = IF txdr THEN @ ELSE Junk, !.nackf = @ /\ flags,
                             !.fault = @ /\ flags]
     /\ buf' = IF rx THEN [buf EXCEPT ![t] = << >>] ELSE buf
     /\ Goto(t, IF chunk = 0 THEN "tc" ELSE WaitByte(rx))
     /\ UNCHANGED <<sys, s_i2c_mutex, owner, ErrorCode, call, stage, res, st,
                    found, dev>>

(* Fault: the end of BUSY is taken for success, as HAL_I2C_WaitBusy does.  *)
NotBusy == ctl.phase \in {"tc", "stop"}

TXIS == ctl.phase = "tx" /\ ~ctl.txfull
TC   == ctl.phase = "tc"
TCR  == ctl.phase = "tcr"

(* A wait loop ends with an error.                                         *)
HalFails(t, status, code) ==
  /\ res' = [res EXCEPT ![t] = status]
  /\ ErrorCode' = code
  /\ Goto(t, "ret")
  /\ UNCHANGED <<sys, s_i2c_mutex, owner, call, stage, hal, st, buf, found,
                 ctl, dev>>

(* while (Timeout--) has run out.                                          *)
TimesOut(t) ==
  /\ pc[t] \in Waits
  /\ hal[t].polls = 0
  /\ HalFails(t, "HAL_TIMEOUT", "TIMEOUT")

(* A poll in wait loop w, and a poll that sees nothing.                    *)
Polls(t, w) == pc[t] = w /\ hal[t].polls > 0

(* Fault: the loop does not count its polls.                               *)
PollsForever(t) == UNCHANGED vars

PollsAgain(t) ==
  /\ hal' = [hal EXCEPT ![t].polls = @ - 1]
  /\ UNCHANGED <<sys, s_i2c_mutex, owner, ErrorCode, pc, call, stage, res, st,
                 buf, found, ctl, dev>>

(* One byte has passed: on to the next byte, the next chunk or the end.    *)
BytePassed(t) ==
  /\ hal' = [hal EXCEPT ![t].at = @ + 1, ![t].todo = @ - 1,
                        ![t].polls = TransferTimeout(t)]
  /\ Goto(t, CASE hal[t].todo > 1 -> WaitByte(hal[t].rx)
               [] hal[t].todo <= 1 /\ hal[t].left = 0 -> "tc"
               [] OTHER -> "tcr")

WaitTXIS(t) ==
  /\ Polls(t, "txis")
  /\ \/ /\ ctl.nackf
        /\ HalFails(t, "HAL_ERROR", "NACK")
     \/ /\ ~ctl.nackf
        /\ ctl.fault
        /\ HalFails(t, "HAL_ERROR", "BUS")
     \/ /\ ~ctl.nackf
        /\ ~ctl.fault
        /\ TXIS
        /\ ctl' = [ctl EXCEPT !.txfull = TRUE, !.txdr = TxByte(t, hal[t].at)]
        /\ BytePassed(t)
        /\ UNCHANGED <<sys, s_i2c_mutex, owner, ErrorCode, call, stage, res,
                       st, buf, found, dev>>
     \/ /\ ~ctl.nackf
        /\ ~ctl.fault
        /\ ~TXIS
        /\ PollsAgain(t)

(* Unlike the loop above, this one does not look at NACKF.                 *)
WaitRXNE(t) ==
  /\ Polls(t, "rxne")
  /\ \/ /\ ctl.fault
        /\ HalFails(t, "HAL_ERROR", "BUS")
     \/ /\ ~ctl.fault
        /\ ctl.rxne
        /\ buf' = [buf EXCEPT ![t] = Append(@, ctl.rxdr)]
        /\ ctl' = [ctl EXCEPT !.rxne = FALSE, !.rxdr = Junk]
        /\ BytePassed(t)
        /\ UNCHANGED <<sys, s_i2c_mutex, owner, ErrorCode, call, stage, res,
                       st, found, dev>>
     \/ /\ ~ctl.fault
        /\ ~ctl.rxne
        /\ PollsAgain(t)

(* I2C_AUTOEND_ENABLE is 0, so CR2.AUTOEND stays clear and both functions  *)
(* end here and never in HAL_I2C_WaitBusy.                                 *)
WaitTC(t) ==
  /\ Polls(t, "tc")
  /\ \/ /\ TC
        /\ res' = [res EXCEPT ![t] = "HAL_OK"]
        /\ Goto(t, "ret")
        /\ UNCHANGED <<sys, s_i2c_mutex, owner, ErrorCode, call, stage, hal,
                       st, buf, found, ctl, dev>>
     \/ /\ ~TC
        /\ PollsAgain(t)

(* The next chunk of a transfer longer than NByteMax.                      *)
WaitTCR(t) ==
  LET left == hal[t].left
  IN /\ Polls(t, "tcr")
     /\ \/ /\ TCR
           /\ hal' = [hal EXCEPT ![t].todo = Chunk(left),
                                 ![t].left = left - Chunk(left),
                                 ![t].polls = TransferTimeout(t)]
           /\ ctl' = [ctl EXCEPT !.nbytes = Chunk(left),
                                 !.reload = left > NByteMax,
                                 !.phase = IF ctl.rx THEN "rx" ELSE "tx"]
           /\ Goto(t, WaitByte(hal[t].rx))
           /\ UNCHANGED <<sys, s_i2c_mutex, owner, ErrorCode, call, stage,
                          res, st, buf, found, dev>>
        \/ /\ ~TCR
           /\ PollsAgain(t)

(* The HAL function has returned to the driver, which marks the address of *)
(* a scan and goes to the next, goes from the Transmit of a read to its    *)
(* Receive, or makes the status out of ErrorCode.                          *)
HalReturned(t) ==
  LET ok == res[t] = "HAL_OK"
  IN /\ pc[t] = "ret"
     /\ \/ /\ call[t].fn = "scan"
           /\ found' = [found EXCEPT ![t] = IF ok THEN @ \cup {stage[t]} ELSE @]
           /\ stage' = [stage EXCEPT ![t] = @ + 1]
           /\ Goto(t, IF stage[t] + 1 \in Addrs THEN "start" ELSE "unlock")
           /\ UNCHANGED st
        \/ /\ call[t].fn = "read" /\ stage[t] = 1 /\ ok
           /\ stage' = [stage EXCEPT ![t] = 2]
           /\ Goto(t, "start")
           /\ UNCHANGED <<st, found>>
        \/ /\ call[t].fn # "scan"
           /\ ~(call[t].fn = "read" /\ stage[t] = 1 /\ ok)
           /\ st' = [st EXCEPT ![t] = IF ok THEN "OK" ELSE i2c_map_error(ErrorCode)]
           /\ Goto(t, "unlock")
           /\ UNCHANGED <<stage, found>>
     /\ UNCHANGED <<sys, s_i2c_mutex, owner, ErrorCode, call, hal, res, buf,
                    ctl, dev>>

-----------------------------------------------------------------------------
(* The controller and the devices.  They go on with a transfer whether or  *)
(* not a task still waits for it.                                          *)

NextReg(r) == IF r = MaxReg THEN 0 ELSE r + 1

AfterByte == CASE ctl.nbytes > 1 -> ctl.phase
               [] ctl.nbytes <= 1 /\ ctl.reload -> "tcr"
               [] OTHER -> "tc"

AddressAcked ==
  /\ ctl.phase = "addr"
  /\ ctl.sadd \in Devices
  /\ ctl' = [ctl EXCEPT !.phase = CASE ctl.nbytes = 0 -> "tc"
                                    [] ctl.nbytes > 0 /\ ctl.rx -> "rx"
                                    [] OTHER -> "tx"]
  /\ UNCHANGED dev

(* Nobody at the address, a device too busy to answer it, or a data byte   *)
(* refused: the controller ends the transfer.                              *)
Nacked ==
  /\ \/ ctl.phase = "addr"
     \/ ctl.phase = "tx" /\ ctl.txfull
  /\ ctl' = [ctl EXCEPT !.phase = "stop", !.nackf = TRUE]
  /\ UNCHANGED dev

(* The first byte of a write sets the register pointer (any register, if   *)
(* the byte is no register number), the others go to the registers.        *)
DeviceTakes ==
  LET d == ctl.sadd
  IN /\ ctl.phase = "tx"
     /\ ctl.txfull
     /\ ctl' = [ctl EXCEPT !.txfull = FALSE, !.txdr = Junk, !.first = FALSE,
                           !.nbytes = @ - 1, !.phase = AfterByte]
     /\ \E r \in Regs :
          /\ \A q \in Regs : ctl.txdr = RegByte(q) => r = q
          /\ dev' = [dev EXCEPT ![d] =
                       IF ctl.first
                       THEN [@ EXCEPT !.ptr = r]
                       ELSE [@ EXCEPT !.mem[dev[d].ptr] = ctl.txdr,
                                      !.ptr = NextReg(dev[d].ptr)]]

(* RXDR takes a byte when the one before it has been read.                 *)
DeviceSends ==
  LET d == ctl.sadd
  IN /\ ctl.phase = "rx"
     /\ ~ctl.rxne
     /\ ctl' = [ctl EXCEPT !.rxne = TRUE, !.rxdr = dev[d].mem[dev[d].ptr],
                           !.nbytes = @ - 1, !.phase = AfterByte]
     /\ dev' = [dev EXCEPT ![d].ptr = NextReg(@)]

BusFault ==
  /\ ctl.phase \in {"addr", "tx", "rx"}
  /\ ctl' = [ctl EXCEPT !.phase = "stop", !.fault = TRUE]
  /\ UNCHANGED dev

Bus ==
  /\ AddressAcked \/ Nacked \/ DeviceTakes \/ DeviceSends \/ BusFault
  /\ UNCHANGED <<sys, s_i2c_mutex, owner, ErrorCode, taskVars>>

-----------------------------------------------------------------------------
Driver(t) == Invoke(t) \/ TakeNull(t) \/ i2c_lock(t) \/ i2c_unlock(t) \/ Return(t)

Hal(t) == \/ StartTransfer(t) \/ TimesOut(t) \/ WaitTXIS(t) \/ WaitRXNE(t)
          \/ WaitTC(t) \/ WaitTCR(t) \/ HalReturned(t)

Task(t) == sys # "halted" /\ (Driver(t) \/ Hal(t))

(* After vTaskEndScheduler the processor spins.                            *)
Halted == sys = "halted" /\ UNCHANGED vars

Next == \/ hexa_i2c_init
        \/ \E t \in Tasks : Task(t)
        \/ Bus
        \/ Halted

Spec == Init /\ [][Next]_vars

(* A task inside the driver gets the processor again (FreeRTOS shares it   *)
(* among tasks of one priority); nothing is assumed of bus and devices.    *)
Runs(t) == pc[t] \notin {"idle", "lock"} /\ Task(t)

FairSpec == Spec /\ \A t \in Tasks : WF_vars(Runs(t))
-----------------------------------------------------------------------------
(* Properties.                                                             *)

(* Every variable keeps its type; a HAL error code is one the driver maps. *)
TypeOK ==
  /\ sys \in {"boot", "up", "halted"}
  /\ s_i2c_mutex \in BOOLEAN
  /\ owner \in Tasks \cup {NoTask}
  /\ ErrorCode \in HalErrors
  /\ pc \in [Tasks -> {"idle", "lock", "unlock", "return"} \cup InHal]
  /\ call \in [Tasks -> Calls \cup {NoCall}]
  /\ stage \in [Tasks -> Nat]
  /\ hal \in [Tasks -> HalFrame]
  /\ res \in [Tasks -> HalStatus]
  /\ st \in [Tasks -> Statuses]
  /\ buf \in [Tasks -> Seq(Bytes)]
  /\ found \in [Tasks -> SUBSET Addrs]
  /\ ctl \in Controller
  /\ dev \in [Devices -> Device]

(* The tasks between i2c_lock and i2c_unlock.                              *)
Inside(t) == pc[t] \in InHal \cup {"unlock"}

(* Only the task that holds the mutex is between i2c_lock and i2c_unlock,  *)
(* so the controller and s_bus.ErrorCode are driven by one task at a time. *)
BusExclusion == \A t \in Tasks : Inside(t) <=> owner = t

(* The status a call returns is the outcome of its own transfer, although  *)
(* it is read from the handle all tasks share: a timeout is reported as    *)
(* ERR_TIMEOUT, an error as NACK or BUS, and no failure as HEXA_OK.        *)
StatusIsOwn ==
  \A t \in Tasks :
    pc[t] \in {"unlock", "return"} /\ call[t].fn # "scan" =>
      \/ st[t] = "OK" /\ res[t] = "HAL_OK"
      \/ st[t] = "ERR_TIMEOUT" /\ res[t] = "HAL_TIMEOUT"
      \/ st[t] \in {"ERR_NACK", "ERR_BUS"} /\ res[t] = "HAL_ERROR"
      \/ st[t] = "ERR_PARAM" /\ call[t].fn = "write" /\ call[t].len > TmpMax

(* No transfer has failed since power-on: nothing in the SDK puts          *)
(* s_bus.ErrorCode back to I2C_ERROR_NONE.                                 *)
NeverFailed == ErrorCode = "NONE"

RegAt(r, n) == (r + n) % (MaxReg + 1)

(* A register read that returns HEXA_OK delivers an instantaneous picture  *)
(* of the registers it asked for, whatever other tasks read and write in   *)
(* between, as long as no transfer has ever failed.                        *)
OkReadIsRegister(t) ==
  pc[t] = "unlock" /\ call[t].fn = "read" /\ st[t] = "OK" =>
    LET c == call[t]
    IN buf[t] = [i \in 1 .. c.len |-> dev[c.addr].mem[RegAt(c.reg, i - 1)]]

ReadIsSnapshot == NeverFailed => \A t \in Tasks : OkReadIsRegister(t)

(* A register write that returns HEXA_OK has put all its bytes, in order,  *)
(* into the registers it named, and nobody has overwritten them meanwhile. *)
(* (Of a write that goes round all registers the last bytes remain.)       *)
WriteIsComplete ==
  NeverFailed =>
    \A t \in Tasks :
      pc[t] = "unlock" /\ call[t].fn = "write" /\ st[t] = "OK" =>
        LET c == call[t]
        IN \A i \in 0 .. c.len - 1 :
             i + MaxReg + 1 >= c.len =>
               dev[c.addr].mem[RegAt(c.reg, i)] = DataByte(t, i)

(* A call that names an address where no device sits never returns         *)
(* HEXA_OK, and a scan never marks such an address, even when a byte of an *)
(* abandoned transfer is still in RXDR.                                    *)
AbsentNeverOk ==
  \A t \in Tasks :
    pc[t] = "unlock" =>
      /\ st[t] = "OK" /\ call[t].fn # "scan" => call[t].addr \in Devices
      /\ found[t] \subseteq Devices

(* The HAL never asks the controller for more than the length it was       *)
(* given: bytes passed, bytes to go and later chunks add up to it.         *)
ChunksAddUp ==
  \A t \in Tasks :
    pc[t] \in Waits =>
      /\ hal[t].at + hal[t].todo + hal[t].left = TransferSize(t)
      /\ hal[t].todo <= NByteMax

(* However the bus and the devices behave, a task that has the mutex gives *)
(* it back: every wait loop of the HAL is bounded.                         *)
MutexIsReleased == \A t \in Tasks : owner = t ~> owner # t

(* Whatever happens, the driver is a mutex-protected section.              *)
where == [t \in Tasks |-> CASE pc[t] = "lock" -> "waiting"
                            [] Inside(t) -> "inside"
                            [] OTHER -> "out"]

Lock == INSTANCE BusLock

(* The driver implements the lock specification.                           *)
ImplementsLock == Lock!Spec

(* docs/05-i2c.md, table of errors: HEXA_OK means that all is well; for a  *)
(* read, that the bytes are those of the registers asked for.              *)
OkReadIsRight == \A t \in Tasks : OkReadIsRegister(t)
=============================================================================
