--------------------------- MODULE HexaI2CProofs ---------------------------
(***************************************************************************)
(* Machine-checked facts about HexaI2C, for every number of tasks, every   *)
(* set of devices, every set of calls and every value of the limits.       *)
(***************************************************************************)
EXTENDS HexaI2C, Integers, TLAPS

-----------------------------------------------------------------------------
(* Facts about the operators of the model.                                 *)

(* A chunk is no longer than the transfer and than NByteMax, and empty     *)
(* only when the transfer is (the comparison with I2C_NBYTE_MAX in         *)
(* HAL_I2C_Master_Transmit and HAL_I2C_Master_Receive).                    *)
LEMMA ChunkFits ==
  ASSUME NEW size \in Nat
  PROVE  /\ Chunk(size) \in Nat
         /\ Chunk(size) <= size
         /\ Chunk(size) <= NByteMax
         /\ size - Chunk(size) \in Nat
         /\ size # 0 => Chunk(size) # 0
  BY LimitsAssumption DEF Chunk

(* Every call the driver accepts has a length, so every transfer has one.  *)
LEMMA TransferTypes ==
  ASSUME TypeOK, NEW t \in Tasks
  PROVE  /\ TransferSize(t) \in Nat
         /\ TransferTimeout(t) \in Nat
         /\ call[t].len \in Nat
         /\ call[t].addr \in Addrs
         /\ call[t].reg \in Regs
         /\ IsReceive(t) \in BOOLEAN
  <1>1. call[t] \in Calls \/ call[t] = NoCall
    BY DEF TypeOK
  <1>2. call[t].len \in Nat /\ call[t].addr \in Addrs /\ call[t].reg \in Regs
    BY <1>1, CallsAssumption, MaxAssumption DEF CallSet, NoCall, Addrs, Regs
  <1>3. TransferSize(t) \in Nat /\ TransferTimeout(t) \in Nat
    BY <1>2, LimitsAssumption DEF TransferSize, TransferTimeout
  <1>. QED
    BY <1>2, <1>3 DEF IsReceive

-----------------------------------------------------------------------------
(* The inductive invariant.  The type invariant is not inductive alone:    *)
(* the counters of the HAL and of the controller stay natural numbers only *)
(* because a wait for a byte is entered with a byte to go.                 *)

(* Where a task is in the HAL tells what it still has to move.             *)
FrameFits(t) ==
  /\ pc[t] \in Waits =>
       /\ hal[t].at + hal[t].todo + hal[t].left = TransferSize(t)
       /\ hal[t].todo <= NByteMax
  /\ pc[t] \in {"txis", "rxne"} => hal[t].todo # 0
  /\ pc[t] \in {"tc", "tcr"} => hal[t].todo = 0
  /\ pc[t] = "tcr" => hal[t].left # 0
  /\ pc[t] \in InHal /\ call[t].fn = "scan" => stage[t] \in Addrs

(* The controller waits for a byte only when its counter asks for one, and *)
(* only a device has answered to the address.                              *)
ControllerFits ==
  /\ ctl.phase \in {"tx", "rx"} => ctl.nbytes # 0
  /\ ctl.phase \in {"tx", "rx", "tcr"} => ctl.sadd \in Devices

(* What the last HAL function returned agrees with the shared ErrorCode    *)
(* as long as the task is inside.                                          *)
ErrorFits(t) ==
  pc[t] = "ret" =>
    \/ res[t] = "HAL_OK"
    \/ res[t] = "HAL_TIMEOUT" /\ ErrorCode = "TIMEOUT"
    \/ res[t] = "HAL_ERROR" /\ ErrorCode \in {"NACK", "BUS"}

(* A status that is about to be returned is the task's own.                *)
StatusFits(t) ==
  pc[t] \in {"unlock", "return"} /\ call[t].fn # "scan" =>
    \/ st[t] = "OK" /\ res[t] = "HAL_OK"
    \/ st[t] = "ERR_TIMEOUT" /\ res[t] = "HAL_TIMEOUT"
    \/ st[t] \in {"ERR_NACK", "ERR_BUS"} /\ res[t] = "HAL_ERROR"
    \/ st[t] = "ERR_PARAM" /\ call[t].fn = "write" /\ call[t].len > TmpMax

IInv == /\ TypeOK
        /\ BusExclusion
        /\ ControllerFits
        /\ \A t \in Tasks : FrameFits(t) /\ ErrorFits(t) /\ StatusFits(t)

(* The state before hexa_i2c_init satisfies the invariant.                 *)
LEMMA InitIInv == Init => IInv
  <1> SUFFICES ASSUME Init PROVE IInv
    OBVIOUS
  <1>1. TypeOK
    <2>1. 0 \in Addrs /\ 0 \in Regs
      BY MaxAssumption DEF Addrs, Regs
    <2>2. ctl \in Controller
      BY <2>1 DEF Init, Controller, Phases, Bytes
    <2>3. dev \in [Devices -> Device]
      <3>1. [ptr |-> 0, mem |-> [r \in Regs |-> Power]] \in Device
        BY <2>1 DEF Device, Bytes
      <3>. QED
        BY <3>1 DEF Init
    <2>4. hal \in [Tasks -> HalFrame]
      BY DEF Init, HalFrame, NoFrame
    <2>5. buf \in [Tasks -> Seq(Bytes)]
      BY DEF Init
    <2>. QED
      BY <2>2, <2>3, <2>4, <2>5
      DEF Init, TypeOK, HalErrors, HalStatus, Statuses
  <1>2. BusExclusion
    BY TasksAssumption DEF Init, BusExclusion, Inside, InHal, Waits
  <1>3. ControllerFits
    BY DEF Init, ControllerFits
  <1>4. \A t \in Tasks : FrameFits(t) /\ ErrorFits(t) /\ StatusFits(t)
    BY DEF Init, FrameFits, InHal, ErrorFits, StatusFits, Waits
  <1>. QED
    BY <1>1, <1>2, <1>3, <1>4 DEF IInv

-----------------------------------------------------------------------------
(* Every step preserves the invariant: first what all steps have in common, *)
(* then one lemma per action.                                              *)

(* A task keeps its part of the invariant when none of its locals change   *)
(* and, while it looks at ErrorCode, nobody writes it.                     *)
LEMMA Undisturbed ==
  ASSUME NEW u \in Tasks, FrameFits(u), ErrorFits(u), StatusFits(u),
         pc'[u] = pc[u], call'[u] = call[u], stage'[u] = stage[u],
         hal'[u] = hal[u], res'[u] = res[u], st'[u] = st[u],
         pc[u] = "ret" => ErrorCode' = ErrorCode
  PROVE  FrameFits(u)' /\ ErrorFits(u)' /\ StatusFits(u)'
  <1>1. TransferSize(u)' = TransferSize(u)
    BY DEF TransferSize
  <1>. QED
    BY <1>1 DEF FrameFits, InHal, Waits, ErrorFits, StatusFits

(* Only one task is inside, so no other task can be looking at ErrorCode.  *)
LEMMA OnlyOneInside ==
  ASSUME BusExclusion, NEW t \in Tasks, NEW u \in Tasks,
         Inside(t), Inside(u)
  PROVE  t = u
  BY DEF BusExclusion

(* hexa_i2c_init touches only the handle and the controller.               *)
LEMMA InitStepIInv == IInv /\ hexa_i2c_init => IInv'
  <1> SUFFICES ASSUME IInv, hexa_i2c_init PROVE IInv'
    OBVIOUS
  <1> USE DEF hexa_i2c_init, taskVars
  <1>1. TypeOK'
    <2>1. ctl' \in Controller
      BY DEF IInv, TypeOK, Controller, Phases
    <2>. QED
      BY <2>1 DEF IInv, TypeOK
  <1>2. BusExclusion' /\ ControllerFits'
    BY DEF IInv, TypeOK, BusExclusion, Inside, ControllerFits, Controller
  <1>3. ASSUME NEW u \in Tasks PROVE (FrameFits(u) /\ ErrorFits(u) /\ StatusFits(u))'
    BY Undisturbed DEF IInv
  <1>. QED
    BY <1>1, <1>2, <1>3 DEF IInv

(* A call that enters the driver, or is refused for its length.            *)
LEMMA InvokeIInv == ASSUME IInv, NEW t \in Tasks, Invoke(t) PROVE IInv'
  <1> USE DEF Invoke, Goto
  <1>1. PICK c \in Calls :
          /\ call' = [call EXCEPT ![t] = c]
          /\ IF c.fn = "write" /\ c.len > TmpMax
               THEN /\ st' = [st EXCEPT ![t] = "ERR_PARAM"]
                    /\ pc' = [pc EXCEPT ![t] = "return"]
               ELSE /\ pc' = [pc EXCEPT ![t] = "lock"]
                    /\ UNCHANGED st
    OBVIOUS
  <1>2. TypeOK'
    <2>1. call' \in [Tasks -> Calls \cup {NoCall}]
      BY <1>1 DEF IInv, TypeOK
    <2>2. st' \in [Tasks -> Statuses]
      BY <1>1 DEF IInv, TypeOK, Statuses
    <2>3. pc' \in [Tasks -> {"idle", "lock", "unlock", "return"} \cup InHal]
      BY <1>1 DEF IInv, TypeOK
    <2>. QED
      BY <2>1, <2>2, <2>3 DEF IInv, TypeOK
  <1>3. BusExclusion' /\ ControllerFits'
    BY <1>1 DEF IInv, TypeOK, BusExclusion, Inside, InHal, Waits, ControllerFits
  <1>4. ASSUME NEW u \in Tasks PROVE (FrameFits(u) /\ ErrorFits(u) /\ StatusFits(u))'
    <2>1. CASE u # t
      BY <2>1, <1>1, Undisturbed DEF IInv, TypeOK
    <2>2. CASE u = t
      <3>1. call'[t] = c
        BY <1>1 DEF IInv, TypeOK
      <3>2. CASE c.fn = "write" /\ c.len > TmpMax
        <4>1. pc'[t] = "return" /\ st'[t] = "ERR_PARAM"
          BY <1>1, <3>2 DEF IInv, TypeOK
        <4>. QED
          BY <4>1, <3>1, <3>2, <2>2 DEF FrameFits, InHal, ErrorFits, StatusFits, Waits
      <3>3. CASE ~(c.fn = "write" /\ c.len > TmpMax)
        <4>1. pc'[t] = "lock"
          BY <1>1, <3>3 DEF IInv, TypeOK
        <4>. QED
          BY <4>1, <2>2 DEF FrameFits, InHal, ErrorFits, StatusFits, Waits
      <3>. QED
        BY <3>2, <3>3
    <2>. QED
      BY <2>1, <2>2
  <1>. QED
    BY <1>2, <1>3, <1>4 DEF IInv

(* Taking the mutex through a NULL handle stops the system as it is.       *)
LEMMA TakeNullIInv == ASSUME IInv, NEW t \in Tasks, TakeNull(t) PROVE IInv'
  <1> USE DEF TakeNull, taskVars
  <1>1. TypeOK' /\ BusExclusion' /\ ControllerFits'
    BY DEF IInv, TypeOK, BusExclusion, Inside, ControllerFits
  <1>2. ASSUME NEW u \in Tasks PROVE (FrameFits(u) /\ ErrorFits(u) /\ StatusFits(u))'
    BY Undisturbed DEF IInv
  <1>. QED
    BY <1>1, <1>2 DEF IInv

(* The task that gets the mutex is then the only one inside.               *)
LEMMA LockIInv == ASSUME IInv, NEW t \in Tasks, i2c_lock(t) PROVE IInv'
  <1> USE DEF i2c_lock, MutexIsFree, Goto
  <1>1. TypeOK'
    BY DEF IInv, TypeOK, InHal
  <1>2. BusExclusion' /\ ControllerFits'
    BY TasksAssumption
    DEF IInv, TypeOK, BusExclusion, Inside, InHal, Waits, ControllerFits
  <1>3. ASSUME NEW u \in Tasks PROVE (FrameFits(u) /\ ErrorFits(u) /\ StatusFits(u))'
    <2>1. CASE u # t
      BY <2>1, Undisturbed DEF IInv, TypeOK
    <2>2. CASE u = t
      <3>1. pc'[t] = "start" /\ stage'[t] = IF call[t].fn = "scan" THEN 0 ELSE 1
        BY DEF IInv, TypeOK
      <3>. QED
        BY <3>1, <2>2, MaxAssumption
        DEF FrameFits, InHal, ErrorFits, StatusFits, Waits, Addrs
    <2>. QED
      BY <2>1, <2>2
  <1>. QED
    BY <1>1, <1>2, <1>3 DEF IInv

(* The task that gives the mutex back leaves nobody inside.                *)
LEMMA UnlockIInv == ASSUME IInv, NEW t \in Tasks, i2c_unlock(t) PROVE IInv'
  <1> USE DEF i2c_unlock, Goto
  <1>1. TypeOK'
    BY DEF IInv, TypeOK
  <1>2. BusExclusion' /\ ControllerFits'
    BY TasksAssumption
    DEF IInv, TypeOK, BusExclusion, Inside, InHal, Waits, ControllerFits
  <1>3. ASSUME NEW u \in Tasks PROVE (FrameFits(u) /\ ErrorFits(u) /\ StatusFits(u))'
    <2>1. CASE u # t
      BY <2>1, Undisturbed DEF IInv, TypeOK
    <2>2. CASE u = t
      <3>1. pc'[t] = "return"
        BY DEF IInv, TypeOK
      <3>. QED
        BY <3>1, <2>2 DEF IInv, FrameFits, InHal, ErrorFits, StatusFits, Waits
    <2>. QED
      BY <2>1, <2>2
  <1>. QED
    BY <1>1, <1>2, <1>3 DEF IInv

(* A task that returns takes its locals with it.                           *)
LEMMA ReturnIInv == ASSUME IInv, NEW t \in Tasks, Return(t) PROVE IInv'
  <1> USE DEF Return, Goto
  <1>1. TypeOK'
    BY DEF IInv, TypeOK, HalStatus, Statuses, HalFrame, NoFrame
  <1>2. BusExclusion' /\ ControllerFits'
    BY DEF IInv, TypeOK, BusExclusion, Inside, InHal, Waits, ControllerFits
  <1>3. ASSUME NEW u \in Tasks PROVE (FrameFits(u) /\ ErrorFits(u) /\ StatusFits(u))'
    <2>1. CASE u # t
      BY <2>1, Undisturbed DEF IInv, TypeOK
    <2>2. CASE u = t
      <3>1. pc'[t] = "idle"
        BY DEF IInv, TypeOK
      <3>. QED
        BY <3>1, <2>2 DEF FrameFits, InHal, ErrorFits, StatusFits, Waits
    <2>. QED
      BY <2>1, <2>2
  <1>. QED
    BY <1>1, <1>2, <1>3 DEF IInv

(* A task inside may write ErrorCode without disturbing any other task.    *)
LEMMA OthersUndisturbed ==
  ASSUME IInv, NEW t \in Tasks, Inside(t),
         NEW u \in Tasks, u # t,
         pc'[u] = pc[u], call'[u] = call[u], stage'[u] = stage[u],
         hal'[u] = hal[u], res'[u] = res[u], st'[u] = st[u]
  PROVE  FrameFits(u)' /\ ErrorFits(u)' /\ StatusFits(u)'
  <1>1. pc[u] # "ret"
    BY OnlyOneInside DEF IInv, Inside, InHal
  <1>. QED
    BY <1>1, Undisturbed DEF IInv

(* A step that leaves call and stage alone leaves the scan's address alone.*)
LEMMA StageStays ==
  ASSUME IInv, NEW t \in Tasks, pc[t] \in InHal, UNCHANGED <<call, stage>>
  PROVE  call'[t].fn = "scan" => stage'[t] \in Addrs
  BY DEF IInv, FrameFits

(* A task that stays inside keeps the mutex to itself.                     *)
LEMMA StaysInside ==
  ASSUME IInv, NEW t \in Tasks, Inside(t), owner' = owner,
         NEW label, pc' = [pc EXCEPT ![t] = label],
         label \in InHal \cup {"unlock"}
  PROVE  /\ BusExclusion'
         /\ pc' \in [Tasks -> {"idle", "lock", "unlock", "return"} \cup InHal]
         /\ pc'[t] = label
         /\ \A u \in Tasks : u # t => pc'[u] = pc[u]
  BY DEF IInv, TypeOK, BusExclusion, Inside

(* A transfer starts with a chunk that fits its length.                    *)
LEMMA StartIInv == ASSUME IInv, NEW t \in Tasks, StartTransfer(t) PROVE IInv'
  <1> DEFINE size  == TransferSize(t)
             chunk == Chunk(size)
             rx    == IsReceive(t)
             label == IF chunk = 0 THEN "tc" ELSE WaitByte(rx)
             frame == [rx |-> rx, at |-> 0, todo |-> chunk, left |-> size - chunk,
                       polls |-> TransferTimeout(t)]
  <1>1. /\ size \in Nat /\ chunk \in Nat /\ rx \in BOOLEAN
        /\ size - chunk \in Nat /\ chunk <= NByteMax /\ (size # 0 => chunk # 0)
        /\ TransferTimeout(t) \in Nat
    BY TransferTypes, ChunkFits DEF IInv
  <1>2. /\ pc[t] = "start"
        /\ hal' = [hal EXCEPT ![t] = frame]
        /\ pc' = [pc EXCEPT ![t] = label]
        /\ buf' = IF rx THEN [buf EXCEPT ![t] = << >>] ELSE buf
        /\ UNCHANGED <<sys, s_i2c_mutex, owner, ErrorCode, call, stage, res, st,
                       found, dev>>
    BY DEF StartTransfer, Goto
  <1>3. TransferAddr(t) \in Addrs
    BY <1>2, TransferTypes DEF IInv, TransferAddr, FrameFits, InHal, Waits
  <1>4. PICK flags \in BOOLEAN, txdr \in BOOLEAN :
          ctl' = [ctl EXCEPT !.phase = "addr", !.rx = rx,
                             !.sadd = TransferAddr(t), !.nbytes = chunk,
                             !.reload = size > NByteMax, !.first = TRUE,
                             !.txfull = @ /\ txdr,
                             !.txdr = IF txdr THEN @ ELSE Junk,
                             !.nackf = @ /\ flags,
                             !.fault = @ /\ flags]
    BY DEF StartTransfer
  <1> HIDE DEF size, chunk, rx
  <1>5. label \in {"tc", "txis", "rxne"}
    BY DEF WaitByte
  <1>6. /\ BusExclusion' /\ pc'[t] = label
        /\ pc' \in [Tasks -> {"idle", "lock", "unlock", "return"} \cup InHal]
        /\ \A u \in Tasks : u # t => pc'[u] = pc[u]
    BY <1>2, <1>5, StaysInside DEF Inside, InHal, Waits
  <1>7. ctl' \in Controller /\ ctl'.phase = "addr"
    <2>1. ctl \in Controller
      BY DEF IInv, TypeOK
    <2> DEFINE reload == size > NByteMax
               txfull == ctl.txfull /\ txdr
               nackf  == ctl.nackf /\ flags
               fault  == ctl.fault /\ flags
               byte   == IF txdr THEN ctl.txdr ELSE Junk
    <2>3. ctl' = [ctl EXCEPT !.phase = "addr", !.rx = rx,
                             !.sadd = TransferAddr(t), !.nbytes = chunk,
                             !.reload = reload, !.first = TRUE,
                             !.txfull = txfull, !.txdr = byte,
                             !.nackf = nackf, !.fault = fault]
      BY <1>4
    <2>2. /\ reload \in BOOLEAN /\ txfull \in BOOLEAN /\ nackf \in BOOLEAN
          /\ fault \in BOOLEAN /\ byte \in Bytes
      BY <2>1 DEF Controller, Bytes
    <2> HIDE DEF reload, txfull, nackf, fault, byte, size, chunk, rx
    <2>4. ctl' = [phase |-> "addr", rx |-> rx, sadd |-> TransferAddr(t),
                  nbytes |-> chunk, reload |-> reload, first |-> TRUE,
                  txfull |-> txfull, txdr |-> byte, rxne |-> ctl.rxne,
                  rxdr |-> ctl.rxdr, nackf |-> nackf, fault |-> fault]
      BY <2>1, <2>3 DEF Controller
    <2>5. ctl.rxne \in BOOLEAN /\ ctl.rxdr \in Bytes
      BY <2>1 DEF Controller
    <2>. QED
      BY <1>1, <1>3, <2>2, <2>4, <2>5 DEF Controller, Phases
  <1>8. hal' \in [Tasks -> HalFrame] /\ hal'[t] = frame
    BY <1>1, <1>2 DEF IInv, TypeOK, HalFrame
  <1>9. TypeOK'
    BY <1>2, <1>6, <1>7, <1>8 DEF IInv, TypeOK
  <1>10. ControllerFits'
    BY <1>7 DEF ControllerFits
  <1>11. ASSUME NEW u \in Tasks PROVE (FrameFits(u) /\ ErrorFits(u) /\ StatusFits(u))'
    <2>1. CASE u # t
      BY <2>1, <1>2, <1>6, OthersUndisturbed DEF IInv, TypeOK, Inside, InHal
    <2>2. CASE u = t
      <3>1. size = TransferSize(t)'
        BY <1>2 DEF size, TransferSize
      <3>2. chunk + (size - chunk) = size /\ (chunk = 0 => size = 0)
        BY <1>1
      <3>3. /\ hal'[t].at = 0 /\ hal'[t].todo = chunk
            /\ hal'[t].left = size - chunk
        BY <1>8
      <3>4. call'[t].fn = "scan" => stage'[t] \in Addrs
        BY <1>2, StageStays DEF InHal
      <3>5. chunk # 0 => label \in {"txis", "rxne"}
        BY DEF WaitByte
      <3>6. chunk = 0 => label = "tc"
        OBVIOUS
      <3> HIDE DEF label, frame
      <3>7. FrameFits(t)'
        BY <1>1, <1>5, <1>6, <3>1, <3>2, <3>3, <3>4, <3>5, <3>6
        DEF FrameFits, Waits
      <3>. QED
        BY <1>5, <1>6, <2>2, <3>7 DEF ErrorFits, StatusFits
    <2>. QED
      BY <2>1, <2>2
  <1>. QED
    BY <1>6, <1>9, <1>10, <1>11 DEF IInv

(* The three ways a HAL function fails.                                    *)
LEMMA HalFailsIInv ==
  ASSUME IInv, NEW t \in Tasks, pc[t] \in Waits, NEW status, NEW code,
         HalFails(t, status, code),
         \/ status = "HAL_TIMEOUT" /\ code = "TIMEOUT"
         \/ status = "HAL_ERROR" /\ code \in {"NACK", "BUS"}
  PROVE  IInv'
  <1> USE DEF HalFails, Goto
  <1>1. /\ BusExclusion' /\ pc'[t] = "ret"
        /\ pc' \in [Tasks -> {"idle", "lock", "unlock", "return"} \cup InHal]
        /\ \A u \in Tasks : u # t => pc'[u] = pc[u]
    BY StaysInside DEF Inside, InHal
  <1>2. TypeOK'
    BY <1>1 DEF IInv, TypeOK, HalStatus, HalErrors
  <1>3. ControllerFits'
    BY DEF IInv, ControllerFits
  <1>4. ASSUME NEW u \in Tasks PROVE (FrameFits(u) /\ ErrorFits(u) /\ StatusFits(u))'
    <2>1. CASE u # t
      BY <2>1, <1>1, OthersUndisturbed DEF IInv, TypeOK, Inside, InHal
    <2>2. CASE u = t
      BY <1>1, <2>2 DEF IInv, TypeOK, FrameFits, InHal, ErrorFits, StatusFits, Waits
    <2>. QED
      BY <2>1, <2>2
  <1>. QED
    BY <1>1, <1>2, <1>3, <1>4 DEF IInv

(* A wait loop that runs out is one of the ways a HAL function fails.      *)
LEMMA TimesOutIInv == ASSUME IInv, NEW t \in Tasks, TimesOut(t) PROVE IInv'
  BY HalFailsIInv DEF TimesOut

(* A poll that sees nothing only counts.                                   *)
LEMMA PollsAgainIInv ==
  ASSUME IInv, NEW t \in Tasks, NEW w \in Waits, Polls(t, w), PollsAgain(t)
  PROVE  IInv'
  <1> USE DEF Polls, PollsAgain
  <1>1. hal' \in [Tasks -> HalFrame] /\ hal'[t] = [hal[t] EXCEPT !.polls = @ - 1]
    <2>1. hal[t] \in HalFrame /\ hal[t].polls \in Nat
      BY DEF IInv, TypeOK, HalFrame
    <2>2. hal[t].polls - 1 \in Nat
      BY <2>1
    <2>3. [hal[t] EXCEPT !.polls = @ - 1] \in HalFrame
      BY <2>1, <2>2 DEF HalFrame
    <2>. QED
      BY <2>3 DEF IInv, TypeOK
  <1>2. TypeOK' /\ BusExclusion' /\ ControllerFits'
    BY <1>1 DEF IInv, TypeOK, BusExclusion, Inside, ControllerFits
  <1>3. ASSUME NEW u \in Tasks PROVE (FrameFits(u) /\ ErrorFits(u) /\ StatusFits(u))'
    <2>1. CASE u # t
      BY <2>1, Undisturbed DEF IInv, TypeOK
    <2>2. CASE u = t
      <3>1. TransferSize(t)' = TransferSize(t)
        BY DEF TransferSize
      <3>2. /\ hal'[t].at = hal[t].at /\ hal'[t].todo = hal[t].todo
            /\ hal'[t].left = hal[t].left
        BY <1>1 DEF IInv, TypeOK, HalFrame
      <3>. QED
        BY <2>2, <3>1, <3>2 DEF IInv, FrameFits, InHal, Waits, ErrorFits, StatusFits
    <2>. QED
      BY <2>1, <2>2
  <1>. QED
    BY <1>2, <1>3 DEF IInv

(* After a byte has passed, the frame still adds up and the next wait fits *)
(* what is left to do.                                                     *)
LEMMA BytePassedFits ==
  ASSUME IInv, NEW t \in Tasks, pc[t] \in {"txis", "rxne"}, BytePassed(t),
         UNCHANGED <<owner, call, stage>>
  PROVE  /\ hal' \in [Tasks -> HalFrame]
         /\ BusExclusion'
         /\ pc' \in [Tasks -> {"idle", "lock", "unlock", "return"} \cup InHal]
         /\ \A u \in Tasks : u # t => pc'[u] = pc[u] /\ hal'[u] = hal[u]
         /\ (FrameFits(t) /\ ErrorFits(t) /\ StatusFits(t))'
  <1> DEFINE label == CASE hal[t].todo > 1 -> WaitByte(hal[t].rx)
                        [] hal[t].todo <= 1 /\ hal[t].left = 0 -> "tc"
                        [] OTHER -> "tcr"
             frame == [hal[t] EXCEPT !.at = @ + 1, !.todo = @ - 1,
                                     !.polls = TransferTimeout(t)]
  <1>1. hal[t] \in HalFrame /\ hal \in [Tasks -> HalFrame]
    BY DEF IInv, TypeOK
  <1>2. /\ hal[t].at \in Nat /\ hal[t].todo \in Nat /\ hal[t].left \in Nat
        /\ hal[t].todo # 0
        /\ hal[t].at + hal[t].todo + hal[t].left = TransferSize(t)
        /\ hal[t].todo <= NByteMax
    BY <1>1 DEF IInv, FrameFits, InHal, Waits, HalFrame
  <1>3. TransferTimeout(t) \in Nat /\ TransferSize(t)' = TransferSize(t)
    BY TransferTypes DEF IInv, TransferSize
  <1>4. frame \in HalFrame
    <2>1. hal[t].at + 1 \in Nat /\ hal[t].todo - 1 \in Nat
      BY <1>2
    <2>. QED
      BY <1>1, <1>3, <2>1 DEF HalFrame
  <1>5. hal' = [hal EXCEPT ![t] = frame]
    BY <1>1 DEF BytePassed
  <1>6. /\ hal' \in [Tasks -> HalFrame] /\ hal'[t] = frame
        /\ \A u \in Tasks : u # t => hal'[u] = hal[u]
    BY <1>1, <1>4, <1>5
  <1>7. /\ hal'[t].at = hal[t].at + 1 /\ hal'[t].todo = hal[t].todo - 1
        /\ hal'[t].left = hal[t].left
    BY <1>1, <1>6 DEF HalFrame
  <1>8. /\ label \in Waits
        /\ label \in {"txis", "rxne"} => hal[t].todo > 1
        /\ label \in {"tc", "tcr"} => hal[t].todo <= 1
        /\ label = "tcr" => hal[t].left # 0
    BY <1>2 DEF Waits, WaitByte
  <1>9. pc' = [pc EXCEPT ![t] = label]
    BY DEF BytePassed, Goto
  <1> HIDE DEF label, frame
  <1>10. /\ BusExclusion' /\ pc'[t] = label
         /\ pc' \in [Tasks -> {"idle", "lock", "unlock", "return"} \cup InHal]
         /\ \A u \in Tasks : u # t => pc'[u] = pc[u]
    BY <1>8, <1>9, StaysInside DEF Inside, InHal, Waits
  <1>11. FrameFits(t)'
    BY <1>2, <1>3, <1>7, <1>8, <1>10, LimitsAssumption, StageStays
    DEF FrameFits, InHal, Waits
  <1>12. (ErrorFits(t) /\ StatusFits(t))'
    BY <1>8, <1>10 DEF ErrorFits, StatusFits, Waits
  <1>. QED
    BY <1>6, <1>10, <1>11, <1>12

(* The byte the driver sends is a byte.                                    *)
LEMMA TxByteTypes ==
  ASSUME TypeOK, NEW t \in Tasks, NEW at \in Nat
  PROVE  TxByte(t, at) \in Bytes
  <1>1. call[t].reg \in Nat
    BY TransferTypes, MaxAssumption DEF Regs
  <1>2. CASE at = 0
    BY <1>1, <1>2 DEF TxByte, RegByte, Bytes
  <1>3. CASE at # 0
    BY <1>3 DEF TxByte, DataByte, Bytes
  <1>. QED
    BY <1>2, <1>3

(* The wait for TXIS sends a byte, fails or polls again.                   *)
LEMMA WaitTXISIInv == ASSUME IInv, NEW t \in Tasks, WaitTXIS(t) PROVE IInv'
  <1>1. pc[t] = "txis" /\ Polls(t, "txis")
    BY DEF WaitTXIS, Polls
  <1>2. CASE \E code \in {"NACK", "BUS"} : HalFails(t, "HAL_ERROR", code)
    BY <1>1, <1>2, HalFailsIInv DEF Waits
  <1>3. CASE PollsAgain(t)
    BY <1>1, <1>3, PollsAgainIInv DEF Waits
  <1>4. CASE /\ TXIS
             /\ ctl' = [ctl EXCEPT !.txfull = TRUE, !.txdr = TxByte(t, hal[t].at)]
             /\ BytePassed(t)
             /\ UNCHANGED <<sys, s_i2c_mutex, owner, ErrorCode, call, stage, res,
                            st, buf, found, dev>>
    <2>1. /\ ctl' \in Controller /\ ctl'.phase = ctl.phase /\ ctl'.nbytes = ctl.nbytes
          /\ ctl'.sadd = ctl.sadd
      <3>1. hal[t].at \in Nat /\ ctl \in Controller
        BY DEF IInv, TypeOK, HalFrame
      <3>2. TxByte(t, hal[t].at) \in Bytes
        BY <3>1, TxByteTypes DEF IInv
      <3>. QED
        BY <1>4, <3>1, <3>2 DEF Controller
    <2>2. /\ hal' \in [Tasks -> HalFrame] /\ BusExclusion'
          /\ pc' \in [Tasks -> {"idle", "lock", "unlock", "return"} \cup InHal]
          /\ \A u \in Tasks : u # t => pc'[u] = pc[u] /\ hal'[u] = hal[u]
          /\ (FrameFits(t) /\ ErrorFits(t) /\ StatusFits(t))'
      BY <1>1, <1>4, BytePassedFits
    <2>3. TypeOK'
      BY <1>4, <2>1, <2>2 DEF IInv, TypeOK
    <2>4. ControllerFits'
      BY <2>1 DEF IInv, ControllerFits
    <2>5. ASSUME NEW u \in Tasks PROVE (FrameFits(u) /\ ErrorFits(u) /\ StatusFits(u))'
      <3>1. CASE u = t
        BY <3>1, <2>2
      <3>2. CASE u # t
        BY <3>2, <1>4, <2>2, Undisturbed DEF IInv
      <3>. QED
        BY <3>1, <3>2
    <2>. QED
      BY <2>2, <2>3, <2>4, <2>5 DEF IInv
  <1>. QED
    BY <1>2, <1>3, <1>4 DEF WaitTXIS

(* The wait for RXNE stores a byte, fails or polls again.                  *)
LEMMA WaitRXNEIInv == ASSUME IInv, NEW t \in Tasks, WaitRXNE(t) PROVE IInv'
  <1>1. pc[t] = "rxne" /\ Polls(t, "rxne")
    BY DEF WaitRXNE, Polls
  <1>2. CASE HalFails(t, "HAL_ERROR", "BUS")
    BY <1>1, <1>2, HalFailsIInv DEF Waits
  <1>3. CASE PollsAgain(t)
    BY <1>1, <1>3, PollsAgainIInv DEF Waits
  <1>4. CASE /\ buf' = [buf EXCEPT ![t] = Append(@, ctl.rxdr)]
             /\ ctl' = [ctl EXCEPT !.rxne = FALSE, !.rxdr = Junk]
             /\ BytePassed(t)
             /\ UNCHANGED <<sys, s_i2c_mutex, owner, ErrorCode, call, stage, res,
                            st, found, dev>>
    <2>1. /\ ctl' \in Controller /\ ctl'.phase = ctl.phase /\ ctl'.nbytes = ctl.nbytes
          /\ ctl'.sadd = ctl.sadd
      <3>1. ctl \in Controller
        BY DEF IInv, TypeOK
      <3>. QED
        BY <1>4, <3>1 DEF Controller, Bytes
    <2>2. /\ hal' \in [Tasks -> HalFrame] /\ BusExclusion'
          /\ pc' \in [Tasks -> {"idle", "lock", "unlock", "return"} \cup InHal]
          /\ \A u \in Tasks : u # t => pc'[u] = pc[u] /\ hal'[u] = hal[u]
          /\ (FrameFits(t) /\ ErrorFits(t) /\ StatusFits(t))'
      BY <1>1, <1>4, BytePassedFits
    <2>3. buf' \in [Tasks -> Seq(Bytes)]
      <3>1. buf[t] \in Seq(Bytes) /\ ctl.rxdr \in Bytes
        BY DEF IInv, TypeOK, Controller
      <3>2. Append(buf[t], ctl.rxdr) \in Seq(Bytes)
        BY <3>1
      <3>. QED
        BY <1>4, <3>2 DEF IInv, TypeOK
    <2>4. TypeOK'
      BY <1>4, <2>1, <2>2, <2>3 DEF IInv, TypeOK
    <2>5. ControllerFits'
      BY <2>1 DEF IInv, ControllerFits
    <2>6. ASSUME NEW u \in Tasks PROVE (FrameFits(u) /\ ErrorFits(u) /\ StatusFits(u))'
      <3>1. CASE u = t
        BY <3>1, <2>2
      <3>2. CASE u # t
        BY <3>2, <1>4, <2>2, Undisturbed DEF IInv
      <3>. QED
        BY <3>1, <3>2
    <2>. QED
      BY <2>2, <2>4, <2>5, <2>6 DEF IInv
  <1>. QED
    BY <1>2, <1>3, <1>4 DEF WaitRXNE

(* The wait for TC ends the transfer or polls again.                       *)
LEMMA WaitTCIInv == ASSUME IInv, NEW t \in Tasks, WaitTC(t) PROVE IInv'
  <1>1. pc[t] = "tc" /\ Polls(t, "tc")
    BY DEF WaitTC, Polls
  <1>2. CASE PollsAgain(t)
    BY <1>1, <1>2, PollsAgainIInv DEF Waits
  <1>3. CASE /\ res' = [res EXCEPT ![t] = "HAL_OK"]
             /\ Goto(t, "ret")
             /\ UNCHANGED <<sys, s_i2c_mutex, owner, ErrorCode, call, stage, hal,
                            st, buf, found, ctl, dev>>
    <2>1. /\ BusExclusion' /\ pc'[t] = "ret"
          /\ pc' \in [Tasks -> {"idle", "lock", "unlock", "return"} \cup InHal]
          /\ \A u \in Tasks : u # t => pc'[u] = pc[u]
      BY <1>1, <1>3, StaysInside DEF Goto, Inside, InHal, Waits
    <2>2. TypeOK' /\ ControllerFits'
      BY <1>3, <2>1 DEF IInv, TypeOK, HalStatus, ControllerFits
    <2>3. ASSUME NEW u \in Tasks PROVE (FrameFits(u) /\ ErrorFits(u) /\ StatusFits(u))'
      <3>1. CASE u # t
        BY <1>3, <2>1, <3>1, Undisturbed DEF IInv, TypeOK
      <3>2. CASE u = t
        <4>1. FrameFits(t)'
          BY <1>1, <1>3, <2>1, StageStays DEF FrameFits, InHal, Waits
        <4>. QED
          BY <1>3, <2>1, <3>2, <4>1 DEF IInv, TypeOK, ErrorFits, StatusFits
      <3>. QED
        BY <3>1, <3>2
    <2>. QED
      BY <2>1, <2>2, <2>3 DEF IInv
  <1>. QED
    BY <1>2, <1>3 DEF WaitTC

(* The wait for TCR starts the next chunk, within what is left.            *)
LEMMA WaitTCRIInv == ASSUME IInv, NEW t \in Tasks, WaitTCR(t) PROVE IInv'
  <1> DEFINE left  == hal[t].left
             chunk == Chunk(left)
             label == WaitByte(hal[t].rx)
  <1>1. pc[t] = "tcr" /\ Polls(t, "tcr")
    BY DEF WaitTCR, Polls
  <1>2. CASE PollsAgain(t)
    BY <1>1, <1>2, PollsAgainIInv DEF Waits
  <1>3. CASE /\ TCR
             /\ hal' = [hal EXCEPT ![t].todo = chunk, ![t].left = left - chunk,
                                   ![t].polls = TransferTimeout(t)]
             /\ ctl' = [ctl EXCEPT !.nbytes = chunk, !.reload = left > NByteMax,
                                   !.phase = IF ctl.rx THEN "rx" ELSE "tx"]
             /\ Goto(t, label)
             /\ UNCHANGED <<sys, s_i2c_mutex, owner, ErrorCode, call, stage,
                            res, st, buf, found, dev>>
    <2>1. hal[t] \in HalFrame /\ hal \in [Tasks -> HalFrame] /\ ctl \in Controller
      BY DEF IInv, TypeOK
    <2>2. /\ hal[t].at \in Nat /\ left \in Nat /\ left # 0 /\ hal[t].todo = 0
          /\ hal[t].at + left = TransferSize(t)
      BY <1>1, <2>1 DEF IInv, FrameFits, InHal, Waits, HalFrame
    <2>3. /\ chunk \in Nat /\ chunk # 0 /\ chunk <= NByteMax
          /\ left - chunk \in Nat /\ chunk + (left - chunk) = left
      BY <2>2, ChunkFits
    <2>4. TransferTimeout(t) \in Nat /\ TransferSize(t)' = TransferSize(t)
      BY <1>3, TransferTypes DEF IInv, TransferSize
    <2> DEFINE frame == [hal[t] EXCEPT !.todo = chunk, !.left = left - chunk,
                                       !.polls = TransferTimeout(t)]
    <2>5. frame \in HalFrame /\ frame.at = hal[t].at /\ frame.todo = chunk
          /\ frame.left = left - chunk
      BY <2>1, <2>3, <2>4 DEF HalFrame
    <2>6. hal' = [hal EXCEPT ![t] = frame]
      BY <1>3, <2>1
    <2> HIDE DEF frame, chunk, left
    <2>7. /\ hal' \in [Tasks -> HalFrame] /\ hal'[t] = frame
          /\ \A u \in Tasks : u # t => hal'[u] = hal[u]
      BY <2>1, <2>5, <2>6
    <2>8. ctl' \in Controller /\ ctl'.nbytes = chunk /\ ctl'.sadd \in Devices
      <3> DEFINE reload == left > NByteMax
                 phase  == IF ctl.rx THEN "rx" ELSE "tx"
      <3>1. reload \in BOOLEAN /\ phase \in Phases
        BY DEF Phases
      <3>2. ctl' = [ctl EXCEPT !.nbytes = chunk, !.reload = reload, !.phase = phase]
        BY <1>3
      <3>3. ctl.sadd \in Devices
        BY <1>3 DEF TCR, IInv, ControllerFits
      <3> HIDE DEF reload, phase
      <3>. QED
        BY <2>1, <2>3, <3>1, <3>2, <3>3 DEF Controller
    <2>9. label \in {"txis", "rxne"}
      BY DEF WaitByte
    <2> HIDE DEF label
    <2>10. /\ BusExclusion' /\ pc'[t] = label
           /\ pc' \in [Tasks -> {"idle", "lock", "unlock", "return"} \cup InHal]
           /\ \A u \in Tasks : u # t => pc'[u] = pc[u]
      BY <1>1, <1>3, <2>9, StaysInside DEF Goto, Inside, InHal, Waits
    <2>11. TypeOK' /\ ControllerFits'
      BY <1>3, <2>3, <2>7, <2>8, <2>10 DEF IInv, TypeOK, ControllerFits
    <2>12. ASSUME NEW u \in Tasks PROVE (FrameFits(u) /\ ErrorFits(u) /\ StatusFits(u))'
      <3>1. CASE u # t
        BY <1>3, <2>7, <2>10, <3>1, Undisturbed DEF IInv
      <3>2. CASE u = t
        <4>1. FrameFits(t)'
          BY <1>1, <1>3, <2>2, <2>3, <2>4, <2>5, <2>7, <2>9, <2>10, StageStays
          DEF FrameFits, InHal, Waits
        <4>. QED
          BY <2>9, <2>10, <3>2, <4>1 DEF ErrorFits, StatusFits
      <3>. QED
        BY <3>1, <3>2
    <2>. QED
      BY <2>10, <2>11, <2>12 DEF IInv
  <1>. QED
    BY <1>2, <1>3 DEF WaitTCR

(* The statuses i2c_map_error makes out of the codes a failing HAL leaves. *)
LEMMA MapErrorKeepsCause ==
  /\ i2c_map_error("TIMEOUT") = "ERR_TIMEOUT"
  /\ i2c_map_error("NACK") = "ERR_NACK"
  /\ i2c_map_error("BUS") = "ERR_BUS"
  BY DEF i2c_map_error

(* The status made of a HAL result is the one of the same transfer.        *)
LEMMA HalReturnedIInv == ASSUME IInv, NEW t \in Tasks, HalReturned(t) PROVE IInv'
  <1> DEFINE ok     == res[t] = "HAL_OK"
             status == IF ok THEN "OK" ELSE i2c_map_error(ErrorCode)
  <1>1. /\ pc[t] = "ret"
        /\ UNCHANGED <<sys, s_i2c_mutex, owner, ErrorCode, call, hal, res, buf,
                       ctl, dev>>
    BY DEF HalReturned
  <1>2. \/ ok /\ status = "OK"
        \/ res[t] = "HAL_TIMEOUT" /\ status = "ERR_TIMEOUT"
        \/ res[t] = "HAL_ERROR" /\ status \in {"ERR_NACK", "ERR_BUS"}
    BY <1>1, MapErrorKeepsCause DEF IInv, ErrorFits
  <1> HIDE DEF ok, status
  (* Whichever way it goes, the task stays inside; what is left is its own. *)
  <1>3. ASSUME NEW label \in {"start", "unlock"}, Goto(t, label),
               found' \in [Tasks -> SUBSET Addrs], stage' \in [Tasks -> Nat],
               st' \in [Tasks -> Statuses],
               \A u \in Tasks : u # t => stage'[u] = stage[u] /\ st'[u] = st[u],
               /\ label = "start" /\ call[t].fn = "scan" => stage'[t] \in Addrs
               /\ label = "unlock" /\ call[t].fn # "scan" => st'[t] = status
        PROVE  IInv'
    <2>1. /\ BusExclusion' /\ pc'[t] = label
          /\ pc' \in [Tasks -> {"idle", "lock", "unlock", "return"} \cup InHal]
          /\ \A u \in Tasks : u # t => pc'[u] = pc[u]
      BY <1>1, <1>3, StaysInside DEF Goto, Inside, InHal
    <2>2. TypeOK' /\ ControllerFits'
      BY <1>1, <1>3, <2>1 DEF IInv, TypeOK, ControllerFits
    <2>3. ASSUME NEW u \in Tasks PROVE (FrameFits(u) /\ ErrorFits(u) /\ StatusFits(u))'
      <3>1. CASE u # t
        BY <1>1, <1>3, <2>1, <3>1, Undisturbed DEF IInv
      <3>2. CASE u = t
        <4>1. FrameFits(t)' /\ ErrorFits(t)'
          BY <1>1, <1>3, <2>1 DEF FrameFits, ErrorFits, InHal, Waits
        <4>2. StatusFits(t)'
          BY <1>1, <1>2, <1>3, <2>1 DEF StatusFits, ok
        <4>. QED
          BY <3>2, <4>1, <4>2
      <3>. QED
        BY <3>1, <3>2
    <2>. QED
      BY <2>1, <2>2, <2>3 DEF IInv
  <1>4. stage[t] \in Nat /\ (call[t].fn = "scan" => stage[t] \in Addrs)
    BY <1>1 DEF IInv, TypeOK, FrameFits, InHal
  <1>5. CASE /\ call[t].fn = "scan"
             /\ found' = [found EXCEPT ![t] = IF ok THEN @ \cup {stage[t]} ELSE @]
             /\ stage' = [stage EXCEPT ![t] = @ + 1]
             /\ Goto(t, IF stage[t] + 1 \in Addrs THEN "start" ELSE "unlock")
             /\ UNCHANGED st
    <2>1. found' \in [Tasks -> SUBSET Addrs]
      BY <1>4, <1>5 DEF IInv, TypeOK
    <2>2. /\ stage' \in [Tasks -> Nat] /\ stage'[t] = stage[t] + 1
          /\ \A u \in Tasks : u # t => stage'[u] = stage[u]
      BY <1>4, <1>5 DEF IInv, TypeOK
    <2>3. CASE stage[t] + 1 \in Addrs
      BY <1>3, <1>5, <2>1, <2>2, <2>3 DEF IInv, TypeOK
    <2>4. CASE stage[t] + 1 \notin Addrs
      BY <1>3, <1>5, <2>1, <2>2, <2>4 DEF IInv, TypeOK
    <2>. QED
      BY <2>3, <2>4
  <1>6. CASE /\ call[t].fn = "read"
             /\ stage' = [stage EXCEPT ![t] = 2]
             /\ Goto(t, "start")
             /\ UNCHANGED <<st, found>>
    <2>1. stage' \in [Tasks -> Nat] /\ \A u \in Tasks : u # t => stage'[u] = stage[u]
      BY <1>6 DEF IInv, TypeOK
    <2>. QED
      BY <1>3, <1>6, <2>1 DEF IInv, TypeOK
  <1>7. CASE /\ call[t].fn # "scan"
             /\ st' = [st EXCEPT ![t] = status]
             /\ Goto(t, "unlock")
             /\ UNCHANGED <<stage, found>>
    <2>1. status \in Statuses
      BY <1>2 DEF Statuses
    <2>2. /\ st' \in [Tasks -> Statuses] /\ st'[t] = status
          /\ \A u \in Tasks : u # t => st'[u] = st[u]
      BY <1>7, <2>1 DEF IInv, TypeOK
    <2>. QED
      BY <1>3, <1>7, <2>2 DEF IInv, TypeOK
  <1>. QED
    BY <1>5, <1>6, <1>7 DEF HalReturned, ok, status

-----------------------------------------------------------------------------
(* The controller and the devices change nothing a task owns.              *)
LEMMA BusIInv == IInv /\ Bus => IInv'
  <1> SUFFICES ASSUME IInv, Bus PROVE IInv'
    OBVIOUS
  <1>1. UNCHANGED <<sys, s_i2c_mutex, owner, ErrorCode, pc, call, stage, hal,
                    res, st, buf, found>>
    BY DEF Bus, taskVars
  <1>2. ctl \in Controller /\ dev \in [Devices -> Device]
    BY DEF IInv, TypeOK
  <1>3. ASSUME ctl.phase \in {"tx", "rx"}
        PROVE  /\ ctl.nbytes - 1 \in Nat /\ AfterByte \in {"tx", "rx", "tc", "tcr"}
               /\ AfterByte \in {"tx", "rx"} => ctl.nbytes - 1 # 0
               /\ ctl.sadd \in Devices
    BY <1>2, <1>3 DEF IInv, ControllerFits, AfterByte, Controller
  <1>4. /\ ctl' \in Controller /\ ControllerFits'
        /\ dev' \in [Devices -> Device]
    <2>1. CASE AddressAcked
      <3> DEFINE phase == CASE ctl.nbytes = 0 -> "tc"
                            [] ctl.nbytes > 0 /\ ctl.rx -> "rx"
                            [] OTHER -> "tx"
      <3>1. phase \in {"tc", "rx", "tx"} /\ (phase # "tc" => ctl.nbytes # 0)
        BY <1>2 DEF Controller
      <3>2. ctl' = [ctl EXCEPT !.phase = phase] /\ ctl.sadd \in Devices
        BY <2>1 DEF AddressAcked
      <3> HIDE DEF phase
      <3>3. ctl' \in Controller /\ ControllerFits'
        BY <1>2, <3>1, <3>2 DEF Controller, Phases, ControllerFits
      <3>. QED
        BY <1>2, <2>1, <3>3 DEF AddressAcked
    <2>2. CASE Nacked \/ BusFault
      BY <1>2, <2>2 DEF Nacked, BusFault, Controller, Phases, ControllerFits
    <2>3. CASE DeviceTakes
      <3>1. /\ ctl' = [ctl EXCEPT !.txfull = FALSE, !.txdr = Junk, !.first = FALSE,
                                  !.nbytes = @ - 1, !.phase = AfterByte]
            /\ ctl.phase = "tx"
        BY <2>3 DEF DeviceTakes
      <3>2. ctl' \in Controller /\ ControllerFits'
        BY <1>2, <1>3, <3>1 DEF Controller, Phases, ControllerFits, Bytes
      <3> DEFINE d == ctl.sadd
      <3>3. dev[d] \in Device /\ ctl.txdr \in Bytes
        BY <1>2, <1>3, <3>1 DEF Controller
      <3>4. ASSUME NEW r \in Regs PROVE [dev[d] EXCEPT !.ptr = r] \in Device
        BY <3>3 DEF Device
      <3>5. [dev[d] EXCEPT !.mem[dev[d].ptr] = ctl.txdr,
                           !.ptr = NextReg(dev[d].ptr)] \in Device
        <4>1. NextReg(dev[d].ptr) \in Regs
          BY <3>3, MaxAssumption DEF Device, NextReg, Regs
        <4>. QED
          BY <3>3, <4>1 DEF Device
      <3>6. dev' \in [Devices -> Device]
        BY <1>2, <2>3, <3>4, <3>5 DEF DeviceTakes
      <3>. QED
        BY <3>2, <3>6
    <2>4. CASE DeviceSends
      <3> DEFINE d == ctl.sadd
      <3>1. /\ ctl' = [ctl EXCEPT !.rxne = TRUE, !.rxdr = dev[d].mem[dev[d].ptr],
                                  !.nbytes = @ - 1, !.phase = AfterByte]
            /\ dev' = [dev EXCEPT ![d].ptr = NextReg(@)]
            /\ ctl.phase = "rx"
        BY <2>4 DEF DeviceSends
      <3>2. dev[d] \in Device
        BY <1>2, <1>3, <3>1
      <3>3. dev[d].mem[dev[d].ptr] \in Bytes /\ NextReg(dev[d].ptr) \in Regs
        BY <3>2, MaxAssumption DEF Device, NextReg, Regs
      <3>4. ctl' \in Controller /\ ControllerFits'
        BY <1>2, <1>3, <3>1, <3>3 DEF Controller, Phases, ControllerFits
      <3>5. [dev[d] EXCEPT !.ptr = NextReg(@)] \in Device
        BY <3>2, <3>3 DEF Device
      <3>. QED
        BY <1>2, <3>1, <3>4, <3>5
    <2>. QED
      BY <2>1, <2>2, <2>3, <2>4 DEF Bus
  <1>6. TypeOK' /\ BusExclusion'
    BY <1>1, <1>4 DEF IInv, TypeOK, BusExclusion, Inside
  <1>7. ASSUME NEW u \in Tasks PROVE (FrameFits(u) /\ ErrorFits(u) /\ StatusFits(u))'
    BY <1>1, Undisturbed DEF IInv
  <1>. QED
    BY <1>4, <1>6, <1>7 DEF IInv

(* Every step of the system preserves the inductive invariant.             *)
LEMMA NextIInv == IInv /\ [Next]_vars => IInv'
  <1> SUFFICES ASSUME IInv, [Next]_vars PROVE IInv'
    OBVIOUS
  <1>1. CASE hexa_i2c_init
    BY <1>1, InitStepIInv
  <1>2. ASSUME NEW t \in Tasks, Driver(t) PROVE IInv'
    BY <1>2, InvokeIInv, TakeNullIInv, LockIInv, UnlockIInv, ReturnIInv DEF Driver
  <1>3. ASSUME NEW t \in Tasks, Hal(t) PROVE IInv'
    BY <1>3, StartIInv, TimesOutIInv, WaitTXISIInv, WaitRXNEIInv, WaitTCIInv,
       WaitTCRIInv, HalReturnedIInv
    DEF Hal
  <1>4. CASE Bus
    BY <1>4, BusIInv
  <1>5. CASE UNCHANGED vars
    <2>1. TypeOK' /\ BusExclusion' /\ ControllerFits'
      BY <1>5
      DEF vars, taskVars, IInv, TypeOK, BusExclusion, Inside, ControllerFits
    <2>2. ASSUME NEW u \in Tasks PROVE (FrameFits(u) /\ ErrorFits(u) /\ StatusFits(u))'
      BY <1>5, Undisturbed DEF vars, taskVars, IInv
    <2>. QED
      BY <2>1, <2>2 DEF IInv
  <1>. QED
    BY <1>1, <1>2, <1>3, <1>4, <1>5 DEF Next, Task, Halted

-----------------------------------------------------------------------------
(* The theorems.                                                           *)

(* The inductive invariant holds in every state the driver, the HAL and    *)
(* the bus can reach.                                                      *)
THEOREM Invariance == Spec => []IInv
  BY InitIInv, NextIInv, PTL DEF Spec

(* Every variable of driver, HAL and controller keeps its type; so no      *)
(* counter of the HAL wraps below zero, and ErrorCode is one of the codes  *)
(* i2c_map_error knows.                                                    *)
THEOREM TypeCorrect == Spec => []TypeOK
  <1>1. IInv => TypeOK
    BY DEF IInv
  <1>. QED
    BY <1>1, Invariance, PTL

(* Only the holder of s_i2c_mutex is between i2c_lock and i2c_unlock, for  *)
(* any number of tasks calling any functions of the driver.                *)
THEOREM Exclusive == Spec => []BusExclusion
  <1>1. IInv => BusExclusion
    BY DEF IInv
  <1>. QED
    BY <1>1, Invariance, PTL

(* The status hexa_i2c_* returns is that of the caller's own transfer,     *)
(* although i2c_map_error reads it from the shared handle s_bus.           *)
THEOREM StatusOwned == Spec => []StatusIsOwn
  <1>1. IInv => StatusIsOwn
    BY DEF IInv, StatusFits, StatusIsOwn
  <1>. QED
    BY <1>1, Invariance, PTL

(* HAL_I2C_Master_NBYTES and the loops of Transmit and Receive never count *)
(* past the length they were given, for every length and every NByteMax.   *)
THEOREM LengthKept == Spec => []ChunksAddUp
  <1>1. IInv => ChunksAddUp
    BY DEF IInv, FrameFits, ChunksAddUp
  <1>. QED
    BY <1>1, Invariance, PTL

-----------------------------------------------------------------------------
(* The driver implements the lock specification: i2c_lock is its Enter,    *)
(* i2c_unlock its Leave, entering a function its Ask, and every other step *)
(* leaves every task where it is.                                          *)

(* A step that moves no task in or out is a stutter of the lock.           *)
LEMMA WhereStays ==
  ASSUME TypeOK, NEW t \in Tasks, NEW label,
         pc' = [pc EXCEPT ![t] = label],
         \/ Inside(t) /\ label \in InHal \cup {"unlock"}
         \/ pc[t] \in {"idle", "return"} /\ label \in {"idle", "return"}
  PROVE  where' = where
  <1>1. ASSUME NEW u \in Tasks
        PROVE  /\ pc'[u] = "lock" <=> pc[u] = "lock"
               /\ Inside(u)' <=> Inside(u)
    BY DEF TypeOK, Inside, InHal, Waits
  <1>. QED
    BY <1>1 DEF where

(* Every step is a step of the lock or changes nothing it can see.         *)
LEMMA LockStep == IInv /\ [Next]_vars => [Lock!Next]_where
  <1> SUFFICES ASSUME IInv, [Next]_vars PROVE [Lock!Next]_where
    OBVIOUS
  <1> USE DEF IInv
  <1>1. ASSUME UNCHANGED pc PROVE UNCHANGED where
    BY <1>1 DEF where, Inside
  <1>2. ASSUME NEW t \in Tasks, Invoke(t) PROVE [Lock!Next]_where
    <2>1. pc[t] = "idle" /\ (Goto(t, "lock") \/ Goto(t, "return"))
      BY <1>2 DEF Invoke
    <2>2. CASE Goto(t, "return")
      BY <2>1, <2>2, WhereStays DEF Goto
    <2>3. CASE Goto(t, "lock")
      <3>1. where[t] = "out"
        BY <2>1 DEF where, Inside, InHal, Waits
      <3>2. where' = [where EXCEPT ![t] = "waiting"]
        BY <2>1, <2>3 DEF where, Inside, InHal, Waits, Goto, TypeOK
      <3>. QED
        BY <3>1, <3>2 DEF Lock!Next, Lock!Ask
    <2>. QED
      BY <2>1, <2>2, <2>3
  <1>3. ASSUME NEW t \in Tasks, i2c_lock(t) PROVE [Lock!Next]_where
    <2>1. pc[t] = "lock" /\ owner = NoTask /\ Goto(t, "start")
      BY <1>3 DEF i2c_lock, MutexIsFree
    <2>2. where[t] = "waiting"
      BY <2>1 DEF where, Inside, InHal, Waits
    <2>3. \A u \in Tasks : where[u] # "inside"
      BY <2>1, TasksAssumption DEF where, BusExclusion
    <2>4. where' = [where EXCEPT ![t] = "inside"]
      BY <2>1 DEF where, Inside, InHal, Waits, Goto, TypeOK
    <2>. QED
      BY <2>2, <2>3, <2>4 DEF Lock!Next, Lock!Enter
  <1>4. ASSUME NEW t \in Tasks, i2c_unlock(t) PROVE [Lock!Next]_where
    <2>1. pc[t] = "unlock" /\ Goto(t, "return")
      BY <1>4 DEF i2c_unlock
    <2>2. where[t] = "inside"
      BY <2>1 DEF where, Inside, InHal, Waits
    <2>3. where' = [where EXCEPT ![t] = "out"]
      BY <2>1 DEF where, Inside, InHal, Waits, Goto, TypeOK
    <2>. QED
      BY <2>2, <2>3 DEF Lock!Next, Lock!Leave
  <1>5. ASSUME NEW t \in Tasks, Return(t) PROVE UNCHANGED where
    BY <1>5, WhereStays DEF Return, Goto
  <1>6. ASSUME NEW t \in Tasks, Hal(t) PROVE UNCHANGED where
    <2>1. UNCHANGED pc \/ \E label \in InHal \cup {"unlock"} : Goto(t, label)
      <3>1. CASE StartTransfer(t)
        BY <3>1 DEF StartTransfer, WaitByte, InHal, Waits
      <3>2. CASE TimesOut(t)
        BY <3>2 DEF TimesOut, HalFails, InHal
      <3>3. CASE WaitTXIS(t)
        BY <3>3 DEF WaitTXIS, HalFails, PollsAgain, BytePassed, WaitByte, InHal, Waits
      <3>4. CASE WaitRXNE(t)
        BY <3>4 DEF WaitRXNE, HalFails, PollsAgain, BytePassed, WaitByte, InHal, Waits
      <3>5. CASE WaitTC(t)
        BY <3>5 DEF WaitTC, PollsAgain, InHal
      <3>6. CASE WaitTCR(t)
        BY <3>6 DEF WaitTCR, PollsAgain, WaitByte, InHal, Waits
      <3>7. CASE HalReturned(t)
        BY <3>7 DEF HalReturned, InHal
      <3>. QED
        BY <1>6, <3>1, <3>2, <3>3, <3>4, <3>5, <3>6, <3>7 DEF Hal
    <2>2. Inside(t)
      BY <1>6 DEF Hal, StartTransfer, TimesOut, WaitTXIS, WaitRXNE, WaitTC, WaitTCR,
                  HalReturned, Polls, Inside, InHal, Waits
    <2>. QED
      BY <1>1, <2>1, <2>2, WhereStays DEF Goto
  <1>7. CASE hexa_i2c_init \/ Bus \/ UNCHANGED vars
    BY <1>1, <1>7 DEF hexa_i2c_init, Bus, vars, taskVars
  <1>8. ASSUME NEW t \in Tasks, TakeNull(t) PROVE UNCHANGED where
    BY <1>1, <1>8 DEF TakeNull, taskVars
  <1>. QED
    BY <1>2, <1>3, <1>4, <1>5, <1>6, <1>7, <1>8 DEF Next, Task, Driver, Halted

(* The functions of hexa_i2c.c, for any number of tasks, implement the     *)
(* lock specification of BusLock.                                          *)
THEOREM Refinement == Spec => ImplementsLock
  <1>1. Init => Lock!Init
    BY DEF Init, Lock!Init, where, Inside, InHal, Waits
  <1>. QED
    BY <1>1, Invariance, LockStep, PTL DEF Spec, ImplementsLock, Lock!Spec

-----------------------------------------------------------------------------
(* Nobody answers at an empty address.                                     *)

(* The controller leaves the address phase only for a device, the task     *)
(* that waits gave it the address, and what succeeded had a device.        *)
Answered(t) ==
  /\ pc[t] \in Waits => ctl.sadd = TransferAddr(t)
  /\ pc[t] = "ret" /\ res[t] = "HAL_OK" => TransferAddr(t) \in Devices
  /\ found[t] \subseteq Devices
  /\ pc[t] = "unlock" /\ st[t] = "OK" /\ call[t].fn # "scan" =>
       call[t].addr \in Devices

AnswerFits == /\ ctl.phase \in {"tx", "rx", "tc", "tcr"} => ctl.sadd \in Devices
              /\ \A t \in Tasks : Answered(t)

(* A task that changes no local and is not waiting keeps what was answered.*)
LEMMA AnsweredStays ==
  ASSUME NEW u \in Tasks, Answered(u),
         pc'[u] = pc[u], call'[u] = call[u], stage'[u] = stage[u],
         res'[u] = res[u], st'[u] = st[u], found'[u] = found[u],
         pc[u] \in Waits => ctl'.sadd = ctl.sadd
  PROVE  Answered(u)'
  BY DEF Answered, TransferAddr, Waits

(* A task inside the driver disturbs no other.                             *)
LEMMA OthersAnswered ==
  ASSUME IInv, AnswerFits, NEW t \in Tasks, Inside(t),
         NEW u \in Tasks, u # t,
         pc'[u] = pc[u], call'[u] = call[u], stage'[u] = stage[u],
         res'[u] = res[u], st'[u] = st[u], found'[u] = found[u]
  PROVE  Answered(u)'
  <1>1. pc[u] \notin Waits
    BY OnlyOneInside DEF IInv, Inside, InHal
  <1>. QED
    BY <1>1, AnsweredStays DEF AnswerFits

(* Steps of a task outside the driver, or on its way in or out.            *)
LEMMA DriverAnswer ==
  ASSUME IInv, AnswerFits, NEW t \in Tasks, Driver(t)
  PROVE  AnswerFits'
  <1>1. UNCHANGED ctl
    BY DEF Driver, Invoke, TakeNull, i2c_lock, i2c_unlock, Return
  <1>2. ASSUME NEW u \in Tasks, u # t PROVE Answered(u)'
    <2>1. /\ pc'[u] = pc[u] /\ call'[u] = call[u] /\ stage'[u] = stage[u]
          /\ res'[u] = res[u] /\ st'[u] = st[u] /\ found'[u] = found[u]
      BY <1>2
      DEF Driver, Invoke, TakeNull, i2c_lock, i2c_unlock, Return, Goto, taskVars,
          IInv, TypeOK
    <2>. QED
      BY <1>1, <2>1, AnsweredStays DEF AnswerFits
  <1>3. Answered(t)'
    <2>1. CASE TakeNull(t)
      BY <1>1, <2>1, AnsweredStays DEF AnswerFits, TakeNull, taskVars
    <2>2. CASE ~TakeNull(t)
      <3>1. pc'[t] \in {"lock", "return", "start", "idle"}
        BY <2>2 DEF Driver, Invoke, i2c_lock, i2c_unlock, Return, Goto, IInv, TypeOK
      <3>2. found'[t] \subseteq Devices
        BY <2>2
        DEF Driver, Invoke, i2c_lock, i2c_unlock, Return, IInv, TypeOK, AnswerFits,
            Answered
      <3>. QED
        BY <3>1, <3>2 DEF Answered, Waits
    <2>. QED
      BY <2>1, <2>2
  <1>. QED
    BY <1>1, <1>2, <1>3 DEF AnswerFits

(* A HAL function that fails claims no answer.                             *)
LEMMA HalFailsAnswer ==
  ASSUME IInv, AnswerFits, NEW t \in Tasks, Inside(t), NEW status, NEW code,
         HalFails(t, status, code), status # "HAL_OK"
  PROVE  AnswerFits'
  <1> USE DEF HalFails, Goto
  <1>1. ASSUME NEW u \in Tasks, u # t PROVE Answered(u)'
    BY <1>1, OthersAnswered DEF IInv, TypeOK
  <1>2. Answered(t)'
    BY DEF IInv, TypeOK, AnswerFits, Answered, Waits
  <1>. QED
    BY <1>1, <1>2 DEF AnswerFits

(* A poll that sees nothing changes no answer.                             *)
LEMMA PollsAgainAnswer ==
  ASSUME IInv, AnswerFits, NEW t \in Tasks, PollsAgain(t)
  PROVE  AnswerFits'
  BY AnsweredStays DEF PollsAgain, AnswerFits

(* A byte that passes leaves address and phase of the controller alone.    *)
LEMMA BytePassedAnswer ==
  ASSUME IInv, AnswerFits, NEW t \in Tasks, pc[t] \in Waits, BytePassed(t),
         ctl'.phase = ctl.phase, ctl'.sadd = ctl.sadd,
         UNCHANGED <<call, stage, res, st, found>>
  PROVE  AnswerFits'
  <1>1. ASSUME NEW u \in Tasks, u # t PROVE Answered(u)'
    BY <1>1, OthersAnswered DEF BytePassed, Goto, IInv, TypeOK, Inside, InHal
  <1>2. pc'[t] \in Waits
    BY DEF BytePassed, Goto, WaitByte, Waits, IInv, TypeOK
  <1>3. Answered(t)'
    BY <1>2 DEF AnswerFits, Answered, TransferAddr, Waits
  <1>. QED
    BY <1>1, <1>3 DEF AnswerFits

(* The steps of the HAL.                                                   *)
LEMMA HalAnswer ==
  ASSUME IInv, AnswerFits, NEW t \in Tasks, Hal(t)
  PROVE  AnswerFits'
  <1>0. ctl \in Controller /\ Inside(t)
    BY DEF Hal, StartTransfer, TimesOut, WaitTXIS, WaitRXNE, WaitTC, WaitTCR,
           HalReturned, Polls, Inside, InHal, Waits, IInv, TypeOK
  <1>1. CASE StartTransfer(t)
    <2>1. ctl'.phase = "addr" /\ ctl'.sadd = TransferAddr(t)
      BY <1>0, <1>1 DEF StartTransfer, Controller
    <2>2. UNCHANGED <<call, stage, res, st, found>>
      BY <1>1 DEF StartTransfer
    <2>3. /\ pc'[t] \in Waits
          /\ \A u \in Tasks : u # t => pc'[u] = pc[u]
      BY <1>1 DEF StartTransfer, Goto, WaitByte, Waits, IInv, TypeOK
    <2>4. ASSUME NEW u \in Tasks, u # t PROVE Answered(u)'
      BY <1>0, <2>2, <2>3, <2>4, OthersAnswered
    <2>5. Answered(t)'
      BY <2>1, <2>2, <2>3 DEF AnswerFits, Answered, TransferAddr, Waits
    <2>. QED
      BY <2>1, <2>4, <2>5 DEF AnswerFits
  <1>2. CASE TimesOut(t)
    BY <1>0, <1>2, HalFailsAnswer DEF TimesOut
  <1>3. CASE WaitTXIS(t)
    <2>1. CASE \E code \in {"NACK", "BUS"} : HalFails(t, "HAL_ERROR", code)
      BY <1>0, <2>1, HalFailsAnswer
    <2>2. CASE PollsAgain(t)
      BY <2>2, PollsAgainAnswer
    <2>3. CASE /\ ctl' = [ctl EXCEPT !.txfull = TRUE, !.txdr = TxByte(t, hal[t].at)]
               /\ BytePassed(t)
               /\ UNCHANGED <<sys, s_i2c_mutex, owner, ErrorCode, call, stage, res,
                              st, buf, found, dev>>
      <3>1. ctl'.phase = ctl.phase /\ ctl'.sadd = ctl.sadd /\ pc[t] \in Waits
        BY <1>0, <1>3, <2>3 DEF Controller, WaitTXIS, Polls, Waits
      <3>. QED
        BY <2>3, <3>1, BytePassedAnswer
    <2>. QED
      BY <1>3, <2>1, <2>2, <2>3 DEF WaitTXIS
  <1>4. CASE WaitRXNE(t)
    <2>1. CASE HalFails(t, "HAL_ERROR", "BUS")
      BY <1>0, <2>1, HalFailsAnswer
    <2>2. CASE PollsAgain(t)
      BY <2>2, PollsAgainAnswer
    <2>3. CASE /\ ctl' = [ctl EXCEPT !.rxne = FALSE, !.rxdr = Junk]
               /\ BytePassed(t)
               /\ UNCHANGED <<sys, s_i2c_mutex, owner, ErrorCode, call, stage, res,
                              st, found, dev>>
      <3>1. ctl'.phase = ctl.phase /\ ctl'.sadd = ctl.sadd /\ pc[t] \in Waits
        BY <1>0, <1>4, <2>3 DEF Controller, WaitRXNE, Polls, Waits
      <3>. QED
        BY <2>3, <3>1, BytePassedAnswer
    <2>. QED
      BY <1>4, <2>1, <2>2, <2>3 DEF WaitRXNE
  <1>5. CASE WaitTC(t)
    <2>1. CASE PollsAgain(t)
      BY <2>1, PollsAgainAnswer
    <2>2. CASE /\ TC
               /\ res' = [res EXCEPT ![t] = "HAL_OK"]
               /\ Goto(t, "ret")
               /\ UNCHANGED <<sys, s_i2c_mutex, owner, ErrorCode, call, stage, hal,
                              st, buf, found, ctl, dev>>
      <3>1. TransferAddr(t) \in Devices /\ TransferAddr(t)' = TransferAddr(t)
        BY <1>5, <2>2
        DEF WaitTC, Polls, Waits, TC, AnswerFits, Answered, TransferAddr
      <3>2. ASSUME NEW u \in Tasks, u # t PROVE Answered(u)'
        BY <1>0, <2>2, <3>2, OthersAnswered DEF Goto, IInv, TypeOK
      <3>3. Answered(t)'
        BY <2>2, <3>1 DEF Goto, IInv, TypeOK, AnswerFits, Answered, Waits
      <3>. QED
        BY <2>2, <3>2, <3>3 DEF AnswerFits
    <2>. QED
      BY <1>5, <2>1, <2>2 DEF WaitTC
  <1>6. CASE WaitTCR(t)
    <2>1. CASE PollsAgain(t)
      BY <2>1, PollsAgainAnswer
    <2>2. CASE ~PollsAgain(t)
      <3>1. /\ TCR /\ pc[t] = "tcr"
            /\ Goto(t, WaitByte(hal[t].rx))
            /\ UNCHANGED <<call, stage, res, st, found>>
        BY <1>6, <2>2 DEF WaitTCR, Polls
      <3>2. ctl'.sadd = ctl.sadd
        BY <1>0, <1>6, <2>2 DEF WaitTCR, Controller
      <3>3. ctl.sadd \in Devices
        BY <3>1 DEF TCR, AnswerFits
      <3>4. ASSUME NEW u \in Tasks, u # t PROVE Answered(u)'
        BY <1>0, <3>1, <3>4, OthersAnswered DEF Goto, IInv, TypeOK
      <3>5. pc'[t] \in Waits
        BY <3>1 DEF Goto, WaitByte, Waits, IInv, TypeOK
      <3>6. Answered(t)'
        BY <3>1, <3>2, <3>5 DEF AnswerFits, Answered, TransferAddr, Waits
      <3>. QED
        BY <3>2, <3>3, <3>4, <3>6 DEF AnswerFits
    <2>. QED
      BY <2>1, <2>2
  <1>7. CASE HalReturned(t)
    <2> DEFINE ok == res[t] = "HAL_OK"
    <2>1. /\ pc[t] = "ret"
          /\ UNCHANGED <<ErrorCode, call, hal, res, buf, ctl, dev>>
      BY <1>7 DEF HalReturned
    <2>2. ok => TransferAddr(t) \in Devices
      BY <2>1 DEF AnswerFits, Answered
    <2>3. ~ok => i2c_map_error(ErrorCode) # "OK"
      BY <2>1, MapErrorKeepsCause DEF IInv, ErrorFits
    <2>4. ASSUME NEW u \in Tasks, u # t PROVE Answered(u)'
      <3>1. /\ pc'[u] = pc[u] /\ stage'[u] = stage[u] /\ st'[u] = st[u]
            /\ found'[u] = found[u]
        BY <1>7, <2>4 DEF HalReturned, Goto, IInv, TypeOK
      <3>. QED
        BY <1>0, <2>1, <2>4, <3>1, OthersAnswered
    <2> HIDE DEF ok
    <2>5. /\ pc'[t] \in {"start", "unlock"}
          /\ found'[t] \subseteq Devices
          /\ pc'[t] = "unlock" /\ st'[t] = "OK" /\ call'[t].fn # "scan" => ok
      <3>1. CASE call[t].fn = "scan"
        <4>1. /\ found'[t] = IF ok THEN found[t] \cup {stage[t]} ELSE found[t]
              /\ pc'[t] \in {"start", "unlock"}
          BY <1>7, <3>1 DEF HalReturned, Goto, IInv, TypeOK, ok
        <4>2. ok => stage[t] \in Devices
          BY <2>2, <3>1 DEF TransferAddr
        <4>. QED
          BY <2>1, <3>1, <4>1, <4>2 DEF AnswerFits, Answered
      <3>2. CASE call[t].fn # "scan" /\ call[t].fn = "read" /\ stage[t] = 1 /\ ok
        BY <1>7, <2>1, <3>2 DEF HalReturned, Goto, IInv, TypeOK, AnswerFits, Answered, ok
      <3>3. CASE call[t].fn # "scan" /\ ~(call[t].fn = "read" /\ stage[t] = 1 /\ ok)
        <4>1. /\ st'[t] = IF ok THEN "OK" ELSE i2c_map_error(ErrorCode)
              /\ pc'[t] = "unlock" /\ found'[t] = found[t]
          BY <1>7, <3>3 DEF HalReturned, Goto, IInv, TypeOK, ok
        <4>. QED
          BY <2>3, <4>1 DEF AnswerFits, Answered
      <3>. QED
        BY <3>1, <3>2, <3>3
    <2>6. Answered(t)'
      BY <2>1, <2>2, <2>5 DEF Answered, TransferAddr, Waits
    <2>. QED
      BY <2>1, <2>4, <2>6 DEF AnswerFits
  <1>. QED
    BY <1>1, <1>2, <1>3, <1>4, <1>5, <1>6, <1>7 DEF Hal

(* The devices answer, each at its own address.                            *)
LEMMA BusAnswer == ASSUME IInv, AnswerFits, Bus PROVE AnswerFits'
  <1>1. UNCHANGED taskVars /\ ctl \in Controller
    BY DEF Bus, IInv, TypeOK
  <1>2. ctl'.sadd = ctl.sadd
    BY <1>1
    DEF Bus, AddressAcked, Nacked, DeviceTakes, DeviceSends, BusFault, Controller
  <1>3. ctl'.phase \in {"tx", "rx", "tc", "tcr"} => ctl.sadd \in Devices
    <2>1. CASE AddressAcked
      BY <2>1 DEF AddressAcked
    <2>2. CASE Nacked \/ BusFault
      BY <1>1, <2>2 DEF Nacked, BusFault, Controller
    <2>3. CASE DeviceTakes \/ DeviceSends
      BY <2>3 DEF DeviceTakes, DeviceSends, AnswerFits
    <2>. QED
      BY <2>1, <2>2, <2>3 DEF Bus
  <1>4. ASSUME NEW u \in Tasks PROVE Answered(u)'
    BY <1>1, <1>2, AnsweredStays DEF AnswerFits, taskVars
  <1>. QED
    BY <1>2, <1>3, <1>4 DEF AnswerFits

(* Every step keeps the answers.                                           *)
LEMMA NextAnswer == IInv /\ AnswerFits /\ [Next]_vars => AnswerFits'
  <1> SUFFICES ASSUME IInv, AnswerFits, [Next]_vars PROVE AnswerFits'
    OBVIOUS
  <1>1. CASE hexa_i2c_init
    <2>1. ctl'.phase = "idle" /\ ctl'.sadd = ctl.sadd /\ UNCHANGED taskVars
      BY <1>1 DEF hexa_i2c_init, IInv, TypeOK, Controller
    <2>. QED
      BY <2>1, AnsweredStays DEF AnswerFits, taskVars
  <1>2. ASSUME NEW t \in Tasks, Driver(t) PROVE AnswerFits'
    BY <1>2, DriverAnswer
  <1>3. ASSUME NEW t \in Tasks, Hal(t) PROVE AnswerFits'
    BY <1>3, HalAnswer
  <1>4. CASE Bus
    BY <1>4, BusAnswer
  <1>5. CASE UNCHANGED vars
    BY <1>5, AnsweredStays DEF AnswerFits, vars, taskVars
  <1>. QED
    BY <1>1, <1>2, <1>3, <1>4, <1>5 DEF Next, Task, Halted

(* Nobody has been asked in the initial state.                             *)
LEMMA InitAnswer == Init => AnswerFits
  BY DEF Init, AnswerFits, Answered, Waits

(* Only devices answer, in every reachable state.                          *)
LEMMA AnswerInvariance == Spec => []AnswerFits
  BY InitAnswer, NextAnswer, Invariance, PTL DEF Spec

(* A call to an address where no device sits never returns HEXA_OK, and    *)
(* hexa_i2c_scan never marks it, whatever the bus does and whatever is     *)
(* left in RXDR.                                                           *)
THEOREM NobodyThere == Spec => []AbsentNeverOk
  <1>1. AnswerFits => AbsentNeverOk
    BY DEF AnswerFits, Answered, AbsentNeverOk
  <1>. QED
    BY <1>1, AnswerInvariance, PTL

-----------------------------------------------------------------------------
(* As long as no transfer has failed, HAL, controller and device are at    *)
(* the same byte: the invariant behind ReadIsSnapshot and WriteIsComplete. *)

(* The bytes that wait in TXDR and in RXDR, and the bytes of a Transmit    *)
(* that have left TXDR.                                                    *)
InTXDR == IF ctl.txfull THEN 1 ELSE 0
InRXDR == IF ctl.rxne THEN 1 ELSE 0
Taken(t) == hal[t].at - InTXDR

(* What the device a call names holds in the registers from call.reg on,   *)
(* and which bytes of a write no later byte of it has replaced.            *)
Pointer(t)    == dev[call[t].addr].ptr
Content(t, n) == dev[call[t].addr].mem[RegAt(call[t].reg, n)]
Written(t, n) == \A i \in Nat : i < n /\ n <= i + MaxReg + 1 =>
                                 Content(t, i) = DataByte(t, i)
Copied(t, n)  == /\ Len(buf[t]) = n
                 /\ \A i \in 1 .. n : buf[t][i] = Content(t, i - 1)

(* The HAL function and the controller count the same bytes.               *)
Counted(t) ==
  /\ ctl.phase \in {"addr", "tx", "rx", "tc", "tcr"}
  /\ ctl.rx = hal[t].rx /\ hal[t].rx = IsReceive(t)
  /\ ctl.reload <=> hal[t].left # 0
  /\ ctl.phase = "addr" => /\ hal[t].at = 0 /\ ~ctl.txfull /\ ~ctl.rxne
                           /\ hal[t].todo = 0 => hal[t].left = 0
  /\ ctl.phase = "tx" => ~ctl.rx
  /\ ctl.phase = "rx" => ctl.rx
  /\ ctl.phase \in {"tc", "tcr"} => ctl.nbytes = 0
  /\ ctl.phase = "tc" => hal[t].left = 0
  /\ ctl.phase = "tcr" => hal[t].left # 0
  /\ ctl.rx  => ~ctl.txfull /\ hal[t].todo = ctl.nbytes + InRXDR
  /\ ~ctl.rx => ~ctl.rxne /\ ctl.nbytes = hal[t].todo + InTXDR

(* A Transmit: the device has taken the bytes before the one in TXDR, the  *)
(* first as its register pointer, the others into its registers.           *)
Sent(t) ==
  /\ ctl.first <=> Taken(t) = 0
  /\ ctl.txfull => hal[t].at # 0 /\ ctl.txdr = TxByte(t, hal[t].at - 1)
  /\ call[t].fn \in {"read", "write"} /\ Taken(t) > 0 =>
       Pointer(t) = RegAt(call[t].reg, Taken(t) - 1)
  /\ call[t].fn = "write" => Written(t, Taken(t) - 1)

(* The Receive of a read: buf and RXDR hold the registers so far, and the  *)
(* pointer of the device is behind them.                                   *)
Received(t) ==
  call[t].fn = "read" =>
    /\ Pointer(t) = RegAt(call[t].reg, hal[t].at + InRXDR)
    /\ ctl.rxne => ctl.rxdr = Content(t, hal[t].at)
    /\ Copied(t, hal[t].at)

(* While a task waits in a transfer that nothing has ended ...             *)
InTransfer(t) ==
  pc[t] \in Waits /\ ctl.phase # "stop" =>
    Counted(t) /\ (IF hal[t].rx THEN Received(t) ELSE Sent(t))

(* ... and what a finished transfer leaves to the rest of the call.        *)
Transferred(t) ==
  /\ pc[t] \in InHal /\ call[t].fn = "read" => stage[t] \in {1, 2}
  /\ call[t].fn = "read" /\ stage[t] = 1 /\ pc[t] = "ret" =>
       Pointer(t) = call[t].reg
  /\ call[t].fn = "read" /\ stage[t] = 2 /\ pc[t] = "start" =>
       Pointer(t) = call[t].reg
  /\ call[t].fn = "read" /\ stage[t] = 2 /\ pc[t] = "ret" =>
       Copied(t, call[t].len)
  /\ call[t].fn = "write" /\ pc[t] = "ret" => Written(t, call[t].len)
  /\ pc[t] = "unlock" /\ st[t] = "OK" =>
       /\ call[t].fn = "read"  => Copied(t, call[t].len)
       /\ call[t].fn = "write" => Written(t, call[t].len)

(* Nothing is on the way while no task waits for it.                       *)
Quiet == ctl.phase \in {"off", "idle", "tc"} /\ ~ctl.txfull /\ ~ctl.rxne

Synced == /\ (\A t \in Tasks : pc[t] \notin Waits) => Quiet
          /\ \A t \in Tasks : InTransfer(t) /\ Transferred(t)

(* Before hexa_i2c_init there is no mutex, so nobody is inside.            *)
BootFits == /\ sys = "boot" => ~s_i2c_mutex
            /\ ~s_i2c_mutex => owner = NoTask

SyncInv == BootFits /\ (NeverFailed => Synced)

(* The handle is created once, and only then can anybody take the mutex.   *)
LEMMA BootStep == BootFits /\ [Next]_vars => BootFits'
  <1> SUFFICES ASSUME BootFits, [Next]_vars PROVE BootFits'
    OBVIOUS
  <1> USE DEF BootFits
  <1>1. CASE hexa_i2c_init
    BY <1>1 DEF hexa_i2c_init
  <1>2. ASSUME NEW t \in Tasks, Driver(t) PROVE BootFits'
    BY <1>2 DEF Driver, Invoke, TakeNull, i2c_lock, i2c_unlock, Return
  <1>3. ASSUME NEW t \in Tasks, Hal(t) PROVE BootFits'
    <2>1. UNCHANGED <<sys, s_i2c_mutex, owner>>
      BY <1>3
      DEF Hal, StartTransfer, TimesOut, WaitTXIS, WaitRXNE, WaitTC, WaitTCR,
          HalReturned, HalFails, PollsAgain
    <2>. QED
      BY <2>1
  <1>4. CASE Bus \/ UNCHANGED vars
    BY <1>4 DEF Bus, vars
  <1>. QED
    BY <1>1, <1>2, <1>3, <1>4 DEF Next, Task, Halted

(* The registers are a ring.                                               *)
LEMMA RegAtIsRing ==
  ASSUME NEW r \in Regs, NEW n \in Nat
  PROVE  /\ RegAt(r, n) \in Regs
         /\ RegAt(r, n + 1) = NextReg(RegAt(r, n))
         /\ RegAt(r, 0) = r
  <1>1. RegAt(r, n) \in Regs
    <2> DEFINE m == MaxReg + 1
    <2>1. m \in Nat \ {0} /\ r + n \in Nat
      BY MaxAssumption DEF Regs
    <2>2. (r + n) % m \in 0 .. m - 1
      BY <2>1
    <2>. QED
      BY <2>2, MaxAssumption DEF RegAt, Regs
  <1>2. RegAt(r, n + 1) = NextReg(RegAt(r, n))
    BY MaxAssumption DEF RegAt, Regs, NextReg
  <1>3. RegAt(r, 0) = r
    BY MaxAssumption DEF RegAt, Regs
  <1>. QED
    BY <1>1, <1>2, <1>3

(* Fewer than MaxReg + 1 steps do not come back to the same register.      *)
LEMMA RegAtApart ==
  ASSUME NEW r \in Regs, NEW i \in Nat, NEW j \in Nat, i < j, j <= i + MaxReg
  PROVE  RegAt(r, i) # RegAt(r, j)
  <1> DEFINE m == MaxReg + 1
             x == r + i
             y == r + j
  <1>1. m \in Nat \ {0} /\ x \in Nat /\ y \in Nat /\ 0 < y - x /\ y - x < m
    BY MaxAssumption DEF Regs
  <1> HIDE DEF m, x, y
  <1>2. /\ x = (m * (x \div m)) + (x % m) /\ x \div m \in Nat
        /\ y = (m * (y \div m)) + (y % m) /\ y \div m \in Nat
        /\ x % m \in Nat /\ y % m \in Nat
    BY <1>1
  <1>3. x % m # y % m
    <2> SUFFICES ASSUME x % m = y % m PROVE FALSE
      OBVIOUS
    <2> DEFINE k == y \div m - x \div m
    <2>1. k \in Int /\ y - x = m * k
      BY <1>1, <1>2
    <2> HIDE DEF k
    <2>2. k > 0
      <3>1. CASE k <= 0
        <4>1. m * k <= 0
          BY <1>1, <2>1, <3>1
        <4>. QED
          BY <1>1, <2>1, <4>1
      <3>. QED
        BY <2>1, <3>1
    <2>3. m * k >= m
      BY <1>1, <2>1, <2>2
    <2>. QED
      BY <1>1, <2>1, <2>3
  <1>. QED
    BY <1>3 DEF RegAt, m, x, y

(* A task outside, or one the step does not touch, has nothing to keep.    *)
LEMMA OutsideSynced ==
  ASSUME NEW u \in Tasks, pc[u] \notin InHal \cup {"unlock"}
  PROVE  InTransfer(u) /\ Transferred(u)
  BY DEF InTransfer, Transferred, InHal, Waits

(* The step of a task inside leaves all others outside.                    *)
LEMMA OthersSynced ==
  ASSUME IInv, NEW t \in Tasks, Inside(t), NEW u \in Tasks, u # t, pc'[u] = pc[u]
  PROVE  (InTransfer(u) /\ Transferred(u))'
  <1>1. pc'[u] \notin InHal \cup {"unlock"}
    BY OnlyOneInside DEF IInv, Inside
  <1>. QED
    BY <1>1 DEF InTransfer, Transferred, InHal, Waits

(* Nobody else waits while a task is inside.                               *)
LEMMA OthersDoNotWait ==
  ASSUME IInv, NEW t \in Tasks, Inside(t), NEW u \in Tasks, u # t
  PROVE  pc[u] \notin Waits
  BY OnlyOneInside DEF IInv, Inside, InHal

(* What a task keeps depends on its locals, the controller and the device. *)
LEMMA SyncedStays ==
  ASSUME NEW u \in Tasks, InTransfer(u), Transferred(u),
         pc'[u] = pc[u], call'[u] = call[u], stage'[u] = stage[u],
         hal'[u].rx = hal[u].rx, hal'[u].at = hal[u].at, hal'[u].todo = hal[u].todo,
         hal'[u].left = hal[u].left,
         st'[u] = st[u], buf'[u] = buf[u], UNCHANGED <<ctl, dev>>
  PROVE  (InTransfer(u) /\ Transferred(u))'
  <1>1. Counted(u) => Counted(u)'
    BY DEF Counted, IsReceive, InTXDR, InRXDR
  <1>2. Pointer(u)' = Pointer(u) /\ \A i : Content(u, i)' = Content(u, i)
    BY DEF Pointer, Content
  <1>3. \A n : (Written(u, n) => Written(u, n)') /\ (Copied(u, n) => Copied(u, n)')
    BY <1>2 DEF Written, Copied
  <1>4. Taken(u)' = Taken(u) /\ InRXDR' = InRXDR
    BY DEF Taken, InTXDR, InRXDR
  <1>5. Received(u) => Received(u)'
    BY <1>2, <1>3, <1>4 DEF Received
  <1>6. Sent(u) => Sent(u)'
    BY <1>2, <1>3, <1>4 DEF Sent, TxByte
  <1>7. InTransfer(u)'
    BY <1>1, <1>5, <1>6 DEF InTransfer
  <1>8. Transferred(u)'
    BY <1>2, <1>3 DEF Transferred
  <1>. QED
    BY <1>7, <1>8

(* It is enough to look at the task that takes the step.                   *)
LEMMA OwnSynced ==
  ASSUME IInv, NEW t \in Tasks, Inside(t),
         \A u \in Tasks : u # t => pc'[u] = pc[u],
         (InTransfer(t) /\ Transferred(t))',
         pc'[t] \notin Waits => Quiet'
  PROVE  Synced'
  BY OthersSynced DEF Synced

(* A task outside the HAL sees a quiet controller.                         *)
LEMMA QuietOutside ==
  ASSUME IInv, Synced, NEW t \in Tasks, Inside(t), pc[t] \notin Waits
  PROVE  Quiet
  BY OthersDoNotWait DEF Synced

(* The steps of the driver.                                                *)
LEMMA DriverSynced ==
  ASSUME IInv, Synced, NEW t \in Tasks, Driver(t)
  PROVE  Synced'
  <1>1. /\ UNCHANGED <<ctl, dev>>
        /\ pc[t] \notin Waits
    BY DEF Driver, Invoke, TakeNull, i2c_lock, i2c_unlock, Return, InHal, Waits
  <1>2. ASSUME NEW u \in Tasks, u # t PROVE (InTransfer(u) /\ Transferred(u))' /\ pc'[u] = pc[u]
    <2>1. /\ pc'[u] = pc[u] /\ call'[u] = call[u] /\ stage'[u] = stage[u]
          /\ hal'[u] = hal[u] /\ st'[u] = st[u] /\ buf'[u] = buf[u]
      BY <1>2
      DEF Driver, Invoke, TakeNull, i2c_lock, i2c_unlock, Return, Goto, taskVars,
          IInv, TypeOK
    <2>. QED
      BY <1>1, <2>1, SyncedStays DEF Synced
  <1>3. Quiet' <=> Quiet
    BY <1>1 DEF Quiet
  <1>4. (InTransfer(t) /\ Transferred(t))' /\ pc'[t] \notin Waits
    <2>1. CASE TakeNull(t)
      BY <1>1, <2>1, SyncedStays DEF Synced, TakeNull, taskVars
    <2>2. CASE i2c_lock(t)
      <3>1. pc'[t] = "start" /\ call' = call
        BY <2>2 DEF i2c_lock, Goto, IInv, TypeOK
      <3>2. call[t].fn = "read" => stage'[t] = 1
        BY <2>2 DEF i2c_lock, IInv, TypeOK
      <3>. QED
        BY <3>1, <3>2 DEF InTransfer, Transferred, InHal, Waits
    <2>3. CASE Invoke(t) \/ i2c_unlock(t) \/ Return(t)
      <3>1. pc'[t] \in {"lock", "return", "idle"}
        BY <2>3 DEF Invoke, i2c_unlock, Return, Goto, IInv, TypeOK
      <3>. QED
        BY <3>1 DEF InTransfer, Transferred, InHal, Waits
    <2>. QED
      BY <2>1, <2>2, <2>3 DEF Driver
  <1>. QED
    BY <1>1, <1>2, <1>3, <1>4 DEF Synced

(* A transfer starts at byte zero of both sides.                           *)
LEMMA StartSynced ==
  ASSUME IInv, Synced, NEW t \in Tasks, StartTransfer(t)
  PROVE  Synced'
  <1> DEFINE size  == TransferSize(t)
             chunk == Chunk(size)
             rx    == IsReceive(t)
  <1>1. /\ size \in Nat /\ chunk \in Nat /\ rx \in BOOLEAN
        /\ size - chunk \in Nat /\ (size # 0 => chunk # 0)
        /\ size - chunk # 0 <=> size > NByteMax
    <2>1. size \in Nat /\ rx \in BOOLEAN
      BY TransferTypes DEF IInv
    <2>2. size - chunk # 0 <=> size > NByteMax
      BY <2>1, LimitsAssumption DEF Chunk
    <2>. QED
      BY <2>1, <2>2, ChunkFits
  <1>2. Inside(t) /\ pc[t] = "start" /\ Quiet
    BY QuietOutside DEF StartTransfer, Inside, InHal, Waits
  <1>3. /\ UNCHANGED <<call, stage, st, dev>>
        /\ buf' = IF rx THEN [buf EXCEPT ![t] = << >>] ELSE buf
        /\ pc'[t] \in Waits
        /\ \A u \in Tasks : u # t => pc'[u] = pc[u]
    BY DEF StartTransfer, Goto, WaitByte, Waits, IInv, TypeOK
  <1>4. /\ hal'[t].rx = rx /\ hal'[t].at = 0 /\ hal'[t].todo = chunk
        /\ hal'[t].left = size - chunk
    BY DEF StartTransfer, IInv, TypeOK
  <1> HIDE DEF size, chunk, rx
  <1>5. /\ ctl'.phase = "addr" /\ ctl'.rx = rx /\ ctl'.nbytes = chunk
        /\ (ctl'.reload <=> size > NByteMax) /\ ctl'.first = TRUE
        /\ ctl'.rxne = ctl.rxne /\ ~ctl'.txfull
    <2>1. ctl \in Controller
      BY DEF IInv, TypeOK
    <2>. QED
      BY <1>2, <2>1 DEF StartTransfer, Controller, Quiet, size, chunk, rx
  <1>6. IsReceive(t)' = rx
    BY <1>3 DEF IsReceive, rx
  <1>7. InTXDR' = 0 /\ InRXDR' = 0 /\ ~ctl'.rxne /\ ~ctl'.txfull
    BY <1>2, <1>5 DEF InTXDR, InRXDR, Quiet
  <1>8. Counted(t)'
    <2>1. ctl'.reload <=> hal'[t].left # 0
      BY <1>1, <1>4, <1>5
    <2>2. ctl'.rx => hal'[t].todo = ctl'.nbytes + InRXDR'
      BY <1>1, <1>4, <1>5, <1>7
    <2>3. ~ctl'.rx => ctl'.nbytes = hal'[t].todo + InTXDR'
      BY <1>1, <1>4, <1>5, <1>7
    <2>4. hal'[t].todo = 0 => hal'[t].left = 0
      BY <1>1, <1>4
    <2>. QED
      BY <1>4, <1>5, <1>6, <1>7, <2>1, <2>2, <2>3, <2>4 DEF Counted
  <1>9. ASSUME ~rx PROVE Sent(t)'
    <2>1. Taken(t)' = 0
      BY <1>4, <1>7 DEF Taken
    <2>2. Written(t, 0 - 1)'
      BY DEF Written
    <2>. QED
      BY <1>5, <2>1, <2>2 DEF Sent
  <1>10. ASSUME rx PROVE Received(t)'
    <2> SUFFICES ASSUME call[t].fn = "read" PROVE Received(t)'
      BY <1>3 DEF Received
    <2>1. stage[t] = 2
      BY <1>10 DEF rx, IsReceive
    <2>2. Pointer(t)' = call[t].reg
      BY <1>2, <1>3, <2>1 DEF Synced, Transferred, Pointer
    <2>3. call[t].reg \in Regs
      BY TransferTypes DEF IInv
    <2>5. buf'[t] = << >>
      BY <1>3, <1>10 DEF IInv, TypeOK
    <2>6. Copied(t, 0)'
      BY <2>5 DEF Copied
    <2>. QED
      BY <1>3, <1>4, <1>7, <2>2, <2>3, <2>6, RegAtIsRing DEF Received
  <1>11. InTransfer(t)'
    BY <1>1, <1>4, <1>8, <1>9, <1>10 DEF InTransfer
  <1>12. Transferred(t)'
    BY <1>2, <1>3 DEF Synced, Transferred, InHal, Waits
  <1>. QED
    BY <1>2, <1>3, <1>11, <1>12, OwnSynced

(* A byte that passes leaves a task where it waits for the next.           *)
LEMMA BytePassedGoes ==
  ASSUME IInv, NEW t \in Tasks, pc[t] \in Waits, BytePassed(t)
  PROVE  /\ pc'[t] \in Waits
         /\ \A u \in Tasks : u # t => pc'[u] = pc[u]
         /\ hal'[t].rx = hal[t].rx /\ hal'[t].left = hal[t].left
         /\ hal[t].at \in Nat /\ hal'[t].at = hal[t].at + 1
         /\ hal[t].todo \in Nat /\ hal'[t].todo = hal[t].todo - 1
  <1>1. /\ pc'[t] \in Waits
        /\ \A u \in Tasks : u # t => pc'[u] = pc[u]
    BY DEF BytePassed, Goto, WaitByte, Waits, IInv, TypeOK
  <1>2. hal[t] \in HalFrame
    BY DEF IInv, TypeOK
  <1>3. hal'[t] = [hal[t] EXCEPT !.at = @ + 1, !.todo = @ - 1,
                                 !.polls = TransferTimeout(t)]
    BY DEF BytePassed, IInv, TypeOK
  <1>. QED
    BY <1>1, <1>2, <1>3 DEF HalFrame

(* A byte written to TXDR is counted by both sides.                        *)
LEMMA SendSynced ==
  ASSUME IInv, Synced, NEW t \in Tasks, pc[t] = "txis", TXIS,
         ctl' = [ctl EXCEPT !.txfull = TRUE, !.txdr = TxByte(t, hal[t].at)],
         BytePassed(t),
         UNCHANGED <<sys, s_i2c_mutex, owner, ErrorCode, call, stage, res, st,
                     buf, found, dev>>
  PROVE  Synced'
  <1>1. pc[t] \in Waits /\ Inside(t)
    BY DEF Waits, Inside, InHal
  <1>2. /\ pc'[t] \in Waits
        /\ \A u \in Tasks : u # t => pc'[u] = pc[u]
        /\ hal'[t].rx = hal[t].rx /\ hal'[t].left = hal[t].left
        /\ hal[t].at \in Nat /\ hal'[t].at = hal[t].at + 1
        /\ hal[t].todo \in Nat /\ hal'[t].todo = hal[t].todo - 1
    BY <1>1, BytePassedGoes
  <1>3. /\ ctl'.phase = "tx" /\ ctl.phase = "tx" /\ ~ctl.txfull /\ ctl'.txfull
        /\ ctl'.rx = ctl.rx /\ ctl'.reload = ctl.reload /\ ctl'.first = ctl.first
        /\ ctl'.nbytes = ctl.nbytes /\ ctl'.rxne = ctl.rxne
        /\ ctl'.txdr = TxByte(t, hal[t].at)
        /\ ctl.nbytes \in Nat
    BY DEF TXIS, IInv, TypeOK, Controller
  <1>4. Counted(t) /\ ~ctl.rx /\ ~hal[t].rx /\ Sent(t)
    BY <1>1, <1>3 DEF Synced, InTransfer, Counted
  <1>5. InTXDR = 0 /\ InTXDR' = 1
    BY <1>3 DEF InTXDR
  <1>6. Counted(t)'
    <2>1. IsReceive(t)' = IsReceive(t)
      BY DEF IsReceive
    <2>2. ctl'.nbytes = hal'[t].todo + InTXDR'
      BY <1>2, <1>3, <1>4, <1>5 DEF Counted
    <2>. QED
      BY <1>2, <1>3, <1>4, <2>1, <2>2 DEF Counted
  <1>7. Sent(t)'
    <2>1. Taken(t)' = Taken(t)
      BY <1>2, <1>5 DEF Taken
    <2>2. hal'[t].at # 0 /\ hal'[t].at - 1 = hal[t].at
      BY <1>2
    <2>3. ctl'.txdr = TxByte(t, hal[t].at - 1)'
      BY <1>3, <2>2 DEF TxByte
    <2>4. Pointer(t)' = Pointer(t) /\ Written(t, Taken(t) - 1)' = Written(t, Taken(t) - 1)
      BY <2>1 DEF Pointer, Written, Content
    <2>. QED
      BY <1>3, <1>4, <2>1, <2>2, <2>3, <2>4 DEF Sent
  <1>8. InTransfer(t)'
    BY <1>2, <1>4, <1>6, <1>7 DEF InTransfer
  <1>9. Transferred(t)'
    BY <1>1, <1>2 DEF Synced, Transferred, InHal, Waits
  <1>. QED
    BY <1>1, <1>2, <1>8, <1>9, OwnSynced

(* A byte read from RXDR is the register the device's pointer was at.      *)
LEMMA ReceiveSynced ==
  ASSUME IInv, Synced, NEW t \in Tasks, pc[t] = "rxne", ctl.rxne,
         buf' = [buf EXCEPT ![t] = Append(@, ctl.rxdr)],
         ctl' = [ctl EXCEPT !.rxne = FALSE, !.rxdr = Junk],
         BytePassed(t),
         UNCHANGED <<sys, s_i2c_mutex, owner, ErrorCode, call, stage, res, st,
                     found, dev>>
  PROVE  Synced'
  <1>1. pc[t] \in Waits /\ Inside(t)
    BY DEF Waits, Inside, InHal
  <1>2. /\ pc'[t] \in Waits
        /\ \A u \in Tasks : u # t => pc'[u] = pc[u]
        /\ hal'[t].rx = hal[t].rx /\ hal'[t].left = hal[t].left
        /\ hal[t].at \in Nat /\ hal'[t].at = hal[t].at + 1
        /\ hal[t].todo \in Nat /\ hal'[t].todo = hal[t].todo - 1
    BY <1>1, BytePassedGoes
  <1>3. /\ ctl'.phase = ctl.phase /\ ~ctl'.rxne /\ ctl'.txfull = ctl.txfull
        /\ ctl'.rx = ctl.rx /\ ctl'.reload = ctl.reload
        /\ ctl'.nbytes = ctl.nbytes /\ ctl.nbytes \in Nat
    BY DEF IInv, TypeOK, Controller
  <1>4. Transferred(t)'
    BY <1>1, <1>2 DEF Synced, Transferred, InHal, Waits
  <1>5. CASE ctl.phase = "stop"
    BY <1>1, <1>2, <1>3, <1>4, <1>5, OwnSynced DEF InTransfer
  <1>6. CASE ctl.phase # "stop"
    <2>1. Counted(t) /\ ctl.rx /\ hal[t].rx /\ Received(t)
      BY <1>1, <1>6 DEF Synced, InTransfer, Counted
    <2>2. InRXDR = 1 /\ InRXDR' = 0
      BY <1>3 DEF InRXDR
    <2>3. Counted(t)'
      <3>1. IsReceive(t)' = IsReceive(t)
        BY DEF IsReceive
      <3>2. hal'[t].todo = ctl'.nbytes + InRXDR'
        BY <1>2, <1>3, <2>1, <2>2 DEF Counted
      <3>3. ctl.phase # "addr"
        BY <2>1 DEF Counted
      <3>. QED
        BY <1>2, <1>3, <2>1, <3>1, <3>2, <3>3 DEF Counted
    <2>4. Received(t)'
      <3> SUFFICES ASSUME call[t].fn = "read" PROVE Received(t)'
        BY DEF Received
      <3>1. /\ Pointer(t) = RegAt(call[t].reg, hal[t].at + 1)
            /\ ctl.rxdr = Content(t, hal[t].at)
            /\ Copied(t, hal[t].at)
        BY <2>1, <2>2 DEF Received
      <3>2. Pointer(t)' = Pointer(t) /\ \A i \in Nat : Content(t, i)' = Content(t, i)
        BY DEF Pointer, Content
      <3>3. buf'[t] = Append(buf[t], ctl.rxdr) /\ buf[t] \in Seq(Bytes)
        BY DEF IInv, TypeOK
      <3>4. Copied(t, hal[t].at)'
        <4> DEFINE n == hal[t].at
        <4>1. Len(buf[t]) = n /\ n \in Nat /\ \A i \in 1 .. n : buf[t][i] = Content(t, i - 1)
          BY <1>2, <3>1 DEF Copied
        <4>2. Len(buf'[t]) = n + 1
          BY <3>3, <4>1
        <4>3. ASSUME NEW i \in 1 .. n + 1 PROVE buf'[t][i] = Content(t, i - 1)'
          <5>1. CASE i = n + 1
            BY <3>1, <3>2, <3>3, <4>1, <5>1
          <5>2. CASE i \in 1 .. n
            <6>1. buf'[t][i] = buf[t][i] /\ i - 1 \in Nat
              BY <3>3, <4>1, <5>2
            <6>. QED
              BY <3>2, <4>1, <5>2, <6>1
          <5>. QED
            BY <4>1, <5>1, <5>2
        <4>. QED
          BY <1>2, <4>2, <4>3 DEF Copied
      <3>5. hal'[t].at + InRXDR' = hal[t].at + 1
        BY <1>2, <2>2
      <3>. QED
        BY <1>3, <3>1, <3>2, <3>4, <3>5 DEF Received
    <2>5. InTransfer(t)'
      BY <1>2, <2>1, <2>3, <2>4 DEF InTransfer
    <2>. QED
      BY <1>1, <1>2, <1>4, <2>5, OwnSynced
  <1>. QED
    BY <1>5, <1>6

(* A transfer that completes has moved every byte it was given.            *)
LEMMA FinishSynced ==
  ASSUME IInv, AnswerFits, Synced, NEW t \in Tasks, pc[t] = "tc", TC, Goto(t, "ret"),
         UNCHANGED <<sys, s_i2c_mutex, owner, ErrorCode, call, stage, hal, st,
                     buf, found, ctl, dev>>
  PROVE  Synced'
  <1>1. pc[t] \in Waits /\ Inside(t) /\ pc[t] \in InHal
    BY DEF Waits, Inside, InHal
  <1>2. /\ pc'[t] = "ret"
        /\ \A u \in Tasks : u # t => pc'[u] = pc[u]
    BY DEF Goto, IInv, TypeOK
  <1>3. /\ hal[t].at \in Nat /\ hal[t].todo = 0
        /\ hal[t].at + hal[t].todo + hal[t].left = TransferSize(t)
        /\ hal[t] \in HalFrame /\ ctl \in Controller
    BY <1>1 DEF IInv, TypeOK, FrameFits, HalFrame
  <1>4. /\ Counted(t) /\ ctl.phase = "tc"
        /\ IF hal[t].rx THEN Received(t) ELSE Sent(t)
    BY <1>1 DEF Synced, InTransfer, TC
  <1>5. hal[t].left = 0 /\ hal[t].at = TransferSize(t)
    BY <1>3, <1>4 DEF Counted
  <1>6. ~ctl.txfull /\ ~ctl.rxne
    <2>1. CASE ctl.rx
      <3>1. InRXDR = 0 /\ ~ctl.txfull
        BY <1>3, <1>4, <2>1 DEF Counted, InRXDR
      <3>. QED
        BY <3>1 DEF InRXDR
    <2>2. CASE ~ctl.rx
      <3>1. InTXDR = 0 /\ ~ctl.rxne
        BY <1>3, <1>4, <2>2 DEF Counted, InTXDR
      <3>. QED
        BY <3>1 DEF InTXDR
    <2>. QED
      BY <2>1, <2>2
  <1>7. Quiet'
    BY <1>4, <1>6 DEF Quiet
  <1>8. Taken(t) = TransferSize(t)
    BY <1>3, <1>5, <1>6 DEF Taken, InTXDR
  <1>9. /\ Pointer(t)' = Pointer(t)
        /\ \A n \in Nat : Copied(t, n)' = Copied(t, n) /\ Written(t, n)' = Written(t, n)
    BY DEF Pointer, Copied, Written, Content
  <1>10. hal[t].rx = IsReceive(t)
    BY <1>4 DEF Counted
  <1>11. call[t].fn = "read" => stage[t] \in {1, 2}
    BY <1>1 DEF Synced, Transferred
  <1>12. call[t].len \in Nat /\ call[t].reg \in Regs
    BY TransferTypes DEF IInv
  <1>13. ASSUME call[t].fn = "read", stage[t] = 1 PROVE Pointer(t) = call[t].reg
    <2>1. ~IsReceive(t) /\ TransferSize(t) = 1
      BY <1>13 DEF IsReceive, TransferSize
    <2>2. Sent(t)
      BY <1>4, <1>10, <2>1
    <2>. QED
      BY <1>8, <1>12, <1>13, <2>1, <2>2, RegAtIsRing DEF Sent
  <1>14. ASSUME call[t].fn = "read", stage[t] = 2 PROVE Copied(t, call[t].len)
    <2>1. IsReceive(t) /\ TransferSize(t) = call[t].len
      BY <1>14 DEF IsReceive, TransferSize
    <2>. QED
      BY <1>4, <1>5, <1>10, <1>14, <2>1 DEF Received
  <1>15. ASSUME call[t].fn = "write" PROVE Written(t, call[t].len)
    <2>1. ~IsReceive(t) /\ TransferSize(t) = call[t].len + 1
      BY <1>15 DEF IsReceive, TransferSize
    <2>2. Written(t, Taken(t) - 1)
      BY <1>4, <1>10, <1>15, <2>1 DEF Sent
    <2>3. Taken(t) - 1 = call[t].len
      BY <1>8, <1>12, <2>1
    <2>. QED
      BY <2>2, <2>3
  <1>16. (InTransfer(t) /\ Transferred(t))'
    BY <1>2, <1>9, <1>11, <1>12, <1>13, <1>14, <1>15 DEF InTransfer, Transferred, Waits
  <1>. QED
    BY <1>1, <1>2, <1>7, <1>16, OwnSynced

(* The next chunk is programmed alike on both sides.                       *)
LEMMA ChunkSynced ==
  ASSUME IInv, Synced, NEW t \in Tasks, WaitTCR(t), TCR, ~PollsAgain(t)
  PROVE  Synced'
  <1> DEFINE left  == hal[t].left
             chunk == Chunk(left)
  <1>1. pc[t] = "tcr" /\ pc[t] \in Waits /\ Inside(t) /\ ctl.phase = "tcr"
    BY DEF WaitTCR, Polls, TCR, Waits, Inside, InHal
  <1>2. /\ hal[t] \in HalFrame /\ left \in Nat /\ ctl \in Controller /\ hal[t].todo = 0
    BY <1>1 DEF IInv, TypeOK, HalFrame, FrameFits
  <1>3. /\ chunk \in Nat /\ left - chunk \in Nat
        /\ left - chunk # 0 <=> left > NByteMax
    <2>1. left - chunk # 0 <=> left > NByteMax
      BY <1>2, LimitsAssumption DEF Chunk
    <2>. QED
      BY <1>2, <2>1, ChunkFits
  <1>4. /\ UNCHANGED <<ErrorCode, call, stage, st, buf, dev>>
        /\ pc'[t] \in Waits
        /\ \A u \in Tasks : u # t => pc'[u] = pc[u]
    BY DEF WaitTCR, Goto, WaitByte, Waits, IInv, TypeOK
  <1>5. /\ hal'[t].rx = hal[t].rx /\ hal'[t].at = hal[t].at
        /\ hal'[t].todo = chunk /\ hal'[t].left = left - chunk
    <2>1. hal'[t] = [hal[t] EXCEPT !.todo = chunk, !.left = left - chunk,
                                   !.polls = TransferTimeout(t)]
      BY DEF WaitTCR, IInv, TypeOK
    <2>. QED
      BY <1>2, <2>1 DEF HalFrame
  <1>6. /\ ctl'.nbytes = chunk /\ (ctl'.reload <=> left > NByteMax)
        /\ ctl'.phase = IF ctl.rx THEN "rx" ELSE "tx"
        /\ ctl'.rx = ctl.rx /\ ctl'.first = ctl.first /\ ctl'.txfull = ctl.txfull
        /\ ctl'.rxne = ctl.rxne /\ ctl'.txdr = ctl.txdr /\ ctl'.rxdr = ctl.rxdr
    <2> DEFINE reload == left > NByteMax
               phase  == IF ctl.rx THEN "rx" ELSE "tx"
    <2>1. ctl' = [ctl EXCEPT !.nbytes = chunk, !.reload = reload, !.phase = phase]
      BY DEF WaitTCR
    <2> HIDE DEF reload, phase, chunk, left
    <2>2. /\ ctl'.nbytes = chunk /\ ctl'.reload = reload /\ ctl'.phase = phase
          /\ ctl'.rx = ctl.rx /\ ctl'.first = ctl.first /\ ctl'.txfull = ctl.txfull
          /\ ctl'.rxne = ctl.rxne /\ ctl'.txdr = ctl.txdr /\ ctl'.rxdr = ctl.rxdr
      BY <1>2, <2>1 DEF Controller
    <2>. QED
      BY <2>2 DEF reload, phase
  <1>7. Counted(t) /\ (IF hal[t].rx THEN Received(t) ELSE Sent(t)) /\ left # 0
    BY <1>1 DEF Synced, InTransfer, Counted
  <1> HIDE DEF left, chunk
  <1>8. ~ctl.txfull /\ ~ctl.rxne
    <2>1. ctl.rx => ~ctl.txfull /\ InRXDR = 0
      BY <1>1, <1>2, <1>7 DEF Counted, InRXDR
    <2>2. ~ctl.rx => ~ctl.rxne /\ InTXDR = 0
      BY <1>1, <1>2, <1>7 DEF Counted, InTXDR
    <2>. QED
      BY <2>1, <2>2 DEF InRXDR, InTXDR
  <1>9. InTXDR' = InTXDR /\ InRXDR' = InRXDR /\ InTXDR = 0 /\ InRXDR = 0
    BY <1>6, <1>8 DEF InTXDR, InRXDR
  <1>10. Counted(t)'
    <2>1. IsReceive(t)' = IsReceive(t)
      BY <1>4 DEF IsReceive
    <2>2. ctl'.rx => hal'[t].todo = ctl'.nbytes + InRXDR'
      BY <1>3, <1>5, <1>6, <1>9
    <2>3. ~ctl'.rx => ctl'.nbytes = hal'[t].todo + InTXDR'
      BY <1>3, <1>5, <1>6, <1>9
    <2>4. ctl'.reload <=> hal'[t].left # 0
      BY <1>3, <1>5, <1>6
    <2>5. /\ ctl'.phase \in {"rx", "tx"}
          /\ ctl'.phase = "tx" => ~ctl'.rx
          /\ ctl'.phase = "rx" => ctl'.rx
      BY <1>6
    <2>. QED
      BY <1>5, <1>6, <1>7, <1>8, <2>1, <2>2, <2>3, <2>4, <2>5 DEF Counted
  <1>11. /\ Pointer(t)' = Pointer(t) /\ \A i : Content(t, i)' = Content(t, i)
         /\ Taken(t)' = Taken(t)
    BY <1>4, <1>5, <1>9 DEF Pointer, Content, Taken
  <1>12. \A n : Written(t, n)' = Written(t, n) /\ Copied(t, n)' = Copied(t, n)
    BY <1>4, <1>11 DEF Written, Copied
  <1>13. ASSUME Received(t) PROVE Received(t)'
    BY <1>4, <1>5, <1>6, <1>9, <1>11, <1>12, <1>13 DEF Received
  <1>14. ASSUME Sent(t) PROVE Sent(t)'
    BY <1>4, <1>5, <1>6, <1>11, <1>12, <1>14 DEF Sent, TxByte
  <1>15. InTransfer(t)'
    BY <1>5, <1>7, <1>10, <1>13, <1>14 DEF InTransfer
  <1>16. Transferred(t)'
    BY <1>1, <1>4 DEF Synced, Transferred, InHal, Waits
  <1>. QED
    BY <1>1, <1>4, <1>15, <1>16, OwnSynced

(* What the HAL moved is what the call returns.                            *)
LEMMA ReturnedSynced ==
  ASSUME IInv, NeverFailed, Synced, NEW t \in Tasks, HalReturned(t)
  PROVE  Synced'
  <1>1. /\ pc[t] = "ret" /\ Inside(t) /\ pc[t] \in InHal /\ pc[t] \notin Waits
        /\ UNCHANGED <<ErrorCode, call, hal, res, buf, ctl, dev>>
    BY DEF HalReturned, Inside, InHal, Waits
  <1>2. res[t] = "HAL_OK"
    BY <1>1 DEF IInv, ErrorFits, NeverFailed
  <1>3. Quiet'
    BY <1>1, QuietOutside DEF Quiet
  <1>4. \A u \in Tasks : u # t => pc'[u] = pc[u]
    BY DEF HalReturned, Goto, IInv, TypeOK
  <1>5. Transferred(t) /\ (call[t].fn = "read" => stage[t] \in {1, 2})
    BY <1>1 DEF Synced, Transferred
  <1>6. /\ Pointer(t)' = Pointer(t)
        /\ \A n : Copied(t, n)' = Copied(t, n) /\ Written(t, n)' = Written(t, n)
    BY <1>1 DEF Pointer, Copied, Written, Content
  <1>7. pc'[t] \in {"start", "unlock"}
    BY DEF HalReturned, Goto, IInv, TypeOK
  <1>8. Transferred(t)'
    <2>1. CASE call[t].fn = "scan"
      BY <1>1, <1>7, <2>1 DEF Transferred
    <2>2. CASE call[t].fn = "read" /\ stage[t] = 1
      <3>1. pc'[t] = "start" /\ stage'[t] = 2
        BY <1>2, <2>2 DEF HalReturned, Goto, IInv, TypeOK
      <3>. QED
        BY <1>1, <1>5, <1>6, <2>2, <3>1 DEF Transferred
    <2>3. CASE call[t].fn # "scan" /\ ~(call[t].fn = "read" /\ stage[t] = 1)
      <3>1. pc'[t] = "unlock"
        BY <1>2, <2>3 DEF HalReturned, Goto, IInv, TypeOK
      <3>. QED
        BY <1>1, <1>5, <1>6, <2>3, <3>1 DEF Transferred, InHal, Waits
    <2>. QED
      BY <2>1, <2>2, <2>3
  <1>9. InTransfer(t)'
    BY <1>7 DEF InTransfer, Waits
  <1>. QED
    BY <1>1, <1>3, <1>4, <1>8, <1>9, OwnSynced

(* Where the controller goes after a byte tells what the HAL has left.     *)
LEMMA AfterByteCounted ==
  ASSUME ctl \in Controller, ctl.nbytes # 0, NEW t \in Tasks, Counted(t),
         ctl.phase \in {"tx", "rx"}
  PROVE  /\ ctl.nbytes - 1 \in Nat
         /\ AfterByte \in {ctl.phase, "tc", "tcr"}
         /\ AfterByte \in {"tc", "tcr"} => ctl.nbytes - 1 = 0
         /\ AfterByte = "tc" => hal[t].left = 0
         /\ AfterByte = "tcr" => hal[t].left # 0
  BY DEF AfterByte, Counted, Controller

(* A device keeps its registers but for the byte it takes.                 *)
LEMMA TakesSynced ==
  ASSUME IInv, AnswerFits, Synced, NEW t \in Tasks, pc[t] \in Waits,
         Counted(t), IF hal[t].rx THEN Received(t) ELSE Sent(t),
         DeviceTakes, UNCHANGED taskVars
  PROVE  InTransfer(t)'
  <1> DEFINE d == ctl.sadd
             a == call[t].reg
             n == hal[t].at
             p == dev[d].ptr
  <1>1. /\ ctl \in Controller /\ ctl.phase = "tx" /\ ctl.txfull /\ ctl.nbytes # 0
        /\ d \in Devices /\ dev[d] \in Device /\ a \in Regs
        /\ hal[t] \in HalFrame /\ n \in Nat
    <2>1. ctl.phase = "tx" /\ ctl.txfull
      BY DEF DeviceTakes
    <2>2. hal[t] \in HalFrame
      BY DEF IInv, TypeOK
    <2>. QED
      BY <2>1, <2>2, TransferTypes
      DEF IInv, TypeOK, ControllerFits, AnswerFits, HalFrame
  <1>2. ~ctl.rx /\ ~hal[t].rx /\ Sent(t)
    BY <1>1 DEF Counted
  <1>3. /\ ctl'.phase = AfterByte /\ ctl'.nbytes = ctl.nbytes - 1 /\ ~ctl'.first
        /\ ~ctl'.txfull /\ ctl'.rx = ctl.rx /\ ctl'.reload = ctl.reload
        /\ ctl'.rxne = ctl.rxne
    BY <1>1 DEF DeviceTakes, Controller
  <1>4. InTXDR = 1 /\ InTXDR' = 0 /\ hal' = hal /\ pc' = pc /\ call' = call /\ stage' = stage
    BY <1>1, <1>3 DEF InTXDR, taskVars
  <1>5. Taken(t) = n - 1 /\ Taken(t)' = n /\ n # 0 /\ ctl.txdr = TxByte(t, n - 1)
    BY <1>1, <1>2, <1>4 DEF Taken, Sent
  <1>6. Counted(t)'
    <2>1. IsReceive(t)' = IsReceive(t)
      BY <1>4 DEF IsReceive
    <2>2. ctl'.nbytes = hal'[t].todo + InTXDR'
      BY <1>1, <1>2, <1>3, <1>4 DEF Counted, HalFrame, Controller
    <2>3. ctl'.phase \in {"tx", "tc", "tcr"}
      BY <1>1, <1>3, AfterByteCounted
    <2>. QED
      BY <1>1, <1>2, <1>3, <1>4, <2>1, <2>2, <2>3, AfterByteCounted DEF Counted
  <1>7. PICK r \in Regs :
          /\ \A q \in Regs : ctl.txdr = RegByte(q) => r = q
          /\ dev' = [dev EXCEPT ![d] =
                       IF ctl.first
                       THEN [@ EXCEPT !.ptr = r]
                       ELSE [@ EXCEPT !.mem[p] = ctl.txdr, !.ptr = NextReg(p)]]
    BY DEF DeviceTakes
  <1>8. ASSUME call[t].fn \in {"read", "write"}
        PROVE  /\ Pointer(t)' = RegAt(a, n - 1)
               /\ call[t].fn = "write" => Written(t, n - 1)'
    <2>1. d = call[t].addr
      BY <1>8 DEF AnswerFits, Answered, TransferAddr
    <2>2. dev \in [Devices -> Device] /\ p \in Regs /\ dev[d].mem \in [Regs -> Bytes]
      BY <1>1 DEF IInv, TypeOK, Device
    <2>3. CASE ctl.first
      <3>1. n = 1
        BY <1>1, <1>2, <1>5, <2>3 DEF Sent
      <3>2. r = a
        <4>1. ctl.txdr = RegByte(a)
          BY <1>5, <3>1 DEF TxByte
        <4>. QED
          BY <1>1, <1>7, <4>1
      <3>3. dev'[d].ptr = a
        BY <1>1, <1>7, <2>2, <2>3, <3>2 DEF Device
      <3>4. RegAt(a, n - 1) = a
        BY <1>1, <3>1, RegAtIsRing
      <3>5. Written(t, n - 1)'
        BY <1>4, <3>1 DEF Written
      <3>. QED
        BY <1>4, <2>1, <3>3, <3>4, <3>5 DEF Pointer
    <2>4. CASE ~ctl.first
      <3>1. n - 1 # 0 /\ n - 2 \in Nat /\ n - 1 > 0
        BY <1>1, <1>2, <1>5, <2>4 DEF Sent
      <3> DEFINE b == DataByte(t, n - 2)
      <3>2. p = RegAt(a, n - 2)
        <4>1. Pointer(t) = RegAt(a, Taken(t) - 1)
          BY <1>2, <1>5, <1>8, <3>1 DEF Sent
        <4>2. Taken(t) - 1 = n - 2
          BY <1>1, <1>5
        <4>. QED
          BY <2>1, <4>1, <4>2 DEF Pointer
      <3>3. ctl.txdr = b
        <4>1. (n - 1) - 1 = n - 2
          BY <1>1, <3>1
        <4>. QED
          BY <1>5, <3>1, <4>1 DEF TxByte
      <3> HIDE DEF b
      <3>4. /\ dev'[d].ptr = NextReg(p)
            /\ dev'[d].mem = [dev[d].mem EXCEPT ![p] = b]
        BY <1>1, <1>7, <2>2, <2>4, <3>3 DEF Device
      <3>5. RegAt(a, n - 1) = NextReg(p)
        <4>1. RegAt(a, (n - 2) + 1) = NextReg(RegAt(a, n - 2))
          BY <1>1, <3>1, RegAtIsRing
        <4>2. (n - 2) + 1 = n - 1
          BY <1>1, <3>1
        <4>. QED
          BY <3>2, <4>1, <4>2
      <3>6. ASSUME call[t].fn = "write" PROVE Written(t, n - 1)'
        <4> SUFFICES ASSUME NEW i \in Nat, i < n - 1, n - 1 <= i + MaxReg + 1
                     PROVE  Content(t, i)' = DataByte(t, i)
          BY <1>4 DEF Written
        <4>1. RegAt(a, i) \in Regs
          BY <1>1, RegAtIsRing
        <4>2. Content(t, i)' = dev'[d].mem[RegAt(a, i)]
          BY <1>4, <2>1 DEF Content
        <4>3. CASE i = n - 2
          BY <2>2, <3>2, <3>4, <4>1, <4>2, <4>3 DEF b
        <4>4. CASE i # n - 2
          <5>1. Taken(t) - 1 = n - 2 /\ i < n - 2 /\ n - 2 <= i + MaxReg
            BY <1>1, <1>5, <3>1, <4>4, MaxAssumption
          <5>2. Written(t, n - 2)
            BY <1>2, <3>6, <5>1 DEF Sent
          <5>3. dev[d].mem[RegAt(a, i)] = DataByte(t, i)
            <6>1. n - 2 \in Nat /\ n - 2 <= i + MaxReg + 1
              BY <1>1, <3>1, <5>1, MaxAssumption
            <6>2. Content(t, i) = DataByte(t, i)
              BY <5>1, <5>2, <6>1 DEF Written
            <6>. QED
              BY <2>1, <6>2 DEF Content
          <5>4. RegAt(a, i) # p
            BY <1>1, <3>1, <3>2, <5>1, RegAtApart
          <5>. QED
            BY <2>2, <3>4, <4>1, <4>2, <5>3, <5>4
        <4>. QED
          BY <4>3, <4>4
      <3>. QED
        BY <1>4, <2>1, <3>4, <3>5, <3>6 DEF Pointer
    <2>. QED
      BY <2>3, <2>4
  <1>9. Sent(t)'
    BY <1>1, <1>3, <1>4, <1>5, <1>8 DEF Sent
  <1>. QED
    BY <1>2, <1>4, <1>6, <1>9 DEF InTransfer

(* A device sends the register its pointer is at and steps on.             *)
LEMMA SendsSynced ==
  ASSUME IInv, AnswerFits, Synced, NEW t \in Tasks, pc[t] \in Waits,
         Counted(t), IF hal[t].rx THEN Received(t) ELSE Sent(t),
         DeviceSends, UNCHANGED taskVars
  PROVE  InTransfer(t)'
  <1> DEFINE d == ctl.sadd
             a == call[t].reg
             n == hal[t].at
  <1>1. /\ ctl \in Controller /\ ctl.phase = "rx" /\ ~ctl.rxne /\ ctl.nbytes # 0
        /\ d \in Devices /\ dev[d] \in Device /\ a \in Regs
        /\ hal[t] \in HalFrame /\ n \in Nat
    <2>1. ctl.phase = "rx" /\ ~ctl.rxne
      BY DEF DeviceSends
    <2>2. hal[t] \in HalFrame
      BY DEF IInv, TypeOK
    <2>. QED
      BY <2>1, <2>2, TransferTypes
      DEF IInv, TypeOK, ControllerFits, AnswerFits, HalFrame
  <1>2. ctl.rx /\ hal[t].rx /\ Received(t)
    BY <1>1 DEF Counted
  <1>3. /\ ctl'.phase = AfterByte /\ ctl'.nbytes = ctl.nbytes - 1
        /\ ctl'.rxne /\ ctl'.rxdr = dev[d].mem[dev[d].ptr]
        /\ ctl'.rx = ctl.rx /\ ctl'.reload = ctl.reload /\ ctl'.txfull = ctl.txfull
    BY <1>1 DEF DeviceSends, Controller
  <1>4. /\ InRXDR = 0 /\ InRXDR' = 1
        /\ hal' = hal /\ pc' = pc /\ call' = call /\ stage' = stage /\ buf' = buf
    BY <1>1, <1>3 DEF InRXDR, taskVars
  <1>5. Counted(t)'
    <2>1. IsReceive(t)' = IsReceive(t)
      BY <1>4 DEF IsReceive
    <2>2. hal'[t].todo = ctl'.nbytes + InRXDR'
      BY <1>1, <1>2, <1>3, <1>4 DEF Counted, HalFrame, Controller
    <2>3. ctl'.phase \in {"rx", "tc", "tcr"}
      BY <1>1, <1>3, AfterByteCounted
    <2>. QED
      BY <1>1, <1>2, <1>3, <1>4, <2>1, <2>2, <2>3, AfterByteCounted DEF Counted
  <1>6. /\ dev'[d].ptr = NextReg(dev[d].ptr) /\ dev'[d].mem = dev[d].mem
    BY <1>1 DEF DeviceSends, IInv, TypeOK, Device
  <1>7. Received(t)'
    <2> SUFFICES ASSUME call[t].fn = "read" PROVE Received(t)'
      BY <1>4 DEF Received
    <2>1. d = call[t].addr
      BY DEF AnswerFits, Answered, TransferAddr
    <2>2. dev[d].ptr = RegAt(a, n) /\ Copied(t, n)
      BY <1>1, <1>2, <1>4, <2>1 DEF Received, Pointer
    <2>3. Pointer(t)' = RegAt(a, n + 1)
      BY <1>1, <1>4, <1>6, <2>1, <2>2, RegAtIsRing DEF Pointer
    <2>4. \A i : Content(t, i)' = Content(t, i)
      BY <1>4, <1>6, <2>1 DEF Content
    <2>5. Copied(t, n)'
      BY <1>4, <2>2, <2>4 DEF Copied
    <2>6. ctl'.rxdr = Content(t, n)'
      BY <1>3, <1>4, <1>6, <2>1, <2>2 DEF Content
    <2>. QED
      BY <1>4, <2>3, <2>5, <2>6 DEF Received
  <1>. QED
    BY <1>2, <1>4, <1>5, <1>7 DEF InTransfer

(* The bus moves only while a task waits, and then in step with it.        *)
LEMMA BusSynced ==
  ASSUME IInv, AnswerFits, Synced, Bus
  PROVE  Synced'
  <1>1. /\ UNCHANGED taskVars /\ ctl \in Controller
        /\ ctl.phase \in {"addr", "tx", "rx"}
    BY DEF Bus, AddressAcked, Nacked, DeviceTakes, DeviceSends, BusFault, IInv, TypeOK
  <1>2. PICK t \in Tasks : pc[t] \in Waits
    BY <1>1 DEF Synced, Quiet
  <1>3. Inside(t) /\ pc' = pc /\ pc[t] \in InHal /\ pc[t] \notin {"start", "ret", "unlock"}
    BY <1>1, <1>2 DEF Inside, InHal, Waits, taskVars
  <1>4. Counted(t) /\ (IF hal[t].rx THEN Received(t) ELSE Sent(t))
    BY <1>1, <1>2 DEF Synced, InTransfer
  <1>5. Transferred(t)'
    BY <1>1, <1>3 DEF Synced, Transferred, taskVars
  <1>6. InTransfer(t)'
    <2>1. CASE AddressAcked
      <3> DEFINE phase == CASE ctl.nbytes = 0 -> "tc"
                            [] ctl.nbytes > 0 /\ ctl.rx -> "rx"
                            [] OTHER -> "tx"
      <3>1. ctl' = [ctl EXCEPT !.phase = phase] /\ dev' = dev /\ ctl.phase = "addr"
        BY <2>1 DEF AddressAcked
      <3>2. /\ phase \in {"tc", "rx", "tx"}
            /\ phase = "tc" => ctl.nbytes = 0
            /\ phase = "rx" => ctl.rx
            /\ phase = "tx" => ~ctl.rx
        BY <1>1 DEF Controller
      <3> HIDE DEF phase
      <3>3. /\ ctl'.phase = phase /\ ctl'.nbytes = ctl.nbytes /\ ctl'.rx = ctl.rx
            /\ ctl'.reload = ctl.reload /\ ctl'.first = ctl.first
            /\ ctl'.txfull = ctl.txfull /\ ctl'.txdr = ctl.txdr
            /\ ctl'.rxne = ctl.rxne /\ ctl'.rxdr = ctl.rxdr
        BY <1>1, <3>1 DEF Controller
      <3>4. InTXDR' = InTXDR /\ InRXDR' = InRXDR /\ InTXDR = 0 /\ InRXDR = 0
        BY <1>4, <3>1, <3>3 DEF InTXDR, InRXDR, Counted
      <3>5. hal' = hal /\ call' = call /\ stage' = stage /\ buf' = buf
        BY <1>1 DEF taskVars
      <3>6. phase = "tc" => hal[t].left = 0
        <4>1. hal[t].todo \in Nat /\ ctl.nbytes = hal[t].todo
          BY <1>1, <1>4, <3>4 DEF Counted, IInv, TypeOK, HalFrame, Controller
        <4>. QED
          BY <1>4, <3>1, <3>2, <4>1 DEF Counted
      <3>7. Counted(t)'
        <4>1. IsReceive(t)' = IsReceive(t)
          BY <3>5 DEF IsReceive
        <4>. QED
          BY <1>4, <3>1, <3>2, <3>3, <3>4, <3>5, <3>6, <4>1 DEF Counted
      <3>8. /\ Pointer(t)' = Pointer(t) /\ \A i : Content(t, i)' = Content(t, i)
            /\ Taken(t)' = Taken(t)
        BY <3>1, <3>4, <3>5 DEF Pointer, Content, Taken
      <3>9. \A n : Written(t, n)' = Written(t, n) /\ Copied(t, n)' = Copied(t, n)
        BY <3>5, <3>8 DEF Written, Copied
      <3>10. Received(t) => Received(t)'
        BY <3>3, <3>4, <3>5, <3>8, <3>9 DEF Received
      <3>11. Sent(t) => Sent(t)'
        BY <3>3, <3>5, <3>8, <3>9 DEF Sent, TxByte
      <3>. QED
        BY <1>4, <3>5, <3>7, <3>10, <3>11 DEF InTransfer
    <2>2. CASE Nacked \/ BusFault
      BY <1>1, <2>2 DEF Nacked, BusFault, Controller, InTransfer
    <2>3. CASE DeviceTakes
      BY <1>1, <1>2, <1>4, <2>3, TakesSynced
    <2>4. CASE DeviceSends
      BY <1>1, <1>2, <1>4, <2>4, SendsSynced
    <2>. QED
      BY <2>1, <2>2, <2>3, <2>4 DEF Bus
  <1>. QED
    BY <1>2, <1>3, <1>5, <1>6, OwnSynced

(* The steps of the HAL, as long as none fails.                            *)
LEMMA HalSynced ==
  ASSUME IInv, AnswerFits, NeverFailed, Synced, NEW t \in Tasks, Hal(t), NeverFailed'
  PROVE  Synced'
  <1>1. ASSUME NEW status, NEW code, HalFails(t, status, code), code # "NONE"
        PROVE  FALSE
    BY <1>1 DEF HalFails, NeverFailed
  <1>2. CASE PollsAgain(t)
    <2>1. /\ UNCHANGED <<pc, call, stage, st, buf, ctl, dev>>
      BY <1>2 DEF PollsAgain
    <2>2. ASSUME NEW u \in Tasks
          PROVE  /\ hal'[u].rx = hal[u].rx /\ hal'[u].at = hal[u].at
                 /\ hal'[u].todo = hal[u].todo /\ hal'[u].left = hal[u].left
      <3>1. hal[u] \in HalFrame
        BY DEF IInv, TypeOK
      <3>. QED
        BY <1>2, <3>1 DEF PollsAgain, HalFrame, IInv, TypeOK
    <2>3. ASSUME NEW u \in Tasks PROVE (InTransfer(u) /\ Transferred(u))'
      BY <2>1, <2>2, SyncedStays DEF Synced
    <2>. QED
      BY <2>1, <2>3 DEF Synced, Quiet
  <1>3. CASE StartTransfer(t)
    BY <1>3, StartSynced
  <1>4. CASE TimesOut(t)
    BY <1>1, <1>4 DEF TimesOut
  <1>5. CASE WaitTXIS(t) /\ ~PollsAgain(t)
    BY <1>1, <1>5, SendSynced DEF WaitTXIS, Polls
  <1>6. CASE WaitRXNE(t) /\ ~PollsAgain(t)
    BY <1>1, <1>6, ReceiveSynced DEF WaitRXNE, Polls
  <1>7. CASE WaitTC(t) /\ ~PollsAgain(t)
    BY <1>7, FinishSynced DEF WaitTC, Polls
  <1>8. CASE WaitTCR(t) /\ ~PollsAgain(t)
    <2>1. TCR
      BY <1>8 DEF WaitTCR
    <2>. QED
      BY <1>8, <2>1, ChunkSynced
  <1>9. CASE HalReturned(t)
    BY <1>9, ReturnedSynced
  <1>. QED
    BY <1>2, <1>3, <1>4, <1>5, <1>6, <1>7, <1>8, <1>9 DEF Hal

(* hexa_i2c_init finds nobody inside.                                      *)
LEMMA InitStepSynced ==
  ASSUME IInv, BootFits, Synced, hexa_i2c_init
  PROVE  Synced'
  <1>1. owner = NoTask /\ UNCHANGED taskVars /\ ctl \in Controller
    BY DEF BootFits, hexa_i2c_init, IInv, TypeOK
  <1>2. \A u \in Tasks : pc[u] \notin InHal \cup {"unlock"}
    BY <1>1, TasksAssumption DEF IInv, BusExclusion, Inside
  <1>3. pc' = pc /\ (\A u \in Tasks : pc[u] \notin Waits)
    BY <1>1, <1>2 DEF InHal, taskVars
  <1>4. Quiet'
    BY <1>1, <1>3 DEF Synced, Quiet, hexa_i2c_init, Controller
  <1>5. ASSUME NEW u \in Tasks PROVE (InTransfer(u) /\ Transferred(u))'
    BY <1>2, <1>3 DEF InTransfer, Transferred, InHal, Waits
  <1>. QED
    BY <1>4, <1>5 DEF Synced

(* ErrorCode never goes back to I2C_ERROR_NONE.                            *)
LEMMA FailureStays == [Next]_vars /\ NeverFailed' /\ TypeOK => NeverFailed
  <1> SUFFICES ASSUME [Next]_vars, NeverFailed', TypeOK PROVE NeverFailed
    OBVIOUS
  <1>1. CASE ErrorCode' = ErrorCode
    BY <1>1 DEF NeverFailed
  <1>2. ASSUME NEW t \in Tasks, NEW status, NEW code, code # "NONE",
               HalFails(t, status, code)
        PROVE  FALSE
    BY <1>2 DEF HalFails, NeverFailed
  <1>3. ASSUME NEW t \in Tasks, Hal(t) PROVE NeverFailed
    <2>1. CASE TimesOut(t)
      BY <1>2, <2>1 DEF TimesOut
    <2>2. CASE WaitTXIS(t)
      BY <1>1, <1>2, <2>2 DEF WaitTXIS, PollsAgain
    <2>3. CASE WaitRXNE(t)
      BY <1>1, <1>2, <2>3 DEF WaitRXNE, PollsAgain
    <2>4. CASE StartTransfer(t) \/ WaitTC(t) \/ WaitTCR(t) \/ HalReturned(t)
      BY <1>1, <2>4 DEF StartTransfer, WaitTC, WaitTCR, HalReturned, PollsAgain
    <2>. QED
      BY <1>3, <2>1, <2>2, <2>3, <2>4 DEF Hal
  <1>4. ASSUME NEW t \in Tasks, Driver(t) PROVE NeverFailed
    BY <1>1, <1>4 DEF Driver, Invoke, TakeNull, i2c_lock, i2c_unlock, Return
  <1>5. CASE hexa_i2c_init \/ Bus \/ UNCHANGED vars
    BY <1>1, <1>5 DEF hexa_i2c_init, Bus, vars
  <1>. QED
    BY <1>3, <1>4, <1>5 DEF Next, Task, Halted

(* Every step keeps both sides at the same byte, unless a transfer fails.  *)
LEMMA NextSynced == IInv /\ AnswerFits /\ SyncInv /\ [Next]_vars => SyncInv'
  <1> SUFFICES ASSUME IInv, AnswerFits, SyncInv, [Next]_vars, NeverFailed' PROVE Synced'
    BY BootStep DEF SyncInv
  <1>1. NeverFailed /\ Synced /\ BootFits
    BY FailureStays DEF SyncInv, IInv
  <1>2. ASSUME NEW t \in Tasks, Driver(t) PROVE Synced'
    BY <1>1, <1>2, DriverSynced
  <1>3. ASSUME NEW t \in Tasks, Hal(t) PROVE Synced'
    BY <1>1, <1>3, HalSynced
  <1>4. CASE UNCHANGED vars
    <2>1. ASSUME NEW u \in Tasks PROVE (InTransfer(u) /\ Transferred(u))'
      BY <1>1, <1>4, SyncedStays DEF Synced, vars, taskVars
    <2>. QED
      BY <1>1, <1>4, <2>1 DEF Synced, Quiet, vars, taskVars
  <1>. QED
    BY <1>1, <1>2, <1>3, <1>4, InitStepSynced, BusSynced DEF Next, Task, Halted

(* In the initial state nothing is on the way.                             *)
LEMMA InitSynced == Init => SyncInv
  <1> SUFFICES ASSUME Init PROVE SyncInv
    OBVIOUS
  <1>1. \A u \in Tasks : pc[u] = "idle"
    BY DEF Init
  <1>2. \A u \in Tasks : InTransfer(u) /\ Transferred(u)
    BY <1>1, OutsideSynced DEF InHal, Waits
  <1>. QED
    BY <1>2 DEF Init, SyncInv, BootFits, Synced, Quiet

(* As long as no transfer has failed, both sides are at the same byte.     *)
LEMMA SyncInvariance == Spec => []SyncInv
  BY InitSynced, NextSynced, Invariance, AnswerInvariance, PTL DEF Spec

(* For any tasks, calls, devices and limits: as long as no transfer has    *)
(* failed, a register read that returns HEXA_OK is one instant's picture   *)
(* of the registers, although other tasks write them between its parts.    *)
THEOREM ReadSnapshot == Spec => []ReadIsSnapshot
  <1>1. IInv /\ SyncInv => ReadIsSnapshot
    <2> SUFFICES ASSUME IInv, SyncInv, NeverFailed, NEW t \in Tasks, pc[t] = "unlock",
                        call[t].fn = "read", st[t] = "OK"
                 PROVE  OkReadIsRegister(t)
      BY DEF ReadIsSnapshot, OkReadIsRegister
    <2> DEFINE len == call[t].len
    <2>1. Len(buf[t]) = len /\ \A i \in 1 .. len : buf[t][i] = Content(t, i - 1)
      BY DEF SyncInv, Synced, Transferred, Copied
    <2>2. buf[t] \in Seq(Bytes)
      BY DEF IInv, TypeOK
    <2>3. buf[t] = [i \in 1 .. len |-> buf[t][i]]
      BY <2>1, <2>2
    <2>4. buf[t] = [i \in 1 .. len |-> Content(t, i - 1)]
      BY <2>1, <2>3
    <2>. QED
      BY <2>4 DEF OkReadIsRegister, Content
  <1>. QED
    BY <1>1, Invariance, SyncInvariance, PTL

(* And a register write that returns HEXA_OK has put every byte where it   *)
(* belongs, byte i of the data into the i-th register from the named one   *)
(* on, in transfers of one chunk or many.                                  *)
THEOREM WriteComplete == Spec => []WriteIsComplete
  <1>1. IInv /\ SyncInv => WriteIsComplete
    <2> SUFFICES ASSUME IInv, SyncInv, NeverFailed, NEW t \in Tasks, pc[t] = "unlock",
                        call[t].fn = "write", st[t] = "OK",
                        NEW i \in 0 .. call[t].len - 1,
                        i + MaxReg + 1 >= call[t].len
                 PROVE  dev[call[t].addr].mem[RegAt(call[t].reg, i)] = DataByte(t, i)
      BY DEF WriteIsComplete
    <2>1. Written(t, call[t].len)
      BY DEF SyncInv, Synced, Transferred
    <2>2. i \in Nat /\ i < call[t].len /\ call[t].len <= i + MaxReg + 1
      BY TransferTypes, MaxAssumption DEF IInv
    <2>. QED
      BY <2>1, <2>2 DEF Written, Content
  <1>. QED
    BY <1>1, Invariance, SyncInvariance, PTL
=============================================================================
