----------------------------- MODULE RtosKernel -----------------------------
(***************************************************************************)
(* The FreeRTOS kernel as this SDK builds and uses it (tasks.c, queue.c    *)
(* and list.c, bsp/freertos/FreeRTOSConfig.h): one core, preemption, time  *)
(* slicing, priorities kept in a bitmap, one mutex waited for without      *)
(* limit, delays, and tasks that are created once and delete themselves.   *)
(*                                                                         *)
(* Only the task pxCurrentTCB runs, and the tick interrupt may come        *)
(* between any two of its steps.  A step is a critical section, a call of  *)
(* vTaskSuspendAll, a call of xTaskResumeAll, or a yield: the port's yield *)
(* is a trap, so the switch is made at once, critical section or not.      *)
(***************************************************************************)
EXTENDS Naturals, SequencesExt

CONSTANTS
  Tasks,         \* the application's tasks
  Idle,          \* the idle task
  END,           \* xListEnd, the end marker of a list
  NULL,
  Main,          \* the tasks that exist when the scheduler starts
  configMAX_PRIORITIES,
  BasePriority,  \* uxPriority in the call of xTaskCreate
  Users,         \* the tasks that take the mutex
  Delays,        \* the arguments of vTaskDelay
  Period,        \* the argument of vTaskDelayUntil; 0: the task does not use it
  WRAP,          \* the tick count wraps there (2^32)
  MaxPended      \* bound: ticks while the scheduler is suspended

AllTasks == Tasks \cup {Idle}

ASSUME NamesAssumption    == /\ Idle \notin Tasks
                             /\ END \notin AllTasks
                             /\ NULL \notin AllTasks
ASSUME TasksAssumption    == /\ IsFiniteSet(Tasks)
                             /\ Main \subseteq Tasks /\ Users \subseteq Tasks
ASSUME PriorityAssumption == /\ configMAX_PRIORITIES \in Nat
                             /\ BasePriority \in [AllTasks -> 0 .. configMAX_PRIORITIES - 1]
                             /\ BasePriority[Idle] = 0
                             /\ \A t \in Tasks : BasePriority[t] > 0
ASSUME WrapAssumption     == WRAP \in Nat \ {0, 1}
ASSUME DelaysAssumption   == /\ Delays \subseteq 0 .. WRAP - 1
                             /\ Period \in [Tasks -> 0 .. WRAP - 1]
ASSUME PendedAssumption   == MaxPended \in Nat

MAX_DELAY == WRAP - 1

Priorities == {BasePriority[t] : t \in AllTasks}

VARIABLES
  s,             \* the scheduler's variables, a record
  uxMessagesWaiting,
  xMutexHolder,
  waiters,       \* xTasksWaitingToReceive, a sequence in the order of waking
  pc,            \* where each task is
  terminated,    \* xTasksWaitingTermination
  wakeTime       \* *pxPreviousWakeTime of a task that calls vTaskDelayUntil

mutexVars == <<uxMessagesWaiting, xMutexHolder, waiters>>
vars      == <<s, mutexVars, pc, terminated, wakeTime>>

Goto(t, label) == pc' = [pc EXCEPT ![t] = label]

-----------------------------------------------------------------------------
(* Lists.  A list that pxIndex walks is written from the item after        *)
(* pxIndex round to pxIndex itself, which comes last.                      *)

(* Before pxIndex: the last one listGET_OWNER_OF_NEXT_ENTRY comes to.      *)
vListInsertEnd(list, t) == Append(Front(list), t) \o <<Last(list)>>

(* When pxIndex is removed it falls back to the item before it.            *)
uxListRemove(list, t) == RemoveFirst(list, t)

ListLength(list) == Len(list) - 1

Turn(list) == Append(Tail(list), Head(list))

(* pxIndex moves on by one, and once more if that is the end marker.       *)
NextEntry(list) == IF Head(list) = END THEN Turn(Turn(list)) ELSE Turn(list)

(* The first of some places in a list, or the place after its end.         *)
FirstOf(places, list) == Min(places \cup {Len(list) + 1})

(* In the order of wake times, after the items of the same time.           *)
vListInsert(list, item) ==
  InsertAt(list, FirstOf({i \in DOMAIN list : list[i].wake > item.wake}, list), item)

(* The event list: xItemValue is configMAX_PRIORITIES - uxPriority.        *)
ByPriority(list, t, prio) ==
  InsertAt(list, FirstOf({i \in DOMAIN list : prio[list[i]] < prio[t]}, list), t)

-----------------------------------------------------------------------------
(* The scheduler: operators that take its variables and return them        *)
(* changed.                                                                *)

prvAddTaskToReadyList(k, t) ==
  [k EXCEPT !.top = @ \cup {k.prio[t]},
            !.ready[k.prio[t]] = vListInsertEnd(@, t)]

(* uxListRemove of xStateListItem from a ready list, with                  *)
(* portRESET_READY_PRIORITY when it was the last one.                      *)
RemoveFromReadyList(k, t) ==
  LET p == k.prio[t]
      list == uxListRemove(k.ready[p], t)
  IN [k EXCEPT !.ready[p] = list,
               !.top = IF ListLength(list) = 0 THEN @ \ {p} ELSE @]

IsReady(k, t) == \E p \in Priorities : t \in Range(k.ready[p])

vTaskSwitchContext(k) ==
  IF k.suspended THEN [k EXCEPT !.yield = TRUE]
  ELSE LET list == NextEntry(k.ready[Max(k.top)])
       IN [k EXCEPT !.yield = FALSE,
                    !.ready[Max(k.top)] = list,
                    !.current = Last(list)]

prvResetNextTaskUnblockTime(k) ==
  [k EXCEPT !.next = IF k.delayed = <<>> THEN MAX_DELAY ELSE Head(k.delayed).wake]

(* Fault: a wake time past the wrap goes into the current list.            *)
OneDelayedList(k, ticks) ==
  LET wake == (k.tick + ticks) % WRAP
  IN [RemoveFromReadyList(k, k.current) EXCEPT
        !.delayed = vListInsert(@, [task |-> k.current, wake |-> wake]),
        !.next = IF wake < @ THEN wake ELSE @]

(* With a finite delay, or one that must not be taken for "no limit".      *)
prvAddCurrentTaskToDelayedList(k, ticks) ==
  LET wake == (k.tick + ticks) % WRAP
      item == [task |-> k.current, wake |-> wake]
      k1   == RemoveFromReadyList(k, k.current)
  IN IF wake < k.tick
     THEN [k1 EXCEPT !.overflow = vListInsert(@, item)]
     ELSE [k1 EXCEPT !.delayed = vListInsert(@, item),
                     !.next = IF wake < @ THEN wake ELSE @]

(* Fault: xNextTaskUnblockTime keeps the value it had for the other list.  *)
ListsOnly(k) == [k EXCEPT !.delayed = k.overflow, !.overflow = k.delayed]

taskSWITCH_DELAYED_LISTS(k) ==
  prvResetNextTaskUnblockTime([k EXCEPT !.delayed = k.overflow, !.overflow = k.delayed])

(* The loop of xTaskIncrementTick over the delayed list, which it leaves   *)
(* at the first item that is not due.                                      *)
WakeTasks(k) ==
  LET later == FirstOf({i \in DOMAIN k.delayed : k.delayed[i].wake > k.tick}, k.delayed)
      due   == SubSeq(k.delayed, 1, later - 1)
      left  == SubSeq(k.delayed, later, Len(k.delayed))
  IN prvResetNextTaskUnblockTime(
       FoldLeft(LAMBDA r, e : prvAddTaskToReadyList(r, e.task),
                [k EXCEPT !.delayed = left], due))

(* xTaskIncrementTick with the scheduler running.                          *)
Tick(k) ==
  LET k1 == [k EXCEPT !.tick = (@ + 1) % WRAP]
      k2 == IF k1.tick = 0 THEN taskSWITCH_DELAYED_LISTS(k1) ELSE k1
  IN IF k2.tick >= k2.next THEN WakeTasks(k2) ELSE k2

Asleep(k) == {e.task : e \in Range(k.delayed) \cup Range(k.overflow)}

(* Fault: a switch for time slicing only.                                  *)
SlicesOnly(k, k1) == ListLength(k1.ready[k1.prio[k1.current]]) > 1 \/ k1.yield

(* What xTaskIncrementTick returns: k before the tick, k1 after it.        *)
SwitchRequired(k, k1) ==
  \/ \E t \in Asleep(k) \ Asleep(k1) : k1.prio[t] > k1.prio[k1.current]
  \/ ListLength(k1.ready[k1.prio[k1.current]]) > 1
  \/ k1.yield

(* One tick that xTaskResumeAll catches up with.                           *)
PendedTick(k) ==
  LET k1 == Tick(k) IN [k1 EXCEPT !.yield = SwitchRequired(k, k1)]

(* xPendingReadyList is empty: no interrupt handler of the SDK gives       *)
(* anything.                                                               *)
Resumed(k) ==
  FoldLeft(LAMBDA r, i : PendedTick(r),
           [k EXCEPT !.suspended = FALSE, !.pended = 0],
           [i \in 1 .. k.pended |-> i])

AlreadyYielded(k) == Resumed(k).yield

xTaskResumeAll(k) == IF AlreadyYielded(k) THEN vTaskSwitchContext(Resumed(k)) ELSE Resumed(k)

vTaskSuspendAll(k) == [k EXCEPT !.suspended = TRUE]

-----------------------------------------------------------------------------
(* Priorities of the tasks that hold the mutex.                            *)

SetPriority(k, t, p) ==
  IF t \in Range(k.ready[k.prio[t]])
  THEN prvAddTaskToReadyList([RemoveFromReadyList(k, t) EXCEPT !.prio[t] = p], t)
  ELSE [k EXCEPT !.prio[t] = p]

xTaskPriorityInherit(k, holder) ==
  IF holder # NULL /\ k.prio[holder] < k.prio[k.current]
  THEN SetPriority(k, holder, k.prio[k.current]) ELSE k

(* Fault: the lent priority is kept.                                       *)
KeepsPriority(k, t) == k

(* Whether xTaskPriorityDisinherit changes the priority; uxMutexesHeld is  *)
(* zero after it, the task holds no second mutex.                          *)
Inherited(k, t) == k.prio[t] # BasePriority[t]

xTaskPriorityDisinherit(k, t) ==
  IF Inherited(k, t) THEN SetPriority(k, t, BasePriority[t]) ELSE k

(* The task at the head of the event list, which waits without limit, is   *)
(* made ready, and there is a switch if it comes before the current one.   *)
xTaskRemoveFromEventList(k, t) ==
  LET k1 == prvAddTaskToReadyList([k EXCEPT !.blocked = @ \ {t}], t)
  IN IF k1.prio[t] > k1.prio[k1.current] THEN vTaskSwitchContext(k1) ELSE k1

-----------------------------------------------------------------------------
(* vTaskStartScheduler has chosen among the tasks created before it, with  *)
(* interrupts off.                                                         *)
ReadyAtStart(p) ==
  Append(SetToSeq({t \in Main \cup {Idle} : BasePriority[t] = p}), END)

Init ==
  /\ \E t \in Main :
       /\ \A u \in Main : BasePriority[u] <= BasePriority[t]
       /\ s = [ready      |-> [p \in Priorities |-> ReadyAtStart(p)],
               top        |-> {BasePriority[u] : u \in Main \cup {Idle}},
               prio       |-> BasePriority,
               current    |-> t,
               delayed    |-> <<>>,
               overflow   |-> <<>>,
               blocked    |-> {},
               tick       |-> 0,
               next       |-> MAX_DELAY,
               suspended  |-> FALSE,
               pended     |-> 0,
               yield      |-> FALSE]
  /\ uxMessagesWaiting = 1
  /\ xMutexHolder = NULL
  /\ waiters = <<>>
  /\ pc = [t \in Tasks |-> IF t \in Main THEN "run" ELSE "none"]
  /\ terminated = <<>>
  /\ wakeTime = [t \in Tasks |-> 0]

At(t, label) == s.current = t /\ pc[t] = label

-----------------------------------------------------------------------------
(* xSemaphoreTake(mutex, portMAX_DELAY), that is xQueueSemaphoreTake.      *)

CallTake(t) ==
  /\ At(t, "run")
  /\ t \in Users
  /\ Goto(t, "take")
  /\ UNCHANGED <<s, mutexVars, terminated, wakeTime>>

(* Fault: what is left of the mutex is not looked at.                      *)
TakeUnlooked(t) ==
  /\ At(t, "take")
  /\ uxMessagesWaiting' = 0
  /\ xMutexHolder' = t
  /\ Goto(t, "inside")
  /\ UNCHANGED <<s, waiters, terminated, wakeTime>>

(* The first critical section: the mutex is taken if it can be.            *)
TryTake(t) ==
  /\ At(t, "take")
  /\ \/ /\ uxMessagesWaiting > 0
        /\ uxMessagesWaiting' = uxMessagesWaiting - 1
        /\ xMutexHolder' = t
        /\ Goto(t, "inside")
     \/ /\ uxMessagesWaiting = 0
        /\ Goto(t, "wait")
        /\ UNCHANGED <<uxMessagesWaiting, xMutexHolder>>
  /\ UNCHANGED <<s, waiters, terminated, wakeTime>>

(* Fault: the count is not looked at again once the scheduler is           *)
(* suspended.                                                              *)
NotLookedAtAgain == TRUE

prvIsQueueEmpty == uxMessagesWaiting = 0

(* Block on the event list and on the list of suspended tasks.             *)
vTaskPlaceOnEventList(k, t) ==
  [RemoveFromReadyList(k, t) EXCEPT !.blocked = @ \cup {t}]

(* The scheduler is suspended, so nobody gives the mutex back between the  *)
(* second look at it and the place on the event list.                      *)
BlockOnTake(t) ==
  /\ At(t, "wait")
  /\ \/ /\ prvIsQueueEmpty
        /\ LET k == xTaskPriorityInherit(vTaskSuspendAll(s), xMutexHolder)
           IN /\ s' = vTaskPlaceOnEventList(k, t)
              /\ waiters' = ByPriority(waiters, t, k.prio)
        /\ Goto(t, "listed")
     \/ /\ ~prvIsQueueEmpty
        /\ s' = vTaskSuspendAll(s)
        /\ Goto(t, "retry")
        /\ UNCHANGED waiters
  /\ UNCHANGED <<uxMessagesWaiting, xMutexHolder, terminated, wakeTime>>

(* xTaskResumeAll, after which the task tries again.                       *)
RetryTake(t) ==
  /\ At(t, "retry")
  /\ s' = xTaskResumeAll(s)
  /\ Goto(t, "take")
  /\ UNCHANGED <<mutexVars, terminated, wakeTime>>

(* xTaskResumeAll of a task that is in no ready list any more: unless it   *)
(* has switched already the task goes on, to its own taskYIELD_WITHIN_API. *)
ResumeBlocked(t, from, yields, done) ==
  /\ At(t, from)
  /\ s' = xTaskResumeAll(s)
  /\ Goto(t, IF AlreadyYielded(s) THEN done ELSE yields)
  /\ UNCHANGED <<mutexVars, terminated, wakeTime>>

Yield(t, from, done) ==
  /\ At(t, from)
  /\ s' = vTaskSwitchContext(s)
  /\ Goto(t, done)
  /\ UNCHANGED <<mutexVars, terminated, wakeTime>>

-----------------------------------------------------------------------------
(* xSemaphoreGive: xQueueGenericSend, one critical section.                *)

(* Fault: a waiter is only taken off the event list, not made ready.       *)
NotMadeReady(k) == k

(* After prvCopyDataToQueue: who is woken, and whether to yield.           *)
Given(k) ==
  IF waiters # <<>> THEN xTaskRemoveFromEventList(k, Head(waiters))
  ELSE IF Inherited(s, s.current) THEN vTaskSwitchContext(k) ELSE k

Give(t) ==
  /\ At(t, "inside")
  /\ s' = Given(xTaskPriorityDisinherit(s, t))
  /\ waiters' = IF waiters # <<>> THEN Tail(waiters) ELSE waiters
  /\ xMutexHolder' = NULL
  /\ uxMessagesWaiting' = uxMessagesWaiting + 1
  /\ Goto(t, "run")
  /\ UNCHANGED <<terminated, wakeTime>>

-----------------------------------------------------------------------------
(* Delays.                                                                 *)

(* The scheduler is suspended and the task put on a delayed list; or only  *)
(* a yield, for no ticks.                                                  *)
vTaskDelay(t) ==
  /\ At(t, "run")
  /\ \E ticks \in Delays :
       \/ /\ ticks > 0
          /\ s' = prvAddCurrentTaskToDelayedList(vTaskSuspendAll(s), ticks)
          /\ Goto(t, "asleep")
       \/ /\ ticks = 0
          /\ s' = vTaskSwitchContext(s)
          /\ UNCHANGED pc
  /\ UNCHANGED <<mutexVars, terminated, wakeTime>>

(* Whether the time to wake is still to come, on a clock that wraps.       *)
ShouldDelay(now, previous, wake) ==
  IF now < previous THEN wake < previous /\ wake > now
                    ELSE wake < previous \/ wake > now

xTaskDelayUntil(t) ==
  /\ At(t, "run")
  /\ Period[t] > 0
  /\ LET wake == (wakeTime[t] + Period[t]) % WRAP
         k    == vTaskSuspendAll(s)
     IN /\ wakeTime' = [wakeTime EXCEPT ![t] = wake]
        /\ \/ /\ ShouldDelay(s.tick, wakeTime[t], wake)
              /\ s' = prvAddCurrentTaskToDelayedList(k, (wake + WRAP - s.tick) % WRAP)
           \/ /\ ~ShouldDelay(s.tick, wakeTime[t], wake)
              /\ s' = k
  /\ Goto(t, "asleep")
  /\ UNCHANGED <<mutexVars, terminated>>

-----------------------------------------------------------------------------
(* Tasks come and go.                                                      *)

(* xTaskCreate of u by t, with memory enough: prvAddNewTaskToReadyList,    *)
(* and a yield to a task that comes before its creator.  The task reads    *)
(* the tick count for its vTaskDelayUntil when it first runs.              *)
xTaskCreate(t, u) ==
  /\ At(t, "run")
  /\ t \in Main
  /\ pc[u] = "none"
  /\ LET k == prvAddTaskToReadyList(s, u)
     IN s' = IF k.prio[u] > k.prio[t] THEN vTaskSwitchContext(k) ELSE k
  /\ pc' = [pc EXCEPT ![u] = IF Period[u] > 0 THEN "start" ELSE "run"]
  /\ UNCHANGED <<mutexVars, terminated, wakeTime>>

(* next = xTaskGetTickCount()                                              *)
StartPeriod(t) ==
  /\ At(t, "start")
  /\ wakeTime' = [wakeTime EXCEPT ![t] = s.tick]
  /\ Goto(t, "run")
  /\ UNCHANGED <<s, mutexVars, terminated>>

(* Fault: the task is on no list the idle task looks at.                   *)
DeleteForgets(t) ==
  /\ At(t, "run")
  /\ t \in Main
  /\ s' = RemoveFromReadyList(s, t)
  /\ Goto(t, "deleted")
  /\ UNCHANGED <<mutexVars, terminated, wakeTime>>

(* vTaskDelete(NULL): its memory is left to the idle task.                 *)
vTaskDelete(t) ==
  /\ At(t, "run")
  /\ t \in Main
  /\ s' = RemoveFromReadyList(s, t)
  /\ terminated' = Append(terminated, t)
  /\ Goto(t, "deleted")
  /\ UNCHANGED <<mutexVars, wakeTime>>

(* prvCheckTasksWaitingTermination                                         *)
IdleFrees ==
  /\ s.current = Idle
  /\ terminated # <<>>
  /\ terminated' = Tail(terminated)
  /\ Goto(Head(terminated), "freed")
  /\ UNCHANGED <<s, mutexVars, wakeTime>>

-----------------------------------------------------------------------------
(* The tick interrupt.  The bound MaxPended is on how long a task keeps    *)
(* the scheduler suspended.                                                *)
TickInterrupt ==
  /\ \/ /\ s.suspended
        /\ s.pended < MaxPended
        /\ s' = [s EXCEPT !.pended = @ + 1]
     \/ /\ ~s.suspended
        /\ LET k == Tick(s)
           IN s' = IF SwitchRequired(s, k) THEN vTaskSwitchContext(k) ELSE k
  /\ UNCHANGED <<mutexVars, pc, terminated, wakeTime>>

Step(t) ==
  \/ CallTake(t) \/ TryTake(t) \/ BlockOnTake(t) \/ RetryTake(t)
  \/ ResumeBlocked(t, "listed", "parked", "take") \/ Yield(t, "parked", "take")
  \/ Give(t)
  \/ vTaskDelay(t) \/ xTaskDelayUntil(t)
  \/ ResumeBlocked(t, "asleep", "delayed", "run") \/ Yield(t, "delayed", "run")
  \/ \E u \in Tasks : xTaskCreate(t, u)
  \/ StartPeriod(t) \/ vTaskDelete(t) \/ Yield(t, "deleted", "gone")

Next == \/ \E t \in Tasks : Step(t)
        \/ IdleFrees
        \/ TickInterrupt

Spec == Init /\ [][Next]_vars

(* The loop of the idle task gets on whenever it is scheduled again and    *)
(* again.                                                                  *)
FairSpec == Spec /\ SF_vars(IdleFrees)

-----------------------------------------------------------------------------
(* Properties.                                                             *)

ReadyTasks(p) == Range(s.ready[p]) \ {END}

Created == {t \in Tasks : pc[t] \notin {"none", "freed"}}

(* How many of the lists that xStateListItem can be in hold t.             *)
ListsWith(t) ==
  Cardinality({p \in Priorities : t \in ReadyTasks(p)})
    + Cardinality({i \in DOMAIN s.delayed : s.delayed[i].task = t})
    + Cardinality({i \in DOMAIN s.overflow : s.overflow[i].task = t})
    + (IF t \in s.blocked THEN 1 ELSE 0)
    + Cardinality({i \in DOMAIN terminated : terminated[i] = t})

(* Every task is in exactly one state list; the bits of uxTopReadyPriority *)
(* are the lists with a task in them; a delayed task is due before the     *)
(* tick count wraps, one in the overflow list after it, both lists are in  *)
(* the order of waking, and xNextTaskUnblockTime is never too late         *)
(* (tasks.c, prvAddCurrentTaskToDelayedList and xTaskIncrementTick).       *)
ListsExact ==
  /\ \A t \in Created \cup {Idle} : ListsWith(t) = 1
  /\ s.top = {p \in Priorities : ReadyTasks(p) # {}}
  /\ \A i \in 1 .. Len(s.delayed) :
       /\ s.delayed[i].wake > s.tick
       /\ s.delayed[i].wake >= s.next
       /\ \A j \in 1 .. i : s.delayed[j].wake <= s.delayed[i].wake
  /\ \A i \in 1 .. Len(s.overflow) :
       /\ s.overflow[i].wake < s.tick
       /\ \A j \in 1 .. i : s.overflow[j].wake <= s.overflow[i].wake
  /\ Range(waiters) = s.blocked

(* The current task is not on its way to a switch it has yet to make.      *)
Settled == /\ ~s.suspended
           /\ s.current = Idle \/ pc[s.current] \notin {"parked", "delayed", "deleted"}

(* No switch is missed: the running task is ready and none of the ready    *)
(* tasks has a higher priority, whichever of a tick, a give, an            *)
(* inheritance or a return of a lent priority came last.                   *)
HighestRuns == Settled => s.current \in ReadyTasks(Max(s.top))

(* The holder of the mutex has the priority of the first of those who wait *)
(* for it, as long as that is above its own, and every other task its own  *)
(* (xTaskPriorityInherit and xTaskPriorityDisinherit).  It is lent to a    *)
(* holder when another blocks: a task that takes the mutex while others go *)
(* on waiting must not come behind any of them.                            *)
PriorityIsLent ==
  \A t \in Tasks :
    s.prio[t] = Max({BasePriority[t]} \cup
                    IF t = xMutexHolder THEN {BasePriority[w] : w \in Range(waiters)}
                                        ELSE {})

(* While the mutex is free and tasks wait on its event list, one that is   *)
(* ready, and not behind any of them, is on its way to take it: the one    *)
(* wake-up of a give is not spent on a task that goes on waiting           *)
(* (xQueueGenericSend).                                                    *)
NobodyForgotten ==
  uxMessagesWaiting > 0 /\ waiters # <<>> =>
    \E t \in Users : /\ IsReady(s, t)
                     /\ pc[t] \in {"take", "wait", "retry", "listed", "parked"}
                     /\ \A w \in Range(waiters) : s.prio[t] >= s.prio[w]

WakeOf(k, t) == (CHOOSE e \in Range(k.delayed) \cup Range(k.overflow) : e.task = t).wake

(* A task that sleeps is made ready by the tick it asked for, neither      *)
(* earlier nor later, also when the tick count wraps in between and when   *)
(* several ticks are caught up with at once (xTaskIncrementTick,           *)
(* xTaskResumeAll).                                                        *)
WakesOnTime ==
  [][\A t \in Asleep(s) :
       LET passed == (s'.tick + WRAP - s.tick) % WRAP
           left   == (WakeOf(s, t) + WRAP - s.tick) % WRAP
       IN t \notin Asleep(s') <=> passed >= left]_vars

Where == [t \in Users |->
            CASE pc[t] = "inside" -> "inside"
              [] pc[t] \in {"take", "wait", "listed", "parked", "retry"} -> "waiting"
              [] OTHER -> "out"]

Lock == INSTANCE BusLock WITH Tasks <- Users, where <- Where

(* The mutex is what hexa_i2c.c and demo.c take it for.                    *)
ImplementsLock == Lock!Spec

(* Every task sleeps or waits again and again, all of them at once: the    *)
(* processor is not overloaded.                                            *)
IdleAgainAndAgain == []<>(s.current = Idle)

(* A task that waits for the mutex gets it: a give that wakes it may be    *)
(* followed by a take of another task that comes before it, but the wake-  *)
(* up is not lost on it when it then goes back to wait                     *)
(* (xQueueSemaphoreTake).                                                  *)
WaiterServed ==
  IdleAgainAndAgain =>
    \A t \in Users : Where[t] = "waiting" ~> Where[t] = "inside"

(* The memory of a task that has deleted itself (app_main_task in          *)
(* bsp_main.c) is freed in the end (prvCheckTasksWaitingTermination).      *)
StackComesBack ==
  IdleAgainAndAgain => \A t \in Main : pc[t] = "deleted" ~> pc[t] = "freed"
=============================================================================
