------------------------------- MODULE Kernel -------------------------------
(***************************************************************************)
(* Time in the FreeRTOS kernel (library/freertos/source/tasks.c) as this   *)
(* application configures it: vTaskDelayUntil, vTaskDelay and waits with a *)
(* timeout, the tick, the suspended scheduler and the choice of the task   *)
(* that runs.  A tick counter of Wrap values overflows, and the list of    *)
(* delayed tasks is then exchanged for the list of those that overflowed.  *)
(*                                                                         *)
(* Which of several ready tasks of equal priority runs is left open, and   *)
(* so is what an event is: any waiting task may be woken.                  *)
(***************************************************************************)
EXTENDS Integers, FiniteSets

CONSTANTS
    Task, Idle,
    Priority,   \* of each task
    Wrap,       \* values of TickType_t
    Until,      \* increments each task gives to vTaskDelayUntil
    For,        \* delays each task gives to vTaskDelay
    Waits,      \* timeouts with which each task waits for an event
    MaxPended   \* bound: ticks in one suspension of the scheduler

ASSUME KernelAssumption ==
    /\ Idle \in Task
    /\ Priority \in [Task -> Nat]
    /\ Wrap \in Nat /\ Wrap > 1
    /\ Until \in [Task -> SUBSET (1 .. Wrap - 1)] /\ Until[Idle] = {}
    /\ For \in [Task -> SUBSET (1 .. Wrap - 1)] /\ For[Idle] = {}
    /\ Waits \in [Task -> SUBSET (1 .. Wrap - 1)] /\ Waits[Idle] = {}
    /\ MaxPended \in Nat

VARIABLES
    xTickCount, xNextTaskUnblockTime,
    delayed, overflow,  \* tasks in pxDelayedTaskList and the other list
    item,               \* tick each task's list item carries
    waiting,            \* tasks that are also in an event list
    uxSchedulerSuspended, uxPendedTicks, xYieldPending,
    pendsv,             \* a context switch is pending in the processor
    current,            \* pxCurrentTCB
    pc,                 \* where each task is in a call
    prev,               \* each task's xLastWakeTime
    since,              \* history: ticks since the time prev stands for
    left                \* history: real ticks before the task may run on

lists == <<delayed, overflow, item, waiting, xNextTaskUnblockTime>>
wakes == <<prev, since>>
vars == <<xTickCount, lists, uxSchedulerSuspended, uxPendedTicks,
          xYieldPending, pendsv, current, pc, wakes, left>>

portMAX_DELAY == Wrap - 1

Blocked(t) == t \in delayed \cup overflow
Ready == Task \ (delayed \cup overflow)

\* What taskSELECT_HIGHEST_PRIORITY_TASK chooses from.
Highest(S) == {t \in S : \A u \in S : Priority[u] <= Priority[t]}

Init ==
    /\ xTickCount = 0 /\ xNextTaskUnblockTime = portMAX_DELAY
    /\ delayed = {} /\ overflow = {} /\ item = [t \in Task |-> 0]
    /\ waiting = {}
    /\ uxSchedulerSuspended = FALSE /\ uxPendedTicks = 0
    /\ xYieldPending = FALSE /\ pendsv = FALSE
    /\ current \in Highest(Task)
    /\ pc = [t \in Task |-> "run"]
    /\ prev = [t \in Task |-> 0] /\ since = [t \in Task |-> 0]
    /\ left = [t \in Task |-> 0]

Runs(t, at) == current = t /\ pc[t] = at /\ ~pendsv
Goto(t, to) == pc' = [pc EXCEPT ![t] = to]

--------------------------------------------------------------------------
(* The tick.                                                               *)

\* The tick after this one; with 0 the counter has overflowed and
\* taskSWITCH_DELAYED_LISTS exchanges the lists.
NextTick == (xTickCount + 1) % Wrap
Switched == IF NextTick = 0 THEN overflow ELSE delayed

\* The soonest of the times the items of S carry.
FirstTime(S) ==
    IF S = {} THEN portMAX_DELAY
    ELSE CHOOSE x \in {item[t] : t \in S} : \A t \in S : x <= item[t]

\* prvResetNextTaskUnblockTime, when the counter has overflowed.
NextUnblockTime ==
    IF NextTick = 0 THEN FirstTime(overflow) ELSE xNextTaskUnblockTime

\* Seeded fault: the time the item carries has to be passed.
Released_Late ==
    IF NextTick >= NextUnblockTime
    THEN {t \in Switched : item[t] < NextTick} ELSE {}

\* The tasks the tick releases; none are looked for before the time noted.
Released ==
    IF NextTick >= NextUnblockTime
    THEN {t \in Switched : item[t] <= NextTick} ELSE {}

\* Seeded fault: a released task asks for no switch.
SwitchRequired_SlicesOnly ==
    Cardinality({t \in Ready : Priority[t] = Priority[current]}) > 1

\* A task released is no less important than the current one, or several
\* tasks of the current one's priority are now ready.
SwitchRequired ==
    \/ \E t \in Released : Priority[t] >= Priority[current]
    \/ Cardinality({t \in Ready \cup Released :
                        Priority[t] = Priority[current]}) > 1

\* Seeded fault: a task whose wait times out stays in its event list.
StillWaiting_All == waiting

StillWaiting == waiting \ Released

\* xTaskIncrementTick while the scheduler is not suspended.
IncrementTick ==
    /\ xTickCount' = NextTick
    /\ delayed' = Switched \ Released
    /\ overflow' = IF NextTick = 0 THEN delayed ELSE overflow
    /\ waiting' = StillWaiting
    /\ xNextTaskUnblockTime' = IF NextTick >= NextUnblockTime
                               THEN FirstTime(Switched \ Released)
                               ELSE NextUnblockTime
    /\ since' = [t \in Task |-> IF since[t] < Wrap THEN since[t] + 1 ELSE Wrap]
    /\ UNCHANGED <<item, prev>>

\* Interrupts are masked while pended ticks are unwound, and a pending
\* switch is taken before a tick.
xPortSysTickHandler ==
    /\ ~pendsv /\ pc[current] # "unwind"
    /\ left' = [t \in Task |-> IF left[t] > 0 THEN left[t] - 1 ELSE 0]
    /\ \/ /\ ~uxSchedulerSuspended
          /\ IncrementTick
          /\ pendsv' = (SwitchRequired \/ xYieldPending)
          /\ UNCHANGED uxPendedTicks
       \/ /\ uxSchedulerSuspended /\ uxPendedTicks < MaxPended
          /\ uxPendedTicks' = uxPendedTicks + 1
          /\ pendsv' = xYieldPending
          /\ UNCHANGED <<xTickCount, lists, wakes>>
    /\ UNCHANGED <<uxSchedulerSuspended, xYieldPending, current, pc>>

\* xPortPendSVHandler.  A switch is never pending with the scheduler
\* suspended, when the code would only note it.
vTaskSwitchContext ==
    /\ pendsv /\ ~uxSchedulerSuspended
    /\ pendsv' = FALSE
    /\ xYieldPending' = FALSE
    /\ current' \in Highest(Ready)
    /\ UNCHANGED <<xTickCount, lists, uxSchedulerSuspended, uxPendedTicks,
                   pc, wakes, left>>

--------------------------------------------------------------------------
(* A call that blocks: suspend the scheduler, work on the lists, resume it *)
(* and unwind the ticks it missed, and yield unless that has been done.    *)

\* The tick counter is read when a task starts, for its xLastWakeTime.
xTaskGetTickCount(t) ==
    /\ Runs(t, "run") /\ Until[t] # {}
    /\ prev' = [prev EXCEPT ![t] = xTickCount]
    /\ since' = [since EXCEPT ![t] = 0]
    /\ UNCHANGED <<xTickCount, lists, uxSchedulerSuspended, uxPendedTicks,
                   xYieldPending, pendsv, current, pc, left>>

\* Bound: vTaskDelayUntil is called less than Wrap ticks after the time it
\* counts from.
vTaskSuspendAll(t) ==
    /\ Runs(t, "run")
    /\ uxSchedulerSuspended' = TRUE
    /\ \/ Until[t] # {} /\ since[t] < Wrap /\ Goto(t, "until")
       \/ For[t] # {} /\ Goto(t, "for")
       \/ Waits[t] # {} /\ Goto(t, "wait")
    /\ UNCHANGED <<xTickCount, lists, uxPendedTicks, xYieldPending, pendsv,
                   current, wakes, left>>

\* The task is taken off the ready list; the sum may overflow.
prvAddCurrentTaskToDelayedList(t, xTicksToWait) ==
    LET xTimeToWake == (xTickCount + xTicksToWait) % Wrap
    IN  /\ item' = [item EXCEPT ![t] = xTimeToWake]
        /\ \/ /\ xTimeToWake < xTickCount
              /\ overflow' = overflow \cup {t}
              /\ UNCHANGED <<delayed, xNextTaskUnblockTime>>
           \/ /\ xTimeToWake >= xTickCount
              /\ delayed' = delayed \cup {t}
              /\ xNextTaskUnblockTime' =
                     IF xTimeToWake < xNextTaskUnblockTime
                     THEN xTimeToWake ELSE xNextTaskUnblockTime
              /\ UNCHANGED overflow

\* Ticks pended since the scheduler was suspended count.
Wait(t, ticks) ==
    left' = [left EXCEPT ![t] =
                IF ticks > uxPendedTicks THEN ticks - uxPendedTicks ELSE 0]

\* Seeded fault: the two times are compared as if neither had overflowed.
ShouldDelay_Plain(last, wake) == wake > xTickCount

\* xShouldDelay: which of the counter and the time to wake overflowed.
ShouldDelay(last, wake) ==
    \/ xTickCount < last /\ wake < last /\ wake > xTickCount
    \/ xTickCount >= last /\ (wake < last \/ wake > xTickCount)

vTaskDelayUntil(t, xTimeIncrement) ==
    LET xTimeToWake == (prev[t] + xTimeIncrement) % Wrap
    IN  /\ Runs(t, "until")
        /\ prev' = [prev EXCEPT ![t] = xTimeToWake]
        /\ since' = [since EXCEPT ![t] = @ - xTimeIncrement]
        /\ Wait(t, xTimeIncrement - since[t])
        /\ \/ /\ ShouldDelay(prev[t], xTimeToWake)
              /\ prvAddCurrentTaskToDelayedList(
                     t, (xTimeToWake + (Wrap - xTickCount)) % Wrap)
           \/ /\ ~ShouldDelay(prev[t], xTimeToWake)
              /\ UNCHANGED <<delayed, overflow, item, xNextTaskUnblockTime>>
        /\ Goto(t, "resume")
        /\ UNCHANGED <<xTickCount, waiting, uxSchedulerSuspended,
                       uxPendedTicks, xYieldPending, pendsv, current>>

vTaskDelay(t, xTicksToDelay) ==
    /\ Runs(t, "for")
    /\ prvAddCurrentTaskToDelayedList(t, xTicksToDelay)
    /\ Wait(t, xTicksToDelay)
    /\ Goto(t, "resume")
    /\ UNCHANGED <<xTickCount, waiting, uxSchedulerSuspended, uxPendedTicks,
                   xYieldPending, pendsv, current, wakes>>

\* As xQueueSemaphoreTake does, the scheduler suspended.
vTaskPlaceOnEventList(t, xTicksToWait) ==
    /\ Runs(t, "wait")
    /\ prvAddCurrentTaskToDelayedList(t, xTicksToWait)
    /\ waiting' = waiting \cup {t}
    /\ Wait(t, xTicksToWait)
    /\ Goto(t, "resume")
    /\ UNCHANGED <<xTickCount, uxSchedulerSuspended, uxPendedTicks,
                   xYieldPending, pendsv, current, wakes>>

\* xTaskResumeAll, whose critical section ends with ResumeExit.
xTaskResumeAll(t) ==
    /\ Runs(t, "resume")
    /\ uxSchedulerSuspended' = FALSE
    /\ Goto(t, "unwind")
    /\ UNCHANGED <<xTickCount, lists, uxPendedTicks, xYieldPending, pendsv,
                   current, wakes, left>>

\* One round of its loop; uxPendedTicks is its counter.
ResumeTick(t) ==
    /\ Runs(t, "unwind") /\ uxPendedTicks > 0
    /\ IncrementTick
    /\ uxPendedTicks' = uxPendedTicks - 1
    /\ xYieldPending' = (SwitchRequired \/ xYieldPending)
    /\ UNCHANGED <<uxSchedulerSuspended, pendsv, current, pc, left>>

ResumeExit(t) ==
    /\ Runs(t, "unwind") /\ uxPendedTicks = 0
    /\ pendsv' = xYieldPending
    /\ Goto(t, IF xYieldPending THEN "run" ELSE "yield")
    /\ UNCHANGED <<xTickCount, lists, uxSchedulerSuspended, uxPendedTicks,
                   xYieldPending, current, wakes, left>>

\* At the end of a call that did not yield, and between calls: a delay of
\* zero, the idle task.
vPortYield(t) ==
    /\ Runs(t, "run") \/ Runs(t, "yield")
    /\ pendsv' = TRUE
    /\ Goto(t, "run")
    /\ UNCHANGED <<xTickCount, lists, uxSchedulerSuspended, uxPendedTicks,
                   xYieldPending, current, wakes, left>>

\* A task gives what w waits for.  The next time noted is left as it is.
xTaskRemoveFromEventList(t, w) ==
    /\ Runs(t, "run") /\ w \in waiting
    /\ waiting' = waiting \ {w}
    /\ delayed' = delayed \ {w} /\ overflow' = overflow \ {w}
    /\ left' = [left EXCEPT ![w] = 0]
    /\ xYieldPending' = (xYieldPending \/ Priority[w] > Priority[t])
    /\ pendsv' = (Priority[w] > Priority[t])
    /\ UNCHANGED <<xTickCount, item, xNextTaskUnblockTime,
                   uxSchedulerSuspended, uxPendedTicks, current, pc, wakes>>

--------------------------------------------------------------------------
Calls(t) ==
    \/ xTaskGetTickCount(t) \/ vTaskSuspendAll(t)
    \/ \E n \in Until[t] : vTaskDelayUntil(t, n)
    \/ \E n \in For[t] : vTaskDelay(t, n)
    \/ \E n \in Waits[t] : vTaskPlaceOnEventList(t, n)
    \/ xTaskResumeAll(t) \/ ResumeTick(t) \/ ResumeExit(t)
    \/ vPortYield(t)
    \/ \E w \in Task : xTaskRemoveFromEventList(t, w)

Next == xPortSysTickHandler \/ vTaskSwitchContext \/ \E t \in Task : Calls(t)

Spec == Init /\ [][Next]_vars
--------------------------------------------------------------------------
Places == {"run", "until", "for", "wait", "resume", "unwind", "yield"}

\* Every variable keeps its type: times stay tick counts, and a task whose
\* single list item is in one list is in no other.
TypeOK ==
    /\ xTickCount \in 0 .. Wrap - 1 /\ xNextTaskUnblockTime \in 0 .. Wrap - 1
    /\ delayed \subseteq Task /\ overflow \subseteq Task
    /\ delayed \cap overflow = {}
    /\ waiting \subseteq delayed \cup overflow
    /\ item \in [Task -> 0 .. Wrap - 1]
    /\ uxSchedulerSuspended \in BOOLEAN /\ uxPendedTicks \in 0 .. MaxPended
    /\ xYieldPending \in BOOLEAN /\ pendsv \in BOOLEAN
    /\ current \in Task
    /\ pc \in [Task -> Places]
    /\ prev \in [Task -> 0 .. Wrap - 1]
    /\ since \in [Task -> 1 - Wrap .. Wrap]
    /\ left \in [Task -> 0 .. Wrap - 1]

\* A task runs on at the very tick it asked for, never sooner and, but for
\* the ticks pended while the scheduler is suspended, never later: whatever
\* overflowed between the call and the tick, however many ticks were pended
\* when the task blocked, and though a wait that ended early leaves the next
\* time noted wrong.  For vTaskDelayUntil the tick is counted from the time
\* before, and a call that is late does not block.
OnTime ==
    \A t \in Task :
        /\ left[t] > 0 => Blocked(t)
        /\ Blocked(t) /\ left[t] = 0 => uxPendedTicks > 0

\* With no switch pending, the task that runs its own code is ready and none
\* is more important: every release and every wake asks for the switch it
\* makes necessary, while the scheduler was suspended too.
HighestRuns ==
    pc[current] = "run" /\ ~pendsv => current \in Highest(Ready)

\* The configASSERT of taskSWITCH_DELAYED_LISTS holds: no task is left in
\* the list of delayed tasks when the counter overflows, where it would wait
\* for another round of the counter.
EmptyWhenSwitched == [][NextTick = 0 /\ xTickCount' = 0 => overflow' = {}]_vars
=============================================================================
