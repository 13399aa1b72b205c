----------------------------- MODULE RtosTasks ------------------------------
(* The scheduler of the kernel, rtos/Source/tasks.c as this build configures  *)
(* it: one core, pre-emption, time slicing, task selection by a bitmap, no    *)
(* xTaskAbortDelay, no tickless idle. What a kernel function does to the      *)
(* scheduler's data is an operator from one kernel record to the next; a      *)
(* critical section is one application of one of them.                        *)
EXTENDS RtosList, FiniteSets

CONSTANTS Task, Idle, Queue, NoTask,
          Priority,       \* [Task -> Nat], the priority a task is created with
          MaxPriorities,  \* configMAX_PRIORITIES
          TickMod         \* 2^32 in the build: the tick count wraps here

TaskAssumption ==
  /\ Idle \in Task /\ NoTask \notin Task
  /\ MaxPriorities \in Nat \ {0} /\ TickMod \in Nat \ {0, 1}
  /\ Priority \in [Task -> 0 .. MaxPriorities - 1]
ASSUME TaskAssumption

Level == 0 .. MaxPriorities - 1
Tick == 0 .. TickMod - 1
MaxDelay == TickMod - 1            \* portMAX_DELAY
Side == {"receive", "send"}        \* the two event lists of a queue

(* An event list item is ordered by this value, the least one first. *)
ItemValue(p) == MaxPriorities - p

(* prvAddTaskToReadyList, with the ready bit of its priority. *)
AddReady(k, t) ==
  [k EXCEPT !.ready[k.prio[t]] = InsertEnd(@, t), !.top = @ \cup {k.prio[t]}]

(* uxListRemove of a ready task, and taskRESET_READY_PRIORITY. *)
RemoveReady_StaleBit(k, t, p) == [k EXCEPT !.ready[p] = RemoveItem(@, t)]
RemoveReady(k, t, p) ==
  LET left == RemoveItem(k.ready[p], t)
  IN [k EXCEPT !.ready[p] = left, !.top = IF left.items = <<>> THEN @ \ {p} ELSE @]

IsReady(k, t, p) == Contains(k.ready[p].items, t)

(* The state list item of t leaves the list it is in; its value is of no use  *)
(* outside the delayed lists.                                                 *)
RemoveState(k, t) ==
  IF IsReady(k, t, k.prio[t]) THEN RemoveReady(k, t, k.prio[t])
  ELSE [k EXCEPT !.delayed = RemoveFrom(@, t), !.overflow = RemoveFrom(@, t),
                 !.suspended = @ \ {t}, !.wake[t] = 0]

(* The event list item of t leaves the list it is in, if any. *)
RemoveEvent(k, t) ==
  [k EXCEPT !.waiting = [q \in Queue |-> [s \in Side |-> RemoveFrom(k.waiting[q][s], t)]],
            !.pendingReady = RemoveFrom(@, t)]

InEventList(k, t) ==
  Contains(k.pendingReady, t) \/ \E q \in Queue, s \in Side : Contains(k.waiting[q][s], t)

(* A blocked task gets its event or its time is up: it leaves both lists it   *)
(* may be in and is ready.                                                    *)
Unblock(k, t) == AddReady(RemoveState(RemoveEvent(k, t), t), t)

(* The loops that do so with the tasks of s in turn.                          *)
UnblockAll(k, s) ==
  LET done[i \in 0 .. Len(s)] == IF i = 0 THEN k ELSE Unblock(done[i - 1], s[i])
  IN done[Len(s)]

(* prvResetNextTaskUnblockTime *)
ResetNextUnblock(k) ==
  [k EXCEPT !.next = IF k.delayed = <<>> THEN MaxDelay ELSE k.wake[Head(k.delayed)]]

(* vTaskInternalSetTimeOutState, and the end of the call that timed.          *)
NoteEntry(k, t) == [k EXCEPT !.entered[t] = 0]
ForgetEntry(k, t) == [k EXCEPT !.entered[t] = -1]

(* portYIELD: PendSV is requested, and taken when interrupts are enabled. *)
Yield(k) == [k EXCEPT !.pendSV = TRUE]

-----------------------------------------------------------------------------
(* prvAddCurrentTaskToDelayedList *)
AddToDelayed_OneList(k, n, indefinitely) ==
  LET t    == k.current
      k1   == RemoveReady(k, t, k.prio[t])
      when == (k.tick + n) % TickMod
      k2   == [k1 EXCEPT !.wake[t] = when]
  IN IF n = MaxDelay /\ indefinitely THEN [k1 EXCEPT !.suspended = @ \cup {t}]
     ELSE [k2 EXCEPT !.delayed = InsertSorted(@, t, k2.wake),
                     !.next = IF when < @ THEN when ELSE @]
AddToDelayed(k, n, indefinitely) ==
  LET t    == k.current
      k1   == RemoveReady(k, t, k.prio[t])
      when == (k.tick + n) % TickMod
      k2   == [k1 EXCEPT !.wake[t] = when]
  IN IF n = MaxDelay /\ indefinitely THEN [k1 EXCEPT !.suspended = @ \cup {t}]
     ELSE IF when < k.tick THEN [k2 EXCEPT !.overflow = InsertSorted(@, t, k2.wake)]
     ELSE [k2 EXCEPT !.delayed = InsertSorted(@, t, k2.wake),
                     !.next = IF when < @ THEN when ELSE @]

(* taskSWITCH_DELAYED_LISTS; entered says of each task that times a call      *)
(* whether xNumOfOverflows is still what it was when the time was noted (0)   *)
(* or not (1); -1 is a task that times nothing.                               *)
SwitchDelayedLists(k) ==
  ResetNextUnblock([k EXCEPT !.delayed = k.overflow, !.overflow = k.delayed,
                             !.entered = [t \in Task |-> IF @[t] = 0 THEN 1 ELSE @[t]]])

(* The unblocking loop of xTaskIncrementTick: it takes tasks from the head    *)
(* until one is not due.                                                      *)
Due(k, i) == k.wake[k.delayed[i]] <= k.tick
UnblockDue_Skips(k) == ResetNextUnblock(k)
UnblockDue_Early(k) ==
  LET n == CHOOSE n \in 0 .. Len(k.delayed) :
             /\ \A i \in 1 .. n : k.wake[k.delayed[i]] <= k.tick + 1
             /\ n < Len(k.delayed) => k.wake[k.delayed[n + 1]] > k.tick + 1
  IN ResetNextUnblock(UnblockAll(k, SubSeq(k.delayed, 1, n)))
UnblockDue(k) ==
  LET n == CHOOSE n \in 0 .. Len(k.delayed) :
             (\A i \in 1 .. n : Due(k, i)) /\ (n < Len(k.delayed) => ~Due(k, n + 1))
  IN ResetNextUnblock(UnblockAll(k, SubSeq(k.delayed, 1, n)))

(* xTaskIncrementTick with the scheduler running; switch is its result. *)
IncrementTick(k) ==
  LET k1 == [k EXCEPT !.tick = (@ + 1) % TickMod]
      k2 == IF k1.tick = 0 THEN SwitchDelayedLists(k1) ELSE k1
      k3 == IF k2.tick >= k2.next THEN UnblockDue(k2) ELSE k2
      woken == {t \in Task : IsReady(k3, t, k3.prio[t]) /\ ~IsReady(k, t, k.prio[t])}
  IN [kernel |-> k3,
      switch |-> \/ \E t \in woken : k3.prio[t] > k3.prio[k.current]
                 \/ Len(k3.ready[k3.prio[k.current]].items) > 1
                 \/ k3.yieldPending]

(* xPortSysTickHandler: while the scheduler is suspended a tick is put by. *)
SysTick(k) ==
  IF k.depth > 0 THEN [k EXCEPT !.pended = @ + 1]
  ELSE LET r == IncrementTick(k) IN IF r.switch THEN Yield(r.kernel) ELSE r.kernel

(* vTaskSwitchContext, from xPortPendSVHandler. *)
SwitchContext(k) ==
  IF k.depth > 0 THEN [k EXCEPT !.yieldPending = TRUE, !.pendSV = FALSE]
  ELSE LET p == CHOOSE p \in k.top : \A r \in k.top : r <= p
           l == Advance(k.ready[p])
       IN [k EXCEPT !.yieldPending = FALSE, !.pendSV = FALSE,
                    !.ready[p] = l, !.current = l.items[l.at]]

-----------------------------------------------------------------------------
(* xTaskRemoveFromEventList: the head of an event list is given its event.    *)
RemoveFromEventList(k, q, s) ==
  LET t  == Head(k.waiting[q][s])
      k2 == IF k.depth = 0 THEN Unblock(k, t)
            ELSE [RemoveEvent(k, t) EXCEPT !.pendingReady = Append(@, t)]
      higher == k.prio[t] > k.prio[k.current]
  IN [kernel |-> [k2 EXCEPT !.yieldPending = @ \/ higher], higher |-> higher]

(* The ticks that were put by are counted now, each like a tick of its own.   *)
CountPended(k) ==
  LET Count(kk) ==
        LET r == IncrementTick(kk) IN [r.kernel EXCEPT !.yieldPending = @ \/ r.switch]
      done[i \in 0 .. k.pended] == IF i = 0 THEN k ELSE Count(done[i - 1])
  IN [done[k.pended] EXCEPT !.pended = 0]

(* xTaskResumeAll. The kernel it leaves, and whether it has already yielded.  *)
ResumeAll(k) ==
  LET k1 == [k EXCEPT !.depth = @ - 1]
      k2 == [UnblockAll(k1, k.pendingReady) EXCEPT !.yieldPending =
               @ \/ \E t \in ToSet(k.pendingReady) : k.prio[t] > k.prio[k.current]]
      k3 == CountPended(IF k.pendingReady = <<>> THEN k2 ELSE ResetNextUnblock(k2))
  IN IF k1.depth > 0 THEN [kernel |-> k1, yielded |-> FALSE]
     ELSE [kernel |-> IF k3.yieldPending THEN Yield(k3) ELSE k3, yielded |-> k3.yieldPending]

-----------------------------------------------------------------------------
(* A task whose priority becomes p moves to the ready list of p if it is      *)
(* ready; its old ready list is the one of old.                               *)
Reprioritise(k, t, old, p) ==
  IF IsReady(k, t, old)
  THEN AddReady([RemoveReady(k, t, old) EXCEPT !.prio[t] = p], t)
  ELSE [k EXCEPT !.prio[t] = p]

(* xTaskPriorityInherit: the holder h is lifted to the current task's         *)
(* priority. Its result says whether there is anything to undo on a timeout.  *)
PriorityInherit_Never(k, h) == [kernel |-> k, inherited |-> FALSE]
PriorityInherit(k, h) ==
  LET p == k.prio[k.current]
  IN IF h = NoTask THEN [kernel |-> k, inherited |-> FALSE]
     ELSE IF k.prio[h] < p
     THEN [kernel |-> Reprioritise([k EXCEPT !.event[h] = ItemValue(p)], h, k.prio[h], p),
           inherited |-> TRUE]
     ELSE [kernel |-> k, inherited |-> k.base[h] < p]

(* xTaskPriorityDisinherit: its result asks for a yield.                      *)
PriorityDisinherit(k, h) ==
  LET k1 == [k EXCEPT !.held[h] = @ - 1]
      drop == k1.prio[h] # k1.base[h] /\ k1.held[h] = 0
  IN IF h = NoTask THEN [kernel |-> k, yield |-> FALSE]
     ELSE IF drop
     THEN [kernel |-> Reprioritise([k1 EXCEPT !.event[h] = ItemValue(k.base[h])],
                                   h, k.prio[h], k.base[h]),
           yield |-> TRUE]
     ELSE [kernel |-> k1, yield |-> FALSE]

(* vTaskPriorityDisinheritAfterTimeout: highest is the priority of the best   *)
(* remaining waiter.                                                          *)
DisinheritAfterTimeout_ToBase(k, h, highest) ==
  IF h = NoTask THEN k
  ELSE Reprioritise([k EXCEPT !.event[h] = ItemValue(k.base[h])], h, k.prio[h], k.base[h])
DisinheritAfterTimeout(k, h, highest) ==
  LET p == IF k.base[h] < highest THEN highest ELSE k.base[h]
  IN IF h = NoTask THEN k
     ELSE IF k.prio[h] # p /\ k.held[h] = 1
     THEN Reprioritise([k EXCEPT !.event[h] = ItemValue(p)], h, k.prio[h], p)
     ELSE k

(* vTaskPrioritySet. The value of an event list item that is in a list        *)
(* changes where it stands, and no holder inherits the new priority.          *)
PrioritySet(k, t, p) ==
  LET old   == k.prio[t]
      new   == IF k.base[t] = old \/ p > old THEN p ELSE old
      k1    == [k EXCEPT !.base[t] = p, !.event[t] = ItemValue(p)]
      k2    == Reprioritise(k1, t, old, new)
      yield == \/ p > k.base[t] /\ t # k.current /\ p > k.prio[k.current]
               \/ p < k.base[t] /\ t = k.current
  IN IF k.base[t] = p THEN k ELSE IF yield THEN Yield(k2) ELSE k2

(* The first critical section of vTaskSuspend. *)
SuspendTask(k, t) ==
  LET k1 == RemoveEvent(RemoveState(k, t), t) IN [k1 EXCEPT !.suspended = @ \cup {t}]

(* prvTaskIsTaskSuspended: not one that waits for an event for ever. *)
IsSuspended(k, t) == t \in k.suspended /\ ~InEventList(k, t)

(* vTaskResume *)
ResumeTask(k, t) ==
  LET k1 == AddReady(RemoveState(k, t), t)
  IN IF ~IsSuspended(k, t) THEN k
     ELSE IF k.prio[t] > k.prio[k.current] THEN Yield(k1) ELSE k1

(* The data before any task is created; first is the one that will be.        *)
NoTasks(first) ==
  [ready |-> [p \in Level |-> EmptyList], top |-> {}, delayed |-> <<>>, overflow |-> <<>>,
   suspended |-> {}, pendingReady |-> <<>>,
   waiting |-> [q \in Queue |-> [s \in Side |-> <<>>]],
   wake |-> [t \in Task |-> 0], event |-> [t \in Task |-> ItemValue(Priority[t])],
   prio |-> Priority, base |-> Priority, held |-> [t \in Task |-> 0],
   entered |-> [t \in Task |-> -1], current |-> first, tick |-> 0, next |-> MaxDelay,
   depth |-> 0, pended |-> 0, yieldPending |-> FALSE, pendSV |-> FALSE]

(* prvAddNewTaskToReadyList, before the scheduler runs. *)
AddNewTask(k, t) ==
  AddReady([k EXCEPT !.current = IF Priority[@] <= Priority[t] THEN t ELSE @], t)

(* vTaskStartScheduler: the tasks of order are created in turn, the idle task *)
(* last; the task to run is the last one of the highest priority.             *)
Started(order) ==
  LET all == Append(order, Idle)
      done[i \in 0 .. Len(all)] ==
        IF i = 0 THEN NoTasks(all[1]) ELSE AddNewTask(done[i - 1], all[i])
  IN done[Len(all)]

=============================================================================
