----------------------------- MODULE RtosKernel -----------------------------
(* Tasks and interrupts over the scheduler of RtosTasks: the blocking calls   *)
(* of rtos/Source/queue.c on mutexes and queues, with their timeouts, and the *)
(* calls of rtos/Source/tasks.c on tasks. A step is one critical section or   *)
(* what a task does between two of them; ticks and interrupts come between    *)
(* any two steps, and a pending PendSV is taken before the task goes on.      *)
EXTENDS RtosTasks

CONSTANTS Mutex,        \* the queues created by xSemaphoreCreateMutex
          Length,       \* [Queue -> Nat \ {0}], uxLength
          Clients,      \* the sets of tasks' calls to check, see below
          Order,        \* the order of creation of the tasks
          MaxPended     \* bound on the ticks while the scheduler is suspended

QueueAssumption ==
  /\ Mutex \subseteq Queue /\ Length \in [Queue -> Nat \ {0}] /\ "none" \notin Queue
  /\ \A m \in Mutex : Length[m] = 1
  /\ \A c \in Clients : DOMAIN c.calls = Task /\ \A m \in Mutex : c.isr[m] = {}
  /\ MaxPended \in Nat /\ MaxPended < TickMod
  /\ Order \in Seq(Task \ {Idle}) /\ ToSet(Order) = Task \ {Idle}
  /\ \A i, j \in DOMAIN Order : Order[i] = Order[j] => i = j
ASSUME QueueAssumption

(* The idle task calls nothing that might block (tasks.c, prvIdleTask), and   *)
(* no task asks for its handle, to suspend it by.                             *)
IdleAssumption ==
  \A c \in Clients :
    /\ \A n \in 1 .. MaxDelay : /\ <<"delay", n>> \notin c.calls[Idle]
                              /\ \A s \in Side, q \in Queue : <<s, q, n>> \notin c.calls[Idle]
    /\ \A t \in Task : <<"suspend", Idle>> \notin c.calls[t]
ASSUME IdleAssumption

VARIABLES
  k,       \* the data of the scheduler
  count,   \* uxMessagesWaiting of every queue
  holder,  \* xMutexHolder of every mutex, NoTask when it is NULL
  lock,    \* [tx, rx] of every queue; -1 is queueUNLOCKED
  pc,      \* where each task is in its call
  call,    \* the locals of that call
  client,  \* the client at work: calls, what each task may call, and isr,
           \* what interrupts do to each queue; it never changes
  left,    \* history: ticks until the wake-up each delayed task asked for
  owed,    \* history: ticks until the timeout of each timed call
  dropped, \* history: a mutex was given back and the yield that asked for was
           \* not done, or a timeout lifted a holder; until the next switch
  moved    \* history: tasks whose priority was set while they held a mutex or
           \* waited, or was lifted while they waited; and, as an event list
           \* is not sorted again, the tasks that wait together with one

vars == <<k, count, holder, lock, pc, call, client, left, owed, dropped, moved>>

Unlocked == [receive |-> -1, send |-> -1]
NoCall == [q |-> "none", side |-> "receive", ticks |-> 0, entry |-> {}, inherited |-> FALSE,
           then |-> "app"]

(* A call is <<"delay", n>>, <<"receive", q, n>> (of a mutex: take),          *)
(* <<"send", q, n>>, <<"prio", t, p>>, <<"suspend", t>>, <<"resume", t>> or    *)
(* <<"yield">>. A mutex that is held may be given back at any time.            *)
Running(t) == k.current = t /\ ~k.pendSV
May(t, c) == Running(t) /\ pc[t] = "app" /\ c \in client.calls[t]
Goto(t, label) == pc' = [pc EXCEPT ![t] = label]
Return(t) == Goto(t, "app") /\ call' = [call EXCEPT ![t] = NoCall]
Queues == <<count, holder, lock>>

Init ==
  /\ k = Started(Order)
  /\ count = [q \in Queue |-> IF q \in Mutex THEN 1 ELSE 0]
  /\ holder = [m \in Mutex |-> NoTask]
  /\ lock = [q \in Queue |-> Unlocked]
  /\ pc = [t \in Task |-> "app"] /\ call = [t \in Task |-> NoCall]
  /\ client \in Clients /\ left = [t \in Task |-> 0] /\ owed = [t \in Task |-> 0]
  /\ dropped = FALSE /\ moved = {}

-----------------------------------------------------------------------------
(* Calls of the scheduler                                                     *)

(* vTaskDelay, taskYIELD *)
CallYield(t) ==
  /\ May(t, <<"yield">>)
  /\ k' = Yield(k) /\ UNCHANGED <<Queues, pc, call>>

CallDelay(t) == \E n \in 1 .. MaxDelay :
  /\ May(t, <<"delay", n>>)
  /\ k' = [k EXCEPT !.depth = @ + 1]
  /\ Goto(t, "delay") /\ call' = [call EXCEPT ![t].ticks = n, ![t].then = "yield"]
  /\ UNCHANGED Queues

DelayAdd(t) ==
  /\ Running(t) /\ pc[t] = "delay"
  /\ k' = AddToDelayed(k, call[t].ticks, FALSE)
  /\ Goto(t, "resume") /\ UNCHANGED <<Queues, call>>

(* vTaskPrioritySet *)
CallPrioritySet(t) == \E u \in Task, p \in Level :
  /\ May(t, <<"prio", u, p>>)
  /\ k' = PrioritySet(k, u, p) /\ UNCHANGED <<Queues, pc, call>>

(* vTaskSuspend: the next unblock time is set right in a second step.         *)
CallSuspend(t) == \E u \in Task :
  /\ May(t, <<"suspend", u>>)
  /\ k' = SuspendTask(k, u)
  /\ Goto(t, IF u = t THEN "suspendself" ELSE "suspended")
  /\ UNCHANGED <<Queues, call>>

AfterSuspend(t) ==
  /\ Running(t) /\ pc[t] \in {"suspendself", "suspended"}
  /\ LET k1 == ResetNextUnblock(k) IN k' = IF pc[t] = "suspendself" THEN Yield(k1) ELSE k1
  /\ Goto(t, "app") /\ UNCHANGED <<Queues, call>>

(* vTaskResume *)
CallResume(t) == \E u \in Task \ {t} :
  /\ May(t, <<"resume", u>>)
  /\ k' = ResumeTask(k, u) /\ UNCHANGED <<Queues, pc, call>>

-----------------------------------------------------------------------------
(* Queues                                                                     *)

Other(s) == IF s = "receive" THEN "send" ELSE "receive"

(* Whether a call that waits on side s of q can go ahead.                     *)
Ready(q, s) == IF s = "receive" THEN count[q] > 0 ELSE count[q] < Length[q]

(* What a call that goes ahead does for a task waiting on the other side.     *)
WakeFirst(kk, q, s) ==
  IF kk.waiting[q][s] = <<>> THEN kk ELSE RemoveFromEventList(kk, q, s).kernel
Wake(kk, q, s) ==
  IF kk.waiting[q][s] = <<>> THEN kk
  ELSE LET r == RemoveFromEventList(kk, q, s) IN IF r.higher THEN Yield(r.kernel) ELSE r.kernel

(* xQueueSemaphoreTake, xQueueReceive and xQueueGenericSend start: the locals. *)
CallQueue(t) == \E q \in Queue, s \in Side, n \in 0 .. MaxDelay :
  /\ May(t, <<s, q, n>>)
  /\ q \in Mutex => s = "receive" /\ holder[q] # t
  /\ Goto(t, "try")
  /\ call' = [call EXCEPT ![t] = [NoCall EXCEPT !.q = q, !.side = s, !.ticks = n]]
  /\ UNCHANGED <<k, Queues>>

(* The critical section at the head of the loop: go ahead, ...                *)
Succeed(t) ==
  LET q == call[t].q  s == call[t].side
  IN /\ Running(t) /\ pc[t] = "try" /\ Ready(q, s)
     /\ count' = [count EXCEPT ![q] = IF s = "receive" THEN @ - 1 ELSE @ + 1]
     /\ IF q \in Mutex THEN holder' = [holder EXCEPT ![q] = t] ELSE UNCHANGED holder
     /\ LET k1 == ForgetEntry(k, t)
        IN k' = Wake(IF q \in Mutex THEN [k1 EXCEPT !.held[t] = @ + 1] ELSE k1, q, Other(s))
     /\ Return(t) /\ UNCHANGED lock

(* ... give up at once, ...                                                   *)
Refuse(t) ==
  /\ Running(t) /\ pc[t] = "try" /\ ~Ready(call[t].q, call[t].side) /\ call[t].ticks = 0
  /\ k' = ForgetEntry(k, t) /\ Return(t) /\ UNCHANGED Queues

(* ... or note the time of entry, once; nobody reads it in a call that waits  *)
(* for ever.                                                                  *)
NoteTime(t) ==
  /\ Running(t) /\ pc[t] = "try" /\ ~Ready(call[t].q, call[t].side) /\ call[t].ticks > 0
  /\ IF call[t].entry = {} /\ call[t].ticks # MaxDelay
     THEN /\ call' = [call EXCEPT ![t].entry = {k.tick}]
          /\ k' = NoteEntry(k, t)
     ELSE UNCHANGED <<call, k>>
  /\ Goto(t, "suspendall") /\ UNCHANGED Queues

(* vTaskSuspendAll, then prvLockQueue                                         *)
SuspendAll(t) ==
  /\ Running(t) /\ pc[t] = "suspendall"
  /\ k' = [k EXCEPT !.depth = @ + 1]
  /\ Goto(t, "lock") /\ UNCHANGED <<Queues, call>>

LockQueue(t) ==
  /\ Running(t) /\ pc[t] = "lock"
  /\ lock' = [lock EXCEPT ![call[t].q] = [s \in Side |-> IF @[s] = -1 THEN 0 ELSE @[s]]]
  /\ Goto(t, "check") /\ UNCHANGED <<k, count, holder, call>>

(* xTaskCheckForTimeOut, then prvIsQueueEmpty or prvIsQueueFull. An interrupt *)
(* between the two could as well have come before both.                       *)
Elapsed(t) == (k.tick - CHOOSE e \in call[t].entry : TRUE) % TickMod
TimedOut(t) ==
  /\ call[t].ticks # MaxDelay
  /\ \/ k.entered[t] > 0 /\ \A e \in call[t].entry : k.tick >= e
     \/ Elapsed(t) >= call[t].ticks

CheckTimeOut(t) ==
  LET c == call[t]  free == Ready(c.q, c.side)
  IN /\ Running(t) /\ pc[t] = "check"
     /\ IF TimedOut(t)
        THEN /\ call' = [call EXCEPT ![t].ticks = 0, ![t].then = "expired"]
             /\ Goto(t, "unlock") /\ UNCHANGED k
        ELSE /\ call' = [call EXCEPT
                  ![t] = [c EXCEPT !.then = IF free THEN "try" ELSE "yield",
                                   !.ticks = IF @ = MaxDelay THEN @ ELSE @ - Elapsed(t),
                                   !.entry = IF @ = {} THEN @ ELSE {k.tick}]]
             /\ k' = IF c.ticks = MaxDelay THEN k ELSE NoteEntry(k, t)
             /\ Goto(t, IF free THEN "unlock" ELSE "place")
     /\ UNCHANGED Queues

(* xTaskPriorityInherit for a mutex, and vTaskPlaceOnEventList                *)
Place(t) ==
  LET c == call[t]
      r == IF c.q \in Mutex THEN PriorityInherit(k, holder[c.q])
           ELSE [kernel |-> k, inherited |-> FALSE]
      k1 == [r.kernel EXCEPT !.waiting[c.q][c.side] = InsertSorted(@, t, r.kernel.event)]
  IN /\ Running(t) /\ pc[t] = "place"
     /\ k' = AddToDelayed(k1, c.ticks, TRUE)
     /\ call' = [call EXCEPT ![t].inherited = r.inherited]
     /\ Goto(t, "unlock") /\ UNCHANGED Queues

(* prvUnlockQueue: tasks the interrupts would have woken are woken now, the   *)
(* receivers in one critical section and the senders in another.              *)
WakeLocked(kk, q, s, n) ==
  LET done[i \in 0 .. n] == IF i = 0 THEN kk ELSE WakeFirst(done[i - 1], q, s)
  IN done[n]

UnlockQueue(t) ==
  LET q == call[t].q
      s == IF pc[t] = "unlock" THEN "receive" ELSE "send"
  IN /\ Running(t) /\ pc[t] \in {"unlock", "unlocksend"}
     /\ k' = WakeLocked(k, q, s, lock[q][s])
     /\ lock' = [lock EXCEPT ![q][s] = -1]
     /\ Goto(t, IF s = "receive" THEN "unlocksend" ELSE "resume")
     /\ UNCHANGED <<count, holder, call>>

(* xTaskResumeAll. A task that blocked and has not been made to yield yields. *)
CallResumeAll(t) ==
  LET r == ResumeAll(k)
      back == IF call[t].q = "none" THEN "app" ELSE "try"
  IN /\ Running(t) /\ pc[t] = "resume"
     /\ k' = r.kernel
     /\ Goto(t, IF call[t].then # "yield" THEN call[t].then
                ELSE IF r.yielded THEN back ELSE "yield")
     /\ call' = [call EXCEPT ![t] = IF back = "app" THEN NoCall ELSE [@ EXCEPT !.then = "app"]]
     /\ UNCHANGED Queues

YieldAfter(t) ==
  /\ Running(t) /\ pc[t] = "yield"
  /\ k' = Yield(k)
  /\ IF call[t].q = "none" THEN Return(t) ELSE Goto(t, "try") /\ UNCHANGED call
  /\ UNCHANGED Queues

(* The time is up: one more look, and the lift of the holder is undone in a   *)
(* critical section of its own.                                               *)
Expire(t) ==
  LET c == call[t]
  IN /\ Running(t) /\ pc[t] = "expired"
     /\ IF Ready(c.q, c.side) THEN Goto(t, "try") /\ UNCHANGED <<k, call>>
        ELSE IF c.inherited THEN Goto(t, "disinherit") /\ UNCHANGED <<k, call>>
        ELSE Return(t) /\ k' = ForgetEntry(k, t)
     /\ UNCHANGED Queues

(* prvGetHighestPriorityOfWaitToReceiveList goes by the value of the head.    *)
HighestWaiting(q) ==
  LET w == k.waiting[q]["receive"]
  IN IF w = <<>> THEN 0 ELSE MaxPriorities - k.event[Head(w)]

Disinherit(t) ==
  LET q == call[t].q
  IN /\ Running(t) /\ pc[t] = "disinherit"
     /\ k' = DisinheritAfterTimeout(ForgetEntry(k, t), holder[q], HighestWaiting(q))
     /\ Return(t) /\ UNCHANGED Queues

(* xSemaphoreGive of a mutex: xQueueGenericSend without waiting.              *)
GiveMutex(t, m) ==
  LET r == PriorityDisinherit(k, t)
  IN /\ Running(t) /\ pc[t] = "app" /\ holder[m] = t
     /\ holder' = [holder EXCEPT ![m] = NoTask]
     /\ count' = [count EXCEPT ![m] = @ + 1]
     /\ k' = IF r.kernel.waiting[m]["receive"] = <<>> /\ r.yield THEN Yield(r.kernel)
             ELSE Wake(r.kernel, m, "receive")
     /\ UNCHANGED <<lock, pc, call>>

-----------------------------------------------------------------------------
(* Interrupts                                                                 *)

(* xQueueGenericSendFromISR, xQueueGiveFromISR, xQueueReceiveFromISR: s is    *)
(* the side a task of the same kind would wait on. The handler yields as it   *)
(* leaves. A lock count stops at the number of tasks.                         *)
IsrQueue_ForgetsLock(q, s) ==
  LET o == Other(s)
  IN /\ s \in client.isr[q] /\ Ready(q, s)
     /\ count' = [count EXCEPT ![q] = IF s = "receive" THEN @ - 1 ELSE @ + 1]
     /\ k' = IF lock[q][o] = -1 THEN Wake(k, q, o) ELSE k
     /\ UNCHANGED <<lock, holder, pc, call>>
IsrQueue(q, s) ==
  LET o == Other(s)
  IN /\ s \in client.isr[q] /\ Ready(q, s)
     /\ count' = [count EXCEPT ![q] = IF s = "receive" THEN @ - 1 ELSE @ + 1]
     /\ IF lock[q][o] = -1
        THEN k' = Wake(k, q, o) /\ UNCHANGED lock
        ELSE /\ lock' = [lock EXCEPT ![q][o] = IF @ < Cardinality(Task) THEN @ + 1 ELSE @]
             /\ UNCHANGED k
     /\ UNCHANGED <<holder, pc, call>>

(* SysTick; PendSV comes first when both are pending. Bounds: MaxPended, and  *)
(* OneWrap: the tick count does not wrap twice, 497 days at 100 Hz, between   *)
(* two looks of a timed call at it. The code could not tell that from once.   *)
OneWrap(t) == k.entered[t] # 1
CanTick ==
  /\ ~k.pendSV /\ (k.depth > 0 => k.pended < MaxPended)
  /\ k.tick + k.pended >= MaxDelay => \A t \in Task : OneWrap(t)
TickIsr ==
  /\ CanTick
  /\ k' = SysTick(k)
  /\ UNCHANGED <<Queues, pc, call>>

PendSV ==
  /\ k.pendSV
  /\ k' = SwitchContext(k) /\ UNCHANGED <<Queues, pc, call>>

-----------------------------------------------------------------------------
TaskStep(t) ==
  \/ CallYield(t) \/ CallDelay(t) \/ DelayAdd(t) \/ CallPrioritySet(t)
  \/ CallSuspend(t) \/ AfterSuspend(t) \/ CallResume(t) \/ CallQueue(t)
  \/ Succeed(t) \/ Refuse(t) \/ NoteTime(t) \/ SuspendAll(t) \/ LockQueue(t)
  \/ CheckTimeOut(t) \/ Place(t) \/ UnlockQueue(t) \/ CallResumeAll(t)
  \/ YieldAfter(t) \/ Expire(t) \/ Disinherit(t) \/ \E m \in Mutex : GiveMutex(t, m)

Step ==
  \/ \E t \in Task : TaskStep(t)
  \/ \E q \in Queue, s \in Side : IsrQueue(q, s)
  \/ TickIsr \/ PendSV

(* Histories; a delay that is past its time counts no further. *)
InDelay(kk) == ToSet(kk.delayed) \cup ToSet(kk.overflow)
Ticks == (k'.tick + k'.pended - k.tick - k.pended) % TickMod
Left(t) ==
  IF t \notin InDelay(k') THEN 0
  ELSE IF t \notin InDelay(k) THEN call[t].ticks - k.pended
  ELSE IF left[t] + k.pended > 0 THEN left[t] - Ticks
  ELSE left[t]

Counted == (k'.tick - k.tick) % TickMod
Owed(t) ==
  IF call'[t].entry = {} THEN 0
  ELSE IF call[t].entry = {} THEN call[t].ticks
  ELSE IF owed[t] > Counted THEN owed[t] - Counted ELSE 0

Drops ==
  /\ ~k'.pendSV
  /\ \/ \E m \in Mutex : /\ holder[m] # NoTask /\ holder'[m] = NoTask
                         /\ k'.prio[holder[m]] < k.prio[holder[m]]
     \/ \E t, h \in Task : pc[t] = "disinherit" /\ Running(t) /\ k'.prio[h] > k.prio[h]

Waits(kk, t) == \E q \in Queue, s \in Side : Contains(kk.waiting[q][s], t)
Changed(t) == t \in moved \/ k'.base[t] # k.base[t] \/ (Waits(k, t) /\ k'.prio[t] # k.prio[t])
Moved(t) ==
  \/ Changed(t) /\ (Waits(k', t) \/ k'.held[t] > 0)
  \/ \E q \in Queue, s \in Side : LET w == ToSet(k'.waiting[q][s]) IN
       t \in w /\ \E u \in w : Changed(u)

Histories ==
  /\ UNCHANGED client
  /\ left' = [t \in Task |-> Left(t)]
  /\ owed' = [t \in Task |-> Owed(t)]
  /\ dropped' = (Drops \/ (dropped /\ k'.current = k.current))
  /\ moved' = {t \in Task : Moved(t)}

Next == Step /\ Histories

Spec == Init /\ [][Next]_vars

(* Fairness, written out: the premises are where these steps are enabled. A   *)
(* pending PendSV is taken and ticks come. As the processor gets to tasks     *)
(* that are in a call again and again, such a task goes on with its call, for *)
(* it runs many instructions between two ticks; as it gets to tasks that hold *)
(* a mutex outside of calls, one gives a mutex back. No call is assumed to be *)
(* started, and a task outside of calls may keep the processor for ever.      *)
InCall == \E t \in Task : Running(t) /\ pc[t] # "app"
Holds == \E t \in Task : Running(t) /\ pc[t] = "app" /\ k.held[t] > 0
GoesOn == InCall /\ pc' # pc
GivesBack == \E m \in Mutex : holder[m] # NoTask /\ holder'[m] = NoTask
FairSpec ==
  /\ Spec
  /\ []<>(~k.pendSV) \/ []<><<k.pendSV /\ ~k'.pendSV>>_vars
  /\ []<>CanTick => []<><<Ticks # 0>>_vars
  /\ []<>InCall => []<><<GoesOn>>_vars
  /\ []<>Holds => []<><<GivesBack>>_vars

-----------------------------------------------------------------------------
(* Properties *)

(* The parts of ListsAgree: the state lists, the event lists, the bitmap.     *)
Injective(s) == \A i, j \in DOMAIN s : s[i] = s[j] => i = j
InOneStateList ==
  /\ \A p \in Level : Injective(k.ready[p].items)
  /\ Injective(k.delayed \o k.overflow)
  /\ \A t \in Task :
       LET homes == {p \in Level : IsReady(k, t, p)}
       IN \/ homes = {k.prio[t]} /\ t \notin InDelay(k) \cup k.suspended
          \/ homes = {} /\ (t \in InDelay(k)) # (t \in k.suspended)
InOneEventList ==
  \A q, r \in Queue, s, z \in Side :
    LET here == k.waiting[q][s] \o k.pendingReady
    IN /\ Injective(here)
       /\ <<q, s>> # <<r, z>> => ToSet(here) \cap ToSet(k.waiting[r][z]) = {}
BestWaiterFirst ==
  \A q \in Queue, s \in Side : LET w == k.waiting[q][s] IN
    \A i, j \in DOMAIN w :
      i < j /\ {w[i], w[j]} \cap moved = {} => k.prio[w[i]] >= k.prio[w[j]]

(* A task is in exactly one state list, in the ready list of its own priority *)
(* when it is ready, and in at most one event list, where the best waiter     *)
(* stands first; the bitmap of ready priorities names exactly the lists that  *)
(* are not empty.                                                             *)
ListsAgree ==
  /\ InOneStateList /\ InOneEventList /\ BestWaiterFirst
  /\ k.top = {p \in Level : k.ready[p].items # <<>>}

(* The promise of the scheduler, and the part of HighestRuns.                 *)
HighestAlwaysRuns ==
  ~k.pendSV /\ k.depth = 0 => \A p \in k.top : p <= k.prio[k.current]

(* When no switch is pending and the scheduler is not suspended, no ready     *)
(* task is above the running one, with two exceptions: a holder that gives a  *)
(* mutex back falls to its own priority, and xQueueGenericSend drops the      *)
(* yield this asks for when it has woken a waiter that does not ask for one;  *)
(* and vTaskPriorityDisinheritAfterTimeout, which is there to lower a holder, *)
(* never yields, though it lifts one to a waiter whose priority was set since. *)
HighestRuns == dropped \/ HighestAlwaysRuns

(* Parts of TimesAreExact: the delayed lists, and the timed calls.            *)
Ordered(s, value) == \A i, j \in DOMAIN s : i < j => value[s[i]] <= value[s[j]]
DelaysAreExact ==
  /\ \A t \in InDelay(k) : /\ left[t] + k.pended > 0
                           /\ k.wake[t] = (k.tick + left[t] + k.pended) % TickMod
  /\ \A t \in ToSet(k.delayed) : k.wake[t] > k.tick /\ k.next <= k.wake[t]
  /\ \A t \in ToSet(k.overflow) : k.wake[t] < k.tick
  /\ Ordered(k.delayed, k.wake) /\ Ordered(k.overflow, k.wake)
TimeoutsAreExact ==
  \A t \in Task :
    /\ call[t].then = "expired" \/ pc[t] \in {"expired", "disinherit"} => owed[t] = 0
    /\ pc[t] = "place" /\ call[t].ticks # MaxDelay => owed[t] = call[t].ticks /\ owed[t] > 0

(* A delayed task is in the list of its side of the wrap of the tick count,   *)
(* in order, and the tick at which the kernel looks again is not after it. A  *)
(* timed call finds its time up when as many ticks have been counted as it    *)
(* asked for, and blocks again only for what is left of them, wherever the    *)
(* tick count wraps, up to OneWrap.                                           *)
TimesAreExact == DelaysAreExact /\ TimeoutsAreExact

(* The parts of InheritanceIsExact.                                           *)
MutexHasHolder ==
  /\ \A m \in Mutex : count[m] = 0 <=> holder[m] # NoTask
  /\ \A t \in Task : k.held[t] = Cardinality({m \in Mutex : holder[m] = t})
LiftNeedsMutex ==
  \A t \in Task : k.prio[t] >= k.base[t] /\ (k.prio[t] > k.base[t] => k.held[t] > 0)
HolderIsLifted ==
  \A m \in Mutex : \A w \in ToSet(k.waiting[m]["receive"]) :
    holder[m] \notin {NoTask} \cup moved /\ w \notin moved => k.prio[holder[m]] >= k.prio[w]

(* A mutex that counts 0 has a holder and one that counts 1 has none, and     *)
(* each task counts exactly the mutexes it holds, for its priority falls back *)
(* on that count. A task above its own priority holds a mutex, none is below  *)
(* its own, and no waiter of a mutex is above its holder.                     *)
InheritanceIsExact == MutexHasHolder /\ LiftNeedsMutex /\ HolderIsLifted

(* What HolderIsLifted needs of the tasks when there are more of them than a  *)
(* run has: each uses one mutex at most, and none suspends another, or sets   *)
(* the priority of another, that uses one. main.c and shell.c keep to this:   *)
(* there is one mutex, "freeze" suspends the shell itself, and the task whose *)
(* priority "boost_ai" and "low_ai" set does not print.                       *)
Uses(c, t, m) == \E n \in 0 .. MaxDelay : <<"receive", m, n>> \in c.calls[t]
OneMutexEach(c) == \A t \in Task :
  /\ \A m, n \in Mutex : Uses(c, t, m) /\ Uses(c, t, n) => m = n
  /\ \A u \in Task \ {t} :
       <<"suspend", u>> \in c.calls[t] \/ (\E p \in Level : <<"prio", u, p>> \in c.calls[t]) =>
         \A m \in Mutex : ~Uses(c, u, m)

(* While a queue can be used and is not locked, tasks are left waiting for it *)
(* only when another is on its way to it.                                     *)
NoLostWakeUp ==
  \A q \in Queue, s \in Side :
    k.waiting[q][s] # <<>> /\ Ready(q, s) /\ lock[q] = Unlocked =>
      \E t \in Task : /\ call[t].q = q /\ call[t].side = s /\ pc[t] # "app"
                      /\ t \notin ToSet(k.waiting[q][s])

(* A task never leaves the delayed lists before its time unless it is         *)
(* suspended or its event has come.                                           *)
DelaysInFull ==
  [][\A t \in InDelay(k) \ (InDelay(k') \cup k'.suspended) :
       (call[t].q = "none" \/ InEventList(k', t)) =>
         left[t] + k.pended <= Counted]_vars

(* A task of the highest priority that asks for a mutex gets an answer, even  *)
(* while tasks below it keep the processor for ever: its holder is lifted     *)
(* above them.                                                                *)
UrgentIsServed ==
  \A t \in Task : (\A u \in Task : Priority[u] <= Priority[t]) =>
    (call[t].q \in Mutex ~> call[t].q = "none")

(* No delay lasts for ever.                                                   *)
DelaysEnd == \A t \in Task : t \in InDelay(k) ~> t \notin InDelay(k)

=============================================================================
