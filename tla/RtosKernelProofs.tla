-------------------------- MODULE RtosKernelProofs --------------------------
(******************************************************************************)
(* The properties of the kernel, for every set of tasks, priorities, queues,  *)
(* mutexes and calls, each from Core and an invariant of its own:             *)
(*                                                                            *)
(*   HoldsAndRuns  who holds which mutex and is lifted for it, and that the   *)
(*                 highest runs or a yield was dropped                        *)
(*   Sorted        the event lists are in the order of the values of their    *)
(*                 items, which are the priorities but for tasks in moved     *)
(*   Delays        the delayed lists are in order on their side of the wrap,  *)
(*                 and each task sleeps for what is left of its delay         *)
(*   Clocks        what each timed call has yet to wait, whether or not the   *)
(*                 tick count has wrapped since it looked                     *)
(*   AllAnswered   for whatever can be taken from a queue while tasks wait,   *)
(*                 a task is on its way or a wake-up is owed by the lock      *)
(*   AllLifted     while a mutex is free and tasks wait for it, one that is   *)
(*                 no lower is on its way and the running task does not come  *)
(*                 before it; while it is held, nor is its holder lower       *)
(******************************************************************************)
EXTENDS RtosCoreProofs

(* What most steps are for the mutexes and the priorities: ...                *)
Plain ==
  /\ holder' = holder /\ (\A m \in Mutex : count'[m] = count[m])
  /\ (\A u \in Task : call'[u].q = call[u].q \/ call'[u].q = "none")
  /\ SamePrio(k, k')
(* ... and for the choice of the task to run: who becomes ready does not come *)
(* before the running task unless a yield is wanted.                          *)
Steady ==
  /\ k'.current = k.current
  /\ \/ k'.pendSV = TRUE \/ k'.yieldPending = TRUE
     \/ /\ k.pendSV = FALSE /\ k.yieldPending = FALSE
        /\ \A u \in Task : Rdy(k', u) => Rdy(k, u) \/ k.prio[u] <= k.prio[k.current]
     \/ /\ k.pendSV = k'.pendSV /\ k.yieldPending = k'.yieldPending
        /\ \A u \in Task : Rdy(k', u) => Rdy(k, u)

(* A step of one task that stays in its call or ends it starts no other.    *)
LEMMA MovesPlain ==
  ASSUME NEW t \in Task, NEW l, NEW c, Moves(t, l, c), c.q = call[t].q \/ c.q = "none"
  PROVE  \A u \in Task : call'[u].q = call[u].q \/ call'[u].q = "none"
BY DEF Moves

(* Steps that touch neither a mutex nor a priority, up to the lock of the   *)
(* queue ...                                                                *)
LEMMA FirstSteps ==
  ASSUME Core, NEW t \in Task,
         \/ CallYield(t) \/ CallDelay(t) \/ DelayAdd(t) \/ CallSuspend(t) \/ AfterSuspend(t)
         \/ CallResume(t) \/ Refuse(t) \/ NoteTime(t) \/ SuspendAll(t) \/ LockQueue(t)
  PROVE  Plain /\ Steady
<1>n. NoCall.q = "none"
  BY DEF NoCall
<1>1. CASE CallYield(t)
  BY <1>1, CallYieldStep DEF Plain, Steady, Yielded, Rests, QueuesStay, SameData, SamePrio
<1>2. CASE CallDelay(t)
  <2>1. PICK n \in 1 .. MaxDelay :
           /\ Runs(t, "app") /\ Nested(k, k')
           /\ Moves(t, "delay", [NoCall EXCEPT !.ticks = n, !.then = "yield"]) /\ QueuesStay
    BY <1>2, CallDelayStep
  <2>2. [NoCall EXCEPT !.ticks = n, !.then = "yield"].q = "none"
    BY DEF NoCall
  <2>3. \A u \in Task : call'[u].q = call[u].q \/ call'[u].q = "none"
    BY <2>1, <2>2, MovesPlain
  <2> QED BY <2>1, <2>3 DEF Plain, Steady, Nested, QueuesStay, SameData, SamePrio, SameYield
<1>3. CASE DelayAdd(t)
  <2>1. /\ Blocks(k, k', call[t].ticks, FALSE) /\ SamePrio(k, k')
        /\ Moves(t, "resume", call[t]) /\ QueuesStay
    BY <1>3, DelayAddStep
  <2>2. \A u \in Task : call'[u].q = call[u].q \/ call'[u].q = "none"
    BY <2>1, MovesPlain
  <2> QED BY <2>1, <2>2 DEF Plain, Steady, Blocks, QueuesStay, SameRun, SameYield
<1>4. CASE CallSuspend(t)
  <2>1. PICK u \in Task \ {Idle} :
           /\ Suspended(k, k', u) /\ QueuesStay
           /\ Moves(t, IF u = t THEN "suspendself" ELSE "suspended", NoCall)
    BY <1>4, CallSuspendStep
  <2>2. \A v \in Task : call'[v].q = call[v].q \/ call'[v].q = "none"
    BY <2>1, <1>n, MovesPlain
  <2> QED BY <2>1, <2>2 DEF Plain, Steady, Suspended, QueuesStay, SameRun, SameYield
<1>5. CASE AfterSuspend(t)
  <2>1. /\ Runs(t, pc[t]) /\ SamePrio(k, k') /\ SameYield(k, k') /\ k'.current = k.current
        /\ k'.pendSV = (pc[t] = "suspendself") /\ \A u \in Task : Rdy(k', u) <=> Rdy(k, u)
        /\ Moves(t, "app", NoCall) /\ QueuesStay
    BY <1>5, AfterSuspendStep
  <2>2. \A v \in Task : call'[v].q = call[v].q \/ call'[v].q = "none"
    BY <2>1, <1>n, MovesPlain
  <2>3. k.pendSV = FALSE
    BY <2>1 DEF Runs
  <2>4. k'.pendSV = TRUE \/ k'.pendSV = FALSE
    BY <2>1
  <2> QED BY <2>1, <2>2, <2>3, <2>4 DEF Plain, Steady, QueuesStay, SameYield
<1>6. CASE CallResume(t)
  <2>1. PICK u \in Task \ {t}, W \in SUBSET Task :
           Runs(t, "app") /\ Rewoken(k, k', u, W) /\ Rests /\ QueuesStay
    BY <1>6, CallResumeStep
  <2>2. Wakes(k, k', W) /\ SameYield(k, k')
        /\ k'.pendSV = (k.pendSV \/ \E v \in W : k.prio[v] > k.prio[k.current])
    BY <2>1 DEF Rewoken
  <2>3. k.pendSV = FALSE /\ k.yieldPending = FALSE
    BY <2>1 DEF Runs, Calm, Critical
  <2>4. k'.pendSV = TRUE \/ \A v \in W : k.prio[v] <= k.prio[k.current]
    <3>1. \A v \in W : k.prio[v] \in Int /\ k.prio[k.current] \in Int
      <4>1. k.prio \in [Task -> Level]
        BY CoreTypes, KernelFields
      <4> QED BY <4>1, CoreTypes, Constants
    <3>2. k'.pendSV = TRUE \/ \A v \in W : ~(k.prio[v] > k.prio[k.current])
      BY <2>2, Zenon
    <3> QED BY <3>1, <3>2
  <2> QED BY <2>1, <2>2, <2>3, <2>4 DEF Plain, Steady, Wakes, Rests, QueuesStay, SameYield
<1>7. CASE Refuse(t)
  <2>1. Stamped(k, k', t, -1) /\ Moves(t, "app", NoCall) /\ QueuesStay
    BY <1>7, RefuseStep
  <2>2. \A v \in Task : call'[v].q = call[v].q \/ call'[v].q = "none"
    BY <2>1, <1>n, MovesPlain
  <2> QED BY <2>1, <2>2 DEF Plain, Steady, Stamped, QueuesStay, SameRun, SameYield
<1>8. CASE NoteTime(t)
  <2> DEFINE c == call[t]
             d == [c EXCEPT !.entry = {k.tick}]
  <2>1. /\ c \in CallType /\ QueuesStay
        /\ c.entry = {} /\ c.ticks # MaxDelay =>
             Stamped(k, k', t, 0) /\ Moves(t, "suspendall", d)
        /\ ~(c.entry = {} /\ c.ticks # MaxDelay) => k' = k /\ Moves(t, "suspendall", c)
    BY <1>8, NoteTimeStep DEF Runs
  <2>2. d.q = c.q
    <3> HIDE DEF c
    <3> QED BY <2>1 DEF CallType
  <2>3. \A v \in Task : call'[v].q = call[v].q \/ call'[v].q = "none"
    BY <2>1, <2>2, MovesPlain
  <2>4. k' = k \/ Stamped(k, k', t, 0)
    BY <2>1
  <2> HIDE DEF c, d
  <2>5. /\ SamePrio(k, k') /\ SameRun(k, k') /\ SameYield(k, k')
        /\ \A u \in Task : Rdy(k', u) <=> Rdy(k, u)
    BY <2>4 DEF Stamped, SamePrio, SameRun, SameYield
  <2> QED BY <2>1, <2>3, <2>5 DEF Plain, Steady, QueuesStay, SameRun, SameYield
<1>9. CASE SuspendAll(t)
  <2>1. Nested(k, k') /\ Moves(t, "lock", call[t]) /\ QueuesStay
    BY <1>9, SuspendAllStep
  <2>2. \A u \in Task : call'[u].q = call[u].q \/ call'[u].q = "none"
    BY <2>1, MovesPlain
  <2> QED BY <2>1, <2>2 DEF Plain, Steady, Nested, QueuesStay, SameData, SamePrio, SameYield
<1>10. CASE LockQueue(t)
  <2>1. k' = k /\ Moves(t, "check", call[t]) /\ count' = count /\ holder' = holder
    BY <1>10, LockQueueStep
  <2>2. \A u \in Task : call'[u].q = call[u].q \/ call'[u].q = "none"
    BY <2>1, MovesPlain
  <2> QED BY <2>1, <2>2 DEF Plain, Steady, SamePrio
<1> QED BY <1>1, <1>2, <1>3, <1>4, <1>5, <1>6, <1>7, <1>8, <1>9, <1>10

(* ... and after it.                                                        *)
LEMMA LaterSteps ==
  ASSUME Core, NEW t \in Task,
         \/ CheckTimeOut(t) \/ UnlockQueue(t) \/ CallResumeAll(t) \/ YieldAfter(t) \/ Expire(t)
  PROVE  Plain /\ Steady
<1>n. NoCall.q = "none"
  BY DEF NoCall
<1>1. CASE CheckTimeOut(t)
  <2> DEFINE c == call[t]
             free == Ready(c.q, c.side)
             d == [c EXCEPT !.ticks = 0, !.then = "expired"]
             e == [c EXCEPT !.then = IF free THEN "try" ELSE "yield",
                            !.ticks = IF c.ticks = MaxDelay THEN c.ticks ELSE c.ticks - Elapsed(t),
                            !.entry = IF c.entry = {} THEN {} ELSE {k.tick}]
  <2>1. /\ c \in CallType /\ QueuesStay
        /\ TimedOut(t) => k' = k /\ Moves(t, "unlock", d)
        /\ ~TimedOut(t) =>
             /\ IF c.ticks = MaxDelay THEN k' = k ELSE Stamped(k, k', t, 0)
             /\ Moves(t, IF free THEN "unlock" ELSE "place", e)
    BY <1>1, CheckTimeOutStep DEF Runs
  <2>2. d.q = c.q /\ e.q = c.q
    <3> HIDE DEF c
    <3> QED BY <2>1 DEF CallType
  <2>3. \A v \in Task : call'[v].q = call[v].q \/ call'[v].q = "none"
    BY <2>1, <2>2, MovesPlain
  <2>4. k' = k \/ Stamped(k, k', t, 0)
    BY <2>1
  <2> HIDE DEF c, d, e, free
  <2>5. /\ SamePrio(k, k') /\ SameRun(k, k') /\ SameYield(k, k')
        /\ \A u \in Task : Rdy(k', u) <=> Rdy(k, u)
    BY <2>4 DEF Stamped, SamePrio, SameRun, SameYield
  <2> QED BY <2>1, <2>3, <2>5 DEF Plain, Steady, QueuesStay, SameRun, SameYield
<1>2. CASE UnlockQueue(t)
  <2> DEFINE q == call[t].q
             s == IF pc[t] = "unlock" THEN "receive" ELSE "send"
  <2>1. /\ count' = count /\ holder' = holder
        /\ Moves(t, IF s = "receive" THEN "unlocksend" ELSE "resume", call[t])
    BY <1>2, UnlockQueueStep
  <2>2. PICK P : WokeMany(k, k', q, s, lock[q][s], P)
    BY <1>2, UnlockQueueStep
  <2>3. \A v \in Task : call'[v].q = call[v].q \/ call'[v].q = "none"
    BY <2>1, MovesPlain
  <2>4. SameRun(k, k') /\ Signals(k, k', P) /\ Quiet(k, k', P)
    BY <2>2 DEF WokeMany
  <2>5. SamePrio(k, k') /\ \A u \in Task : Rdy(k', u) <=> Rdy(k, u)
    BY <2>4 DEF Signals, SamePrio, SameReady, Rdy, IsReady
  <2>6. k'.yieldPending \in BOOLEAN /\ k.yieldPending \in BOOLEAN
    <3>1. Good(k')
      BY <2>2 DEF WokeMany
    <3> QED BY <3>1, CoreTypes, KernelFields DEF Good
  <2>7. k'.yieldPending = TRUE \/ k.yieldPending = k'.yieldPending
    BY <2>4, <2>6 DEF Quiet
  <2> QED BY <2>1, <2>3, <2>4, <2>5, <2>7 DEF Plain, Steady, SameRun
<1>3. CASE CallResumeAll(t)
  <2> DEFINE c == call[t]
             back == IF c.q = "none" THEN "app" ELSE "try"
             l == IF c.then # "yield" THEN c.then
                  ELSE IF k'.yieldPending THEN back ELSE "yield"
             d == IF c.q = "none" THEN NoCall ELSE [c EXCEPT !.then = "app"]
  <2>1. c \in CallType /\ Moves(t, l, d) /\ QueuesStay /\ Runs(t, "resume")
    BY <1>3, CallResumeAllStep DEF Runs
  <2>2. d.q = c.q \/ d.q = "none"
    <3> HIDE DEF c
    <3> QED BY <2>1, <1>n DEF CallType
  <2> HIDE DEF d, l
  <2>3. \A v \in Task : call'[v].q = call[v].q \/ call'[v].q = "none"
    BY <2>1, <2>2, MovesPlain
  <2>4. PICK V, W : Resumed(k, k', V, W)
    BY <1>3, CallResumeAllStep
  <2>5. /\ Good(k') /\ Wakes(k, k', V \cup W)
        /\ ~k'.yieldPending => ~k.yieldPending /\ \A v \in V \cup W : k.prio[v] <= k.prio[k.current]
    BY <2>4 DEF Resumed
  <2>6. /\ k.pendSV = FALSE /\ k.yieldPending \in BOOLEAN /\ k'.yieldPending \in BOOLEAN
    BY <2>1, <2>5, CoreTypes, KernelFields DEF Runs, Good
  <2>7. SamePrio(k, k') /\ k'.current = k.current
        /\ \A u \in Task : Rdy(k', u) <=> Rdy(k, u) \/ u \in V \cup W
    BY <2>5 DEF Wakes
  <2>8. Steady
    <3>1. CASE k'.yieldPending = TRUE
      BY <2>7, <3>1 DEF Steady
    <3>2. CASE k'.yieldPending = FALSE
      BY <2>5, <2>6, <2>7, <3>2 DEF Steady
    <3> QED BY <2>6, <3>1, <3>2
  <2> QED BY <2>1, <2>3, <2>7, <2>8 DEF Plain, QueuesStay
<1>4. CASE YieldAfter(t)
  <2>1. /\ Yielded(k, k') /\ QueuesStay
        /\ call[t].q = "none" => Moves(t, "app", NoCall)
        /\ call[t].q # "none" => Moves(t, "try", call[t])
    BY <1>4, YieldAfterStep
  <2>2. \A v \in Task : call'[v].q = call[v].q \/ call'[v].q = "none"
    BY <2>1, <1>n, MovesPlain
  <2> QED BY <2>1, <2>2 DEF Plain, Steady, Yielded, QueuesStay, SameData, SamePrio
<1>5. CASE Expire(t)
  <2>1. /\ QueuesStay /\ (k' = k \/ Stamped(k, k', t, -1))
        /\ Moves(t, "try", call[t]) \/ Moves(t, "disinherit", call[t]) \/ Moves(t, "app", NoCall)
    BY <1>5, ExpireStep
  <2>3. \A v \in Task : call'[v].q = call[v].q \/ call'[v].q = "none"
    BY <2>1, <1>n, MovesPlain
  <2>5. /\ SamePrio(k, k') /\ SameRun(k, k') /\ SameYield(k, k')
        /\ \A u \in Task : Rdy(k', u) <=> Rdy(k, u)
    BY <2>1 DEF Stamped, SamePrio, SameRun, SameYield
  <2> QED BY <2>1, <2>3, <2>5 DEF Plain, Steady, QueuesStay, SameRun, SameYield
<1> QED BY <1>1, <1>2, <1>3, <1>4, <1>5

-----------------------------------------------------------------------------
(* Priorities are numbers.                                                    *)
LEMMA PrioInt ==
  ASSUME NEW kk \in Kernel
  PROVE  \A u \in Task : /\ kk.prio[u] \in Int /\ kk.base[u] \in Int
                         /\ kk.prio[u] \in Level /\ kk.base[u] \in Level /\ kk.held[u] \in Int
<1>1. Level \subseteq Int
  BY Constants
<1> QED BY <1>1, KernelFields

(* Interrupts, and the start of a call, leave the mutexes alone too.          *)
LEMMA InterruptSteps ==
  ASSUME Core, \/ \E q \in Queue, s \in Side : IsrQueue(q, s)
               \/ TickIsr
  PROVE  Plain /\ Steady
<1>0. /\ (\A u \in Task : k.prio[u] \in Int) /\ k.current \in Task
      /\ k.pendSV \in BOOLEAN /\ k.yieldPending \in BOOLEAN /\ k.depth \in Nat
  <2>1. k.depth \in Nat
    BY DEF Core, Control
  <2> QED BY <2>1, CoreTypes, PrioInt
<1>1. ASSUME NEW q \in Queue, NEW s \in Side, IsrQueue(q, s) PROVE Plain /\ Steady
  <2> DEFINE o == Other(s)
  <2>1. /\ q \notin Mutex /\ Rests /\ holder' = holder
        /\ count' = [count EXCEPT ![q] = IF s = "receive" THEN @ - 1 ELSE @ + 1]
    BY <1>1, IsrQueueStep
  <2>2. \A m \in Mutex : count'[m] = count[m]
    BY <2>1, CoreTypes
  <2>3. CASE lock[q][o] = -1
    <3>1. PICK P : /\ WokeOne(k, k', q, o, P)
                   /\ k'.pendSV = (k.pendSV \/ \E u \in P : k.prio[u] > k.prio[k.current])
                   /\ k'.current = k.current
      BY <1>1, <2>3, IsrQueueStep
    <3>2. /\ P \in SUBSET Task /\ Good(k')
          /\ k.depth = 0 => Wakes(k, k', P)
          /\ k.depth # 0 => Signals(k, k', P)
          /\ k'.yieldPending = (k.yieldPending \/ \E u \in P : k.prio[u] > k.prio[k.current])
      BY <3>1 DEF WokeOne
    <3>3. SamePrio(k, k') /\ \A u \in Task : Rdy(k', u) => Rdy(k, u) \/ u \in P
      <4>1. CASE k.depth = 0
        BY <3>2, <4>1 DEF Wakes
      <4>2. CASE k.depth # 0
        BY <3>2, <4>2 DEF Signals, SamePrio, SameReady, Rdy, IsReady
      <4> QED BY <4>1, <4>2
    <3>4. CASE \E u \in P : k.prio[u] > k.prio[k.current]
      <4>1. k'.pendSV = TRUE
        BY <3>1, <3>4
      <4> QED BY <2>1, <2>2, <3>1, <3>3, <4>1 DEF Plain, Steady, Rests
    <3>5. CASE ~\E u \in P : k.prio[u] > k.prio[k.current]
      <4>1. k'.pendSV = k.pendSV /\ k'.yieldPending = k.yieldPending
        BY <1>0, <3>1, <3>2, <3>5
      <4>2. \A u \in P : k.prio[u] <= k.prio[k.current]
        BY <1>0, <3>2, <3>5
      <4>3. Steady
        BY <1>0, <3>1, <3>3, <4>1, <4>2 DEF Steady
      <4> QED BY <2>1, <2>2, <3>3, <4>3 DEF Plain, Rests
    <3> QED BY <3>4, <3>5
  <2>4. CASE lock[q][o] # -1
    <3>1. k' = k
      BY <1>1, <2>4, IsrQueueStep
    <3> QED BY <2>1, <2>2, <3>1 DEF Plain, Steady, Rests, SamePrio
  <2> QED BY <2>3, <2>4
<1>2. CASE TickIsr
  <2>1. /\ Rests /\ QueuesStay /\ k.pendSV = FALSE /\ SameYield(k, k')
    BY <1>2, TickIsrStep
  <2>2. CASE k.depth > 0
    <3>1. /\ SameData(k, k') /\ k'.pendSV = k.pendSV
          /\ \A u \in Task : Rdy(k', u) <=> Rdy(k, u)
      BY <1>2, <2>2, TickIsrStep
    <3> QED BY <2>1, <3>1 DEF Plain, Steady, Rests, QueuesStay, SameData, SamePrio, SameYield
  <2>3. CASE ~(k.depth > 0)
    <3>1. PICK W : /\ Ticked(k, k', W) /\ k.yieldPending = FALSE /\ k'.pendSV \in BOOLEAN
                   /\ ~k'.pendSV => \A t \in W : k.prio[t] <= k.prio[k.current]
      BY <1>2, <2>3, TickIsrStep
    <3>2. Wakes(k, k', W)
      BY <3>1 DEF Ticked
    <3>3. SamePrio(k, k') /\ k'.current = k.current
          /\ \A u \in Task : Rdy(k', u) <=> Rdy(k, u) \/ u \in W
      BY <3>2 DEF Wakes
    <3>4. CASE k'.pendSV = TRUE
      BY <2>1, <3>3, <3>4 DEF Plain, Steady, Rests, QueuesStay
    <3>5. CASE k'.pendSV = FALSE
      BY <2>1, <3>1, <3>3, <3>5 DEF Plain, Steady, Rests, QueuesStay
    <3> QED BY <3>1, <3>4, <3>5
  <2> QED BY <2>2, <2>3
<1> QED BY <1>1, <1>2

(* A context switch touches neither a mutex nor a priority.                 *)
LEMMA SwitchSteps ==
  ASSUME Core, PendSV
  PROVE  Plain
BY PendSVStep DEF Plain, Rests, QueuesStay

-----------------------------------------------------------------------------
(* The mutexes a task holds. No task waits for one of its own, a mutex counts *)
(* 0 just while it is held, and a task counts those it holds.                 *)
Owned(t) == {m \in Mutex : holder[m] = t}
OthersMutex == \A t \in Task : call[t].q \in Mutex => holder[call[t].q] # t
MutexCounts == \A m \in Mutex : count[m] \in {0, 1} /\ (count[m] = 0 <=> holder[m] # NoTask)
HeldCounts == \A t \in Task : IsFiniteSet(Owned(t)) /\ k.held[t] = Cardinality(Owned(t))
HoldInv == OthersMutex /\ MutexCounts /\ HeldCounts /\ LiftNeedsMutex

(* Such steps keep who holds what.                                          *)
LEMMA PlainHolds ==
  ASSUME Core, HoldInv, Plain
  PROVE  HoldInv'
<1>1. "none" \notin Mutex
  BY CoreTypes
<1>2. OthersMutex'
  BY <1>1 DEF HoldInv, OthersMutex, Plain
<1>3. MutexCounts'
  BY DEF HoldInv, MutexCounts, Plain
<1>4. \A t : Owned(t)' = Owned(t)
  BY DEF Owned, Plain
<1>5. HeldCounts'
  BY <1>4 DEF HoldInv, HeldCounts, Plain, SamePrio
<1>6. LiftNeedsMutex'
  BY DEF HoldInv, LiftNeedsMutex, Plain, SamePrio
<1> QED BY <1>2, <1>3, <1>5, <1>6 DEF HoldInv

(* A call starts.                                                             *)
LEMMA CallQueueHolds ==
  ASSUME Core, HoldInv, NEW t \in Task, CallQueue(t)
  PROVE  HoldInv' /\ Steady /\ k'.prio = k.prio
<1>1. PICK q \in Queue, s \in Side, n \in 0 .. MaxDelay :
        /\ q \in Mutex => holder[q] # t
        /\ Moves(t, "try", [NoCall EXCEPT !.q = q, !.side = s, !.ticks = n])
        /\ k' = k /\ QueuesStay
  BY CallQueueStep
<1>2. call'[t].q = q /\ \A u \in Task : u # t => call'[u] = call[u]
  BY <1>1 DEF Moves, NoCall
<1>3. OthersMutex'
  BY <1>1, <1>2 DEF HoldInv, OthersMutex, QueuesStay
<1>4. MutexCounts'
  BY <1>1 DEF HoldInv, MutexCounts, QueuesStay
<1>5. HeldCounts'
  BY <1>1 DEF HoldInv, HeldCounts, Owned, QueuesStay
<1>6. LiftNeedsMutex' /\ Steady /\ k'.prio = k.prio
  BY <1>1 DEF HoldInv, LiftNeedsMutex, Steady
<1> QED BY <1>3, <1>4, <1>5, <1>6 DEF HoldInv

(* A mutex is taken.                                                          *)
LEMMA SucceedHolds ==
  ASSUME Core, HoldInv, NEW t \in Task, Succeed(t)
  PROVE  HoldInv' /\ Steady /\ k'.prio = k.prio
<1> DEFINE q == call[t].q
           s == call[t].side
<1>1. /\ Runs(t, "try") /\ q \in Queue /\ (q \in Mutex => s = "receive") /\ Ready(q, s)
      /\ count' = [count EXCEPT ![q] = IF s = "receive" THEN @ - 1 ELSE @ + 1]
      /\ holder' = IF q \in Mutex THEN [holder EXCEPT ![q] = t] ELSE holder
      /\ Moves(t, "app", NoCall)
  BY SucceedStep
<1>2. PICK b, P : /\ Holding(k, b, t, q \in Mutex) /\ b.depth = 0
                  /\ WokeOne(b, k', q, Other(s), P)
                  /\ k'.pendSV = \E u \in P : k.prio[u] > k.prio[t]
  BY SucceedStep
<1>c. \A u \in Task : (call'[u].q = call[u].q /\ u # t) \/ call'[u].q = "none"
  BY <1>1 DEF Moves, NoCall
<1>3. /\ Wakes(b, k', P) /\ SamePrio(b, k') /\ k'.current = b.current /\ P \in SUBSET Task
  BY <1>2 DEF WokeOne, Wakes
<1>4. /\ k'.prio = k.prio /\ k'.base = k.base /\ k'.current = t /\ k.current = t
      /\ k'.held = (IF q \in Mutex THEN [k.held EXCEPT ![t] = k.held[t] + 1] ELSE k.held)
      /\ \A u \in Task : Rdy(k', u) <=> Rdy(k, u) \/ u \in P
  BY <1>1, <1>2, <1>3 DEF Holding, SamePrio, SameRun, Runs, Wakes
<1>5. /\ k.held \in [Task -> Int] /\ holder \in [Mutex -> Task \cup {NoTask}] /\ count \in [Queue -> Int]
      /\ Mutex \subseteq Queue /\ "none" \notin Mutex /\ t # NoTask /\ (\A u \in Task : k.prio[u] \in Int)
      /\ k.pendSV = FALSE /\ k.yieldPending = FALSE
  <2>1. k.pendSV = FALSE /\ k.yieldPending = FALSE
    BY <1>1 DEF Runs, Calm, Critical
  <2> QED BY <2>1, CoreTypes, KernelFields, PrioInt
<1>6. Steady
  <2>1. CASE \E u \in P : k.prio[u] > k.prio[t]
    BY <1>2, <1>4, <2>1 DEF Steady
  <2>2. CASE ~\E u \in P : k.prio[u] > k.prio[t]
    <3>1. \A u \in P : k.prio[u] <= k.prio[t]
      BY <1>3, <1>5, <2>2
    <3> QED BY <1>4, <1>5, <3>1 DEF Steady
  <2> QED BY <2>1, <2>2
<1> HIDE DEF q, s
<1>7. CASE q \notin Mutex
  <2>1. /\ holder' = holder /\ (\A m \in Mutex : count'[m] = count[m]) /\ k'.held = k.held
    BY <1>1, <1>4, <1>5, <1>7
  <2>2. OthersMutex'
    BY <1>c, <1>5, <2>1 DEF HoldInv, OthersMutex
  <2>3. MutexCounts'
    BY <2>1 DEF HoldInv, MutexCounts
  <2>4. HeldCounts'
    BY <2>1 DEF HoldInv, HeldCounts, Owned
  <2>5. LiftNeedsMutex'
    BY <1>4, <2>1 DEF HoldInv, LiftNeedsMutex
  <2> QED BY <1>4, <1>6, <2>2, <2>3, <2>4, <2>5 DEF HoldInv
<1>8. CASE q \in Mutex
  <2>1. count[q] = 1 /\ holder[q] = NoTask
    BY <1>1, <1>5, <1>8 DEF HoldInv, MutexCounts, Ready
  <2>2. /\ count'[q] = 0 /\ holder'[q] = t
        /\ \A m \in Mutex : m # q => count'[m] = count[m] /\ holder'[m] = holder[m]
    BY <1>1, <1>5, <1>8, <2>1
  <2>3. OthersMutex'
    BY <1>c, <1>5, <2>2 DEF HoldInv, OthersMutex
  <2>4. MutexCounts'
    BY <1>5, <2>2 DEF HoldInv, MutexCounts
  <2>5. /\ Owned(t)' = Owned(t) \cup {q} /\ q \notin Owned(t)
        /\ \A u \in Task : u # t => Owned(u)' = Owned(u)
    <3>1. \A m \in Mutex : holder'[m] = t <=> holder[m] = t \/ m = q
      BY <2>2
    <3>2. ASSUME NEW m \in Mutex, NEW u \in Task, u # t
          PROVE  holder'[m] = u <=> holder[m] = u
      <4>1. u # NoTask
        BY CoreTypes
      <4>2. CASE m = q
        BY <2>1, <2>2, <3>2, <4>1, <4>2
      <4>3. CASE m # q
        BY <2>2, <4>3
      <4> QED BY <4>2, <4>3
    <3>3. q \notin Owned(t)
      BY <1>5, <2>1 DEF Owned
    <3> QED BY <1>8, <3>1, <3>2, <3>3 DEF Owned
  <2>6. k'.held[t] = k.held[t] + 1 /\ \A u \in Task : u # t => k'.held[u] = k.held[u]
    BY <1>4, <1>5, <1>8
  <2>7. IsFiniteSet(Owned(t)') /\ Cardinality(Owned(t)') = Cardinality(Owned(t)) + 1
    BY <2>5, FS_AddElement DEF HoldInv, HeldCounts
  <2>8. HeldCounts'
    BY <2>5, <2>6, <2>7 DEF HoldInv, HeldCounts
  <2>9. LiftNeedsMutex'
    BY <1>4, <1>5, <2>6 DEF HoldInv, LiftNeedsMutex
  <2> QED BY <1>4, <1>6, <2>3, <2>4, <2>8, <2>9 DEF HoldInv
<1> QED BY <1>7, <1>8

-----------------------------------------------------------------------------
(* When nothing is pending, no ready task is above the running one.           *)
Highest ==
  ~k.pendSV /\ ~k.yieldPending => \A u \in Task : Rdy(k, u) => k.prio[u] <= k.prio[k.current]

(* A task that holds a mutex counts one at least.                             *)
LEMMA HeldPositive ==
  ASSUME HoldInv, Core, NEW m \in Mutex, NEW t \in Task, holder[m] = t
  PROVE  k.held[t] > 0
<1>1. m \in Owned(t) /\ IsFiniteSet(Owned(t)) /\ k.held[t] = Cardinality(Owned(t))
  BY DEF Owned, HoldInv, HeldCounts
<1>2. Cardinality(Owned(t)) \in Nat /\ (Cardinality(Owned(t)) = 0 <=> Owned(t) = {})
  BY <1>1, FS_CardinalityType, FS_EmptySet
<1> QED BY <1>1, <1>2

(* Where holders, counts and calls stay, so does what is said of them alone.  *)
LEMMA SameHolders ==
  ASSUME Core, HoldInv, holder' = holder, \A m \in Mutex : count'[m] = count[m],
         \A u \in Task : call'[u].q = call[u].q \/ call'[u].q = "none", k'.held = k.held
  PROVE  OthersMutex' /\ MutexCounts' /\ HeldCounts'
<1>1. OthersMutex'
  <2>1. "none" \notin Mutex
    BY CoreTypes
  <2> QED BY <2>1 DEF HoldInv, OthersMutex
<1>2. MutexCounts'
  BY DEF HoldInv, MutexCounts
<1>3. HeldCounts'
  BY DEF HoldInv, HeldCounts, Owned
<1> QED BY <1>1, <1>2, <1>3

(* vTaskPrioritySet                                                           *)
LEMMA PrioritySetHolds ==
  ASSUME Core, HoldInv, NEW t \in Task, CallPrioritySet(t)
  PROVE  HoldInv' /\ k'.current = k.current /\ (Highest => Highest')
<1>1. PICK u \in Task, p \in Level :
        Runs(t, "app") /\ Prioritised(k, k', u, p) /\ Rests /\ QueuesStay
  BY CallPrioritySetStep
<1> DEFINE old == k.prio[u]
           new == IF k.base[u] = old \/ p > old THEN p ELSE old
<1>2. /\ holder' = holder /\ count' = count /\ call' = call /\ k'.held = k.held
      /\ k'.current = k.current /\ k.current \in Task
      /\ (\A v \in Task : Rdy(k', v) <=> Rdy(k, v))
      /\ k'.yieldPending = k.yieldPending
  BY <1>1, CoreTypes DEF Prioritised, Rests, QueuesStay, SameYield
<1>3. OthersMutex' /\ MutexCounts' /\ HeldCounts'
  BY <1>2, SameHolders
<1>4. CASE k.base[u] = p
  <2>1. k' = k
    BY <1>1, <1>4 DEF Prioritised
  <2>2. LiftNeedsMutex' /\ (Highest => Highest')
    BY <1>2, <2>1 DEF HoldInv, LiftNeedsMutex, Highest
  <2> QED BY <1>2, <1>3, <2>2 DEF HoldInv
<1>5. CASE k.base[u] # p
  <2>1. /\ k'.prio = [k.prio EXCEPT ![u] = new] /\ k'.base = [k.base EXCEPT ![u] = p]
        /\ k'.pendSV = (k.pendSV \/ (\/ p > k.base[u] /\ u # k.current /\ p > k.prio[k.current]
                                     \/ p < k.base[u] /\ u = k.current))
    BY <1>1, <1>5 DEF Prioritised
  <2>2. /\ p \in Int /\ (\A v \in Task : k.prio[v] \in Int /\ k.base[v] \in Int /\ k.held[v] \in Int)
        /\ k.prio \in [Task -> Level] /\ k.base \in [Task -> Level]
    BY CoreTypes, PrioInt, Constants, KernelFields
  <2>3. \A v \in Task : k.prio[v] >= k.base[v] /\ (k.prio[v] > k.base[v] => k.held[v] > 0)
    BY DEF HoldInv, LiftNeedsMutex
  <2>4. /\ k'.prio[u] = new /\ k'.base[u] = p
        /\ \A v \in Task : v # u => k'.prio[v] = k.prio[v] /\ k'.base[v] = k.base[v]
    BY <2>1, <2>2
  <2>5. new >= p /\ (new > p => k.held[u] > 0)
    BY <2>2, <2>3
  <2> HIDE DEF new
  <2>6. LiftNeedsMutex'
    <3>1. ASSUME NEW v \in Task
          PROVE  k'.prio[v] >= k'.base[v] /\ (k'.prio[v] > k'.base[v] => k'.held[v] > 0)
      <4>1. CASE v = u
        BY <1>2, <2>4, <2>5, <4>1
      <4>2. CASE v # u
        BY <1>2, <2>3, <2>4, <4>2
      <4> QED BY <4>1, <4>2
    <3> QED BY <3>1 DEF LiftNeedsMutex
  <2>7. ASSUME Highest, ~k'.pendSV, ~k'.yieldPending, NEW v \in Task, Rdy(k', v)
        PROVE  k'.prio[v] <= k'.prio[k'.current]
    <3>1. ~k.pendSV /\ ~k.yieldPending
      BY <1>2, <2>1, <2>7
    <3>2. /\ \A w \in Task : Rdy(k, w) => k.prio[w] <= k.prio[k.current]
          /\ Rdy(k, v) /\ k.prio[v] <= k.prio[k.current]
      BY <1>2, <2>7, <3>1 DEF Highest
    <3>3. /\ ~(p > k.base[u] /\ u # k.current /\ p > k.prio[k.current])
          /\ ~(p < k.base[u] /\ u = k.current)
      BY <2>1, <2>7
    <3>4. CASE u = k.current
      <4>1. new >= k.prio[u] /\ new \in Int
        BY <1>5, <2>2, <2>3, <3>3, <3>4 DEF new
      <4> QED BY <1>2, <2>2, <2>4, <3>2, <3>4, <4>1
    <3>5. CASE u # k.current
      <4>1. v = u => new <= k.prio[k.current]
        BY <1>2, <1>5, <2>2, <2>3, <3>2, <3>3, <3>5 DEF new
      <4> QED BY <1>2, <2>2, <2>4, <3>2, <3>5, <4>1
    <3> QED BY <3>4, <3>5
  <2>8. Highest => Highest'
    BY <2>7 DEF Highest
  <2> QED BY <1>2, <1>3, <2>6, <2>8 DEF HoldInv
<1> QED BY <1>4, <1>5

(* vTaskPlaceOnEventList: the holder counts the mutex it is lifted for.       *)
LEMMA PlaceHolds ==
  ASSUME Core, HoldInv, NEW t \in Task, Place(t)
  PROVE  HoldInv' /\ k'.current = k.current /\ (Highest => Highest')
<1> DEFINE q == call[t].q
           h == IF q \in Mutex THEN holder[q] ELSE NoTask
<1>1. PICK b : Inherits(k, b, h) /\ Places(b, k', q, call[t].side, call[t].ticks) /\ b.current = t
  BY PlaceStep
<1>2. /\ Runs(t, "place") /\ h \in Task \cup {NoTask} /\ QueuesStay
      /\ \E i \in BOOLEAN : Moves(t, "unlock", [call[t] EXCEPT !.inherited = i])
  BY PlaceStep
<1>3. \A u \in Task : call'[u].q = call[u].q \/ call'[u].q = "none"
  <2>1. PICK i \in BOOLEAN : Moves(t, "unlock", [call[t] EXCEPT !.inherited = i])
    BY <1>2
  <2>2. [call[t] EXCEPT !.inherited = i].q = call[t].q
    BY <1>2 DEF Runs, CallType
  <2> QED BY <2>1, <2>2, MovesPlain
<1>4. /\ holder' = holder /\ count' = count
      /\ k'.held = k.held /\ k'.base = k.base /\ k'.prio = b.prio
      /\ k'.current = t /\ k.current = t /\ k'.yieldPending = k.yieldPending
      /\ k'.pendSV = k.pendSV /\ k.pendSV = FALSE
      /\ \A u \in Task : Rdy(k', u) => Rdy(k, u)
  BY <1>1, <1>2 DEF QueuesStay, Inherits, Repriced, Places, Blocks, SamePrio, SameRun, SameYield, Runs
<1>5. OthersMutex' /\ MutexCounts' /\ HeldCounts'
  BY <1>3, <1>4, SameHolders
<1>6. /\ \A v \in Task : k.prio[v] \in Int /\ k.base[v] \in Int /\ k.held[v] \in Int
      /\ k.prio \in [Task -> Level] /\ NoTask \notin Task
      /\ \A v \in Task : k.prio[v] >= k.base[v] /\ (k.prio[v] > k.base[v] => k.held[v] > 0)
  BY CoreTypes, PrioInt, KernelFields DEF HoldInv, LiftNeedsMutex
<1>7. CASE h \in Task /\ k.prio[h] < k.prio[t]
  <2>1. /\ k'.prio[h] = k.prio[t]
        /\ \A v \in Task : v # h => k'.prio[v] = k.prio[v]
    BY <1>1, <1>4, <1>6, <1>7 DEF Inherits
  <2>2. k.held[h] > 0
    BY <1>6, <1>7, HeldPositive
  <2>3. LiftNeedsMutex'
    BY <1>4, <1>6, <1>7, <2>1, <2>2 DEF LiftNeedsMutex
  <2>4. Highest => Highest'
    <3>1. h # t
      BY <1>6, <1>7
    <3> QED BY <1>4, <1>6, <1>7, <2>1, <3>1 DEF Highest
  <2> QED BY <1>4, <1>5, <2>3, <2>4 DEF HoldInv
<1>8. CASE ~(h \in Task /\ k.prio[h] < k.prio[t])
  <2>1. k'.prio = k.prio
    BY <1>1, <1>4, <1>8 DEF Inherits
  <2>2. LiftNeedsMutex' /\ (Highest => Highest')
    BY <1>4, <1>6, <2>1 DEF LiftNeedsMutex, Highest
  <2> QED BY <1>4, <1>5, <2>2 DEF HoldInv
<1> QED BY <1>7, <1>8

-----------------------------------------------------------------------------
(* The lift of a holder is undone, or set right, after a timeout.             *)
LEMMA DisinheritHolds ==
  ASSUME Core, HoldInv, NEW t \in Task, Disinherit(t)
  PROVE  HoldInv' /\ k'.current = k.current /\ (Highest => Highest' \/ Drops)
<1> DEFINE q == call[t].q
           h == holder[q]
           hi == HighestWaiting(q)
           p == IF k.base[h] < hi THEN hi ELSE k.base[h]
<1>1. PICK b : Stamped(k, b, t, -1) /\ Lowered(b, k', h, hi)
  BY DisinheritStep
<1>2. /\ Runs(t, "disinherit") /\ q \in Mutex /\ q \in Queue /\ h \in Task \cup {NoTask}
      /\ Moves(t, "app", NoCall) /\ QueuesStay
  BY DisinheritStep
<1>3. \A u \in Task : call'[u].q = call[u].q \/ call'[u].q = "none"
  BY <1>2, MovesPlain DEF NoCall
<1>4. /\ holder' = holder /\ count' = count /\ k'.held = k.held /\ k'.base = k.base
      /\ k'.current = t /\ k.current = t /\ k'.yieldPending = k.yieldPending
      /\ k'.pendSV = k.pendSV /\ k.pendSV = FALSE
      /\ \A u \in Task : Rdy(k', u) => Rdy(k, u)
      /\ b.prio = k.prio /\ b.base = k.base /\ b.held = k.held
  <2>1. /\ b.held = k.held /\ b.base = k.base /\ b.prio = k.prio /\ b.current = k.current
        /\ b.yieldPending = k.yieldPending /\ b.pendSV = k.pendSV
        /\ \A u \in Task : Rdy(b, u) <=> Rdy(k, u)
    BY <1>1 DEF Stamped, SamePrio, SameRun, SameYield
  <2>2. /\ k'.held = b.held /\ k'.base = b.base /\ k'.current = b.current
        /\ k'.yieldPending = b.yieldPending /\ k'.pendSV = b.pendSV
        /\ \A u \in Task : Rdy(k', u) <=> Rdy(b, u)
    BY <1>1 DEF Lowered, Repriced, SameRun, SameYield
  <2> QED BY <1>2, <2>1, <2>2 DEF QueuesStay, Runs
<1>5. OthersMutex' /\ MutexCounts' /\ HeldCounts'
  BY <1>3, <1>4, SameHolders
<1>6. /\ \A v \in Task : k.prio[v] \in Int /\ k.base[v] \in Int /\ k.held[v] \in Int
      /\ k.prio \in [Task -> Level] /\ NoTask \notin Task /\ hi \in Int
      /\ \A v \in Task : k.prio[v] >= k.base[v] /\ (k.prio[v] > k.base[v] => k.held[v] > 0)
  BY <1>2, CoreTypes, PrioInt, KernelFields, HighestWaitingType DEF HoldInv, LiftNeedsMutex
<1>7. h # t
  BY <1>2 DEF HoldInv, OthersMutex
<1> HIDE DEF hi, q
<1>8. CASE k' = b
  <2>1. k'.prio = k.prio
    BY <1>4, <1>8
  <2>2. LiftNeedsMutex' /\ (Highest => Highest')
    BY <1>4, <1>6, <2>1 DEF LiftNeedsMutex, Highest
  <2> QED BY <1>4, <1>5, <2>2 DEF HoldInv
<1>9. CASE k' # b
  <2>1. /\ h \in Task /\ k.held[h] = 1 /\ k'.prio = [k.prio EXCEPT ![h] = p]
    BY <1>1, <1>4, <1>9 DEF Lowered
  <2>2. /\ k'.prio[h] = p /\ \A v \in Task : v # h => k'.prio[v] = k.prio[v]
    BY <1>6, <2>1
  <2>3. p >= k.base[h] /\ p \in Int
    BY <1>6, <2>1
  <2> HIDE DEF p, h
  <2>4. LiftNeedsMutex'
    <3>1. ASSUME NEW v \in Task
          PROVE  k'.prio[v] >= k'.base[v] /\ (k'.prio[v] > k'.base[v] => k'.held[v] > 0)
      <4>1. CASE v = h
        BY <1>4, <2>1, <2>2, <2>3, <4>1
      <4>2. CASE v # h
        BY <1>4, <1>6, <2>2, <4>2
      <4> QED BY <4>1, <4>2
    <3> QED BY <3>1 DEF LiftNeedsMutex
  <2>5. CASE p > k.prio[h]
    <3>1. pc[t] = "disinherit" /\ Running(t)
      BY <1>2 DEF Disinherit
    <3>2. Drops
      BY <1>4, <2>1, <2>2, <2>5, <3>1 DEF Drops
    <3> QED BY <1>4, <1>5, <2>4, <3>2 DEF HoldInv
  <2>6. CASE ~(p > k.prio[h])
    <3>1. Highest => Highest'
      BY <1>4, <1>6, <1>7, <2>1, <2>2, <2>3, <2>6 DEF Highest, h, q
    <3> QED BY <1>4, <1>5, <2>4, <3>1 DEF HoldInv
  <2> QED BY <2>5, <2>6
<1> QED BY <1>8, <1>9

(* A mutex is given back.                                                     *)
LEMMA GiveMutexHolds ==
  ASSUME Core, HoldInv, NEW t \in Task, NEW m \in Mutex, GiveMutex(t, m)
  PROVE  HoldInv' /\ k'.current = k.current /\ (Highest => Highest' \/ Drops)
<1>1. /\ Runs(t, "app") /\ holder[m] = t /\ m \in Queue /\ Rests
      /\ holder' = [holder EXCEPT ![m] = NoTask] /\ count' = [count EXCEPT ![m] = @ + 1]
      /\ \E b, P : Given(k, b, k', t, m, P)
  BY GiveMutexStep
<1>2. PICK b, P : Given(k, b, k', t, m, P)
  BY <1>1
<1>3. PICK y \in BOOLEAN :
        /\ Disinherits(k, b, t, y) /\ b.depth = 0 /\ b.current = t
        /\ WokeOne(b, k', m, "receive", P)
        /\ k'.pendSV = (\/ b.waiting[m]["receive"] = <<>> /\ y
                        \/ \E u \in P : b.prio[u] > b.prio[t])
  BY <1>2 DEF Given
<1>4. Wakes(b, k', P) /\ P \in SUBSET Task
  BY <1>3 DEF WokeOne
<1>5. /\ k'.held = [k.held EXCEPT ![t] = k.held[t] - 1] /\ k'.base = k.base /\ k'.prio = b.prio
      /\ k'.current = t /\ k.current = t
      /\ k.pendSV = FALSE /\ k.yieldPending = FALSE
      /\ \A u \in Task : Rdy(k', u) <=> Rdy(k, u) \/ u \in P
  BY <1>1, <1>3, <1>4 DEF Disinherits, Repriced, Wakes, SamePrio, Runs, Calm, Critical
<1>6. /\ \A v \in Task : k.prio[v] \in Int /\ k.base[v] \in Int /\ k.held[v] \in Int
      /\ k.prio \in [Task -> Level] /\ k.held \in [Task -> Int] /\ NoTask \notin Task
      /\ \A v \in Task : k.prio[v] >= k.base[v] /\ (k.prio[v] > k.base[v] => k.held[v] > 0)
      /\ holder \in [Mutex -> Task \cup {NoTask}] /\ count \in [Queue -> Int] /\ Mutex \subseteq Queue
  BY CoreTypes, PrioInt, KernelFields DEF HoldInv, LiftNeedsMutex
<1>7. k.held[t] > 0
  BY <1>1, HeldPositive
<1>8. /\ holder'[m] = NoTask /\ count'[m] = count[m] + 1
      /\ \A x \in Mutex : x # m => holder'[x] = holder[x] /\ count'[x] = count[x]
  BY <1>1, <1>6
<1>9. OthersMutex'
  BY <1>1, <1>6, <1>8 DEF HoldInv, OthersMutex, Rests
<1>10. MutexCounts'
  <2>1. count[m] = 0
    BY <1>1, <1>6 DEF HoldInv, MutexCounts
  <2> QED BY <1>8, <2>1 DEF HoldInv, MutexCounts
<1>11. HeldCounts'
  <2>1. Owned(t)' = Owned(t) \ {m} /\ m \in Owned(t)
    BY <1>1, <1>6, <1>8 DEF Owned
  <2>2. ASSUME NEW u \in Task, u # t
        PROVE  Owned(u)' = Owned(u)
    BY <1>1, <1>6, <1>8, <2>2 DEF Owned
  <2>3. IsFiniteSet(Owned(t)') /\ Cardinality(Owned(t)') = Cardinality(Owned(t)) - 1
    BY <2>1, FS_RemoveElement DEF HoldInv, HeldCounts
  <2>4. k'.held[t] = k.held[t] - 1 /\ \A u \in Task : u # t => k'.held[u] = k.held[u]
    BY <1>5, <1>6
  <2> QED BY <2>2, <2>3, <2>4 DEF HoldInv, HeldCounts
<1>12. k'.held[t] = k.held[t] - 1 /\ \A u \in Task : u # t => k'.held[u] = k.held[u]
  BY <1>5, <1>6
<1>13. CASE y
  <2>1. k.prio[t] # k.base[t] /\ k'.prio = [k.prio EXCEPT ![t] = k.base[t]]
    BY <1>3, <1>5, <1>13 DEF Disinherits
  <2>2. k'.prio[t] = k.base[t] /\ \A u \in Task : u # t => k'.prio[u] = k.prio[u]
    BY <1>6, <2>1
  <2>3. LiftNeedsMutex'
    <3>1. ASSUME NEW v \in Task
          PROVE  k'.prio[v] >= k'.base[v] /\ (k'.prio[v] > k'.base[v] => k'.held[v] > 0)
      <4>1. CASE v = t
        BY <1>5, <1>6, <2>2, <4>1
      <4>2. CASE v # t
        BY <1>5, <1>6, <1>12, <2>2, <4>2
      <4> QED BY <4>1, <4>2
    <3> QED BY <3>1 DEF LiftNeedsMutex
  <2>4. k'.prio[holder[m]] < k.prio[holder[m]] /\ holder[m] # NoTask
    BY <1>1, <1>6, <2>1, <2>2
  <2>5. CASE k'.pendSV
    BY <1>5, <1>9, <1>10, <1>11, <2>3, <2>5 DEF HoldInv, Highest
  <2>6. CASE ~k'.pendSV
    BY <1>5, <1>8, <1>9, <1>10, <1>11, <2>3, <2>4, <2>6 DEF HoldInv, Drops
  <2> QED BY <2>5, <2>6
<1>14. CASE ~y
  <2>1. (k.prio[t] = k.base[t] \/ k.held[t] # 1) /\ k'.prio = k.prio /\ b.prio = k.prio
    BY <1>3, <1>5, <1>14 DEF Disinherits
  <2>2. LiftNeedsMutex'
    <3>1. ASSUME NEW v \in Task
          PROVE  k'.prio[v] >= k'.base[v] /\ (k'.prio[v] > k'.base[v] => k'.held[v] > 0)
      <4>1. CASE v = t
        BY <1>5, <1>6, <1>7, <1>12, <2>1, <4>1
      <4>2. CASE v # t
        BY <1>5, <1>6, <1>12, <2>1, <4>2
      <4> QED BY <4>1, <4>2
    <3> QED BY <3>1 DEF LiftNeedsMutex
  <2>3. Highest => Highest'
    <3>1. ~k'.pendSV => \A u \in P : k.prio[u] <= k.prio[t]
      BY <1>3, <1>4, <1>6, <2>1
    <3> QED BY <1>5, <2>1, <3>1 DEF Highest
  <2> QED BY <1>5, <1>9, <1>10, <1>11, <2>2, <2>3 DEF HoldInv
<1> QED BY <1>13, <1>14

-----------------------------------------------------------------------------
(* What Steady is for.                                                        *)
LEMMA SteadyHighest ==
  ASSUME Steady, k'.prio = k.prio, Highest
  PROVE  Highest'
BY DEF Steady, Highest

(* Every step keeps who holds what, and keeps the running task on top, but  *)
(* for a switch or a yield that is dropped.                                 *)
LEMMA StepHolds ==
  ASSUME Core, HoldInv, Step
  PROVE  HoldInv' /\ (PendSV \/ (k'.current = k.current /\ (Highest => Highest' \/ Drops)))
<1> DEFINE Fine == HoldInv' /\ k'.current = k.current /\ (Highest => Highest' \/ Drops)
<1>1. ASSUME Plain, Steady
      PROVE  Fine
  <2>1. k'.prio = k.prio /\ k'.current = k.current
    BY <1>1 DEF Plain, SamePrio, Steady
  <2> QED BY <1>1, <2>1, SteadyHighest, PlainHolds
<1>2. ASSUME NEW t \in Task, TaskStep(t)
      PROVE  Fine
  <2>1. CASE \/ CallYield(t) \/ CallDelay(t) \/ DelayAdd(t) \/ CallSuspend(t) \/ AfterSuspend(t)
             \/ CallResume(t) \/ Refuse(t) \/ NoteTime(t) \/ SuspendAll(t) \/ LockQueue(t)
    BY <1>1, <2>1, FirstSteps
  <2>2. CASE \/ CheckTimeOut(t) \/ UnlockQueue(t) \/ CallResumeAll(t) \/ YieldAfter(t) \/ Expire(t)
    BY <1>1, <2>2, LaterSteps
  <2>3. CASE CallPrioritySet(t)
    BY <2>3, PrioritySetHolds
  <2>4. CASE CallQueue(t)
    <3>1. HoldInv' /\ Steady /\ k'.prio = k.prio
      BY <2>4, CallQueueHolds
    <3> QED BY <3>1, SteadyHighest DEF Steady
  <2>5. CASE Succeed(t)
    <3>1. HoldInv' /\ Steady /\ k'.prio = k.prio
      BY <2>5, SucceedHolds
    <3> QED BY <3>1, SteadyHighest DEF Steady
  <2>6. CASE Place(t)
    BY <2>6, PlaceHolds
  <2>7. CASE Disinherit(t)
    BY <2>7, DisinheritHolds
  <2>8. CASE \E m \in Mutex : GiveMutex(t, m)
    BY <2>8, GiveMutexHolds
  <2> QED BY <1>2, <2>1, <2>2, <2>3, <2>4, <2>5, <2>6, <2>7, <2>8 DEF TaskStep
<1>3. CASE \/ \E q \in Queue, s \in Side : IsrQueue(q, s)
           \/ TickIsr
  BY <1>1, <1>3, InterruptSteps
<1>4. CASE PendSV
  BY <1>4, SwitchSteps, PlainHolds
<1> QED BY <1>2, <1>3, <1>4 DEF Step

(* A switch takes the highest of the ready tasks.                             *)
LEMMA SwitchHighest ==
  ASSUME Core, PendSV
  PROVE  Highest'
<1>1. /\ k.depth > 0 => k'.yieldPending = TRUE
      /\ ~(k.depth > 0) => \A u \in Task : Rdy(k', u) => k'.prio[u] <= k'.prio[k'.current]
  BY PendSVStep
<1> QED BY <1>1 DEF Highest

(* What a task holds and what its priority is agree, and the running task is  *)
(* the highest unless a yield was dropped.                                    *)
HoldsAndRuns == HoldInv /\ dropped \in BOOLEAN /\ (dropped \/ Highest)

(* No mutex is held at the start, and the highest runs.                     *)
LEMMA InitHolds ==
  ASSUME Init
  PROVE  HoldsAndRuns
<1>1. /\ Fresh(k) /\ \A u \in Task : Rdy(k, u) /\ k.prio[u] <= k.prio[k.current]
      /\ k \in Kernel
  BY StartedDoes DEF Init, Good
<1>2. call = [t \in Task |-> NoCall] /\ holder = [m \in Mutex |-> NoTask]
      /\ count = [q \in Queue |-> IF q \in Mutex THEN 1 ELSE 0] /\ dropped = FALSE
  BY DEF Init
<1>3. "none" \notin Mutex /\ NoTask \notin Task /\ Mutex \subseteq Queue
  BY QueueAssumption, TaskAssumption DEF QueueAssumption, TaskAssumption
<1>4. OthersMutex
  BY <1>2, <1>3 DEF OthersMutex, NoCall
<1>5. MutexCounts
  BY <1>2, <1>3 DEF MutexCounts
<1>6. HeldCounts
  <2>1. \A t \in Task : Owned(t) = {} /\ k.held[t] = 0
    BY <1>1, <1>2, <1>3 DEF Owned, Fresh
  <2> QED BY <2>1, FS_EmptySet DEF HeldCounts
<1>7. LiftNeedsMutex
  <2>1. \A t \in Task : k.prio[t] \in Int /\ k.base[t] = k.prio[t]
    BY <1>1, PrioInt DEF Fresh
  <2> QED BY <2>1 DEF LiftNeedsMutex
<1>8. Highest
  BY <1>1 DEF Highest
<1> QED BY <1>2, <1>4, <1>5, <1>6, <1>7, <1>8 DEF HoldsAndRuns, HoldInv

(* Every step keeps the holders, and the highest task running.              *)
LEMMA HoldsKept ==
  ASSUME Core, HoldsAndRuns, [Next]_vars
  PROVE  HoldsAndRuns'
<1>1. CASE UNCHANGED vars
  <2>1. /\ k' = k /\ holder' = holder /\ count' = count /\ call' = call /\ dropped' = dropped
    BY <1>1 DEF vars
  <2>2. HoldInv'
    BY <2>1, SameHolders DEF HoldsAndRuns, HoldInv, LiftNeedsMutex
  <2> QED BY <2>1, <2>2 DEF HoldsAndRuns, Highest
<1>2. CASE Next
  <2>1. Step /\ dropped' = (Drops \/ (dropped /\ k'.current = k.current))
    BY <1>2 DEF Next, Histories
  <2>2. HoldInv' /\ (PendSV \/ (k'.current = k.current /\ (Highest => Highest' \/ Drops)))
    BY <2>1, StepHolds DEF HoldsAndRuns
  <2>3. dropped' \in BOOLEAN
    BY <2>1
  <2>4. dropped' \/ Highest'
    <3>1. CASE PendSV
      BY <3>1, SwitchHighest
    <3>2. CASE k'.current = k.current /\ (Highest => Highest' \/ Drops)
      BY <2>1, <3>2 DEF HoldsAndRuns
    <3> QED BY <2>2, <3>1, <3>2
  <2> QED BY <2>2, <2>3, <2>4 DEF HoldsAndRuns
<1> QED BY <1>1, <1>2

(* THEOREM HoldsInvariant: the invariant behind the three theorems that     *)
(* follow, on who holds which mutex, who is lifted and who runs.            *)
THEOREM HoldsInvariant == Spec => [](Core /\ HoldsAndRuns)
<1>1. Init => Core /\ HoldsAndRuns
  BY InitCore, InitHolds
<1>2. (Core /\ HoldsAndRuns) /\ [Next]_vars => (Core /\ HoldsAndRuns)'
  BY CoreKept, HoldsKept
<1> QED BY <1>1, <1>2, PTL DEF Spec

(* A mutex that counts 0 has a holder and one that counts 1 has none, and     *)
(* each task counts exactly the mutexes it holds, whoever takes, gives back   *)
(* and gives up waiting, and in whatever order (xTaskPriorityInherit,         *)
(* xTaskPriorityDisinherit, vTaskPriorityDisinheritAfterTimeout).             *)
THEOREM HolderKnown == Spec => []MutexHasHolder
<1>1. HoldInv => MutexHasHolder
  <2>1. ASSUME HoldInv, NEW t \in Task
        PROVE  k.held[t] = Cardinality({m \in Mutex : holder[m] = t})
    BY <2>1 DEF HoldInv, HeldCounts, Owned
  <2> QED BY <2>1 DEF HoldInv, MutexCounts, MutexHasHolder
<1> QED BY <1>1, HoldsInvariant, PTL DEF HoldsAndRuns

(* A task is above its own priority only while it holds a mutex, and never    *)
(* below it, through vTaskPrioritySet, timeouts and nested mutexes.           *)
THEOREM LiftHasMutex == Spec => []LiftNeedsMutex
<1>1. HoldsAndRuns => LiftNeedsMutex
  BY DEF HoldsAndRuns, HoldInv
<1> QED BY <1>1, HoldsInvariant, PTL

(* The promise of vTaskSwitchContext and of every yield: with the two         *)
(* exceptions dropped stands for, no ready task is above the running one when *)
(* no switch is pending and the scheduler is not suspended.                   *)
THEOREM HighestRunning == Spec => []HighestRuns
<1>1. Core /\ HoldsAndRuns => HighestRuns
  <2> SUFFICES ASSUME Core, HoldsAndRuns, ~dropped, ~k.pendSV, k.depth = 0, NEW p \in k.top
               PROVE  p <= k.prio[k.current]
    BY DEF HighestRuns, HighestAlwaysRuns
  <2>1. Highest /\ ~k.yieldPending
    BY DEF HoldsAndRuns, Core, Control
  <2>2. Good(k) /\ k \in Kernel /\ p \in Level /\ k.ready[p].items # <<>>
    BY DEF Core, Good, TopAgrees
  <2>3. PICK t \in Task : Contains(k.ready[p].items, t)
    BY <2>2, KernelFields, ListElements
  <2>4. IsReady(k, t, p) /\ p = k.prio[t]
    BY <2>2, <2>3 DEF IsReady, Good, Placed
  <2> QED BY <2>1, <2>4 DEF Highest, Rdy
<1> QED BY <1>1, HoldsInvariant, PTL

-----------------------------------------------------------------------------
(* What most steps are for the lists tasks wait and sleep in: tasks may leave *)
(* them, nobody enters, and the count of time does not move; and who leaves   *)
(* the delayed lists is suspended or has its event.                           *)
Trims(a, b) == \A q \in Queue, s \in Side :
  /\ Thinned(b.waiting[q][s], a.waiting[q][s])
  /\ \A t \in Task : Contains(b.waiting[q][s], t) => Contains(a.waiting[q][s], t)
Still(a, b) ==
  /\ b.tick = a.tick /\ b.pended = a.pended /\ (Timely(a) => Timely(b))
  /\ \A t \in Task : Delayed(b, t) => Delayed(a, t) /\ b.wake[t] = a.wake[t]
Leaves(a, b) ==
  \A t \in Task : Delayed(a, t) /\ ~Delayed(b, t) =>
    \/ t \in b.suspended
    \/ ~InEventList(b, t) /\ \E q \in Queue, s \in Side : Contains(a.waiting[q][s], t)
Quietly(a, b) == Trims(a, b) /\ Still(a, b) /\ Leaves(a, b)
Rearranges(a, b) ==
  /\ SameWait(a, b) /\ SameBlocked(a, b) /\ SameNext(a, b) /\ b.tick = a.tick /\ b.pended = a.pended

(* Moving tasks between ready lists leaves event lists and clocks alone.    *)
LEMMA RearrangesQuietly ==
  ASSUME NEW a, NEW b, Rearranges(a, b)
  PROVE  /\ Quietly(a, b)
         /\ \A c : Quietly(b, c) => Quietly(a, c)
<1>1. /\ b.waiting = a.waiting /\ b.pendingReady = a.pendingReady /\ b.delayed = a.delayed
      /\ b.overflow = a.overflow /\ b.suspended = a.suspended /\ b.wake = a.wake /\ b.next = a.next
      /\ b.tick = a.tick /\ b.pended = a.pended
  BY DEF Rearranges, SameWait, SameBlocked, SameNext
<1>2. Trims(a, b)
  BY <1>1, ThinnedSelf DEF Trims
<1>3. Timely(a) <=> Timely(b)
  BY <1>1 DEF Timely, InOrder, Ahead, InTime
<1>4. Still(a, b) /\ Leaves(a, b)
  BY <1>1, <1>3 DEF Still, Leaves, Delayed
<1>5. ASSUME NEW c, Quietly(b, c)
      PROVE  Quietly(a, c)
  <2>1. Trims(a, c)
    BY <1>1, <1>5 DEF Quietly, Trims
  <2>2. Still(a, c)
    BY <1>1, <1>3, <1>5 DEF Quietly, Still, Delayed
  <2>3. Leaves(a, c)
    BY <1>1, <1>5 DEF Quietly, Leaves, Delayed
  <2> QED BY <2>1, <2>2, <2>3 DEF Quietly
<1> QED BY <1>2, <1>4, <1>5 DEF Quietly

(* Waking tasks only takes tasks out of event lists.                        *)
LEMMA WakesTrims ==
  ASSUME NEW a, NEW b, NEW W, Wakes(a, b, W) \/ Signals(a, b, W)
  PROVE  Trims(a, b)
BY DEF Wakes, Signals, Trims

(* A step that keeps the wake-up times keeps the clocks still.              *)
LEMMA KeepsTimeStill ==
  ASSUME NEW a \in Kernel, NEW b \in Kernel, KeepsTime(a, b), SameNext(a, b)
  PROVE  Still(a, b)
<1>1. Timely(a) => Timely(b)
  BY TimelySame DEF Timely
<1>2. \A t \in Task : Delayed(b, t) => Delayed(a, t) /\ b.wake[t] = a.wake[t]
  BY DEF KeepsTime, Delayed
<1> QED BY <1>1, <1>2 DEF Still, KeepsTime, SameClock

(* A task is woken for its event, or will be.                                 *)
LEMMA WokeOneQuietly ==
  ASSUME NEW a, Good(a), NEW b, NEW q \in Queue, NEW s \in Side, NEW P, WokeOne(a, b, q, s, P)
  PROVE  Quietly(a, b)
<1>1. /\ a \in Kernel /\ b \in Kernel /\ KeepsTime(a, b) /\ SameNext(a, b)
      /\ P \in SUBSET {t \in Task : Contains(a.waiting[q][s], t)}
      /\ Wakes(a, b, P) \/ Signals(a, b, P)
  BY DEF WokeOne, Good
<1>2. Trims(a, b)
  BY <1>1, WakesTrims
<1>3. Still(a, b)
  BY <1>1, KeepsTimeStill
<1>4. ASSUME NEW t \in Task, Delayed(a, t), ~Delayed(b, t)
      PROVE  ~InEventList(b, t) /\ Contains(a.waiting[q][s], t)
  <2>1. CASE Wakes(a, b, P)
    <3>1. t \in P
      BY <1>4, <2>1 DEF Wakes
    <3> QED BY <1>1, <2>1, <3>1 DEF Wakes, InEventList
  <2>2. CASE Signals(a, b, P)
    BY <1>4, <2>2 DEF Signals, SameBlocked, Delayed
  <2> QED BY <1>1, <2>1, <2>2
<1>5. Leaves(a, b)
  BY <1>4 DEF Leaves
<1> QED BY <1>2, <1>3, <1>5 DEF Quietly

(* prvUnlockQueue only takes tasks out of event and delayed lists.          *)
LEMMA WokeManyQuietly ==
  ASSUME NEW a, Good(a), NEW b, NEW q, NEW s, NEW n, NEW P, WokeMany(a, b, q, s, n, P)
  PROVE  Quietly(a, b)
<1>1. /\ a \in Kernel /\ b \in Kernel /\ KeepsTime(a, b) /\ SameNext(a, b) /\ Signals(a, b, P)
  BY DEF WokeMany, Good
<1>2. Trims(a, b) /\ Still(a, b)
  BY <1>1, WakesTrims, KeepsTimeStill
<1>3. Leaves(a, b)
  BY <1>1 DEF Signals, SameBlocked, Delayed, Leaves
<1> QED BY <1>2, <1>3 DEF Quietly

(* So does vTaskSuspend, ...                                                *)
LEMMA SuspendedQuietly ==
  ASSUME NEW a, Good(a), NEW b, NEW t \in Task, Suspended(a, b, t)
  PROVE  Quietly(a, b)
<1>1. a \in Kernel /\ b \in Kernel /\ KeepsTime(a, b) /\ SameNext(a, b)
  BY DEF Suspended, Good
<1>2. Still(a, b)
  BY <1>1, KeepsTimeStill
<1>3. Trims(a, b)
  BY DEF Suspended, Trims
<1>4. Leaves(a, b)
  BY DEF Suspended, Leaves
<1> QED BY <1>2, <1>3, <1>4 DEF Quietly

(* ... and so does vTaskResume.                                             *)
LEMMA RewokenQuietly ==
  ASSUME NEW a, Good(a), NEW b, NEW u \in Task, NEW W, Rewoken(a, b, u, W)
  PROVE  Quietly(a, b)
<1>1. a \in Kernel /\ b \in Kernel /\ KeepsTime(a, b) /\ SameNext(a, b) /\ Wakes(a, b, W)
  BY DEF Rewoken, Good
<1>2. Still(a, b) /\ Trims(a, b)
  BY <1>1, KeepsTimeStill, WakesTrims
<1>3. \A t \in W : t = u /\ t \in a.suspended
  BY DEF Rewoken, IsSuspended
<1>4. Leaves(a, b)
  BY <1>1, <1>3 DEF Good, Placed, Wakes, Leaves
<1> QED BY <1>2, <1>4 DEF Quietly

-----------------------------------------------------------------------------
(* The value of an event list item is set to the priority of its task, or to  *)
(* the task's own priority when that is set.                                  *)
Follows(a, b) == \A t \in Task :
  IF b.base[t] = a.base[t]
  THEN (b.prio[t] = a.prio[t] /\ b.event[t] = a.event[t]) \/ b.event[t] = ItemValue(b.prio[t])
  ELSE b.event[t] = ItemValue(b.base[t])

(* Values of event list items go with the priorities when neither changes.  *)
LEMMA FollowsSame ==
  ASSUME NEW a, NEW b, SamePrio(a, b)
  PROVE  Follows(a, b)
BY DEF SamePrio, Follows

(* Steps that change neither priorities nor the time.                         *)
LEMMA QuietFirst ==
  ASSUME Core, NEW t \in Task,
         \/ CallYield(t) \/ CallDelay(t) \/ CallSuspend(t) \/ AfterSuspend(t)
         \/ CallResume(t) \/ Refuse(t) \/ NoteTime(t) \/ SuspendAll(t) \/ LockQueue(t)
  PROVE  Quietly(k, k')
<1>0. Good(k) /\ Rearranges(k, k)
  BY DEF Core, Rearranges, SameWait, SameBlocked, SameNext
<1>1. CASE CallYield(t)
  <2>1. Yielded(k, k')
    BY <1>1, CallYieldStep
  <2> QED BY <2>1, RearrangesQuietly DEF Yielded, SameData, Rearranges
<1>2. CASE CallDelay(t)
  <2>1. Nested(k, k')
    BY <1>2, CallDelayStep
  <2> QED BY <2>1, RearrangesQuietly DEF Nested, SameData, Rearranges
<1>3. CASE CallSuspend(t)
  <2>1. \E u \in Task : Suspended(k, k', u)
    BY <1>3, CallSuspendStep
  <2> QED BY <1>0, <2>1, SuspendedQuietly
<1>4. CASE AfterSuspend(t)
  <2>1. SameWait(k, k') /\ SameBlocked(k, k') /\ SameClock(k, k') /\ (Timely(k) => Timely(k'))
    BY <1>4, AfterSuspendStep
  <2>2. Trims(k, k')
    BY <2>1, ThinnedSelf DEF SameWait, Trims
  <2>3. Still(k, k') /\ Leaves(k, k')
    BY <2>1 DEF SameBlocked, SameClock, Still, Leaves, Delayed
  <2> QED BY <2>2, <2>3 DEF Quietly
<1>5. CASE CallResume(t)
  <2>1. \E u \in Task \ {t}, W \in SUBSET Task : Rewoken(k, k', u, W)
    BY <1>5, CallResumeStep
  <2> QED BY <1>0, <2>1, RewokenQuietly
<1>6. CASE Refuse(t)
  <2>1. Stamped(k, k', t, -1)
    BY <1>6, RefuseStep
  <2> QED BY <2>1, RearrangesQuietly DEF Stamped, Rearranges
<1>7. CASE NoteTime(t)
  <2>1. k' = k \/ Stamped(k, k', t, 0)
    BY <1>7, NoteTimeStep
  <2> QED BY <1>0, <2>1, RearrangesQuietly DEF Stamped, Rearranges
<1>8. CASE SuspendAll(t)
  <2>1. Nested(k, k')
    BY <1>8, SuspendAllStep
  <2> QED BY <2>1, RearrangesQuietly DEF Nested, SameData, Rearranges
<1>9. CASE LockQueue(t)
  <2>1. k' = k
    BY <1>9, LockQueueStep
  <2> QED BY <1>0, <2>1, RearrangesQuietly
<1> QED BY <1>1, <1>2, <1>3, <1>4, <1>5, <1>6, <1>7, <1>8, <1>9

(* Steps that only take tasks out of event and delayed lists.               *)
LEMMA QuietLater ==
  ASSUME Core, NEW t \in Task,
         \/ CheckTimeOut(t) \/ UnlockQueue(t) \/ YieldAfter(t) \/ Expire(t)
         \/ CallQueue(t) \/ Succeed(t) \/ CallPrioritySet(t) \/ Disinherit(t)
         \/ \E m \in Mutex : GiveMutex(t, m)
  PROVE  Quietly(k, k')
<1>0. Good(k) /\ Rearranges(k, k) /\ Mutex \subseteq Queue /\ "receive" \in Side
  BY CoreTypes DEF Core, Rearranges, SameWait, SameBlocked, SameNext, Side
<1>1. CASE CheckTimeOut(t)
  <2>1. k' = k \/ Stamped(k, k', t, 0)
    BY <1>1, CheckTimeOutStep
  <2> QED BY <1>0, <2>1, RearrangesQuietly DEF Stamped, Rearranges
<1>2. CASE UnlockQueue(t)
  <2>1. \E q, s, n, P : WokeMany(k, k', q, s, n, P)
    BY <1>2, UnlockQueueStep
  <2> QED BY <1>0, <2>1, WokeManyQuietly
<1>3. CASE YieldAfter(t)
  <2>1. Yielded(k, k')
    BY <1>3, YieldAfterStep
  <2> QED BY <2>1, RearrangesQuietly DEF Yielded, SameData, Rearranges
<1>4. CASE Expire(t)
  <2>1. k' = k \/ Stamped(k, k', t, -1)
    BY <1>4, ExpireStep
  <2> QED BY <1>0, <2>1, RearrangesQuietly DEF Stamped, Rearranges
<1>5. CASE CallQueue(t)
  <2>1. k' = k
    BY <1>5, CallQueueStep
  <2> QED BY <1>0, <2>1, RearrangesQuietly
<1>6. CASE Succeed(t)
  <2> DEFINE q == call[t].q
             s == call[t].side
  <2>1. q \in Queue /\ Other(s) \in Side
    BY <1>6, SucceedStep
  <2>2. PICK b, P : Holding(k, b, t, q \in Mutex) /\ WokeOne(b, k', q, Other(s), P)
    BY <1>6, SucceedStep
  <2> HIDE DEF q, s
  <2>3. Rearranges(k, b) /\ Good(b)
    BY <2>2 DEF Holding, Rearranges
  <2>4. Quietly(b, k')
    BY <2>1, <2>2, <2>3, WokeOneQuietly
  <2> QED BY <2>3, <2>4, RearrangesQuietly
<1>7. CASE CallPrioritySet(t)
  <2>1. \E u \in Task, p \in Level : Prioritised(k, k', u, p)
    BY <1>7, CallPrioritySetStep
  <2>2. Rearranges(k, k')
    BY <2>1 DEF Prioritised, Rearranges, SameClock
  <2> QED BY <2>2, RearrangesQuietly
<1>8. CASE Disinherit(t)
  <2>1. PICK b : Stamped(k, b, t, -1) /\ Lowered(b, k', holder[call[t].q], HighestWaiting(call[t].q))
    BY <1>8, DisinheritStep
  <2>2. Rearranges(k, b) /\ Rearranges(b, k')
    BY <2>1 DEF Stamped, Lowered, Repriced, Rearranges, SameClock
  <2> QED BY <2>2, RearrangesQuietly
<1>9. CASE \E m \in Mutex : GiveMutex(t, m)
  <2>0. PICK m \in Mutex : GiveMutex(t, m)
    BY <1>9
  <2>1. PICK b, P : Given(k, b, k', t, m, P)
    BY <2>0, GiveMutexStep
  <2>2. Repriced(k, b) /\ WokeOne(b, k', m, "receive", P)
    BY <2>1 DEF Given, Disinherits
  <2>3. Rearranges(k, b) /\ Good(b)
    BY <2>2 DEF Repriced, Rearranges, SameClock
  <2>4. Quietly(b, k')
    BY <1>0, <2>2, <2>3, WokeOneQuietly
  <2> QED BY <2>3, <2>4, RearrangesQuietly
<1> QED BY <1>1, <1>2, <1>3, <1>4, <1>5, <1>6, <1>7, <1>8, <1>9

(* Interrupts but the tick, and switches, are no different.                   *)
LEMMA QuietInterrupts ==
  ASSUME Core, \/ \E q \in Queue, s \in Side : IsrQueue(q, s)
               \/ PendSV
  PROVE  Quietly(k, k')
<1>0. Good(k) /\ Rearranges(k, k)
  BY DEF Core, Rearranges, SameWait, SameBlocked, SameNext
<1>1. ASSUME NEW q \in Queue, NEW s \in Side, IsrQueue(q, s)
      PROVE  Quietly(k, k')
  <2>1. Other(s) \in Side
    BY <1>1, IsrQueueStep
  <2>2. k' = k \/ \E P : WokeOne(k, k', q, Other(s), P)
    BY <1>1, IsrQueueStep
  <2> QED BY <1>0, <2>1, <2>2, WokeOneQuietly, RearrangesQuietly
<1>2. CASE PendSV
  <2>1. Rearranges(k, k')
    BY <1>2, PendSVStep DEF Rearranges, SameClock
  <2> QED BY <2>1, RearrangesQuietly
<1> QED BY <1>1, <1>2

-----------------------------------------------------------------------------
(* An event list loses tasks, or gains the running one where its value        *)
(* belongs.                                                                   *)
Lists(a, b) == \A q \in Queue, s \in Side :
  LET v == a.waiting[q][s]
      w == b.waiting[q][s]
  IN \/ Thinned(w, v) /\ \A t \in Task : Contains(w, t) => Contains(v, t)
     \/ ~Contains(v, a.current) /\ w = InsertSorted(v, a.current, b.event)

(* Taking tasks out of an event list is one of the two things that happen   *)
(* to it.                                                                   *)
LEMMA TrimsLists ==
  ASSUME NEW a, NEW b, Trims(a, b)
  PROVE  Lists(a, b)
BY DEF Trims, Lists

(* The other is vListInsert of the running task.                            *)
LEMMA PlaceLists ==
  ASSUME Core, NEW t \in Task, Place(t)
  PROVE  Lists(k, k') /\ Follows(k, k')
<1> DEFINE q == call[t].q
           s == call[t].side
           h == IF q \in Mutex THEN holder[q] ELSE NoTask
<1>1. Runs(t, "place") /\ q \in Queue /\ s \in Side
  BY PlaceStep
<1>2. PICK b : Inherits(k, b, h) /\ Places(b, k', q, s, call[t].ticks) /\ b.current = t
  BY PlaceStep
<1> HIDE DEF q, s, h
<1>3. k.current = t /\ b.waiting = k.waiting /\ k'.event = b.event /\ k'.prio = b.prio
      /\ k'.base = k.base /\ b.base = k.base
  BY <1>1, <1>2 DEF Runs, Inherits, Repriced, SameWait, Places, SamePrio
<1>4. ~Contains(k.waiting[q][s], t)
  BY <1>1 DEF Runs, Good, EventsApart
<1>5. ASSUME NEW x \in Queue, NEW z \in Side
      PROVE  LET v == k.waiting[x][z]
                 w == k'.waiting[x][z]
             IN \/ Thinned(w, v) /\ \A u \in Task : Contains(w, u) => Contains(v, u)
                \/ ~Contains(v, k.current) /\ w = InsertSorted(v, k.current, k'.event)
  <2>1. CASE <<x, z>> = <<q, s>>
    <3>1. k'.waiting[q][s] = InsertSorted(k.waiting[q][s], t, k'.event)
      BY <1>2, <1>3 DEF Places
    <3> QED BY <1>3, <1>4, <2>1, <3>1
  <2>2. CASE <<x, z>> # <<q, s>>
    <3>1. k'.waiting[x][z] = k.waiting[x][z]
      BY <1>2, <1>3, <2>2 DEF Places
    <3> QED BY <3>1, ThinnedSelf
  <2> QED BY <2>1, <2>2
<1>6. Lists(k, k')
  BY <1>5 DEF Lists
<1>7. Follows(k, k')
  <2>1. k.prio \in [Task -> Level] /\ k.event \in [Task -> 1 .. MaxPriorities]
    BY CoreTypes, KernelFields
  <2>2. \/ k'.prio = k.prio /\ k'.event = k.event
        \/ /\ h \in Task
           /\ k'.prio = [k.prio EXCEPT ![h] = k.prio[t]]
           /\ k'.event = [k.event EXCEPT ![h] = ItemValue(k.prio[t])]
    BY <1>2, <1>3 DEF Inherits
  <2> QED BY <1>3, <2>1, <2>2 DEF Follows
<1> QED BY <1>6, <1>7

(* The other steps that set priorities.                                       *)
LEMMA PrioFollows ==
  ASSUME Core, NEW t \in Task,
         CallPrioritySet(t) \/ Disinherit(t) \/ \E m \in Mutex : GiveMutex(t, m)
  PROVE  Follows(k, k')
<1>0. /\ k.prio \in [Task -> Level] /\ k.event \in [Task -> 1 .. MaxPriorities]
      /\ k.base \in [Task -> Level]
  BY CoreTypes, KernelFields
<1>1. CASE CallPrioritySet(t)
  <2>1. PICK u \in Task, p \in Level : Prioritised(k, k', u, p)
    BY <1>1, CallPrioritySetStep
  <2>2. CASE k.base[u] = p
    BY <2>1, <2>2 DEF Prioritised, Follows
  <2>3. CASE k.base[u] # p
    <3>1. \E n : k'.prio = [k.prio EXCEPT ![u] = n]
      BY <2>1, <2>3 DEF Prioritised
    <3>2. k'.base = [k.base EXCEPT ![u] = p] /\ k'.event = [k.event EXCEPT ![u] = ItemValue(p)]
      BY <2>1, <2>3 DEF Prioritised
    <3> QED BY <1>0, <2>3, <3>1, <3>2 DEF Follows
  <2> QED BY <2>2, <2>3
<1>2. CASE Disinherit(t)
  <2>1. PICK b : Stamped(k, b, t, -1) /\ Lowered(b, k', holder[call[t].q], HighestWaiting(call[t].q))
    BY <1>2, DisinheritStep
  <2>2. b.prio = k.prio /\ b.base = k.base /\ b.event = k.event
    BY <2>1 DEF Stamped, SamePrio
  <2>3. CASE k' = b
    BY <2>2, <2>3 DEF Follows
  <2>4. CASE k' # b
    <3> DEFINE h == holder[call[t].q]
               p == IF b.base[h] < HighestWaiting(call[t].q) THEN HighestWaiting(call[t].q)
                    ELSE b.base[h]
    <3>1. /\ h \in Task /\ k'.base = b.base
          /\ k'.prio = [b.prio EXCEPT ![h] = p] /\ k'.event = [b.event EXCEPT ![h] = ItemValue(p)]
      BY <2>1, <2>4 DEF Lowered
    <3> HIDE DEF h, p
    <3> QED BY <1>0, <2>2, <3>1 DEF Follows
  <2> QED BY <2>3, <2>4
<1>3. CASE \E m \in Mutex : GiveMutex(t, m)
  <2>0. PICK m \in Mutex : GiveMutex(t, m)
    BY <1>3
  <2>1. PICK b, P : Given(k, b, k', t, m, P)
    BY <2>0, GiveMutexStep
  <2>2. PICK y \in BOOLEAN : Disinherits(k, b, t, y) /\ WokeOne(b, k', m, "receive", P)
    BY <2>1 DEF Given
  <2>3. k'.prio = b.prio /\ k'.base = b.base /\ k'.event = b.event
    BY <2>2 DEF WokeOne, Wakes, Signals, SamePrio
  <2>4. /\ b.base = k.base
        /\ \/ b.prio = k.prio /\ b.event = k.event
           \/ /\ b.prio = [k.prio EXCEPT ![t] = k.base[t]]
              /\ b.event = [k.event EXCEPT ![t] = ItemValue(k.base[t])]
    BY <2>2 DEF Disinherits
  <2> QED BY <1>0, <2>3, <2>4 DEF Follows
<1> QED BY <1>1, <1>2, <1>3

(* Every step does one of the two to each event list, and moves the value   *)
(* of an event list item with the priority it stands for.                   *)
LEMMA StepFollows ==
  ASSUME Core, Step
  PROVE  Lists(k, k') /\ Follows(k, k')
<1>1. ASSUME NEW t \in Task, TaskStep(t)
      PROVE  Lists(k, k') /\ Follows(k, k')
  <2>1. CASE \/ CallYield(t) \/ CallDelay(t) \/ CallSuspend(t) \/ AfterSuspend(t)
             \/ CallResume(t) \/ Refuse(t) \/ NoteTime(t) \/ SuspendAll(t) \/ LockQueue(t)
    <3>1. Quietly(k, k') /\ Plain
      BY <2>1, QuietFirst, FirstSteps
    <3> QED BY <3>1, TrimsLists, FollowsSame DEF Quietly, Plain
  <2>2. CASE CheckTimeOut(t) \/ UnlockQueue(t) \/ YieldAfter(t) \/ Expire(t)
    <3>1. Quietly(k, k') /\ Plain
      BY <2>2, QuietLater, LaterSteps
    <3> QED BY <3>1, TrimsLists, FollowsSame DEF Quietly, Plain
  <2>3. CASE DelayAdd(t)
    <3>1. SameWait(k, k') /\ SamePrio(k, k')
      BY <2>3, DelayAddStep
    <3>2. Trims(k, k')
      BY <3>1, ThinnedSelf DEF SameWait, Trims
    <3> QED BY <3>1, <3>2, TrimsLists, FollowsSame
  <2>4. CASE CallPrioritySet(t) \/ Disinherit(t) \/ \E m \in Mutex : GiveMutex(t, m)
    <3>1. Quietly(k, k')
      BY <2>4, QuietLater
    <3> QED BY <2>4, <3>1, TrimsLists, PrioFollows DEF Quietly
  <2>5. CASE CallQueue(t)
    <3>1. Quietly(k, k') /\ k' = k
      BY <2>5, QuietLater, CallQueueStep
    <3> QED BY <3>1, TrimsLists, FollowsSame DEF Quietly, SamePrio
  <2>6. CASE Succeed(t)
    <3>1. Quietly(k, k')
      BY <2>6, QuietLater
    <3>2. PICK b, P : Holding(k, b, t, call[t].q \in Mutex) /\ WokeOne(b, k', call[t].q, Other(call[t].side), P)
      BY <2>6, SucceedStep
    <3>3. k'.prio = k.prio /\ k'.base = k.base /\ k'.event = k.event
      BY <3>2 DEF Holding, WokeOne, Wakes, Signals, SamePrio
    <3> QED BY <3>1, <3>3, TrimsLists DEF Quietly, Follows
  <2>7. CASE Place(t)
    BY <2>7, PlaceLists
  <2>8. CASE CallResumeAll(t)
    <3>1. PICK V, W : Resumed(k, k', V, W)
      BY <2>8, CallResumeAllStep
    <3>2. Wakes(k, k', V \cup W)
      BY <3>1 DEF Resumed
    <3> QED BY <3>2, WakesTrims, TrimsLists, FollowsSame DEF Wakes
  <2> QED BY <1>1, <2>1, <2>2, <2>3, <2>4, <2>5, <2>6, <2>7, <2>8 DEF TaskStep
<1>2. CASE \/ \E q \in Queue, s \in Side : IsrQueue(q, s)
           \/ PendSV
  <2>1. Quietly(k, k') /\ Plain
    BY <1>2, QuietInterrupts, InterruptSteps, SwitchSteps
  <2> QED BY <2>1, TrimsLists, FollowsSame DEF Quietly, Plain
<1>3. CASE TickIsr
  <2>1. CASE k.depth > 0
    <3>1. SameData(k, k')
      BY <1>3, <2>1, TickIsrStep
    <3>2. Trims(k, k') /\ SamePrio(k, k')
      BY <3>1, ThinnedSelf DEF SameData, SameWait, Trims
    <3> QED BY <3>2, TrimsLists, FollowsSame
  <2>2. CASE ~(k.depth > 0)
    <3>1. PICK W : Ticked(k, k', W)
      BY <1>3, <2>2, TickIsrStep
    <3>2. Wakes(k, k', W)
      BY <3>1 DEF Ticked
    <3> QED BY <3>2, WakesTrims, TrimsLists, FollowsSame DEF Wakes
  <2> QED BY <2>1, <2>2
<1> QED BY <1>1, <1>2, <1>3 DEF Step

-----------------------------------------------------------------------------
(* What the lists are ordered by. The value of an event list item is the      *)
(* priority of its task or the task's own, and the first but for tasks that   *)
(* moved; those that wait with such a task moved too, and the other lists are *)
(* in the order of the values.                                                *)
EventsFollow == \A t \in Task :
  /\ k.event[t] = ItemValue(k.prio[t]) \/ k.event[t] = ItemValue(k.base[t])
  /\ t \notin moved => k.event[t] = ItemValue(k.prio[t])
MovedTogether == \A q \in Queue, s \in Side : LET w == k.waiting[q][s] IN
  \A i, j \in 1 .. Len(w) : w[i] \in moved => w[j] \in moved
WaitSorted == \A q \in Queue, s \in Side : LET w == k.waiting[q][s] IN
  \A i, j \in 1 .. Len(w) : i < j /\ w[i] \notin moved => k.event[w[i]] <= k.event[w[j]]
Sorted == EventsFollow /\ MovedTogether /\ WaitSorted

(* A waiting list and its items.                                              *)
LEMMA WaitingList ==
  ASSUME NEW kk \in Kernel, NEW q \in Queue, NEW s \in Side
  PROVE  LET w == kk.waiting[q][s] IN
         /\ w \in List /\ w \in Seq(Task) /\ DOMAIN w = 1 .. Len(w) /\ Len(w) \in Nat
         /\ \A i \in 1 .. Len(w) : w[i] \in Task /\ w[i] \in ToSet(w) /\ Contains(w, w[i])
         /\ \A t : t \in ToSet(w) <=> \E i \in 1 .. Len(w) : w[i] = t
         /\ \A t : Contains(w, t) <=> t \in ToSet(w)
<1> DEFINE w == kk.waiting[q][s]
<1>1. w \in List
  BY KernelFields
<1> HIDE DEF w
<1>2. w \in Seq(Task) /\ DOMAIN w = 1 .. Len(w) /\ Len(w) \in Nat
  BY <1>1, LenProperties DEF List
<1>3. \A t : t \in ToSet(w) <=> \E i \in 1 .. Len(w) : w[i] = t
  BY <1>2 DEF ToSet
<1>4. \A t : Contains(w, t) <=> t \in ToSet(w)
  BY <1>2, ContainsIsIn
<1>5. \A i \in 1 .. Len(w) : w[i] \in Task
  BY <1>2
<1> QED BY <1>1, <1>2, <1>3, <1>4, <1>5 DEF w

(* A list moves as a whole.                                                   *)
LEMMA MovedAsOne ==
  ASSUME Good(k'), moved' = {t \in Task : Moved(t)}, NEW q \in Queue, NEW s \in Side,
         NEW i \in 1 .. Len(k'.waiting[q][s])
  PROVE  LET w == k'.waiting[q][s] IN
         w[i] \in moved' <=> \E j \in 1 .. Len(w) : Changed(w[j])
<1> DEFINE w == k'.waiting[q][s]
<1>1. k' \in Kernel
  BY DEF Good
<1>2. /\ \A j \in 1 .. Len(w) : w[j] \in Task /\ w[j] \in ToSet(w) /\ Contains(w, w[j])
      /\ \A t : t \in ToSet(w) <=> \E j \in 1 .. Len(w) : w[j] = t
      /\ \A t : Contains(w, t) <=> t \in ToSet(w)
  BY <1>1, WaitingList
<1>3. ASSUME NEW j \in 1 .. Len(w), Changed(w[j])
      PROVE  w[i] \in moved'
  <2>1. \E u \in ToSet(w) : Changed(u)
    BY <1>2, <1>3
  <2>2. Moved(w[i])
    BY <1>2, <2>1 DEF Moved
  <2> QED BY <1>2, <2>2
<1>4. ASSUME w[i] \in moved'
      PROVE  \E j \in 1 .. Len(w) : Changed(w[j])
  <2>1. Moved(w[i])
    BY <1>4
  <2>2. CASE Changed(w[i])
    BY <2>2
  <2>3. CASE ~Changed(w[i])
    <3>1. PICK r \in Queue, z \in Side :
            w[i] \in ToSet(k'.waiting[r][z]) /\ \E u \in ToSet(k'.waiting[r][z]) : Changed(u)
      BY <2>1, <2>3 DEF Moved
    <3>2. Contains(k'.waiting[r][z], w[i])
      BY <1>1, <3>1, WaitingList
    <3>3. r = q /\ z = s
      BY <1>2, <3>2 DEF Good, EventsApart
    <3> QED BY <1>2, <3>1, <3>3
  <2> QED BY <2>2, <2>3
<1> QED BY <1>3, <1>4

(* The values follow the priorities.                                          *)
LEMMA EventsKept ==
  ASSUME Core, Good(k'), EventsFollow, LiftNeedsMutex', Follows(k, k'),
         moved' = {t \in Task : Moved(t)}
  PROVE  EventsFollow'
<1>1. ASSUME NEW t \in Task
      PROVE  k'.event[t] = ItemValue(k'.prio[t]) \/ k'.event[t] = ItemValue(k'.base[t])
  BY DEF EventsFollow, Follows
<1>2. ASSUME NEW t \in Task, t \notin moved'
      PROVE  k'.event[t] = ItemValue(k'.prio[t])
  <2>1. ~Moved(t)
    BY <1>2
  <2>2. CASE Changed(t)
    <3>1. ~(k'.held[t] > 0)
      BY <2>1, <2>2 DEF Moved
    <3>2. k'.prio[t] \in Int /\ k'.base[t] \in Int
      BY PrioInt DEF Good
    <3>3. k'.prio[t] = k'.base[t]
      BY <3>1, <3>2 DEF LiftNeedsMutex
    <3> QED BY <1>1, <3>3
  <2>3. CASE ~Changed(t)
    <3>1. t \notin moved /\ k'.base[t] = k.base[t]
      BY <2>3 DEF Changed
    <3> QED BY <3>1 DEF EventsFollow, Follows
  <2> QED BY <2>2, <2>3
<1> QED BY <1>1, <1>2 DEF EventsFollow

(* Who waited and has not changed keeps its value.                            *)
LEMMA ValueStays ==
  ASSUME EventsFollow, Follows(k, k'), NEW t \in Task, ~Changed(t), Waits(k, t)
  PROVE  k'.event[t] = k.event[t] /\ t \notin moved
BY DEF EventsFollow, Follows, Changed

(* The event lists stay sorted by priority, but for tasks whose priority    *)
(* has changed since.                                                       *)
LEMMA WaitSortedKept ==
  ASSUME Core, Good(k'), Sorted, Follows(k, k'), Lists(k, k'), moved' = {t \in Task : Moved(t)}
  PROVE  WaitSorted'
<1> SUFFICES ASSUME NEW q \in Queue, NEW s \in Side,
                    NEW i \in 1 .. Len(k'.waiting[q][s]), NEW j \in 1 .. Len(k'.waiting[q][s]),
                    i < j, k'.waiting[q][s][i] \notin moved'
             PROVE  k'.event[k'.waiting[q][s][i]] <= k'.event[k'.waiting[q][s][j]]
  BY DEF WaitSorted
<1> DEFINE v == k.waiting[q][s]
           w == k'.waiting[q][s]
<1>1. k \in Kernel /\ k' \in Kernel
  BY DEF Core, Good
<1>2. /\ w \in List /\ \A x \in 1 .. Len(w) : w[x] \in Task
      /\ v \in List /\ \A x \in 1 .. Len(v) : v[x] \in Task /\ Contains(v, v[x])
      /\ DOMAIN v = 1 .. Len(v) /\ DOMAIN w = 1 .. Len(w)
      /\ \A t : Contains(w, t) => \E x \in 1 .. Len(w) : w[x] = t
  <2>1. v \in List /\ w \in List
    BY <1>1, KernelFields
  <2>2. v \in Seq(Task) /\ w \in Seq(Task)
    BY <2>1 DEF List
  <2> HIDE DEF v, w
  <2>3. DOMAIN v = 1 .. Len(v) /\ DOMAIN w = 1 .. Len(w)
    BY <2>2, LenProperties
  <2>4. \A x \in 1 .. Len(v) : v[x] \in Task /\ Contains(v, v[x])
    BY <2>2, ListElements
  <2>5. \A x \in 1 .. Len(w) : w[x] \in Task
    BY <2>2, ListElements
  <2>6. \A t : Contains(w, t) => t \in ToSet(w)
    BY <2>2, ContainsIsIn
  <2>7. \A t : Contains(w, t) => \E x \in 1 .. Len(w) : w[x] = t
    BY <2>3, <2>6 DEF ToSet
  <2> QED BY <2>1, <2>3, <2>4, <2>5, <2>7
<1>3. \A x \in 1 .. Len(w) : ~Changed(w[x])
  BY MovedAsOne
<1>4. \A t : Contains(v, t) => Waits(k, t)
  BY DEF Waits
<1>5. ASSUME NEW a \in 1 .. Len(v), NEW b \in 1 .. Len(v), a < b,
             Contains(w, v[a]), Contains(w, v[b])
      PROVE  k'.event[v[a]] <= k'.event[v[b]]
  <2>1. ~Changed(v[a]) /\ ~Changed(v[b])
    BY <1>2, <1>3, <1>5
  <2>2. /\ k'.event[v[a]] = k.event[v[a]] /\ v[a] \notin moved
        /\ k'.event[v[b]] = k.event[v[b]]
    BY <1>2, <1>4, <2>1, ValueStays DEF Sorted
  <2> QED BY <1>5, <2>2 DEF Sorted, WaitSorted
<1>6. CASE Thinned(w, v)
  <2>1. PICK a, b \in 1 .. Len(v) : a < b /\ v[a] = w[i] /\ v[b] = w[j]
    BY <1>6 DEF Thinned
  <2>2. Contains(w, w[i]) /\ Contains(w, w[j])
    BY <1>1, WaitingList
  <2> QED BY <1>5, <2>1, <2>2
<1>7. CASE ~Contains(v, k.current) /\ w = InsertSorted(v, k.current, k'.event)
  <2>1. k'.event \in [Task -> Int] /\ k.current \in Task
    <3>1. k'.event \in [Task -> 1 .. MaxPriorities]
      BY <1>1, KernelFields
    <3> QED BY <3>1, CoreTypes
  <2> HIDE DEF v, w
  <2>2. /\ \A y : Contains(w, y) <=> Contains(v, y) \/ y = k.current
        /\ Ordered(v, k'.event) => Ordered(w, k'.event)
    BY <1>2, <1>7, <2>1, InsertSortedList
  <2>3. Ordered(v, k'.event)
    BY <1>2, <1>5, <2>2 DEF Ordered
  <2> QED BY <1>2, <2>2, <2>3 DEF Ordered, w
<1> QED BY <1>6, <1>7 DEF Lists

-----------------------------------------------------------------------------
(* The order of the event lists holds from the start, and every step keeps it. *)
LEMMA InitSorted ==
  ASSUME Init
  PROVE  Sorted
<1>1. Fresh(k)
  BY StartedDoes DEF Init
<1>2. EventsFollow
  BY <1>1 DEF Fresh, EventsFollow
<1>3. \A q \in Queue, s \in Side : Len(k.waiting[q][s]) = 0
  BY <1>1 DEF Fresh
<1>4. MovedTogether /\ WaitSorted
  BY <1>3 DEF MovedTogether, WaitSorted
<1> QED BY <1>2, <1>4 DEF Sorted

(* Every step keeps the order of the event lists.                           *)
LEMMA SortedKept ==
  ASSUME Core, Core', HoldsAndRuns', Sorted, [Next]_vars
  PROVE  Sorted'
<1>1. CASE UNCHANGED vars
  <2>1. k' = k /\ moved' = moved
    BY <1>1 DEF vars
  <2> QED BY <2>1 DEF Sorted, EventsFollow, MovedTogether, WaitSorted
<1>2. CASE Next
  <2>1. Step /\ moved' = {t \in Task : Moved(t)}
    BY <1>2 DEF Next, Histories
  <2>2. Lists(k, k') /\ Follows(k, k')
    BY <2>1, StepFollows
  <2>3. Good(k') /\ LiftNeedsMutex'
    BY DEF Core, HoldsAndRuns, HoldInv
  <2>4. EventsFollow'
    BY <2>1, <2>2, <2>3, EventsKept DEF Sorted
  <2>5. WaitSorted'
    BY <2>1, <2>2, <2>3, WaitSortedKept
  <2>6. MovedTogether'
    <3> SUFFICES ASSUME NEW q \in Queue, NEW s \in Side,
                        NEW i \in 1 .. Len(k'.waiting[q][s]),
                        NEW j \in 1 .. Len(k'.waiting[q][s]),
                        k'.waiting[q][s][i] \in moved'
                 PROVE  k'.waiting[q][s][j] \in moved'
      BY DEF MovedTogether
    <3>1. \E x \in 1 .. Len(k'.waiting[q][s]) : Changed(k'.waiting[q][s][x])
      BY <2>1, <2>3, MovedAsOne
    <3> QED BY <2>1, <2>3, <3>1, MovedAsOne
  <2> QED BY <2>4, <2>5, <2>6 DEF Sorted
<1> QED BY <1>1, <1>2

(* THEOREM SortedInvariant: the invariant behind ListsAreSound, on the      *)
(* order of the event lists.                                                *)
THEOREM SortedInvariant == Spec => [](Core /\ HoldsAndRuns /\ Sorted)
<1>1. Init => Core /\ HoldsAndRuns /\ Sorted
  BY InitCore, InitHolds, InitSorted
<1>2. (Core /\ HoldsAndRuns /\ Sorted) /\ [Next]_vars => (Core /\ HoldsAndRuns /\ Sorted)'
  BY CoreKept, HoldsKept, SortedKept
<1> QED BY <1>1, <1>2, PTL DEF Spec

(* Two lists that have nothing in common, one after the other.                *)
LEMMA ConcatList ==
  ASSUME NEW r \in List, NEW s \in List, \A t \in Task : ~(Contains(r, t) /\ Contains(s, t))
  PROVE  Injective(r \o s) /\ \A t : t \in ToSet(r \o s) <=> Contains(r, t) \/ Contains(s, t)
<1>1. r \in Seq(Task) /\ s \in Seq(Task) /\ Injective(r) /\ Injective(s)
  BY DEF List
<1>2. /\ Len(r) \in Nat /\ Len(s) \in Nat /\ DOMAIN r = 1 .. Len(r) /\ DOMAIN s = 1 .. Len(s)
  BY <1>1, LenProperties
<1>3. /\ r \o s \in Seq(Task) /\ Len(r \o s) = Len(r) + Len(s)
      /\ \A i \in 1 .. Len(r) + Len(s) :
           (r \o s)[i] = IF i <= Len(r) THEN r[i] ELSE s[i - Len(r)]
  BY <1>1, ConcatProperties
<1>4. DOMAIN (r \o s) = 1 .. Len(r) + Len(s)
  BY <1>3, LenProperties
<1>5. /\ \A i \in 1 .. Len(r) : Contains(r, r[i]) /\ r[i] \in Task
      /\ \A i \in 1 .. Len(s) : Contains(s, s[i]) /\ s[i] \in Task
  BY <1>1, ListElements
<1>6. ASSUME NEW i \in 1 .. Len(r) + Len(s), NEW j \in 1 .. Len(r) + Len(s),
             (r \o s)[i] = (r \o s)[j]
      PROVE  i = j
  <2>1. CASE i <= Len(r) /\ j <= Len(r)
    <3>1. i \in DOMAIN r /\ j \in DOMAIN r /\ r[i] = r[j]
      BY <1>2, <1>3, <1>6, <2>1
    <3> QED BY <1>1, <3>1 DEF Injective
  <2>2. CASE i > Len(r) /\ j > Len(r)
    <3>1. i - Len(r) \in DOMAIN s /\ j - Len(r) \in DOMAIN s /\ s[i - Len(r)] = s[j - Len(r)]
      BY <1>2, <1>3, <1>6, <2>2
    <3>2. i - Len(r) = j - Len(r)
      BY <1>1, <3>1 DEF Injective
    <3> QED BY <1>2, <3>2
  <2>3. CASE i <= Len(r) /\ j > Len(r)
    <3>1. i \in 1 .. Len(r) /\ j - Len(r) \in 1 .. Len(s) /\ r[i] = s[j - Len(r)]
      BY <1>2, <1>3, <1>6, <2>3
    <3> QED BY <1>5, <3>1
  <2>4. CASE i > Len(r) /\ j <= Len(r)
    <3>1. j \in 1 .. Len(r) /\ i - Len(r) \in 1 .. Len(s) /\ r[j] = s[i - Len(r)]
      BY <1>2, <1>3, <1>6, <2>4
    <3> QED BY <1>5, <3>1
  <2> QED BY <1>2, <2>1, <2>2, <2>3, <2>4
<1>7. Injective(r \o s)
  BY <1>4, <1>6 DEF Injective
<1>8. /\ \A t : Contains(r, t) <=> \E i \in 1 .. Len(r) : r[i] = t
      /\ \A t : Contains(s, t) <=> \E i \in 1 .. Len(s) : s[i] = t
  <2>1. \A t : Contains(r, t) <=> t \in ToSet(r)
    BY <1>1, ContainsIsIn
  <2>2. \A t : Contains(s, t) <=> t \in ToSet(s)
    BY <1>1, ContainsIsIn
  <2> QED BY <1>2, <2>1, <2>2 DEF ToSet
<1>9. ASSUME NEW t
      PROVE  t \in ToSet(r \o s) <=> Contains(r, t) \/ Contains(s, t)
  <2>1. t \in ToSet(r \o s) <=> \E i \in 1 .. Len(r) + Len(s) : (r \o s)[i] = t
    BY <1>4 DEF ToSet
  <2>2. ASSUME NEW i \in 1 .. Len(r) + Len(s), (r \o s)[i] = t
        PROVE  Contains(r, t) \/ Contains(s, t)
    <3>1. CASE i <= Len(r)
      BY <1>2, <1>3, <1>5, <2>2, <3>1
    <3>2. CASE i > Len(r)
      <4>1. i - Len(r) \in 1 .. Len(s) /\ s[i - Len(r)] = t
        BY <1>2, <1>3, <2>2, <3>2
      <4> QED BY <1>5, <4>1
    <3> QED BY <1>2, <3>1, <3>2
  <2>3. ASSUME Contains(r, t)
        PROVE  \E i \in 1 .. Len(r) + Len(s) : (r \o s)[i] = t
    <3>1. PICK i \in 1 .. Len(r) : r[i] = t
      BY <1>8, <2>3
    <3>2. i \in 1 .. Len(r) + Len(s) /\ (r \o s)[i] = t
      BY <1>2, <1>3, <3>1
    <3> QED BY <3>2
  <2>4. ASSUME Contains(s, t)
        PROVE  \E i \in 1 .. Len(r) + Len(s) : (r \o s)[i] = t
    <3>1. PICK i \in 1 .. Len(s) : s[i] = t
      BY <1>8, <2>4
    <3>2. /\ Len(r) + i \in 1 .. Len(r) + Len(s) /\ ~(Len(r) + i <= Len(r))
          /\ Len(r) + i - Len(r) = i
      BY <1>2
    <3>3. (r \o s)[Len(r) + i] = t
      BY <1>3, <3>1, <3>2
    <3> QED BY <3>2, <3>3
  <2> QED BY <2>1, <2>2, <2>3, <2>4
<1> QED BY <1>7, <1>9

(* What the parts of the invariant say, in the words of the property.         *)
LEMMA StateListsAgree ==
  ASSUME Good(k)
  PROVE  InOneStateList
<1>1. k \in Kernel /\ Placed(k)
  BY DEF Good
<1>2. \A p \in Level : Injective(k.ready[p].items)
  BY <1>1, KernelFields DEF Ring
<1>3. k.delayed \in List /\ k.overflow \in List
  BY <1>1, KernelFields
<1>4. Injective(k.delayed \o k.overflow)
  BY <1>1, <1>3, ConcatList DEF Placed
<1>5. \A t : t \in InDelay(k) <=> Delayed(k, t)
  <2>1. k.delayed \in Seq(Task) /\ k.overflow \in Seq(Task)
    BY <1>3 DEF List
  <2>2. \A t : Contains(k.delayed, t) <=> t \in ToSet(k.delayed)
    BY <2>1, ContainsIsIn
  <2>3. \A t : Contains(k.overflow, t) <=> t \in ToSet(k.overflow)
    BY <2>1, ContainsIsIn
  <2> QED BY <2>2, <2>3 DEF InDelay, Delayed
<1>6. ASSUME NEW t \in Task
      PROVE  LET homes == {p \in Level : IsReady(k, t, p)}
             IN \/ homes = {k.prio[t]} /\ t \notin InDelay(k) \cup k.suspended
                \/ homes = {} /\ (t \in InDelay(k)) # (t \in k.suspended)
  <2>1. k.prio[t] \in Level
    BY <1>1, KernelFields
  <2>2. CASE Rdy(k, t)
    <3>1. {p \in Level : IsReady(k, t, p)} = {k.prio[t]}
      BY <1>1, <2>1, <2>2 DEF Placed, Rdy
    <3>2. t \notin InDelay(k) \cup k.suspended
      BY <1>1, <1>5, <2>2 DEF Placed
    <3> QED BY <3>1, <3>2
  <2>3. CASE ~Rdy(k, t)
    <3>1. {p \in Level : IsReady(k, t, p)} = {}
      BY <1>1, <2>3 DEF Placed, Rdy
    <3>2. (t \in InDelay(k)) # (t \in k.suspended)
      BY <1>1, <1>5, <2>3, Zenon DEF Placed
    <3> QED BY <3>1, <3>2
  <2> QED BY <2>2, <2>3
<1> QED BY <1>2, <1>4, <1>6 DEF InOneStateList

(* A good kernel has each task in at most one event list.                   *)
LEMMA EventListsAgree ==
  ASSUME Good(k)
  PROVE  InOneEventList
<1> SUFFICES ASSUME NEW q \in Queue, NEW r \in Queue, NEW s \in Side, NEW z \in Side
             PROVE  LET here == k.waiting[q][s] \o k.pendingReady
                    IN /\ Injective(here)
                       /\ <<q, s>> # <<r, z>> => ToSet(here) \cap ToSet(k.waiting[r][z]) = {}
  BY DEF InOneEventList
<1>1. /\ k.waiting[q][s] \in List /\ k.pendingReady \in List /\ k.waiting[r][z] \in List
  BY KernelFields DEF Good
<1>2. \A t \in Task : ~(Contains(k.waiting[q][s], t) /\ Contains(k.pendingReady, t))
  BY DEF Good, EventsApart
<1>3. /\ Injective(k.waiting[q][s] \o k.pendingReady)
      /\ \A t : t \in ToSet(k.waiting[q][s] \o k.pendingReady)
           <=> Contains(k.waiting[q][s], t) \/ Contains(k.pendingReady, t)
  BY <1>1, <1>2, ConcatList
<1>4. k.waiting[r][z] \in Seq(Task)
  BY <1>1 DEF List
<1>5. \A t : Contains(k.waiting[r][z], t) <=> t \in ToSet(k.waiting[r][z])
  BY <1>4, ContainsIsIn
<1>6. \A t : Contains(k.waiting[r][z], t) => t \in Task
  BY <1>4, ListElements
<1>7. ASSUME <<q, s>> # <<r, z>>, NEW t, t \in ToSet(k.waiting[q][s] \o k.pendingReady),
             t \in ToSet(k.waiting[r][z])
      PROVE  FALSE
  <2>1. Contains(k.waiting[r][z], t) /\ t \in Task
    BY <1>5, <1>6, <1>7
  <2>2. Contains(k.waiting[q][s], t) \/ Contains(k.pendingReady, t)
    BY <1>3, <1>7
  <2> QED BY <1>7, <2>1, <2>2 DEF Good, EventsApart
<1> QED BY <1>3, <1>7

(* Sorted lists have the best waiter first.                                 *)
LEMMA WaitersInOrder ==
  ASSUME Good(k), Sorted
  PROVE  BestWaiterFirst
<1> SUFFICES ASSUME NEW q \in Queue, NEW s \in Side, NEW i \in DOMAIN k.waiting[q][s],
                    NEW j \in DOMAIN k.waiting[q][s], i < j,
                    {k.waiting[q][s][i], k.waiting[q][s][j]} \cap moved = {}
             PROVE  k.prio[k.waiting[q][s][i]] >= k.prio[k.waiting[q][s][j]]
  BY DEF BestWaiterFirst
<1> DEFINE w == k.waiting[q][s]
<1>1. k \in Kernel
  BY DEF Good
<1>2. DOMAIN w = 1 .. Len(w) /\ \A x \in 1 .. Len(w) : w[x] \in Task
  BY <1>1, WaitingList
<1>3. k.event[w[i]] = ItemValue(k.prio[w[i]]) /\ k.event[w[j]] = ItemValue(k.prio[w[j]])
  BY <1>2 DEF Sorted, EventsFollow
<1>4. k.event[w[i]] <= k.event[w[j]]
  BY <1>2 DEF Sorted, WaitSorted
<1>5. k.prio[w[i]] \in Int /\ k.prio[w[j]] \in Int
  BY <1>1, <1>2, PrioInt
<1> QED BY <1>3, <1>4, <1>5, Constants DEF ItemValue

(* Whatever tasks and interrupts do, a task is in exactly one state list and  *)
(* at most one event list, the bitmap of vTaskSwitchContext is that of the    *)
(* lists that are not empty, and the head of an event list, which             *)
(* xTaskRemoveFromEventList takes, is the best waiter of those whose priority *)
(* was not set while they waited.                                             *)
THEOREM ListsAreSound == Spec => []ListsAgree
<1>1. Core /\ HoldsAndRuns /\ Sorted => ListsAgree
  <2> SUFFICES ASSUME Core, Sorted PROVE ListsAgree
    OBVIOUS
  <2>1. Good(k) /\ TopAgrees(k)
    BY DEF Core, Good
  <2> QED BY <2>1, StateListsAgree, EventListsAgree, WaitersInOrder DEF ListsAgree, TopAgrees
<1> QED BY <1>1, SortedInvariant, PTL

-----------------------------------------------------------------------------
(* Most steps leave the time alone; a task starts to sleep in two of them and *)
(* time passes in two more.                                                   *)
LEMMA StepTime ==
  ASSUME Core, Step
  PROVE  \/ Quietly(k, k')
         \/ \E t \in Task : DelayAdd(t) \/ Place(t) \/ CallResumeAll(t)
         \/ TickIsr
<1>1. ASSUME NEW t \in Task, TaskStep(t)
      PROVE  Quietly(k, k') \/ DelayAdd(t) \/ Place(t) \/ CallResumeAll(t)
  BY <1>1, QuietFirst, QuietLater DEF TaskStep
<1>2. ASSUME (\E q \in Queue, s \in Side : IsrQueue(q, s)) \/ PendSV
      PROVE  Quietly(k, k')
  BY <1>2, QuietInterrupts
<1> QED BY <1>1, <1>2 DEF Step

(* The delayed tasks, as sets and as lists.                                 *)
LEMMA DelayedIs ==
  ASSUME NEW kk \in Kernel
  PROVE  /\ \A t : t \in InDelay(kk) <=> Delayed(kk, t)
         /\ \A t : Delayed(kk, t) => t \in Task
         /\ \A t : t \in ToSet(kk.delayed) <=> Contains(kk.delayed, t)
         /\ \A t : t \in ToSet(kk.overflow) <=> Contains(kk.overflow, t)
<1>1. kk.delayed \in Seq(Task) /\ kk.overflow \in Seq(Task)
  BY KernelFields DEF List
<1>2. /\ \A t : Contains(kk.delayed, t) <=> t \in ToSet(kk.delayed)
      /\ \A t : Contains(kk.delayed, t) => t \in Task
  BY <1>1, ContainsIsIn, ListElements
<1>3. /\ \A t : Contains(kk.overflow, t) <=> t \in ToSet(kk.overflow)
      /\ \A t : Contains(kk.overflow, t) => t \in Task
  BY <1>1, ContainsIsIn, ListElements
<1> QED BY <1>2, <1>3 DEF InDelay, Delayed

(* Ticks: two of them that lie less than a wrap apart.                        *)
LEMMA TickApart ==
  ASSUME NEW x \in Tick, NEW i \in Nat, NEW j \in Nat, i < TickMod, j < TickMod
  PROVE  /\ (x + i) % TickMod \in Tick
         /\ (x + i) % TickMod = IF x + i >= TickMod THEN x + i - TickMod ELSE x + i
         /\ (x + i) % TickMod = (x + j) % TickMod => i = j
         /\ (((x + i) % TickMod) - x) % TickMod = i
         /\ (((x + i) % TickMod) + 0 - x - i) % TickMod = 0
         /\ i <= j => (((x + i) % TickMod) + (j - i)) % TickMod = (x + j) % TickMod
<1>0. /\ TickMod \in Nat /\ TickMod > 1 /\ x \in 0 .. TickMod - 1
      /\ i \in Nat /\ i < TickMod /\ j \in Nat /\ j < TickMod /\ Tick = 0 .. TickMod - 1
  BY Constants
<1>1. \A y \in 0 .. TickMod - 1 : /\ y % TickMod = y /\ (y + TickMod) % TickMod = y
                                 /\ (y - TickMod) % TickMod = y
  BY <1>0
<1>3. (x + i) % TickMod = IF x + i >= TickMod THEN x + i - TickMod ELSE x + i
  <2>1. CASE x + i >= TickMod
    <3>1. x + i - TickMod \in 0 .. TickMod - 1 /\ x + i = (x + i - TickMod) + TickMod
      BY <1>0, <2>1
    <3>2. (x + i) % TickMod = x + i - TickMod
      BY <1>1, <3>1
    <3> QED BY <2>1, <3>2
  <2>2. CASE x + i < TickMod
    <3>1. x + i \in 0 .. TickMod - 1 /\ ~(x + i >= TickMod)
      BY <1>0, <2>2
    <3>2. (x + i) % TickMod = x + i
      BY <1>1, <3>1
    <3> QED BY <3>1, <3>2
  <2> QED BY <1>0, <2>1, <2>2
<1>4. (x + j) % TickMod = IF x + j >= TickMod THEN x + j - TickMod ELSE x + j
  <2>1. CASE x + j >= TickMod
    <3>1. x + j - TickMod \in 0 .. TickMod - 1 /\ x + j = (x + j - TickMod) + TickMod
      BY <1>0, <2>1
    <3>2. (x + j) % TickMod = x + j - TickMod
      BY <1>1, <3>1
    <3> QED BY <2>1, <3>2
  <2>2. CASE x + j < TickMod
    <3>1. x + j \in 0 .. TickMod - 1 /\ ~(x + j >= TickMod)
      BY <1>0, <2>2
    <3>2. (x + j) % TickMod = x + j
      BY <1>1, <3>1
    <3> QED BY <3>1, <3>2
  <2> QED BY <1>0, <2>1, <2>2
<1>5. (x + i) % TickMod \in Tick /\ ((x + i) % TickMod = (x + j) % TickMod => i = j)
  BY <1>0, <1>3, <1>4
<1>6. (((x + i) % TickMod) - x) % TickMod = i
  <2>1. ((x + i) % TickMod) - x = i \/ ((x + i) % TickMod) - x = i - TickMod
    BY <1>0, <1>3
  <2> QED BY <1>0, <1>1, <2>1
<1>7. (((x + i) % TickMod) + 0 - x - i) % TickMod = 0
  <2>1. \/ ((x + i) % TickMod) + 0 - x - i = 0
        \/ ((x + i) % TickMod) + 0 - x - i = 0 - TickMod
    BY <1>0, <1>3
  <2>2. 0 \in 0 .. TickMod - 1
    BY <1>0
  <2> QED BY <1>1, <2>1, <2>2
<1>8. ASSUME i <= j
      PROVE  (((x + i) % TickMod) + (j - i)) % TickMod = (x + j) % TickMod
  <2>1. CASE x + i >= TickMod
    <3>1. ((x + i) % TickMod) + (j - i) = x + j - TickMod /\ x + j >= TickMod
          /\ x + j - TickMod \in 0 .. TickMod - 1
      BY <1>0, <1>3, <1>8, <2>1
    <3> QED BY <1>1, <1>4, <3>1
  <2>2. CASE ~(x + i >= TickMod)
    BY <1>0, <1>3, <2>2
  <2> QED BY <2>1, <2>2
<1> QED BY <1>3, <1>5, <1>6, <1>7, <1>8

-----------------------------------------------------------------------------
(* What left says of a task in the delayed lists, with the ticks that are put *)
(* by still to come for it.                                                   *)
Sleeps(kk, d, t) == d \in 1 .. MaxDelay /\ kk.wake[t] = (kk.tick + d) % TickMod
Slept == \A t \in Task :
  left[t] \in Int /\ (Delayed(k, t) => Sleeps(k, left[t] + k.pended, t))
Delays == Timely(k) /\ Slept

(* Nothing is delayed at the start.                                         *)
LEMMA InitDelays ==
  ASSUME Init
  PROVE  Delays
<1>1. Fresh(k) /\ left = [t \in Task |-> 0]
  BY StartedDoes DEF Init
<1>2. \A t : ~Contains(k.delayed, t) /\ ~Contains(k.overflow, t)
  BY <1>1, NothingIn DEF Fresh
<1>3. Ordered(k.delayed, k.wake) /\ Ordered(k.overflow, k.wake)
  BY <1>1 DEF Fresh, Ordered
<1>4. Timely(k)
  BY <1>2, <1>3 DEF Timely, InOrder, Ahead, InTime
<1>5. Slept
  BY <1>1, <1>2 DEF Slept, Delayed
<1> QED BY <1>4, <1>5 DEF Delays

(* The ticks a step counts or puts by, and the ticks it counts.               *)
LEMMA NoTicks ==
  ASSUME Core, k'.tick = k.tick, k'.pended = k.pended
  PROVE  Ticks = 0 /\ Counted = 0
<1>1. k.tick \in Int /\ k.pended \in Int /\ TickMod \in Nat /\ TickMod > 1
  BY CoreTypes, Constants DEF Tick
<1>2. k'.tick + k'.pended - k.tick - k.pended = 0 /\ k'.tick - k.tick = 0
  BY <1>1
<1>3. 0 % TickMod = 0
  BY <1>1
<1> QED BY <1>2, <1>3 DEF Ticks, Counted

(* The history of a step by which nobody starts to sleep.                     *)
LEMMA LeftIs ==
  ASSUME Core, Core', Slept, left' = [t \in Task |-> Left(t)], Ticks \in Int,
         call[k.current].ticks \in Int
  PROVE  \A t \in Task :
           /\ Delayed(k', t) /\ Delayed(k, t) => left'[t] = left[t] - Ticks
           /\ Delayed(k', t) /\ ~Delayed(k, t) => left'[t] = call[t].ticks - k.pended
           /\ (Delayed(k', t) => Delayed(k, t) \/ t = k.current) => left'[t] \in Int
<1>1. k \in Kernel /\ k' \in Kernel /\ k.pended \in Int
  BY CoreTypes DEF Core, Good
<1>2. \A t : (t \in InDelay(k) <=> Delayed(k, t)) /\ (t \in InDelay(k') <=> Delayed(k', t))
  BY <1>1, DelayedIs
<1> SUFFICES ASSUME NEW t \in Task
             PROVE  /\ Delayed(k', t) /\ Delayed(k, t) => left'[t] = left[t] - Ticks
                    /\ Delayed(k', t) /\ ~Delayed(k, t) => left'[t] = call[t].ticks - k.pended
                    /\ (Delayed(k', t) => Delayed(k, t) \/ t = k.current) => left'[t] \in Int
  OBVIOUS
<1>3. left'[t] = Left(t)
  OBVIOUS
<1>4. left[t] \in Int
  BY DEF Slept
<1>5. CASE ~Delayed(k', t)
  <2>1. left'[t] = 0
    BY <1>2, <1>3, <1>5 DEF Left
  <2> QED BY <1>5, <2>1
<1>6. CASE Delayed(k', t) /\ Delayed(k, t)
  <2>0. left[t] + k.pended > 0
    BY <1>6 DEF Slept, Sleeps
  <2>1. left'[t] = left[t] - Ticks
    BY <1>2, <1>3, <1>6, <2>0 DEF Left
  <2>2. left[t] - Ticks \in Int
    BY <1>4
  <2> QED BY <1>6, <2>1, <2>2
<1>7. CASE Delayed(k', t) /\ ~Delayed(k, t)
  <2>1. left'[t] = call[t].ticks - k.pended
    BY <1>2, <1>3, <1>7 DEF Left
  <2>2. t = k.current => call[t].ticks - k.pended \in Int
    BY <1>1
  <2> QED BY <1>7, <2>1, <2>2
<1> QED BY <1>5, <1>6, <1>7

(* A step after which some sleep on, and nobody else sleeps.                  *)
LEMMA SleepsOn ==
  ASSUME Core, Core', Slept, left' = [t \in Task |-> Left(t)],
         k'.tick = k.tick, k'.pended = k.pended,
         \A t \in Task : Delayed(k', t) => Delayed(k, t) /\ k'.wake[t] = k.wake[t]
  PROVE  Slept'
<1>1. Ticks = 0
  BY NoTicks
<1>2. call[k.current].ticks \in Int
  <2>1. call[k.current] \in CallType
    BY CoreTypes
  <2>2. call[k.current].ticks \in 0 .. MaxDelay
    BY <2>1, CallFields
  <2> QED BY <2>2
<1> SUFFICES ASSUME NEW t \in Task
             PROVE  left'[t] \in Int /\ (Delayed(k', t) => Sleeps(k', left'[t] + k'.pended, t))
  BY DEF Slept
<1>3. left'[t] \in Int /\ (Delayed(k', t) => left'[t] = left[t] - 0)
  BY <1>1, <1>2, LeftIs
<1>4. left[t] \in Int /\ (Delayed(k, t) => Sleeps(k, left[t] + k.pended, t))
  BY DEF Slept
<1>5. Delayed(k', t) => left'[t] = left[t]
  BY <1>3, <1>4
<1> QED BY <1>3, <1>4, <1>5 DEF Sleeps

(* The running task goes to sleep.                                            *)
LEMMA SleepStarts ==
  ASSUME Core, Core', Slept, left' = [t \in Task |-> Left(t)], NEW b,
         b.tick = k.tick, b.pended = k.pended, b.current = k.current, b.wake = k.wake,
         \A t \in Task : Delayed(b, t) <=> Delayed(k, t), Rdy(k, k.current),
         NEW for \in BOOLEAN, call[k.current].ticks \in 1 .. MaxDelay,
         Blocks(b, k', call[k.current].ticks, for)
  PROVE  Slept'
<1> DEFINE n == call[k.current].ticks
<1>1. k'.tick = k.tick /\ k'.pended = k.pended /\ k.pended \in Int /\ n \in Int
  BY CoreTypes, Constants DEF Blocks, SameClock
<1>2. Ticks = 0
  BY <1>1, NoTicks
<1>3. /\ k.current \in Task /\ ~Delayed(k, k.current)
      /\ \A t \in Task : Delayed(k', t) => Delayed(k, t) \/ t = k.current
      /\ \A t \in Task : t # k.current => k'.wake[t] = k.wake[t]
      /\ Delayed(k', k.current) => k'.wake[k.current] = (k.tick + n) % TickMod
  <2>1. k.current \in Task /\ ~Delayed(k, k.current)
    BY CoreTypes DEF Core, Good, Placed
  <2> QED BY <2>1 DEF Blocks
<1> SUFFICES ASSUME NEW t \in Task
             PROVE  left'[t] \in Int /\ (Delayed(k', t) => Sleeps(k', left'[t] + k'.pended, t))
  BY DEF Slept
<1> HIDE DEF n
<1>4. /\ left'[t] \in Int /\ (Delayed(k', t) /\ Delayed(k, t) => left'[t] = left[t] - 0)
      /\ (Delayed(k', t) /\ ~Delayed(k, t) => left'[t] = call[t].ticks - k.pended)
  BY <1>1, <1>2, <1>3, LeftIs DEF n
<1>5. left[t] \in Int /\ (Delayed(k, t) => Sleeps(k, left[t] + k.pended, t))
  BY DEF Slept
<1>6. CASE t = k.current
  <2>1. Delayed(k', t) => left'[t] = n - k.pended
    BY <1>3, <1>4, <1>6 DEF n
  <2>2. Delayed(k', t) => left'[t] + k'.pended = n
    BY <1>1, <2>1
  <2>3. n \in 1 .. MaxDelay
    BY DEF n
  <2> QED BY <1>1, <1>3, <1>4, <1>6, <2>2, <2>3 DEF Sleeps
<1>7. CASE t # k.current
  <2>1. Delayed(k', t) => Delayed(k, t) /\ left'[t] = left[t] /\ k'.wake[t] = k.wake[t]
    BY <1>3, <1>4, <1>5, <1>7
  <2> QED BY <1>1, <1>4, <1>5, <2>1 DEF Sleeps
<1> QED BY <1>6, <1>7

-----------------------------------------------------------------------------
(* What the types of the clock come to.                                       *)
LEMMA ClockTypes ==
  ASSUME Core
  PROVE  /\ k.tick \in Tick /\ k.tick \in Nat /\ k.tick < TickMod
         /\ k.pended \in Nat /\ k.pended < TickMod
         /\ TickMod \in Nat /\ TickMod > 1 /\ MaxDelay = TickMod - 1 /\ 0 \in Nat /\ 1 \in Nat
         /\ \A t \in Task : call[t].ticks \in Int /\ call[t].ticks \in 0 .. MaxDelay
<1>1. /\ k.tick \in Tick /\ k.pended \in Nat /\ k.pended < TickMod
      /\ \A t \in Task : call[t] \in CallType
  BY CoreTypes
<1>2. \A t \in Task : call[t].ticks \in 0 .. MaxDelay
  BY <1>1, CallFields
<1>3. \A t \in Task : call[t].ticks \in Int
  BY <1>2
<1> QED BY <1>1, <1>2, <1>3, Constants

(* A task of W wakes after as many ticks as it had left.                      *)
LEMMA WakesAt ==
  ASSUME Core, Slept, NEW t \in Task, Delayed(k, t), NEW i \in Nat, i < TickMod,
         k.wake[t] = (k.tick + i) % TickMod
  PROVE  left[t] + k.pended = i /\ left[t] + k.pended \in 1 .. MaxDelay
<1> DEFINE d == left[t] + k.pended
<1>1. d \in 1 .. MaxDelay /\ k.wake[t] = (k.tick + d) % TickMod
  BY DEF Slept, Sleeps
<1> HIDE DEF d
<1>2. d \in Nat /\ d < TickMod /\ k.tick \in Tick
  BY <1>1, ClockTypes
<1>3. d = i
  BY <1>1, <1>2, TickApart
<1> QED BY <1>1, <1>3 DEF d

(* The ticks that were put by pass.                                           *)
LEMMA ResumeSlept ==
  ASSUME Core, Core', Delays, left' = [t \in Task |-> Left(t)], NEW V, NEW W, Resumed(k, k', V, W)
  PROVE  Slept'
<1>1. /\ k'.tick = (k.tick + k.pended) % TickMod /\ k'.pended = 0
      /\ \A t \in Task : Delayed(k', t) => Delayed(k, t) /\ k'.wake[t] = k.wake[t]
      /\ \A t \in Task : Delayed(k', t) =>
           \A i \in 1 .. k.pended : k.wake[t] # (k.tick + i) % TickMod
  BY DEF Resumed, Delays, Wakes, At
<1>2. Ticks = 0
  <2>1. (((k.tick + k.pended) % TickMod) + 0 - k.tick - k.pended) % TickMod = 0
    BY ClockTypes, TickApart
  <2> QED BY <1>1, <2>1 DEF Ticks
<1> SUFFICES ASSUME NEW t \in Task
             PROVE  left'[t] \in Int /\ (Delayed(k', t) => Sleeps(k', left'[t] + k'.pended, t))
  BY DEF Slept
<1>3. left'[t] \in Int /\ (Delayed(k', t) => left'[t] = left[t] - 0)
  BY <1>1, <1>2, ClockTypes, CoreTypes, LeftIs DEF Delays
<1>4. ASSUME Delayed(k', t)
      PROVE  Sleeps(k', left'[t] + k'.pended, t)
  <2> DEFINE d == left[t] + k.pended
  <2>1. Delayed(k, t) /\ k'.wake[t] = k.wake[t]
    BY <1>1, <1>4
  <2>2. d \in 1 .. MaxDelay /\ k.wake[t] = (k.tick + d) % TickMod /\ left[t] \in Int
    BY <2>1 DEF Delays, Slept, Sleeps
  <2>3. left'[t] + k'.pended = d - k.pended
    BY <1>1, <1>3, <1>4, <2>2, ClockTypes
  <2> HIDE DEF d
  <2>4. d \in Nat /\ d < TickMod
    BY <2>2, ClockTypes
  <2>5. ~(d <= k.pended)
    <3> SUFFICES ASSUME d <= k.pended PROVE FALSE
      OBVIOUS
    <3>1. d \in 1 .. k.pended
      BY <2>2, <2>4, ClockTypes
    <3> QED BY <1>1, <1>4, <2>2, <3>1
  <2>6. d - k.pended \in 1 .. MaxDelay /\ k.pended <= d
    BY <2>2, <2>4, <2>5, ClockTypes
  <2>7. (((k.tick + k.pended) % TickMod) + (d - k.pended)) % TickMod = (k.tick + d) % TickMod
    BY <2>4, <2>6, ClockTypes, TickApart
  <2> QED BY <1>1, <2>1, <2>2, <2>3, <2>6, <2>7 DEF Sleeps
<1> QED BY <1>3, <1>4

(* One tick is counted.                                                       *)
LEMMA TickedSlept ==
  ASSUME Core, Core', Delays, left' = [t \in Task |-> Left(t)], NEW W, Ticked(k, k', W),
         k.pended = 0
  PROVE  Slept' /\ Counted = 1
<1>1. /\ k'.tick = (k.tick + 1) % TickMod /\ k'.pended = 0
      /\ \A t \in Task : Delayed(k', t) => Delayed(k, t) /\ k'.wake[t] = k.wake[t]
      /\ Timely(k')
  BY DEF Ticked, Delays, Wakes
<1>2. Ticks = 1 /\ Counted = 1
  <2>1. (((k.tick + 1) % TickMod) - k.tick) % TickMod = 1 /\ (k.tick + 1) % TickMod \in Int
    <3>1. /\ (((k.tick + 1) % TickMod) - k.tick) % TickMod = 1
          /\ (k.tick + 1) % TickMod \in Tick
      BY ClockTypes, TickApart
    <3> QED BY <3>1, Constants
  <2>2. ((k.tick + 1) % TickMod) + 0 - k.tick - 0 = ((k.tick + 1) % TickMod) - k.tick
    BY <2>1, ClockTypes
  <2> QED BY <1>1, <2>1, <2>2 DEF Ticks, Counted
<1>3. ASSUME NEW t \in Task
      PROVE  left'[t] \in Int /\ (Delayed(k', t) => Sleeps(k', left'[t] + k'.pended, t))
  <2>1. left'[t] \in Int /\ (Delayed(k', t) => left'[t] = left[t] - 1)
    BY <1>1, <1>2, ClockTypes, CoreTypes, LeftIs DEF Delays
  <2>2. ASSUME Delayed(k', t)
        PROVE  Sleeps(k', left'[t] + k'.pended, t)
    <3> DEFINE d == left[t]
    <3>1. Delayed(k, t) /\ k'.wake[t] = k.wake[t]
      BY <1>1, <2>2
    <3>2. d \in 1 .. MaxDelay /\ k.wake[t] = (k.tick + d) % TickMod /\ left[t] \in Int
      BY <3>1 DEF Delays, Slept, Sleeps
    <3>3. left'[t] + k'.pended = d - 1
      BY <1>1, <2>1, <2>2, <3>2
    <3> HIDE DEF d
    <3>4. d \in Nat /\ d < TickMod
      BY <3>2, ClockTypes
    <3>5. k'.wake[t] # k'.tick
      <4>1. k'.wake[t] \in Int /\ k'.tick \in Int
        <5>1. k' \in Kernel
          BY DEF Core, Good
        <5>2. k'.wake[t] \in Tick /\ k'.tick \in Tick
          BY <5>1, KernelFields
        <5> QED BY <5>2, Constants
      <4> QED BY <1>1, <2>2, <4>1 DEF Timely, InOrder, Ahead, Delayed
    <3>6. d # 1
      BY <1>1, <3>1, <3>2, <3>5
    <3>7. d - 1 \in 1 .. MaxDelay /\ 1 <= d
      BY <3>2, <3>4, <3>6, ClockTypes
    <3>8. (((k.tick + 1) % TickMod) + (d - 1)) % TickMod = (k.tick + d) % TickMod
      BY <3>4, <3>7, ClockTypes, TickApart
    <3> QED BY <1>1, <3>1, <3>2, <3>3, <3>7, <3>8 DEF Sleeps
  <2> QED BY <2>1, <2>2
<1> QED BY <1>2, <1>3 DEF Slept

(* One tick is put by.                                                        *)
LEMMA PutBySlept ==
  ASSUME Core, Core', Delays, left' = [t \in Task |-> Left(t)], SameData(k, k'),
         k'.pended = k.pended + 1,
         \A t \in Task : Delayed(k', t) <=> Delayed(k, t)
  PROVE  Slept'
<1>1. k'.tick = k.tick /\ k'.wake = k.wake
  BY DEF SameData, SameBlocked
<1>2. Ticks = 1
  <2>1. k'.tick + k'.pended - k.tick - k.pended = 1
    BY <1>1, ClockTypes
  <2>2. 1 % TickMod = 1
    BY ClockTypes
  <2> QED BY <2>1, <2>2 DEF Ticks
<1> SUFFICES ASSUME NEW t \in Task
             PROVE  left'[t] \in Int /\ (Delayed(k', t) => Sleeps(k', left'[t] + k'.pended, t))
  BY DEF Slept
<1>3. left'[t] \in Int /\ (Delayed(k', t) => left'[t] = left[t] - 1)
  BY <1>2, ClockTypes, CoreTypes, LeftIs DEF Delays
<1>4. left[t] \in Int /\ (Delayed(k', t) => Sleeps(k, left[t] + k.pended, t))
  BY DEF Delays, Slept
<1>5. Delayed(k', t) => left'[t] + k'.pended = left[t] + k.pended
  BY <1>3, <1>4, ClockTypes
<1> QED BY <1>1, <1>3, <1>4, <1>5 DEF Sleeps

-----------------------------------------------------------------------------
(* A task starts to sleep in vTaskDelay or as it waits on a queue.            *)
LEMMA DelayAddSlept ==
  ASSUME Core, Core', Delays, left' = [t \in Task |-> Left(t)], NEW t \in Task, DelayAdd(t)
  PROVE  Delays' /\ \A u \in Task : Delayed(k, u) => Delayed(k', u)
<1>1. /\ Runs(t, "delay") /\ Blocks(k, k', call[t].ticks, FALSE)
  BY DelayAddStep
<1>2. k.current = t /\ Rdy(k, t) /\ call[t].ticks > 0
  BY <1>1 DEF Runs, CallOf
<1>3. call[t].ticks \in 1 .. MaxDelay
  BY <1>2, ClockTypes
<1>4. Slept'
  BY <1>1, <1>2, <1>3, SleepStarts DEF Delays
<1>5. Timely(k') /\ \A u \in Task : Delayed(k, u) => Delayed(k', u)
  BY <1>1 DEF Delays, Blocks
<1> QED BY <1>4, <1>5 DEF Delays

(* A task that blocks on a queue gets the wake-up time it asked for.        *)
LEMMA PlaceSlept ==
  ASSUME Core, Core', Delays, left' = [t \in Task |-> Left(t)], NEW t \in Task, Place(t)
  PROVE  Delays' /\ \A u \in Task : Delayed(k, u) => Delayed(k', u)
<1> DEFINE q == call[t].q
           s == call[t].side
           n == call[t].ticks
           h == IF q \in Mutex THEN holder[q] ELSE NoTask
<1>1. Runs(t, "place") /\ n \in 1 .. MaxDelay
  BY PlaceStep
<1>2. PICK b : Inherits(k, b, h) /\ Places(b, k', q, s, n) /\ b.current = t
  BY PlaceStep
<1> HIDE DEF q, s, h
<1>3. k.current = t /\ Rdy(k, t)
  BY <1>1 DEF Runs
<1>4. \/ b = k
      \/ b.tick = k.tick /\ b.pended = k.pended /\ SameBlocked(k, b) /\ SameNext(k, b)
  BY <1>2 DEF Inherits, Repriced, SameClock
<1>5. /\ b.tick = k.tick /\ b.pended = k.pended /\ b.wake = k.wake
      /\ b.delayed = k.delayed /\ b.overflow = k.overflow /\ b.next = k.next
  BY <1>4 DEF SameBlocked, SameNext
<1>6. \A u \in Task : Delayed(b, u) <=> Delayed(k, u)
  BY <1>5 DEF Delayed
<1>7. Blocks(b, k', n, TRUE)
  BY <1>2 DEF Places
<1>8. Slept'
  BY <1>1, <1>2, <1>3, <1>5, <1>6, <1>7, SleepStarts DEF Delays
<1>9. Timely(b)
  BY <1>5 DEF Delays, Timely, InOrder, Ahead, InTime
<1>10. Timely(k') /\ \A u \in Task : Delayed(b, u) => Delayed(k', u)
  BY <1>7, <1>9 DEF Blocks
<1> QED BY <1>6, <1>8, <1>10 DEF Delays

(* A tick brings every wake-up nearer by one.                               *)
LEMMA TickIsrSlept ==
  ASSUME Core, Core', Delays, left' = [t \in Task |-> Left(t)], TickIsr
  PROVE  Delays'
<1>1. CASE k.depth > 0
  <2>1. /\ SameData(k, k') /\ k'.pended = k.pended + 1 /\ k \in Kernel /\ k' \in Kernel
        /\ \A t \in Task : Delayed(k', t) <=> Delayed(k, t)
    BY <1>1, TickIsrStep DEF Core, Good
  <2>2. Timely(k')
    BY <2>1, SameDataKeeps DEF Delays, Core
  <2> QED BY <2>1, <2>2, PutBySlept DEF Delays
<1>2. CASE ~(k.depth > 0)
  <2>1. PICK W : Ticked(k, k', W)
    BY <1>2, TickIsrStep
  <2>2. k.pended = 0
    BY <1>2 DEF Core, Control
  <2>3. Slept'
    BY <2>1, <2>2, TickedSlept
  <2> QED BY <2>1, <2>3 DEF Delays, Ticked
<1> QED BY <1>1, <1>2

(* Every step keeps the delays.                                             *)
LEMMA DelaysKept ==
  ASSUME Core, Core', Delays, [Next]_vars
  PROVE  Delays'
<1>1. CASE UNCHANGED vars
  <2>1. k' = k /\ left' = left
    BY <1>1 DEF vars
  <2> QED BY <2>1 DEF Delays, Slept
<1>2. CASE Next
  <2>1. Step /\ left' = [t \in Task |-> Left(t)]
    BY <1>2 DEF Next, Histories
  <2>2. CASE Quietly(k, k')
    <3>1. /\ k'.tick = k.tick /\ k'.pended = k.pended /\ Timely(k')
          /\ \A t \in Task : Delayed(k', t) => Delayed(k, t) /\ k'.wake[t] = k.wake[t]
      BY <2>2 DEF Quietly, Still, Delays
    <3> QED BY <2>1, <3>1, SleepsOn DEF Delays
  <2>3. ASSUME NEW t \in Task, DelayAdd(t) \/ Place(t)
        PROVE  Delays'
    BY <2>1, <2>3, DelayAddSlept, PlaceSlept
  <2>4. ASSUME NEW t \in Task, CallResumeAll(t)
        PROVE  Delays'
    <3>1. PICK V, W : Resumed(k, k', V, W)
      BY <2>4, CallResumeAllStep
    <3>2. Slept'
      BY <2>1, <3>1, ResumeSlept
    <3> QED BY <3>1, <3>2 DEF Delays, Resumed
  <2>5. CASE TickIsr
    BY <2>1, <2>5, TickIsrSlept
  <2> QED BY <2>1, <2>2, <2>3, <2>4, <2>5, StepTime
<1> QED BY <1>1, <1>2

(* Who leaves the delayed lists, and when.                                    *)
LEMMA LeavesInFull ==
  ASSUME Core, Core', Delays, Next, NEW t \in Task, Delayed(k, t), ~Delayed(k', t),
         t \notin k'.suspended, call[t].q = "none" \/ InEventList(k', t)
  PROVE  left[t] + k.pended <= Counted
<1>1. Step /\ left' = [u \in Task |-> Left(u)]
  BY DEF Next, Histories
<1>2. "none" \notin Queue
  BY CoreTypes
<1>3. ~Quietly(k, k')
  <2> SUFFICES ASSUME Quietly(k, k') PROVE FALSE
    OBVIOUS
  <2>1. ~InEventList(k', t) /\ \E q \in Queue, s \in Side : Contains(k.waiting[q][s], t)
    BY DEF Quietly, Leaves
  <2> QED BY <1>2, <2>1 DEF Core, WaitingCalls
<1>4. ~\E u \in Task : DelayAdd(u) \/ Place(u)
  BY <1>1, DelayAddSlept, PlaceSlept
<1>5. ASSUME NEW u \in Task, CallResumeAll(u)
      PROVE  left[t] + k.pended <= Counted
  <2>1. PICK V, W : Resumed(k, k', V, W)
    BY <1>5, CallResumeAllStep
  <2>2. k'.tick = (k.tick + k.pended) % TickMod
    BY <2>1 DEF Resumed, At
  <2>3. Counted = k.pended
    <3>1. (((k.tick + k.pended) % TickMod) - k.tick) % TickMod = k.pended
      BY ClockTypes, TickApart
    <3> QED BY <2>2, <3>1 DEF Counted
  <2>4. t \in V \/ t \in W
    BY <2>1 DEF Resumed, Wakes
  <2>5. t \notin V
    <3> SUFFICES ASSUME t \in V PROVE FALSE
      OBVIOUS
    <3>1. call[t].q # "none"
      BY <2>1 DEF Resumed, Core, WaitingCalls
    <3>2. ~InEventList(k', t)
      BY <2>1 DEF Resumed, Wakes, InEventList
    <3> QED BY <3>1, <3>2
  <2>6. PICK i \in 1 .. k.pended : k.wake[t] = (k.tick + i) % TickMod
    BY <2>1, <2>4, <2>5 DEF Resumed, Delays, At
  <2>7. i \in Nat /\ i < TickMod /\ i <= k.pended
    BY <2>6, ClockTypes
  <2>8. left[t] + k.pended = i
    BY <2>6, <2>7, WakesAt DEF Delays
  <2> QED BY <2>3, <2>7, <2>8
<1>6. CASE TickIsr
  <2>1. CASE k.depth > 0
    <3>1. Delayed(k', t)
      BY <1>6, <2>1, TickIsrStep
    <3> QED BY <3>1
  <2>2. CASE ~(k.depth > 0)
    <3>1. PICK W : Ticked(k, k', W)
      BY <1>6, <2>2, TickIsrStep
    <3>2. k.pended = 0
      BY <2>2 DEF Core, Control
    <3>3. Counted = 1
      BY <1>1, <3>1, <3>2, TickedSlept
    <3>4. t \in W
      BY <3>1 DEF Ticked, Wakes
    <3>5. k.wake[t] = (k.tick + 1) % TickMod
      BY <3>1, <3>4 DEF Ticked, Delays
    <3>6. left[t] + k.pended = 1
      BY <3>5, ClockTypes, WakesAt DEF Delays
    <3> QED BY <3>3, <3>6
  <2> QED BY <2>1, <2>2
<1> QED BY <1>1, <1>3, <1>4, <1>5, <1>6, StepTime

(* The invariant on delays holds of the specification.                      *)
LEMMA DelaysInvariant == Spec => [](Core /\ Delays)
<1>1. Init => Core /\ Delays
  BY InitCore, InitDelays
<1>2. (Core /\ Delays) /\ [Next]_vars => (Core /\ Delays)'
  BY CoreKept, DelaysKept
<1> QED BY <1>1, <1>2, PTL DEF Spec

(* No task is woken by the ticks before its time, wherever the tick count     *)
(* wraps and however many ticks are put by while the scheduler is suspended   *)
(* (xTaskIncrementTick, xTaskResumeAll).                                      *)
THEOREM DelaysLastInFull == Spec => DelaysInFull
<1> DEFINE InFull ==
      \A t \in InDelay(k) \ (InDelay(k') \cup k'.suspended) :
        (call[t].q = "none" \/ InEventList(k', t)) => left[t] + k.pended <= Counted
<1>1. (Core /\ Delays) /\ (Core /\ Delays)' /\ [Next]_vars => [InFull]_vars
  <2> SUFFICES ASSUME Core, Delays, Core', Next,
                      NEW t \in InDelay(k) \ (InDelay(k') \cup k'.suspended),
                      call[t].q = "none" \/ InEventList(k', t)
               PROVE  left[t] + k.pended <= Counted
    OBVIOUS
  <2>1. k \in Kernel /\ k' \in Kernel
    BY DEF Core, Good
  <2>2. t \in Task /\ Delayed(k, t) /\ ~Delayed(k', t) /\ t \notin k'.suspended
    BY <2>1, DelayedIs
  <2> QED BY <2>2, LeavesInFull
<1> QED BY <1>1, DelaysInvariant, PTL DEF Spec, DelaysInFull

-----------------------------------------------------------------------------
(* What a timed call knows of the time. Since e, the tick noted in entry, the *)
(* tick count has wrapped at most once, and entered says whether it has.      *)
Since(t, e) == k.tick - e + (IF k.entered[t] = 1 THEN TickMod ELSE 0)
Clocked(t) ==
  /\ owed[t] \in Nat
  /\ k.entered[t] = -1 <=> call[t].entry = {}
  /\ k.entered[t] = 1 => k.tick + k.pended < TickMod
  /\ call[t].q = "none" => call[t].entry = {}
  /\ call[t].entry # {} => call[t].ticks # MaxDelay
  /\ call[t].entry = {} => owed[t] = 0
  /\ \A e \in call[t].entry :
       /\ Since(t, e) >= 0
       /\ owed[t] = IF call[t].ticks > Since(t, e) THEN call[t].ticks - Since(t, e) ELSE 0
       /\ pc[t] = "place" => Since(t, e) = 0
Clocks == \A t \in Task : Clocked(t)

(* Nobody times a call at the start.                                        *)
LEMMA InitClocks ==
  ASSUME Init
  PROVE  Clocks
<1>1. /\ Fresh(k) /\ owed = [t \in Task |-> 0] /\ call = [t \in Task |-> NoCall]
  BY StartedDoes DEF Init
<1>2. NoCall.entry = {}
  BY DEF NoCall
<1> QED BY <1>1, <1>2 DEF Fresh, Clocks, Clocked

(* The entry of a call is a tick, or not there yet.                           *)
LEMMA EntryTypes ==
  ASSUME Core, NEW t \in Task
  PROVE  /\ call[t].entry = {} \/ \E e \in Tick : call[t].entry = {e}
         /\ \A e \in call[t].entry : e \in Tick /\ e \in Nat /\ e < TickMod
         /\ k.entered[t] \in {-1, 0, 1}
         /\ call[t].ticks \in Nat /\ call[t].ticks <= MaxDelay
<1>1. call[t] \in CallType /\ k \in Kernel
  BY CoreTypes
<1>2. call[t].entry = {} \/ \E e \in Tick : call[t].entry = {e}
  BY <1>1, CallFields
<1>3. \A e \in call[t].entry : e \in Tick
  BY <1>2
<1>4. \A e \in Tick : e \in Nat /\ e < TickMod
  BY Constants
<1>5. k.entered[t] \in {-1, 0, 1}
  BY <1>1, KernelFields
<1>6. call[t].ticks \in Nat /\ call[t].ticks <= MaxDelay
  BY ClockTypes
<1> QED BY <1>2, <1>3, <1>4, <1>5, <1>6

(* A step that does not touch the call, or ends it.                           *)
SameEntry(t) ==
  /\ k'.entered[t] = k.entered[t]
  /\ call'[t].entry = call[t].entry /\ call'[t].ticks = call[t].ticks
  /\ pc'[t] = "place" => pc[t] = "place"
  /\ call'[t].q = "none" => call[t].q = "none"
NoEntry(t) == k'.entered[t] = -1 /\ call'[t].entry = {}

(* What the history of timeouts says after a step.                          *)
LEMMA OwedIs ==
  ASSUME owed' = [t \in Task |-> Owed(t)], NEW t \in Task
  PROVE  owed'[t] = IF call'[t].entry = {} THEN 0
                    ELSE IF call[t].entry = {} THEN call[t].ticks
                    ELSE IF owed[t] > Counted THEN owed[t] - Counted ELSE 0
BY DEF Owed

(* A task whose timing a step leaves alone, or ends, stays accounted for.   *)
LEMMA ClockedSame ==
  ASSUME Core, NEW t \in Task, Clocked(t), owed' = [u \in Task |-> Owed(u)],
         k'.tick = k.tick, k'.pended = k.pended, SameEntry(t) \/ NoEntry(t)
  PROVE  Clocked(t)'
<1>1. Counted = 0
  BY NoTicks
<1>2. /\ owed[t] \in Nat
      /\ owed'[t] = IF call'[t].entry = {} THEN 0
                    ELSE IF call[t].entry = {} THEN call[t].ticks
                    ELSE IF owed[t] > 0 THEN owed[t] - 0 ELSE 0
  BY <1>1, OwedIs DEF Clocked
<1>3. CASE NoEntry(t)
  <2>1. owed'[t] = 0 /\ call'[t].entry = {} /\ k'.entered[t] = -1
    BY <1>2, <1>3 DEF NoEntry
  <2> QED BY <2>1 DEF Clocked
<1>4. CASE SameEntry(t)
  <2>1. owed'[t] = owed[t]
    <3>1. call[t].entry = {} => owed[t] = 0
      BY DEF Clocked
    <3> QED BY <1>2, <1>4, <3>1 DEF SameEntry
  <2>2. \A e : Since(t, e)' = Since(t, e)
    BY <1>4 DEF SameEntry, Since
  <2> QED BY <1>4, <2>1, <2>2 DEF SameEntry, Clocked
<1> QED BY <1>3, <1>4

(* The steps of calls that do one or the other, ...                           *)
LEMMA MovesEntry ==
  ASSUME NEW t \in Task, NEW l, NEW c, Moves(t, l, c), k'.entered = k.entered,
         c.entry = call[t].entry, c.ticks = call[t].ticks, l # "place",
         c.q = "none" => call[t].q = "none"
  PROVE  \A u \in Task : SameEntry(u)
BY DEF Moves, SameEntry

(* A step that ends the timing of one task leaves that of the others.       *)
LEMMA MovesNoEntry ==
  ASSUME NEW t \in Task, NEW l, NEW c, Moves(t, l, c), k'.entered[t] = -1, c.entry = {},
         \A u \in Task : u # t => k'.entered[u] = k.entered[u]
  PROVE  \A u \in Task : SameEntry(u) \/ NoEntry(u)
BY DEF Moves, SameEntry, NoEntry

(* A step within no call leaves all timing.                                 *)
LEMMA RestsEntry ==
  ASSUME Rests, k'.entered = k.entered
  PROVE  \A u \in Task : SameEntry(u)
BY DEF Rests, SameEntry

(* A task outside of calls times nothing.                                   *)
LEMMA NoCallEntry ==
  ASSUME Clocks, NEW t \in Task, call[t] = NoCall
  PROVE  k.entered[t] = -1 /\ NoCall.entry = {} /\ NoCall.q = "none" /\ NoCall.ticks = 0
<1>1. NoCall.entry = {} /\ NoCall.q = "none" /\ NoCall.ticks = 0
  BY DEF NoCall
<1>2. k.entered[t] = -1
  BY <1>1 DEF Clocks, Clocked
<1> QED BY <1>1, <1>2

(* Steps that leave or end the timing of calls.                             *)
LEMMA EntryFirst ==
  ASSUME Core, Clocks, NEW t \in Task,
         \/ CallYield(t) \/ CallDelay(t) \/ DelayAdd(t) \/ CallSuspend(t) \/ AfterSuspend(t)
         \/ CallResume(t) \/ Refuse(t) \/ SuspendAll(t) \/ LockQueue(t)
  PROVE  \A u \in Task : SameEntry(u) \/ NoEntry(u)
<1>1. CASE CallYield(t)
  <2>1. k'.entered = k.entered /\ Rests
    BY <1>1, CallYieldStep DEF Yielded, SameData
  <2> QED BY <2>1, RestsEntry
<1>2. CASE CallDelay(t)
  <2>1. PICK n \in 1 .. MaxDelay :
          /\ Runs(t, "app") /\ Nested(k, k')
          /\ Moves(t, "delay", [NoCall EXCEPT !.ticks = n, !.then = "yield"])
    BY <1>2, CallDelayStep
  <2>2. k'.entered = k.entered /\ call[t] = NoCall
    BY <2>1 DEF Nested, SameData, Runs, CallOf
  <2>3. [NoCall EXCEPT !.ticks = n, !.then = "yield"].entry = {}
    BY DEF NoCall
  <2> QED BY <2>1, <2>2, <2>3, MovesNoEntry, NoCallEntry
<1>3. CASE DelayAdd(t)
  <2>1. k'.entered = k.entered /\ Moves(t, "resume", call[t])
    BY <1>3, DelayAddStep DEF Blocks, SameClock
  <2> QED BY <2>1, MovesEntry
<1>4. CASE CallSuspend(t)
  <2>1. PICK u \in Task \ {Idle} :
          /\ Runs(t, "app") /\ Suspended(k, k', u)
          /\ Moves(t, IF u = t THEN "suspendself" ELSE "suspended", NoCall)
    BY <1>4, CallSuspendStep
  <2>2. k'.entered = k.entered /\ call[t] = NoCall
    BY <2>1 DEF Suspended, KeepsTime, SameClock, Runs, CallOf
  <2> QED BY <2>1, <2>2, MovesNoEntry, NoCallEntry
<1>5. CASE AfterSuspend(t)
  <2>1. k'.entered = k.entered /\ call[t] = NoCall /\ Moves(t, "app", NoCall)
    BY <1>5, AfterSuspendStep DEF SameClock, Runs, CallOf
  <2> QED BY <2>1, MovesNoEntry, NoCallEntry
<1>6. CASE CallResume(t)
  <2>1. k'.entered = k.entered /\ Rests
    BY <1>6, CallResumeStep DEF Rewoken, KeepsTime, SameClock
  <2> QED BY <2>1, RestsEntry
<1>7. CASE Refuse(t)
  <2>1. k \in Kernel
    BY CoreTypes
  <2>2. Stamped(k, k', t, -1) /\ Moves(t, "app", NoCall)
    BY <1>7, RefuseStep
  <2>3. k'.entered[t] = -1 /\ \A u \in Task : u # t => k'.entered[u] = k.entered[u]
    BY <2>1, <2>2, KernelFields DEF Stamped
  <2> QED BY <2>2, <2>3, MovesNoEntry DEF NoCall
<1>8. CASE SuspendAll(t)
  <2>1. k'.entered = k.entered /\ Moves(t, "lock", call[t])
    BY <1>8, SuspendAllStep DEF Nested, SameData
  <2> QED BY <2>1, MovesEntry
<1>9. CASE LockQueue(t)
  <2>1. k'.entered = k.entered /\ Moves(t, "check", call[t])
    BY <1>9, LockQueueStep
  <2> QED BY <2>1, MovesEntry
<1> QED BY <1>1, <1>2, <1>3, <1>4, <1>5, <1>6, <1>7, <1>8, <1>9

-----------------------------------------------------------------------------
(* A stamp is for one task.                                                 *)
LEMMA EntryStamped ==
  ASSUME Core, NEW t \in Task, NEW e \in {-1, 0}, k'.entered = [k.entered EXCEPT ![t] = e]
  PROVE  k'.entered[t] = e /\ \A u \in Task : u # t => k'.entered[u] = k.entered[u]
<1>1. k.entered \in [Task -> {-1, 0, 1}]
  BY CoreTypes, KernelFields
<1> QED BY <1>1

(* More steps that leave or end the timing of calls.                        *)
LEMMA EntryLater ==
  ASSUME Core, Clocks, NEW t \in Task,
         \/ CallQueue(t) \/ Succeed(t) \/ Place(t) \/ UnlockQueue(t) \/ YieldAfter(t)
         \/ Expire(t) \/ Disinherit(t) \/ CallPrioritySet(t) \/ \E m \in Mutex : GiveMutex(t, m)
  PROVE  \A u \in Task : SameEntry(u) \/ NoEntry(u)
<1>0. NoCall.entry = {}
  BY DEF NoCall
<1>1. CASE CallQueue(t)
  <2>1. PICK q \in Queue, s \in Side, n \in 0 .. MaxDelay :
          /\ Runs(t, "app") /\ k' = k
          /\ Moves(t, "try", [NoCall EXCEPT !.q = q, !.side = s, !.ticks = n])
    BY <1>1, CallQueueStep
  <2>2. call[t] = NoCall
    BY <2>1 DEF Runs, CallOf
  <2>3. [NoCall EXCEPT !.q = q, !.side = s, !.ticks = n].entry = {}
    BY DEF NoCall
  <2> QED BY <2>1, <2>2, <2>3, MovesNoEntry, NoCallEntry
<1>2. CASE Succeed(t)
  <2> DEFINE q == call[t].q
             s == call[t].side
  <2>1. Moves(t, "app", NoCall)
    BY <1>2, SucceedStep
  <2>2. PICK b, P : Holding(k, b, t, q \in Mutex) /\ WokeOne(b, k', q, Other(s), P)
    BY <1>2, SucceedStep
  <2> HIDE DEF q, s
  <2>3. k'.entered = [k.entered EXCEPT ![t] = -1]
    BY <2>2 DEF Holding, WokeOne, KeepsTime, SameClock
  <2> QED BY <1>0, <2>1, <2>3, EntryStamped, MovesNoEntry
<1>3. CASE Place(t)
  <2> DEFINE q == call[t].q
             s == call[t].side
             n == call[t].ticks
             h == IF q \in Mutex THEN holder[q] ELSE NoTask
  <2>1. PICK b : Inherits(k, b, h) /\ Places(b, k', q, s, n)
    BY <1>3, PlaceStep
  <2>2. PICK i \in BOOLEAN : Moves(t, "unlock", [call[t] EXCEPT !.inherited = i])
    BY <1>3, PlaceStep
  <2>3. call[t] \in CallType
    BY CoreTypes
  <2> HIDE DEF q, s, n, h
  <2>4. b.entered = k.entered
    BY <2>1 DEF Inherits, Repriced, SameClock
  <2>5. k'.entered = k.entered
    BY <2>1, <2>4 DEF Places, Blocks, SameClock
  <2> DEFINE c == [call[t] EXCEPT !.inherited = i]
  <2>6. c.entry = call[t].entry /\ c.ticks = call[t].ticks /\ c.q = call[t].q
    BY <2>3 DEF CallType
  <2> HIDE DEF c
  <2>7. Moves(t, "unlock", c)
    BY <2>2 DEF c
  <2> QED BY <2>5, <2>6, <2>7, MovesEntry
<1>4. CASE UnlockQueue(t)
  <2>1. PICK l \in {"unlocksend", "resume"} : Moves(t, l, call[t])
    BY <1>4, UnlockQueueStep
  <2>2. \E q, s, n, P : WokeMany(k, k', q, s, n, P)
    BY <1>4, UnlockQueueStep
  <2>3. k'.entered = k.entered
    BY <2>2 DEF WokeMany, KeepsTime, SameClock
  <2> QED BY <2>1, <2>3, MovesEntry
<1>5. CASE YieldAfter(t)
  <2>1. k'.entered = k.entered
    BY <1>5, YieldAfterStep DEF Yielded, SameData
  <2>2. CASE call[t].q = "none"
    <3>1. call[t] = NoCall /\ Moves(t, "app", NoCall)
      BY <1>5, <2>2, YieldAfterStep
    <3> QED BY <2>1, <3>1, MovesNoEntry, NoCallEntry
  <2>3. CASE call[t].q # "none"
    <3>1. Moves(t, "try", call[t])
      BY <1>5, <2>3, YieldAfterStep
    <3> QED BY <2>1, <3>1, MovesEntry
  <2> QED BY <2>2, <2>3
<1>6. CASE Expire(t)
  <2>1. CASE Stamped(k, k', t, -1) /\ Moves(t, "app", NoCall)
    <3>1. k'.entered = [k.entered EXCEPT ![t] = -1]
      BY <2>1 DEF Stamped
    <3> QED BY <1>0, <2>1, <3>1, EntryStamped, MovesNoEntry
  <2>2. CASE k' = k /\ (Moves(t, "try", call[t]) \/ Moves(t, "disinherit", call[t]))
    BY <2>2, MovesEntry
  <2> QED BY <1>6, <2>1, <2>2, ExpireStep
<1>7. CASE Disinherit(t)
  <2>1. PICK b : Stamped(k, b, t, -1) /\ Lowered(b, k', holder[call[t].q], HighestWaiting(call[t].q))
    BY <1>7, DisinheritStep
  <2>2. Moves(t, "app", NoCall)
    BY <1>7, DisinheritStep
  <2>3. k'.entered = [k.entered EXCEPT ![t] = -1]
    BY <2>1 DEF Stamped, Lowered, Repriced, SameClock
  <2> QED BY <1>0, <2>2, <2>3, EntryStamped, MovesNoEntry
<1>8. CASE CallPrioritySet(t)
  <2>1. (\E u \in Task, p \in Level : Prioritised(k, k', u, p)) /\ Rests
    BY <1>8, CallPrioritySetStep
  <2>2. k'.entered = k.entered
    BY <2>1 DEF Prioritised, SameClock
  <2> QED BY <2>1, <2>2, RestsEntry
<1>9. CASE \E m \in Mutex : GiveMutex(t, m)
  <2>0. PICK m \in Mutex : GiveMutex(t, m)
    BY <1>9
  <2>1. PICK b, P : Given(k, b, k', t, m, P)
    BY <2>0, GiveMutexStep
  <2>2. Rests
    BY <2>0, GiveMutexStep
  <2>3. k'.entered = k.entered
    BY <2>1 DEF Given, Disinherits, Repriced, SameClock, WokeOne, KeepsTime
  <2> QED BY <2>2, <2>3, RestsEntry
<1> QED BY <1>1, <1>2, <1>3, <1>4, <1>5, <1>6, <1>7, <1>8, <1>9

(* Interrupts, but for the tick, and switches leave the timing of calls.    *)
LEMMA EntryInterrupts ==
  ASSUME Core, (\E q \in Queue, s \in Side : IsrQueue(q, s)) \/ PendSV
  PROVE  \A u \in Task : SameEntry(u)
<1>1. ASSUME NEW q \in Queue, NEW s \in Side, IsrQueue(q, s)
      PROVE  k'.entered = k.entered /\ Rests
  <2>1. (k' = k \/ \E P : WokeOne(k, k', q, Other(s), P)) /\ Rests
    BY <1>1, IsrQueueStep
  <2> QED BY <2>1 DEF WokeOne, KeepsTime, SameClock
<1>2. CASE PendSV
  <2>1. k'.entered = k.entered /\ Rests
    BY <1>2, PendSVStep DEF SameClock
  <2> QED BY <2>1, RestsEntry
<1> QED BY <1>1, <1>2, RestsEntry

(* Elapsed is what Since says as long as the time of the call is not up.      *)
LEMMA ElapsedIs ==
  ASSUME Core, NEW t \in Task, Clocked(t), NEW e \in Tick, call[t].entry = {e}
  PROVE  /\ Since(t, e) \in Nat
         /\ Elapsed(t) \in Nat
         /\ call[t].ticks # MaxDelay /\ call[t].ticks > 0 => (TimedOut(t) <=> owed[t] = 0)
         /\ Elapsed(t) < call[t].ticks /\ ~TimedOut(t) => owed[t] = call[t].ticks - Elapsed(t)
<1>1. /\ k.tick \in Nat /\ k.tick < TickMod /\ TickMod \in Nat /\ TickMod > 1 /\ e \in Nat
      /\ e < TickMod /\ k.entered[t] \in {0, 1} /\ call[t].ticks \in Nat
      /\ call[t].ticks <= TickMod - 1 /\ MaxDelay = TickMod - 1
  <2>1. k.entered[t] \in {-1, 0, 1} /\ k.entered[t] # -1
    BY EntryTypes DEF Clocked
  <2>2. e \in Nat /\ e < TickMod
    BY EntryTypes
  <2>3. call[t].ticks \in Nat /\ call[t].ticks <= MaxDelay
    BY EntryTypes
  <2> QED BY <2>1, <2>2, <2>3, ClockTypes
<1>2. /\ Since(t, e) >= 0 /\ call[t].ticks # MaxDelay
      /\ owed[t] = IF call[t].ticks > Since(t, e) THEN call[t].ticks - Since(t, e) ELSE 0
  BY DEF Clocked
<1>3. Since(t, e) = IF k.entered[t] = 1 THEN k.tick - e + TickMod ELSE k.tick - e
  BY <1>1 DEF Since
<1>4. Elapsed(t) = (k.tick - e) % TickMod
  BY ElapsedType
<1>5. \A y \in 0 .. TickMod - 1 : y % TickMod = y /\ (y - TickMod) % TickMod = y
  BY <1>1
<1>6. CASE k.tick >= e
  <2>1. k.tick - e \in 0 .. TickMod - 1
    BY <1>1, <1>6
  <2>2. Elapsed(t) = k.tick - e
    BY <1>4, <1>5, <2>1
  <2>3. TimedOut(t) <=> /\ call[t].ticks # MaxDelay
                        /\ k.entered[t] > 0 \/ k.tick - e >= call[t].ticks
    BY <1>6, <2>2 DEF TimedOut
  <2>4. CASE k.entered[t] = 1
    <3>1. Since(t, e) = k.tick - e + TickMod /\ ~(call[t].ticks > Since(t, e))
      BY <1>1, <1>3, <2>1, <2>4
    <3>2. owed[t] = 0 /\ TimedOut(t)
      BY <1>2, <2>3, <2>4, <3>1
    <3> QED BY <1>1, <2>1, <2>2, <3>1, <3>2
  <2>5. CASE k.entered[t] = 0
    <3>1. Since(t, e) = k.tick - e
      BY <1>3, <2>5
    <3>2. TimedOut(t) <=> k.tick - e >= call[t].ticks
      BY <1>2, <2>3, <2>5
    <3> QED BY <1>1, <1>2, <2>1, <2>2, <3>1, <3>2
  <2> QED BY <1>1, <2>4, <2>5
<1>7. CASE ~(k.tick >= e)
  <2>1. k.tick - e + TickMod \in 0 .. TickMod - 1 /\ k.tick - e = (k.tick - e + TickMod) - TickMod
    BY <1>1, <1>7
  <2>2. Elapsed(t) = k.tick - e + TickMod
    BY <1>4, <1>5, <2>1
  <2>3. k.entered[t] = 1 /\ Since(t, e) = k.tick - e + TickMod
    BY <1>1, <1>2, <1>3, <1>7
  <2>4. TimedOut(t) <=> call[t].ticks # MaxDelay /\ Elapsed(t) >= call[t].ticks
    BY <1>7 DEF TimedOut
  <2> QED BY <1>1, <1>2, <2>1, <2>2, <2>3, <2>4
<1> QED BY <1>6, <1>7

-----------------------------------------------------------------------------
(* A call that notes the tick starts to count at it.                          *)
LEMMA ClockedFresh ==
  ASSUME Core, NEW t \in Task, k'.tick = k.tick, k'.entered[t] = 0,
         call'[t].entry = {k.tick}, call'[t].q # "none", call'[t].ticks \in Nat,
         call'[t].ticks # MaxDelay, owed'[t] = call'[t].ticks
  PROVE  Clocked(t)'
<1>1. k.tick \in Nat
  BY ClockTypes
<1>2. Since(t, k.tick)' = 0
  BY <1>1 DEF Since
<1>3. \A e \in call'[t].entry : Since(t, e)' = 0
  BY <1>1 DEF Since
<1> QED BY <1>3 DEF Clocked

(* A call that starts its timing owes all of its ticks.                     *)
LEMMA NoteTimeClocks ==
  ASSUME Core, Clocks, owed' = [u \in Task |-> Owed(u)], NEW t \in Task, NoteTime(t)
  PROVE  Clocks'
<1> DEFINE c == call[t]
<1>1. c \in CallType /\ c.q \in Queue /\ c.ticks > 0 /\ "none" \notin Queue
  BY NoteTimeStep, CoreTypes
<1>2. CASE c.entry = {} /\ c.ticks # MaxDelay
  <2> DEFINE d == [c EXCEPT !.entry = {k.tick}]
  <2>1. Stamped(k, k', t, 0) /\ Moves(t, "suspendall", d)
    BY <1>2, NoteTimeStep
  <2>2. d.entry = {k.tick} /\ d.ticks = c.ticks /\ d.q = c.q
    BY <1>1 DEF CallType
  <2> HIDE DEF d
  <2>3. /\ k'.tick = k.tick /\ k'.pended = k.pended /\ k'.entered[t] = 0
        /\ \A u \in Task : u # t => k'.entered[u] = k.entered[u]
    BY <2>1, EntryStamped DEF Stamped
  <2>4. owed'[t] = c.ticks
    <3>1. call'[t].entry # {}
      BY <2>1, <2>2 DEF Moves
    <3> QED BY <1>2, <3>1, OwedIs
  <2>5. Clocked(t)'
    <3>1. call'[t] = d
      BY <2>1 DEF Moves
    <3>2. c.ticks \in Nat
      BY EntryTypes
    <3> QED BY <1>1, <1>2, <2>2, <2>3, <2>4, <3>1, <3>2, ClockedFresh
  <2>6. ASSUME NEW u \in Task, u # t
        PROVE  Clocked(u)'
    <3>1. SameEntry(u)
      BY <2>1, <2>3, <2>6 DEF Moves, SameEntry
    <3> QED BY <2>3, <3>1, ClockedSame DEF Clocks
  <2> QED BY <2>5, <2>6 DEF Clocks
<1>3. CASE ~(c.entry = {} /\ c.ticks # MaxDelay)
  <2>1. k' = k /\ Moves(t, "suspendall", c)
    BY <1>3, NoteTimeStep
  <2>2. \A u \in Task : SameEntry(u)
    BY <2>1, MovesEntry
  <2> QED BY <2>1, <2>2, ClockedSame DEF Clocks
<1> QED BY <1>2, <1>3

(* xTaskCheckForTimeOut charges what has been counted since, across a wrap  *)
(* too, and finds the time up only when it is.                              *)
LEMMA CheckTimeOutClocks ==
  ASSUME Core, Clocks, owed' = [u \in Task |-> Owed(u)], NEW t \in Task, CheckTimeOut(t)
  PROVE  Clocks'
<1> DEFINE c == call[t]
           free == Ready(c.q, c.side)
<1>1. /\ Runs(t, "check") /\ c \in CallType /\ c.q \in Queue /\ "none" \notin Queue
      /\ c.ticks > 0 /\ (c.ticks # MaxDelay => c.entry # {}) /\ Clocked(t)
  BY CheckTimeOutStep, CoreTypes DEF Runs, CallOf, Clocks
<1>2. c.entry # {} => c.ticks # MaxDelay
  BY <1>1 DEF Clocked
<1>3. c.ticks \in Nat /\ c.ticks <= MaxDelay /\ MaxDelay \in Nat
  BY EntryTypes, ClockTypes
<1>4. CASE TimedOut(t)
  <2> DEFINE d == [c EXCEPT !.ticks = 0, !.then = "expired"]
  <2>1. k' = k /\ Moves(t, "unlock", d)
    BY <1>4, CheckTimeOutStep
  <2>2. d.ticks = 0 /\ d.entry = c.entry /\ d.q = c.q
    BY <1>1 DEF CallType
  <2>3. c.ticks # MaxDelay
    BY <1>4 DEF TimedOut
  <2>4. PICK e \in Tick : c.entry = {e}
    BY <1>1, <2>3, EntryTypes
  <2>5. owed[t] = 0 /\ Since(t, e) \in Nat
    BY <1>1, <1>4, <2>3, <2>4, ElapsedIs
  <2> HIDE DEF d, c
  <2>6. call'[t] = d /\ pc'[t] = "unlock"
    BY <2>1 DEF Moves
  <2>7. owed'[t] = 0
    <3>1. Counted = 0
      BY <2>1, NoTicks
    <3>2. call'[t].entry # {} /\ call[t].entry # {}
      BY <2>2, <2>4, <2>6 DEF c
    <3> QED BY <2>5, <3>1, <3>2, OwedIs
  <2>8. Clocked(t)'
    <3>1. \A x \in call'[t].entry : Since(t, x)' = Since(t, e) /\ Since(t, e) >= 0
      <4>1. \A x : Since(t, x)' = Since(t, x)
        BY <2>1 DEF Since
      <4> QED BY <2>2, <2>4, <2>5, <2>6, <4>1
    <3>2. /\ k'.entered[t] = k.entered[t] /\ k.entered[t] # -1 /\ call'[t].entry # {}
          /\ k'.entered[t] = 1 => k'.tick + k'.pended < TickMod
      BY <1>1, <2>1, <2>2, <2>4, <2>6 DEF Clocked, c
    <3>3. call'[t].ticks = 0 /\ call'[t].q # "none" /\ 0 # MaxDelay
      BY <1>1, <2>2, <2>6, ClockTypes
    <3> QED BY <2>5, <2>6, <2>7, <3>1, <3>2, <3>3 DEF Clocked
  <2>9. ASSUME NEW u \in Task, u # t
        PROVE  Clocked(u)'
    <3>1. SameEntry(u)
      BY <2>1, <2>9 DEF Moves, SameEntry
    <3> QED BY <2>1, <3>1, ClockedSame DEF Clocks
  <2> QED BY <2>8, <2>9 DEF Clocks
<1>5. CASE ~TimedOut(t) /\ c.ticks = MaxDelay
  <2> DEFINE d == [c EXCEPT !.then = IF free THEN "try" ELSE "yield",
                            !.ticks = IF c.ticks = MaxDelay THEN c.ticks ELSE c.ticks - Elapsed(t),
                            !.entry = IF c.entry = {} THEN {} ELSE {k.tick}]
  <2>1. k' = k /\ Moves(t, IF free THEN "unlock" ELSE "place", d)
    BY <1>5, CheckTimeOutStep
  <2>2. d.ticks = c.ticks /\ d.entry = {} /\ c.entry = {} /\ d.q = c.q
    BY <1>1, <1>2, <1>5 DEF CallType
  <2> HIDE DEF d, free
  <2>3. ASSUME NEW u \in Task
        PROVE  SameEntry(u) \/ NoEntry(u)
    <3>1. CASE u = t
      <4>1. k'.entered[t] = -1 /\ call'[t] = d
        BY <1>1, <2>1, <2>2 DEF Clocked, Moves
      <4> QED BY <2>2, <3>1, <4>1 DEF NoEntry
    <3>2. CASE u # t
      BY <2>1, <3>2 DEF Moves, SameEntry
    <3> QED BY <3>1, <3>2
  <2> QED BY <2>1, <2>3, ClockedSame DEF Clocks
<1>6. CASE ~TimedOut(t) /\ c.ticks # MaxDelay
  <2> DEFINE d == [c EXCEPT !.then = IF free THEN "try" ELSE "yield",
                            !.ticks = IF c.ticks = MaxDelay THEN c.ticks ELSE c.ticks - Elapsed(t),
                            !.entry = IF c.entry = {} THEN {} ELSE {k.tick}]
  <2>1. /\ Elapsed(t) < c.ticks /\ Stamped(k, k', t, 0)
        /\ Moves(t, IF free THEN "unlock" ELSE "place", d)
    BY <1>6, CheckTimeOutStep
  <2>2. PICK e \in Tick : c.entry = {e}
    BY <1>1, <1>6, EntryTypes
  <2>3. Elapsed(t) \in Nat /\ owed[t] = c.ticks - Elapsed(t)
    BY <1>1, <1>6, <2>1, <2>2, ElapsedIs
  <2>4. d.ticks = c.ticks - Elapsed(t) /\ d.entry = {k.tick} /\ d.q = c.q
    BY <1>1, <1>6, <2>2 DEF CallType
  <2> HIDE DEF d, free
  <2>5. call'[t] = d
    BY <2>1 DEF Moves
  <2>6. /\ k'.tick = k.tick /\ k'.pended = k.pended /\ k'.entered[t] = 0
        /\ \A u \in Task : u # t => k'.entered[u] = k.entered[u]
    BY <2>1, EntryStamped DEF Stamped
  <2>7. owed'[t] = c.ticks - Elapsed(t)
    <3>1. Counted = 0
      BY <2>6, NoTicks
    <3>2. call'[t].entry # {} /\ call[t].entry # {}
      BY <2>2, <2>4, <2>5
    <3>3. c.ticks - Elapsed(t) > 0 /\ c.ticks - Elapsed(t) - 0 = c.ticks - Elapsed(t)
      BY <1>3, <2>1, <2>3
    <3> QED BY <2>3, <3>1, <3>2, <3>3, OwedIs
  <2>8. Clocked(t)'
    <3>1. c.ticks - Elapsed(t) \in Nat /\ c.ticks - Elapsed(t) # MaxDelay
      BY <1>3, <1>6, <2>1, <2>3
    <3> QED BY <1>1, <2>4, <2>5, <2>6, <2>7, <3>1, ClockedFresh
  <2>9. ASSUME NEW u \in Task, u # t
        PROVE  Clocked(u)'
    <3>1. SameEntry(u)
      BY <2>1, <2>6, <2>9 DEF Moves, SameEntry
    <3> QED BY <2>6, <3>1, ClockedSame DEF Clocks
  <2> QED BY <2>8, <2>9 DEF Clocks
<1> QED BY <1>4, <1>5, <1>6

-----------------------------------------------------------------------------
(* n ticks pass for a timed call.                                             *)
LEMMA ClockedPasses ==
  ASSUME Core, NEW t \in Task, Clocked(t), owed' = [u \in Task |-> Owed(u)],
         NEW n \in Nat, n < TickMod, k'.tick = (k.tick + n) % TickMod, k'.pended = 0,
         k'.entered[t] = IF k.tick + n >= TickMod /\ k.entered[t] = 0 THEN 1 ELSE k.entered[t],
         k.entered[t] = 1 => k.tick + n < TickMod,
         call'[t].entry = call[t].entry, call[t].entry # {} => call'[t].ticks = call[t].ticks,
         call'[t].q = "none" => call[t].q = "none", pc'[t] # "place"
  PROVE  Clocked(t)'
<1>1. /\ k.tick \in Nat /\ k.tick < TickMod /\ TickMod \in Nat /\ TickMod > 1
      /\ k.entered[t] \in {-1, 0, 1} /\ call[t].ticks \in Nat
  BY EntryTypes, ClockTypes
<1>2. /\ k'.tick = IF k.tick + n >= TickMod THEN k.tick + n - TickMod ELSE k.tick + n
      /\ Counted = n
  <2>1. k.tick \in Tick
    BY ClockTypes
  <2>2. (k.tick + n) % TickMod = IF k.tick + n >= TickMod THEN k.tick + n - TickMod
                                 ELSE k.tick + n
    BY <2>1, TickApart
  <2>3. (((k.tick + n) % TickMod) - k.tick) % TickMod = n
    BY <2>1, TickApart
  <2> QED BY <2>2, <2>3 DEF Counted
<1>3. /\ owed[t] \in Nat /\ (k.entered[t] = -1 <=> call[t].entry = {})
      /\ (call[t].q = "none" => call[t].entry = {})
      /\ (call[t].entry # {} => call[t].ticks # MaxDelay)
      /\ \A e \in call[t].entry :
           /\ Since(t, e) >= 0
           /\ owed[t] = IF call[t].ticks > Since(t, e) THEN call[t].ticks - Since(t, e) ELSE 0
  BY DEF Clocked
<1>4. k'.entered[t] = 1 => k'.tick + k'.pended < TickMod
  BY <1>1, <1>2
<1>5. k'.entered[t] = -1 <=> call'[t].entry = {}
  BY <1>1, <1>3
<1>6. CASE call[t].entry = {}
  <2>1. owed'[t] = 0 /\ call'[t].entry = {}
    BY <1>6, OwedIs
  <2> QED BY <1>4, <1>5, <2>1 DEF Clocked
<1>7. CASE call[t].entry # {}
  <2>1. owed'[t] = IF owed[t] > n THEN owed[t] - n ELSE 0
    BY <1>2, <1>7, OwedIs
  <2>2. owed'[t] \in Nat
    BY <1>3, <2>1
  <2>3. ASSUME NEW e \in call[t].entry
        PROVE  /\ Since(t, e)' = Since(t, e) + n /\ Since(t, e) \in Nat
    <3>1. e \in Nat /\ k.entered[t] \in {0, 1}
      BY <1>1, <1>3, <2>3, EntryTypes
    <3>2. CASE k.entered[t] = 1
      <4>1. k'.entered[t] = 1 /\ k'.tick = k.tick + n
        BY <1>1, <1>2, <3>2
      <4>2. Since(t, e)' = (k.tick + n) - e + TickMod
        BY <4>1 DEF Since
      <4>3. Since(t, e) = k.tick - e + TickMod
        BY <3>2 DEF Since
      <4> QED BY <1>1, <1>3, <2>3, <3>1, <4>2, <4>3
    <3>3. CASE k.entered[t] = 0 /\ k.tick + n >= TickMod
      <4>1. k'.entered[t] = 1 /\ k'.tick = (k.tick + n) - TickMod
        BY <1>1, <1>2, <3>3
      <4>2. Since(t, e)' = ((k.tick + n) - TickMod) - e + TickMod
        BY <4>1 DEF Since
      <4>3. Since(t, e) = k.tick - e + 0
        BY <3>3 DEF Since
      <4> QED BY <1>1, <1>3, <2>3, <3>1, <4>2, <4>3
    <3>4. CASE k.entered[t] = 0 /\ ~(k.tick + n >= TickMod)
      <4>1. k'.entered[t] = 0 /\ k'.tick = k.tick + n
        BY <1>1, <1>2, <3>4
      <4>2. Since(t, e)' = (k.tick + n) - e + 0
        BY <4>1 DEF Since
      <4>3. Since(t, e) = k.tick - e + 0
        BY <3>4 DEF Since
      <4> QED BY <1>1, <1>3, <2>3, <3>1, <4>2, <4>3
    <3> QED BY <3>1, <3>2, <3>3, <3>4
  <2>4. ASSUME NEW e \in call'[t].entry
        PROVE  /\ Since(t, e)' >= 0
               /\ owed'[t] = IF call'[t].ticks > Since(t, e)' THEN call'[t].ticks - Since(t, e)' ELSE 0
    <3>1. e \in call[t].entry /\ call'[t].ticks = call[t].ticks
      BY <1>7, <2>4
    <3>2. Since(t, e)' = Since(t, e) + n /\ Since(t, e) \in Nat
      BY <2>3, <3>1
    <3>3. owed[t] = IF call[t].ticks > Since(t, e) THEN call[t].ticks - Since(t, e) ELSE 0
      BY <1>3, <3>1
    <3> QED BY <1>1, <2>1, <3>1, <3>2, <3>3
  <2>5. /\ call'[t].q = "none" => call'[t].entry = {}
        /\ call'[t].ticks # MaxDelay /\ call'[t].entry # {}
    BY <1>3, <1>7
  <2> QED BY <1>4, <1>5, <2>2, <2>4, <2>5 DEF Clocked
<1> QED BY <1>6, <1>7

(* The ticks put by are counted against every timed call.                   *)
LEMMA ResumeClocks ==
  ASSUME Core, Clocks, owed' = [u \in Task |-> Owed(u)], NEW t \in Task, CallResumeAll(t)
  PROVE  Clocks'
<1> DEFINE c == call[t]
           back == IF c.q = "none" THEN "app" ELSE "try"
           l == IF c.then # "yield" THEN c.then
                ELSE IF k'.yieldPending THEN back ELSE "yield"
           d == IF c.q = "none" THEN NoCall ELSE [c EXCEPT !.then = "app"]
<1>1. Runs(t, "resume") /\ l # "place" /\ Moves(t, l, d) /\ c \in CallType
  BY CallResumeAllStep, CoreTypes
<1>2. PICK V, W : Resumed(k, k', V, W)
  BY CallResumeAllStep
<1>3. d.entry = c.entry /\ (c.entry # {} => d.ticks = c.ticks) /\ (d.q = "none" => c.q = "none")
  <2>1. CASE c.q = "none"
    <3>1. c.entry = {} /\ d = NoCall
      BY <2>1 DEF Clocks, Clocked
    <3> QED BY <2>1, <3>1 DEF NoCall
  <2>2. CASE c.q # "none"
    <3>1. d = [c EXCEPT !.then = "app"]
      BY <2>2
    <3> QED BY <1>1, <3>1 DEF CallType
  <2> QED BY <2>1, <2>2
<1> HIDE DEF d, l
<1>4. /\ k'.tick = (k.tick + k.pended) % TickMod /\ k'.pended = 0
      /\ k'.entered = IF k.tick + k.pended >= TickMod THEN Wrapped(k) ELSE k.entered
  BY <1>2 DEF Resumed, At
<1>5. ASSUME NEW u \in Task
      PROVE  Clocked(u)'
  <2>1. k'.entered[u] = IF k.tick + k.pended >= TickMod /\ k.entered[u] = 0 THEN 1
                        ELSE k.entered[u]
    BY <1>4 DEF Wrapped
  <2>2. /\ call'[u].entry = call[u].entry
        /\ call[u].entry # {} => call'[u].ticks = call[u].ticks
        /\ call'[u].q = "none" => call[u].q = "none"
    BY <1>1, <1>3 DEF Moves
  <2>3. pc'[u] # "place"
    <3>1. k.current = t
      BY <1>1 DEF Runs
    <3>2. u # t => pc[u] # "place"
      BY <3>1 DEF Core, Control, Critical
    <3> QED BY <1>1, <3>2 DEF Moves
  <2>4. Clocked(u) /\ (k.entered[u] = 1 => k.tick + k.pended < TickMod)
    BY DEF Clocks, Clocked
  <2> QED BY <1>4, <2>1, <2>2, <2>3, <2>4, ClockTypes, ClockedPasses
<1> QED BY <1>5 DEF Clocks

(* A tick is counted against every timed call.                              *)
LEMMA TickClocks ==
  ASSUME Core, Clocks, owed' = [u \in Task |-> Owed(u)], TickIsr
  PROVE  Clocks'
<1>1. /\ pc' = pc /\ call' = call
      /\ (k.tick + k.pended >= MaxDelay => \A t \in Task : k.entered[t] # 1)
  BY TickIsrStep DEF Rests, OneWrap
<1>2. CASE k.depth > 0
  <2>1. k'.tick = k.tick /\ k'.entered = k.entered /\ k'.pended = k.pended + 1
    BY <1>2, TickIsrStep DEF SameData
  <2>2. Counted = 0
    <3>1. k'.tick - k.tick = 0 /\ 0 % TickMod = 0
      BY <2>1, ClockTypes
    <3> QED BY <3>1 DEF Counted
  <2>3. ASSUME NEW t \in Task
        PROVE  Clocked(t)'
    <3>1. Clocked(t) /\ owed[t] \in Nat
      BY DEF Clocks, Clocked
    <3>2. owed'[t] = owed[t]
      <4>1. call[t].entry = {} => owed[t] = 0
        BY <3>1 DEF Clocked
      <4>2. owed[t] > 0 => owed[t] - 0 = owed[t]
        BY <3>1
      <4>3. owed'[t] = IF call[t].entry = {} THEN 0
                       ELSE IF owed[t] > 0 THEN owed[t] - 0 ELSE 0
        BY <1>1, <2>2, OwedIs
      <4> QED BY <3>1, <4>1, <4>2, <4>3
    <3>3. k'.entered[t] = 1 => k'.tick + k'.pended < TickMod
      BY <1>1, <2>1, ClockTypes
    <3>4. \A e : Since(t, e)' = Since(t, e)
      BY <2>1 DEF Since
    <3> QED BY <1>1, <2>1, <3>1, <3>2, <3>3, <3>4 DEF Clocked
  <2> QED BY <2>3 DEF Clocks
<1>3. CASE ~(k.depth > 0)
  <2>1. PICK W : Ticked(k, k', W)
    BY <1>3, TickIsrStep
  <2>2. k.pended = 0 /\ \A t \in Task : pc[t] # "place"
    <3>1. k.pended = 0 /\ pc[k.current] \notin Critical /\ k.current \in Task
      BY <1>3, CoreTypes DEF Core, Control
    <3> QED BY <3>1 DEF Core, Control, Critical
  <2>3. k'.tick = (k.tick + 1) % TickMod /\ k'.pended = 0
    BY <2>1, <2>2 DEF Ticked
  <2>4. k'.tick = 0 <=> k.tick + 1 >= TickMod
    <3>1. (k.tick + 1) % TickMod = IF k.tick + 1 >= TickMod THEN k.tick + 1 - TickMod ELSE k.tick + 1
      BY ClockTypes, TickApart
    <3> QED BY <2>3, <3>1, ClockTypes
  <2>5. ASSUME NEW t \in Task
        PROVE  Clocked(t)'
    <3>1. k'.entered[t] = IF k.tick + 1 >= TickMod /\ k.entered[t] = 0 THEN 1 ELSE k.entered[t]
      BY <2>1, <2>4 DEF Ticked
    <3>2. k.entered[t] = 1 => k.tick + 1 < TickMod
      BY <1>1, <2>2, ClockTypes
    <3> QED BY <1>1, <2>2, <2>3, <3>1, <3>2, ClockTypes, ClockedPasses DEF Clocks
  <2> QED BY <2>5 DEF Clocks
<1> QED BY <1>2, <1>3

(* Every step keeps the timeouts.                                           *)
LEMMA ClocksKept ==
  ASSUME Core, Clocks, [Next]_vars
  PROVE  Clocks'
<1>1. CASE UNCHANGED vars
  <2>1. k' = k /\ call' = call /\ pc' = pc /\ owed' = owed
    BY <1>1 DEF vars
  <2> QED BY <2>1 DEF Clocks, Clocked, Since
<1>2. CASE Next
  <2>1. Step /\ owed' = [t \in Task |-> Owed(t)]
    BY <1>2 DEF Next, Histories
  <2>2. ASSUME k'.tick = k.tick, k'.pended = k.pended,
               \A u \in Task : SameEntry(u) \/ NoEntry(u)
        PROVE  Clocks'
    BY <2>1, <2>2, ClockedSame DEF Clocks
  <2>3. ASSUME NEW t \in Task, TaskStep(t)
        PROVE  Clocks'
    <3>1. CASE NoteTime(t) \/ CheckTimeOut(t) \/ CallResumeAll(t)
      BY <2>1, <3>1, NoteTimeClocks, CheckTimeOutClocks, ResumeClocks
    <3>2. CASE ~(NoteTime(t) \/ CheckTimeOut(t) \/ CallResumeAll(t))
      <4>1. \A u \in Task : SameEntry(u) \/ NoEntry(u)
        BY <2>3, <3>2, EntryFirst, EntryLater DEF TaskStep
      <4>2. CASE DelayAdd(t)
        <5>1. k'.tick = k.tick /\ k'.pended = k.pended
          BY <4>2, DelayAddStep DEF Blocks, SameClock
        <5> QED BY <2>2, <4>1, <5>1
      <4>3. CASE Place(t)
        <5> DEFINE q == call[t].q
                   s == call[t].side
                   n == call[t].ticks
                   h == IF q \in Mutex THEN holder[q] ELSE NoTask
        <5>1. PICK b : Inherits(k, b, h) /\ Places(b, k', q, s, n)
          BY <4>3, PlaceStep
        <5> HIDE DEF q, s, n, h
        <5>2. k'.tick = k.tick /\ k'.pended = k.pended
          BY <5>1 DEF Inherits, Repriced, Places, Blocks, SameClock
        <5> QED BY <2>2, <4>1, <5>2
      <4>4. CASE Quietly(k, k')
        <5>1. k'.tick = k.tick /\ k'.pended = k.pended
          BY <4>4 DEF Quietly, Still
        <5> QED BY <2>2, <4>1, <5>1
      <4> QED BY <2>3, <3>2, <4>2, <4>3, <4>4, QuietFirst, QuietLater DEF TaskStep
    <3> QED BY <3>1, <3>2
  <2>4. CASE (\E q \in Queue, s \in Side : IsrQueue(q, s)) \/ PendSV
    <3>1. Quietly(k, k') /\ \A u \in Task : SameEntry(u)
      BY <2>4, QuietInterrupts, EntryInterrupts
    <3> QED BY <2>2, <3>1 DEF Quietly, Still
  <2>5. CASE TickIsr
    BY <2>1, <2>5, TickClocks
  <2> QED BY <2>1, <2>3, <2>4, <2>5 DEF Step
<1> QED BY <1>1, <1>2

(* The invariant on delays and timeouts holds of the specification.         *)
LEMMA TimesInvariant == Spec => [](Core /\ Delays /\ Clocks)
<1>1. Init => Core /\ Delays /\ Clocks
  BY InitCore, InitDelays, InitClocks
<1>2. (Core /\ Delays /\ Clocks) /\ [Next]_vars => (Core /\ Delays /\ Clocks)'
  BY CoreKept, DelaysKept, ClocksKept
<1> QED BY <1>1, <1>2, PTL DEF Spec

(* The delayed lists and the tick at which the kernel looks at them next are  *)
(* right wherever the tick count wraps, and a timed call gives up after as    *)
(* many counted ticks as it asked for and blocks for what is left of them     *)
(* (prvAddCurrentTaskToDelayedList, xTaskIncrementTick, xTaskCheckForTimeOut).*)
THEOREM TimesAreSound == Spec => []TimesAreExact
<1>1. Core /\ Delays => DelaysAreExact
  <2> SUFFICES ASSUME Core, Delays PROVE DelaysAreExact
    OBVIOUS
  <2>1. k \in Kernel
    BY CoreTypes
  <2>2. /\ \A t : t \in InDelay(k) <=> Delayed(k, t)
        /\ \A t : Delayed(k, t) => t \in Task
        /\ \A t : t \in ToSet(k.delayed) <=> Contains(k.delayed, t)
        /\ \A t : t \in ToSet(k.overflow) <=> Contains(k.overflow, t)
    BY <2>1, DelayedIs
  <2>3. ASSUME NEW t \in InDelay(k)
        PROVE  left[t] + k.pended > 0 /\ k.wake[t] = (k.tick + left[t] + k.pended) % TickMod
    <3>1. t \in Task /\ Delayed(k, t)
      BY <2>2, <2>3
    <3>2. /\ left[t] \in Int /\ left[t] + k.pended \in 1 .. MaxDelay
          /\ k.wake[t] = (k.tick + (left[t] + k.pended)) % TickMod
      BY <3>1 DEF Delays, Slept, Sleeps
    <3>3. k.tick + (left[t] + k.pended) = k.tick + left[t] + k.pended
      BY <3>2, ClockTypes
    <3> QED BY <3>2, <3>3
  <2>4. \A t \in ToSet(k.delayed) : k.wake[t] > k.tick /\ k.next <= k.wake[t]
    BY <2>2 DEF Delays, Timely, Ahead, InTime, Delayed
  <2>5. \A t \in ToSet(k.overflow) : k.wake[t] < k.tick
    BY <2>2 DEF Delays, Timely, InOrder, Delayed
  <2>6. Ordered(k.delayed, k.wake) /\ Ordered(k.overflow, k.wake)
    BY DEF Delays, Timely, InOrder
  <2> QED BY <2>3, <2>4, <2>5, <2>6 DEF DelaysAreExact
<1>2. Core /\ Clocks => TimeoutsAreExact
  <2> SUFFICES ASSUME Core, Clocks, NEW t \in Task
               PROVE  /\ call[t].then = "expired" \/ pc[t] \in {"expired", "disinherit"} =>
                           owed[t] = 0
                      /\ pc[t] = "place" /\ call[t].ticks # MaxDelay =>
                           owed[t] = call[t].ticks /\ owed[t] > 0
    BY DEF TimeoutsAreExact
  <2>1. CallOf(pc[t], call[t]) /\ Clocked(t) /\ call[t].ticks \in Nat
    BY EntryTypes DEF Core, Calls, Clocks
  <2>2. ASSUME call[t].then = "expired" \/ pc[t] \in {"expired", "disinherit"}
        PROVE  owed[t] = 0
    <3>1. call[t].ticks = 0 /\ call[t].entry # {}
      BY <2>1, <2>2 DEF CallOf
    <3>2. PICK e \in Tick : call[t].entry = {e}
      BY <3>1, EntryTypes
    <3>3. Since(t, e) \in Nat
      BY <2>1, <3>2, ElapsedIs
    <3> QED BY <2>1, <3>1, <3>2, <3>3 DEF Clocked
  <2>3. ASSUME pc[t] = "place", call[t].ticks # MaxDelay
        PROVE  owed[t] = call[t].ticks /\ owed[t] > 0
    <3>1. call[t].ticks > 0 /\ call[t].entry # {}
      BY <2>1, <2>3 DEF CallOf
    <3>2. PICK e \in Tick : call[t].entry = {e}
      BY <3>1, EntryTypes
    <3>3. Since(t, e) = 0
      BY <2>1, <2>3, <3>2 DEF Clocked
    <3>4. owed[t] = IF call[t].ticks > 0 THEN call[t].ticks - 0 ELSE 0
      BY <2>1, <3>2, <3>3 DEF Clocked
    <3> QED BY <2>1, <3>1, <3>4
  <2> QED BY <2>2, <2>3
<1> QED BY <1>1, <1>2, TimesInvariant, PTL DEF TimesAreExact

-----------------------------------------------------------------------------
(* There are finitely many tasks, and what follows for sets of them.          *)
LEMMA TaskFinite == IsFiniteSet(Task) /\ Cardinality(Task) \in Nat
<1> DEFINE n == Len(Everyone)
           f == [i \in 1 .. n |-> Everyone[i]]
<1>1. n \in Nat /\ (\A i \in 1 .. n : Everyone[i] \in Task)
      /\ \A t \in Task : \E i \in 1 .. n : Everyone[i] = t
  BY EveryoneOnce
<1> HIDE DEF n
<1>2. f \in Surjection(1 .. n, Task)
  BY <1>1 DEF Surjection
<1>3. ExistsSurjection(1 .. n, Task)
  BY <1>2 DEF ExistsSurjection
<1>4. IsFiniteSet(Task)
  BY <1>1, <1>3, FS_NatSurjection
<1> QED BY <1>4, FS_CardinalityType

(* Counting the tasks of a set.                                             *)
LEMMA TaskCounts ==
  ASSUME NEW S \in SUBSET Task
  PROVE  /\ IsFiniteSet(S) /\ Cardinality(S) \in Nat /\ Cardinality(S) <= Cardinality(Task)
         /\ \A t \in Task : Cardinality(S \ {t}) = IF t \in S THEN Cardinality(S) - 1
                                                   ELSE Cardinality(S)
         /\ \A T \in SUBSET Task : S \subseteq T => Cardinality(S) <= Cardinality(T)
         /\ \A P \in SUBSET Task :
              (\A t \in P : t \notin S) => Cardinality(S \cup P) = Cardinality(S) + Cardinality(P)
<1>1. IsFiniteSet(S) /\ Cardinality(S) \in Nat /\ Cardinality(S) <= Cardinality(Task)
  BY TaskFinite, FS_Subset, FS_CardinalityType
<1>2. ASSUME NEW t \in Task
      PROVE  Cardinality(S \ {t}) = IF t \in S THEN Cardinality(S) - 1 ELSE Cardinality(S)
  BY <1>1, FS_RemoveElement
<1>3. ASSUME NEW T \in SUBSET Task, S \subseteq T
      PROVE  Cardinality(S) <= Cardinality(T)
  <2>1. IsFiniteSet(T) /\ S \in SUBSET T
    BY <1>3, TaskFinite, FS_Subset
  <2> QED BY <2>1, FS_Subset
<1>4. ASSUME NEW P \in SUBSET Task, \A t \in P : t \notin S
      PROVE  Cardinality(S \cup P) = Cardinality(S) + Cardinality(P)
  <2>1. IsFiniteSet(P) /\ Cardinality(P) \in Nat
    BY TaskFinite, FS_Subset, FS_CardinalityType
  <2>2. S \cap P = {} /\ Cardinality({}) = 0
    BY <1>4, FS_EmptySet
  <2>3. Cardinality(S \cup P) = Cardinality(S) + Cardinality(P) - Cardinality(S \cap P)
    BY <1>1, <2>1, FS_Union
  <2>4. Cardinality(S \cap P) = 0
    BY <2>2
  <2> QED BY <1>1, <2>1, <2>3, <2>4
<1> QED BY <1>1, <1>2, <1>3, <1>4

-----------------------------------------------------------------------------
(* How often side s of q can be used, the tasks on their way to it, and the   *)
(* wake-ups that prvUnlockQueue owes its waiters.                             *)
Avail(q, s) == IF s = "receive" THEN count[q] ELSE Length[q] - count[q]
OnWay(q, s) == {t \in Task : /\ call[t].q = q /\ call[t].side = s
                             /\ pc[t] \notin {"app", "disinherit"}
                             /\ ~Contains(k.waiting[q][s], t)}
Owing(q, s) == IF lock[q][s] = -1 THEN 0 ELSE lock[q][s]
Enough(q, s, S) ==
  lock[q][s] >= Cardinality(Task) \/ Cardinality(S) + Owing(q, s) >= Avail(q, s)
Placing(q, s) == /\ pc[k.current] = "place"
                 /\ call[k.current].q = q /\ call[k.current].side = s

(* While tasks wait, enough are on their way, or owed a wake-up, to use       *)
(* whatever can be used; and one about to wait is not needed for that.        *)
Answered(q, s) ==
  /\ Avail(q, s) \in Nat
  /\ k.waiting[q][s] # <<>> => Enough(q, s, OnWay(q, s))
  /\ Placing(q, s) => Enough(q, s, OnWay(q, s) \ {k.current})
AllAnswered == \A q \in Queue, s \in Side : Answered(q, s)

(* Nobody waits at the start.                                               *)
LEMMA InitAnswered ==
  ASSUME Init
  PROVE  AllAnswered
<1>1. \A q \in Queue : count[q] \in {0, 1} /\ count[q] <= Length[q] /\ Length[q] \in Nat
  <2> SUFFICES ASSUME NEW q \in Queue
               PROVE  count[q] \in {0, 1} /\ count[q] <= Length[q] /\ Length[q] \in Nat
    OBVIOUS
  <2>1. Length[q] \in Nat /\ Length[q] > 0
    BY QueueAssumption DEF QueueAssumption
  <2>2. count[q] = 0 \/ count[q] = 1
    BY DEF Init
  <2> QED BY <2>1, <2>2
<1>2. \A q \in Queue, s \in Side : k.waiting[q][s] = <<>>
  BY StartedDoes DEF Init, Fresh
<1>3. \A t \in Task : pc[t] = "app"
  BY DEF Init
<1>4. k.current \in Task
  BY InitCore, CoreTypes
<1> QED BY <1>1, <1>2, <1>3, <1>4 DEF AllAnswered, Answered, Avail, Placing

(* The types of what is counted.                                              *)
LEMMA LostTypes ==
  ASSUME Core, NEW q \in Queue, NEW s \in Side
  PROVE  /\ lock[q][s] \in Nat \cup {-1} /\ Owing(q, s) \in Nat /\ count[q] \in Int
         /\ Length[q] \in Nat /\ OnWay(q, s) \in SUBSET Task
         /\ k.waiting[q][s] \in Seq(Task) /\ k.waiting[q][s] \in List
<1>1. k \in Kernel /\ lock[q][s] \in Nat \cup {-1} /\ count[q] \in Int
  BY CoreTypes
<1>2. k.waiting[q][s] \in List
  BY <1>1, KernelFields
<1>3. Length[q] \in Nat
  BY QueueAssumption DEF QueueAssumption
<1>4. Owing(q, s) \in Nat
  BY <1>1 DEF Owing
<1>5. OnWay(q, s) \in SUBSET Task
  BY DEF OnWay
<1>6. k.waiting[q][s] \in Seq(Task)
  BY <1>2 DEF List
<1> QED BY <1>1, <1>2, <1>3, <1>4, <1>5, <1>6

(* A list that loses tasks was not empty if it is not.                        *)
LEMMA StillWaits ==
  ASSUME Core, Core', Trims(k, k'), NEW q \in Queue, NEW s \in Side, k'.waiting[q][s] # <<>>
  PROVE  k.waiting[q][s] # <<>>
<1>1. k.waiting[q][s] \in Seq(Task) /\ k'.waiting[q][s] \in Seq(Task)
  <2>1. k \in Kernel /\ k' \in Kernel
    BY DEF Core, Good
  <2>2. k.waiting[q][s] \in List /\ k'.waiting[q][s] \in List
    BY <2>1, KernelFields
  <2> QED BY <2>2 DEF List
<1>2. PICK t \in Task : Contains(k'.waiting[q][s], t)
  BY <1>1, ListElements
<1>3. Contains(k.waiting[q][s], t)
  BY <1>2 DEF Trims
<1> QED BY <1>1, <1>3, ListElements

-----------------------------------------------------------------------------
(* The tasks of P are on their way now, and no more can be used than they and *)
(* the wake-ups owed make up for.                                             *)
LEMMA AnsweredMore ==
  ASSUME Core, Core', NEW q \in Queue, NEW s \in Side, Answered(q, s), NEW P \in SUBSET Task,
         \A t \in P : t \notin OnWay(q, s), OnWay(q, s) \cup P \subseteq OnWay(q, s)',
         Avail(q, s)' \in Nat, k'.waiting[q][s] # <<>> => k.waiting[q][s] # <<>>,
         Placing(q, s)' => Placing(q, s) /\ k'.current = k.current /\ P = {},
         k'.waiting[q][s] # <<>> \/ Placing(q, s)' =>
           \/ lock'[q][s] >= Cardinality(Task)
           \/ /\ ~(lock[q][s] >= Cardinality(Task))
              /\ Avail(q, s)' + Owing(q, s) <= Avail(q, s) + Owing(q, s)' + Cardinality(P)
  PROVE  Answered(q, s)'
<1> DEFINE S == OnWay(q, s)
           T == OnWay(q, s)'
<1>1. /\ lock[q][s] \in Nat \cup {-1} /\ Owing(q, s) \in Nat /\ S \in SUBSET Task
      /\ lock'[q][s] \in Nat \cup {-1} /\ Owing(q, s)' \in Nat /\ T \in SUBSET Task
      /\ Avail(q, s) \in Nat /\ Avail(q, s)' \in Nat /\ Cardinality(P) \in Nat
      /\ Cardinality(Task) \in Nat
  <2>1. lock[q][s] \in Nat \cup {-1} /\ Owing(q, s) \in Nat /\ S \in SUBSET Task
    BY LostTypes
  <2>2. lock'[q][s] \in Nat \cup {-1}
    BY CoreTypes DEF Core, Typing
  <2>3. Owing(q, s)' \in Nat
    BY <2>2 DEF Owing
  <2>4. T \in SUBSET Task
    BY DEF OnWay
  <2>5. Avail(q, s) \in Nat
    BY DEF Answered
  <2> QED BY <2>1, <2>2, <2>3, <2>4, <2>5, TaskCounts, TaskFinite
<1>2. k'.waiting[q][s] # <<>> => Enough(q, s, OnWay(q, s))'
  <2> SUFFICES ASSUME k'.waiting[q][s] # <<>>, ~(lock'[q][s] >= Cardinality(Task))
               PROVE  Cardinality(T) + Owing(q, s)' >= Avail(q, s)'
    BY DEF Enough
  <2> HIDE DEF S, T
  <2>1. /\ ~(lock[q][s] >= Cardinality(Task))
        /\ Avail(q, s)' + Owing(q, s) <= Avail(q, s) + Owing(q, s)' + Cardinality(P)
    OBVIOUS
  <2>2. Cardinality(S) + Owing(q, s) >= Avail(q, s)
    BY <2>1 DEF Answered, Enough, S
  <2>3. /\ Cardinality(S \cup P) = Cardinality(S) + Cardinality(P)
        /\ Cardinality(S) \in Nat /\ Cardinality(T) \in Nat
    BY <1>1, TaskCounts DEF S
  <2>4. S \cup P \in SUBSET Task /\ S \cup P \subseteq T
    BY <1>1 DEF S, T
  <2>5. Cardinality(S \cup P) <= Cardinality(T)
    BY <1>1, <2>4, TaskCounts
  <2> QED BY <1>1, <2>1, <2>2, <2>3, <2>5
<1>3. Placing(q, s)' => Enough(q, s, OnWay(q, s) \ {k.current})'
  <2> SUFFICES ASSUME Placing(q, s)', ~(lock'[q][s] >= Cardinality(Task))
               PROVE  Cardinality(T \ {k'.current}) + Owing(q, s)' >= Avail(q, s)'
    BY DEF Enough
  <2> HIDE DEF S, T
  <2>1. /\ ~(lock[q][s] >= Cardinality(Task))
        /\ Avail(q, s)' + Owing(q, s) <= Avail(q, s) + Owing(q, s)' + Cardinality(P)
        /\ Placing(q, s) /\ k'.current = k.current /\ P = {}
    OBVIOUS
  <2>2. Cardinality(S \ {k.current}) + Owing(q, s) >= Avail(q, s)
    BY <2>1 DEF Answered, Enough, S
  <2>3. /\ S \ {k.current} \in SUBSET Task /\ T \ {k'.current} \in SUBSET Task
        /\ S \ {k.current} \subseteq T \ {k'.current}
    BY <1>1, <2>1 DEF S, T
  <2>4. /\ Cardinality(S \ {k.current}) <= Cardinality(T \ {k'.current})
        /\ Cardinality(S \ {k.current}) \in Nat /\ Cardinality(T \ {k'.current}) \in Nat
    BY <2>3, TaskCounts
  <2>5. Cardinality(P) = 0
    BY <2>1, FS_EmptySet
  <2> QED BY <1>1, <2>1, <2>2, <2>4, <2>5
<1> QED BY <1>2, <1>3 DEF Answered

(* Nothing can be used, so nobody is needed.                                  *)
LEMMA AnsweredNone ==
  ASSUME Core', NEW q \in Queue, NEW s \in Side, Avail(q, s)' = 0
  PROVE  Answered(q, s)'
<1>1. lock'[q][s] \in Nat \cup {-1}
  BY DEF Core, Typing
<1>2. Owing(q, s)' \in Nat
  BY <1>1 DEF Owing
<1>3. \A S \in SUBSET Task : Cardinality(S) + Owing(q, s)' >= Avail(q, s)'
  BY <1>2, TaskCounts
<1>4. OnWay(q, s)' \in SUBSET Task /\ OnWay(q, s)' \ {k'.current} \in SUBSET Task
  BY DEF OnWay
<1>5. Enough(q, s, OnWay(q, s))' /\ Enough(q, s, OnWay(q, s) \ {k.current})'
  BY <1>3, <1>4 DEF Enough
<1> QED BY <1>5 DEF Answered

(* One that was on its way has used q.                                        *)
LEMMA AnsweredUsed ==
  ASSUME Core, Core', NEW q \in Queue, NEW s \in Side, Answered(q, s), NEW t \in OnWay(q, s),
         OnWay(q, s) \ {t} \subseteq OnWay(q, s)',
         Avail(q, s)' \in Nat, Avail(q, s)' = Avail(q, s) - 1,
         k'.waiting[q][s] # <<>> => k.waiting[q][s] # <<>>, ~Placing(q, s)', lock' = lock
  PROVE  Answered(q, s)'
<1> DEFINE S == OnWay(q, s)
           T == OnWay(q, s)'
<1>1. S \in SUBSET Task /\ T \in SUBSET Task /\ t \in Task /\ t \in S /\ S \ {t} \subseteq T
  BY DEF OnWay
<1>2. lock[q][s] \in Nat \cup {-1} /\ Owing(q, s) \in Nat /\ Owing(q, s)' = Owing(q, s)
  BY LostTypes DEF Owing
<1>3. k'.waiting[q][s] # <<>> => Enough(q, s, OnWay(q, s))'
  <2> SUFFICES ASSUME k'.waiting[q][s] # <<>>, ~(lock'[q][s] >= Cardinality(Task))
               PROVE  Cardinality(T) + Owing(q, s)' >= Avail(q, s)'
    BY DEF Enough
  <2> HIDE DEF S, T
  <2>1. Cardinality(S) + Owing(q, s) >= Avail(q, s) /\ Avail(q, s) \in Nat
    BY DEF Answered, Enough, S
  <2>2. Cardinality(S \ {t}) = Cardinality(S) - 1 /\ Cardinality(S) \in Nat
    BY <1>1, TaskCounts
  <2>3. S \ {t} \in SUBSET Task
    BY <1>1
  <2>4. Cardinality(S \ {t}) <= Cardinality(T) /\ Cardinality(T) \in Nat
    BY <1>1, <2>3, TaskCounts
  <2> QED BY <1>2, <2>1, <2>2, <2>4
<1> QED BY <1>3 DEF Answered

-----------------------------------------------------------------------------
(* Who stays on the way to a queue when a task goes on with its call, ...     *)
Remains(t, l, c) ==
  \/ pc[t] \in {"app", "disinherit"} \/ call[t].q = "none"
  \/ l \notin {"app", "disinherit"} /\ c.q = call[t].q /\ c.side = call[t].side

(* A step within one call takes at most that task off its way to its queue. *)
LEMMA MovesOnWay ==
  ASSUME NEW t \in Task, NEW l, NEW c, Moves(t, l, c), Trims(k, k'),
         NEW q \in Queue, NEW s \in Side
  PROVE  /\ OnWay(q, s) \ {t} \subseteq OnWay(q, s)'
         /\ Remains(t, l, c) => OnWay(q, s) \subseteq OnWay(q, s)'
         /\ <<q, s>> # <<call[t].q, call[t].side>> => OnWay(q, s) \subseteq OnWay(q, s)'
<1>1. \A u \in Task : Contains(k'.waiting[q][s], u) => Contains(k.waiting[q][s], u)
  BY DEF Trims
<1>2. ASSUME NEW u \in OnWay(q, s), u # t
      PROVE  u \in OnWay(q, s)'
  BY <1>1, <1>2 DEF OnWay, Moves
<1>3. ASSUME t \in OnWay(q, s), Remains(t, l, c)
      PROVE  t \in OnWay(q, s)'
  <2>1. /\ call[t].q = q /\ call[t].side = s /\ pc[t] \notin {"app", "disinherit"}
        /\ ~Contains(k'.waiting[q][s], t)
    BY <1>1, <1>3 DEF OnWay
  <2>2. l \notin {"app", "disinherit"} /\ c.q = q /\ c.side = s
    BY <1>3, <2>1, QueueAssumption DEF Remains, QueueAssumption
  <2> QED BY <2>1, <2>2 DEF OnWay, Moves
<1>4. t \in OnWay(q, s) => <<q, s>> = <<call[t].q, call[t].side>>
  BY DEF OnWay
<1> QED BY <1>2, <1>3, <1>4

(* ... or nobody does.                                                        *)
LEMMA RestsOnWay ==
  ASSUME Rests, Trims(k, k'), NEW q \in Queue, NEW s \in Side
  PROVE  OnWay(q, s) \subseteq OnWay(q, s)'
BY DEF Rests, Trims, OnWay

(* Who is about to wait.                                                      *)
LEMMA MovesPlacing ==
  ASSUME Core, Core', NEW t \in Task, k.current = t, NEW l, NEW c, Moves(t, l, c), l # "place",
         NEW q, NEW s
  PROVE  ~Placing(q, s)'
<1>1. k'.current \in Task
  BY DEF Core, Good, Kernel
<1>2. \A u \in Task : u # t => pc[u] # "place"
  BY DEF Core, Control, Critical
<1> QED BY <1>1, <1>2 DEF Moves, Placing

(* A step within no call keeps the task that is about to block.             *)
LEMMA RestsPlacing ==
  ASSUME Core, Core', Rests, NEW q, NEW s, Placing(q, s)'
  PROVE  Placing(q, s) /\ k'.current = k.current
<1>1. k'.current \in Task
  BY DEF Core, Good, Kernel
<1>2. \A u \in Task : u # k.current => pc[u] # "place"
  BY DEF Core, Control, Critical
<1> QED BY <1>1, <1>2 DEF Rests, Placing

(* Steps that leave the queues alone.                                         *)
LEMMA AnsweredSame ==
  ASSUME Core, Core', Trims(k, k'), NEW q \in Queue, NEW s \in Side, Answered(q, s),
         count'[q] = count[q], lock'[q][s] = lock[q][s],
         OnWay(q, s) \subseteq OnWay(q, s)',
         Placing(q, s)' => Placing(q, s) /\ k'.current = k.current
  PROVE  Answered(q, s)'
<1>1. /\ Avail(q, s)' = Avail(q, s) /\ Owing(q, s)' = Owing(q, s)
      /\ Avail(q, s) \in Nat /\ Owing(q, s) \in Nat
  BY LostTypes DEF Avail, Owing, Answered
<1>2. lock'[q][s] >= Cardinality(Task) <=> lock[q][s] >= Cardinality(Task)
  OBVIOUS
<1>3. k'.waiting[q][s] # <<>> => k.waiting[q][s] # <<>>
  BY StillWaits
<1>4. Cardinality({}) = 0 /\ {} \in SUBSET Task
  BY FS_EmptySet
<1>5. /\ \A t \in {} : t \notin OnWay(q, s)
      /\ OnWay(q, s) \cup {} \subseteq OnWay(q, s)'
      /\ Placing(q, s)' => Placing(q, s) /\ k'.current = k.current /\ {} = {}
      /\ Avail(q, s)' + Owing(q, s) <= Avail(q, s) + Owing(q, s)' + Cardinality({})
      /\ Avail(q, s)' \in Nat
  BY <1>1, <1>4
<1> QED BY <1>2, <1>3, <1>4, <1>5, AnsweredMore

(* A step within one call that stays on its way leaves nobody waiting in    *)
(* vain.                                                                    *)
LEMMA MovesAnswered ==
  ASSUME Core, Core', Trims(k, k'), AllAnswered, NEW t \in Task, k.current = t, NEW l, NEW c,
         Moves(t, l, c), l # "place", Remains(t, l, c), count' = count, lock' = lock
  PROVE  AllAnswered'
<1> SUFFICES ASSUME NEW q \in Queue, NEW s \in Side
             PROVE  Answered(q, s)'
  BY DEF AllAnswered
<1>1. OnWay(q, s) \subseteq OnWay(q, s)' /\ ~Placing(q, s)' /\ Answered(q, s)
  BY MovesOnWay, MovesPlacing DEF AllAnswered
<1> QED BY <1>1, AnsweredSame

(* A step outside of calls that changes no count and no lock does so        *)
(* neither.                                                                 *)
LEMMA RestsAnswered ==
  ASSUME Core, Core', Trims(k, k'), AllAnswered, Rests, count' = count, lock' = lock
  PROVE  AllAnswered'
<1> SUFFICES ASSUME NEW q \in Queue, NEW s \in Side
             PROVE  Answered(q, s)'
  BY DEF AllAnswered
<1>1. /\ OnWay(q, s) \subseteq OnWay(q, s)' /\ Answered(q, s)
      /\ Placing(q, s)' => Placing(q, s) /\ k'.current = k.current
  BY RestsOnWay, RestsPlacing DEF AllAnswered
<1> QED BY <1>1, AnsweredSame

(* A call finds that its queue cannot be used, and goes to l.                 *)
LEMMA UnreadyAnswered ==
  ASSUME Core, Core', Trims(k, k'), AllAnswered, NEW t \in Task, k.current = t, NEW l, NEW c,
         Moves(t, l, c), call[t].q \in Queue, call[t].side \in Side,
         ~Ready(call[t].q, call[t].side), l = "place" => c.q = call[t].q /\ c.side = call[t].side,
         count' = count, lock' = lock
  PROVE  AllAnswered'
<1> SUFFICES ASSUME NEW q \in Queue, NEW s \in Side
             PROVE  Answered(q, s)'
  BY DEF AllAnswered
<1>1. Answered(q, s)
  BY DEF AllAnswered
<1>2. CASE <<q, s>> = <<call[t].q, call[t].side>>
  <2>1. ~Ready(q, s) /\ Avail(q, s) \in Nat
    BY <1>1, <1>2 DEF Answered
  <2>2. Avail(q, s)' = 0
    BY <2>1, LostTypes DEF Ready, Avail, Side
  <2> QED BY <2>2, AnsweredNone
<1>3. CASE <<q, s>> # <<call[t].q, call[t].side>>
  <2>1. OnWay(q, s) \subseteq OnWay(q, s)'
    BY <1>3, MovesOnWay
  <2>2. ~Placing(q, s)'
    <3>1. CASE l # "place"
      BY <3>1, MovesPlacing
    <3>2. CASE l = "place"
      <4>1. k'.current = t
        <5>1. pc'[t] \in Critical
          BY <3>2 DEF Moves, Critical
        <5> QED BY <5>1 DEF Core, Control
      <4>2. call'[t].q = call[t].q /\ call'[t].side = call[t].side
        BY <3>2 DEF Moves
      <4> QED BY <1>3, <4>1, <4>2 DEF Placing
    <3> QED BY <3>1, <3>2
  <2> QED BY <1>1, <2>1, <2>2, AnsweredSame
<1> QED BY <1>2, <1>3

-----------------------------------------------------------------------------
(* The steps of calls that leave the queues alone.                            *)
LEMMA AnsweredFirst ==
  ASSUME Core, Core', AllAnswered, NEW t \in Task,
         \/ CallYield(t) \/ CallDelay(t) \/ DelayAdd(t) \/ CallSuspend(t) \/ AfterSuspend(t)
         \/ CallResume(t) \/ CallPrioritySet(t) \/ CallQueue(t)
  PROVE  AllAnswered'
<1>1. k.current = t
  BY DEF CallYield, CallDelay, DelayAdd, CallSuspend, AfterSuspend, CallResume, CallPrioritySet,
         CallQueue, May, Running
<1>2. CASE CallYield(t) \/ CallResume(t) \/ CallPrioritySet(t)
  <2>1. Rests /\ QueuesStay /\ Quietly(k, k')
    BY <1>2, CallYieldStep, CallResumeStep, CallPrioritySetStep, QuietFirst, QuietLater
  <2> QED BY <2>1, RestsAnswered DEF QueuesStay, Quietly
<1>3. CASE CallDelay(t)
  <2>1. PICK n \in 1 .. MaxDelay :
          /\ Runs(t, "app") /\ QueuesStay
          /\ Moves(t, "delay", [NoCall EXCEPT !.ticks = n, !.then = "yield"])
    BY <1>3, CallDelayStep
  <2>2. Quietly(k, k')
    BY <1>3, QuietFirst
  <2>3. pc[t] = "app"
    BY <2>1 DEF Runs
  <2> QED BY <1>1, <2>1, <2>2, <2>3, MovesAnswered DEF QueuesStay, Quietly, Remains
<1>4. CASE DelayAdd(t)
  <2>1. Moves(t, "resume", call[t]) /\ QueuesStay /\ SameWait(k, k') /\ call[t].q = "none"
    BY <1>4, DelayAddStep
  <2>2. Trims(k, k')
    BY <2>1, ThinnedSelf DEF SameWait, Trims
  <2> QED BY <1>1, <2>1, <2>2, MovesAnswered DEF QueuesStay, Remains
<1>5. CASE CallSuspend(t)
  <2>1. PICK u \in Task :
          /\ Runs(t, "app") /\ QueuesStay
          /\ Moves(t, IF u = t THEN "suspendself" ELSE "suspended", NoCall)
    BY <1>5, CallSuspendStep
  <2>2. Quietly(k, k')
    BY <1>5, QuietFirst
  <2>3. pc[t] = "app" /\ (IF u = t THEN "suspendself" ELSE "suspended") # "place"
    BY <2>1 DEF Runs
  <2> QED BY <1>1, <2>1, <2>2, <2>3, MovesAnswered DEF QueuesStay, Quietly, Remains
<1>6. CASE AfterSuspend(t)
  <2>1. /\ Runs(t, pc[t]) /\ pc[t] \in {"suspendself", "suspended"}
        /\ Moves(t, "app", NoCall) /\ QueuesStay
    BY <1>6, AfterSuspendStep
  <2>2. Quietly(k, k')
    BY <1>6, QuietFirst
  <2>3. call[t].q = "none"
    BY <2>1 DEF Runs, CallOf, NoCall
  <2> QED BY <1>1, <2>1, <2>2, <2>3, MovesAnswered DEF QueuesStay, Quietly, Remains
<1>7. CASE CallQueue(t)
  <2>1. PICK q \in Queue, s \in Side, n \in 0 .. MaxDelay :
          /\ Runs(t, "app") /\ QueuesStay
          /\ Moves(t, "try", [NoCall EXCEPT !.q = q, !.side = s, !.ticks = n])
    BY <1>7, CallQueueStep
  <2>2. Quietly(k, k')
    BY <1>7, QuietLater
  <2>3. pc[t] = "app"
    BY <2>1 DEF Runs
  <2> QED BY <1>1, <2>1, <2>2, <2>3, MovesAnswered DEF QueuesStay, Quietly, Remains
<1> QED BY <1>2, <1>3, <1>4, <1>5, <1>6, <1>7

(* Steps of a call before the queue is locked and after it is unlocked.     *)
LEMMA AnsweredLater ==
  ASSUME Core, Core', AllAnswered, NEW t \in Task,
         \/ NoteTime(t) \/ SuspendAll(t) \/ CallResumeAll(t) \/ YieldAfter(t) \/ Disinherit(t)
  PROVE  AllAnswered'
<1>1. k.current = t
  BY DEF NoteTime, SuspendAll, CallResumeAll, YieldAfter, Disinherit, Running
<1>2. CASE NoteTime(t)
  <2>1. PICK c : c \in {call[t], [call[t] EXCEPT !.entry = {k.tick}]} /\ Moves(t, "suspendall", c)
    BY <1>2, NoteTimeStep
  <2>2. QueuesStay /\ Quietly(k, k') /\ call[t] \in CallType
    BY <1>2, NoteTimeStep, QuietFirst, CoreTypes
  <2>3. c.q = call[t].q /\ c.side = call[t].side
    BY <2>1, <2>2 DEF CallType
  <2> QED BY <1>1, <2>1, <2>2, <2>3, MovesAnswered DEF QueuesStay, Quietly, Remains
<1>3. CASE SuspendAll(t)
  <2>1. Moves(t, "lock", call[t]) /\ QueuesStay /\ Quietly(k, k')
    BY <1>3, SuspendAllStep, QuietFirst
  <2> QED BY <1>1, <2>1, MovesAnswered DEF QueuesStay, Quietly, Remains
<1>4. CASE CallResumeAll(t)
  <2> DEFINE c == call[t]
             back == IF c.q = "none" THEN "app" ELSE "try"
             l == IF c.then # "yield" THEN c.then
                  ELSE IF k'.yieldPending THEN back ELSE "yield"
             d == IF c.q = "none" THEN NoCall ELSE [c EXCEPT !.then = "app"]
  <2>1. /\ l \in {"app", "try", "expired", "yield"} /\ (l = "app" => c.q = "none")
        /\ Moves(t, l, d) /\ QueuesStay /\ c \in CallType
    BY <1>4, CallResumeAllStep, CoreTypes
  <2>2. PICK V, W : Resumed(k, k', V, W)
    BY <1>4, CallResumeAllStep
  <2>3. Trims(k, k')
    BY <2>2, WakesTrims DEF Resumed
  <2>4. c.q # "none" => d.q = c.q /\ d.side = c.side
    BY <2>1 DEF CallType
  <2> HIDE DEF l, d
  <2>5. Remains(t, l, d)
    BY <2>1, <2>4 DEF Remains
  <2> QED BY <1>1, <2>1, <2>3, <2>5, MovesAnswered DEF QueuesStay
<1>5. CASE YieldAfter(t)
  <2>1. QueuesStay /\ Quietly(k, k')
    BY <1>5, YieldAfterStep, QuietLater
  <2>2. CASE call[t].q = "none"
    BY <1>1, <1>5, <2>1, <2>2, YieldAfterStep, MovesAnswered DEF QueuesStay, Quietly, Remains
  <2>3. CASE call[t].q # "none"
    BY <1>1, <1>5, <2>1, <2>3, YieldAfterStep, MovesAnswered DEF QueuesStay, Quietly, Remains
  <2> QED BY <2>2, <2>3
<1>6. CASE Disinherit(t)
  <2>1. Runs(t, "disinherit") /\ Moves(t, "app", NoCall) /\ QueuesStay /\ Quietly(k, k')
    BY <1>6, DisinheritStep, QuietLater
  <2> QED BY <1>1, <2>1, MovesAnswered DEF QueuesStay, Quietly, Remains, Runs
<1> QED BY <1>2, <1>3, <1>4, <1>5, <1>6

(* The steps of calls that find the queue empty or full.                      *)
LEMMA AnsweredUnready ==
  ASSUME Core, Core', AllAnswered, NEW t \in Task, Refuse(t) \/ CheckTimeOut(t) \/ Expire(t)
  PROVE  AllAnswered'
<1>1. k.current = t
  BY DEF Refuse, CheckTimeOut, Expire, Running
<1>2. CASE Refuse(t)
  <2>1. /\ Moves(t, "app", NoCall) /\ QueuesStay /\ Quietly(k, k')
        /\ call[t].q \in Queue /\ call[t].side \in Side /\ ~Ready(call[t].q, call[t].side)
    BY <1>2, RefuseStep, QuietFirst
  <2> QED BY <1>1, <2>1, UnreadyAnswered DEF QueuesStay, Quietly
<1>3. CASE CheckTimeOut(t)
  <2> DEFINE c == call[t]
             free == Ready(c.q, c.side)
             d == [c EXCEPT !.ticks = 0, !.then = "expired"]
             e == [c EXCEPT !.then = IF free THEN "try" ELSE "yield",
                            !.ticks = IF c.ticks = MaxDelay THEN c.ticks ELSE c.ticks - Elapsed(t),
                            !.entry = IF c.entry = {} THEN {} ELSE {k.tick}]
  <2>1. /\ c.q \in Queue /\ c.side \in Side /\ QueuesStay /\ Trims(k, k') /\ c \in CallType
        /\ TimedOut(t) => Moves(t, "unlock", d)
        /\ ~TimedOut(t) => Moves(t, IF free THEN "unlock" ELSE "place", e)
    BY <1>3, CheckTimeOutStep, QuietLater, CoreTypes DEF Quietly
  <2>2. /\ d.q = c.q /\ d.side = c.side /\ e.q = c.q /\ e.side = c.side
    BY <2>1 DEF CallType
  <2> HIDE DEF d, e
  <2>3. CASE TimedOut(t)
    BY <1>1, <2>1, <2>2, <2>3, MovesAnswered DEF QueuesStay, Remains
  <2>4. CASE ~TimedOut(t) /\ free
    BY <1>1, <2>1, <2>2, <2>4, MovesAnswered DEF QueuesStay, Remains
  <2>5. CASE ~TimedOut(t) /\ ~free
    BY <1>1, <2>1, <2>2, <2>5, UnreadyAnswered DEF QueuesStay
  <2> QED BY <2>3, <2>4, <2>5
<1>4. CASE Expire(t)
  <2>1. call[t].q \in Queue /\ call[t].side \in Side /\ QueuesStay /\ Trims(k, k')
    BY <1>4, ExpireStep, QuietLater DEF Quietly
  <2>2. CASE Ready(call[t].q, call[t].side)
    BY <1>1, <1>4, <2>1, <2>2, ExpireStep, MovesAnswered DEF QueuesStay, Remains
  <2>3. CASE ~Ready(call[t].q, call[t].side)
    <3>1. PICK l, c : l \in {"disinherit", "app"} /\ Moves(t, l, c)
      BY <1>4, <2>3, ExpireStep
    <3> QED BY <1>1, <2>1, <2>3, <3>1, UnreadyAnswered DEF QueuesStay
  <2> QED BY <2>2, <2>3
<1> QED BY <1>2, <1>3, <1>4

-----------------------------------------------------------------------------
(* A queue is used from one side, and can be used once more from the other.   *)
LEMMA UsedCounts ==
  ASSUME Core, AllAnswered, NEW q \in Queue, NEW s \in Side, Ready(q, s),
         count' = [count EXCEPT ![q] = IF s = "receive" THEN @ - 1 ELSE @ + 1]
  PROVE  /\ Avail(q, s)' = Avail(q, s) - 1 /\ Avail(q, s)' \in Nat
         /\ Avail(q, Other(s))' = Avail(q, Other(s)) + 1 /\ Avail(q, Other(s))' \in Nat
         /\ Other(s) \in Side /\ Other(s) # s /\ Side = {s, Other(s)}
         /\ \A x \in Queue : x # q => count'[x] = count[x]
<1>1. /\ Other(s) \in Side /\ Other(s) # s /\ Side = {s, Other(s)}
      /\ s = "receive" \/ s = "send"
      /\ s = "receive" => Other(s) = "send"
      /\ s = "send" => Other(s) = "receive"
  BY DEF Side, Other
<1>2. /\ count \in [Queue -> Int] /\ Length[q] \in Nat
      /\ Avail(q, s) \in Nat /\ Avail(q, Other(s)) \in Nat
  BY <1>1, CoreTypes, LostTypes DEF AllAnswered, Answered
<1>3. /\ count'[q] = IF s = "receive" THEN count[q] - 1 ELSE count[q] + 1
      /\ \A x \in Queue : x # q => count'[x] = count[x]
  BY <1>2
<1>4. CASE s = "receive"
  BY <1>1, <1>2, <1>3, <1>4 DEF Avail, Ready
<1>5. CASE s = "send"
  BY <1>1, <1>2, <1>3, <1>5 DEF Avail, Ready
<1> QED BY <1>1, <1>3, <1>4, <1>5

(* It is used from the other side: the queue can be used once less.           *)
LEMMA AnsweredLess ==
  ASSUME Core, Core', Trims(k, k'), NEW q \in Queue, NEW s \in Side, Answered(q, s),
         Avail(q, s)' = Avail(q, s) - 1, Avail(q, s)' \in Nat, lock'[q][s] = lock[q][s],
         OnWay(q, s) \subseteq OnWay(q, s)',
         Placing(q, s)' => Placing(q, s) /\ k'.current = k.current
  PROVE  Answered(q, s)'
<1>1. Owing(q, s)' = Owing(q, s) /\ Avail(q, s) \in Nat /\ Owing(q, s) \in Nat
  BY LostTypes DEF Owing, Answered
<1>2. lock'[q][s] >= Cardinality(Task) <=> lock[q][s] >= Cardinality(Task)
  OBVIOUS
<1>3. k'.waiting[q][s] # <<>> => k.waiting[q][s] # <<>>
  BY StillWaits
<1>4. Cardinality({}) = 0 /\ {} \in SUBSET Task
  BY FS_EmptySet
<1>5. /\ \A t \in {} : t \notin OnWay(q, s)
      /\ OnWay(q, s) \cup {} \subseteq OnWay(q, s)'
      /\ Placing(q, s)' => Placing(q, s) /\ k'.current = k.current /\ {} = {}
      /\ Avail(q, s)' + Owing(q, s) <= Avail(q, s) + Owing(q, s)' + Cardinality({})
  BY <1>1, <1>4
<1> QED BY <1>2, <1>3, <1>4, <1>5, AnsweredMore

(* It can be used once more, and the first waiter is woken for that.          *)
LEMMA AnsweredWoken ==
  ASSUME Core, Core', NEW q \in Queue, NEW s \in Side, Answered(q, s), Trims(k, k'),
         NEW a, a.waiting = k.waiting, NEW P, WokeOne(a, k', q, s, P),
         \A u \in P : pc'[u] = pc[u] /\ call'[u] = call[u],
         Avail(q, s)' = Avail(q, s) + 1, lock'[q][s] = lock[q][s], lock[q][s] = -1,
         OnWay(q, s) \subseteq OnWay(q, s)', ~Placing(q, s)'
  PROVE  Answered(q, s)'
<1>1. /\ P = FirstOf(k.waiting[q][s]) /\ P \in SUBSET Task
      /\ \A u \in P : /\ Contains(k.waiting[q][s], u)
                      /\ ~Contains(k'.waiting[q][s], u)
  BY DEF WokeOne, Wakes, Signals
<1>2. \A u \in P : /\ call[u].q = q /\ call[u].side = s
                   /\ pc[u] \notin {"app", "disinherit"}
  BY <1>1 DEF Core, WaitingCalls
<1>3. \A u \in P : u \notin OnWay(q, s) /\ u \in OnWay(q, s)'
  BY <1>1, <1>2 DEF OnWay
<1>4. k'.waiting[q][s] # <<>> => k.waiting[q][s] # <<>>
  BY StillWaits
<1>5. k'.waiting[q][s] # <<>> => Cardinality(P) = 1
  BY <1>1, <1>4, FS_Singleton DEF FirstOf
<1>6. /\ Owing(q, s)' = Owing(q, s) /\ Avail(q, s) \in Nat /\ Owing(q, s) \in Nat
      /\ ~(lock[q][s] >= Cardinality(Task))
  BY LostTypes, TaskFinite DEF Owing, Answered
<1>7. k'.waiting[q][s] # <<>> =>
        Avail(q, s)' + Owing(q, s) <= Avail(q, s) + Owing(q, s)' + Cardinality(P)
  BY <1>5, <1>6
<1>8. OnWay(q, s) \cup P \subseteq OnWay(q, s)' /\ Avail(q, s)' \in Nat
  BY <1>3, <1>6
<1> QED BY <1>1, <1>3, <1>4, <1>6, <1>7, <1>8, AnsweredMore

(* A call goes ahead.                                                         *)
LEMMA SucceedAnswered ==
  ASSUME Core, Core', AllAnswered, NEW t \in Task, Succeed(t)
  PROVE  AllAnswered'
<1>0. PICK q \in Queue, s \in Side : q = call[t].q /\ s = call[t].side
  BY SucceedStep
<1> DEFINE o == Other(s)
<1>1. /\ Runs(t, "try") /\ Ready(q, s) /\ lock' = lock
      /\ count' = [count EXCEPT ![q] = IF s = "receive" THEN @ - 1 ELSE @ + 1]
      /\ Moves(t, "app", NoCall)
  BY <1>0, SucceedStep
<1>2. PICK b, P : Holding(k, b, t, q \in Mutex) /\ WokeOne(b, k', q, o, P)
  BY <1>0, SucceedStep
<1>3. Trims(k, k') /\ k.current = t
  BY <1>1, QuietLater DEF Quietly, Runs
<1>4. /\ Avail(q, s)' = Avail(q, s) - 1 /\ Avail(q, s)' \in Nat
      /\ Avail(q, o)' = Avail(q, o) + 1 /\ Avail(q, o)' \in Nat
      /\ o \in Side /\ o # s /\ Side = {s, o}
      /\ \A x \in Queue : x # q => count'[x] = count[x]
  BY <1>1, UsedCounts
<1> HIDE DEF o
<1>5. Rdy(k, t) /\ pc[t] = "try"
  BY <1>1 DEF Runs
<1>6. \A x \in Queue, z \in Side : ~Contains(k.waiting[x][z], t)
  BY <1>5 DEF Core, Good, EventsApart
<1>7. t \in OnWay(q, s)
  BY <1>0, <1>1, <1>5, <1>6 DEF OnWay
<1>8. b.waiting = k.waiting
  BY <1>2 DEF Holding, SameWait
<1>9. ASSUME NEW x \in Queue, NEW z \in Side
      PROVE  Answered(x, z)'
  <2>1. Answered(x, z) /\ ~Placing(x, z)'
    BY <1>1, <1>3, MovesPlacing DEF AllAnswered
  <2>2. <<x, z>> # <<q, s>> => OnWay(x, z) \subseteq OnWay(x, z)'
    BY <1>0, <1>1, <1>3, MovesOnWay
  <2>3. CASE x # q
    BY <1>1, <1>3, <1>4, <2>1, <2>2, <2>3, AnsweredSame
  <2>4. CASE x = q /\ z = s
    <3>1. OnWay(q, s) \ {t} \subseteq OnWay(q, s)'
      BY <1>1, <1>3, MovesOnWay
    <3>2. k'.waiting[q][s] # <<>> => k.waiting[q][s] # <<>>
      BY <1>1, <1>3, StillWaits
    <3> QED BY <1>1, <1>4, <1>7, <2>1, <2>4, <3>1, <3>2, AnsweredUsed
  <2>5. CASE x = q /\ z = o
    <3>1. \A u \in P : u # t /\ u \in Task
      BY <1>1, <1>2, <1>4, <1>6, <1>8 DEF WokeOne
    <3>2. \A u \in P : pc'[u] = pc[u] /\ call'[u] = call[u]
      BY <1>1, <3>1 DEF Moves
    <3>3. lock[q][o] = -1
      <4>1. pc[k.current] \notin {"check", "place", "unlock", "unlocksend"}
        BY <1>3, <1>5
      <4>2. lock[q][o] # -1 => FALSE
        BY <1>1, <1>4, <4>1 DEF Core, Locks, Side
      <4> QED BY <4>2
    <3> QED BY <1>1, <1>2, <1>3, <1>4, <1>8, <2>1, <2>2, <2>5, <3>2, <3>3, AnsweredWoken
  <2> QED BY <1>4, <2>3, <2>4, <2>5
<1> QED BY <1>9 DEF AllAnswered

-----------------------------------------------------------------------------
(* A mutex is given back.                                                     *)
LEMMA GiveAnswered ==
  ASSUME Core, Core', HoldInv, AllAnswered, NEW t \in Task, NEW m \in Mutex, GiveMutex(t, m)
  PROVE  AllAnswered'
<1> DEFINE s == "send"
           o == "receive"
<1>1. /\ Runs(t, "app") /\ holder[m] = t /\ m \in Queue /\ Rests /\ lock' = lock
      /\ count' = [count EXCEPT ![m] = @ + 1]
  BY GiveMutexStep
<1>2. PICK b, P : Given(k, b, k', t, m, P)
  BY GiveMutexStep
<1>3. Trims(k, k') /\ k.current = t /\ pc[t] = "app"
  BY <1>1, QuietLater DEF Quietly, Runs
<1>4. Ready(m, s)
  <2>1. count[m] = 0 /\ Length[m] = 1
    BY <1>1, CoreTypes, QueueAssumption DEF HoldInv, MutexCounts, QueueAssumption
  <2> QED BY <2>1 DEF Ready
<1>5. /\ Avail(m, s)' = Avail(m, s) - 1 /\ Avail(m, s)' \in Nat
      /\ Avail(m, o)' = Avail(m, o) + 1
      /\ \A x \in Queue : x # m => count'[x] = count[x]
      /\ s \in Side /\ o \in Side /\ Side = {s, o}
  <2>1. s \in Side /\ Other(s) = o /\ s # "receive"
    BY DEF Side, Other
  <2> QED BY <1>1, <1>4, <2>1, UsedCounts
<1>6. b.waiting = k.waiting /\ WokeOne(b, k', m, o, P)
  BY <1>2 DEF Given, Disinherits, Repriced, SameWait
<1>7. lock[m][o] = -1
  BY <1>1, <1>3 DEF Core, Locks
<1> HIDE DEF s, o
<1>8. ASSUME NEW x \in Queue, NEW z \in Side
      PROVE  Answered(x, z)'
  <2>1. /\ Answered(x, z) /\ OnWay(x, z) \subseteq OnWay(x, z)'
        /\ Placing(x, z)' => Placing(x, z) /\ k'.current = k.current
    BY <1>1, <1>3, RestsOnWay, RestsPlacing DEF AllAnswered
  <2>2. ~Placing(x, z)'
    BY <1>3, <2>1 DEF Placing
  <2>3. CASE x # m
    BY <1>1, <1>3, <1>5, <2>1, <2>3, AnsweredSame
  <2>4. CASE x = m /\ z = s
    BY <1>1, <1>3, <1>5, <2>1, <2>4, AnsweredLess
  <2>5. CASE x = m /\ z = o
    <3>1. \A u \in P : pc'[u] = pc[u] /\ call'[u] = call[u]
      BY <1>1 DEF Rests
    <3> QED BY <1>1, <1>3, <1>5, <1>6, <1>7, <2>1, <2>2, <2>5, <3>1, AnsweredWoken
  <2> QED BY <1>5, <2>3, <2>4, <2>5
<1> QED BY <1>8 DEF AllAnswered

(* prvLockQueue: nothing is owed yet.                                         *)
LEMMA LockAnswered ==
  ASSUME Core, Core', AllAnswered, NEW t \in Task, LockQueue(t)
  PROVE  AllAnswered'
<1>1. /\ call[t].q \in Queue /\ k' = k /\ count' = count
      /\ lock[call[t].q] = [s \in Side |-> -1]
      /\ lock' = [lock EXCEPT ![call[t].q] = [s \in Side |-> 0]]
      /\ Moves(t, "check", call[t]) /\ k.current = t
  BY LockQueueStep DEF Runs
<1>2. Trims(k, k')
  BY QuietFirst DEF Quietly
<1> SUFFICES ASSUME NEW x \in Queue, NEW z \in Side
             PROVE  Answered(x, z)'
  BY DEF AllAnswered
<1>3. Answered(x, z) /\ OnWay(x, z) \subseteq OnWay(x, z)' /\ ~Placing(x, z)'
  BY <1>1, <1>2, MovesOnWay, MovesPlacing DEF AllAnswered, Remains
<1>4. CASE x # call[t].q
  <2>1. lock'[x][z] = lock[x][z]
    BY <1>1, <1>4, CoreTypes
  <2> QED BY <1>1, <1>2, <1>3, <2>1, AnsweredSame
<1>5. CASE x = call[t].q
  <2>1. lock[x][z] = -1 /\ lock'[x][z] = 0
    BY <1>1, <1>5, CoreTypes
  <2>2. Avail(x, z)' = Avail(x, z) /\ Avail(x, z) \in Nat /\ Owing(x, z) = 0 /\ Owing(x, z)' = 0
    BY <1>1, <1>3, <2>1 DEF Avail, Answered, Owing
  <2>3. Cardinality({}) = 0 /\ {} \in SUBSET Task /\ ~(lock[x][z] >= Cardinality(Task))
    BY <2>1, FS_EmptySet, TaskFinite
  <2>4. Avail(x, z)' + Owing(x, z) <= Avail(x, z) + Owing(x, z)' + Cardinality({})
    BY <2>2, <2>3
  <2>5. (\A u \in {} : u \notin OnWay(x, z)) /\ OnWay(x, z) \cup {} \subseteq OnWay(x, z)'
    BY <1>3
  <2> QED BY <1>1, <1>3, <2>2, <2>3, <2>4, <2>5, AnsweredMore
<1> QED BY <1>4, <1>5

(* vTaskPlaceOnEventList: the others on their way were enough.                *)
LEMMA PlaceAnswered ==
  ASSUME Core, Core', AllAnswered, NEW t \in Task, Place(t)
  PROVE  AllAnswered'
<1>1. PICK q \in Queue, s \in Side : q = call[t].q /\ s = call[t].side
  BY PlaceStep
<1>2. PICK b, h : Inherits(k, b, h) /\ Places(b, k', q, s, call[t].ticks) /\ b.current = t
  BY <1>1, PlaceStep
<1>3. PICK i \in BOOLEAN : Moves(t, "unlock", [call[t] EXCEPT !.inherited = i])
  BY PlaceStep
<1>4. k.current = t /\ pc[t] = "place" /\ count' = count /\ lock' = lock /\ call[t] \in CallType
  BY PlaceStep, CoreTypes DEF Runs, QueuesStay
<1>5. b.waiting = k.waiting
  BY <1>2 DEF Inherits, Repriced, SameWait
<1>6. \A x \in Queue, z \in Side, u \in Task :
        Contains(k'.waiting[x][z], u) <=>
          Contains(k.waiting[x][z], u) \/ (x = q /\ z = s /\ u = t)
  BY <1>2, <1>5 DEF Places
<1>7. /\ pc'[t] = "unlock" /\ call'[t].q = q /\ call'[t].side = s
      /\ \A u \in Task : u # t => pc'[u] = pc[u] /\ call'[u] = call[u]
  BY <1>1, <1>3, <1>4 DEF Moves, CallType
<1> SUFFICES ASSUME NEW x \in Queue, NEW z \in Side
             PROVE  Answered(x, z)'
  BY DEF AllAnswered
<1>8. /\ Answered(x, z) /\ Avail(x, z)' = Avail(x, z) /\ Owing(x, z)' = Owing(x, z)
      /\ Avail(x, z) \in Nat /\ Owing(x, z) \in Nat
  BY <1>4, LostTypes DEF AllAnswered, Answered, Avail, Owing
<1>9. ~Placing(x, z)'
  BY <1>3, <1>4, MovesPlacing
<1>10. CASE x = q /\ z = s
  <2>1. Placing(x, z)
    BY <1>1, <1>4, <1>10 DEF Placing
  <2>2. Enough(x, z, OnWay(x, z) \ {t})
    BY <1>4, <1>8, <2>1 DEF Answered
  <2>3. OnWay(x, z) \ {t} \subseteq OnWay(x, z)'
    BY <1>6, <1>7, <1>10 DEF OnWay
  <2>4. OnWay(x, z) \ {t} \in SUBSET Task /\ OnWay(x, z)' \in SUBSET Task
    BY DEF OnWay
  <2>5. /\ Cardinality(OnWay(x, z) \ {t}) <= Cardinality(OnWay(x, z)')
        /\ Cardinality(OnWay(x, z) \ {t}) \in Nat /\ Cardinality(OnWay(x, z)') \in Nat
    BY <2>3, <2>4, TaskCounts
  <2>6. Enough(x, z, OnWay(x, z))'
    BY <1>4, <1>8, <2>2, <2>5 DEF Enough
  <2> QED BY <1>8, <1>9, <2>6 DEF Answered
<1>11. CASE ~(x = q /\ z = s)
  <2>1. OnWay(x, z) \subseteq OnWay(x, z)'
    BY <1>1, <1>6, <1>7, <1>11 DEF OnWay
  <2>2. k'.waiting[x][z] = k.waiting[x][z]
    BY <1>2, <1>5, <1>11 DEF Places
  <2>3. Cardinality({}) = 0 /\ {} \in SUBSET Task
    BY FS_EmptySet
  <2>4. /\ Avail(x, z)' + Owing(x, z) <= Avail(x, z) + Owing(x, z)' + Cardinality({})
        /\ lock'[x][z] >= Cardinality(Task) <=> lock[x][z] >= Cardinality(Task)
    BY <1>4, <1>8, <2>3
  <2>5. (\A u \in {} : u \notin OnWay(x, z)) /\ OnWay(x, z) \cup {} \subseteq OnWay(x, z)'
    BY <2>1
  <2> QED BY <1>8, <1>9, <2>2, <2>3, <2>4, <2>5, AnsweredMore
<1> QED BY <1>10, <1>11

-----------------------------------------------------------------------------
(* prvUnlockQueue: as many waiters are woken as wake-ups are owed, or all.    *)
LEMMA UnlockAnswered ==
  ASSUME Core, Core', AllAnswered, NEW t \in Task, UnlockQueue(t)
  PROVE  AllAnswered'
<1>1. PICK q \in Queue, s \in Side :
        q = call[t].q /\ s = IF pc[t] = "unlock" THEN "receive" ELSE "send"
  BY UnlockQueueStep
<1>2. PICK l \in {"unlocksend", "resume"} : Moves(t, l, call[t])
  BY UnlockQueueStep
<1>3. /\ lock[q][s] \in Nat /\ lock' = [lock EXCEPT ![q] = [lock[q] EXCEPT ![s] = -1]]
      /\ count' = count /\ k.current = t
  BY <1>1, UnlockQueueStep DEF Runs
<1>4. PICK P : WokeMany(k, k', q, s, lock[q][s], P)
  BY <1>1, UnlockQueueStep
<1>5. Trims(k, k')
  BY QuietLater DEF Quietly
<1> SUFFICES ASSUME NEW x \in Queue, NEW z \in Side
             PROVE  Answered(x, z)'
  BY DEF AllAnswered
<1>6. Answered(x, z) /\ OnWay(x, z) \subseteq OnWay(x, z)' /\ ~Placing(x, z)'
  BY <1>2, <1>3, <1>5, MovesOnWay, MovesPlacing DEF AllAnswered, Remains
<1>7. lock \in [Queue -> [Side -> Nat \cup {-1}]]
  BY CoreTypes
<1>8. CASE ~(x = q /\ z = s)
  <2>1. lock'[x][z] = lock[x][z]
    BY <1>3, <1>7, <1>8
  <2> QED BY <1>3, <1>5, <1>6, <2>1, AnsweredSame
<1>9. CASE x = q /\ z = s
  <2>1. /\ P \in SUBSET Task
        /\ \A u \in P : Contains(k.waiting[q][s], u) /\ ~Contains(k'.waiting[q][s], u)
        /\ k'.waiting[q][s] = <<>> \/ Cardinality(P) = lock[q][s]
    BY <1>4 DEF WokeMany, Signals
  <2>2. \A u \in P : /\ call[u].q = q /\ call[u].side = s
                     /\ pc[u] \notin {"app", "disinherit"} /\ u # Idle
    BY <2>1 DEF Core, WaitingCalls, IdleReady, Good, EventsApart
  <2>3. \A u \in P : /\ call'[u].q = q /\ call'[u].side = s
                     /\ pc'[u] \notin {"app", "disinherit"}
    BY <1>2, <2>1, <2>2 DEF Moves
  <2>4. (\A u \in P : u \notin OnWay(x, z)) /\ OnWay(x, z) \cup P \subseteq OnWay(x, z)'
    BY <1>6, <1>9, <2>1, <2>3 DEF OnWay
  <2>5. Cardinality(P) \in Nat /\ Cardinality(P) < Cardinality(Task)
    <3>1. Task \in SUBSET Task /\ Idle \in Task /\ Cardinality(Task) \in Nat
      BY CoreTypes, TaskFinite
    <3>2. Cardinality(Task \ {Idle}) = Cardinality(Task) - 1
      BY <3>1, TaskCounts
    <3>3. P \subseteq Task \ {Idle} /\ Task \ {Idle} \in SUBSET Task
      BY <2>1, <2>2
    <3>4. Cardinality(P) <= Cardinality(Task \ {Idle}) /\ Cardinality(P) \in Nat
      BY <2>1, <3>3, TaskCounts
    <3> QED BY <3>1, <3>2, <3>4
  <2>6. lock'[x][z] = -1
    BY <1>3, <1>7, <1>9
  <2>7. /\ Owing(x, z)' = 0 /\ Owing(x, z) = lock[x][z]
        /\ Avail(x, z)' = Avail(x, z) /\ Avail(x, z) \in Nat
    BY <1>3, <1>6, <1>9, <2>6 DEF Owing, Avail, Answered
  <2>8. k'.waiting[x][z] # <<>> =>
          /\ ~(lock[x][z] >= Cardinality(Task))
          /\ Avail(x, z)' + Owing(x, z) <= Avail(x, z) + Owing(x, z)' + Cardinality(P)
    BY <1>3, <1>9, <2>1, <2>5, <2>7, TaskFinite
  <2>9. k'.waiting[x][z] # <<>> => k.waiting[x][z] # <<>>
    BY <1>5, StillWaits
  <2> QED BY <1>6, <2>1, <2>4, <2>7, <2>8, <2>9, AnsweredMore
<1> QED BY <1>8, <1>9

(* An interrupt uses a queue, locked or not.                                  *)
LEMMA IsrAnswered ==
  ASSUME Core, Core', AllAnswered, NEW q \in Queue, NEW s \in Side, IsrQueue(q, s)
  PROVE  AllAnswered'
<1> DEFINE o == Other(s)
<1>1. /\ o \in Side /\ Ready(q, s) /\ Rests
      /\ count' = [count EXCEPT ![q] = IF s = "receive" THEN @ - 1 ELSE @ + 1]
      /\ lock[q][o] = -1 => lock' = lock /\ \E P : WokeOne(k, k', q, o, P)
      /\ lock[q][o] # -1 =>
           /\ k' = k /\ lock[q][o] \in Nat
           /\ lock' = [lock EXCEPT ![q] = [lock[q] EXCEPT ![o] =
                 IF lock[q][o] < Cardinality(Task) THEN lock[q][o] + 1 ELSE lock[q][o]]]
  BY IsrQueueStep
<1>2. Trims(k, k')
  BY QuietInterrupts DEF Quietly
<1>3. /\ Avail(q, s)' = Avail(q, s) - 1 /\ Avail(q, s)' \in Nat
      /\ Avail(q, o)' = Avail(q, o) + 1 /\ Avail(q, o)' \in Nat
      /\ o # s /\ Side = {s, o}
      /\ \A x \in Queue : x # q => count'[x] = count[x]
  BY <1>1, UsedCounts
<1> HIDE DEF o
<1>4. lock \in [Queue -> [Side -> Nat \cup {-1}]]
  BY CoreTypes
<1>5. \A x \in Queue, z \in Side : ~(x = q /\ z = o) => lock'[x][z] = lock[x][z]
  BY <1>1, <1>4
<1> SUFFICES ASSUME NEW x \in Queue, NEW z \in Side
             PROVE  Answered(x, z)'
  BY DEF AllAnswered
<1>6. /\ Answered(x, z) /\ OnWay(x, z) \subseteq OnWay(x, z)'
      /\ Placing(x, z)' => Placing(x, z) /\ k'.current = k.current
  BY <1>1, <1>2, RestsOnWay, RestsPlacing DEF AllAnswered
<1>7. CASE x # q
  BY <1>2, <1>3, <1>5, <1>6, <1>7, AnsweredSame
<1>8. CASE x = q /\ z = s
  BY <1>2, <1>3, <1>5, <1>6, <1>8, AnsweredLess
<1>9. CASE x = q /\ z = o /\ lock[q][o] = -1
  <2>1. ~Placing(x, z)'
    <3>1. Placing(x, z) => lock[q][o] # -1
      BY <1>9, <1>1 DEF Placing, Core, Locks, Side
    <3> QED BY <1>6, <1>9, <3>1
  <2>2. PICK P : WokeOne(k, k', q, o, P)
    BY <1>1, <1>9
  <2>3. \A u \in P : pc'[u] = pc[u] /\ call'[u] = call[u]
    BY <1>1 DEF Rests
  <2>4. lock'[q][o] = lock[q][o]
    BY <1>1, <1>9
  <2> QED BY <1>1, <1>2, <1>3, <1>6, <1>9, <2>1, <2>2, <2>3, <2>4, AnsweredWoken
<1>10. CASE x = q /\ z = o /\ lock[q][o] # -1
  <2>1. /\ lock[q][o] \in Nat
        /\ lock'[q][o] = IF lock[q][o] < Cardinality(Task) THEN lock[q][o] + 1 ELSE lock[q][o]
    BY <1>1, <1>4, <1>10
  <2>2. /\ Cardinality({}) = 0 /\ {} \in SUBSET Task /\ Cardinality(Task) \in Nat
    BY FS_EmptySet, TaskFinite
  <2>3. \/ lock'[x][z] >= Cardinality(Task)
        \/ ~(lock[x][z] >= Cardinality(Task)) /\ lock'[x][z] = lock[x][z] + 1
    BY <1>10, <2>1, <2>2
  <2>4. lock'[x][z] = lock[x][z] + 1 => Owing(x, z)' = Owing(x, z) + 1 /\ Owing(x, z) \in Nat
    BY <1>10, <2>1 DEF Owing
  <2>5. Avail(x, z) \in Nat /\ Avail(x, z)' = Avail(x, z) + 1 /\ Avail(x, z)' \in Nat
    BY <1>3, <1>6, <1>10 DEF Answered
  <2>6. \/ lock'[x][z] >= Cardinality(Task)
        \/ /\ ~(lock[x][z] >= Cardinality(Task))
           /\ Avail(x, z)' + Owing(x, z) <= Avail(x, z) + Owing(x, z)' + Cardinality({})
    BY <2>2, <2>3, <2>4, <2>5
  <2>7. k' = k
    BY <1>1, <1>10
  <2>8. (\A u \in {} : u \notin OnWay(x, z)) /\ OnWay(x, z) \cup {} \subseteq OnWay(x, z)'
    BY <1>6
  <2> QED BY <1>6, <2>2, <2>5, <2>6, <2>7, <2>8, AnsweredMore
<1> QED BY <1>3, <1>7, <1>8, <1>9, <1>10

(* The tick, and a switch.                                                    *)
LEMMA RestAnswered ==
  ASSUME Core, Core', AllAnswered, TickIsr \/ PendSV
  PROVE  AllAnswered'
<1>1. CASE TickIsr
  <2>1. Rests /\ QueuesStay
    BY <1>1, TickIsrStep
  <2>2. Trims(k, k')
    <3>1. CASE k.depth > 0
      <4>1. SameData(k, k')
        BY <1>1, <3>1, TickIsrStep
      <4> QED BY <4>1, ThinnedSelf DEF SameData, SameWait, Trims
    <3>2. CASE ~(k.depth > 0)
      <4>1. PICK W : Ticked(k, k', W)
        BY <1>1, <3>2, TickIsrStep
      <4> QED BY <4>1, WakesTrims DEF Ticked
    <3> QED BY <3>1, <3>2
  <2> QED BY <2>1, <2>2, RestsAnswered DEF QueuesStay
<1>2. CASE PendSV
  BY <1>2, PendSVStep, QuietInterrupts, RestsAnswered DEF QueuesStay, Quietly
<1> QED BY <1>1, <1>2

(* Every step keeps every waiter provided for.                              *)
LEMMA AnsweredKept ==
  ASSUME Core, Core', HoldInv, AllAnswered, [Next]_vars
  PROVE  AllAnswered'
<1>1. CASE UNCHANGED vars
  <2>1. k' = k /\ count' = count /\ lock' = lock /\ pc' = pc /\ call' = call
    BY <1>1 DEF vars
  <2>2. \A q, s : /\ Avail(q, s)' = Avail(q, s) /\ Owing(q, s)' = Owing(q, s)
                  /\ Placing(q, s)' <=> Placing(q, s)
    BY <2>1 DEF Avail, Owing, Placing
  <2>3. \A q, s : OnWay(q, s)' = OnWay(q, s)
    BY <2>1 DEF OnWay
  <2>4. ASSUME NEW q \in Queue, NEW s \in Side
        PROVE  Answered(q, s)'
    <3>1. Answered(q, s)
      BY DEF AllAnswered
    <3>2. Enough(q, s, OnWay(q, s))' <=> Enough(q, s, OnWay(q, s))
      BY <2>1, <2>2, <2>3 DEF Enough
    <3>3. Enough(q, s, OnWay(q, s) \ {k.current})' <=> Enough(q, s, OnWay(q, s) \ {k.current})
      BY <2>1, <2>2, <2>3 DEF Enough
    <3> QED BY <2>1, <2>2, <3>1, <3>2, <3>3 DEF Answered
  <2> QED BY <2>4 DEF AllAnswered
<1>2. CASE Next
  <2>1. Step
    BY <1>2 DEF Next
  <2>2. ASSUME NEW t \in Task, TaskStep(t)
        PROVE  AllAnswered'
    BY <2>2, AnsweredFirst, AnsweredLater, AnsweredUnready, SucceedAnswered, GiveAnswered,
       LockAnswered, PlaceAnswered, UnlockAnswered DEF TaskStep
  <2> QED BY <2>1, <2>2, IsrAnswered, RestAnswered DEF Step
<1> QED BY <1>1, <1>2

(* The invariant on waiters holds of the specification.                     *)
LEMMA AnsweredInvariant == Spec => [](Core /\ HoldsAndRuns /\ AllAnswered)
<1>1. Init => Core /\ HoldsAndRuns /\ AllAnswered
  BY InitCore, InitHolds, InitAnswered
<1>2. (Core /\ HoldsAndRuns /\ AllAnswered) /\ [Next]_vars => (Core /\ HoldsAndRuns /\ AllAnswered)'
  BY CoreKept, HoldsKept, AnsweredKept DEF HoldsAndRuns
<1> QED BY <1>1, <1>2, PTL DEF Spec

(* No wake-up is lost between the tasks that wait, those that use a queue,    *)
(* and interrupts that find it locked: tasks are left waiting for a queue     *)
(* that can be used only when another is on its way to it (queue.c,           *)
(* prvLockQueue, prvUnlockQueue and the lock counts of the FromISR calls).    *)
THEOREM WakeUpsArrive == Spec => []NoLostWakeUp
<1>1. Core /\ AllAnswered => NoLostWakeUp
  <2> SUFFICES ASSUME Core, AllAnswered, NEW q \in Queue, NEW s \in Side,
                      k.waiting[q][s] # <<>>, Ready(q, s), lock[q] = Unlocked
               PROVE  \E t \in Task : /\ call[t].q = q /\ call[t].side = s /\ pc[t] # "app"
                                      /\ t \notin ToSet(k.waiting[q][s])
    BY DEF NoLostWakeUp
  <2>1. lock[q][s] = -1 /\ Cardinality(Task) \in Nat
    BY TaskFinite DEF Unlocked, Side
  <2>2. Avail(q, s) > 0 /\ Owing(q, s) = 0 /\ Avail(q, s) \in Nat
    BY <2>1, LostTypes DEF Avail, Ready, Owing, AllAnswered, Answered, Side
  <2>3. Enough(q, s, OnWay(q, s))
    BY DEF AllAnswered, Answered
  <2>4. OnWay(q, s) \in SUBSET Task
    BY DEF OnWay
  <2>5. Cardinality(OnWay(q, s)) > 0
    <3>1. Cardinality(OnWay(q, s)) \in Nat
      BY <2>4, TaskCounts
    <3> QED BY <2>1, <2>2, <2>3, <3>1 DEF Enough
  <2>6. PICK t \in Task : t \in OnWay(q, s)
    <3>1. OnWay(q, s) # {}
      <4>1. Cardinality({}) = 0 /\ ~(0 > 0)
        BY FS_EmptySet
      <4> QED BY <2>5, <4>1
    <3> QED BY <2>4, <3>1
  <2>7. k.waiting[q][s] \in Seq(Task)
    BY LostTypes
  <2>8. t \notin ToSet(k.waiting[q][s])
    BY <2>6, <2>7, ContainsIsIn DEF OnWay
  <2> QED BY <2>6, <2>8 DEF OnWay
<1> QED BY <1>1, AnsweredInvariant, PTL

-----------------------------------------------------------------------------
(* Every step but vTaskPlaceOnEventList only takes tasks out of event lists.  *)
LEMMA StepTrims ==
  ASSUME Core, Step
  PROVE  Trims(k, k') \/ \E t \in Task : Place(t)
<1>1. ASSUME NEW t \in Task, TaskStep(t), ~Place(t)
      PROVE  Trims(k, k')
  <2>1. CASE \/ CallYield(t) \/ CallDelay(t) \/ CallSuspend(t) \/ AfterSuspend(t)
             \/ CallResume(t) \/ Refuse(t) \/ NoteTime(t) \/ SuspendAll(t) \/ LockQueue(t)
    BY <2>1, QuietFirst DEF Quietly
  <2>2. CASE \/ CheckTimeOut(t) \/ UnlockQueue(t) \/ YieldAfter(t) \/ Expire(t)
             \/ CallQueue(t) \/ Succeed(t) \/ CallPrioritySet(t) \/ Disinherit(t)
             \/ \E m \in Mutex : GiveMutex(t, m)
    BY <2>2, QuietLater DEF Quietly
  <2>3. CASE DelayAdd(t)
    BY <2>3, DelayAddStep, ThinnedSelf DEF SameWait, Trims
  <2>4. CASE CallResumeAll(t)
    <3>1. PICK V, W : Resumed(k, k', V, W)
      BY <2>4, CallResumeAllStep
    <3> QED BY <3>1, WakesTrims DEF Resumed
  <2> QED BY <1>1, <2>1, <2>2, <2>3, <2>4 DEF TaskStep
<1>2. CASE \/ \E q \in Queue, s \in Side : IsrQueue(q, s)
           \/ PendSV
  BY <1>2, QuietInterrupts DEF Quietly
<1>3. CASE TickIsr
  <2>1. CASE k.depth > 0
    BY <1>3, <2>1, TickIsrStep, ThinnedSelf DEF SameData, SameWait, Trims
  <2>2. CASE ~(k.depth > 0)
    <3>1. PICK W : Ticked(k, k', W)
      BY <1>3, <2>2, TickIsrStep
    <3> QED BY <3>1, WakesTrims DEF Ticked
  <2> QED BY <2>1, <2>2
<1> QED BY <1>1, <1>2, <1>3 DEF Step

(* Who waits for a mutex is in a call on it.                                  *)
Queued(m, w) == Contains(k.waiting[m]["receive"], w)

(* It is past the place where it blocked, and blocked still.                  *)
LEMMA QueuedCalls ==
  ASSUME Core, NEW m \in Mutex, NEW w \in Task, Queued(m, w)
  PROVE  /\ call[w].q = m /\ pc[w] # "app" /\ ~Rdy(k, w)
         /\ pc[w] \in {"unlock", "unlocksend", "resume", "yield", "try"}
<1>1. m \in Queue /\ "receive" \in Side
  BY CoreTypes DEF Side
<1> QED BY <1>1 DEF Core, WaitingCalls, Queued, Good, EventsApart

-----------------------------------------------------------------------------
(* The clients keep to one mutex each, and whoever holds or awaits a mutex is *)
(* one that may.                                                              *)
Disciplined ==
  /\ OneMutexEach(client)
  /\ \A t \in Task, m \in Mutex : holder[m] = t \/ call[t].q = m => Uses(client, t, m)

(* Who holds one mutex and is in a call on another is in one on that.         *)
LEMMA OneMutex ==
  ASSUME Disciplined, NEW t \in Task, NEW m \in Mutex, NEW n \in Mutex,
         holder[m] = t \/ call[t].q = m, holder[n] = t \/ call[t].q = n
  PROVE  m = n
BY DEF Disciplined, OneMutexEach

(* A task outside of calls is in no call on a mutex.                          *)
LEMMA AppFree ==
  ASSUME Core, NEW t \in Task, pc[t] = "app", NEW m \in Mutex
  PROVE  call[t].q # m
<1>1. call[t] = NoCall
  BY DEF Core, Calls, CallOf
<1>2. "none" \notin Queue /\ m \in Queue
  BY CoreTypes
<1> QED BY <1>1, <1>2 DEF NoCall

(* A task calls only what its client says.                                    *)
LEMMA DisciplineKept ==
  ASSUME Core, Disciplined, [Next]_vars
  PROVE  Disciplined'
<1>1. CASE UNCHANGED vars
  BY <1>1 DEF vars, Disciplined, OneMutexEach, Uses
<1>2. CASE Next
  <2>1. client' = client /\ Step
    BY <1>2 DEF Next, Histories
  <2>2. OneMutexEach(client)'
    BY <2>1 DEF Disciplined
  <2>3. ASSUME NEW t \in Task, NEW m \in Mutex, holder'[m] = t \/ call'[t].q = m
        PROVE  Uses(client, t, m)
    <3>0. m \in Queue /\ "none" \notin Queue
      BY CoreTypes
    <3>1. \/ holder[m] = t \/ call[t].q = m
          \/ \E u \in Task : Succeed(u) \/ CallQueue(u)
          \/ \E u \in Task, n \in Mutex : GiveMutex(u, n)
      <4>1. ASSUME Plain
            PROVE  holder[m] = t \/ call[t].q = m
        BY <2>3, <3>0, <4>1 DEF Plain
      <4>2. ASSUME NEW u \in Task, TaskStep(u), ~Succeed(u), ~CallQueue(u),
                   ~\E n \in Mutex : GiveMutex(u, n)
            PROVE  holder[m] = t \/ call[t].q = m
        <5>1. CASE \/ CallYield(u) \/ CallDelay(u) \/ DelayAdd(u) \/ CallSuspend(u)
                   \/ AfterSuspend(u) \/ CallResume(u) \/ Refuse(u) \/ NoteTime(u)
                   \/ SuspendAll(u) \/ LockQueue(u)
          BY <4>1, <5>1, FirstSteps
        <5>2. CASE \/ CheckTimeOut(u) \/ UnlockQueue(u) \/ CallResumeAll(u) \/ YieldAfter(u)
                   \/ Expire(u)
          BY <4>1, <5>2, LaterSteps
        <5>3. CASE CallPrioritySet(u)
          BY <2>3, <5>3, CallPrioritySetStep DEF Rests, QueuesStay
        <5>4. CASE Place(u)
          <6>1. PICK i \in BOOLEAN : Moves(u, "unlock", [call[u] EXCEPT !.inherited = i])
            BY <5>4, PlaceStep
          <6>2. call[u].q \in Queue /\ holder' = holder /\ call[u] \in CallType
            BY <5>4, PlaceStep, CoreTypes DEF QueuesStay
          <6>3. [call[u] EXCEPT !.inherited = i].q = call[u].q
            BY <6>2 DEF CallType
          <6> QED BY <2>3, <6>1, <6>2, <6>3 DEF Moves
        <5>5. CASE Disinherit(u)
          <6>1. Moves(u, "app", NoCall) /\ holder' = holder
            BY <5>5, DisinheritStep DEF QueuesStay
          <6>2. NoCall.q # m
            BY <3>0 DEF NoCall
          <6> QED BY <2>3, <6>1, <6>2 DEF Moves
        <5> QED BY <4>2, <5>1, <5>2, <5>3, <5>4, <5>5 DEF TaskStep
      <4>3. CASE \/ \E q \in Queue, s \in Side : IsrQueue(q, s)
                 \/ TickIsr \/ PendSV
        BY <4>1, <4>3, InterruptSteps, SwitchSteps
      <4> QED BY <2>1, <4>2, <4>3 DEF Step
    <3>2. ASSUME NEW u \in Task, Succeed(u)
          PROVE  holder[m] = t \/ call[t].q = m
      <4>1. /\ holder' = IF call[u].q \in Mutex THEN [holder EXCEPT ![call[u].q] = u] ELSE holder
            /\ Moves(u, "app", NoCall)
        BY <3>2, SucceedStep
      <4>2. NoCall.q # m
        BY <3>0 DEF NoCall
      <4> QED BY <2>3, <4>1, <4>2, CoreTypes DEF Moves
    <3>3. ASSUME NEW u \in Task, CallQueue(u)
          PROVE  Uses(client, t, m)
      <4>1. PICK q \in Queue, s \in Side, n \in 0 .. MaxDelay :
              /\ <<s, q, n>> \in client.calls[u] /\ (q \in Mutex => s = "receive")
              /\ call' = [call EXCEPT ![u] = [NoCall EXCEPT !.q = q, !.side = s, !.ticks = n]]
              /\ holder' = holder
        BY <3>3 DEF CallQueue, May, Queues
      <4>2. [NoCall EXCEPT !.q = q, !.side = s, !.ticks = n].q = q
        BY DEF NoCall
      <4>3. CASE t = u /\ call'[t].q = m
        <5>1. q = m /\ s = "receive"
          BY <4>1, <4>2, <4>3, CoreTypes
        <5> QED BY <4>1, <4>3, <5>1 DEF Uses
      <4>4. CASE ~(t = u /\ call'[t].q = m)
        BY <2>3, <4>1, <4>4, CoreTypes DEF Disciplined
      <4> QED BY <4>3, <4>4
    <3>4. ASSUME NEW u \in Task, NEW n \in Mutex, GiveMutex(u, n)
          PROVE  holder[m] = t \/ call[t].q = m
      <4>1. holder' = [holder EXCEPT ![n] = NoTask] /\ Rests
        BY <3>4, GiveMutexStep
      <4> QED BY <2>3, <4>1, CoreTypes DEF Rests
    <3> QED BY <3>1, <3>2, <3>3, <3>4 DEF Disciplined
  <2> QED BY <2>1, <2>2, <2>3 DEF Disciplined
<1> QED BY <1>1, <1>2

-----------------------------------------------------------------------------
(* vTaskPrioritySet of a task that uses mutexes is its own call.              *)
LEMMA SetsOwn ==
  ASSUME Core, Disciplined, NEW t \in Task, CallPrioritySet(t)
  PROVE  \E u \in Task, p \in Level :
           /\ Prioritised(k, k', u, p) /\ Runs(t, "app")
           /\ \A m \in Mutex : call[u].q # m
           /\ u # t => \A m \in Mutex : ~Uses(client, u, m)
<1>1. PICK u \in Task, p \in Level : May(t, <<"prio", u, p>>) /\ k' = PrioritySet(k, u, p)
  BY DEF CallPrioritySet
<1>2. Runs(t, "app") /\ Good(k)
  BY <1>1, AtWork DEF May, Core
<1>3. Prioritised(k, k', u, p)
  BY <1>1, <1>2, PrioritySetDoes DEF Prioritised
<1>4. u # t => \A m \in Mutex : ~Uses(client, u, m)
  BY <1>1 DEF May, Disciplined, OneMutexEach
<1>5. \A m \in Mutex : call[t].q # m
  BY <1>2, AppFree DEF Runs
<1> QED BY <1>2, <1>3, <1>4, <1>5 DEF Disciplined

(* While a task is in a call on a mutex its priorities stay what they are.    *)
LEMMA CallersKeep ==
  ASSUME Core, HoldInv, Disciplined, Step, NEW m \in Mutex, NEW v \in Task, call[v].q = m
  PROVE  k'.prio[v] = k.prio[v] /\ k'.base[v] = k.base[v]
<1> DEFINE Fine == k'.prio[v] = k.prio[v] /\ k'.base[v] = k.base[v]
<1>0. k.prio \in [Task -> Level] /\ k.base \in [Task -> Level]
  BY CoreTypes, KernelFields
<1>1. ASSUME Plain
      PROVE  Fine
  BY <1>1 DEF Plain, SamePrio
<1>2. ASSUME NEW t \in Task, TaskStep(t)
      PROVE  Fine
  <2>1. CASE \/ CallYield(t) \/ CallDelay(t) \/ DelayAdd(t) \/ CallSuspend(t) \/ AfterSuspend(t)
             \/ CallResume(t) \/ Refuse(t) \/ NoteTime(t) \/ SuspendAll(t) \/ LockQueue(t)
    BY <1>1, <2>1, FirstSteps
  <2>2. CASE \/ CheckTimeOut(t) \/ UnlockQueue(t) \/ CallResumeAll(t) \/ YieldAfter(t) \/ Expire(t)
    BY <1>1, <2>2, LaterSteps
  <2>3. CASE CallPrioritySet(t)
    <3>1. PICK u \in Task, p \in Level : Prioritised(k, k', u, p) /\ call[u].q # m
      BY <2>3, SetsOwn
    <3>2. u # v
      BY <3>1
    <3> QED BY <1>0, <3>1, <3>2 DEF Prioritised
  <2>4. CASE CallQueue(t)
    BY <2>4, CallQueueStep
  <2>5. CASE Succeed(t)
    <3>1. PICK b, P : Holding(k, b, t, call[t].q \in Mutex) /\ WokeOne(b, k', call[t].q, Other(call[t].side), P)
      BY <2>5, SucceedStep
    <3> QED BY <3>1 DEF Holding, WokeOne, Wakes, Signals, SamePrio
  <2>6. CASE Place(t)
    <3> DEFINE h == IF call[t].q \in Mutex THEN holder[call[t].q] ELSE NoTask
    <3>1. PICK b : Inherits(k, b, h) /\ Places(b, k', call[t].q, call[t].side, call[t].ticks)
      BY <2>6, PlaceStep
    <3>2. h # v
      BY OneMutex, CoreTypes DEF HoldInv, OthersMutex
    <3>3. k'.prio = b.prio /\ k'.base = b.base /\ b.base = k.base
      BY <3>1 DEF Places, SamePrio, Inherits
    <3> HIDE DEF h
    <3>4. b.prio[v] = k.prio[v]
      BY <1>0, <3>1, <3>2 DEF Inherits
    <3> QED BY <3>3, <3>4
  <2>7. CASE Disinherit(t)
    <3>0. call[t].q \in Mutex
      BY <2>7, DisinheritStep
    <3> DEFINE h == holder[call[t].q]
    <3>1. PICK b : Stamped(k, b, t, -1) /\ Lowered(b, k', h, HighestWaiting(call[t].q))
      BY <2>7, DisinheritStep
    <3>2. h # v
      BY <3>0, OneMutex DEF HoldInv, OthersMutex
    <3>3. k'.base = b.base /\ b.base = k.base /\ b.prio = k.prio
      BY <3>1 DEF Stamped, SamePrio, Lowered
    <3> HIDE DEF h
    <3>4. k'.prio[v] = b.prio[v]
      BY <1>0, <3>1, <3>2, <3>3 DEF Lowered
    <3> QED BY <3>3, <3>4
  <2>8. CASE \E n \in Mutex : GiveMutex(t, n)
    <3>1. PICK n \in Mutex : GiveMutex(t, n)
      BY <2>8
    <3>2. PICK b, P : Given(k, b, k', t, n, P)
      BY <3>1, GiveMutexStep
    <3>3. PICK y \in BOOLEAN : Disinherits(k, b, t, y) /\ WokeOne(b, k', n, "receive", P)
      BY <3>2 DEF Given
    <3>4. t # v
      BY <3>1, GiveMutexStep, AppFree DEF Runs
    <3> QED BY <1>0, <3>3, <3>4 DEF Disinherits, WokeOne, Wakes, Signals, SamePrio
  <2> QED BY <1>2, <2>1, <2>2, <2>3, <2>4, <2>5, <2>6, <2>7, <2>8 DEF TaskStep
<1>3. CASE \/ \E q \in Queue, s \in Side : IsrQueue(q, s)
           \/ TickIsr
  BY <1>1, <1>3, InterruptSteps
<1>4. CASE PendSV
  BY <1>1, <1>4, SwitchSteps
<1> QED BY <1>2, <1>3, <1>4 DEF Step

(* Who is about to block on a mutex has found it taken.                       *)
LEMMA StepPlacing ==
  ASSUME Core, Core', HoldInv, Step, NEW m \in Mutex, Placing(m, "receive")',
         Placing(m, "receive") => holder[m] # NoTask
  PROVE  holder'[m] # NoTask
<1>0. m \in Queue /\ count[m] \in Int
  BY CoreTypes
<1>1. ASSUME Rests, holder' = holder
      PROVE  holder'[m] # NoTask
  BY <1>1, RestsPlacing
<1>2. ASSUME NEW t \in Task, k.current = t, NEW l, NEW c, Moves(t, l, c), l # "place"
      PROVE  FALSE
  BY <1>2, MovesPlacing
<1>3. ASSUME NEW t \in Task, TaskStep(t)
      PROVE  holder'[m] # NoTask
  <2>1. CASE CallYield(t) \/ CallResume(t) \/ CallPrioritySet(t)
    BY <1>1, <2>1, CallYieldStep, CallResumeStep, CallPrioritySetStep DEF QueuesStay
  <2>2. CASE CallDelay(t) \/ DelayAdd(t)
    BY <1>2, <2>2, CallDelayStep, DelayAddStep DEF Runs
  <2>3. CASE CallSuspend(t) \/ AfterSuspend(t)
    BY <1>2, <2>3, CallSuspendStep, AfterSuspendStep DEF Runs
  <2>4. CASE CallQueue(t) \/ Succeed(t) \/ Refuse(t)
    BY <1>2, <2>4, CallQueueStep, SucceedStep, RefuseStep DEF Runs
  <2>5. CASE NoteTime(t)
    BY <1>2, <2>5, NoteTimeStep DEF Runs
  <2>6. CASE SuspendAll(t) \/ LockQueue(t)
    BY <1>2, <2>6, SuspendAllStep, LockQueueStep DEF Runs
  <2>7. CASE CheckTimeOut(t)
    <3> DEFINE free == Ready(call[t].q, call[t].side)
    <3>1. /\ Runs(t, "check") /\ call[t].q \in Queue /\ holder' = holder
          /\ \/ \E c : Moves(t, "unlock", c)
             \/ ~free /\ \E c : Moves(t, "place", c) /\ c.q = call[t].q /\ c.side = call[t].side
      <4> DEFINE e == [call[t] EXCEPT
                  !.then = IF free THEN "try" ELSE "yield",
                  !.ticks = IF call[t].ticks = MaxDelay THEN call[t].ticks
                            ELSE call[t].ticks - Elapsed(t),
                  !.entry = IF call[t].entry = {} THEN {} ELSE {k.tick}]
      <4>1. call[t] \in CallType
        BY CoreTypes
      <4>2. e.q = call[t].q /\ e.side = call[t].side
        BY <4>1 DEF CallType
      <4>3. Runs(t, "check") /\ call[t].q \in Queue /\ holder' = holder
        BY <2>7, CheckTimeOutStep DEF QueuesStay
      <4>4. CASE TimedOut(t)
        <5>1. Moves(t, "unlock", [call[t] EXCEPT !.ticks = 0, !.then = "expired"])
          BY <2>7, <4>4, CheckTimeOutStep
        <5> QED BY <4>3, <5>1
      <4>5. CASE ~TimedOut(t)
        <5>1. Moves(t, IF free THEN "unlock" ELSE "place", e)
          BY <2>7, <4>5, CheckTimeOutStep
        <5> HIDE DEF e, free
        <5> QED BY <4>2, <4>3, <5>1
      <4> QED BY <4>4, <4>5
    <3>2. k.current = t
      BY <3>1 DEF Runs
    <3>3. PICK c : ~free /\ Moves(t, "place", c) /\ c.q = call[t].q /\ c.side = call[t].side
      BY <1>2, <3>1, <3>2
    <3>4. k'.current = t
      <4>1. k'.current \in Task /\ pc'[k'.current] = "place"
        BY DEF Core, Good, Kernel, Placing
      <4>2. \A u \in Task : u # t => pc[u] # "place"
        BY <3>2 DEF Core, Control, Critical
      <4> QED BY <3>3, <4>1, <4>2 DEF Moves
    <3>5. call[t].q = m /\ call[t].side = "receive"
      BY <3>3, <3>4 DEF Placing, Moves
    <3>6. count[m] = 0
      BY <3>3, <3>5 DEF Ready, HoldInv, MutexCounts
    <3> QED BY <3>1, <3>6 DEF HoldInv, MutexCounts
  <2>8. CASE Place(t)
    BY <1>2, <2>8, PlaceStep DEF Runs
  <2>9. CASE UnlockQueue(t)
    BY <1>2, <2>9, UnlockQueueStep DEF Runs
  <2>10. CASE CallResumeAll(t)
    BY <1>2, <2>10, CallResumeAllStep DEF Runs
  <2>11. CASE YieldAfter(t)
    BY <1>2, <2>11, YieldAfterStep DEF Runs
  <2>12. CASE Expire(t) \/ Disinherit(t)
    BY <1>2, <2>12, ExpireStep, DisinheritStep DEF Runs
  <2>13. CASE \E n \in Mutex : GiveMutex(t, n)
    <3>1. Runs(t, "app") /\ Rests
      BY <2>13, GiveMutexStep
    <3>2. pc[k.current] = "place"
      BY <3>1, RestsPlacing DEF Placing
    <3> QED BY <3>1, <3>2 DEF Runs
  <2> QED BY <1>3, <2>1, <2>2, <2>3, <2>4, <2>5, <2>6, <2>7, <2>8, <2>9, <2>10, <2>11, <2>12,
             <2>13 DEF TaskStep
<1>4. CASE \/ \E q \in Queue, s \in Side : IsrQueue(q, s)
           \/ TickIsr \/ PendSV
  BY <1>1, <1>4, IsrQueueStep, TickIsrStep, PendSVStep DEF QueuesStay
<1> QED BY <1>3, <1>4 DEF Step

-----------------------------------------------------------------------------
(* b, which has been woken for mutex m, is on its way to take it, and the     *)
(* running task does not come before it: a switch is wanted, or it is no      *)
(* lower than b, or it has nothing to do with m.                              *)
Wanted(m, b) == \/ k.pendSV \/ k.yieldPending \/ k.prio[b] <= k.prio[k.current]
                \/ ~Uses(client, k.current, m)
Coming(m, b) == call[b].q = m /\ pc[b] \in {"yield", "try"} /\ Rdy(k, b)

(* While the mutex is there it does not turn back.                            *)
LEMMA StepComing ==
  ASSUME Core, HoldInv, Disciplined, Step, NEW m \in Mutex, NEW b \in Task,
         holder[m] = NoTask, holder'[m] = NoTask, Coming(m, b)
  PROVE  Coming(m, b)'
<1>0. /\ m \in Queue /\ b \in Task /\ call[b].q = m /\ pc[b] \in {"yield", "try"} /\ Rdy(k, b)
      /\ m # "none" /\ count[m] > 0 /\ call[b].side = "receive" /\ Ready(m, call[b].side)
  BY CoreTypes DEF Coming, HoldInv, MutexCounts, Core, Calls, CallOf, Ready
<1>1. ASSUME Rests, Rdy(k', b)
      PROVE  Coming(m, b)'
  BY <1>0, <1>1 DEF Rests, Coming
<1>2. ASSUME NEW t, NEW l, NEW c, Moves(t, l, c), b # t, Rdy(k', b)
      PROVE  Coming(m, b)'
  BY <1>0, <1>2 DEF Moves, Coming
<1>3. ASSUME NEW t \in Task, TaskStep(t)
      PROVE  Coming(m, b)'
  <2>1. CASE CallYield(t)
    BY <1>1, <1>0, <2>1, CallYieldStep DEF Yielded
  <2>2. CASE CallDelay(t)
    <3>1. PICK n \in 1 .. MaxDelay :
            /\ Runs(t, "app") /\ Nested(k, k')
            /\ Moves(t, "delay", [NoCall EXCEPT !.ticks = n, !.then = "yield"])
      BY <2>2, CallDelayStep
    <3>2. b # t /\ Rdy(k', b)
      BY <1>0, <3>1 DEF Runs, Nested
    <3> QED BY <1>2, <3>1, <3>2
  <2>3. CASE DelayAdd(t)
    <3>1. Runs(t, "delay") /\ Blocks(k, k', call[t].ticks, FALSE) /\ Moves(t, "resume", call[t])
      BY <2>3, DelayAddStep
    <3>2. b # t /\ Rdy(k', b)
      BY <1>0, <3>1 DEF Runs, Blocks
    <3> QED BY <1>2, <3>1, <3>2
  <2>4. CASE CallPrioritySet(t)
    BY <1>0, <1>1, <2>4, CallPrioritySetStep DEF Prioritised
  <2>5. CASE CallSuspend(t)
    <3>1. PICK u \in Task : May(t, <<"suspend", u>>) /\ k' = SuspendTask(k, u)
      BY <2>5 DEF CallSuspend
    <3>2. PICK l : Runs(t, "app") /\ Moves(t, l, NoCall)
      BY <2>5, CallSuspendStep
    <3>3. b # t
      BY <1>0, <3>2 DEF Runs
    <3>4. u # b
      BY <1>0, <3>1, <3>3 DEF May, Disciplined, OneMutexEach
    <3>5. Rdy(k', b)
      BY <1>0, <3>1, <3>4, SuspendTaskDoes DEF Core
    <3> QED BY <1>2, <3>2, <3>3, <3>5
  <2>6. CASE AfterSuspend(t)
    <3>1. Runs(t, pc[t]) /\ pc[t] \in {"suspendself", "suspended"} /\ Moves(t, "app", NoCall)
          /\ Rdy(k', b)
      BY <1>0, <2>6, AfterSuspendStep
    <3>2. b # t
      BY <1>0, <3>1
    <3> QED BY <1>2, <3>1, <3>2
  <2>7. CASE CallResume(t)
    <3>1. PICK u \in Task \ {t}, W \in SUBSET Task : Rewoken(k, k', u, W) /\ Rests
      BY <2>7, CallResumeStep
    <3>2. Rdy(k', b)
      BY <1>0, <3>1 DEF Rewoken, Wakes
    <3> QED BY <1>1, <3>1, <3>2
  <2>8. CASE CallQueue(t)
    <3>1. PICK c : Runs(t, "app") /\ Moves(t, "try", c) /\ k' = k
      BY <2>8, CallQueueStep
    <3>2. b # t /\ Rdy(k', b)
      BY <1>0, <3>1 DEF Runs
    <3> QED BY <1>2, <3>1, <3>2
  <2>9. CASE Succeed(t)
    <3>1. PICK a, P : /\ Holding(k, a, t, call[t].q \in Mutex) /\ a.depth = 0
                      /\ WokeOne(a, k', call[t].q, Other(call[t].side), P)
      BY <2>9, SucceedStep
    <3>2. /\ Moves(t, "app", NoCall)
          /\ holder' = IF call[t].q \in Mutex THEN [holder EXCEPT ![call[t].q] = t] ELSE holder
      BY <2>9, SucceedStep
    <3>3. b # t
      BY <1>0, <3>2, CoreTypes
    <3>4. Rdy(k', b)
      BY <1>0, <3>1 DEF Holding, WokeOne, Wakes
    <3> QED BY <1>2, <3>2, <3>3, <3>4
  <2>10. CASE Refuse(t)
    <3>1. ~Ready(call[t].q, call[t].side) /\ Stamped(k, k', t, -1) /\ Moves(t, "app", NoCall)
      BY <2>10, RefuseStep
    <3>2. b # t /\ Rdy(k', b)
      BY <1>0, <3>1 DEF Stamped
    <3> QED BY <1>2, <3>1, <3>2
  <2>11. CASE NoteTime(t)
    <3>1. PICK c : ~Ready(call[t].q, call[t].side) /\ Moves(t, "suspendall", c)
                   /\ (k' = k \/ Stamped(k, k', t, 0))
      BY <2>11, NoteTimeStep
    <3>2. b # t /\ Rdy(k', b)
      BY <1>0, <3>1 DEF Stamped
    <3> QED BY <1>2, <3>1, <3>2
  <2>12. CASE SuspendAll(t)
    <3>1. Runs(t, "suspendall") /\ Nested(k, k') /\ Moves(t, "lock", call[t])
      BY <2>12, SuspendAllStep
    <3>2. b # t /\ Rdy(k', b)
      BY <1>0, <3>1 DEF Runs, Nested
    <3> QED BY <1>2, <3>1, <3>2
  <2>13. CASE LockQueue(t)
    <3>1. Runs(t, "lock") /\ k' = k /\ Moves(t, "check", call[t])
      BY <2>13, LockQueueStep
    <3>2. b # t /\ Rdy(k', b)
      BY <1>0, <3>1 DEF Runs
    <3> QED BY <1>2, <3>1, <3>2
  <2>14. CASE CheckTimeOut(t)
    <3>1. PICK l, c : Runs(t, "check") /\ Moves(t, l, c) /\ (k' = k \/ Stamped(k, k', t, 0))
      BY <2>14, CheckTimeOutStep
    <3>2. b # t /\ Rdy(k', b)
      BY <1>0, <3>1 DEF Runs, Stamped
    <3> QED BY <1>2, <3>1, <3>2
  <2>15. CASE Place(t)
    <3> DEFINE h == IF call[t].q \in Mutex THEN holder[call[t].q] ELSE NoTask
    <3>1. PICK a : Inherits(k, a, h) /\ Places(a, k', call[t].q, call[t].side, call[t].ticks)
                   /\ a.current = t
      BY <2>15, PlaceStep
    <3>2. PICK c : Runs(t, "place") /\ Moves(t, "unlock", c)
      BY <2>15, PlaceStep
    <3>3. b # t
      BY <1>0, <3>2 DEF Runs
    <3>4. Rdy(a, b)
      BY <1>0, <3>1 DEF Inherits, Repriced
    <3>5. Rdy(k', b)
      BY <3>1, <3>3, <3>4 DEF Places, Blocks
    <3> QED BY <1>2, <3>2, <3>3, <3>5
  <2>16. CASE UnlockQueue(t)
    <3>1. PICK l, P, q, s, n : Runs(t, pc[t]) /\ pc[t] \in {"unlock", "unlocksend"}
                   /\ Moves(t, l, call[t]) /\ WokeMany(k, k', q, s, n, P)
      BY <2>16, UnlockQueueStep
    <3>2. b # t
      BY <1>0, <3>1
    <3>3. Rdy(k', b)
      BY <1>0, <3>1 DEF WokeMany, Signals, SameReady, SamePrio, Rdy, IsReady
    <3> QED BY <1>2, <3>1, <3>2, <3>3
  <2>17. CASE CallResumeAll(t)
    <3>1. PICK l, c, V, W : Runs(t, "resume") /\ Moves(t, l, c) /\ Resumed(k, k', V, W)
      BY <2>17, CallResumeAllStep
    <3>2. b # t /\ Rdy(k', b)
      BY <1>0, <3>1 DEF Runs, Resumed, Wakes
    <3> QED BY <1>2, <3>1, <3>2
  <2>18. CASE YieldAfter(t)
    <3>1. Yielded(k, k') /\ (call[t].q = "none" => Moves(t, "app", NoCall))
          /\ (call[t].q # "none" => Moves(t, "try", call[t]))
      BY <2>18, YieldAfterStep
    <3>2. Rdy(k', b)
      BY <1>0, <3>1 DEF Yielded
    <3>3. CASE b # t
      BY <1>2, <3>1, <3>2, <3>3
    <3>4. CASE b = t
      BY <1>0, <3>1, <3>2, <3>4 DEF Moves, Coming
    <3> QED BY <3>3, <3>4
  <2>19. CASE Expire(t)
    <3>1. PICK l, c : Runs(t, "expired") /\ Moves(t, l, c) /\ (k' = k \/ Stamped(k, k', t, -1))
      BY <2>19, ExpireStep
    <3>2. b # t /\ Rdy(k', b)
      BY <1>0, <3>1 DEF Runs, Stamped
    <3> QED BY <1>2, <3>1, <3>2
  <2>20. CASE Disinherit(t)
    <3>1. PICK a, h, n : Stamped(k, a, t, -1) /\ Lowered(a, k', h, n)
      BY <2>20, DisinheritStep
    <3>2. Runs(t, "disinherit") /\ Moves(t, "app", NoCall)
      BY <2>20, DisinheritStep
    <3>3. b # t /\ Rdy(a, b)
      BY <1>0, <3>1, <3>2 DEF Runs, Stamped
    <3>4. Rdy(k', b)
      BY <3>1, <3>3 DEF Lowered, Repriced
    <3> QED BY <1>2, <3>2, <3>3, <3>4
  <2>21. CASE \E n \in Mutex : GiveMutex(t, n)
    <3>1. PICK n \in Mutex : GiveMutex(t, n)
      BY <2>21
    <3>2. PICK a, P : Given(k, a, k', t, n, P)
      BY <3>1, GiveMutexStep
    <3>3. Rests
      BY <3>1, GiveMutexStep
    <3>4. Rdy(a, b) /\ Rdy(k', b)
      BY <1>0, <3>2 DEF Given, Disinherits, Repriced, WokeOne, Wakes
    <3> QED BY <1>1, <3>3, <3>4
  <2> QED BY <1>3, <2>1, <2>2, <2>3, <2>4, <2>5, <2>6, <2>7, <2>8, <2>9, <2>10, <2>11, <2>12,
             <2>13, <2>14, <2>15, <2>16, <2>17, <2>18, <2>19, <2>20, <2>21 DEF TaskStep
<1>4. CASE \E q \in Queue, s \in Side : IsrQueue(q, s)
  <2>1. PICK q \in Queue, s \in Side : IsrQueue(q, s)
    BY <1>4
  <2>2. Rests /\ (k' = k \/ \E o, P : WokeOne(k, k', q, o, P))
    BY <2>1, IsrQueueStep
  <2>3. Rdy(k', b)
    BY <1>0, <2>2 DEF WokeOne, Wakes, Signals, SameReady, SamePrio, Rdy, IsReady
  <2> QED BY <1>1, <2>2, <2>3
<1>5. CASE TickIsr
  <2>1. Rests /\ (Rdy(k', b) \/ \E W : Ticked(k, k', W))
    BY <1>0, <1>5, TickIsrStep
  <2>2. Rdy(k', b)
    BY <1>0, <2>1 DEF Ticked, Wakes
  <2> QED BY <1>1, <2>1, <2>2
<1>6. CASE PendSV
  BY <1>0, <1>1, <1>6, PendSVStep
<1> QED BY <1>3, <1>4, <1>5, <1>6 DEF Step

-----------------------------------------------------------------------------
(* Nor does any task that may take the mutex come before it now.              *)
LEMMA StepWanted ==
  ASSUME Core, HoldInv, Disciplined, Step, UNCHANGED client, NEW m \in Mutex, NEW b \in Task,
         holder[m] = NoTask, Coming(m, b), Coming(m, b)', Wanted(m, b)
  PROVE  Wanted(m, b)'
<1>0. /\ k'.prio[b] = k.prio[b] /\ Rdy(k', b)
      /\ k.prio \in [Task -> Level] /\ k.current \in Task
  BY CallersKeep, CoreTypes, KernelFields DEF Coming
<1>1. ASSUME Steady, k'.prio = k.prio
      PROVE  Wanted(m, b)'
  BY <1>1 DEF Steady, Wanted
<1>2. ASSUME NEW t \in Task, TaskStep(t)
      PROVE  Wanted(m, b)'
  <2>1. CASE \/ CallYield(t) \/ CallDelay(t) \/ DelayAdd(t) \/ CallSuspend(t) \/ AfterSuspend(t)
             \/ CallResume(t) \/ Refuse(t) \/ NoteTime(t) \/ SuspendAll(t) \/ LockQueue(t)
    BY <1>1, <2>1, FirstSteps DEF Plain, SamePrio
  <2>2. CASE \/ CheckTimeOut(t) \/ UnlockQueue(t) \/ CallResumeAll(t) \/ YieldAfter(t) \/ Expire(t)
    BY <1>1, <2>2, LaterSteps DEF Plain, SamePrio
  <2>3. CASE CallPrioritySet(t)
    <3>1. PICK u \in Task, p \in Level : Prioritised(k, k', u, p) /\ Runs(t, "app")
      BY <2>3, SetsOwn
    <3>2. /\ k.pendSV => k'.pendSV
          /\ k'.yieldPending = k.yieldPending /\ k'.current = k.current
      BY <3>1 DEF Prioritised, SameYield
    <3>3. CASE k.base[u] = p
      BY <3>1, <3>3 DEF Prioritised, Wanted
    <3>4. CASE u # k.current /\ k.base[u] # p
      <4>1. k'.prio[k.current] = k.prio[k.current]
        BY <1>0, <3>1, <3>4 DEF Prioritised
      <4> QED BY <1>0, <3>2, <4>1 DEF Wanted
    <3>5. CASE u = k.current /\ k.base[u] # p
      <4>1. k'.prio[u] = IF k.base[u] = k.prio[u] \/ p > k.prio[u] THEN p ELSE k.prio[u]
        BY <1>0, <3>1, <3>5 DEF Prioritised
      <4>2. p < k.base[u] => k'.pendSV
        BY <3>1, <3>5 DEF Prioritised
      <4>3. /\ k.base[u] \in Int /\ k.prio[u] \in Int /\ k.prio[b] \in Int /\ p \in Int
            /\ k'.prio[u] \in Int
        BY <4>1, CoreTypes, KernelFields, Constants
      <4>4. ~(p < k.base[u]) => k.prio[u] <= k'.prio[u]
        BY <4>1, <4>3
      <4>5. ~(p < k.base[u]) /\ k.prio[b] <= k.prio[u] => k.prio[b] <= k'.prio[u]
        BY <4>3, <4>4
      <4> QED BY <1>0, <3>2, <3>5, <4>2, <4>5 DEF Wanted
    <3> QED BY <3>3, <3>4, <3>5
  <2>4. CASE CallQueue(t)
    BY <1>1, <2>4, CallQueueHolds
  <2>5. CASE Succeed(t)
    BY <1>1, <2>5, SucceedHolds
  <2>6. CASE Place(t)
    <3> DEFINE h == IF call[t].q \in Mutex THEN holder[call[t].q] ELSE NoTask
    <3>1. PICK a : /\ Inherits(k, a, h) /\ a.current = t
                   /\ Places(a, k', call[t].q, call[t].side, call[t].ticks)
      BY <2>6, PlaceStep
    <3>2. h # t /\ k.current = t
      BY <2>6, PlaceStep, CoreTypes DEF HoldInv, OthersMutex, Runs
    <3> HIDE DEF h
    <3>3. a.prio[t] = k.prio[t]
      BY <1>0, <3>1, <3>2 DEF Inherits
    <3>4. /\ k'.prio = a.prio /\ k'.current = t /\ k'.pendSV = k.pendSV
          /\ k'.yieldPending = k.yieldPending
      BY <3>1 DEF Places, Blocks, SamePrio, SameRun, SameYield, Inherits, Repriced
    <3> QED BY <1>0, <3>2, <3>3, <3>4 DEF Wanted
  <2>7. CASE Disinherit(t)
    <3> DEFINE h == holder[call[t].q]
    <3>1. PICK a : Stamped(k, a, t, -1) /\ Lowered(a, k', h, HighestWaiting(call[t].q))
      BY <2>7, DisinheritStep
    <3>2. h # t /\ k.current = t
      BY <2>7, DisinheritStep DEF HoldInv, OthersMutex, Runs
    <3> HIDE DEF h
    <3>3. a.prio = k.prio /\ a.current = t /\ a.pendSV = k.pendSV
          /\ a.yieldPending = k.yieldPending
      BY <3>1, <3>2 DEF Stamped, SamePrio, SameRun, SameYield
    <3>4. /\ k'.prio[t] = k.prio[t] /\ k'.current = t /\ k'.pendSV = k.pendSV
          /\ k'.yieldPending = k.yieldPending
      BY <1>0, <3>1, <3>2, <3>3 DEF Lowered, Repriced, SameRun, SameYield
    <3> QED BY <1>0, <3>2, <3>4 DEF Wanted
  <2>8. CASE \E n \in Mutex : GiveMutex(t, n)
    <3>1. PICK n \in Mutex : GiveMutex(t, n)
      BY <2>8
    <3>2. k'.current = t /\ holder[n] = t
      BY <3>1, GiveMutexHolds, GiveMutexStep DEF Runs
    <3>3. n # m /\ Uses(client, t, n)
      BY <3>2, CoreTypes DEF Disciplined
    <3>4. ~Uses(client, t, m)
      BY <3>3 DEF Disciplined, OneMutexEach
    <3> QED BY <3>2, <3>4 DEF Wanted
  <2> QED BY <1>2, <2>1, <2>2, <2>3, <2>4, <2>5, <2>6, <2>7, <2>8 DEF TaskStep
<1>3. CASE \/ \E q \in Queue, s \in Side : IsrQueue(q, s)
           \/ TickIsr
  BY <1>1, <1>3, InterruptSteps DEF Plain, SamePrio
<1>4. CASE PendSV
  BY <1>0, <1>4, PendSVStep DEF Wanted
<1> QED BY <1>2, <1>3, <1>4 DEF Step

-----------------------------------------------------------------------------
(* For a mutex that tasks wait for: while it is free, one is on its way to it *)
(* that is no lower than any of them; while it is held, neither is its        *)
(* holder; and none of them has moved.                                        *)
MovedHave == \A t \in moved : t \in Task /\ (Waits(k, t) \/ k.held[t] > 0)
Followed(m) ==
  holder[m] = NoTask /\ (\E w \in Task : Queued(m, w)) =>
    \E b \in Task : /\ Coming(m, b) /\ Wanted(m, b)
                    /\ \A v \in Task : Queued(m, v) => k.prio[v] <= k.prio[b]
Above(m) ==
  holder[m] \notin {NoTask} \cup moved =>
    \A w \in Task : Queued(m, w) => k.prio[w] <= k.prio[holder[m]]
Unmoved(m) == \A w \in Task : Queued(m, w) => w \notin moved
Taken(m) == Placing(m, "receive") => holder[m] # NoTask
Lifted(m) == Followed(m) /\ Above(m) /\ Unmoved(m) /\ Taken(m)
AllLifted == MovedHave /\ \A m \in Mutex : Lifted(m)

(* Nobody waits, holds or moves at the start.                                 *)
LEMMA InitLifted ==
  ASSUME Init, \A c \in Clients : OneMutexEach(c)
  PROVE  Disciplined /\ AllLifted
<1>1. /\ Fresh(k) /\ client \in Clients /\ moved = {}
      /\ call = [t \in Task |-> NoCall] /\ holder = [m \in Mutex |-> NoTask]
      /\ pc = [t \in Task |-> "app"]
  BY StartedDoes DEF Init
<1>2. Mutex \subseteq Queue /\ "none" \notin Queue /\ NoTask \notin Task
  BY QueueAssumption, TaskAssumption DEF QueueAssumption, TaskAssumption
<1>3. Disciplined
  BY <1>1, <1>2 DEF Disciplined, NoCall
<1>4. \A m \in Mutex, w \in Task : ~Queued(m, w)
  <2>1. "receive" \in Side
    BY DEF Side
  <2> QED BY <1>1, <1>2, <2>1, NothingIn DEF Fresh, Queued
<1>5. k.current \in Task
  BY StartedDoes, KernelFields DEF Init, Good
<1>6. AllLifted
  BY <1>1, <1>4, <1>5 DEF AllLifted, MovedHave, Lifted, Followed, Above, Unmoved, Taken, Placing
<1> QED BY <1>3, <1>6

-----------------------------------------------------------------------------
(* Who waits for a mutex after a step was in a call on it before, and waited  *)
(* too unless it is the one that has just blocked.                            *)
LEMMA QueuedBefore ==
  ASSUME Core, Step, NEW m \in Mutex, NEW w \in Task, Queued(m, w)'
  PROVE  /\ call[w].q = m /\ pc[w] # "app"
         /\ Queued(m, w) \/ (Place(w) /\ Placing(m, "receive"))
<1>0. m \in Queue /\ "receive" \in Side
  BY CoreTypes DEF Side
<1>1. CASE Trims(k, k')
  BY <1>0, <1>1, QueuedCalls DEF Trims, Queued
<1>2. ASSUME NEW t \in Task, Place(t)
      PROVE  Queued(m, w) \/ (w = t /\ call[t].q = m /\ Placing(m, "receive") /\ pc[t] # "app")
  <2> DEFINE h == IF call[t].q \in Mutex THEN holder[call[t].q] ELSE NoTask
  <2>1. PICK a : /\ Inherits(k, a, h) /\ a.current = t
                 /\ Places(a, k', call[t].q, call[t].side, call[t].ticks)
    BY <1>2, PlaceStep
  <2>2. a.waiting = k.waiting
    BY <2>1 DEF Inherits, Repriced, SameWait
  <2>3. Runs(t, "place")
    BY <1>2, PlaceStep
  <2>4. Queued(m, w) \/ (m = call[t].q /\ "receive" = call[t].side /\ w = t)
    BY <1>0, <2>1, <2>2 DEF Places, Queued
  <2> QED BY <2>3, <2>4 DEF Runs, Placing
<1> QED BY <1>1, <1>2, StepTrims, QueuedCalls

(* Whoever has changed or has to do with one that has holds a mutex or waits. *)
LEMMA MovedHaveKept ==
  ASSUME moved' = {t \in Task : Moved(t)}
  PROVE  MovedHave'
<1>1. ASSUME NEW t \in Task, NEW q \in Queue, NEW s \in Side, t \in ToSet(k'.waiting[q][s])
      PROVE  Waits(k', t)
  BY <1>1 DEF Waits, Contains, ToSet
<1> QED BY <1>1 DEF MovedHave, Moved

(* No task that waits for a mutex moves.                                      *)
LEMMA UnmovedKept ==
  ASSUME Core, Core', HoldInv, Disciplined, MovedHave, Step, NEW m \in Mutex, Unmoved(m),
         moved' = {t \in Task : Moved(t)}
  PROVE  Unmoved(m)'
<1>0. m \in Queue /\ "receive" \in Side /\ Good(k')
  BY CoreTypes DEF Side, Core
<1>1. ASSUME NEW v \in Task, Queued(m, v)'
      PROVE  ~Changed(v)
  <2>1. call[v].q = m /\ (Queued(m, v) \/ (Place(v) /\ Placing(m, "receive")))
    BY <1>1, QueuedBefore
  <2>2. call[v].q = m
    BY <1>1, QueuedBefore
  <2>3. k'.prio[v] = k.prio[v] /\ k'.base[v] = k.base[v]
    BY <2>2, CallersKeep
  <2>4. v \notin moved
    <3>1. CASE Queued(m, v)
      BY <3>1 DEF Unmoved
    <3>2. CASE Place(v)
      <4>1. pc[v] = "place"
        BY <3>2, PlaceStep DEF Runs
      <4>2. ~Waits(k, v)
        BY <4>1 DEF Core, WaitingCalls, Waits
      <4>3. k.held[v] = 0
        <5>1. \A n \in Mutex : holder[n] # v
          BY <2>2, OneMutex DEF HoldInv, OthersMutex
        <5>2. Owned(v) = {}
          BY <5>1 DEF Owned
        <5> QED BY <5>2, FS_EmptySet DEF HoldInv, HeldCounts
      <4> QED BY <4>2, <4>3 DEF MovedHave
    <3> QED BY <2>1, <3>1, <3>2
  <2> QED BY <2>3, <2>4 DEF Changed
<1> SUFFICES ASSUME NEW w \in Task, Queued(m, w)', w \in moved'
             PROVE  FALSE
  BY DEF Unmoved
<1> DEFINE l == k'.waiting[m]["receive"]
<1>2. k' \in Kernel
  BY <1>0 DEF Good
<1>3. /\ \A i \in 1 .. Len(l) : l[i] \in Task /\ l[i] \in ToSet(l) /\ Contains(l, l[i])
      /\ \A t : t \in ToSet(l) <=> \E i \in 1 .. Len(l) : l[i] = t
      /\ \A t : Contains(l, t) <=> t \in ToSet(l)
  BY <1>0, <1>2, WaitingList
<1>4. \A v : Queued(m, v)' <=> Contains(l, v)
  BY DEF Queued
<1>5. \A i \in 1 .. Len(l) : l[i] \in moved' <=> \E j \in 1 .. Len(l) : Changed(l[j])
  BY <1>0, MovedAsOne
<1> HIDE DEF l
<1>6. PICK i \in 1 .. Len(l) : l[i] = w
  BY <1>3, <1>4
<1>7. PICK j \in 1 .. Len(l) : Changed(l[j])
  BY <1>5, <1>6
<1> QED BY <1>1, <1>3, <1>4, <1>7

(* The best waiter of a mutex is the first.                                   *)
LEMMA FirstIsBest ==
  ASSUME Core, Sorted, NEW m \in Mutex, Unmoved(m), NEW w \in Task, Queued(m, w)
  PROVE  LET x == Head(k.waiting[m]["receive"]) IN
         /\ x \in Task /\ Queued(m, x) /\ k.waiting[m]["receive"] # <<>>
         /\ k.prio[w] <= k.prio[x] /\ k.event[x] = ItemValue(k.prio[x])
<1>0. m \in Queue /\ "receive" \in Side /\ k \in Kernel
  BY CoreTypes DEF Side
<1> DEFINE l == k.waiting[m]["receive"]
<1>1. /\ l \in List /\ Len(l) \in Nat
      /\ \A i \in 1 .. Len(l) : l[i] \in Task /\ l[i] \in ToSet(l) /\ Contains(l, l[i])
      /\ \A t : t \in ToSet(l) <=> \E i \in 1 .. Len(l) : l[i] = t
      /\ \A t : Contains(l, t) <=> t \in ToSet(l)
  BY <1>0, WaitingList
<1>2. \A v : Queued(m, v) <=> Contains(l, v)
  BY DEF Queued
<1>3. \A i, j \in 1 .. Len(l) : i < j /\ l[i] \notin moved => k.event[l[i]] <= k.event[l[j]]
  BY <1>0 DEF Sorted, WaitSorted
<1> HIDE DEF l
<1>4. PICK i \in 1 .. Len(l) : l[i] = w
  BY <1>1, <1>2
<1>5. l # <<>>
  BY <1>1, <1>4
<1>6. 1 \in 1 .. Len(l) /\ Head(l) = l[1] /\ Head(l) \in Task
  BY <1>1, <1>5, HeadList
<1> DEFINE x == l[1]
<1>7. x \in Task /\ Queued(m, x)
  BY <1>1, <1>2, <1>6
<1>8. k.event[x] = ItemValue(k.prio[x]) /\ k.event[w] = ItemValue(k.prio[w])
  BY <1>7 DEF Sorted, EventsFollow, Unmoved
<1>9. k.event[x] <= k.event[w]
  <2>1. k.event[x] \in Int
    BY <1>0, <1>7, KernelFields, Constants
  <2>2. CASE i = 1
    BY <1>4, <2>1, <2>2
  <2>3. CASE i # 1
    BY <1>3, <1>4, <1>6, <1>7, <2>3 DEF Unmoved
  <2> QED BY <2>2, <2>3
<1>10. k.prio[x] \in Int /\ k.prio[w] \in Int /\ MaxPriorities \in Int
  BY <1>0, <1>7, PrioInt, Constants
<1>11. k.prio[w] <= k.prio[x]
  <2> HIDE DEF x
  <2> QED BY <1>8, <1>9, <1>10 DEF ItemValue
<1> QED BY <1>5, <1>6, <1>7, <1>8, <1>11 DEF l

-----------------------------------------------------------------------------
(* A holder that stays one, and whose own priority stays, does not fall below *)
(* a waiter: after a timeout it falls to the best of those that still wait.   *)
LEMMA HolderKeeps ==
  ASSUME Core, HoldInv, Disciplined, Sorted, Step, NEW m \in Mutex, NEW h \in Task,
         holder[m] = h, holder'[m] = h, k'.base[h] = k.base[h], Unmoved(m),
         NEW w \in Task, Queued(m, w), k.prio[w] <= k.prio[h]
  PROVE  k.prio[w] <= k'.prio[h]
<1>0. /\ k.prio \in [Task -> Level] /\ k.base \in [Task -> Level] /\ Level \subseteq Int
      /\ MaxPriorities \in Int /\ k \in Kernel
      /\ \A u \in Task : k.prio[u] \in Int /\ k.base[u] \in Int
  <2>1. k \in Kernel
    BY CoreTypes
  <2>2. k.prio \in [Task -> Level] /\ k.base \in [Task -> Level]
    BY <2>1, KernelFields
  <2>3. Level \subseteq Int /\ MaxPriorities \in Int
    BY Constants DEF Level
  <2> QED BY <2>1, <2>2, <2>3
<1>1. ASSUME k'.prio[h] = k.prio[h]
      PROVE  k.prio[w] <= k'.prio[h]
  BY <1>1
<1>2. ASSUME NEW t \in Task, TaskStep(t)
      PROVE  k.prio[w] <= k'.prio[h]
  <2>1. CASE \/ CallYield(t) \/ CallDelay(t) \/ DelayAdd(t) \/ CallSuspend(t) \/ AfterSuspend(t)
             \/ CallResume(t) \/ Refuse(t) \/ NoteTime(t) \/ SuspendAll(t) \/ LockQueue(t)
    BY <1>1, <2>1, FirstSteps DEF Plain, SamePrio
  <2>2. CASE \/ CheckTimeOut(t) \/ UnlockQueue(t) \/ CallResumeAll(t) \/ YieldAfter(t) \/ Expire(t)
    BY <1>1, <2>2, LaterSteps DEF Plain, SamePrio
  <2>3. CASE CallPrioritySet(t)
    <3>1. PICK u \in Task, p \in Level : Prioritised(k, k', u, p)
      BY <2>3, SetsOwn
    <3>2. k.base[u] = p \/ u # h
      BY <1>0, <3>1 DEF Prioritised
    <3>3. k'.prio[h] = k.prio[h]
      BY <1>0, <3>1, <3>2 DEF Prioritised
    <3> QED BY <1>1, <3>3
  <2>4. CASE CallQueue(t)
    BY <1>1, <2>4, CallQueueHolds
  <2>5. CASE Succeed(t)
    BY <1>1, <2>5, SucceedHolds
  <2>6. CASE Place(t)
    <3> DEFINE g == IF call[t].q \in Mutex THEN holder[call[t].q] ELSE NoTask
    <3>1. PICK a : /\ Inherits(k, a, g) /\ a.current = t
                   /\ Places(a, k', call[t].q, call[t].side, call[t].ticks)
      BY <2>6, PlaceStep
    <3>2. k.current = t
      BY <2>6, PlaceStep DEF Runs
    <3> HIDE DEF g
    <3>3. k'.prio = a.prio
      BY <3>1 DEF Places, SamePrio
    <3>4. a.prio[h] = k.prio[h] \/ (k.prio[h] < k.prio[t] /\ a.prio[h] = k.prio[t])
      BY <1>0, <3>1, <3>2 DEF Inherits
    <3>5. k.prio[w] \in Int /\ k.prio[h] \in Int /\ k.prio[t] \in Int
      BY <1>0, <3>2, <1>2
    <3>6. CASE a.prio[h] = k.prio[h]
      BY <3>3, <3>6
    <3>7. CASE k.prio[h] < k.prio[t] /\ a.prio[h] = k.prio[t]
      <4>1. k'.prio[h] = k.prio[t]
        BY <3>3, <3>7
      <4> QED BY <3>5, <3>7, <4>1
    <3> QED BY <3>4, <3>6, <3>7
  <2>7. CASE Disinherit(t)
    <3>0. call[t].q \in Mutex
      BY <2>7, DisinheritStep
    <3> DEFINE g == holder[call[t].q]
               top == HighestWaiting(call[t].q)
    <3>1. PICK a : Stamped(k, a, t, -1) /\ Lowered(a, k', g, top)
      BY <2>7, DisinheritStep
    <3>2. a.prio = k.prio /\ a.base = k.base
      BY <3>1 DEF Stamped, SamePrio
    <3>3. CASE g # h
      <4> HIDE DEF g, top
      <4>1. k'.prio[h] = k.prio[h]
        BY <1>0, <3>1, <3>2, <3>3 DEF Lowered
      <4> QED BY <1>1, <4>1
    <3>4. CASE g = h
      <4>1. call[t].q = m
        BY <3>0, <3>4, OneMutex
      <4> DEFINE x == Head(k.waiting[m]["receive"])
      <4>2. /\ x \in Task /\ k.waiting[m]["receive"] # <<>>
            /\ k.prio[w] <= k.prio[x] /\ k.event[x] = ItemValue(k.prio[x])
        BY FirstIsBest
      <4>3. top = MaxPriorities - k.event[x]
        BY <4>1, <4>2 DEF HighestWaiting
      <4> HIDE DEF x
      <4>4. top = k.prio[x] /\ top \in Int
        <5>1. k.prio[x] \in Int /\ k.event[x] = MaxPriorities - k.prio[x]
          BY <1>0, <4>2 DEF ItemValue
        <5> HIDE DEF top
        <5> QED BY <1>0, <4>3, <5>1
      <4> HIDE DEF top, g
      <4>5. k'.prio[h] = k.prio[h] \/ k'.prio[h] = IF k.base[h] < top THEN top ELSE k.base[h]
        BY <1>0, <3>1, <3>2, <3>4 DEF Lowered
      <4>6. k.prio[w] \in Int /\ k.base[h] \in Int /\ k.prio[w] <= top
        BY <1>0, <4>2, <4>4
      <4> QED BY <4>4, <4>5, <4>6
    <3> QED BY <3>3, <3>4
  <2>8. CASE \E n \in Mutex : GiveMutex(t, n)
    <3>1. PICK n \in Mutex : GiveMutex(t, n)
      BY <2>8
    <3>2. holder[n] = t /\ holder' = [holder EXCEPT ![n] = NoTask]
      BY <3>1, GiveMutexStep
    <3>3. t # h
      <4>1. n # m
        BY <3>2, CoreTypes
      <4> QED BY <3>2, <4>1, OneMutex
    <3>4. PICK a, P : Given(k, a, k', t, n, P)
      BY <3>1, GiveMutexStep
    <3>5. PICK y \in BOOLEAN : Disinherits(k, a, t, y) /\ WokeOne(a, k', n, "receive", P)
      BY <3>4 DEF Given
    <3>6. k'.prio[h] = k.prio[h]
      BY <1>0, <3>3, <3>5 DEF Disinherits, WokeOne, Wakes, Signals, SamePrio
    <3> QED BY <1>1, <3>6
  <2> QED BY <1>2, <2>1, <2>2, <2>3, <2>4, <2>5, <2>6, <2>7, <2>8 DEF TaskStep
<1>3. CASE \/ \E q \in Queue, s \in Side : IsrQueue(q, s)
           \/ TickIsr
  BY <1>1, <1>3, InterruptSteps DEF Plain, SamePrio
<1>4. CASE PendSV
  BY <1>1, <1>4, SwitchSteps DEF Plain, SamePrio
<1> QED BY <1>2, <1>3, <1>4 DEF Step

(* A task that blocks on a mutex lifts its holder.                            *)
LEMMA PlaceLifts ==
  ASSUME Core, NEW t \in Task, Place(t), call[t].q \in Mutex, holder[call[t].q] \in Task
  PROVE  k.prio[t] <= k'.prio[holder[call[t].q]]
<1> DEFINE h == holder[call[t].q]
<1>0. k.prio \in [Task -> Level] /\ Level \subseteq Int
  BY CoreTypes, KernelFields, Constants
<1>1. PICK a : /\ Inherits(k, a, h) /\ a.current = t
               /\ Places(a, k', call[t].q, call[t].side, call[t].ticks)
  BY PlaceStep
<1>2. k.current = t /\ h \in Task
  BY PlaceStep DEF Runs
<1> HIDE DEF h
<1>3. k'.prio = a.prio
  BY <1>1 DEF Places, SamePrio
<1>4. (a.prio[h] = k.prio[h] /\ ~(k.prio[h] < k.prio[t])) \/ a.prio[h] = k.prio[t]
  BY <1>0, <1>1, <1>2 DEF Inherits
<1>5. k.prio[t] <= k'.prio[h]
  <2>1. k.prio[t] \in Int /\ k.prio[h] \in Int
    BY <1>2, CoreTypes, PrioInt
  <2>2. k'.prio[h] = a.prio[h]
    BY <1>3
  <2>3. CASE a.prio[h] = k.prio[h] /\ ~(k.prio[h] < k.prio[t])
    <3>1. k'.prio[h] = k.prio[h]
      BY <2>2, <2>3
    <3> QED BY <2>1, <2>3, <3>1
  <2>4. CASE a.prio[h] = k.prio[t]
    <3>1. k'.prio[h] = k.prio[t]
      BY <2>2, <2>4
    <3> QED BY <2>1, <3>1
  <2> QED BY <1>4, <2>3, <2>4
<1> QED BY <1>5 DEF h

(* Only a call that goes ahead makes a task the holder of a mutex.            *)
LEMMA NewHolder ==
  ASSUME Core, HoldInv, Step, NEW m \in Mutex, NEW h \in Task, holder'[m] = h, holder[m] # h
  PROVE  Succeed(h) /\ call[h].q = m /\ holder[m] = NoTask
<1>0. m \in Queue /\ NoTask \notin Task /\ holder \in [Mutex -> Task \cup {NoTask}]
  BY CoreTypes
<1>1. ASSUME Plain
      PROVE  FALSE
  BY <1>1 DEF Plain
<1>2. ASSUME NEW t \in Task, TaskStep(t)
      PROVE  Succeed(h) /\ call[h].q = m
  <2>1. CASE \/ CallYield(t) \/ CallDelay(t) \/ DelayAdd(t) \/ CallSuspend(t) \/ AfterSuspend(t)
             \/ CallResume(t) \/ Refuse(t) \/ NoteTime(t) \/ SuspendAll(t) \/ LockQueue(t)
    BY <1>1, <2>1, FirstSteps
  <2>2. CASE \/ CheckTimeOut(t) \/ UnlockQueue(t) \/ CallResumeAll(t) \/ YieldAfter(t) \/ Expire(t)
    BY <1>1, <2>2, LaterSteps
  <2>3. CASE CallPrioritySet(t) \/ CallQueue(t) \/ Place(t) \/ Disinherit(t)
    BY <2>3, CallPrioritySetStep, CallQueueStep, PlaceStep, DisinheritStep DEF QueuesStay
  <2>4. CASE Succeed(t)
    <3>1. holder' = IF call[t].q \in Mutex THEN [holder EXCEPT ![call[t].q] = t] ELSE holder
      BY <2>4, SucceedStep
    <3>2. call[t].q = m /\ t = h
      BY <1>0, <3>1
    <3> QED BY <2>4, <3>2
  <2>5. CASE \E n \in Mutex : GiveMutex(t, n)
    <3>1. PICK n \in Mutex : holder' = [holder EXCEPT ![n] = NoTask]
      BY <2>5, GiveMutexStep
    <3> QED BY <1>0, <3>1
  <2> QED BY <1>2, <2>1, <2>2, <2>3, <2>4, <2>5 DEF TaskStep
<1>3. CASE \/ \E q \in Queue, s \in Side : IsrQueue(q, s)
           \/ TickIsr \/ PendSV
  BY <1>1, <1>3, InterruptSteps, SwitchSteps
<1>4. Succeed(h) /\ call[h].q = m
  BY <1>2, <1>3 DEF Step
<1>5. holder[m] = NoTask
  <2>1. Ready(m, "receive")
    BY <1>4, SucceedStep
  <2>2. count[m] \in Int /\ count[m] # 0
    BY <1>0, <2>1, CoreTypes DEF Ready
  <2> QED BY <2>2 DEF HoldInv, MutexCounts
<1> QED BY <1>4, <1>5

(* The holder of a mutex holds one.                                           *)
LEMMA HoldsSome ==
  ASSUME HoldInv', NEW m \in Mutex, NEW h \in Task, holder'[m] = h
  PROVE  k'.held[h] > 0
<1>1. m \in Owned(h)'
  BY DEF Owned
<1>2. IsFiniteSet(Owned(h)') /\ k'.held[h] = Cardinality(Owned(h)')
  BY DEF HoldInv, HeldCounts
<1>3. Cardinality(Owned(h)') \in Nat /\ (Cardinality(Owned(h)') = 0 <=> Owned(h)' = {})
  BY <1>2, FS_CardinalityType, FS_EmptySet
<1> QED BY <1>1, <1>2, <1>3

(* No waiter of a mutex is above its holder.                                  *)
LEMMA AboveKept ==
  ASSUME Core, Core', HoldInv, HoldInv', Disciplined, Sorted, Step, UNCHANGED client,
         NEW m \in Mutex, Lifted(m), moved' = {t \in Task : Moved(t)}
  PROVE  Above(m)'
<1> SUFFICES ASSUME holder'[m] \notin {NoTask} \cup moved', NEW w \in Task, Queued(m, w)'
             PROVE  k'.prio[w] <= k'.prio[holder'[m]]
  BY DEF Above
<1> DEFINE h == holder'[m]
<1>0. h \in Task /\ k'.prio[w] = k.prio[w]
  <2>1. call[w].q = m
    BY QueuedBefore
  <2>2. k'.prio[w] = k.prio[w]
    BY <2>1, CallersKeep
  <2>3. holder' \in [Mutex -> Task \cup {NoTask}]
    BY DEF Core, Typing
  <2> QED BY <2>2, <2>3
<1>1. CASE holder[m] # h
  <2>1. Succeed(h) /\ call[h].q = m /\ holder[m] = NoTask
    BY <1>0, <1>1, NewHolder
  <2>2. Runs(h, "try") /\ Calm /\ k.current = h /\ k.pendSV = FALSE /\ k.yieldPending = FALSE
    BY <1>0, <2>1, SucceedStep DEF Runs, Critical, Calm
  <2>3. Queued(m, w)
    BY <2>2, QueuedBefore DEF Placing, Runs
  <2>4. PICK b \in Task : Wanted(m, b) /\ k.prio[w] <= k.prio[b]
    BY <2>1, <2>3 DEF Lifted, Followed
  <2>5. Uses(client, h, m)
    BY <1>0, <2>1 DEF Disciplined
  <2>6. k.prio[b] <= k.prio[h]
    BY <2>2, <2>4, <2>5 DEF Wanted
  <2>7. k'.prio = k.prio
    BY <1>0, <2>1, SucceedHolds
  <2>8. k.prio[w] \in Int /\ k.prio[b] \in Int /\ k.prio[h] \in Int
    BY <1>0, CoreTypes, PrioInt
  <2> QED BY <2>4, <2>6, <2>7, <2>8
<1>2. CASE holder[m] = h
  <2>1. ~Changed(h)
    <3>1. k'.held[h] > 0
      BY <1>0, HoldsSome
    <3> QED BY <1>0, <3>1 DEF Moved
  <2>2. h \notin moved /\ k'.base[h] = k.base[h] /\ h # NoTask
    BY <1>0, <2>1, CoreTypes DEF Changed
  <2>3. CASE Queued(m, w)
    <3>1. k.prio[w] <= k.prio[h]
      BY <1>2, <2>2, <2>3 DEF Lifted, Above
    <3>2. k.prio[w] <= k'.prio[h]
      BY <1>0, <1>2, <2>2, <2>3, <3>1, HolderKeeps DEF Lifted
    <3> QED BY <1>0, <3>2
  <2>4. CASE ~Queued(m, w)
    <3>1. Place(w) /\ call[w].q = m
      BY <2>4, QueuedBefore
    <3> QED BY <1>0, <1>2, <3>1, PlaceLifts
  <2> QED BY <2>3, <2>4
<1> QED BY <1>1, <1>2

-----------------------------------------------------------------------------
(* A mutex is given back: the best of its waiters is on its way.              *)
LEMMA GiveFollowed ==
  ASSUME Core, Core', HoldInv, Disciplined, Sorted, Step, UNCHANGED client,
         NEW m \in Mutex, Unmoved(m), NEW t \in Task, GiveMutex(t, m),
         NEW w \in Task, Queued(m, w)'
  PROVE  \E b \in Task : /\ Coming(m, b)' /\ Wanted(m, b)'
                         /\ \A v \in Task : Queued(m, v)' => k'.prio[v] <= k'.prio[b]
<1>0. /\ m \in Queue /\ "receive" \in Side /\ k.prio \in [Task -> Level] /\ Level \subseteq Int
      /\ Runs(t, "app") /\ Rests
  BY CoreTypes, KernelFields, Constants, GiveMutexStep DEF Side
<1>1. k.current = t /\ pc[t] = "app" /\ k'.current = t
  BY <1>0, GiveMutexHolds DEF Runs
<1>2. \A v \in Task : Queued(m, v)' => Queued(m, v)
  BY <1>1, QueuedBefore DEF Placing
<1>3. PICK x \in Task : /\ x = Head(k.waiting[m]["receive"])
                       /\ Queued(m, x) /\ k.waiting[m]["receive"] # <<>>
  BY <1>2, FirstIsBest
<1>4. \A v \in Task : Queued(m, v) => k.prio[v] <= k.prio[x]
  BY <1>3, FirstIsBest
<1>5. PICK a, P : Given(k, a, k', t, m, P)
  BY GiveMutexStep
<1>6. PICK y \in BOOLEAN : Disinherits(k, a, t, y)
  BY <1>5 DEF Given
<1>7. a.waiting = k.waiting
  BY <1>6 DEF Disinherits, Repriced, SameWait
<1>8. /\ WokeOne(a, k', m, "receive", P) /\ a.depth = 0
      /\ k'.pendSV = (\/ a.waiting[m]["receive"] = <<>> /\ y
                      \/ \E u \in P : a.prio[u] > a.prio[t])
  <2>1. PICK z \in BOOLEAN : 
          /\ Disinherits(k, a, t, z) /\ WokeOne(a, k', m, "receive", P) /\ a.depth = 0
          /\ k'.pendSV = (\/ a.waiting[m]["receive"] = <<>> /\ z
                          \/ \E u \in P : a.prio[u] > a.prio[t])
    BY <1>5 DEF Given
  <2>2. z = y
    BY <1>6, <2>1 DEF Disinherits
  <2> QED BY <2>1, <2>2
<1>9. P = {x}
  BY <1>3, <1>7, <1>8 DEF WokeOne, FirstOf
<1>10. Rdy(k', x) /\ k'.prio = a.prio
  BY <1>3, <1>8, <1>9 DEF WokeOne, Wakes, SamePrio
<1>11. call[x].q = m /\ pc[x] \in {"yield", "try"}
  <2>1. call[x].q = m /\ pc[x] \in {"unlock", "unlocksend", "resume", "yield", "try"}
    BY <1>3, QueuedCalls
  <2>2. pc[x] \notin Critical
    BY <1>1, <1>3, <2>1 DEF Core, Control
  <2> QED BY <2>1, <2>2 DEF Critical
<1>12. Coming(m, x)'
  BY <1>0, <1>10, <1>11 DEF Rests, Coming
<1>13. Wanted(m, x)'
  <2>1. k'.prio[x] \in Int /\ k'.prio[t] \in Int
    BY <1>3, PrioInt DEF Core, Good
  <2> QED BY <1>1, <1>8, <1>9, <1>10, <2>1 DEF Wanted
<1>14. ASSUME NEW v \in Task, Queued(m, v)'
       PROVE  k'.prio[v] <= k'.prio[x]
  <2>1. k'.prio[v] = k.prio[v]
    BY <1>14, QueuedBefore, CallersKeep
  <2>2. k'.prio[x] = k.prio[x]
    BY <1>3, <1>11, CallersKeep
  <2> QED BY <1>2, <1>4, <1>14, <2>1, <2>2
<1> QED BY <1>3, <1>12, <1>13, <1>14

(* A mutex becomes free only when it is given back.                           *)
LEMMA NewlyFree ==
  ASSUME Core, Step, NEW m \in Mutex, holder'[m] = NoTask, holder[m] # NoTask
  PROVE  \E t \in Task : GiveMutex(t, m)
<1>0. NoTask \notin Task /\ holder \in [Mutex -> Task \cup {NoTask}]
  BY CoreTypes
<1>1. ASSUME Plain
      PROVE  FALSE
  BY <1>1 DEF Plain
<1>2. ASSUME NEW t \in Task, TaskStep(t)
      PROVE  GiveMutex(t, m)
  <2>1. CASE \/ CallYield(t) \/ CallDelay(t) \/ DelayAdd(t) \/ CallSuspend(t) \/ AfterSuspend(t)
             \/ CallResume(t) \/ Refuse(t) \/ NoteTime(t) \/ SuspendAll(t) \/ LockQueue(t)
    BY <1>1, <2>1, FirstSteps
  <2>2. CASE \/ CheckTimeOut(t) \/ UnlockQueue(t) \/ CallResumeAll(t) \/ YieldAfter(t) \/ Expire(t)
    BY <1>1, <2>2, LaterSteps
  <2>3. CASE CallPrioritySet(t) \/ CallQueue(t) \/ Place(t) \/ Disinherit(t)
    BY <2>3, CallPrioritySetStep, CallQueueStep, PlaceStep, DisinheritStep DEF QueuesStay
  <2>4. CASE Succeed(t)
    <3>1. holder' = IF call[t].q \in Mutex THEN [holder EXCEPT ![call[t].q] = t] ELSE holder
      BY <2>4, SucceedStep
    <3> QED BY <1>0, <3>1
  <2>5. CASE \E n \in Mutex : GiveMutex(t, n)
    <3>1. PICK n \in Mutex : GiveMutex(t, n)
      BY <2>5
    <3>2. holder' = [holder EXCEPT ![n] = NoTask]
      BY <3>1, GiveMutexStep
    <3>3. n = m
      BY <1>0, <3>2
    <3> QED BY <3>1, <3>3
  <2> QED BY <1>2, <2>1, <2>2, <2>3, <2>4, <2>5 DEF TaskStep
<1>3. CASE \/ \E q \in Queue, s \in Side : IsrQueue(q, s)
           \/ TickIsr \/ PendSV
  BY <1>1, <1>3, InterruptSteps, SwitchSteps
<1> QED BY <1>2, <1>3 DEF Step

(* While a mutex is free and tasks wait for it, one is on its way.            *)
LEMMA FollowedKept ==
  ASSUME Core, Core', HoldInv, Disciplined, Sorted, Step, UNCHANGED client,
         NEW m \in Mutex, Lifted(m)
  PROVE  Followed(m)'
<1> SUFFICES ASSUME holder'[m] = NoTask, NEW w \in Task, Queued(m, w)'
             PROVE  \E b \in Task : /\ Coming(m, b)' /\ Wanted(m, b)'
                                    /\ \A v \in Task : Queued(m, v)' => k'.prio[v] <= k'.prio[b]
  BY DEF Followed
<1>1. CASE holder[m] # NoTask
  BY <1>1, NewlyFree, GiveFollowed DEF Lifted
<1>2. CASE holder[m] = NoTask
  <2>1. \A v \in Task : Queued(m, v)' => Queued(m, v) /\ k'.prio[v] = k.prio[v]
    BY <1>2, QueuedBefore, CallersKeep DEF Lifted, Taken
  <2>2. PICK b \in Task : /\ Coming(m, b) /\ Wanted(m, b)
                          /\ \A v \in Task : Queued(m, v) => k.prio[v] <= k.prio[b]
    BY <1>2, <2>1 DEF Lifted, Followed
  <2>3. Coming(m, b)'
    BY <1>2, <2>2, StepComing
  <2>4. Wanted(m, b)'
    BY <1>2, <2>2, <2>3, StepWanted
  <2>5. k'.prio[b] = k.prio[b]
    BY <2>2, CallersKeep DEF Coming
  <2> QED BY <2>1, <2>2, <2>3, <2>4, <2>5
<1> QED BY <1>1, <1>2

(* Every step keeps all of this.                                              *)
LEMMA LiftedKept ==
  ASSUME Core, Core', HoldsAndRuns, HoldsAndRuns', Sorted, Disciplined, AllLifted, [Next]_vars
  PROVE  AllLifted'
<1>1. CASE UNCHANGED vars
  <2>1. /\ k' = k /\ holder' = holder /\ call' = call /\ pc' = pc /\ client' = client
        /\ moved' = moved
    BY <1>1 DEF vars
  <2> QED BY <2>1 DEF AllLifted, MovedHave, Waits, Lifted, Followed, Above, Unmoved, Taken,
                      Coming, Wanted, Queued, Placing
<1>2. CASE Next
  <2>1. Step /\ client' = client /\ moved' = {t \in Task : Moved(t)} /\ HoldInv /\ HoldInv'
    BY <1>2 DEF Next, Histories, HoldsAndRuns
  <2>2. MovedHave'
    BY <2>1, MovedHaveKept
  <2>3. ASSUME NEW m \in Mutex
        PROVE  Lifted(m)'
    <3>1. Lifted(m) /\ Unmoved(m) /\ Taken(m) /\ MovedHave
      BY DEF AllLifted, Lifted
    <3>2. Followed(m)'
      BY <2>1, <3>1, FollowedKept
    <3>3. Above(m)'
      BY <2>1, <3>1, AboveKept
    <3>4. Unmoved(m)'
      BY <2>1, <3>1, UnmovedKept
    <3>5. Taken(m)'
      BY <2>1, <3>1, StepPlacing DEF Taken
    <3> QED BY <3>2, <3>3, <3>4, <3>5 DEF Lifted
  <2> QED BY <2>2, <2>3 DEF AllLifted
<1> QED BY <1>1, <1>2

(* Where each task keeps to one mutex, and no task suspends or sets the       *)
(* priority of another that uses mutexes, no waiter of a mutex is above its   *)
(* holder, through timeouts of other waiters, lifts and falls, and a mutex    *)
(* that is taken by another task than the one that was woken for it.          *)
THEOREM HolderLifted ==
  (\A c \in Clients : OneMutexEach(c)) => (Spec => []InheritanceIsExact)
<1> DEFINE IInv == Core /\ HoldsAndRuns /\ Sorted /\ Disciplined /\ AllLifted
<1> SUFFICES ASSUME \A c \in Clients : OneMutexEach(c)
             PROVE  Spec => []InheritanceIsExact
  OBVIOUS
<1>1. Init => IInv
  BY InitCore, InitHolds, InitSorted, InitLifted
<1>2. IInv /\ [Next]_vars => IInv'
  BY CoreKept, HoldsKept, SortedKept, DisciplineKept, LiftedKept
<1>3. IInv => HolderIsLifted
  <2> SUFFICES ASSUME IInv, NEW m \in Mutex, NEW w \in ToSet(k.waiting[m]["receive"]),
                      holder[m] \notin {NoTask} \cup moved
               PROVE  k.prio[holder[m]] >= k.prio[w]
    BY DEF HolderIsLifted
  <2>1. m \in Queue /\ "receive" \in Side /\ k \in Kernel /\ holder[m] \in Task
    BY CoreTypes DEF Side
  <2>2. w \in Task /\ Queued(m, w)
    BY <2>1, WaitingList DEF Queued
  <2>3. k.prio[w] <= k.prio[holder[m]]
    BY <2>2 DEF AllLifted, Lifted, Above
  <2>4. k.prio[w] \in Int /\ k.prio[holder[m]] \in Int
    BY <2>1, <2>2, PrioInt
  <2> QED BY <2>3, <2>4
<1> HIDE DEF IInv
<1>4. Spec => []HolderIsLifted
  BY <1>1, <1>2, <1>3, PTL DEF Spec
<1>5. Spec => []MutexHasHolder /\ []LiftNeedsMutex
  BY HolderKnown, LiftHasMutex
<1> QED BY <1>4, <1>5, PTL DEF InheritanceIsExact

=============================================================================
