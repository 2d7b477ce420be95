----------------------------- MODULE PoolProofs -----------------------------
(***************************************************************************)
(* The thread pool of the cache system and the queue of Mini_DCS, whose    *)
(* threads wait for each other.  ThreadPool: for every minimum and maximum *)
(* number of workers, every queue length and every initial value of        *)
(* m_exitNum, a worker that takes a task finds one.  SafeQueue: it is a    *)
(* bounded first-in first-out queue and loses no wakeup, for any capacity, *)
(* any elements and any threads.                                           *)
(***************************************************************************)
EXTENDS ThreadPool, SafeQueue, Sequences, FiniteSetTheorems, TLAPS

(* ThreadPool.                                                             *)

\* Sets of slots are finite.
LEMMA SlotSets ==
  ASSUME NEW S \in SUBSET Slots
  PROVE  IsFiniteSet(S) /\ Cardinality(S) \in Nat
<1>1. IsFiniteSet(Slots)
  BY PoolAssumption, FS_Interval DEF Slots
<1>2. IsFiniteSet(S)
  BY <1>1, FS_Subset
<1>. QED  BY <1>2, FS_CardinalityType

\* The invariant of the worker's loop.  TaskIsThere alone is not inductive: it
\* needs that no second worker is between its test and its takeTask.
LockInv == TypeOK /\ LockHeld /\ TaskIsThere

\* The constructor's state: no worker has the lock yet.
LEMMA InitLockInv == Init => LockInv
<1> SUFFICES ASSUME Init PROVE LockInv
  OBVIOUS
<1>1. \A w \in Slots : pc[w] \in {"start", "none"}
  BY DEF Init
<1>2. LockHeld /\ TaskIsThere
  BY <1>1 DEF Init, LockHeld, TaskIsThere, Slots, Free
<1>3. pc \in [Slots -> WorkerPC]
  BY DEF Init, WorkerPC
<1>4. m_exitNum \in Nat
  BY PoolAssumption DEF Init
<1>5. manager \in [pc : ManagerPC, grow : BOOLEAN, shrink : BOOLEAN]
  BY Zenon DEF Init, ManagerPC
<1>6. owner \in [pc : OwnerPC, sent : Nat]
  BY DEF Init, OwnerPC
<1>7. m_lock \in {Free, Destroyed} /\ m_taskQ \in Nat /\ m_busyNum \in Int /\ m_aliveNum \in Int
  BY PoolAssumption DEF Init
<1>8. m_shutdown \in BOOLEAN
  BY Zenon DEF Init
<1>. QED  BY <1>2, <1>3, <1>4, <1>5, <1>6, <1>7, <1>8 DEF LockInv, TypeOK

\* A signal only turns a waiting worker into a woken one.
LEMMA SignalStep ==
  ASSUME TypeOK, Signal
  PROVE  /\ pc' \in [Slots -> WorkerPC]
         /\ \A w \in Slots : pc'[w] = pc[w] \/ (pc[w] = "waiting" /\ pc'[w] = "woken")
  BY SMTT(30) DEF TypeOK, Signal, Waiting, WorkerPC

\* A worker's step keeps the invariant.
LEMMA WorkerLockInv ==
  ASSUME LockInv, NEW w \in Slots, worker(w) \/ SpuriousWakeup(w)
  PROVE  LockInv'
<1> USE PoolAssumption DEF LockInv, TypeOK, LockHeld, TaskIsThere, Slots, Free, Destroyed, WorkerPC
<1>1. CASE Start(w)
  BY <1>1 DEF Start, LoopTest
<1>2. CASE Wait(w)
  BY <1>2 DEF Wait
<1>3. CASE Wake(w)
  BY SMTT(30), <1>3 DEF Wake, LoopTest
<1>4. CASE Take(w)
  BY SMTT(30), <1>4 DEF Take
<1>5. CASE Finish(w)
  BY <1>5 DEF Finish
<1>6. CASE threadExit(w)
  BY <1>6 DEF threadExit
<1>7. CASE SpuriousWakeup(w)
  BY <1>7 DEF SpuriousWakeup
<1>. QED  BY SMTT(30), <1>1, <1>2, <1>3, <1>4, <1>5, <1>6, <1>7 DEF worker

\* A step of the manager keeps it: threads are created while m_lock is free.
LEMMA ManagerLockInv ==
  ASSUME LockInv, Manager
  PROVE  LockInv'
<1> USE PoolAssumption DEF LockInv, TypeOK, ManagerPC
<1>0. CASE ManagerLoop
  BY <1>0 DEF ManagerLoop, LockHeld, TaskIsThere
<1>1. CASE Sample
  <2>1. manager' \in [pc : ManagerPC, grow : BOOLEAN, shrink : BOOLEAN]
    <3> DEFINE g == m_taskQ > m_aliveNum /\ m_aliveNum < m_maxNum
               h == m_busyNum * 2 < m_aliveNum /\ m_aliveNum > m_minNum
    <3>1. manager' = [pc |-> "grow", grow |-> g, shrink |-> h]
      BY <1>1 DEF Sample
    <3>2. g \in BOOLEAN /\ h \in BOOLEAN
      OBVIOUS
    <3> HIDE DEF g, h
    <3>. QED  BY <3>1, <3>2, Zenon
  <2>. QED  BY <1>1, <2>1 DEF Sample, LockHeld, TaskIsThere
<1>2. CASE Grow
  <2>1. CASE manager.grow
    <3>1. PICK new \in SUBSET Slots :
            /\ Created(new)
            /\ pc' = [w \in Slots |-> IF w \in new THEN "start" ELSE pc[w]]
            /\ m_aliveNum' = m_aliveNum + Cardinality(new)
      BY <1>2, <2>1 DEF Grow
    <3>2. m_lock = Free /\ m_lock' = Free
      BY <1>2, <2>1 DEF Grow
    <3>3. \A w \in Slots : pc'[w] \in {pc[w], "start"}
      BY <3>1
    <3>4. LockHeld' /\ TaskIsThere'
      BY SMTT(30), <3>2, <3>3, <1>2 DEF Grow, LockHeld, TaskIsThere, Slots, Free, Destroyed
    <3>5. Cardinality(new) \in Int
      BY <3>1, SlotSets
    <3>. QED  BY <1>2, <3>1, <3>4, <3>5 DEF Grow, WorkerPC
  <2>. QED  BY <1>2, <2>1 DEF Grow, LockHeld, TaskIsThere
<1>3. CASE Shrink
  BY <1>3 DEF Shrink, LockHeld, TaskIsThere, NUMBER
<1>4. CASE ManagerSignal
  BY <1>4, SignalStep DEF ManagerSignal, LockHeld, TaskIsThere
<1>. QED  BY <1>0, <1>1, <1>2, <1>3, <1>4 DEF Manager

\* So does a step of the event loop or of the destructor.
LEMMA OwnerLockInv ==
  ASSUME LockInv, Owner \/ Destroy
  PROVE  LockInv'
<1> USE PoolAssumption DEF LockInv, TypeOK, OwnerPC
<1>1. CASE addTask
  BY <1>1 DEF addTask, LockHeld, TaskIsThere
<1>2. CASE addTaskSignal
  BY <1>2, SignalStep DEF addTaskSignal, LockHeld, TaskIsThere
<1>3. CASE Join \/ Destroy
  BY Zenon, <1>3 DEF Join, Destroy, LockHeld, TaskIsThere
<1>4. CASE WakeAll
  <2>1. CASE owner.sent < m_aliveNum
    BY <1>4, <2>1, SignalStep DEF WakeAll, LockHeld, TaskIsThere
  <2>2. CASE ~(owner.sent < m_aliveNum)
    BY SMTT(30), <1>4, <2>2 DEF WakeAll, LockHeld, TaskIsThere, Slots, Destroyed
  <2>. QED  BY <2>1, <2>2
<1>. QED  BY <1>1, <1>2, <1>3, <1>4 DEF Owner

\* LockInv is inductive.
LEMMA NextLockInv == LockInv /\ [Next]_vars => LockInv'
<1>1. ASSUME LockInv, UNCHANGED vars PROVE LockInv'
  BY <1>1 DEF LockInv, TypeOK, LockHeld, TaskIsThere, vars
<1>. QED  BY <1>1, WorkerLockInv, ManagerLockInv, OwnerLockInv DEF Next

\* A worker that left the waiting loop finds the task it saw in the queue:
\* takeTask never returns the empty Task, for any size of the pool.
THEOREM TaskFound == Spec => []TaskIsThere
<1>1. LockInv => TaskIsThere
  BY DEF LockInv
<1>. QED  BY InitLockInv, NextLockInv, <1>1, PTL DEF Spec

\* Every variable of the pool keeps its type.
THEOREM PoolTypeCorrect == Spec => []TypeOK
<1>1. LockInv => TypeOK
  BY DEF LockInv
<1>. QED  BY InitLockInv, NextLockInv, <1>1, PTL DEF Spec
-----------------------------------------------------------------------------
(* The counters.                                                           *)

\* The two counters and the lock invariant, which gives the types.
CountInv == LockInv /\ AliveWithinBounds /\ BusyCounted

\* A step that moves no worker into or out of the pool or a task, and leaves
\* the counters alone, keeps the counts.
LEMMA SameCounts ==
  ASSUME CountInv, Active' = Active, Running' = Running,
         UNCHANGED <<m_aliveNum, m_busyNum>>, m_shutdown => m_shutdown'
  PROVE  AliveWithinBounds' /\ BusyCounted'
<1>1. Cardinality(Active) <= m_aliveNum /\ (~m_shutdown => Cardinality(Active) = m_aliveNum)
  BY DEF CountInv, AliveWithinBounds
<1>2. Cardinality(Active') = Cardinality(Active) /\ Cardinality(Running') = Cardinality(Running)
  OBVIOUS
<1>. QED  BY <1>1, <1>2 DEF CountInv, AliveWithinBounds, BusyCounted

\* A signal wakes a waiting worker: it stays in the pool and runs no task.
LEMMA SignalSets ==
  ASSUME TypeOK, Signal
  PROVE  Active' = Active /\ Running' = Running
  BY SignalStep DEF Active, Running

\* One worker leaves the pool, or starts or ends a task.
LEMMA CardStep ==
  ASSUME NEW w \in Slots
  PROVE  /\ w \in Active => Cardinality(Active \ {w}) = Cardinality(Active) - 1
         /\ w \notin Running => Cardinality(Running \cup {w}) = Cardinality(Running) + 1
         /\ w \in Running => Cardinality(Running \ {w}) = Cardinality(Running) - 1
         /\ Cardinality(Active) \in Nat /\ Cardinality(Running) \in Nat
<1>1. Active \in SUBSET Slots /\ Running \in SUBSET Slots
  BY DEF Active, Running
<1>2. IsFiniteSet(Active) /\ IsFiniteSet(Running)
  BY <1>1, SlotSets
<1>. QED  BY SMTT(30), <1>1, <1>2, SlotSets, FS_AddElement, FS_RemoveElement

\* The constructor creates m_minNum workers.
LEMMA InitCountInv == Init => CountInv
<1> SUFFICES ASSUME Init PROVE CountInv
  OBVIOUS
<1>1. Active = 1..m_minNum /\ Running = {}
  BY PoolAssumption DEF Init, Active, Running, Slots
<1>2. Cardinality(Active) = m_minNum /\ Cardinality(Running) = 0
  BY <1>1, PoolAssumption, FS_Interval, FS_EmptySet
<1>. QED  BY <1>2, InitLockInv, PoolAssumption DEF Init, CountInv, AliveWithinBounds, BusyCounted

\* A worker's step keeps the counters equal to what they count.
LEMMA WorkerCounts ==
  ASSUME CountInv, NEW w \in Slots, worker(w) \/ SpuriousWakeup(w)
  PROVE  AliveWithinBounds' /\ BusyCounted'
<1>0. /\ TypeOK /\ m_busyNum = Cardinality(Running)
      /\ m_minNum <= m_aliveNum /\ m_aliveNum <= m_maxNum
      /\ Cardinality(Active) <= m_aliveNum
      /\ ~m_shutdown => Cardinality(Active) = m_aliveNum
  BY DEF CountInv, LockInv, AliveWithinBounds, BusyCounted
<1>a. pc \in [Slots -> WorkerPC]
  BY <1>0 DEF TypeOK
<1>n. m_aliveNum \in Int /\ Cardinality(Active) \in Int /\ m_minNum \in Int /\ m_maxNum \in Int
  <2>1. Cardinality(Active) \in Nat
    BY Zenon, CardStep
  <2>. QED  BY <1>0, <2>1, PoolAssumption DEF TypeOK
\* A worker that leaves because of the destructor is not counted out.
<1>b. ASSUME m_shutdown, w \in Active, w \notin Running, pc' = [pc EXCEPT ![w] = "exit"],
             UNCHANGED <<m_aliveNum, m_busyNum, m_shutdown>>
      PROVE  AliveWithinBounds' /\ BusyCounted'
  <2>1. Active' = Active \ {w} /\ Running' = Running
    BY <1>a, <1>b DEF Active, Running
  <2>2. Cardinality(Active') = Cardinality(Active) - 1 /\ Cardinality(Running') = Cardinality(Running)
    BY Zenon, <2>1, <1>b, CardStep
  <2>. QED  BY <1>0, <1>b, <2>2, <1>n DEF AliveWithinBounds, BusyCounted
<1>c. ASSUME NEW p \in {"towait", "take"}, pc[w] \in {"start", "woken"}, pc' = [pc EXCEPT ![w] = p],
             UNCHANGED <<m_aliveNum, m_busyNum, m_shutdown>>
      PROVE  AliveWithinBounds' /\ BusyCounted'
  <2>1. Active' = Active /\ Running' = Running
    BY <1>a, <1>c DEF Active, Running
  <2>. QED  BY <2>1, <1>c, SameCounts
<1>d. ASSUME LoopTest(w), pc[w] \in {"start", "woken"}, UNCHANGED <<m_aliveNum, m_busyNum, m_shutdown>>
      PROVE  AliveWithinBounds' /\ BusyCounted'
  <2>1. w \in Active /\ w \notin Running
    BY <1>d DEF Active, Running
  <2>. QED  BY <1>b, <1>c, <1>d, <2>1 DEF LoopTest
<1>1. CASE Start(w)
  BY <1>1, <1>d DEF Start
<1>2. CASE Wait(w) \/ SpuriousWakeup(w)
  <2>1. Active' = Active /\ Running' = Running
    BY <1>a, <1>2 DEF Wait, SpuriousWakeup, Active, Running
  <2>. QED  BY <1>2, <2>1, SameCounts DEF Wait, SpuriousWakeup
<1>3. CASE Wake(w)
  <2>1. CASE m_exitNum > 0 /\ m_aliveNum > m_minNum
    <3>1. /\ pc[w] = "woken" /\ pc' = [pc EXCEPT ![w] = "exit"]
          /\ m_aliveNum' = m_aliveNum - 1 /\ UNCHANGED <<m_busyNum, m_shutdown>>
      BY <1>3, <2>1 DEF Wake
    <3>2. Active' = Active \ {w} /\ Running' = Running /\ w \in Active
      BY <1>a, <3>1 DEF Active, Running
    <3>3. Cardinality(Active') = Cardinality(Active) - 1 /\ Cardinality(Running') = Cardinality(Running)
      BY Zenon, <3>2, CardStep
    <3>. QED  BY <1>0, <2>1, <3>1, <3>3, <1>n DEF AliveWithinBounds, BusyCounted
  <2>. QED  BY <1>3, <2>1, <1>d DEF Wake
<1>4. CASE Take(w)
  <2>1. /\ pc[w] = "take" /\ \E p \in {"run", "crash"} : pc' = [pc EXCEPT ![w] = p]
        /\ m_busyNum' = m_busyNum + 1 /\ UNCHANGED <<m_aliveNum, m_shutdown>>
    BY <1>4 DEF Take
  <2>2. Active' = Active /\ Running' = Running \cup {w} /\ w \notin Running
    BY <1>a, <2>1 DEF Active, Running
  <2>3. Cardinality(Active') = Cardinality(Active) /\ Cardinality(Running') = Cardinality(Running) + 1
    BY Zenon, <2>2, CardStep
  <2>. QED  BY <1>0, <2>1, <2>3 DEF AliveWithinBounds, BusyCounted
<1>5. CASE Finish(w)
  <2>1. /\ pc[w] = "run" /\ pc' = [pc EXCEPT ![w] = "start"]
        /\ m_busyNum' = m_busyNum - 1 /\ UNCHANGED <<m_aliveNum, m_shutdown>>
    BY <1>5 DEF Finish
  <2>2. Active' = Active /\ Running' = Running \ {w} /\ w \in Running
    BY <1>a, <2>1 DEF Active, Running
  <2>3. Cardinality(Active') = Cardinality(Active) /\ Cardinality(Running') = Cardinality(Running) - 1
    BY Zenon, <2>2, CardStep
  <2>. QED  BY <1>0, <2>1, <2>3 DEF AliveWithinBounds, BusyCounted
<1>6. CASE threadExit(w)
  <2>1. Active' = Active /\ Running' = Running
    BY <1>a, <1>6 DEF threadExit, Active, Running
  <2>. QED  BY <1>6, <2>1, SameCounts DEF threadExit
<1>. QED  BY <1>1, <1>2, <1>3, <1>4, <1>5, <1>6 DEF worker

\* The manager creates as many workers as it counts, never beyond m_maxNum,
\* whatever has changed since it took its snapshot.
LEMMA ManagerCounts ==
  ASSUME CountInv, Manager
  PROVE  AliveWithinBounds' /\ BusyCounted'
<1>0. /\ TypeOK /\ m_busyNum = Cardinality(Running)
      /\ m_minNum <= m_aliveNum /\ m_aliveNum <= m_maxNum
      /\ Cardinality(Active) <= m_aliveNum
      /\ ~m_shutdown => Cardinality(Active) = m_aliveNum
  BY DEF CountInv, LockInv, AliveWithinBounds, BusyCounted
<1>1. CASE ManagerLoop \/ Sample \/ Shrink
  <2>1. UNCHANGED <<pc, m_aliveNum, m_busyNum, m_shutdown>>
    BY <1>1 DEF ManagerLoop, Sample, Shrink
  <2>2. Active' = Active /\ Running' = Running
    BY <2>1 DEF Active, Running
  <2>. QED  BY <2>1, <2>2, SameCounts
<1>2. CASE ManagerSignal
  BY <1>0, <1>2, SignalSets, SameCounts DEF ManagerSignal
<1>3. CASE Grow
  <2>1. CASE manager.grow
    <3>1. PICK new \in SUBSET Slots :
            /\ Created(new)
            /\ pc' = [w \in Slots |-> IF w \in new THEN "start" ELSE pc[w]]
            /\ m_aliveNum' = m_aliveNum + Cardinality(new)
      BY <1>3, <2>1 DEF Grow
    <3>2. UNCHANGED <<m_busyNum, m_shutdown>>
      BY <1>3 DEF Grow
    <3>3. Active' = Active \cup new /\ Active \cap new = {} /\ Running' = Running
      BY <3>1 DEF Created, Active, Running
    <3>4. /\ IsFiniteSet(Active) /\ IsFiniteSet(new)
          /\ Cardinality(Active) \in Nat /\ Cardinality(new) \in Nat
      <4>1. Active \in SUBSET Slots
        BY DEF Active
      <4>. QED  BY <4>1, SlotSets
    <3>5. Cardinality(Active') = Cardinality(Active) + Cardinality(new)
      BY <3>3, <3>4, FS_Union, FS_EmptySet
    <3>6. Cardinality(Running') = Cardinality(Running)
      BY <3>3
    <3>7. Cardinality(new) <= m_maxNum - m_aliveNum
      BY <3>1 DEF Created
    <3>8. m_aliveNum \in Int /\ m_minNum \in Int /\ m_maxNum \in Int
      BY <1>0, PoolAssumption DEF TypeOK
    <3>. QED  BY SMTT(30), <1>0, <3>1, <3>2, <3>4, <3>5, <3>6, <3>7, <3>8
              DEF AliveWithinBounds, BusyCounted
  <2>2. CASE ~manager.grow
    <3>1. UNCHANGED <<pc, m_aliveNum, m_busyNum, m_shutdown>>
      BY <1>3, <2>2 DEF Grow
    <3>2. Active' = Active /\ Running' = Running
      BY <3>1 DEF Active, Running
    <3>. QED  BY <3>1, <3>2, SameCounts
  <2>. QED  BY <2>1, <2>2
<1>. QED  BY <1>1, <1>2, <1>3 DEF Manager

\* The event loop and the destructor leave the counters alone.
LEMMA OwnerCounts ==
  ASSUME CountInv, Owner \/ Destroy
  PROVE  AliveWithinBounds' /\ BusyCounted'
<1>1. UNCHANGED <<m_aliveNum, m_busyNum>> /\ (m_shutdown => m_shutdown')
  BY DEF Owner, Destroy, addTask, addTaskSignal, Join, WakeAll
<1>2. UNCHANGED pc \/ Signal
  BY DEF Owner, Destroy, addTask, addTaskSignal, Join, WakeAll
<1>3. Active' = Active /\ Running' = Running
  <2>1. CASE UNCHANGED pc
    BY <2>1 DEF Active, Running
  <2>. QED  BY <1>2, <2>1, SignalSets DEF CountInv, LockInv
<1>. QED  BY <1>1, <1>3, SameCounts

\* CountInv is inductive.
LEMMA NextCountInv == CountInv /\ [Next]_vars => CountInv'
<1> SUFFICES ASSUME CountInv, [Next]_vars PROVE CountInv'
  OBVIOUS
<1>1. LockInv'
  BY NextLockInv DEF CountInv
<1>2. CASE UNCHANGED vars
  <2>1. Active' = Active /\ Running' = Running
    BY <1>2 DEF Active, Running, vars
  <2>. QED  BY <1>1, <1>2, <2>1, SameCounts DEF vars, CountInv
<1>3. CASE Next
  BY <1>1, <1>3, WorkerCounts, ManagerCounts, OwnerCounts DEF Next, CountInv
<1>. QED  BY <1>2, <1>3

\* The number of workers stays between m_minNum and m_maxNum and is what
\* m_aliveNum says, for every pair of bounds and every garbage in m_exitNum.
THEOREM PoolSize == Spec => []AliveWithinBounds
<1>1. CountInv => AliveWithinBounds
  BY DEF CountInv
<1>. QED  BY InitCountInv, NextCountInv, <1>1, PTL DEF Spec

\* m_busyNum is the number of workers that run a task.
THEOREM BusyCorrect == Spec => []BusyCounted
<1>1. CountInv => BusyCounted
  BY DEF CountInv
<1>. QED  BY InitCountInv, NextCountInv, <1>1, PTL DEF Spec
-----------------------------------------------------------------------------
(* SafeQueue.                                                              *)

\* The remainder of less than twice the divisor.
LEMMA Mod ==
    ASSUME NEW N \in Nat \ {0}, NEW x \in Nat, x < 2 * N
    PROVE  x % N = IF x < N THEN x ELSE x - N
  <1>1. CASE x < N BY <1>1
  <1>2. CASE x >= N
    <2>1. (x - N) % N = x - N BY <1>2
    <2>2. x % N = (x - N) % N BY <1>2
    <2> QED BY <1>2, <2>1, <2>2
  <1> QED BY <1>1, <1>2

\* What the three remainders of the code are.
LEMMA Wrap ==
    ASSUME QueueTypeOK
    PROVE  /\ \A c \in Cell : (c + 1) % m_capacity = IF c = capacity THEN 0 ELSE c + 1
           /\ size = IF m_tail >= m_head THEN m_tail - m_head ELSE m_tail + m_capacity - m_head
           /\ \A i \in 1..m_capacity : (m_head + i - 1) % m_capacity
                = IF m_head + i - 1 <= capacity THEN m_head + i - 1 ELSE m_head + i - 1 - m_capacity
  <1>0. m_capacity \in Nat \ {0} /\ m_head \in 0..capacity /\ m_tail \in 0..capacity
        /\ m_capacity = capacity + 1 /\ capacity \in Nat
    BY QueueAssumption DEF QueueTypeOK, Cell, m_capacity
  <1>1. ASSUME NEW c \in Cell PROVE (c + 1) % m_capacity = IF c = capacity THEN 0 ELSE c + 1
    <2>1. c \in 0..capacity BY DEF Cell
    <2> DEFINE x == c + 1
    <2>2. x \in Nat /\ x < 2 * m_capacity BY <1>0, <2>1
    <2>3. x % m_capacity = IF x < m_capacity THEN x ELSE x - m_capacity
      <3> HIDE DEF x
      <3> QED BY Zenon, <1>0, <2>2, Mod
    <2> QED BY <1>0, <2>1, <2>3
  <1>2. size = IF m_tail >= m_head THEN m_tail - m_head ELSE m_tail + m_capacity - m_head
    <2> DEFINE x == m_tail + m_capacity - m_head
    <2>1. x \in Nat /\ x < 2 * m_capacity BY <1>0
    <2>2. x % m_capacity = IF x < m_capacity THEN x ELSE x - m_capacity
      <3> HIDE DEF x
      <3> QED BY Zenon, <1>0, <2>1, Mod
    <2> QED BY <1>0, <2>2 DEF size
  <1>3. ASSUME NEW i \in 1..m_capacity
        PROVE  (m_head + i - 1) % m_capacity
                = IF m_head + i - 1 <= capacity THEN m_head + i - 1 ELSE m_head + i - 1 - m_capacity
    <2> DEFINE x == m_head + i - 1
    <2>1. x \in Nat /\ x < 2 * m_capacity BY <1>0
    <2>2. x % m_capacity = IF x < m_capacity THEN x ELSE x - m_capacity
      <3> HIDE DEF x
      <3> QED BY Zenon, <1>0, <2>1, Mod
    <2> QED BY <1>0, <2>2
  <1> QED BY <1>1, <1>2, <1>3

\* The size of the queue and the tests.
LEMMA Sizes ==
    ASSUME QueueTypeOK
    PROVE  /\ size \in 0..capacity
           /\ isEmpty <=> size = 0
           /\ isFull <=> size = capacity
  <1>1. m_capacity = capacity + 1 /\ capacity \in Nat BY QueueAssumption DEF m_capacity
  <1>2. m_head \in 0..capacity /\ m_tail \in 0..capacity BY DEF QueueTypeOK, Cell
  <1>3. (m_tail + 1) % m_capacity = IF m_tail = capacity THEN 0 ELSE m_tail + 1 BY Wrap DEF QueueTypeOK
  <1>4. size = IF m_tail >= m_head THEN m_tail - m_head ELSE m_tail + m_capacity - m_head BY Wrap
  <1> QED BY <1>1, <1>2, <1>3, <1>4 DEF isEmpty, isFull

\* Every step keeps the types.
LEMMA TypeStep == QueueTypeOK /\ [QueueNext]_queueVars => QueueTypeOK'
  <1> SUFFICES ASSUME QueueTypeOK, [QueueNext]_queueVars PROVE QueueTypeOK' OBVIOUS
  <1> USE DEF QueueTypeOK, Thread
  <1>0. \A c \in Cell : (c + 1) % m_capacity \in Cell BY Wrap, QueueAssumption DEF Cell
  <1>1. ASSUME NEW p \in Producer, push(p) PROVE QueueTypeOK'
    <2>1. e' \in [Producer -> Value] BY <1>1 DEF push
    <2>2. CASE isFull BY <1>1, <2>1, <2>2 DEF push, TryPush
    <2>3. CASE ~isFull
      <3>1. m_queue' = [m_queue EXCEPT ![m_tail] = e'[p]] /\ m_tail' = (m_tail + 1) % m_capacity
            /\ Leave(p, Consumer) /\ m_head' = m_head
        BY <1>1, <2>3 DEF push, TryPush, LeavePush
      <3>2. phase' \in [Thread -> {"idle", "waiting", "woken"}] BY <3>1 DEF Leave, In
      <3> QED BY <1>0, <2>1, <3>1, <3>2
    <2> QED BY <2>2, <2>3
  <1>2. ASSUME NEW c \in Consumer, pop(c) PROVE QueueTypeOK'
    <2>1. phase' \in [Thread -> {"idle", "waiting", "woken"}] BY <1>2 DEF pop, Leave, In
    <2>2. m_head' \in Cell BY <1>0, <1>2 DEF pop
    <2> QED BY <1>2, <2>1, <2>2 DEF pop
  <1>3. ASSUME NEW t \in Thread, SpuriousReturn(t) PROVE QueueTypeOK' BY <1>3 DEF SpuriousReturn
  <1>4. CASE UNCHANGED queueVars BY <1>4 DEF queueVars
  <1> QED BY <1>1, <1>2, <1>3, <1>4 DEF QueueNext

\* Every variable keeps its type: the indices never leave the ring.
THEOREM QueueTypeCorrect == QueueSpec => []QueueTypeOK
  <1>1. QueueInit => QueueTypeOK BY QueueAssumption DEF QueueInit, QueueTypeOK, Cell, Thread
  <1> QED BY <1>1, TypeStep, PTL DEF QueueSpec

\* The size, without the remainder.
LEMMA SizeValue ==
    QueueTypeOK => size = IF m_tail >= m_head THEN m_tail - m_head ELSE m_tail + (capacity + 1) - m_head
  BY Wrap DEF m_capacity

\* A push that finds room and a pop that finds an element change the size by one.
LEMMA SizeStep ==
    ASSUME QueueTypeOK, QueueTypeOK'
    PROVE  /\ ~isFull /\ m_head' = m_head /\ m_tail' = (m_tail + 1) % m_capacity => size' = size + 1
           /\ ~isEmpty /\ m_tail' = m_tail /\ m_head' = (m_head + 1) % m_capacity => size' = size - 1
           /\ m_tail' = m_tail /\ m_head' = m_head => size' = size
  <1>1. capacity \in Nat BY QueueAssumption
  <1>2. /\ m_head \in 0..capacity /\ m_tail \in 0..capacity
        /\ m_head' \in 0..capacity /\ m_tail' \in 0..capacity
    BY DEF QueueTypeOK, Cell
  <1>3. /\ (m_tail + 1) % m_capacity = IF m_tail = capacity THEN 0 ELSE m_tail + 1
        /\ (m_head + 1) % m_capacity = IF m_head = capacity THEN 0 ELSE m_head + 1
    BY Wrap DEF QueueTypeOK
  <1>4. size = IF m_tail >= m_head THEN m_tail - m_head ELSE m_tail + (capacity + 1) - m_head
    BY SizeValue
  <1>5. (QueueTypeOK => size = IF m_tail >= m_head THEN m_tail - m_head
                          ELSE m_tail + (capacity + 1) - m_head)'
    BY SizeValue, PTL
  <1>6. size' = IF m_tail' >= m_head' THEN m_tail' - m_head' ELSE m_tail' + (capacity + 1) - m_head'
    BY <1>5
  <1>7. ASSUME ~isFull, m_head' = m_head, m_tail' = (m_tail + 1) % m_capacity
        PROVE  size' = size + 1
    <2>1. m_tail' = IF m_tail = capacity THEN 0 ELSE m_tail + 1 BY <1>3, <1>7
    <2>2. m_tail' # m_head BY <1>7 DEF isFull
    <2> QED BY <1>1, <1>2, <1>4, <1>6, <1>7, <2>1, <2>2
  <1>8. ASSUME ~isEmpty, m_tail' = m_tail, m_head' = (m_head + 1) % m_capacity
        PROVE  size' = size - 1
    <2>1. m_head' = IF m_head = capacity THEN 0 ELSE m_head + 1 BY <1>3, <1>8
    <2>2. m_tail # m_head BY <1>8 DEF isEmpty
    <2> QED BY <1>1, <1>2, <1>4, <1>6, <1>8, <2>1, <2>2
  <1> QED BY <1>4, <1>6, <1>7, <1>8
-----------------------------------------------------------------------------
(* No wakeup is lost.                                                      *)

\* The sets of waiting and of woken threads are finite, and a set counts one
\* more with a new element and at most one less without an element.
LEMMA Counting ==
    /\ \A S : IsFiniteSet(S) => Cardinality(S) \in Nat
    /\ \A S, x : IsFiniteSet(S) /\ x \notin S =>
         IsFiniteSet(S \cup {x}) /\ Cardinality(S \cup {x}) = Cardinality(S) + 1
    /\ \A S, x : IsFiniteSet(S) => Cardinality(S \ {x}) >= Cardinality(S) - 1
  <1>1. ASSUME NEW S, NEW x, IsFiniteSet(S) PROVE Cardinality(S \ {x}) >= Cardinality(S) - 1
    <2>0. Cardinality(S) \in Nat BY <1>1, FS_CardinalityType
    <2>1. CASE x \in S
      <3>1. Cardinality(S \ {x}) = Cardinality(S) - 1 BY <1>1, <2>1, FS_RemoveElement
      <3> QED BY <2>0, <3>1
    <2>2. CASE x \notin S
      <3>1. S \ {x} = S BY <2>2
      <3> QED BY <2>0, <3>1
    <2> QED BY <2>1, <2>2
  <1> QED BY Zenon, <1>1, FS_AddElement, FS_CardinalityType

\* The threads at a place are finitely many.
LEMMA FiniteIn ==
    ASSUME NEW at PROVE IsFiniteSet(In(Producer, at)) /\ IsFiniteSet(In(Consumer, at))
  BY QueueAssumption, FS_Subset DEF In

\* A thread t of S that leaves is no longer woken, and one of those of R that wait
\* is woken, if there is one.
LEMMA LeaveEffect ==
    ASSUME QueueTypeOK, NEW S, NEW R, S \cap R = {}, S \subseteq Thread, R \subseteq Thread,
           NEW t \in S, phase[t] # "waiting", Leave(t, R)
    PROVE  /\ In(S, "waiting")' = In(S, "waiting") /\ In(S, "woken")' = In(S, "woken") \ {t}
           /\ \/ In(R, "waiting") = {} /\ In(R, "waiting")' = {}
              \/ /\ In(R, "waiting") # {}
                 /\ \E w : w \notin In(R, "woken") /\ In(R, "woken")' = In(R, "woken") \cup {w}
  <1> USE DEF QueueTypeOK, In
  <1>1. CASE In(R, "waiting") = {} /\ phase' = [phase EXCEPT ![t] = "idle"] BY <1>1
  <1>2. CASE \E w \in In(R, "waiting") : phase' = [phase EXCEPT ![t] = "idle", ![w] = "woken"]
    <2>1. PICK w \in In(R, "waiting") : phase' = [phase EXCEPT ![t] = "idle", ![w] = "woken"] BY <1>2
    <2>2. \A x \in Thread : phase'[x] = IF x = w THEN "woken" ELSE IF x = t THEN "idle" ELSE phase[x]
      BY <2>1
    <2> QED BY <2>1, <2>2
  <1> QED BY <1>1, <1>2 DEF Leave

\* A thread t of S that waits is no longer woken; the others are as they were.
LEMMA WaitEffect ==
    ASSUME QueueTypeOK, NEW S, NEW R, S \cap R = {}, S \subseteq Thread, R \subseteq Thread,
           NEW t \in S, phase' = [phase EXCEPT ![t] = "waiting"]
    PROVE  /\ In(R, "waiting")' = In(R, "waiting") /\ In(R, "woken")' = In(R, "woken")
           /\ In(S, "woken")' = In(S, "woken") \ {t}
  BY DEF QueueTypeOK, In

\* The number of woken threads of S after such a step.
LEMMA WokenAfter ==
    ASSUME NEW K, NEW K2, NEW n \in Int, IsFiniteSet(K), Cardinality(K) >= n
    PROVE  /\ (\E w : w \notin K /\ K2 = K \cup {w}) => Cardinality(K2) >= n + 1
           /\ (\E t : K2 = K \ {t}) => Cardinality(K2) >= n - 1
           /\ K \subseteq K2 /\ IsFiniteSet(K2) => Cardinality(K2) >= n
  <1>0. Cardinality(K) \in Nat BY Counting
  <1>1. ASSUME NEW w, w \notin K, K2 = K \cup {w} PROVE Cardinality(K2) >= n + 1
    <2>1. Cardinality(K2) = Cardinality(K) + 1 BY <1>1, Counting
    <2> QED BY <1>0, <2>1
  <1>2. ASSUME NEW t, K2 = K \ {t} PROVE Cardinality(K2) >= n - 1
    <2>1. Cardinality(K2) >= Cardinality(K) - 1 BY Zenon, <1>2, Counting
    <2>2. Cardinality(K2) \in Nat BY <1>2, FS_Subset, FS_CardinalityType
    <2> QED BY <1>0, <2>1, <2>2
  <1>3. ASSUME K \subseteq K2, IsFiniteSet(K2) PROVE Cardinality(K2) >= n
    <2>1. Cardinality(K) <= Cardinality(K2) BY <1>3, FS_Subset
    <2>2. Cardinality(K2) \in Nat BY <1>3, Counting
    <2> QED BY <1>0, <2>1, <2>2
  <1> QED BY Zenon, <1>1, <1>2, <1>3

\* Every step keeps the woken threads matched by cells or elements.
LEMMA WakeupStep == QueueTypeOK /\ NoLostWakeup /\ [QueueNext]_queueVars => NoLostWakeup'
  <1> SUFFICES ASSUME QueueTypeOK, NoLostWakeup, [QueueNext]_queueVars PROVE NoLostWakeup' OBVIOUS
  <1>0. /\ QueueTypeOK' /\ size \in 0..capacity /\ capacity \in Nat
        /\ isEmpty <=> size = 0
        /\ isFull <=> size = capacity
        /\ Producer \cap Consumer = {} /\ Consumer \cap Producer = {} /\ Producer \subseteq Thread /\ Consumer \subseteq Thread
    BY Sizes, TypeStep, QueueAssumption DEF Thread
  <1>f. \A S \in {Producer, Consumer}, at \in {"waiting", "woken"} :
          IsFiniteSet(In(S, at)) /\ IsFiniteSet(In(S, at)')
    <2>1. \A S \in {Producer, Consumer}, at \in {"waiting", "woken"} : IsFiniteSet(In(S, at))
      BY FiniteIn
    <2>2. \A S \in {Producer, Consumer}, at \in {"waiting", "woken"} : IsFiniteSet(In(S, at)')
      BY QueueAssumption, FS_Subset DEF In
    <2> QED BY <2>1, <2>2
  <1>1. ASSUME NEW p \in Producer, push(p) PROVE NoLostWakeup'
    <2>1. phase[p] # "waiting" /\ TryPush(p) /\ m_head' = m_head BY <1>1 DEF push
    <2>2. CASE isFull
      <3>1. phase' = [phase EXCEPT ![p] = "waiting"] /\ m_tail' = m_tail BY <2>1, <2>2 DEF TryPush
      <3>2. size' = size BY <1>0, <2>1, <3>1, SizeStep
      <3>3. Cardinality(In(Producer, "woken")') \in Nat BY <1>f, FS_CardinalityType
      <3>4. In(Consumer, "waiting")' = In(Consumer, "waiting")
            /\ In(Consumer, "woken")' = In(Consumer, "woken")
        BY Zenon, <1>0, <3>1, WaitEffect
      <3>5. capacity - size' = 0 BY <1>0, <2>2, <3>2
      <3> QED BY <3>2, <3>3, <3>4, <3>5 DEF NoLostWakeup
    <2>3. CASE ~isFull
      <3>1. Leave(p, Consumer) /\ m_tail' = (m_tail + 1) % m_capacity
        BY <2>1, <2>3 DEF TryPush, LeavePush
      <3>2. size' = size + 1 BY <1>0, <2>1, <2>3, <3>1, SizeStep
      <3>3. /\ In(Producer, "waiting")' = In(Producer, "waiting")
            /\ In(Producer, "woken")' = In(Producer, "woken") \ {p}
            /\ \/ In(Consumer, "waiting") = {} /\ In(Consumer, "waiting")' = {}
               \/ /\ In(Consumer, "waiting") # {}
                  /\ \E w : /\ w \notin In(Consumer, "woken")
                            /\ In(Consumer, "woken")' = In(Consumer, "woken") \cup {w}
        BY ZenonT(30), <1>0, <2>1, <3>1, LeaveEffect
      <3>4. In(Producer, "waiting")' # {} => Cardinality(In(Producer, "woken")') >= capacity - size'
        <4> SUFFICES ASSUME In(Producer, "waiting") # {}
                     PROVE  Cardinality(In(Producer, "woken")') >= capacity - size'
          BY <3>3
        <4>1. Cardinality(In(Producer, "woken")) >= capacity - size BY DEF NoLostWakeup
        <4>2. capacity - size \in Int /\ capacity - size' = capacity - size - 1 BY <1>0, <3>2
        <4> QED BY Zenon, <1>f, <3>3, <4>1, <4>2, WokenAfter
      <3>5. In(Consumer, "waiting")' # {} => Cardinality(In(Consumer, "woken")') >= size'
        <4> SUFFICES ASSUME In(Consumer, "waiting")' # {}
                     PROVE  Cardinality(In(Consumer, "woken")') >= size'
          OBVIOUS
        <4>1. Cardinality(In(Consumer, "woken")) >= size BY <3>3 DEF NoLostWakeup
        <4>2. size \in Int BY <1>0
        <4> QED BY Zenon, <1>f, <3>2, <3>3, <4>1, <4>2, WokenAfter
      <3> QED BY <3>4, <3>5 DEF NoLostWakeup
    <2> QED BY <2>2, <2>3
  <1>2. ASSUME NEW c \in Consumer, pop(c) PROVE NoLostWakeup'
    <2>1. phase[c] # "waiting" /\ m_tail' = m_tail BY <1>2 DEF pop
    <2>2. CASE isEmpty
      <3>1. phase' = [phase EXCEPT ![c] = "waiting"] /\ m_head' = m_head BY <1>2, <2>2 DEF pop
      <3>2. size' = size BY <1>0, <2>1, <3>1, SizeStep
      <3>3. Cardinality(In(Consumer, "woken")') \in Nat BY <1>f, FS_CardinalityType
      <3>4. In(Producer, "waiting")' = In(Producer, "waiting")
            /\ In(Producer, "woken")' = In(Producer, "woken")
        BY Zenon, <1>0, <3>1, WaitEffect
      <3>5. size' = 0 BY <1>0, <2>2, <3>2
      <3> QED BY <3>2, <3>3, <3>4, <3>5 DEF NoLostWakeup
    <2>3. CASE ~isEmpty
      <3>1. Leave(c, Producer) /\ m_head' = (m_head + 1) % m_capacity BY <1>2, <2>3 DEF pop
      <3>2. size' = size - 1 BY <1>0, <2>1, <2>3, <3>1, SizeStep
      <3>3. /\ In(Consumer, "waiting")' = In(Consumer, "waiting")
            /\ In(Consumer, "woken")' = In(Consumer, "woken") \ {c}
            /\ \/ In(Producer, "waiting") = {} /\ In(Producer, "waiting")' = {}
               \/ /\ In(Producer, "waiting") # {}
                  /\ \E w : /\ w \notin In(Producer, "woken")
                            /\ In(Producer, "woken")' = In(Producer, "woken") \cup {w}
        BY ZenonT(30), <1>0, <2>1, <3>1, LeaveEffect
      <3>4. In(Consumer, "waiting")' # {} => Cardinality(In(Consumer, "woken")') >= size'
        <4> SUFFICES ASSUME In(Consumer, "waiting") # {}
                     PROVE  Cardinality(In(Consumer, "woken")') >= size'
          BY <3>3
        <4>1. Cardinality(In(Consumer, "woken")) >= size BY DEF NoLostWakeup
        <4>2. size \in Int BY <1>0
        <4> QED BY Zenon, <1>f, <3>2, <3>3, <4>1, <4>2, WokenAfter
      <3>5. In(Producer, "waiting")' # {} => Cardinality(In(Producer, "woken")') >= capacity - size'
        <4> SUFFICES ASSUME In(Producer, "waiting")' # {}
                     PROVE  Cardinality(In(Producer, "woken")') >= capacity - size'
          OBVIOUS
        <4>1. Cardinality(In(Producer, "woken")) >= capacity - size BY <3>3 DEF NoLostWakeup
        <4>2. capacity - size \in Int /\ capacity - size' = capacity - size + 1 BY <1>0, <3>2
        <4> QED BY Zenon, <1>f, <3>3, <4>1, <4>2, WokenAfter
      <3> QED BY <3>4, <3>5 DEF NoLostWakeup
    <2> QED BY <2>2, <2>3
  <1>3. ASSUME NEW t \in Thread, SpuriousReturn(t) PROVE NoLostWakeup'
    <2>1. size' = size BY <1>0, <1>3, SizeStep DEF SpuriousReturn
    <2>2. \A S \in {Producer, Consumer} :
            In(S, "waiting")' \subseteq In(S, "waiting") /\ In(S, "woken") \subseteq In(S, "woken")'
      BY <1>0, <1>3 DEF SpuriousReturn, In, QueueTypeOK
    <2>3. \A S \in {Producer, Consumer} :
            /\ Cardinality(In(S, "woken")) <= Cardinality(In(S, "woken")')
            /\ Cardinality(In(S, "woken")) \in Nat /\ Cardinality(In(S, "woken")') \in Nat
      BY <1>f, <2>2, FS_Subset, FS_CardinalityType
    <2> QED BY <1>0, <2>1, <2>2, <2>3 DEF NoLostWakeup
  <1>4. CASE UNCHANGED queueVars BY <1>4 DEF queueVars, NoLostWakeup, In, size
  <1> QED BY <1>1, <1>2, <1>3, <1>4 DEF QueueNext

\* For any capacity and any threads, one signal per push and per pop is enough: no
\* thread waits for what is there without another one on its way to take it.
THEOREM WakeupCorrect == QueueSpec => []NoLostWakeup
  <1>1. QueueInit => NoLostWakeup BY DEF QueueInit, NoLostWakeup, In, Thread
  <1>2. QueueInit => QueueTypeOK BY QueueAssumption DEF QueueInit, QueueTypeOK, Cell, Thread
  <1> QED BY <1>1, <1>2, TypeStep, WakeupStep, PTL DEF QueueSpec
-----------------------------------------------------------------------------
(* The ring is a bounded queue.                                            *)

\* The i-th element of the queue, without the remainder.
LEMMA QueueValue ==
    QueueTypeOK => /\ queue \in Seq(Value) /\ Len(queue) = size
              /\ \A i \in 1..size : queue[i] = m_queue[IF m_head + i - 1 <= capacity
                                       THEN m_head + i - 1 ELSE m_head + i - 1 - (capacity + 1)]
  <1> SUFFICES ASSUME QueueTypeOK PROVE /\ queue \in Seq(Value) /\ Len(queue) = size
              /\ \A i \in 1..size : queue[i] = m_queue[IF m_head + i - 1 <= capacity
                                       THEN m_head + i - 1 ELSE m_head + i - 1 - (capacity + 1)]
    OBVIOUS
  <1>1. size \in 0..capacity /\ capacity \in Nat /\ m_head \in 0..capacity
    BY Sizes, QueueAssumption DEF QueueTypeOK, Cell
  <1>2. \A i \in 1..size : i \in 1..m_capacity BY <1>1 DEF m_capacity
  <1>3. \A i \in 1..size : (m_head + i - 1) % m_capacity
          = IF m_head + i - 1 <= capacity THEN m_head + i - 1 ELSE m_head + i - 1 - (capacity + 1)
    BY <1>2, Wrap DEF m_capacity
  <1>4. \A i \in 1..size : queue[i] = m_queue[IF m_head + i - 1 <= capacity
                                       THEN m_head + i - 1 ELSE m_head + i - 1 - (capacity + 1)]
    BY <1>3 DEF queue
  <1>5. \A i \in 1..size : (IF m_head + i - 1 <= capacity
                            THEN m_head + i - 1 ELSE m_head + i - 1 - (capacity + 1)) \in 0..capacity
    BY <1>1
  <1>6. \A i \in 1..size : queue[i] \in Value BY <1>4, <1>5 DEF QueueTypeOK, Cell
  <1>7. queue \in [1..size -> Value] BY <1>6 DEF queue
  <1>8. queue \in Seq(Value) /\ Len(queue) = size BY <1>1, <1>7
  <1> QED BY <1>4, <1>8

\* A push that finds room appends to the queue.
LEMMA PushAppends ==
    ASSUME QueueTypeOK, QueueTypeOK', ~isFull, m_head' = m_head, m_tail' = (m_tail + 1) % m_capacity,
           NEW v \in Value, m_queue' = [m_queue EXCEPT ![m_tail] = v]
    PROVE  queue' = Append(queue, v)
  <1> DEFINE at(i) == IF m_head + i - 1 <= capacity THEN m_head + i - 1
                      ELSE m_head + i - 1 - (capacity + 1)
  <1>1. /\ capacity \in Nat /\ m_head \in 0..capacity /\ m_tail \in 0..capacity
        /\ size \in 0..capacity /\ size # capacity
    BY QueueAssumption, Sizes DEF QueueTypeOK, Cell
  <1>2. size = IF m_tail >= m_head THEN m_tail - m_head ELSE m_tail + (capacity + 1) - m_head
    BY SizeValue
  <1>3. size' = size + 1 BY SizeStep
  <1>4. queue \in Seq(Value) /\ Len(queue) = size /\ \A i \in 1..size : queue[i] = m_queue[at(i)]
    BY QueueValue
  <1>5. (QueueTypeOK => /\ queue \in Seq(Value) /\ Len(queue) = size
              /\ \A i \in 1..size : queue[i] = m_queue[IF m_head + i - 1 <= capacity
                                       THEN m_head + i - 1 ELSE m_head + i - 1 - (capacity + 1)])'
    BY QueueValue, PTL
  <1>6. queue' \in Seq(Value) /\ Len(queue') = size + 1
        /\ \A i \in 1..(size + 1) : queue'[i] = m_queue'[at(i)]
    BY <1>3, <1>5
  <1>7. at(size + 1) = m_tail BY <1>1, <1>2
  <1>8. \A i \in 1..size : at(i) # m_tail /\ at(i) \in 0..capacity BY <1>1, <1>2
  <1> HIDE DEF at
  <1>9. \A i \in 1..size : queue'[i] = queue[i]
    <2> SUFFICES ASSUME NEW i \in 1..size PROVE queue'[i] = queue[i] OBVIOUS
    <2>1. i \in 1..(size + 1) BY <1>1
    <2> QED BY <1>4, <1>6, <1>8, <2>1 DEF QueueTypeOK, Cell
  <1>10. queue'[size + 1] = v
    <2>1. size + 1 \in 1..(size + 1) BY <1>1
    <2>2. queue'[size + 1] = m_queue'[m_tail] BY <1>6, <1>7, <2>1
    <2> QED BY <2>2 DEF QueueTypeOK
  <1> QED BY SMTT(30), <1>1, <1>4, <1>6, <1>9, <1>10

\* A pop that finds an element removes the first.
LEMMA PopRemoves ==
    ASSUME QueueTypeOK, QueueTypeOK', ~isEmpty, m_tail' = m_tail, m_head' = (m_head + 1) % m_capacity,
           m_queue' = m_queue
    PROVE  queue # <<>> /\ queue' = Tail(queue)
  <1> DEFINE at(h, i) == IF h + i - 1 <= capacity THEN h + i - 1 ELSE h + i - 1 - (capacity + 1)
  <1>1. capacity \in Nat /\ m_head \in 0..capacity /\ size \in 0..capacity /\ size # 0
    BY QueueAssumption, Sizes DEF QueueTypeOK, Cell
  <1>2. m_head' = IF m_head = capacity THEN 0 ELSE m_head + 1
    BY Wrap DEF QueueTypeOK
  <1>3. size' = size - 1 BY SizeStep
  <1>4. queue \in Seq(Value) /\ Len(queue) = size /\ \A i \in 1..size : queue[i] = m_queue[at(m_head, i)]
    BY QueueValue
  <1>5. (QueueTypeOK => /\ queue \in Seq(Value) /\ Len(queue) = size
              /\ \A i \in 1..size : queue[i] = m_queue[IF m_head + i - 1 <= capacity
                                       THEN m_head + i - 1 ELSE m_head + i - 1 - (capacity + 1)])'
    BY QueueValue, PTL
  <1>6. queue' \in Seq(Value) /\ Len(queue') = size - 1
        /\ \A i \in 1..(size - 1) : queue'[i] = m_queue[at(m_head', i)]
    BY <1>3, <1>5
  <1>7. \A i \in 1..(size - 1) : at(m_head', i) = at(m_head, i + 1) BY <1>1, <1>2
  <1> HIDE DEF at
  <1>8. \A i \in 1..(size - 1) : queue'[i] = queue[i + 1]
    <2> SUFFICES ASSUME NEW i \in 1..(size - 1) PROVE queue'[i] = queue[i + 1] OBVIOUS
    <2>1. i + 1 \in 1..size BY <1>1
    <2> QED BY <1>4, <1>6, <1>7, <2>1
  <1> QED BY <1>1, <1>4, <1>6, <1>8

\* A step of the ring is a step of the queue or leaves it as it is.
LEMMA QueueStep == QueueTypeOK /\ [QueueNext]_queueVars => [Abstract!Next]_queue
  <1> SUFFICES ASSUME QueueTypeOK, [QueueNext]_queueVars PROVE [Abstract!Next]_queue OBVIOUS
  <1>0. QueueTypeOK' /\ size \in 0..capacity /\ capacity \in Nat /\ Len(queue) = size
        /\ (isFull <=> size = capacity)
    BY Sizes, TypeStep, QueueAssumption, QueueValue
  <1>s. ASSUME m_queue' = m_queue, m_head' = m_head, m_tail' = m_tail PROVE queue' = queue
    BY <1>s DEF queue, size
  <1>1. ASSUME NEW p \in Producer, push(p) PROVE [Abstract!Next]_queue
    <2>1. TryPush(p) /\ m_head' = m_head BY <1>1 DEF push
    <2>2. CASE isFull BY <1>s, <2>1, <2>2 DEF TryPush
    <2>3. CASE ~isFull
      <3>1. m_queue' = [m_queue EXCEPT ![m_tail] = e'[p]] /\ m_tail' = (m_tail + 1) % m_capacity
        BY <2>1, <2>3 DEF TryPush
      <3>2. e'[p] \in Value BY <1>0 DEF QueueTypeOK
      <3>3. queue' = Append(queue, e'[p]) BY Zenon, <1>0, <2>1, <2>3, <3>1, <3>2, PushAppends
      <3>4. Len(queue) < capacity BY <1>0, <2>3
      <3> QED BY SMTT(30), <3>2, <3>3, <3>4 DEF Abstract!Next, Abstract!Put
    <2> QED BY <2>2, <2>3
  <1>2. ASSUME NEW c \in Consumer, pop(c) PROVE [Abstract!Next]_queue
    <2>1. CASE isEmpty BY <1>2, <1>s, <2>1 DEF pop
    <2>2. CASE ~isEmpty
      <3>1. queue # <<>> /\ queue' = Tail(queue) BY <1>0, <1>2, <2>2, PopRemoves DEF pop
      <3> QED BY <3>1 DEF Abstract!Next, Abstract!Get
    <2> QED BY <2>1, <2>2
  <1>3. ASSUME NEW t \in Thread, SpuriousReturn(t) PROVE [Abstract!Next]_queue
    BY <1>3, <1>s DEF SpuriousReturn
  <1>4. CASE UNCHANGED queueVars BY <1>4, <1>s DEF queueVars
  <1> QED BY <1>1, <1>2, <1>3, <1>4 DEF QueueNext

\* For any capacity, any elements and any threads, the ring with its indices and
\* remainders implements a bounded first-in first-out queue.
THEOREM RefinementCorrect == QueueSpec => IsBoundedQueue
  <1>1. QueueInit => QueueTypeOK BY QueueAssumption DEF QueueInit, QueueTypeOK, Cell, Thread
  <1>2. QueueInit => Abstract!Init
    <2> SUFFICES ASSUME QueueInit PROVE queue = <<>> BY DEF Abstract!Init
    <2>1. QueueTypeOK /\ isEmpty BY <1>1 DEF QueueInit, isEmpty
    <2> QED BY <2>1, Sizes, QueueValue
  <1> QED BY <1>1, <1>2, TypeStep, QueueStep, PTL DEF QueueSpec, IsBoundedQueue, Abstract!Spec
=============================================================================
