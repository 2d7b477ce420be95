----------------------------- MODULE ThreadPool -----------------------------
(***************************************************************************)
(* The thread pool of the cache servers and masters                        *)
(* (Cache Server/0/thrd_pool.hpp): m_minNum..m_maxNum workers that wait on  *)
(* m_notEmpty, a manager that grows and shrinks the pool, the event loop   *)
(* that adds tasks, and the destructor, which that same thread runs.       *)
(*                                                                         *)
(* A worker is its slot of m_threadIDs.  Each step of a worker ends where   *)
(* another thread can interfere: addTask pushes under the queue's own mutex *)
(* and signals without m_lock, so the test of the queue and the wait are    *)
(* two steps although both happen under m_lock.                            *)
(***************************************************************************)
EXTENDS Integers, FiniteSets

CONSTANTS
    m_minNum, m_maxNum,
    MaxQueue,     \* bound: tasks queued at a time (std::queue has none)
    MaxGarbage    \* bound: m_exitNum is not initialised by the constructor

ASSUME PoolAssumption ==
    /\ m_minNum \in Nat /\ m_maxNum \in Nat /\ m_minNum <= m_maxNum
    /\ MaxQueue \in Nat /\ MaxGarbage \in Nat

VARIABLES
    pc,          \* worker slot -> where its thread is; "none": m_threadIDs[i] = 0
    m_lock,      \* slot that holds m_lock between two steps, Free or Destroyed
    m_taskQ,     \* number of queued tasks
    m_busyNum, m_aliveNum, m_exitNum, m_shutdown,
    manager,     \* the manager's position and the two decisions it made
    owner        \* the event loop: adding a task, or in the destructor

vars == <<pc, m_lock, m_taskQ, m_busyNum, m_aliveNum, m_exitNum, m_shutdown,
          manager, owner>>

Slots == 1..m_maxNum
Free == 0
Destroyed == -1
NUMBER == 2

WorkerPC == {"none", "start", "towait", "waiting", "woken", "take", "run", "exit", "crash"}
ManagerPC == {"top", "sample", "grow", "shrink", "signal", "signal2", "stopped"}
OwnerPC == {"idle", "signal", "join", "wakeall", "freed"}

TypeOK ==
    /\ pc \in [Slots -> WorkerPC]
    /\ m_lock \in Slots \cup {Free, Destroyed}
    /\ m_taskQ \in Nat
    /\ m_busyNum \in Int /\ m_aliveNum \in Int /\ m_exitNum \in Nat
    /\ m_shutdown \in BOOLEAN
    /\ manager \in [pc : ManagerPC, grow : BOOLEAN, shrink : BOOLEAN]
    /\ owner \in [pc : OwnerPC, sent : Nat]

Init ==
    /\ pc = [w \in Slots |-> IF w <= m_minNum THEN "start" ELSE "none"]
    /\ m_lock = Free
    /\ m_taskQ = 0
    /\ m_busyNum = 0
    /\ m_aliveNum = m_minNum
    /\ m_exitNum \in 0..MaxGarbage
    /\ m_shutdown = FALSE
    /\ manager = [pc |-> "top", grow |-> FALSE, shrink |-> FALSE]
    /\ owner = [pc |-> "idle", sent |-> 0]

Waiting == {w \in Slots : pc[w] = "waiting"}

\* pthread_cond_signal: a waiter, if there is one, is released.
Signal ==
    \/ Waiting = {} /\ UNCHANGED pc
    \/ \E w \in Waiting : pc' = [pc EXCEPT ![w] = "woken"]
-----------------------------------------------------------------------------
(* The workers.                                                            *)

\* The test at the top of the inner loop, with m_lock just acquired: keep the
\* lock to wait or to take, or release it and exit.
LoopTest(w) ==
    IF m_shutdown THEN pc' = [pc EXCEPT ![w] = "exit"] /\ m_lock' = Free
    ELSE /\ pc' = [pc EXCEPT ![w] = IF m_taskQ = 0 THEN "towait" ELSE "take"]
         /\ m_lock' = w

Start(w) ==
    /\ pc[w] = "start" /\ m_lock = Free
    /\ LoopTest(w)
    /\ UNCHANGED <<m_taskQ, m_busyNum, m_aliveNum, m_exitNum, m_shutdown, manager, owner>>

\* pthread_cond_wait releases m_lock and waits in one step.
Wait(w) ==
    /\ pc[w] = "towait" /\ m_lock = w
    /\ pc' = [pc EXCEPT ![w] = "waiting"]
    /\ m_lock' = Free
    /\ UNCHANGED <<m_taskQ, m_busyNum, m_aliveNum, m_exitNum, m_shutdown, manager, owner>>

SpuriousWakeup(w) ==
    /\ pc[w] = "waiting"
    /\ pc' = [pc EXCEPT ![w] = "woken"]
    /\ UNCHANGED <<m_lock, m_taskQ, m_busyNum, m_aliveNum, m_exitNum, m_shutdown, manager, owner>>

\* Mutants of Wake: m_exitNum is not tested; the queue is not tested again; the
\* minimum is not kept; an exiting worker does not unlock m_lock.
WakeNoExitTest(w) ==
    /\ pc[w] = "woken" /\ m_lock = Free
    /\ m_exitNum' = m_exitNum - 1
    /\ IF m_aliveNum > m_minNum
       THEN m_aliveNum' = m_aliveNum - 1 /\ pc' = [pc EXCEPT ![w] = "exit"] /\ m_lock' = Free
       ELSE UNCHANGED m_aliveNum /\ LoopTest(w)
    /\ UNCHANGED <<m_taskQ, m_busyNum, m_shutdown, manager, owner>>
WakeNoRetest(w) ==
    /\ pc[w] = "woken" /\ m_lock = Free
    /\ m_exitNum' = IF m_exitNum > 0 THEN m_exitNum - 1 ELSE 0
    /\ IF m_exitNum > 0 /\ m_aliveNum > m_minNum
       THEN m_aliveNum' = m_aliveNum - 1 /\ pc' = [pc EXCEPT ![w] = "exit"] /\ m_lock' = Free
       ELSE UNCHANGED m_aliveNum /\ pc' = [pc EXCEPT ![w] = "take"] /\ m_lock' = w
    /\ UNCHANGED <<m_taskQ, m_busyNum, m_shutdown, manager, owner>>
WakeKeepsLock(w) ==
    /\ pc[w] = "woken" /\ m_lock = Free
    /\ m_exitNum' = IF m_exitNum > 0 THEN m_exitNum - 1 ELSE 0
    /\ IF m_exitNum > 0 /\ m_aliveNum > m_minNum
       THEN m_aliveNum' = m_aliveNum - 1 /\ pc' = [pc EXCEPT ![w] = "exit"] /\ m_lock' = w
       ELSE UNCHANGED m_aliveNum /\ LoopTest(w)
    /\ UNCHANGED <<m_taskQ, m_busyNum, m_shutdown, manager, owner>>
WakeNoMinimum(w) ==
    /\ pc[w] = "woken" /\ m_lock = Free
    /\ m_exitNum' = IF m_exitNum > 0 THEN m_exitNum - 1 ELSE 0
    /\ IF m_exitNum > 0
       THEN m_aliveNum' = m_aliveNum - 1 /\ pc' = [pc EXCEPT ![w] = "exit"] /\ m_lock' = Free
       ELSE UNCHANGED m_aliveNum /\ LoopTest(w)
    /\ UNCHANGED <<m_taskQ, m_busyNum, m_shutdown, manager, owner>>

Wake(w) ==
    /\ pc[w] = "woken" /\ m_lock = Free
    /\ m_exitNum' = IF m_exitNum > 0 THEN m_exitNum - 1 ELSE 0
    /\ IF m_exitNum > 0 /\ m_aliveNum > m_minNum
       THEN m_aliveNum' = m_aliveNum - 1 /\ pc' = [pc EXCEPT ![w] = "exit"] /\ m_lock' = Free
       ELSE UNCHANGED m_aliveNum /\ LoopTest(w)
    /\ UNCHANGED <<m_taskQ, m_busyNum, m_shutdown, manager, owner>>

\* takeTask; a default Task has no function, and calling it ends the program.
Take(w) ==
    /\ pc[w] = "take" /\ m_lock = w
    /\ IF m_taskQ > 0
       THEN m_taskQ' = m_taskQ - 1 /\ pc' = [pc EXCEPT ![w] = "run"]
       ELSE UNCHANGED m_taskQ /\ pc' = [pc EXCEPT ![w] = "crash"]
    /\ m_busyNum' = m_busyNum + 1
    /\ m_lock' = Free
    /\ UNCHANGED <<m_aliveNum, m_exitNum, m_shutdown, manager, owner>>

\* Mutant of Finish: the task returns without m_busyNum--.
FinishKeepsBusy(w) ==
    /\ pc[w] = "run" /\ m_lock = Free
    /\ pc' = [pc EXCEPT ![w] = "start"]
    /\ UNCHANGED <<m_lock, m_taskQ, m_busyNum, m_aliveNum, m_exitNum, m_shutdown, manager, owner>>

Finish(w) ==
    /\ pc[w] = "run" /\ m_lock = Free
    /\ m_busyNum' = m_busyNum - 1
    /\ pc' = [pc EXCEPT ![w] = "start"]
    /\ UNCHANGED <<m_lock, m_taskQ, m_aliveNum, m_exitNum, m_shutdown, manager, owner>>

threadExit(w) ==
    /\ pc[w] = "exit"
    /\ pc' = [pc EXCEPT ![w] = "none"]
    /\ UNCHANGED <<m_lock, m_taskQ, m_busyNum, m_aliveNum, m_exitNum, m_shutdown, manager, owner>>

worker(w) ==
    Start(w) \/ Wait(w) \/ Wake(w) \/ Take(w) \/ Finish(w) \/ threadExit(w)
-----------------------------------------------------------------------------
(* The manager: it decides on a snapshot and acts on it later.             *)

ManagerLoop ==
    /\ manager.pc = "top"
    /\ manager' = [manager EXCEPT !.pc = IF m_shutdown THEN "stopped" ELSE "sample"]
    /\ UNCHANGED <<pc, m_lock, m_taskQ, m_busyNum, m_aliveNum, m_exitNum, m_shutdown, owner>>

Sample ==
    /\ manager.pc = "sample" /\ m_lock = Free
    /\ manager' = [pc |-> "grow",
                   grow |-> m_taskQ > m_aliveNum /\ m_aliveNum < m_maxNum,
                   shrink |-> m_busyNum * 2 < m_aliveNum /\ m_aliveNum > m_minNum]
    /\ UNCHANGED <<pc, m_lock, m_taskQ, m_busyNum, m_aliveNum, m_exitNum, m_shutdown, owner>>

\* The first free slots, at most NUMBER and at most up to m_maxNum threads.
Created(new) ==
    LET free == {w \in Slots : pc[w] = "none"} IN
    /\ new \subseteq free
    /\ \A i \in new, j \in free \ new : i < j
    /\ Cardinality(new) <= NUMBER
    /\ Cardinality(new) <= m_maxNum - m_aliveNum
    /\ new = free \/ Cardinality(new) = NUMBER \/ Cardinality(new) = m_maxNum - m_aliveNum

Grow ==
    /\ manager.pc = "grow"
    /\ manager' = [manager EXCEPT !.pc = "shrink"]
    /\ IF manager.grow
       THEN /\ m_lock = Free
            /\ \E new \in SUBSET Slots :
                 /\ Created(new)
                 /\ pc' = [w \in Slots |-> IF w \in new THEN "start" ELSE pc[w]]
                 /\ m_aliveNum' = m_aliveNum + Cardinality(new)
       ELSE UNCHANGED <<pc, m_aliveNum>>
    /\ UNCHANGED <<m_lock, m_taskQ, m_busyNum, m_exitNum, m_shutdown, owner>>

Shrink ==
    /\ manager.pc = "shrink"
    /\ IF manager.shrink
       THEN m_lock = Free /\ m_exitNum' = NUMBER /\ manager' = [manager EXCEPT !.pc = "signal"]
       ELSE UNCHANGED m_exitNum /\ manager' = [manager EXCEPT !.pc = "top"]
    /\ UNCHANGED <<pc, m_lock, m_taskQ, m_busyNum, m_aliveNum, m_shutdown, owner>>

ManagerSignal ==
    /\ manager.pc \in {"signal", "signal2"}
    /\ Signal
    /\ manager' = [manager EXCEPT !.pc = IF @ = "signal" THEN "signal2" ELSE "top"]
    /\ UNCHANGED <<m_lock, m_taskQ, m_busyNum, m_aliveNum, m_exitNum, m_shutdown, owner>>

Manager == ManagerLoop \/ Sample \/ Grow \/ Shrink \/ ManagerSignal
-----------------------------------------------------------------------------
(* The event loop thread: addTask, and the destructor.                     *)

addTask ==
    /\ owner.pc = "idle" /\ ~m_shutdown
    /\ m_taskQ < MaxQueue
    /\ m_taskQ' = m_taskQ + 1
    /\ owner' = [owner EXCEPT !.pc = "signal"]
    /\ UNCHANGED <<pc, m_lock, m_busyNum, m_aliveNum, m_exitNum, m_shutdown, manager>>

addTaskSignal ==
    /\ owner.pc = "signal"
    /\ Signal
    /\ owner' = [owner EXCEPT !.pc = "idle"]
    /\ UNCHANGED <<m_lock, m_taskQ, m_busyNum, m_aliveNum, m_exitNum, m_shutdown, manager>>

Destroy ==
    /\ owner.pc = "idle"
    /\ m_shutdown' = TRUE
    /\ owner' = [owner EXCEPT !.pc = "join"]
    /\ UNCHANGED <<pc, m_lock, m_taskQ, m_busyNum, m_aliveNum, m_exitNum, manager>>

Join ==
    /\ owner.pc = "join" /\ manager.pc = "stopped"
    /\ owner' = [owner EXCEPT !.pc = "wakeall"]
    /\ UNCHANGED <<pc, m_lock, m_taskQ, m_busyNum, m_aliveNum, m_exitNum, m_shutdown, manager>>

WakeAll ==
    /\ owner.pc = "wakeall"
    /\ IF owner.sent < m_aliveNum
       THEN Signal /\ owner' = [owner EXCEPT !.sent = @ + 1] /\ UNCHANGED m_lock
       ELSE UNCHANGED pc /\ owner' = [owner EXCEPT !.pc = "freed"] /\ m_lock' = Destroyed
    /\ UNCHANGED <<m_taskQ, m_busyNum, m_aliveNum, m_exitNum, m_shutdown, manager>>

Owner == addTask \/ addTaskSignal \/ Join \/ WakeAll
-----------------------------------------------------------------------------
\* A worker that outlives the destroyed mutex uses freed memory; the model
\* does not follow it past its next use of m_lock.
Next ==
    \/ \E w \in Slots : worker(w) \/ SpuriousWakeup(w)
    \/ Manager
    \/ Owner \/ Destroy

Spec == Init /\ [][Next]_vars

\* Threads that can run do run; acquiring m_lock is fair.  Tasks end.
Scheduling ==
    /\ \A w \in Slots : SF_vars(worker(w))
    /\ SF_vars(Manager)
    /\ WF_vars(addTaskSignal) /\ WF_vars(Join) /\ WF_vars(WakeAll)

FairSpec == Spec /\ Scheduling
\* Requests keep arriving.
BusySpec == FairSpec /\ WF_vars(addTask)
-----------------------------------------------------------------------------
Active == {w \in Slots : pc[w] \notin {"none", "exit"}}
Running == {w \in Slots : pc[w] \in {"run", "crash"}}

\* A worker that left the waiting loop always finds a task: what it saw in the
\* queue under m_lock is still there when it takes it, so it never calls the
\* empty function of a default Task.
TaskIsThere == \A w \in Slots : pc[w] = "take" => m_taskQ > 0

\* m_lock is held by exactly the worker between its loop test and its wait or
\* its takeTask, until the destructor destroys it.
LockHeld ==
    \A w \in Slots :
      /\ m_lock = w => pc[w] \in {"take", "towait"}
      /\ pc[w] \in {"take", "towait"} => m_lock \in {w, Destroyed}

\* The pool keeps between m_minNum and m_maxNum workers, although the manager
\* decides on stale numbers and m_exitNum starts with any value; m_aliveNum
\* counts them until the destructor starts.
AliveWithinBounds ==
    /\ m_minNum <= m_aliveNum /\ m_aliveNum <= m_maxNum
    /\ Cardinality(Active) <= m_aliveNum
    /\ ~m_shutdown => Cardinality(Active) = m_aliveNum

\* m_busyNum is the number of workers that run a task.
BusyCounted == m_busyNum = Cardinality(Running)

\* While requests keep arriving the pool never stalls for good: lost signals
\* and workers that are told to exit delay tasks, they do not stop the pool.
PoolServes == []<>(Running # {}) \/ <>[]m_shutdown

\* A task that addTask queued wakes a worker that runs it.
QueuedTaskIsServed == (m_taskQ > 0) ~> (Running # {} \/ m_shutdown)

\* When the destructor has sent its m_aliveNum signals and frees the pool, no
\* worker is left waiting on m_notEmpty.
DestructorWakesAll == owner.pc = "freed" => Waiting = {}
=============================================================================
