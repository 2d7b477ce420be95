------------------------------ MODULE SafeQueue ------------------------------
(***************************************************************************)
(* SafeQueue of Mini_DCS (master/common/safeQueue.h): a ring of capacity+1 *)
(* cells with one mutex and two conditions.  push and pop hold m_mutex but *)
(* for their waits, so the part between two waits is one step.             *)
(***************************************************************************)
EXTENDS Integers, FiniteSets

CONSTANTS
    Producer, Consumer,   \* the threads that call push and pop
    Value, Blank,         \* the elements; Blank is what the vector starts with
    capacity

ASSUME QueueAssumption ==
    /\ capacity \in Nat \ {0} /\ Blank \in Value
    /\ IsFiniteSet(Producer) /\ IsFiniteSet(Consumer) /\ Producer \cap Consumer = {}

VARIABLES m_queue, m_head, m_tail,
    phase,        \* thread -> outside ("idle"), in pthread_cond_wait, or signalled
    e             \* producer -> the element of its push

queueVars == <<m_queue, m_head, m_tail, phase, e>>

m_capacity == capacity + 1
Cell == 0..capacity
Thread == Producer \cup Consumer

QueueTypeOK ==
    /\ m_queue \in [Cell -> Value] /\ m_head \in Cell /\ m_tail \in Cell
    /\ phase \in [Thread -> {"idle", "waiting", "woken"}]
    /\ e \in [Producer -> Value]

QueueInit ==
    /\ m_queue = [c \in Cell |-> Blank] /\ m_head = 0 /\ m_tail = 0
    /\ phase = [t \in Thread |-> "idle"] /\ e = [p \in Producer |-> Blank]

size == (m_tail + m_capacity - m_head) % m_capacity
isEmpty == m_tail = m_head

isFull == (m_tail + 1) % m_capacity = m_head

In(S, at) == {t \in S : phase[t] = at}

\* The thread t leaves and pthread_cond_signal releases one of those in S that wait.
Leave(t, S) ==
    \/ In(S, "waiting") = {} /\ phase' = [phase EXCEPT ![t] = "idle"]
    \/ \E w \in In(S, "waiting") : phase' = [phase EXCEPT ![t] = "idle", ![w] = "woken"]

\* Mutants of LeavePush: no signal; a signal only for the first element.
LeavePushMutant(p) == phase' = [phase EXCEPT ![p] = "idle"]
LeavePushFirst(p) == IF isEmpty THEN Leave(p, Consumer) ELSE phase' = [phase EXCEPT ![p] = "idle"]

LeavePush(p) == Leave(p, Consumer)

\* Mutants of TryPush: a push that was woken does not test again, as with if for
\* while; the index does not wrap.
TryPushMutant(p) ==
    IF isFull /\ phase[p] = "idle"
    THEN phase' = [phase EXCEPT ![p] = "waiting"] /\ UNCHANGED <<m_queue, m_tail>>
    ELSE /\ m_queue' = [m_queue EXCEPT ![m_tail] = e'[p]]
         /\ m_tail' = (m_tail + 1) % m_capacity
         /\ LeavePush(p)
TryPushNoWrap(p) ==
    IF isFull THEN phase' = [phase EXCEPT ![p] = "waiting"] /\ UNCHANGED <<m_queue, m_tail>>
    ELSE /\ m_queue' = [m_queue EXCEPT ![m_tail] = e'[p]]
         /\ m_tail' = m_tail + 1
         /\ LeavePush(p)

\* The loop of push, with m_mutex: wait again, or store and leave.
TryPush(p) ==
    IF isFull THEN phase' = [phase EXCEPT ![p] = "waiting"] /\ UNCHANGED <<m_queue, m_tail>>
    ELSE /\ m_queue' = [m_queue EXCEPT ![m_tail] = e'[p]]
         /\ m_tail' = (m_tail + 1) % m_capacity
         /\ LeavePush(p)

push(p) ==
    \/ phase[p] = "idle" /\ \E v \in Value : e' = [e EXCEPT ![p] = v] /\ TryPush(p) /\ UNCHANGED m_head
    \/ phase[p] = "woken" /\ UNCHANGED e /\ TryPush(p) /\ UNCHANGED m_head

\* The loop of pop, likewise.
pop(c) ==
    /\ phase[c] \in {"idle", "woken"}
    /\ IF isEmpty THEN phase' = [phase EXCEPT ![c] = "waiting"] /\ UNCHANGED m_head
       ELSE m_head' = (m_head + 1) % m_capacity /\ Leave(c, Producer)
    /\ UNCHANGED <<m_queue, m_tail, e>>

\* pthread_cond_wait may return without a signal.
SpuriousReturn(t) ==
    /\ phase[t] = "waiting" /\ phase' = [phase EXCEPT ![t] = "woken"]
    /\ UNCHANGED <<m_queue, m_head, m_tail, e>>

QueueNext ==
    \/ \E p \in Producer : push(p)
    \/ \E c \in Consumer : pop(c)
    \/ \E t \in Thread : SpuriousReturn(t)

QueueSpec == QueueInit /\ [][QueueNext]_queueVars

\* The threads of test_safeQueue.cpp call push and pop for ever.
QueueFairSpec ==
    /\ QueueSpec
    /\ \A p \in Producer : WF_queueVars(push(p))
    /\ \A c \in Consumer : WF_queueVars(pop(c))
-----------------------------------------------------------------------------
\* The cells from m_head on hold the queue.
queue == [i \in 1..size |-> m_queue[(m_head + i - 1) % m_capacity]]
Abstract == INSTANCE BoundedQueue

\* push and pop implement a first-in first-out queue of at most capacity elements:
\* no element is overwritten, lost, duplicated or reordered, whoever waits.
IsBoundedQueue == Abstract!Spec

\* While a push waits, as many are woken as there are free cells, and while a pop
\* waits, as many as there are elements: one signal per change loses no wakeup,
\* although calls that did not wait may be served before those that did.
NoLostWakeup ==
    /\ In(Producer, "waiting") # {} => Cardinality(In(Producer, "woken")) >= capacity - size
    /\ In(Consumer, "waiting") # {} => Cardinality(In(Consumer, "woken")) >= size

\* With callers that never stop, the head of a queue that is not empty is popped
\* and a cell is filled while one is free.
Progress ==
    \A i \in Cell : /\ m_head = i /\ ~isEmpty ~> m_head # i
                    /\ m_tail = i /\ ~isFull ~> m_tail # i
=============================================================================
