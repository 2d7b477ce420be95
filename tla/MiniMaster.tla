----------------------------- MODULE MiniMaster -----------------------------
(***************************************************************************)
(* The event loop of the Mini_DCS master (master/src/netServer.cpp) with   *)
(* its timer heap (master/common/timer.cpp), the connections it closes     *)
(* when they are idle, and the registration of cache servers               *)
(* (master/src/manager.cpp).  Steps of the loop and of the workers on the  *)
(* heap and on users_ are atomic here; the code takes no lock for them.    *)
(***************************************************************************)
EXTENDS Integers, Sequences, FiniteSets

CONSTANTS
    Fd,         \* descriptors accept may return, integers
    None,       \* no memory
    Node,       \* places in memory where a Connection may be
    timeOutMs,  \* 2000 ms, in ticks
    KeepAlive,  \* 2500 ms, in ticks
    MaxLate,    \* bound: ticks a timer may be overdue
    MaxTasks    \* bound: tasks of the pool that are not done

Forever == -1  \* what getNextHandle returns for an empty heap

ASSUME MiniAssumption ==
    /\ Fd \subseteq Nat \ {0} /\ IsFiniteSet(Fd) /\ Cardinality(Node) >= Cardinality(Fd) /\ None \notin Node
    /\ timeOutMs \in Nat \ {0} /\ KeepAlive \in Nat /\ timeOutMs <= KeepAlive
    /\ MaxLate \in Nat /\ MaxTasks \in Nat

VARIABLES
    timer_,     \* heap_, with the time each timer has left, and ref_
    users_,     \* descriptor -> memory of its Connection, or None
    fd_,        \* memory -> the descriptor last written to it, 0 if none
    armed,      \* descriptors whose one-shot event is armed
    tasks,      \* tasks of the pool, with the memory of the Connection
    m_sourceMutex, \* a worker holds it and waits for it
    loop,       \* "run", "wait", "stuck" (waits for m_sourceMutex) or "aborted"
    timeMS,     \* what epoll_wait still waits, or Forever
    idle        \* history: ticks since the last event of a connection

vars == <<timer_, users_, fd_, armed, tasks, m_sourceMutex, loop, timeMS, idle>>
Net == <<users_, fd_, armed, idle>>
-----------------------------------------------------------------------------
(* TimerManager.  Positions are 1, 2, ... here, and an id that is not in   *)
(* ref_ has the position 0.                                                *)
TimeNode == [id : Fd, expire : Int, cb : Node \cup {None}]
Timers == [heap : Seq(TimeNode), ref : [Fd -> Nat]]

swapNode(t, i, j) ==
    [heap |-> [t.heap EXCEPT ![i] = t.heap[j], ![j] = t.heap[i]],
     ref |-> [t.ref EXCEPT ![t.heap[j].id] = i, ![t.heap[i].id] = j]]

\* The state of a loop after k iterations of body, from start on.
Iterate(body, start, k) ==
    LET state[m \in Nat] == IF m = 0 THEN start ELSE body[state[m - 1]]
    IN  state[k]

\* An iteration of shiftup at the position s.i, which is s itself once the loop is left.
up(s) ==
    LET j == s.i \div 2
    IN  IF s.i = 1 \/ s.t.heap[j].expire < s.t.heap[s.i].expire THEN s
        ELSE [t |-> swapNode(s.t, s.i, j), i |-> j]

\* root: the comparison with the parent of the root is reached, which reads memory in
\* front of heap_; if that is not smaller the assertion of swapNode fails.
shiftup(t, i) ==
    LET end == Iterate([s \in [t : Timers, i : Nat] |-> up(s)], [t |-> t, i |-> i], Len(t.heap))
    IN  [t |-> end.t, root |-> end.i = 1]

\* An iteration of shiftdown among the first n timers, likewise.
down(s, n) ==
    LET left == 2 * s.i
        h == s.t.heap
        j == IF left + 1 <= n /\ h[left + 1].expire < h[left].expire THEN left + 1 ELSE left
    IN  IF left > n \/ h[s.i].expire < h[j].expire THEN s
        ELSE [t |-> swapNode(s.t, s.i, j), i |-> j]

shiftdown(t, i, n) == Iterate([s \in [t : Timers, i : Nat] |-> down(s, n)], [t |-> t, i |-> i], n)

downOrUp(t, i, n) ==
    LET moved == shiftdown(t, i, n)
    IN  IF moved.i > i THEN [t |-> moved.t, root |-> FALSE] ELSE shiftup(moved.t, i)

addTimer(t, id, timeout, cb) ==
    LET node == [id |-> id, expire |-> timeout, cb |-> cb]
        n == Len(t.heap) + 1
    IN  IF t.ref[id] = 0
        THEN shiftup([heap |-> Append(t.heap, node), ref |-> [t.ref EXCEPT ![id] = n]], n)
        ELSE downOrUp([t EXCEPT !.heap[t.ref[id]] = node], t.ref[id], Len(t.heap))

\* heap_ without its last timer, and ref_ without the entry of that one.
pop_back(t) ==
    LET n == Len(t.heap)
    IN  [heap |-> SubSeq(t.heap, 1, n - 1), ref |-> [t.ref EXCEPT ![t.heap[n].id] = 0]]

\* Mutant: the swapped timer is not moved.
del_Mutant(t, i) ==
    LET n == Len(t.heap)
    IN  [t |-> pop_back(IF i < n THEN swapNode(t, i, n) ELSE t), root |-> FALSE]

\* Mutant: the index of the timer that is deleted is kept.
del_Leaves(t, i) ==
    LET n == Len(t.heap)
        moved == IF i < n THEN downOrUp(swapNode(t, i, n), i, n - 1) ELSE [t |-> t, root |-> FALSE]
    IN  [moved EXCEPT !.t.heap = SubSeq(@, 1, n - 1)]

del_(t, i) ==
    LET n == Len(t.heap)
        moved == IF i < n THEN downOrUp(swapNode(t, i, n), i, n - 1) ELSE [t |-> t, root |-> FALSE]
    IN  [moved EXCEPT !.t = pop_back(@)]

\* Mutant: the timeout is added to what is left.
updateMutant(t, id, timeout) ==
    shiftdown([t EXCEPT !.heap[t.ref[id]].expire = @ + timeout], t.ref[id], Len(t.heap)).t

update(t, id, timeout) ==
    shiftdown([t EXCEPT !.heap[t.ref[id]].expire = timeout], t.ref[id], Len(t.heap)).t
-----------------------------------------------------------------------------
TypeOK ==
    /\ timer_ \in Timers
    /\ \A i \in DOMAIN timer_.heap : timer_.heap[i].expire \in (-MaxLate)..KeepAlive
    /\ users_ \in [Fd -> Node \cup {None}]
    /\ fd_ \in [Node -> Fd \cup {0}] /\ armed \subseteq Fd
    /\ tasks \subseteq [client : Node, kind : {"request", "KEEP_ALIVE", "end"}]
    /\ m_sourceMutex \in BOOLEAN
    /\ loop \in {"run", "wait", "stuck", "aborted"}
    /\ timeMS \in Forever..KeepAlive /\ idle \in [Fd -> 0..timeOutMs]

NoTimers == [heap |-> <<>>, ref |-> [f \in Fd |-> 0]]

Init ==
    /\ timer_ = NoTimers /\ users_ = [f \in Fd |-> None] /\ fd_ = [n \in Node |-> 0] /\ armed = {}
    /\ tasks = {} /\ m_sourceMutex = FALSE /\ loop = "run" /\ timeMS = 0
    /\ idle = [f \in Fd |-> 0]

\* An assertion fails and the process is gone.
Abort ==
    /\ loop' = "aborted"
    /\ timer_' = NoTimers /\ users_' = [f \in Fd |-> None] /\ fd_' = [n \in Node |-> 0]
    /\ armed' = {} /\ tasks' = {} /\ m_sourceMutex' = FALSE /\ timeMS' = 0
    /\ idle' = [f \in Fd |-> 0]

Task(n, kind) == [client |-> n, kind |-> kind]
Open == {f \in Fd : users_[f] # None}
InUse(n) == \E f \in Open : users_[f] = n
Due == timer_.heap # <<>> /\ timer_.heap[1].expire <= 0

\* Mutant: the entry of users_ is not erased.
closeConnectionMutant(n) == ~m_sourceMutex /\ UNCHANGED Net

\* closeConnection for the memory n, which may have been freed since: the entry of the
\* descriptor it holds is erased, which closes that descriptor.  Its timer stays.
closeConnection(n) ==
    /\ ~m_sourceMutex
    /\ users_' = [users_ EXCEPT ![fd_[n]] = None] /\ armed' = armed \ {fd_[n]}
    /\ idle' = [idle EXCEPT ![fd_[n]] = 0] /\ UNCHANGED fd_
-----------------------------------------------------------------------------
(* The event loop.                                                         *)

\* handle_expired_event: the callback, then pop.  Both callbacks want m_sourceMutex.
handle_expired_event ==
    LET popped == del_(timer_, 1)
    IN  /\ loop = "run" /\ Due
        /\ \/ /\ m_sourceMutex /\ loop' = "stuck" /\ UNCHANGED <<timer_, Net>>
              /\ UNCHANGED <<tasks, m_sourceMutex, timeMS>>
           \/ /\ closeConnection(timer_.heap[1].cb) /\ timer_' = popped.t
              /\ UNCHANGED <<tasks, m_sourceMutex, loop, timeMS>>
           \/ ~m_sourceMutex /\ popped.root /\ Abort

\* The rest of getNextHandle, and the call of epoll_wait.  The time is read again: if
\* the timer expired since, the negative result makes epoll_wait wait for ever.
getNextHandle ==
    /\ loop = "run" /\ ~Due
    /\ loop' = "wait"
    /\ \/ timeMS' = (IF timer_.heap = <<>> THEN Forever ELSE timer_.heap[1].expire)
       \/ timer_.heap # <<>> /\ timeMS' = Forever
    /\ UNCHANGED <<timer_, Net, tasks, m_sourceMutex>>

Timeout ==
    /\ loop = "wait" /\ timeMS = 0 /\ loop' = "run"
    /\ UNCHANGED <<timer_, Net, tasks, m_sourceMutex, timeMS>>

elapse(t) ==
    [t EXCEPT !.heap = [i \in DOMAIN t.heap |-> [t.heap[i] EXCEPT !.expire = @ - 1]]]

\* Time passes while the loop waits.
Tick ==
    /\ loop = "wait" /\ timeMS # 0
    /\ \A i \in DOMAIN timer_.heap : timer_.heap[i].expire > -MaxLate
    /\ timer_' = elapse(timer_)
    /\ timeMS' = IF timeMS = Forever THEN Forever ELSE timeMS - 1
    /\ idle' = [f \in Fd |-> IF f \in Open /\ idle[f] < timeOutMs THEN idle[f] + 1 ELSE idle[f]]
    /\ UNCHANGED <<users_, fd_, armed, tasks, m_sourceMutex, loop>>

\* handleListen and addConnection: the lowest free descriptor, any free memory.
addConnection(n) ==
    \E f \in Fd \ Open :
    LET added == addTimer(timer_, f, timeOutMs, n)
    IN  /\ loop = "wait" /\ (\A g \in Fd \ Open : f <= g) /\ ~InUse(n)
        /\ \/ /\ users_' = [users_ EXCEPT ![f] = n] /\ fd_' = [fd_ EXCEPT ![n] = f]
              /\ armed' = armed \cup {f} /\ idle' = [idle EXCEPT ![f] = 0]
              /\ timer_' = added.t /\ loop' = "run"
              /\ UNCHANGED <<tasks, m_sourceMutex, timeMS>>
           \/ added.root /\ Abort

\* Mutant: the time is not extended.
handleReadMutant(f, kind) ==
    /\ loop = "wait" /\ f \in armed /\ loop' = "run"
    /\ armed' = armed \ {f} /\ tasks' = tasks \cup {Task(users_[f], kind)}
    /\ idle' = [idle EXCEPT ![f] = 0]
    /\ UNCHANGED <<timer_, users_, fd_, m_sourceMutex, timeMS>>

\* handleRead: the time is extended and the pool gets a task; the event is one-shot.
handleRead(f, kind) ==
    /\ loop = "wait" /\ f \in armed /\ Cardinality(tasks) < MaxTasks
    /\ IF timer_.ref[f] = 0 THEN Abort
       ELSE /\ timer_' = update(timer_, f, timeOutMs) /\ loop' = "run"
            /\ armed' = armed \ {f} /\ tasks' = tasks \cup {Task(users_[f], kind)}
            /\ idle' = [idle EXCEPT ![f] = 0]
            /\ UNCHANGED <<users_, fd_, m_sourceMutex, timeMS>>

\* EPOLLRDHUP.
HangUp(f) ==
    /\ loop = "wait" /\ f \in armed
    /\ IF m_sourceMutex THEN loop' = "stuck" /\ UNCHANGED Net
       ELSE closeConnection(users_[f]) /\ loop' = "run"
    /\ UNCHANGED <<timer_, tasks, m_sourceMutex, timeMS>>
-----------------------------------------------------------------------------
(* The workers, which have the memory of a connection that may be closed.  *)
Work(n, kind) ==
    /\ Task(n, kind) \in tasks
    /\ tasks' = tasks \ {Task(n, kind)}

\* onRead_ and onProcess_ for a request of a client: the event is armed again.
onProcess_(n) ==
    /\ Work(n, "request")
    /\ armed' = IF fd_[n] \in Open THEN armed \cup {fd_[n]} ELSE armed
    /\ UNCHANGED <<timer_, users_, fd_, m_sourceMutex, loop, timeMS, idle>>

\* onRead_ reads the end of the stream.
onRead_(n) ==
    /\ Work(n, "end") /\ closeConnection(n)
    /\ UNCHANGED <<timer_, m_sourceMutex, loop, timeMS>>

\* The first heartbeat of a cache server: the timer gets the callback
\* someCacheServerLost, and notifyCacheServer locks the mutex its caller holds.  A
\* connection that is not found has the descriptor -1, which addTimer refuses.
cacheServerKeepAlive(n) ==
    LET added == addTimer(timer_, fd_[n], KeepAlive, None)
    IN  /\ Task(n, "KEEP_ALIVE") \in tasks /\ ~m_sourceMutex
        /\ \/ /\ InUse(n) /\ Work(n, "KEEP_ALIVE")
              /\ m_sourceMutex' = TRUE /\ timer_' = added.t
              /\ UNCHANGED <<Net, loop, timeMS>>
           \/ (~InUse(n) \/ added.root) /\ Abort
-----------------------------------------------------------------------------
Loop == handle_expired_event \/ getNextHandle \/ Timeout
Next ==
    \/ Loop \/ Tick
    \/ \E f \in Fd : HangUp(f) \/ \E kind \in {"request", "KEEP_ALIVE", "end"} : handleRead(f, kind)
    \/ \E n \in Node : addConnection(n) \/ onProcess_(n) \/ onRead_(n) \/ cacheServerKeepAlive(n)

Spec == Init /\ [][Next]_vars

\* The loop runs and time passes.
FairSpec == Spec /\ WF_vars(Loop) /\ WF_vars(Tick)
-----------------------------------------------------------------------------
\* ref_ gives the position of each timer in heap_, whatever swapNode, del_ and
\* addTimer moved, and each open connection has a timer: the assertions of update hold.
RefMatches ==
    /\ \A i \in DOMAIN timer_.heap : timer_.ref[timer_.heap[i].id] = i
    /\ \A f \in Fd : timer_.ref[f] # 0 =>
           timer_.ref[f] \in DOMAIN timer_.heap /\ timer_.heap[timer_.ref[f]].id = f
    /\ \A f \in Open : timer_.ref[f] # 0

\* heap_ is ordered, so that getNextHandle finds the timer that is due, though update
\* only moves a timer down and heartbeats use another time than other events.
HeapOrdered ==
    \A i \in 2..Len(timer_.heap) : timer_.heap[i \div 2].expire <= timer_.heap[i].expire

Expires(f) == handle_expired_event /\ loop' = "run" /\ f \in Open /\ f \notin Open'

\* The timer of a descriptor closes its connection only when it was idle for
\* timeOutMs_, though timers of closed connections stay and descriptors return.
IdleOnly ==
    [][\A f \in Fd : Expires(f) /\ timer_.heap[1].id = f => idle[f] = timeOutMs]_vars

Overslept == timeMS = Forever /\ timer_.heap # <<>>
NobodyIdle == \A f \in Open : idle[f] < timeOutMs

\* Connections that stay idle are closed: again and again there is none, unless a
\* heartbeat blocked the master or getNextHandle lost the processor.
IdleCloses == []<>(NobodyIdle \/ m_sourceMutex \/ Overslept \/ loop = "aborted")

\* What does not hold.  Any timer closes only a connection that was idle: a timer that
\* stays has the memory of a closed connection, which may be that of another by then.
AnyIdleOnly == [][\A f \in Fd : Expires(f) => idle[f] = timeOutMs]_vars

\* The loop never waits for m_sourceMutex for ever.
NeverStuck == loop # "stuck"

\* IdleCloses for a loop that may lose the processor.
IdleClosesLate == []<>(NobodyIdle \/ m_sourceMutex \/ loop = "aborted")
=============================================================================
