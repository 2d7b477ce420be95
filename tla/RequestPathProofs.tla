-------------------------- MODULE RequestPathProofs --------------------------
(***************************************************************************)
(* The exclusion that the two read-write locks give, and the types of the  *)
(* state, for any clients, descriptors and workers.                        *)
(***************************************************************************)
EXTENDS RequestPath, TLAPS, SequenceTheorems

Rec == [at : At, fd : Fd \cup {None}]
CRec == [at : {"off", "on", "gone"}, kind : Kind \cup {None}, waits : BOOLEAN]

\* What the clients and the kernel hold: a message read is of some kind.
PeerType ==
    /\ client \in [Client -> CRec]
    /\ inbox \in [Client -> Seq(Kind)]
    /\ backlog \in Seq(Client)
    /\ fd \in [Fd -> Client \cup {None}]

\* Once a task for a connection is queued, the shared argument is set.
TaskType ==
    /\ tasks \in Seq({"listen", "cfd"})
    /\ (\E i \in 1..Len(tasks) : tasks[i] = "cfd") => sockfd \in Fd

\* A worker past the copy of the argument has a descriptor.
WorkerType ==
    /\ worker \in [Worker -> Rec]
    /\ \A w \in Worker : worker[w].at \notin {"idle", "accept"} => worker[w].fd \in Fd

IInv == PeerType /\ TaskType /\ WorkerType /\ LocksExclude

\* Steps that leave the workers and the transfer alone keep the exclusion.
LEMMA Untouched ==
    ASSUME LocksExclude, UNCHANGED <<worker, transferring>>
    PROVE  LocksExclude'
BY DEF LocksExclude, Writing, Reading, Busy

\* A worker that returns, or goes where no lock is held, keeps it.
LEMMA Leaves ==
    ASSUME LocksExclude, worker \in [Worker -> Rec],
           NEW w \in Worker, NEW r \in Rec,
           worker' = [worker EXCEPT ![w] = r], UNCHANGED transferring,
           r.at \notin {"in_get", "in_put", "in_bk"},
           ~transferring \/ r.at = "idle"
    PROVE  LocksExclude'
<1>1. \A v \in Worker : worker'[v] = IF v = w THEN r ELSE worker[v]
  OBVIOUS
<1>2. Writing' \subseteq Writing /\ Reading' \subseteq Reading
  BY <1>1 DEF Writing, Reading
<1>3. transferring' => Busy' = {}
  BY <1>1 DEF LocksExclude, Busy
<1> QED
  BY <1>2, <1>3 DEF LocksExclude

\* A worker that takes rw_lock when it may keeps it.
LEMMA Enters ==
    ASSUME LocksExclude, worker \in [Worker -> Rec],
           NEW w \in Worker, NEW r \in Rec,
           worker' = [worker EXCEPT ![w] = r], UNCHANGED transferring,
           worker[w].at # "idle",
           \/ r.at = "in_get" /\ Writing = {}
           \/ r.at \in {"in_put", "in_bk"} /\ WriteLock
    PROVE  LocksExclude'
<1>1. \A v \in Worker : worker'[v] = IF v = w THEN r ELSE worker[v]
  OBVIOUS
<1>2. ~transferring'
  BY DEF LocksExclude, Busy
<1>3. CASE r.at = "in_get" /\ Writing = {}
  <2>1. Writing' = {}
    BY <1>1, <1>3 DEF Writing
  <2> QED
    BY <2>1, <1>2 DEF LocksExclude
<1>4. CASE r.at \in {"in_put", "in_bk"} /\ WriteLock
  <2>1. Writing' = {w} /\ Reading' = {}
    BY <1>1, <1>4 DEF Writing, Reading, WriteLock
  <2> QED
    BY <2>1, <1>2 DEF LocksExclude
<1> QED
  BY <1>3, <1>4

\* A worker that gets a proper record keeps the type.
LEMMA Typed ==
    ASSUME WorkerType, NEW w \in Worker, NEW r \in Rec,
           worker' = [worker EXCEPT ![w] = r],
           r.at \in {"idle", "accept"} \/ r.fd \in Fd
    PROVE  WorkerType'
BY DEF WorkerType

\* The worker is sent on with the descriptor it has.
LEMMA Sent ==
    ASSUME WorkerType, NEW w \in Worker, NEW a \in At, To(w, a)
    PROVE  /\ worker' = [worker EXCEPT ![w] = [at |-> a, fd |-> worker[w].fd]]
           /\ [at |-> a, fd |-> worker[w].fd] \in Rec
<1>1. worker[w] \in Rec /\ worker \in [Worker -> Rec]
  BY DEF WorkerType
<1>2. [worker[w] EXCEPT !.at = a] = [at |-> a, fd |-> worker[w].fd]
  BY <1>1 DEF Rec
<1>3. worker' = [worker EXCEPT ![w] = [worker[w] EXCEPT !.at = a]]
  BY DEF To
<1> QED
  BY Zenon, <1>1, <1>2, <1>3 DEF Rec

\* A client that changes one field of its record, or two, keeps its type.
LEMMA ClientChanges ==
    ASSUME client \in [Client -> CRec], NEW k \in Client
    PROVE  /\ \A kind \in Kind : [client EXCEPT ![k].at = "on", ![k].kind = kind] \in [Client -> CRec]
           /\ [client EXCEPT ![k].waits = FALSE, ![k].kind = None] \in [Client -> CRec]
           /\ [client EXCEPT ![k].at = "gone"] \in [Client -> CRec]
           /\ [client EXCEPT ![k].waits = client[k].kind = "get"] \in [Client -> CRec]
<1>0. client[k] \in CRec
  OBVIOUS
<1>1. \A kind \in Kind : [[client[k] EXCEPT !.at = "on"] EXCEPT !.kind = kind] \in CRec
  BY Zenon, <1>0 DEF CRec
<1>2. [[client[k] EXCEPT !.waits = FALSE] EXCEPT !.kind = None] \in CRec
  BY Zenon, <1>0 DEF CRec
<1>3. [client[k] EXCEPT !.at = "gone"] \in CRec
  BY <1>0 DEF CRec
<1>4. [client[k] EXCEPT !.waits = (client[k].kind = "get")] \in CRec
  BY Zenon, <1>0 DEF CRec
<1> HIDE DEF CRec
<1>5. \A kind \in Kind : [client EXCEPT ![k].at = "on", ![k].kind = kind]
                         = [client EXCEPT ![k] = [[client[k] EXCEPT !.at = "on"] EXCEPT !.kind = kind]]
  BY Zenon
<1>6. [client EXCEPT ![k].waits = FALSE, ![k].kind = None]
      = [client EXCEPT ![k] = [[client[k] EXCEPT !.waits = FALSE] EXCEPT !.kind = None]]
  BY Zenon
<1> QED
  BY Zenon, <1>1, <1>2, <1>3, <1>4, <1>5, <1>6

\* A worker that returned holds nothing.
LEMMA IdleRec == Idle \in Rec /\ Idle.at = "idle"
BY DEF Idle, Rec, At

\* A task that starts has a descriptor, if it is for a connection.
LEMMA TakeStep ==
    ASSUME IInv, NEW w \in Worker, Take(w)
    PROVE  IInv'
<1> DEFINE r == IF Head(tasks) = "listen" THEN [at |-> "accept", fd |-> None]
                                          ELSE [at |-> "read", fd |-> sockfd]
<1>1. /\ worker' = [worker EXCEPT ![w] = r] /\ ~transferring /\ tasks # <<>> /\ tasks' = Tail(tasks)
      /\ UNCHANGED <<client, inbox, backlog, fd, sockfd, transferring>>
  BY DEF Take, net, moves, peers
<1>2. Head(tasks) = tasks[1] /\ tasks[1] \in {"listen", "cfd"} /\ Len(tasks) \in Nat /\ 1 \in 1..Len(tasks)
  BY <1>1 DEF IInv, TaskType
<1>3. /\ r \in Rec /\ r.at \in {"accept", "read"}
      /\ r.at = "accept" \/ r.fd \in Fd
  BY <1>2 DEF IInv, TaskType, Rec, At
<1>4. TaskType'
  <2>1. tasks' \in Seq({"listen", "cfd"}) /\ Len(tasks') = Len(tasks) - 1
        /\ \A i \in 1..Len(tasks') : tasks'[i] = tasks[i + 1]
    BY <1>1, <1>2 DEF IInv, TaskType
  <2>2. \A i \in 1..Len(tasks') : i + 1 \in 1..Len(tasks)
    BY <2>1, <1>2
  <2> QED
    BY <1>1, <2>1, <2>2 DEF IInv, TaskType
<1> HIDE DEF r
<1>5. LocksExclude'
  BY Zenon, <1>1, <1>3, Leaves DEF IInv, WorkerType
<1>6. WorkerType'
  BY Zenon, <1>1, <1>3, Typed DEF IInv
<1> QED
  BY <1>1, <1>4, <1>5, <1>6 DEF IInv, PeerType

\* The accepted connection is a client's.
LEMMA ListenStep ==
    ASSUME IInv, NEW w \in Worker, task_listen(w)
    PROVE  IInv'
<1>1. /\ worker' = [worker EXCEPT ![w] = Idle] /\ backlog # <<>> /\ backlog' = Tail(backlog)
      /\ UNCHANGED <<client, inbox, sockfd, tasks, transferring>>
  BY DEF task_listen, moves, peers
<1>2. PICK f \in Fd : fd' = [fd EXCEPT ![f] = Head(backlog)]
  BY Zenon DEF task_listen
<1>3. PeerType'
  <2>1. Head(backlog) \in Client /\ Tail(backlog) \in Seq(Client)
    BY <1>1 DEF IInv, PeerType
  <2> QED
    BY <1>1, <1>2, <2>1 DEF IInv, PeerType
<1>4. LocksExclude'
  BY Zenon, <1>1, IdleRec, Leaves DEF IInv, WorkerType
<1>5. WorkerType'
  BY Zenon, <1>1, IdleRec, Typed DEF IInv
<1> QED
  BY <1>1, <1>3, <1>4, <1>5 DEF IInv, TaskType

\* A task for a connection reads, closes or works under rw_lock.
LEMMA CfdStep ==
    ASSUME IInv, NEW w \in Worker, task_cfd(w)
    PROVE  IInv'
<1> DEFINE k == fd[worker[w].fd]
           sent(a) == [at |-> a, fd |-> worker[w].fd]
<1>a. UNCHANGED <<backlog, sockfd, tasks, transferring>>
  BY DEF task_cfd, read_fromclient, closeconnect, kvrequest_handler, kvrespond_handler, net, moves
<1>b. TaskType'
  BY <1>a DEF IInv, TaskType
<1>c. ASSUME worker' = [worker EXCEPT ![w] = Idle]
      PROVE  WorkerType' /\ LocksExclude'
  <2>1. WorkerType'
    BY Zenon, <1>c, IdleRec, Typed DEF IInv
  <2> QED
    BY Zenon, <2>1, <1>a, <1>c, IdleRec, Leaves DEF IInv, WorkerType
<1>d. ASSUME NEW a \in At, To(w, a), worker[w].at \notin {"idle", "accept"},
             \/ a \notin {"idle", "accept", "in_get", "in_put", "in_bk"}
             \/ a = "in_get" /\ Writing = {}
             \/ a \in {"in_put", "in_bk"} /\ WriteLock
      PROVE  WorkerType' /\ LocksExclude'
  <2>1. worker' = [worker EXCEPT ![w] = sent(a)] /\ sent(a) \in Rec
    BY <1>d, Sent DEF IInv
  <2>2. sent(a).at = a /\ sent(a).fd \in Fd /\ worker \in [Worker -> Rec] /\ LocksExclude
    BY <1>d DEF IInv, WorkerType
  <2>3. ~transferring
    BY <1>d, <2>2 DEF LocksExclude, Busy
  <2> HIDE DEF sent
  <2>4. WorkerType'
    BY Zenon, <2>1, <2>2, Typed DEF IInv
  <2>5. CASE a \notin {"idle", "accept", "in_get", "in_put", "in_bk"}
    BY Zenon, <2>1, <2>2, <2>3, <2>4, <2>5, <1>a, Leaves
  <2>6. CASE a = "in_get" /\ Writing = {}
    BY Zenon, <2>1, <2>2, <2>4, <2>6, <1>a, <1>d, Enters
  <2>7. CASE a \in {"in_put", "in_bk"} /\ WriteLock
    BY Zenon, <2>1, <2>2, <2>4, <2>7, <1>a, <1>d, Enters
  <2> QED
    BY <2>5, <2>6, <2>7, <1>d
<1>1. CASE read_fromclient(w)
  <2>1. worker[w].at = "read" /\ worker[w].fd \in Fd /\ UNCHANGED <<client, fd>>
    BY <1>1 DEF read_fromclient, net, IInv, WorkerType
  <2>2. CASE ReadFails(w) /\ UNCHANGED inbox
    BY <2>1, <2>2, <1>a, <1>b, <1>c DEF ReadFails, IInv, PeerType
  <2>3. CASE k # None /\ inbox[k] # <<>> /\ inbox' = [inbox EXCEPT ![k] = <<>>] /\ To(w, Head(inbox[k]))
    <3>1. k \in Client /\ inbox[k] \in Seq(Kind)
      BY <2>1, <2>3 DEF IInv, PeerType
    <3>2. Head(inbox[k]) \in Kind /\ <<>> \in Seq(Kind)
      BY SMTT(30), <3>1, <2>3
    <3>3. WorkerType' /\ LocksExclude'
      BY SMTT(30), <3>2, <2>1, <2>3, <1>d DEF Kind, At
    <3>4. PeerType'
      BY <3>2, <2>1, <2>3, <1>a DEF IInv, PeerType
    <3> QED
      BY SMTT(30), <3>3, <3>4, <1>b DEF IInv
  <2>4. CASE To(w, "eof") /\ UNCHANGED inbox
    <3>1. WorkerType' /\ LocksExclude'
      BY <2>1, <2>4, <1>d DEF At
    <3> QED
      BY <3>1, <2>1, <2>4, <1>a, <1>b DEF IInv, PeerType
  <2> QED
    BY SMTT(30), <1>1, <2>2, <2>3, <2>4 DEF read_fromclient
<1>2. CASE closeconnect(w)
  <2>1. /\ worker' = [worker EXCEPT ![w] = Idle] /\ UNCHANGED <<client, inbox>>
        /\ fd' = [fd EXCEPT ![worker[w].fd] = None]
    BY <1>2 DEF closeconnect, peers
  <2> QED
    BY Zenon, <2>1, <1>a, <1>b, <1>c DEF IInv, PeerType
<1>3. CASE kvrequest_handler(w)
  <2>1. UNCHANGED <<inbox, fd>>
    BY <1>3 DEF kvrequest_handler, peers, net
  <2>2. CASE worker[w].at = "get" /\ Writing = {} /\ To(w, "in_get") /\ UNCHANGED client
    <3>1. WorkerType' /\ LocksExclude'
      BY <2>2, <1>d DEF At
    <3> QED
      BY <3>1, <2>1, <2>2, <1>a, <1>b DEF IInv, PeerType
  <2>3. CASE /\ worker[w].at = "in_get" /\ worker' = [worker EXCEPT ![w] = Idle]
             /\ client' = client \/ (k # None /\ AnswerTo(k))
    <3>0. k # None => k \in Client
      BY ZenonT(30), <2>3 DEF IInv, PeerType, WorkerType
    <3>a. \/ client' = client
          \/ k # None /\ client' = [client EXCEPT ![k].waits = FALSE, ![k].kind = None]
      BY <2>3 DEF AnswerTo
    <3>b. client \in [Client -> CRec]
      BY DEF IInv, PeerType
    <3>c. k # None => [client EXCEPT ![k].waits = FALSE, ![k].kind = None] \in [Client -> CRec]
      BY <3>0, <3>b, ClientChanges, Zenon
    <3> HIDE DEF k
    <3>1. client' \in [Client -> CRec]
      BY <3>a, <3>b, <3>c, Zenon
    <3> QED
      BY <3>1, <2>1, <2>3, <1>a, <1>b, <1>c DEF IInv, PeerType
  <2> QED
    BY <1>3, <2>2, <2>3 DEF kvrequest_handler, peers
<1>4. CASE kvrespond_handler(w)
  <2>1. UNCHANGED <<client, inbox, fd>>
    BY <1>4 DEF kvrespond_handler, peers, net
  <2>2. CASE /\ worker[w].at \in {"put", "bk"} /\ WriteLock
             /\ To(w, IF worker[w].at = "put" THEN "in_put" ELSE "in_bk")
    <3> DEFINE a == IF worker[w].at = "put" THEN "in_put" ELSE "in_bk"
    <3>1. a \in At /\ a \in {"in_put", "in_bk"}
      BY DEF At
    <3>2. WorkerType' /\ LocksExclude'
      BY <3>1, <2>2, <1>d
    <3> QED
      BY <3>2, <2>1, <1>a, <1>b DEF IInv, PeerType
  <2>3. CASE worker' = [worker EXCEPT ![w] = Idle]
    BY <2>1, <2>3, <1>a, <1>b, <1>c DEF IInv, PeerType
  <2> QED
    BY <1>4, <2>2, <2>3 DEF kvrespond_handler
<1> QED
  BY SMTT(30), <1>1, <1>2, <1>3, <1>4 DEF task_cfd

\* A client connects, sends or hangs up: what it sends is of its kind.
LEMMA ClientStep ==
    ASSUME IInv, NEW k \in Client, Connect(k) \/ Send(k) \/ Hangup(k)
    PROVE  IInv'
<1>1. UNCHANGED <<fd, sockfd, tasks, worker, transferring>>
  BY DEF Connect, Send, Hangup, moves
<1>2. TaskType' /\ WorkerType' /\ LocksExclude'
  BY <1>1, Untouched DEF IInv, TaskType, WorkerType
<1>3. client \in [Client -> CRec] /\ inbox \in [Client -> Seq(Kind)] /\ backlog \in Seq(Client)
  BY DEF IInv, PeerType
<1>4. CASE Connect(k)
  <2>1. client' \in [Client -> CRec]
    <3>1. PICK kind \in Kind : client' = [client EXCEPT ![k].at = "on", ![k].kind = kind]
      BY Zenon, <1>4 DEF Connect
    <3> QED
      BY <3>1, <1>3, ClientChanges, Zenon
  <2>2. inbox' = inbox /\ backlog' = Append(backlog, k)
    BY <1>4 DEF Connect
  <2> QED
    BY <2>1, <2>2, <1>1, <1>2, <1>3 DEF IInv, PeerType
<1>5. CASE Send(k)
  <2>1. client' \in [Client -> CRec]
    BY <1>5, <1>3, ClientChanges, Zenon DEF Send
  <2>2. client[k].kind \in Kind
    BY <1>5, <1>3 DEF Send, CRec
  <2>3. inbox' = [inbox EXCEPT ![k] = Append(inbox[k], client[k].kind)] /\ backlog' = backlog
    BY <1>5 DEF Send
  <2>4. Append(inbox[k], client[k].kind) \in Seq(Kind)
    BY <2>2, <1>3
  <2>5. inbox' \in [Client -> Seq(Kind)]
    BY <2>3, <2>4, <1>3
  <2> QED
    BY <2>1, <2>3, <2>5, <1>1, <1>2, <1>3 DEF IInv, PeerType
<1>6. CASE Hangup(k)
  <2>1. client' \in [Client -> CRec]
    BY <1>6, <1>3, ClientChanges, Zenon DEF Hangup
  <2> QED
    BY <2>1, <1>6, <1>1, <1>2, <1>3 DEF IInv, PeerType, Hangup
<1> QED
  BY <1>4, <1>5, <1>6

\* The epoll loop sets the shared argument before it queues the task.
LEMMA LoopStep ==
    ASSUME IInv, Loop
    PROVE  IInv'
<1>1. UNCHANGED <<client, inbox, backlog, fd, worker, transferring>>
  BY DEF Loop, WR_listenWait, LoopLock, WR_listenHandler, WR_cfdHandler, Handled, peers, net, moves
<1>2. PeerType' /\ WorkerType' /\ LocksExclude'
  BY <1>1, Untouched DEF IInv, PeerType, WorkerType
<1>3. tasks \in Seq({"listen", "cfd"}) /\ Len(tasks) \in Nat
  BY DEF IInv, TaskType
<1>4. CASE UNCHANGED <<sockfd, tasks>>
  BY <1>2, <1>4 DEF IInv, TaskType
<1>5. CASE WR_listenHandler
  <2>1. tasks' = Append(tasks, "listen") /\ sockfd' = sockfd
    BY <1>5 DEF WR_listenHandler
  <2>2. /\ tasks' \in Seq({"listen", "cfd"}) /\ Len(tasks') = Len(tasks) + 1
        /\ \A i \in 1..Len(tasks') : (i \in 1..Len(tasks) /\ tasks'[i] = tasks[i]) \/ tasks'[i] = "listen"
    BY <2>1, <1>3
  <2>3. TaskType'
    BY <2>1, <2>2 DEF IInv, TaskType
  <2> QED
    BY <2>3, <1>2 DEF IInv
<1>6. CASE \E f \in Fd : WR_cfdHandler(f)
  <2>1. tasks' = Append(tasks, "cfd") /\ sockfd' \in Fd
    BY <1>6 DEF WR_cfdHandler
  <2> QED
    BY <2>1, <1>2, <1>3 DEF IInv, TaskType
<1> QED
  BY <1>4, <1>5, <1>6 DEF Loop, WR_listenWait, LoopLock

\* Commands of the master: a transfer starts only when no task runs.
LEMMA CommandStep ==
    ASSUME IInv, add_handler \/ reflesh_handler \/ doit_iplistchange
    PROVE  IInv'
<1>1. UNCHANGED <<client, inbox, backlog, fd, sockfd, tasks, worker>>
  BY DEF add_handler, reflesh_handler, doit_iplistchange, peers, net
<1>2. PeerType' /\ TaskType' /\ WorkerType'
  BY <1>1 DEF IInv, PeerType, TaskType, WorkerType
<1>3. LocksExclude'
  <2>1. CASE UNCHANGED transferring
    BY <2>1, <1>1, Untouched DEF IInv
  <2>2. CASE doit_iplistchange
    BY <2>2, <1>1 DEF doit_iplistchange, TransferLock, IInv, LocksExclude, Busy, Reading, Writing
  <2> QED
    BY <2>1, <2>2 DEF add_handler, reflesh_handler
<1> QED
  BY <1>2, <1>3 DEF IInv

\* No thread holds anything when the server starts.
LEMMA InitHolds == Init => IInv
<1> SUFFICES ASSUME Init PROVE IInv
  OBVIOUS
<1>1. PeerType
  BY DEF Init, PeerType, CRec
<1>2. TaskType /\ WorkerType
  BY DEF Init, TaskType, WorkerType, Rec, At
<1>3. LocksExclude
  BY DEF Init, LocksExclude, Busy, Reading, Writing
<1> QED
  BY <1>1, <1>2, <1>3 DEF IInv

\* Every step of a client, the loop, a worker or a command keeps the invariant.
LEMMA NextKeeps == IInv /\ [Next]_vars => IInv'
<1> SUFFICES ASSUME IInv, [Next]_vars PROVE IInv'
  OBVIOUS
<1>1. CASE UNCHANGED vars
  BY <1>1, Untouched DEF vars, peers, net, moves, IInv, PeerType, TaskType, WorkerType
<1>2. CASE Next
  BY <1>2, ClientStep, LoopStep, TakeStep, ListenStep, CfdStep, CommandStep DEF Next
<1> QED
  BY <1>1, <1>2

\* For any clients, descriptors and workers, a put under rw_lock excludes every
\* other handler, and no task runs while doit_iplistchange sends the keys.
THEOREM ExclusionCorrect == Spec => []LocksExclude
<1>1. IInv => LocksExclude
  BY DEF IInv
<1> QED
  BY <1>1, InitHolds, NextKeeps, PTL DEF Spec
-----------------------------------------------------------------------------
(* The rest of TypeOK.                                                     *)

\* The events and descriptors of the epoll loop.
LoopType ==
    /\ listening \in BOOLEAN /\ ready \in SUBSET Fd
    /\ loop \in {"poll", "lock", "handle"} /\ ep \in SUBSET (Fd \cup {None})
    /\ sockfd \in Fd \cup {None}

\* Threads wait at the lock only for commands that the master has sent.
CommandType ==
    /\ waiting \in Nat /\ transferring \in BOOLEAN /\ refleshing \in BOOLEAN
    /\ left \in [messages : 0..MaxMessages, commands : 0..MaxCommands]
    /\ waiting + left.commands <= MaxCommands

\* A worker that has not copied the argument has no descriptor.
NoDescriptor == \A w \in Worker : worker[w].at \in {"idle", "accept"} => worker[w].fd = None

\* The epoll loop and the kernel's events keep to the descriptors there are.
LEMMA LoopTypeStep == IInv /\ LoopType /\ [Next]_vars => LoopType'
<1> SUFFICES ASSUME IInv, LoopType, [Next]_vars PROVE LoopType'
  OBVIOUS
<1> USE DEF LoopType
<1>1. ASSUME NEW k \in Client, Connect(k) \/ Send(k) \/ Hangup(k) PROVE LoopType'
  BY Zenon, <1>1 DEF Connect, Send, Hangup, Raise
<1>2. CASE WR_listenWait \/ LoopLock
  BY Zenon, <1>2 DEF WR_listenWait, LoopLock, net
<1>3. CASE WR_listenHandler
  BY <1>3 DEF WR_listenHandler, Handled, net
<1>4. ASSUME NEW f \in Fd, WR_cfdHandler(f) PROVE LoopType'
  BY <1>4 DEF WR_cfdHandler, Handled, net
<1>5. ASSUME NEW w \in Worker, Take(w) \/ task_listen(w) PROVE LoopType'
  BY SMTT(30), <1>5 DEF Take, task_listen, net
<1>6. ASSUME NEW w \in Worker, task_cfd(w) PROVE LoopType'
  BY <1>6 DEF task_cfd, read_fromclient, closeconnect, kvrequest_handler, kvrespond_handler, net
<1>7. CASE add_handler \/ reflesh_handler \/ doit_iplistchange
  BY <1>7 DEF add_handler, reflesh_handler, doit_iplistchange, net
<1>8. CASE UNCHANGED vars
  BY <1>8 DEF vars, net
<1> QED
  BY <1>1, <1>2, <1>3, <1>4, <1>5, <1>6, <1>7, <1>8 DEF Next, Loop

\* Each command starts one thread at most, which waits and transfers once.
LEMMA CommandTypeStep == CommandType /\ [Next]_vars => CommandType'
<1> SUFFICES ASSUME CommandType, [Next]_vars PROVE CommandType'
  OBVIOUS
<1> USE PathAssumption DEF CommandType
<1>1. ASSUME NEW k \in Client, Send(k) PROVE CommandType'
  <2>1. /\ left.messages > 0 /\ left' = [left EXCEPT !.messages = @ - 1]
        /\ UNCHANGED <<waiting, transferring, refleshing>>
    BY <1>1 DEF Send, moves
  <2> QED
    BY <2>1
<1>2. CASE add_handler
  <2>1. /\ left.commands > 0 /\ left' = [left EXCEPT !.commands = @ - 1] /\ waiting' = waiting + 1
        /\ UNCHANGED <<transferring, refleshing>>
    BY <1>2 DEF add_handler
  <2> QED
    BY <2>1
<1>3. CASE reflesh_handler
  <2>1. /\ \/ left.commands > 0 /\ left' = [left EXCEPT !.commands = @ - 1]
           \/ left' = left
        /\ UNCHANGED <<waiting, transferring>>
    BY <1>3 DEF reflesh_handler
  <2>2. refleshing' \in BOOLEAN
    BY Zenon, <1>3 DEF reflesh_handler
  <2> QED
    BY <2>1, <2>2
<1>4. CASE doit_iplistchange
  <2>1. ((waiting > 0 /\ waiting' = waiting - 1) \/ waiting' = waiting)
        /\ UNCHANGED <<refleshing, left>>
    BY <1>4 DEF doit_iplistchange
  <2>2. transferring' \in BOOLEAN
    BY Zenon, <1>4 DEF doit_iplistchange
  <2> QED
    BY <2>1, <2>2
<1>5. CASE UNCHANGED <<moves, left>>
  BY <1>5 DEF moves
<1> QED
  BY Zenon, <1>1, <1>2, <1>3, <1>4, <1>5 DEF Next, Loop, Connect, Hangup, WR_listenWait, LoopLock,
     WR_listenHandler, WR_cfdHandler, Handled, Take, task_listen, task_cfd, read_fromclient,
     closeconnect, kvrequest_handler, kvrespond_handler, vars

\* A worker that changes keeps or loses its descriptor as its place says.
LEMMA NoDescriptorAt ==
    ASSUME NoDescriptor, WorkerType, NEW w \in Worker, NEW r \in Rec,
           worker' = [worker EXCEPT ![w] = r], r.at \in {"idle", "accept"} => r.fd = None
    PROVE  NoDescriptor'
BY DEF NoDescriptor, WorkerType

\* Workers come back without a descriptor, and only those with one go on.
LEMMA NoDescriptorStep == IInv /\ NoDescriptor /\ [Next]_vars => NoDescriptor'
<1> SUFFICES ASSUME IInv, NoDescriptor, [Next]_vars PROVE NoDescriptor'
  OBVIOUS
<1>0. WorkerType /\ Idle.fd = None
  BY DEF IInv, Idle
<1>1. CASE worker' = worker
  BY <1>1 DEF NoDescriptor
<1>2. ASSUME NEW w \in Worker, worker' = [worker EXCEPT ![w] = Idle] PROVE NoDescriptor'
  BY Zenon, <1>0, <1>2, IdleRec, NoDescriptorAt
<1>3. ASSUME NEW w \in Worker, NEW a \in At \ {"idle", "accept"}, To(w, a) PROVE NoDescriptor'
  <2> DEFINE r == [at |-> a, fd |-> worker[w].fd]
  <2>1. worker' = [worker EXCEPT ![w] = r] /\ r \in Rec
    BY <1>0, <1>3, Sent
  <2>2. r.at = a
    OBVIOUS
  <2> HIDE DEF r
  <2> QED
    BY Zenon, <1>0, <2>1, <2>2, NoDescriptorAt
<1>4. ASSUME NEW w \in Worker, Take(w) PROVE NoDescriptor'
  <2> DEFINE r == IF Head(tasks) = "listen" THEN [at |-> "accept", fd |-> None]
                                            ELSE [at |-> "read", fd |-> sockfd]
  <2>1. worker' = [worker EXCEPT ![w] = r] /\ tasks # <<>>
    BY <1>4 DEF Take
  <2>2. Head(tasks) = tasks[1] /\ tasks[1] \in {"listen", "cfd"} /\ 1 \in 1..Len(tasks)
    BY <2>1 DEF IInv, TaskType
  <2>3. r \in Rec /\ (r.at \in {"idle", "accept"} => r.fd = None)
    BY <2>2 DEF IInv, TaskType, Rec, At
  <2> HIDE DEF r
  <2> QED
    BY Zenon, <1>0, <2>1, <2>3, NoDescriptorAt
<1>5. ASSUME NEW w \in Worker, task_listen(w) PROVE NoDescriptor'
  BY Zenon, <1>2, <1>5 DEF task_listen
<1>6. ASSUME NEW w \in Worker, read_fromclient(w) PROVE NoDescriptor'
  <2> DEFINE k == fd[worker[w].fd]
  <2>1. CASE ReadFails(w)
    BY Zenon, <1>2, <2>1 DEF ReadFails
  <2>2. CASE k # None /\ inbox[k] # <<>> /\ To(w, Head(inbox[k]))
    <3>1. worker[w].fd \in Fd
      BY <1>0, <1>6 DEF read_fromclient, WorkerType
    <3>2. k \in Client /\ inbox[k] \in Seq(Kind)
      BY <2>2, <3>1 DEF IInv, PeerType
    <3>3. Head(inbox[k]) \in Kind
      BY <2>2, <3>2
    <3>4. Kind \subseteq At \ {"idle", "accept"}
      BY DEF Kind, At
    <3> HIDE DEF k
    <3> QED
      BY SMTT(30), <1>3, <2>2, <3>3, <3>4
  <2>3. CASE To(w, "eof")
    BY <1>3, <2>3 DEF At
  <2> QED
    BY <1>6, <2>1, <2>2, <2>3 DEF read_fromclient
<1>7. ASSUME NEW w \in Worker, closeconnect(w) \/ kvrequest_handler(w) PROVE NoDescriptor'
  <2>1. worker' = [worker EXCEPT ![w] = Idle] \/ To(w, "in_get")
    BY <1>7 DEF closeconnect, kvrequest_handler
  <2> QED
    BY <1>2, <1>3, <2>1 DEF At
<1>8. ASSUME NEW w \in Worker, kvrespond_handler(w) PROVE NoDescriptor'
  <2>1. \/ worker' = [worker EXCEPT ![w] = Idle]
        \/ To(w, IF worker[w].at = "put" THEN "in_put" ELSE "in_bk")
    BY <1>8 DEF kvrespond_handler
  <2> QED
    BY <1>2, <1>3, <2>1 DEF At
<1> QED
  BY Zenon, <1>1, <1>4, <1>5, <1>6, <1>7, <1>8 DEF Next, Connect, Send, Hangup, Loop, WR_listenWait,
     LoopLock, WR_listenHandler, WR_cfdHandler, Handled, task_cfd, add_handler, reflesh_handler,
     doit_iplistchange, vars

\* For any clients, descriptors and workers, a worker past the copy of task_arg has
\* a descriptor of its own, an event is for a descriptor, and no more threads wait
\* to transfer than commands came.
THEOREM PathTypeCorrect == Spec => []TypeOK
<1>1. Init => LoopType /\ CommandType /\ NoDescriptor
  <2> SUFFICES ASSUME Init PROVE LoopType /\ CommandType /\ NoDescriptor
    OBVIOUS
  <2>1. LoopType
    BY Zenon DEF Init, LoopType
  <2>2. waiting = 0 /\ left = [messages |-> MaxMessages, commands |-> MaxCommands]
    BY DEF Init
  <2>3. transferring \in BOOLEAN /\ refleshing \in BOOLEAN
    BY Zenon DEF Init
  <2>4. CommandType
    BY PathAssumption, <2>2, <2>3 DEF CommandType
  <2>5. NoDescriptor
    BY DEF Init, NoDescriptor
  <2> QED
    BY <2>1, <2>4, <2>5
<1>2. IInv /\ LoopType /\ CommandType /\ NoDescriptor => TypeOK
  <2> SUFFICES ASSUME IInv, LoopType, CommandType, NoDescriptor PROVE TypeOK
    OBVIOUS
  <2>1. waiting \in 0..MaxCommands
    BY PathAssumption DEF CommandType
  <2>2. \A w \in Worker : worker[w].fd = None <=> worker[w].at \in {"idle", "accept"}
    BY PathAssumption DEF IInv, WorkerType, NoDescriptor
  <2> QED
    BY <2>1, <2>2 DEF IInv, PeerType, TaskType, WorkerType, LoopType, CommandType, TypeOK, Rec, CRec
<1> QED
  BY <1>1, <1>2, InitHolds, NextKeeps, LoopTypeStep, CommandTypeStep, NoDescriptorStep, PTL DEF Spec
=============================================================================
