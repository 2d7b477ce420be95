----------------------------- MODULE RequestPath -----------------------------
(***************************************************************************)
(* The request path of one cache server: the epoll loop, the tasks it      *)
(* queues, the workers that run them, and the threads that move data, as   *)
(* far as the locks go.  All tasks for connections share one argument,     *)
(* task_arg, and copy sockfd from it when they start.  epoll is edge       *)
(* triggered.  A worker holds shutdown_lock for reading while it runs.     *)
(***************************************************************************)
EXTENDS Integers, Sequences

CONSTANTS
    Client, Fd, Worker, None,
    MaxMessages,  \* bound: messages the clients send in all
    MaxCommands   \* bound: ADD_CACHE and REFLESH_IP commands of the master

ASSUME PathAssumption == None \notin Fd /\ MaxMessages \in Nat /\ MaxCommands \in Nat

VARIABLES
    client,       \* per client: where it is, what it sends, whether it waits
    inbox,        \* per client: what it sent and the server did not read
    backlog,      \* connections not accepted yet
    fd,           \* the client behind each descriptor
    listening, ready,  \* events of the listening socket and of connections
    loop, ep,     \* the epoll loop and the events it was given
    sockfd,       \* task_arg.sockfd
    tasks,        \* the queue of the thread pool
    worker,       \* per worker: where it is and its copy of sockfd
    waiting, transferring,  \* doit_iplistchange: threads at the lock; one inside
    refleshing,   \* the heartbeat thread is in reflesh_handler
    left          \* what is left of the bounds

peers == <<client, inbox>>
net == <<backlog, fd, listening, ready>>
moves == <<waiting, transferring, refleshing>>
vars == <<peers, net, loop, ep, sockfd, tasks, worker, moves, left>>

Kind == {"get", "put", "bk"}
At == {"idle", "accept", "read", "eof"} \cup Kind \cup {"in_get", "in_put", "in_bk"}
Busy == {w \in Worker : worker[w].at # "idle"}
Reading == {w \in Worker : worker[w].at = "in_get"}
Writing == {w \in Worker : worker[w].at \in {"in_put", "in_bk"}}

\* A worker past the copy of its argument has the descriptor it works on.
TypeOK ==
    /\ client \in [Client -> [at : {"off", "on", "gone"}, kind : Kind \cup {None}, waits : BOOLEAN]]
    /\ inbox \in [Client -> Seq(Kind)]
    /\ backlog \in Seq(Client) /\ fd \in [Fd -> Client \cup {None}]
    /\ listening \in BOOLEAN /\ ready \in SUBSET Fd
    /\ loop \in {"poll", "lock", "handle"} /\ ep \in SUBSET (Fd \cup {None})
    /\ sockfd \in Fd \cup {None}
    /\ tasks \in Seq({"listen", "cfd"})
    /\ worker \in [Worker -> [at : At, fd : Fd \cup {None}]]
    /\ \A w \in Worker : worker[w].fd = None <=> worker[w].at \in {"idle", "accept"}
    /\ waiting \in 0..MaxCommands /\ transferring \in BOOLEAN /\ refleshing \in BOOLEAN
    /\ left \in [messages : 0..MaxMessages, commands : 0..MaxCommands]

Init ==
    /\ client = [k \in Client |-> [at |-> "off", kind |-> None, waits |-> FALSE]]
    /\ inbox = [k \in Client |-> <<>>]
    /\ backlog = <<>> /\ fd = [f \in Fd |-> None] /\ listening = FALSE /\ ready = {}
    /\ loop = "poll" /\ ep = {} /\ sockfd = None /\ tasks = <<>>
    /\ worker = [w \in Worker |-> [at |-> "idle", fd |-> None]]
    /\ waiting = 0 /\ transferring = FALSE /\ refleshing = FALSE
    /\ left = [messages |-> MaxMessages, commands |-> MaxCommands]

\* The worker returns and gives shutdown_lock back.
Idle == [at |-> "idle", fd |-> None]
To(w, at) == worker' = [worker EXCEPT ![w].at = at]
-----------------------------------------------------------------------------
(* Clients, other cache servers and the kernel.  One get per connection,   *)
(* answered before the client closes; puts and backups have no answer.     *)
Raise(k) == ready' = ready \cup {f \in Fd : fd[f] = k}

Connect(k) ==
    /\ client[k].at = "off"
    /\ \E kind \in Kind : client' = [client EXCEPT ![k].at = "on", ![k].kind = kind]
    /\ backlog' = Append(backlog, k) /\ listening' = TRUE
    /\ UNCHANGED <<inbox, fd, ready, loop, ep, sockfd, tasks, worker, moves, left>>

Send(k) ==
    /\ client[k].at = "on" /\ ~client[k].waits /\ client[k].kind # None
    /\ left.messages > 0
    /\ left' = [left EXCEPT !.messages = @ - 1]
    /\ inbox' = [inbox EXCEPT ![k] = Append(@, client[k].kind)]
    /\ client' = [client EXCEPT ![k].waits = client[k].kind = "get"]
    /\ Raise(k)
    /\ UNCHANGED <<backlog, fd, listening, loop, ep, sockfd, tasks, worker, moves>>

Hangup(k) ==
    /\ client[k].at = "on" /\ ~client[k].waits
    /\ client' = [client EXCEPT ![k].at = "gone"]
    /\ Raise(k)
    /\ UNCHANGED <<inbox, backlog, fd, listening, loop, ep, sockfd, tasks, worker, moves, left>>
-----------------------------------------------------------------------------
(* The epoll loop.  None in ep stands for the listening socket.            *)
WR_listenWait ==
    /\ loop = "poll" /\ (listening \/ ready # {})
    /\ ep' = ready \cup (IF listening THEN {None} ELSE {})
    /\ listening' = FALSE /\ ready' = {} /\ loop' = "lock"
    /\ UNCHANGED <<peers, backlog, fd, sockfd, tasks, worker, moves, left>>

LoopLock ==
    /\ loop = "lock" /\ ~transferring
    /\ loop' = "handle"
    /\ UNCHANGED <<peers, net, ep, sockfd, tasks, worker, moves, left>>

\* The lock is given back after the last event.
Handled(e) ==
    /\ loop = "handle" /\ e \in ep
    /\ ep' = ep \ {e}
    /\ loop' = IF ep = {e} THEN "poll" ELSE "handle"
    /\ UNCHANGED <<peers, net, worker, moves, left>>

WR_listenHandler == Handled(None) /\ tasks' = Append(tasks, "listen") /\ UNCHANGED sockfd

WR_cfdHandler(f) == Handled(f) /\ sockfd' = f /\ tasks' = Append(tasks, "cfd")

Loop == WR_listenWait \/ LoopLock \/ WR_listenHandler \/ \E f \in Fd : WR_cfdHandler(f)
-----------------------------------------------------------------------------
(* The workers.                                                            *)

\* Mutant of Take: the task does not copy the descriptor.
TakeMutant(w) ==
    /\ worker[w].at = "idle" /\ tasks # <<>> /\ ~transferring
    /\ tasks' = Tail(tasks)
    /\ To(w, IF Head(tasks) = "listen" THEN "accept" ELSE "read")
    /\ UNCHANGED <<peers, net, loop, ep, sockfd, moves, left>>

\* A task starts: shutdown_lock for reading, then the copy of the argument.
Take(w) ==
    /\ worker[w].at = "idle" /\ tasks # <<>> /\ ~transferring
    /\ tasks' = Tail(tasks)
    /\ worker' = [worker EXCEPT ![w] = IF Head(tasks) = "listen"
                                       THEN [at |-> "accept", fd |-> None]
                                       ELSE [at |-> "read", fd |-> sockfd]]
    /\ UNCHANGED <<peers, net, loop, ep, sockfd, moves, left>>

\* One accept, which blocks while there is no connection.  A connection that
\* is added to epoll can be written to, so it has an event at once.
task_listen(w) ==
    /\ worker[w].at = "accept" /\ backlog # <<>>
    /\ backlog' = Tail(backlog)
    /\ \E f \in Fd : /\ fd[f] = None
                     /\ fd' = [fd EXCEPT ![f] = Head(backlog)]
                     /\ ready' = ready \cup {f}
    /\ worker' = [worker EXCEPT ![w] = Idle]
    /\ UNCHANGED <<peers, listening, loop, ep, sockfd, tasks, moves, left>>

\* Mutant of ReadFails: Read tries again after every error.
ReadFailsMutant(w) == FALSE /\ worker' = worker

\* Read on a descriptor that was closed: the task is over.
ReadFails(w) == fd[worker[w].fd] = None /\ worker' = [worker EXCEPT ![w] = Idle]

\* read takes all there is, and the text up to the first NUL is the message.
\* On an empty socket Read tries again and again, so there is no step.
read_fromclient(w) ==
    LET k == fd[worker[w].fd]
    IN  /\ worker[w].at = "read"
        /\ \/ ReadFails(w) /\ UNCHANGED inbox
           \/ /\ k # None /\ inbox[k] # <<>>
              /\ inbox' = [inbox EXCEPT ![k] = <<>>]
              /\ To(w, Head(inbox[k]))
           \/ /\ k # None /\ inbox[k] = <<>> /\ client[k].at = "gone"
              /\ To(w, "eof") /\ UNCHANGED inbox
        /\ UNCHANGED <<client, net, loop, ep, sockfd, tasks, moves, left>>

\* The descriptor is closed, whoever is behind it by now.
closeconnect(w) ==
    LET f == worker[w].fd
    IN  /\ worker[w].at = "eof"
        /\ fd' = [fd EXCEPT ![f] = None] /\ ready' = ready \ {f}
        /\ worker' = [worker EXCEPT ![w] = Idle]
        /\ UNCHANGED <<peers, backlog, listening, loop, ep, sockfd, tasks, moves, left>>

\* Mutant of AnswerTo: no answer when the value is not found.
AnswerToMutant(k) ==
    client' \in {client, [client EXCEPT ![k].waits = FALSE, ![k].kind = None]}

\* The answer reaches the client behind the descriptor, found or not.  A client
\* that waits for it has nothing more to send.
AnswerTo(k) ==
    client' = IF client[k].waits THEN [client EXCEPT ![k].waits = FALSE, ![k].kind = None]
              ELSE client

\* rw_lock for reading, the lookup in LC, and the answer.
kvrequest_handler(w) ==
    LET k == fd[worker[w].fd]
    IN  \/ /\ worker[w].at = "get" /\ Writing = {}
           /\ To(w, "in_get")
           /\ UNCHANGED <<peers, net, loop, ep, sockfd, tasks, moves, left>>
        \/ /\ worker[w].at = "in_get"
           /\ IF k = None THEN UNCHANGED client ELSE AnswerTo(k)
           /\ worker' = [worker EXCEPT ![w] = Idle]
           /\ UNCHANGED <<inbox, net, loop, ep, sockfd, tasks, moves, left>>

\* Mutant of WriteLock: every handler takes the lock for reading.
WriteLockMutant == TRUE

\* rw_lock can be taken for writing.
WriteLock == Writing = {} /\ Reading = {}

\* rw_lock for writing, the put in LC and its backup, or the put in LC_BK.
kvrespond_handler(w) ==
    \/ /\ worker[w].at \in {"put", "bk"} /\ WriteLock
       /\ To(w, IF worker[w].at = "put" THEN "in_put" ELSE "in_bk")
       /\ UNCHANGED <<peers, net, loop, ep, sockfd, tasks, moves, left>>
    \/ /\ worker[w].at \in {"in_put", "in_bk"}
       /\ worker' = [worker EXCEPT ![w] = Idle]
       /\ UNCHANGED <<peers, net, loop, ep, sockfd, tasks, moves, left>>

task_cfd(w) == read_fromclient(w) \/ closeconnect(w) \/ kvrequest_handler(w) \/ kvrespond_handler(w)
-----------------------------------------------------------------------------
(* The heartbeat thread and the threads it starts.                         *)
add_handler ==
    /\ left.commands > 0 /\ ~refleshing
    /\ left' = [left EXCEPT !.commands = @ - 1]
    /\ waiting' = waiting + 1
    /\ UNCHANGED <<peers, net, loop, ep, sockfd, tasks, worker, transferring, refleshing>>

\* No lock of the request path is taken.
reflesh_handler ==
    /\ \/ ~refleshing /\ left.commands > 0 /\ refleshing' = TRUE
          /\ left' = [left EXCEPT !.commands = @ - 1]
       \/ refleshing /\ refleshing' = FALSE /\ UNCHANGED left
    /\ UNCHANGED <<peers, net, loop, ep, sockfd, tasks, worker, waiting, transferring>>

\* shutdown_lock can be taken for writing: no task runs, nor the epoll loop.
TransferLock == ~transferring /\ Busy = {} /\ loop # "handle"

\* The new ring, and all keys of LC sent to their owners, under shutdown_lock.
doit_iplistchange ==
    /\ \/ waiting > 0 /\ TransferLock /\ waiting' = waiting - 1 /\ transferring' = TRUE
       \/ transferring /\ transferring' = FALSE /\ UNCHANGED waiting
    /\ UNCHANGED <<peers, net, loop, ep, sockfd, tasks, worker, refleshing, left>>
-----------------------------------------------------------------------------
Next ==
    \/ \E k \in Client : Connect(k) \/ Send(k) \/ Hangup(k)
    \/ Loop
    \/ \E w \in Worker : Take(w) \/ task_listen(w) \/ task_cfd(w)
    \/ add_handler \/ reflesh_handler \/ doit_iplistchange

Spec == Init /\ [][Next]_vars

\* Every thread that can go on does; a client that is not waiting hangs up.
FairSpec ==
    /\ Spec /\ WF_vars(Loop) /\ WF_vars(doit_iplistchange)
    /\ WF_vars(reflesh_handler /\ refleshing)
    /\ \A w \in Worker : WF_vars(Take(w)) /\ WF_vars(task_listen(w)) /\ SF_vars(task_cfd(w))
    /\ \A k \in Client : WF_vars(Hangup(k))
-----------------------------------------------------------------------------
\* A put excludes all other handlers, and while keys are sent to their new
\* owners no handler runs at all, though tasks start at any time.
LocksExclude ==
    /\ \A w \in Writing, v \in Writing \cup Reading : v = w
    /\ transferring => Busy = {}

\* A client that was accepted and waits for an answer gets one.
RequestIsServed ==
    \A k \in Client : client[k].waits /\ (\E f \in Fd : fd[f] = k) ~> ~client[k].waits

\* The threads that wait to send keys to their new owners all get to do it.
TransferHappens == waiting > 0 ~> waiting = 0

\* Every connection is accepted.
ConnectionIsAccepted ==
    \A k \in Client : client[k].at = "on" ~> \A i \in DOMAIN backlog : backlog[i] # k

\* The list of LC is changed by one thread at a time: a get moves a node to the
\* head, a put and reflesh_handler add one.
ListChangedAlone ==
    /\ \A w \in Reading, v \in Reading : v = w
    /\ refleshing => \A w \in Worker : worker[w].at \notin {"in_get", "in_put"}

\* A connection is closed only if its client closed it.
ClosedByPeer ==
    [][\A f \in Fd : fd[f] # None /\ fd'[f] = None => client[fd[f]].at = "gone"]_vars

\* Each read takes one message, and none is thrown away.
NothingDropped ==
    [][\A k \in Client : inbox'[k] = <<>> => Len(inbox[k]) <= 1]_vars
=============================================================================
