------------------------------- MODULE Cluster -------------------------------
(***************************************************************************)
(* What becomes of stored keys when cache servers join, are shut down or   *)
(* crash: the transfers of Cache Server/0/HeartBeat.hpp, the put handler   *)
(* with its backup (WriteRead.hpp) and a client (Client/client.hpp).  The  *)
(* master is taken to finish a change before it begins the next one (see   *)
(* Master for what happens otherwise), messages to a live server arrive    *)
(* (see RequestPath), and a key is written once, as the client does.       *)
(***************************************************************************)
EXTENDS Integers, FiniteSets

CONSTANTS
    Server, Key, None,
    Layouts,   \* pairs of the ring orders prefer and follow that are considered
    Initial,   \* the servers that run and are registered at the start
    Budgets,   \* bounds: joins, shutdowns, crashes, late threads, evictions, client runs
    GiveUp     \* "data not here" answers after which a client gives up: 3

VARIABLES
    prefer,    \* key -> servers in the order in which virtualNodes gives them
    follow,    \* key -> servers in the order in which serverNodes gives them
    node,      \* server -> its process, see Fresh
    out,       \* server -> family of sending threads -> destination -> thread
    inbox,     \* server -> messages it has not read
    listed,    \* IPportlist of the master
    owed,      \* server -> command the master still has to send it
    client,    \* its server list, the key it reads, "data not here" answers
    sent,      \* keys the client has written
    stored,    \* history: keys that were put, and not lost by an eviction or by a crash
               \* of the only server that has them
    raced,     \* history: keys whose transfer met one of the cases the code gets wrong
    left       \* what is left of the bounds

vars == <<prefer, follow, node, out, inbox, listed, owed, client, sent, stored, raced, left>>

\* Threads that send from LC, joined by doit_iplistchange, and threads that send
\* from LC_BK, started by reflesh_handler and joined by nobody.
Family == {"move", "bk"}
Command == {"ADD_CACHE", "SHUTDOWN_CACHE", "REFLESH_IP"}
Caches == [Key -> {"absent", "real", "blank"}]

First(order, S) == order[CHOOSE i \in DOMAIN order :
                            order[i] \in S /\ \A j \in 1..(i - 1) : order[j] \notin S]
GetServerIndex(k, S) == First(prefer[k], S)
GetBackUpServer(k, S) == First(follow[k], S)

Up(s) == node[s].run
NoThread == [pc |-> "none", keys |-> {}]
Quiet == [f \in Family |-> [d \in Server |-> NoThread]]
Empty == [k \in Key |-> "absent"]
Holds(cache) == {k \in Key : cache[k] # "absent"}

\* list, exit_flag: shared with the transfer threads; waiting: those that wait for
\* shutdown_lock; moving: one holds it, and exits at the end if exits; stopped: the
\* heartbeats have ended.
Fresh(run, ring, list) ==
    [run |-> run, list |-> list, ring |-> ring, serverNodes |-> ring,
     exit_flag |-> FALSE, waiting |-> 0, moving |-> FALSE, exits |-> FALSE, stopped |-> FALSE,
     LC |-> Empty, LC_BK |-> Empty]

NodeType ==
    [run : BOOLEAN, list : SUBSET Server, ring : SUBSET Server, serverNodes : SUBSET Server,
     exit_flag : BOOLEAN, waiting : Nat, moving : BOOLEAN, exits : BOOLEAN, stopped : BOOLEAN,
     LC : Caches, LC_BK : Caches]
ThreadType == [pc : {"none", "fresh", "send"}, keys : SUBSET Key]
MessageType == [key : Key, value : {"real", "blank"}, bk : BOOLEAN]
ClientType == [list : SUBSET Server, key : Key \cup {None}, misses : 0..GiveUp]

TypeOK ==
    /\ node \in [Server -> NodeType]
    /\ out \in [Server -> [Family -> [Server -> ThreadType]]]
    /\ inbox \in [Server -> SUBSET MessageType]
    /\ listed \in SUBSET Server /\ owed \in [Server -> Command \cup {None}]
    /\ client \in ClientType
    /\ sent \in SUBSET Key /\ stored \in SUBSET Key /\ raced \in SUBSET Key

Orders == {o \in [1..Cardinality(Server) -> Server] : \A s \in Server : \E i \in DOMAIN o : o[i] = s}

ASSUME ClusterAssumption ==
    /\ Cardinality(Server) \in Nat /\ Initial \subseteq Server /\ Initial # {}
    /\ None \notin Key \cup Command
    /\ Layouts \subseteq [Key -> Orders] \X [Key -> Orders] /\ GiveUp \in Nat \ {0}

Init ==
    /\ \E l \in Layouts : prefer = l[1] /\ follow = l[2]
    /\ node = [s \in Server |-> LET ring == IF s \in Initial THEN Initial ELSE {}
                             IN  Fresh(s \in Initial, ring, ring)]
    /\ out = [s \in Server |-> Quiet] /\ inbox = [s \in Server |-> {}]
    /\ listed = Initial /\ owed = [s \in Server |-> None]
    /\ client = [list |-> Initial, key |-> None, misses |-> 0]
    /\ sent = {} /\ stored = {} /\ raced = {}
    /\ left \in Budgets

Use(what) == left[what] > 0 /\ left' = [left EXCEPT ![what] = @ - 1]
Hash == <<prefer, follow>>
Control == <<listed, owed>>
Users == <<client, sent>>
History == <<stored, raced>>
-----------------------------------------------------------------------------
(* The master, one change at a time.                                       *)
Settled == \A s \in Server : owed[s] = None

Real(cache) == {k \in Key : cache[k] = "real"}
Copies(s) == IF Up(s) THEN Real(node[s].LC) \cup Real(node[s].LC_BK) ELSE {}
OwnerHas(k) == listed # {} /\ LET s == GetServerIndex(k, listed)
                              IN  Up(s) /\ node[s].LC[k] = "real"

\* A server starts and its first heartbeat is heard: all are to get the list.
Join(s) ==
    /\ Settled /\ ~Up(s) /\ s \notin listed /\ Use("joins")
    /\ node' = [node EXCEPT ![s] = Fresh(TRUE, {s}, {})]
    /\ listed' = listed \cup {s}
    /\ owed' = [t \in Server |-> IF t = s \/ (t \in listed /\ Up(t)) THEN "ADD_CACHE" ELSE None]
    /\ raced' = IF \A t \in listed : Up(t) THEN raced
                ELSE raced \cup {k \in stored : ~OwnerHas(k)}
    /\ UNCHANGED <<Hash, out, inbox, Users, stored>>

\* The user shuts a server down: it gets its command, then the others the list.  Its
\* backups of a server that crashed and is not removed yet go with it.
ShutdownRequest(s) ==
    /\ Settled /\ s \in listed /\ Up(s) /\ listed # {s} /\ Use("shutdowns")
    /\ listed' = listed \ {s}
    /\ owed' = [t \in Server |-> IF t = s THEN "SHUTDOWN_CACHE"
                                 ELSE IF t \in listed /\ Up(t) THEN "REFLESH_IP" ELSE None]
    /\ raced' = raced \cup {k \in Real(node[s].LC_BK) : ~Up(GetServerIndex(k, listed))}
    /\ UNCHANGED <<Hash, node, out, inbox, Users, stored>>

\* heartstate found a listed server silent.
Shrink(s) ==
    /\ Settled /\ s \in listed /\ ~Up(s)
    /\ listed' = listed \ {s}
    /\ owed' = [t \in Server |-> IF t \in listed /\ Up(t) THEN "REFLESH_IP" ELSE None]
    /\ UNCHANGED <<Hash, node, out, inbox, Users, History, left>>

\* What a process that ends takes with it.
Gone(s) ==
    /\ node' = [node EXCEPT ![s] = Fresh(FALSE, {}, {})]
    /\ out' = [out EXCEPT ![s] = Quiet] /\ inbox' = [inbox EXCEPT ![s] = {}]
    /\ owed' = [owed EXCEPT ![s] = None]

\* Nothing is on its way.
AtRest ==
    /\ Settled
    /\ \A s \in Server : /\ node[s].waiting = 0 /\ ~node[s].moving
                         /\ out[s] = Quiet /\ inbox[s] = {}

\* Keys whose owner is another server that has them, or, if all was at rest, that
\* another server has a backup of.
Spared(s) ==
    {k \in Key : \/ OwnerHas(k) /\ GetServerIndex(k, listed) # s
                 \/ AtRest /\ \E t \in listed \ {s} : Up(t) /\ node[t].LC_BK[k] = "real"}

Crash(s) ==
    /\ Up(s) /\ Use("crashes") /\ Gone(s)
    /\ stored' = {k \in stored : \E t \in Server \ {s} : k \in Copies(t)}
    /\ raced' = raced \cup (stored \ Spared(s))
    /\ UNCHANGED <<Hash, listed, Users>>
-----------------------------------------------------------------------------
(* The heartbeat thread of a server.  REFLESH_IP is sent when the server   *)
(* that is shut down has its command.                                      *)
Commanded(s, command) ==
    /\ Up(s) /\ ~node[s].stopped /\ owed[s] = command
    /\ owed' = [owed EXCEPT ![s] = None]

Told(s, down) ==
    [node[s] EXCEPT !.list = listed, !.waiting = @ + 1, !.exit_flag = down, !.stopped = down]

\* add_handler and shutdown_handler: the vector is filled and a transfer thread
\* started.  After SHUTDOWN_CACHE the heartbeats end.
ListHandler(s, command) ==
    /\ Commanded(s, command)
    /\ node' = [node EXCEPT ![s] = Told(s, command = "SHUTDOWN_CACHE")]
    /\ UNCHANGED <<Hash, out, inbox, listed, Users, History, left>>

\* Threads for the keys of each destination other than the server itself.
Threads(s, keys, ring) ==
    [d \in Server |-> LET mine == {k \in keys : GetServerIndex(k, ring) = d}
                      IN  IF d = s \/ mine = {} THEN NoThread ELSE [pc |-> "fresh", keys |-> mine]]
Unsent(s, f) == UNION {out[s][f][d].keys : d \in Server}

\* Mutant: the ring is refreshed before the orphans are looked for.
reflesh_handlerMutant(s) ==
    /\ \A t \in Server : owed[t] # "SHUTDOWN_CACHE"
    /\ Commanded(s, "REFLESH_IP")
    /\ node' = [node EXCEPT ![s] = [@ EXCEPT !.list = listed, !.ring = listed,
                                             !.serverNodes = @ \cup listed]]
    /\ out' = [out EXCEPT ![s]["bk"] = Quiet["bk"]]
    /\ UNCHANGED <<Hash, inbox, listed, Users, History, left>>

Orphans(s) == {k \in Holds(node[s].LC_BK) : GetServerIndex(k, node[s].ring) \notin listed}
Adopted(s) == {k \in Orphans(s) : GetServerIndex(k, listed) = s}
Refreshed(s) ==
    [node[s] EXCEPT !.list = listed, !.ring = listed, !.serverNodes = @ \cup listed,
       !.LC = [k \in Key |-> IF k \in Adopted(s) THEN node[s].LC_BK[k] ELSE node[s].LC[k]]]

\* reflesh_handler: the backups whose owner, by the old ring, is gone go to their
\* new owner; the server's own go to its cache, without a lock.  What threads it
\* started before still had to send is forgotten.
reflesh_handler(s) ==
    /\ \A t \in Server : owed[t] # "SHUTDOWN_CACHE"
    /\ Commanded(s, "REFLESH_IP")
    /\ IF node[s].ring = {} /\ Holds(node[s].LC_BK) # {} THEN Gone(s)
       ELSE /\ node' = [node EXCEPT ![s] = Refreshed(s)]
            /\ out' = [out EXCEPT ![s]["bk"] = Threads(s, Orphans(s), listed)]
            /\ UNCHANGED inbox
    /\ raced' = raced \cup Unsent(s, "bk")
    /\ UNCHANGED <<Hash, listed, Users, stored, left>>
-----------------------------------------------------------------------------
(* A transfer thread, and the threads that send.                           *)

\* What exit(0) leaves behind: unread messages, and threads nobody joins.
Exit(s) ==
    /\ Gone(s)
    /\ raced' = raced \cup Unsent(s, "bk") \cup {m.key : m \in inbox[s]}

Sorted(s, ring) == Threads(s, Holds(node[s].LC), ring)
Moves(s, ring) ==
    [node[s] EXCEPT !.ring = ring, !.serverNodes = @ \cup ring, !.exits = node[s].exit_flag,
                    !.waiting = @ - 1, !.moving = Sorted(s, ring) # Quiet["move"]]

\* The ring is refreshed, the keys of LC are sorted by owner and a thread is started
\* for each.  A lookup in an empty ring ends the process.
takeout_alldata(s, ring) ==
    IF ring = {} /\ Holds(node[s].LC) # {} THEN Gone(s) /\ raced' = Key
    ELSE IF Sorted(s, ring) = Quiet["move"] /\ node[s].exit_flag THEN Exit(s)
    ELSE /\ node' = [node EXCEPT ![s] = Moves(s, ring)]
         /\ out' = [out EXCEPT ![s]["move"] = Sorted(s, ring)]
         /\ raced' = IF ring = node[s].list THEN raced ELSE Key
         /\ UNCHANGED <<inbox, owed>>

\* doit_iplistchange gets shutdown_lock and reads the vector as it is then (some of
\* it, while the handler of the next command fills it again).  With nothing to send it
\* is done.
doit_iplistchange(s) ==
    /\ Up(s) /\ node[s].waiting > 0 /\ ~node[s].moving
    /\ \E ring \in {node[s].list} \cup (IF owed[s] = None THEN {} ELSE SUBSET listed) :
         takeout_alldata(s, ring)
    /\ UNCHANGED <<Hash, listed, Users, stored, left>>

\* The threads are started 0.1 s apart with one argument: a thread that is late finds
\* the address of the next one in it, and sends what that one sends.
LateThread(s, f, d) ==
    /\ out[s][f][d].pc = "fresh" /\ \E e \in Server \ {d} : out[s][f][e].pc # "none"
    /\ Use("late")
    /\ out' = [out EXCEPT ![s][f][d] = NoThread]
    /\ raced' = raced \cup out[s][f][d].keys
    /\ UNCHANGED <<Hash, node, inbox, Control, Users, stored>>

\* Mutant: the test of the result of connect is inverted.
net_connectMutant(s, f, d) ==
    /\ out[s][f][d].pc = "fresh"
    /\ out' = [out EXCEPT ![s][f][d] = NoThread]
    /\ UNCHANGED <<Hash, node, inbox, Control, Users, History, left>>

\* A thread that cannot connect ends, and its keys stay where they are.
net_connect(s, f, d) ==
    /\ out[s][f][d].pc = "fresh"
    /\ out' = [out EXCEPT ![s][f][d] = IF Up(d) THEN [@ EXCEPT !.pc = "send"] ELSE NoThread]
    /\ raced' = IF Up(d) THEN raced ELSE raced \cup out[s][f][d].keys
    /\ UNCHANGED <<Hash, node, inbox, Control, Users, stored, left>>

Message(k, v, bk) == [key |-> k, value |-> v, bk |-> bk]
Deliver(d, m) == inbox' = IF Up(d) THEN [inbox EXCEPT ![d] = @ \cup {m}] ELSE inbox

\* The value is what the cache has when the key is sent, "" if it has none.
sendout_data(s, f, d, k) ==
    LET cache == IF f = "move" THEN node[s].LC ELSE node[s].LC_BK
        rest == out[s][f][d].keys \ {k}
    IN  /\ out[s][f][d].pc = "send" /\ k \in out[s][f][d].keys
        /\ Deliver(d, Message(k, IF cache[k] = "real" THEN "real" ELSE "blank", FALSE))
        /\ out' = [out EXCEPT ![s][f][d] = IF rest = {} THEN NoThread ELSE [@ EXCEPT !.keys = rest]]
        /\ raced' = IF Up(d) THEN raced ELSE raced \cup {k}
        /\ UNCHANGED <<Hash, node, Control, Users, stored, left>>

Released(s) ==
    /\ node[s].moving
    /\ IF node[s].exits THEN Exit(s)
       ELSE node' = [node EXCEPT ![s].moving = FALSE] /\ UNCHANGED <<out, inbox, owed, raced>>
    /\ UNCHANGED <<Hash, listed, Users, stored, left>>

\* Mutant: the threads are not joined.
takeout_endMutant(s) == Released(s)

\* All threads are joined: the lock is released, or the process exits.
takeout_end(s) == out[s]["move"] = Quiet["move"] /\ Released(s)
-----------------------------------------------------------------------------
(* Requests, when no transfer holds shutdown_lock.                         *)

\* A put, with the message to the backup server, or a put of a backup.
kvrespond_handler(s, m) ==
    LET backup == GetBackUpServer(m.key, node[s].serverNodes)
    IN  /\ m \in inbox[s] /\ Up(s) /\ ~node[s].moving
        /\ node' = IF m.bk THEN [node EXCEPT ![s].LC_BK[m.key] = m.value]
                   ELSE [node EXCEPT ![s].LC[m.key] = m.value]
        /\ inbox' = [t \in Server |->
             (IF t = s THEN inbox[t] \ {m} ELSE inbox[t])
             \cup (IF ~m.bk /\ t = backup /\ backup # s /\ Up(t) THEN {Message(m.key, m.value, TRUE)} ELSE {})]
        /\ stored' = IF ~m.bk /\ m.value = "real" THEN stored \cup {m.key} ELSE stored
        /\ raced' = IF m.bk \/ (node[s].ring # {} /\ GetServerIndex(m.key, node[s].ring) = s) THEN raced
                    ELSE raced \cup {m.key}
        /\ UNCHANGED <<Hash, out, Control, Users, left>>

\* Puts of other keys push k out of a full cache.  A backup that is being sent is
\* sent as an empty value then.
Evict(s, k) ==
    /\ Up(s) /\ ~node[s].moving /\ Use("evictions")
    /\ \/ /\ node[s].LC[k] # "absent" /\ node' = [node EXCEPT ![s].LC[k] = "absent"]
          /\ stored' = stored \ {k} /\ UNCHANGED raced
       \/ /\ node[s].LC_BK[k] # "absent" /\ node' = [node EXCEPT ![s].LC_BK[k] = "absent"]
          /\ raced' = IF OwnerHas(k) /\ k \notin Unsent(s, "bk") THEN raced ELSE raced \cup {k}
          /\ UNCHANGED stored
    /\ UNCHANGED <<Hash, out, inbox, Control, Users>>
-----------------------------------------------------------------------------
(* The client.                                                             *)
\* Mutant: the ring is not refreshed from the answer.
DistributionRequestMutant ==
    /\ sent # Key \/ client.key # None
    /\ UNCHANGED vars

DistributionRequest ==
    /\ sent # Key \/ client.key # None
    /\ listed # {} /\ client' = [client EXCEPT !.list = listed]
    /\ UNCHANGED <<Hash, node, out, inbox, Control, sent, History, left>>

\* A new key goes to its owner by the client's list, which may be old.
KeyValueWrite(k) ==
    LET s == GetServerIndex(k, client.list)
    IN  /\ k \notin sent /\ Up(s)
        /\ Deliver(s, Message(k, "real", FALSE)) /\ sent' = sent \cup {k}
        /\ UNCHANGED <<Hash, node, out, Control, client, History, left>>

\* A later run of the client reads k, which it finds in the file of written keys.
KeyValueRequest(k) ==
    /\ k \in stored /\ (client.key = None \/ client.misses = GiveUp) /\ Use("reads")
    /\ client' = [client EXCEPT !.key = k, !.misses = 0]
    /\ UNCHANGED <<Hash, node, out, inbox, Control, sent, History>>

\* The owner by the client's list looks the key up and answers; after "data not here"
\* the client asks the master for the list and tries again.
Ask ==
    LET s == GetServerIndex(client.key, client.list)
        hit == node[s].LC[client.key] = "real"
    IN  /\ client.key # None /\ Up(s) /\ ~node[s].moving /\ (hit \/ listed # {})
        /\ client' = IF hit THEN [client EXCEPT !.key = None]
                     ELSE [client EXCEPT !.misses = @ + 1, !.list = listed]
        /\ UNCHANGED <<Hash, node, out, inbox, Control, sent, History, left>>

\* Mutant: the client never gives up.
RequestLoopMutant == Ask

\* The client goes on until the third "data not here", at which it gives up.
RequestLoop == client.misses < GiveUp /\ Ask
-----------------------------------------------------------------------------
Works(s) ==
    \/ \E command \in {"ADD_CACHE", "SHUTDOWN_CACHE"} : ListHandler(s, command)
    \/ reflesh_handler(s) \/ doit_iplistchange(s) \/ takeout_end(s)
    \/ \E f \in Family, d \in Server :
         net_connect(s, f, d) \/ \E k \in Key : sendout_data(s, f, d, k)
    \/ \E m \in inbox[s] : kvrespond_handler(s, m)

Next ==
    \/ \E s \in Server : \/ Join(s) \/ ShutdownRequest(s) \/ Shrink(s) \/ Crash(s) \/ Works(s)
                         \/ \E k \in Key : Evict(s, k)
    \/ \E k \in Key : KeyValueWrite(k) \/ KeyValueRequest(k)
    \/ \E s, d \in Server, f \in Family : LateThread(s, f, d)
    \/ DistributionRequest \/ RequestLoop

Spec == Init /\ [][Next]_vars

\* Threads are scheduled, heartstate of the master runs for ever, and a client that
\* reads goes on until it has an answer or gives up.
FairSpec ==
    /\ Spec
    /\ \A s \in Server : WF_vars(Works(s)) /\ WF_vars(Shrink(s))
    /\ WF_vars(DistributionRequest) /\ WF_vars(RequestLoop)
-----------------------------------------------------------------------------
Kept == stored \ raced

\* A real value of k is in a cache of a running server or on its way to one.
Somewhere(k) == \E s \in Server : \/ k \in Copies(s)
                                  \/ \E m \in inbox[s] : m.key = k /\ m.value = "real"

\* No transfer, shutdown or crash loses a stored key, outside the cases of raced:
\* doit_iplistchange, takeout_alldata and reflesh_handler hand it on in time.
NotLost == \A k \in Kept : Somewhere(k)

Placed_(keys) == AtRest /\ (\A s \in listed : Up(s)) => \A k \in keys : OwnerHas(k)

\* When all changes are through, each such key is on the server where clients look for
\* it: organize_data and reflesh_handler choose the destinations GetServerIndex gives.
Placed == Placed_(Kept)

\* And the changes do get through: each key comes to its owner for good.
ReachesOwner == \A k \in Key : <>[](k \in Kept => OwnerHas(k))

\* KeyValueRequest ends, with the value or with "Data Lose", whatever becomes of the
\* servers on the client's list.
ReadEnds == client.key # None ~> client.key = None \/ client.misses = GiveUp

\* What does not hold.  Placed without the exception for raced: a write that met a
\* transfer can end where no client looks for it.
AllPlaced == Placed_(stored)

\* NotLost without that exception: planned shutdowns alone can lose a key.
AllNotLost == \A k \in stored : Somewhere(k)

\* No server stores an empty value: a key is sent with the value it had when
\* reflesh_handler listed it.
NothingBlank == \A s \in Server, k \in Key : node[s].LC[k] # "blank"

\* A client never gives up with "Data Lose" on a key the cluster has.
NoDataLose == ~(client.misses = GiveUp /\ client.key \in Kept)
=============================================================================
