---------------------------- MODULE ClusterProofs ----------------------------
(***************************************************************************)
(* No change of the servers loses or misplaces a stored key outside the    *)
(* cases of raced, for any servers, keys, rings and numbers of events.     *)
(***************************************************************************)
EXTENDS Cluster, WellFoundedInduction, TLAPS

\* What a server that is down left, how a shutdown proceeds, and whom the master
\* still has to send a command.
Process(s) ==
    /\ ~Up(s) => owed[s] = None /\ out[s] = Quiet /\ inbox[s] = {} /\ node[s].waiting = 0
    /\ node[s].moving => Up(s)
    /\ ~node[s].moving => out[s]["move"] = Quiet["move"]
    /\ node[s].exits => node[s].moving /\ node[s].stopped
    /\ node[s].exit_flag <=> node[s].stopped
    /\ node[s].stopped => /\ Up(s) /\ s \notin listed /\ s \notin node[s].list /\ owed[s] = None
                          /\ node[s].exits \/ node[s].waiting > 0
    /\ Up(s) /\ s \notin listed => owed[s] = "SHUTDOWN_CACHE" \/ node[s].stopped
    /\ owed[s] \in {"ADD_CACHE", "REFLESH_IP"} => s \in listed
    /\ owed[s] = "SHUTDOWN_CACHE" => s \notin listed /\ listed # {}
    /\ node[s].waiting > 0 => node[s].list # {}
Processes == \A s \in Server : Process(s)

\* A server in the list knows the list, or still has to hear of a change of it, and
\* its ring follows when no thread waits to refresh it.
Knows(s) ==
    /\ owed[s] = None => node[s].list = listed
    /\ owed[s] = "REFLESH_IP" => listed \subseteq node[s].list
    /\ owed[s] = None /\ node[s].waiting = 0 => node[s].ring = listed
    /\ owed[s] = "REFLESH_IP" /\ node[s].waiting = 0 => listed \subseteq node[s].ring
Rings ==
    raced # Key => /\ \A s \in listed : Up(s) => Knows(s)
                   /\ \A s \in Server : Up(s) => node[s].ring # {}

\* Nothing of k is blank, and what a thread has to send is in the cache it reads.
Genuine(k) ==
    \A s \in Server :
        /\ node[s].LC[k] # "blank" /\ node[s].LC_BK[k] # "blank"
        /\ \A m \in inbox[s] : m.key = k => m.value = "real"
        /\ \A d \in Server : /\ k \in out[s]["move"][d].keys => node[s].LC[k] = "real"
                             /\ k \in out[s]["bk"][d].keys => node[s].LC_BK[k] = "real"
Values == \A k \in Key \ raced : Genuine(k)

\* Where k is if its owner does not have it: with a thread or in a message; in the cache
\* of a server that will sort its keys again; or in a backup of an owner that crashed,
\* which the server that has it will hand on when it hears that the owner is gone.
InThread(k) == \E s, d \in Server : \E f \in Family : k \in out[s][f][d].keys
InMessage(k) == \E s \in Server : \E m \in inbox[s] : m.key = k /\ ~m.bk
Pending(s) == owed[s] \in {"ADD_CACHE", "SHUTDOWN_CACHE"} \/ node[s].waiting > 0
Kept_(k, s) == Up(s) /\ node[s].LC[k] = "real" /\ Pending(s) /\ ~node[s].exits
Holder(k) == \E s \in Server : Kept_(k, s)
Awaits(k, t) ==
    LET o == GetServerIndex(k, listed)
    IN  ~Up(o) /\ GetServerIndex(k, node[t].ring) = o /\ GetServerIndex(k, node[t].list) = o
Adopts(k, t) ==
    /\ owed[t] = "REFLESH_IP" /\ GetServerIndex(k, node[t].ring) \notin listed
    /\ GetServerIndex(k, node[t].list) \notin listed
Backs(k, t) == Up(t) /\ node[t].LC_BK[k] = "real" /\ (Awaits(k, t) \/ Adopts(k, t))
Backed(k) == \E t \in listed : Backs(k, t)
Traced(k) == OwnerHas(k) \/ InThread(k) \/ InMessage(k) \/ Holder(k) \/ Backed(k)
Tracked == \A k \in Kept : Traced(k)

\* The ring orders are those of one of the layouts.
Ordered == prefer \in [Key -> Orders]

IInv == TypeOK /\ Ordered /\ Processes /\ Rings /\ Values /\ Tracked
-----------------------------------------------------------------------------
(* The rings.                                                              *)

\* A non-empty set of naturals has a least element.
LEMMA LeastExists ==
    ASSUME NEW S, S \subseteq Nat, S # {}
    PROVE  \E i \in S : \A j \in S : i <= j
  <1> DEFINE R == OpToRel(<, Nat)
  <1>1. IsWellFoundedOn(R, Nat) BY Zenon, NatLessThanWellFounded
  <1>2. \A x, y \in Nat : <<y, x>> \notin R => x <= y BY DEF OpToRel
  <1> HIDE DEF R
  <1>3. \E x \in S : \A y \in S : ~(<<y, x>> \in R) BY Zenon, <1>1, WFMin
  <1> QED BY Zenon, <1>2, <1>3

\* The position at which First finds the server.
LEMMA FirstPosition ==
    ASSUME NEW order \in Orders, NEW S, S \subseteq Server, S # {}
    PROVE  \E i \in DOMAIN order : /\ First(order, S) = order[i] /\ order[i] \in S
                                   /\ \A j \in 1..(i - 1) : order[j] \notin S
  <1> DEFINE I == {i \in DOMAIN order : order[i] \in S}
  <1>1. Cardinality(Server) \in Nat BY Zenon, ClusterAssumption
  <1>2. DOMAIN order = 1..Cardinality(Server) /\ \A s \in Server : \E i \in DOMAIN order : order[i] = s
    BY Zenon DEF Orders
  <1>3. I \subseteq Nat /\ I # {} BY <1>1, <1>2
  <1>4. PICK i \in I : \A j \in I : i <= j BY Zenon, <1>3, LeastExists
  <1>5. \A j \in 1..(i - 1) : order[j] \notin S BY <1>1, <1>2, <1>4
  <1> QED BY Zenon, <1>4, <1>5 DEF First

\* GetServerIndex gives one of the servers.
LEMMA OwnerIn ==
    ASSUME NEW order \in Orders, NEW S, S \subseteq Server, S # {}
    PROVE  First(order, S) \in S
BY FirstPosition

\* The owner among more servers is the owner among some of them, if it is one of them.
LEMMA OwnerSub ==
    ASSUME NEW order \in Orders, NEW S, NEW R, S \subseteq R, R \subseteq Server,
           First(order, R) \in S
    PROVE  First(order, S) = First(order, R)
  <1>1. PICK i \in DOMAIN order : /\ First(order, R) = order[i] /\ order[i] \in R
                                 /\ \A j \in 1..(i - 1) : order[j] \notin R
    BY Zenon, FirstPosition
  <1>2. PICK j \in DOMAIN order : /\ First(order, S) = order[j] /\ order[j] \in S
                                 /\ \A n \in 1..(j - 1) : order[n] \notin S
    BY Zenon, FirstPosition
  <1>3. DOMAIN order = 1..Cardinality(Server) /\ Cardinality(Server) \in Nat
    BY Zenon, ClusterAssumption DEF Orders
  <1>4. ~(i < j) /\ ~(j < i) BY <1>1, <1>2, <1>3
  <1> QED BY <1>1, <1>2, <1>3, <1>4
-----------------------------------------------------------------------------
(* Types.                                                                  *)

\* The parts of the type invariant, each kept by the steps that leave it alone.
OutType == [Server -> [Family -> [Server -> ThreadType]]]

\* A server as it starts or as it is left by its process.
LEMMA FreshTyped ==
    ASSUME NEW run \in BOOLEAN, NEW ring \in SUBSET Server, NEW list \in SUBSET Server
    PROVE  Fresh(run, ring, list) \in NodeType
BY Zenon DEF Fresh, NodeType, Empty, Caches

\* A server without threads.
LEMMA QuietTyped == Quiet \in [Family -> [Server -> ThreadType]]
BY Zenon DEF Quiet, NoThread, ThreadType

\* The threads that organize_data and reflesh_handler start.
LEMMA ThreadsTyped ==
    ASSUME NEW s, NEW keys \in SUBSET Key, NEW ring
    PROVE  Threads(s, keys, ring) \in [Server -> ThreadType]
BY Zenon DEF Threads, NoThread, ThreadType

\* A process that ends takes its threads, messages and commands with it.
LEMMA GoneTyped ==
    ASSUME TypeOK, NEW s \in Server, Gone(s)
    PROVE  /\ node' \in [Server -> NodeType] /\ out' \in OutType
           /\ inbox' \in [Server -> SUBSET MessageType] /\ owed' \in [Server -> Command \cup {None}]
  <1>1. Fresh(FALSE, {}, {}) \in NodeType BY Zenon, FreshTyped
  <1> QED BY Zenon, <1>1, QuietTyped DEF TypeOK, Gone, OutType

\* A thread that ends, or goes on with other keys.
LEMMA ThreadTyped ==
    ASSUME TypeOK, NEW s \in Server, NEW f \in Family, NEW d \in Server, NEW t \in ThreadType
    PROVE  [out EXCEPT ![s][f][d] = t] \in OutType
  <1>1. out[s] \in [Family -> [Server -> ThreadType]] /\ out[s][f] \in [Server -> ThreadType]
    BY Zenon DEF TypeOK
  <1>2. [out[s][f] EXCEPT ![d] = t] \in [Server -> ThreadType] BY Zenon, <1>1
  <1>3. [out[s] EXCEPT ![f] = [out[s][f] EXCEPT ![d] = t]] \in [Family -> [Server -> ThreadType]]
    BY Zenon, <1>1, <1>2
  <1> QED BY Zenon, <1>3 DEF TypeOK, OutType

\* A thread that has ended.
LEMMA NoThreadTyped == NoThread \in ThreadType
BY Zenon DEF NoThread, ThreadType

\* The initial servers run, with empty caches.
LEMMA InitType == Init => TypeOK
  <1> SUFFICES ASSUME Init PROVE TypeOK BY Zenon
  <1>1. node \in [Server -> NodeType]
    <2>1. ASSUME NEW s \in Server
          PROVE  Fresh(s \in Initial, IF s \in Initial THEN Initial ELSE {},
                       IF s \in Initial THEN Initial ELSE {}) \in NodeType
      <3>1. (s \in Initial) \in BOOLEAN OBVIOUS
      <3>2. (IF s \in Initial THEN Initial ELSE {}) \in SUBSET Server BY Zenon, ClusterAssumption
      <3> QED BY Zenon, <3>1, <3>2, FreshTyped
    <2> QED BY Zenon, <2>1 DEF Init
  <1>2. out \in OutType BY Zenon, QuietTyped DEF Init, OutType
  <1> QED BY <1>1, <1>2, ClusterAssumption DEF Init, TypeOK, OutType, ClientType

\* The master's steps.
LEMMA MasterType ==
    ASSUME TypeOK, NEW s \in Server, Join(s) \/ ShutdownRequest(s) \/ Shrink(s) \/ Crash(s)
    PROVE  TypeOK'
  <1>1. CASE Join(s)
    <2>1. node' \in [Server -> NodeType] BY Zenon, <1>1, FreshTyped DEF Join, TypeOK
    <2> QED BY Zenon, <1>1, <2>1 DEF Join, TypeOK, Command, Users, Hash
  <1>2. CASE ShutdownRequest(s) BY Zenon, <1>2 DEF ShutdownRequest, TypeOK, Command, Users, Hash, Real
  <1>3. CASE Shrink(s) BY Zenon, <1>3 DEF Shrink, TypeOK, Command, Users, History
  <1>4. CASE Crash(s)
    <2>1. stored' \in SUBSET Key /\ raced' \in SUBSET Key BY Zenon, <1>4 DEF Crash, TypeOK
    <2> QED BY Zenon, <1>4, <2>1, GoneTyped DEF Crash, TypeOK, OutType, Users
  <1> QED BY Zenon, <1>1, <1>2, <1>3, <1>4

\* What the handlers of commands and of the new list leave of a server.
LEMMA NewNodes ==
    ASSUME TypeOK, NEW s \in Server
    PROVE  /\ \A down \in BOOLEAN : Told(s, down) \in NodeType
           /\ Refreshed(s) \in NodeType
           /\ node[s].waiting > 0 => \A ring \in SUBSET Server : Moves(s, ring) \in NodeType
  <1>0. node[s] \in NodeType /\ listed \in SUBSET Server BY Zenon DEF TypeOK
  <1>1. ASSUME NEW down \in BOOLEAN PROVE Told(s, down) \in NodeType
    <2>1. node[s].waiting + 1 \in Nat BY <1>0 DEF NodeType
    <2>2. Told(s, down) = [node[s] EXCEPT !.list = listed, !.waiting = node[s].waiting + 1,
                                          !.exit_flag = down, !.stopped = down]
      BY Zenon, <1>0 DEF NodeType, Told
    <2> QED BY ZenonT(30), <1>0, <2>1, <2>2 DEF NodeType
  <1>2. Refreshed(s) \in NodeType
    <2>1. [k \in Key |-> IF k \in Adopted(s) THEN node[s].LC_BK[k] ELSE node[s].LC[k]] \in Caches
      BY Zenon, <1>0 DEF NodeType, Caches
    <2> QED BY Zenon, <1>0, <2>1 DEF NodeType, Refreshed
  <1>3. ASSUME node[s].waiting > 0, NEW ring \in SUBSET Server PROVE Moves(s, ring) \in NodeType
    <2>1. node[s].waiting - 1 \in Nat BY <1>0, <1>3 DEF NodeType
    <2>2. (Sorted(s, ring) # Quiet["move"]) \in BOOLEAN BY Zenon
    <2> QED BY Zenon, <1>0, <2>1, <2>2 DEF NodeType, Moves
  <1> QED BY Zenon, <1>1, <1>2, <1>3

\* The keys that an exit or a new list of orphans gives up are keys.
LEMMA RacedTyped ==
    ASSUME TypeOK, NEW s \in Server
    PROVE  /\ \A f \in Family : Unsent(s, f) \subseteq Key
           /\ {m.key : m \in inbox[s]} \subseteq Key
  <1>1. \A f \in Family, d \in Server : out[s][f][d].keys \subseteq Key BY DEF TypeOK, ThreadType
  <1> QED BY <1>1 DEF TypeOK, Unsent, MessageType

\* So does a server that exits at the end of its transfer.
LEMMA ExitTyped ==
    ASSUME TypeOK, NEW s \in Server, Exit(s)
    PROVE  /\ node' \in [Server -> NodeType] /\ out' \in OutType
           /\ inbox' \in [Server -> SUBSET MessageType] /\ owed' \in [Server -> Command \cup {None}]
           /\ raced' \in SUBSET Key
BY Zenon, GoneTyped, RacedTyped DEF Exit, TypeOK, Family

\* The heartbeat thread and the transfer thread of a server.
LEMMA HandlerType ==
    ASSUME TypeOK, NEW s \in Server,
           \/ \E command \in {"ADD_CACHE", "SHUTDOWN_CACHE"} : ListHandler(s, command)
           \/ reflesh_handler(s) \/ doit_iplistchange(s) \/ takeout_end(s)
    PROVE  TypeOK'
  <1>0. /\ node[s] \in NodeType /\ node \in [Server -> NodeType] /\ out \in OutType
        /\ node[s].list \in SUBSET Server /\ listed \in SUBSET Server
    BY Zenon DEF TypeOK, OutType, NodeType
  <1>1. ASSUME NEW command \in {"ADD_CACHE", "SHUTDOWN_CACHE"}, ListHandler(s, command)
        PROVE  TypeOK'
    <2>1. (command = "SHUTDOWN_CACHE") \in BOOLEAN BY Zenon
    <2>2. node' \in [Server -> NodeType] BY Zenon, <1>0, <1>1, <2>1, NewNodes DEF ListHandler
    <2> QED BY Zenon, <1>1, <2>2 DEF ListHandler, Commanded, TypeOK, Users, History
  <1>2. CASE reflesh_handler(s)
    <2>1. Orphans(s) \in SUBSET Key BY Zenon DEF Orphans, Holds
    <2>2. raced' \in SUBSET Key BY Zenon, <1>2, RacedTyped DEF reflesh_handler, TypeOK, Family
    <2>3. owed' \in [Server -> Command \cup {None}] BY Zenon, <1>2 DEF reflesh_handler, Commanded, TypeOK
    <2>4. CASE Gone(s) BY Zenon, <1>2, <2>2, <2>4, GoneTyped DEF reflesh_handler, TypeOK, OutType, Users
    <2>5. CASE ~Gone(s)
      <3>1. node' \in [Server -> NodeType] BY Zenon, <1>0, <1>2, <2>5, NewNodes DEF reflesh_handler
      <3>2. Threads(s, Orphans(s), listed) \in [Server -> ThreadType] BY Zenon, <2>1, ThreadsTyped
      <3>3. out' = [out EXCEPT ![s]["bk"] = Threads(s, Orphans(s), listed)]
        BY Zenon, <1>2, <2>5 DEF reflesh_handler
      <3>4. out' \in OutType BY Zenon, <1>0, <3>2, <3>3 DEF OutType, Family
      <3> QED BY Zenon, <1>2, <2>5, <3>1, <3>4, <2>2, <2>3 DEF reflesh_handler, TypeOK, OutType, Users
    <2> QED BY Zenon, <2>4, <2>5
  <1>3. CASE doit_iplistchange(s)
    <2>1. PICK ring \in SUBSET Server : takeout_alldata(s, ring) BY Zenon, <1>0, <1>3 DEF doit_iplistchange
    <2>2. CASE Gone(s) /\ raced' = Key
      BY Zenon, <1>3, <2>2, GoneTyped DEF doit_iplistchange, TypeOK, OutType, Users
    <2>3. CASE Exit(s) BY Zenon, <1>3, <2>3, ExitTyped DEF doit_iplistchange, TypeOK, OutType, Users
    <2>4. CASE /\ node' = [node EXCEPT ![s] = Moves(s, ring)]
               /\ out' = [out EXCEPT ![s]["move"] = Sorted(s, ring)]
               /\ raced' = IF ring = node[s].list THEN raced ELSE Key
               /\ UNCHANGED <<inbox, owed>>
      <3>1. node' \in [Server -> NodeType] BY Zenon, <1>0, <1>3, <2>4, NewNodes DEF doit_iplistchange
      <3>2. Sorted(s, ring) \in [Server -> ThreadType] BY Zenon, ThreadsTyped DEF Sorted, Holds
      <3>3. out' \in OutType BY Zenon, <2>4, <1>0, <3>2 DEF OutType, Family
      <3> QED BY Zenon, <1>3, <2>4, <3>1, <3>3 DEF doit_iplistchange, TypeOK, OutType, Users
    <2> QED BY Zenon, <2>1, <2>2, <2>3, <2>4 DEF takeout_alldata
  <1>4. CASE takeout_end(s)
    <2>1. CASE Exit(s)
      BY Zenon, <1>4, <2>1, ExitTyped DEF takeout_end, Released, TypeOK, OutType, Users
    <2>2. CASE ~Exit(s)
      <3>1. [node[s] EXCEPT !.moving = FALSE] \in NodeType BY Zenon, <1>0 DEF NodeType
      <3>2. node' \in [Server -> NodeType] BY Zenon, <1>4, <2>2, <3>1, <1>0 DEF takeout_end, Released
      <3> QED BY Zenon, <1>4, <2>2, <3>2 DEF takeout_end, Released, TypeOK, Users
    <2> QED BY Zenon, <2>1, <2>2
  <1> QED BY Zenon, <1>1, <1>2, <1>3, <1>4

\* The threads that send.
LEMMA SendType ==
    ASSUME TypeOK, NEW s \in Server, NEW f \in Family, NEW d \in Server,
           \/ LateThread(s, f, d) \/ net_connect(s, f, d) \/ \E k \in Key : sendout_data(s, f, d, k)
    PROVE  TypeOK'
  <1>0. out[s][f][d] \in ThreadType /\ out[s][f][d].keys \in SUBSET Key BY DEF TypeOK, ThreadType
  <1>1. CASE LateThread(s, f, d)
    <2>1. out' \in OutType BY Zenon, <1>1, ThreadTyped, NoThreadTyped DEF LateThread
    <2> QED BY Zenon, <1>0, <1>1, <2>1 DEF LateThread, TypeOK, OutType, Control, Users
  <1>2. CASE net_connect(s, f, d)
    <2>1. [out[s][f][d] EXCEPT !.pc = "send"] \in ThreadType BY Zenon, <1>0 DEF ThreadType
    <2>2. (IF Up(d) THEN [out[s][f][d] EXCEPT !.pc = "send"] ELSE NoThread) \in ThreadType
      BY Zenon, <2>1, NoThreadTyped
    <2>3. out' = [out EXCEPT ![s][f][d] =
                    IF Up(d) THEN [out[s][f][d] EXCEPT !.pc = "send"] ELSE NoThread]
      BY Zenon, <1>2 DEF net_connect, TypeOK
    <2>4. out' \in OutType BY Zenon, <2>2, <2>3, ThreadTyped
    <2> QED BY Zenon, <1>0, <1>2, <2>4 DEF net_connect, TypeOK, OutType, Control, Users
  <1>3. ASSUME NEW k \in Key, sendout_data(s, f, d, k) PROVE TypeOK'
    <2> DEFINE cache == IF f = "move" THEN node[s].LC ELSE node[s].LC_BK
               rest == out[s][f][d].keys \ {k}
               m == Message(k, IF cache[k] = "real" THEN "real" ELSE "blank", FALSE)
    <2>1. [out[s][f][d] EXCEPT !.keys = rest] \in ThreadType BY Zenon, <1>0 DEF ThreadType
    <2>2. (IF rest = {} THEN NoThread ELSE [out[s][f][d] EXCEPT !.keys = rest]) \in ThreadType
      BY Zenon, <2>1, NoThreadTyped
    <2>3. out' = [out EXCEPT ![s][f][d] =
                    IF rest = {} THEN NoThread ELSE [out[s][f][d] EXCEPT !.keys = rest]]
      BY Zenon, <1>3 DEF sendout_data, TypeOK
    <2>4. out' \in OutType BY Zenon, <2>2, <2>3, ThreadTyped
    <2>5. m \in MessageType BY Zenon DEF Message, MessageType
    <2>6. inbox' \in [Server -> SUBSET MessageType]
      <3>1. Deliver(d, m) BY Zenon, <1>3 DEF sendout_data
      <3> HIDE DEF m
      <3> QED BY Zenon, <3>1, <2>5 DEF Deliver, TypeOK
    <2>7. raced' \in SUBSET Key BY Zenon, <1>3 DEF sendout_data, TypeOK
    <2> QED BY Zenon, <1>3, <2>4, <2>6, <2>7 DEF sendout_data, TypeOK, OutType, Control, Users
  <1> QED BY Zenon, <1>1, <1>2, <1>3

\* A change of one cache of a server.
LEMMA CacheTyped ==
    ASSUME TypeOK, NEW s \in Server, NEW k \in Key, NEW v \in {"absent", "real", "blank"}
    PROVE  /\ [node EXCEPT ![s].LC[k] = v] \in [Server -> NodeType]
           /\ [node EXCEPT ![s].LC_BK[k] = v] \in [Server -> NodeType]
  <1>1. node[s] \in NodeType BY Zenon DEF TypeOK
  <1>2. [node[s].LC EXCEPT ![k] = v] \in Caches /\ [node[s].LC_BK EXCEPT ![k] = v] \in Caches
    BY Zenon, <1>1 DEF NodeType, Caches
  <1>3. /\ [node[s] EXCEPT !.LC = [node[s].LC EXCEPT ![k] = v]] \in NodeType
        /\ [node[s] EXCEPT !.LC_BK = [node[s].LC_BK EXCEPT ![k] = v]] \in NodeType
    BY Zenon, <1>1, <1>2 DEF NodeType
  <1> QED BY Zenon, <1>3 DEF TypeOK

\* Puts, evictions and the client.
LEMMA RequestType ==
    ASSUME TypeOK,
           \/ \E s \in Server : \E m \in inbox[s] : kvrespond_handler(s, m)
           \/ \E s \in Server, k \in Key : Evict(s, k)
           \/ \E k \in Key : KeyValueWrite(k) \/ KeyValueRequest(k)
           \/ DistributionRequest \/ RequestLoop
    PROVE  TypeOK'
  <1>1. ASSUME NEW s \in Server, NEW m \in inbox[s], kvrespond_handler(s, m) PROVE TypeOK'
    <2>1. m \in MessageType /\ m.key \in Key /\ m.value \in {"real", "blank"} /\ m.bk \in BOOLEAN
      BY DEF TypeOK, MessageType
    <2>2. node' \in [Server -> NodeType] BY Zenon, <1>1, <2>1, CacheTyped DEF kvrespond_handler
    <2>3. Message(m.key, m.value, TRUE) \in MessageType BY Zenon, <2>1 DEF Message, MessageType
    <2>4. inbox' \in [Server -> SUBSET MessageType]
      BY Zenon, <1>1, <2>3 DEF kvrespond_handler, TypeOK
    <2>5. stored' \in SUBSET Key /\ raced' \in SUBSET Key
      BY Zenon, <1>1, <2>1 DEF kvrespond_handler, TypeOK
    <2> QED BY Zenon, <1>1, <2>2, <2>4, <2>5 DEF kvrespond_handler, TypeOK, Control, Users
  <1>2. ASSUME NEW s \in Server, NEW k \in Key, Evict(s, k) PROVE TypeOK'
    <2>1. \/ node' = [node EXCEPT ![s].LC[k] = "absent"]
          \/ node' = [node EXCEPT ![s].LC_BK[k] = "absent"]
      BY Zenon, <1>2 DEF Evict
    <2>3. node' \in [Server -> NodeType]
      <3>1. "absent" \in {"absent", "real", "blank"} BY Zenon
      <3>2. /\ [node EXCEPT ![s].LC[k] = "absent"] \in [Server -> NodeType]
            /\ [node EXCEPT ![s].LC_BK[k] = "absent"] \in [Server -> NodeType]
        BY <3>1, CacheTyped, Zenon
      <3> QED BY <2>1, <3>2, Zenon
    <2>2. stored' \in SUBSET Key /\ raced' \in SUBSET Key BY Zenon, <1>2 DEF Evict, TypeOK
    <2> QED BY Zenon, <1>2, <2>3, <2>2 DEF Evict, TypeOK, Control, Users
  <1>3. ASSUME NEW k \in Key, KeyValueWrite(k) PROVE TypeOK'
    <2>1. Message(k, "real", FALSE) \in MessageType BY Zenon DEF Message, MessageType
    <2>2. inbox' \in [Server -> SUBSET MessageType]
      BY Zenon, <1>3, <2>1 DEF KeyValueWrite, Deliver, TypeOK
    <2> QED BY Zenon, <1>3, <2>2 DEF KeyValueWrite, TypeOK, Control, History
  <1>4. ASSUME NEW k \in Key, KeyValueRequest(k) PROVE TypeOK'
    <2>1. client' \in ClientType
      <3>1. client \in ClientType BY Zenon DEF TypeOK
      <3>2. 0 \in 0..GiveUp BY ClusterAssumption
      <3>3. client' = [client EXCEPT !.key = k, !.misses = 0] BY Zenon, <1>4 DEF KeyValueRequest
      <3> QED BY Zenon, <3>1, <3>2, <3>3 DEF ClientType
    <2> QED BY Zenon, <1>4, <2>1 DEF KeyValueRequest, TypeOK, Control, History
  <1>5. CASE DistributionRequest
    <2>1. client' \in ClientType BY Zenon, <1>5 DEF DistributionRequest, TypeOK, ClientType
    <2> QED BY Zenon, <1>5, <2>1 DEF DistributionRequest, TypeOK, Control, History
  <1>6. CASE RequestLoop
    <2>1. client \in ClientType /\ listed \in SUBSET Server BY Zenon DEF TypeOK
    <2>2. client.misses + 1 \in 0..GiveUp
      BY <1>6, <2>1, ClusterAssumption DEF RequestLoop, ClientType
    <2>3. client' \in ClientType BY Zenon, <1>6, <2>1, <2>2 DEF RequestLoop, Ask, ClientType
    <2> QED BY Zenon, <1>6, <2>3 DEF RequestLoop, Ask, TypeOK, Control, History
  <1> QED BY Zenon, <1>1, <1>2, <1>3, <1>4, <1>5, <1>6

\* Every step keeps the types.
LEMMA TypeStep ==
    ASSUME TypeOK, [Next]_vars
    PROVE  TypeOK'
  <1>1. CASE UNCHANGED vars BY Zenon, <1>1 DEF vars, TypeOK
  <1>2. CASE Next
    BY Zenon, <1>2, MasterType, HandlerType, SendType, RequestType DEF Next, Works
  <1> QED BY Zenon, <1>1, <1>2

\* The processes, their threads, messages and caches have their types throughout.
THEOREM ClusterTypeCorrect == Spec => []TypeOK
BY InitType, TypeStep, PTL DEF Spec
-----------------------------------------------------------------------------
(* What the steps do to a server.                                          *)
SameState(s) ==
    /\ node'[s].run = node[s].run /\ node'[s].list = node[s].list /\ node'[s].ring = node[s].ring
    /\ node'[s].exit_flag = node[s].exit_flag /\ node'[s].waiting = node[s].waiting
    /\ node'[s].moving = node[s].moving /\ node'[s].exits = node[s].exits
    /\ node'[s].stopped = node[s].stopped

\* The fields of a server that has just started or has ended.
LEMMA FreshFields ==
    ASSUME NEW run, NEW ring, NEW list
    PROVE  LET n == Fresh(run, ring, list)
           IN  /\ n.list = list /\ n.ring = ring /\ ~n.exit_flag
               /\ n.waiting = 0 /\ ~n.moving /\ ~n.exits /\ ~n.stopped
               /\ n.LC = Empty /\ n.LC_BK = Empty
BY Zenon DEF Fresh

\* The fields after the handler of ADD_CACHE or SHUTDOWN_CACHE.
LEMMA ToldFields ==
    ASSUME TypeOK, NEW s \in Server, NEW down
    PROVE  LET n == Told(s, down)
           IN  /\ n.run = node[s].run /\ n.list = listed /\ n.ring = node[s].ring
               /\ n.waiting = node[s].waiting + 1
               /\ n.moving = node[s].moving /\ n.exits = node[s].exits
               /\ n.LC = node[s].LC /\ n.LC_BK = node[s].LC_BK
  <1>1. node[s] \in NodeType BY Zenon DEF TypeOK
  <1> QED BY Zenon, <1>1 DEF Told, NodeType

\* The same for the two values of down.
LEMMA ToldAny ==
    ASSUME TypeOK, NEW s \in Server, NEW n, n = Told(s, TRUE) \/ n = Told(s, FALSE)
    PROVE  /\ n.run = node[s].run /\ n.list = listed /\ n.ring = node[s].ring
           /\ n.waiting = node[s].waiting + 1
           /\ n.moving = node[s].moving /\ n.exits = node[s].exits
           /\ n.LC = node[s].LC /\ n.LC_BK = node[s].LC_BK
  <1>1. CASE n = Told(s, TRUE) BY <1>1, ToldFields, Zenon
  <1>2. CASE n = Told(s, FALSE) BY <1>2, ToldFields, Zenon
  <1> QED BY Zenon, <1>1, <1>2

\* Only SHUTDOWN_CACHE sets exit_flag and ends the heartbeats.
LEMMA ToldStopped ==
    ASSUME TypeOK, NEW s \in Server
    PROVE  /\ Told(s, TRUE).exit_flag /\ Told(s, TRUE).stopped
           /\ ~Told(s, FALSE).exit_flag /\ ~Told(s, FALSE).stopped
  <1>1. node[s] \in NodeType BY Zenon DEF TypeOK
  <1> QED BY Zenon, <1>1 DEF Told, NodeType

\* The fields after reflesh_handler: the ring is new and the orphans it owns are in LC.
LEMMA RefreshedFields ==
    ASSUME TypeOK, NEW s \in Server
    PROVE  LET n == Refreshed(s)
           IN  /\ n.run = node[s].run /\ n.list = listed /\ n.ring = listed
               /\ n.exit_flag = node[s].exit_flag /\ n.waiting = node[s].waiting
               /\ n.moving = node[s].moving /\ n.exits = node[s].exits
               /\ n.stopped = node[s].stopped /\ n.LC_BK = node[s].LC_BK
               /\ n.LC = [k \in Key |-> IF k \in Adopted(s) THEN node[s].LC_BK[k] ELSE node[s].LC[k]]
  <1>1. node[s] \in NodeType BY Zenon DEF TypeOK
  <1> QED BY Zenon, <1>1 DEF Refreshed, NodeType

\* The fields after organize_data has sorted the keys by the new ring.
LEMMA MovesFields ==
    ASSUME TypeOK, NEW s \in Server, NEW ring
    PROVE  LET n == Moves(s, ring)
           IN  /\ n.run = node[s].run /\ n.list = node[s].list /\ n.ring = ring
               /\ n.exit_flag = node[s].exit_flag /\ n.waiting = node[s].waiting - 1
               /\ (n.moving <=> Sorted(s, ring) # Quiet["move"]) /\ n.exits = node[s].exit_flag
               /\ n.stopped = node[s].stopped /\ n.LC = node[s].LC /\ n.LC_BK = node[s].LC_BK
  <1>1. node[s] \in NodeType BY Zenon DEF TypeOK
  <1> QED BY Zenon, <1>1 DEF Moves, NodeType

\* A process that ends, and the others.
LEMMA GoneFields ==
    ASSUME TypeOK, NEW s \in Server, Gone(s)
    PROVE  /\ node'[s] = Fresh(FALSE, {}, {}) /\ out'[s] = Quiet /\ inbox'[s] = {} /\ owed'[s] = None
           /\ \A t \in Server \ {s} : /\ node'[t] = node[t] /\ out'[t] = out[t]
                                      /\ inbox'[t] = inbox[t] /\ owed'[t] = owed[t]
BY Zenon DEF TypeOK, Gone

\* The step writes v for k in LC of s, or in LC_BK of s, and nothing else there.
OnlyLC(s, k, v) ==
    /\ \A t \in Server : SameState(t) /\ node'[t].LC_BK = node[t].LC_BK
    /\ node'[s].LC[k] = v
    /\ \A t \in Server, j \in Key : t # s \/ j # k => node'[t].LC[j] = node[t].LC[j]
OnlyBK(s, k, v) ==
    /\ \A t \in Server : SameState(t) /\ node'[t].LC = node[t].LC
    /\ node'[s].LC_BK[k] = v
    /\ \A t \in Server, j \in Key : t # s \/ j # k => node'[t].LC_BK[j] = node[t].LC_BK[j]

\* A put or an eviction.
LEMMA CacheFields ==
    ASSUME TypeOK, NEW s \in Server, NEW k \in Key, NEW v
    PROVE  /\ node' = [node EXCEPT ![s].LC[k] = v] => OnlyLC(s, k, v)
           /\ node' = [node EXCEPT ![s].LC_BK[k] = v] => OnlyBK(s, k, v)
  <1>0. node[s] \in NodeType /\ node[s].LC \in Caches /\ node[s].LC_BK \in Caches
    BY Zenon DEF TypeOK, NodeType
  <1>1. ASSUME node' = [node EXCEPT ![s].LC[k] = v]
        PROVE  OnlyLC(s, k, v)
    <2>1. /\ \A t \in Server \ {s} : node'[t] = node[t]
          /\ node'[s] = [node[s] EXCEPT !.LC = [node[s].LC EXCEPT ![k] = v]]
      BY Zenon, <1>1 DEF TypeOK
    <2>2. /\ SameState(s) /\ node'[s].LC_BK = node[s].LC_BK
          /\ node'[s].LC = [node[s].LC EXCEPT ![k] = v]
      BY Zenon, <1>0, <2>1 DEF NodeType, SameState
    <2>3. \A t \in Server : SameState(t) /\ node'[t].LC_BK = node[t].LC_BK
      BY Zenon, <2>1, <2>2 DEF SameState
    <2>4. node'[s].LC[k] = v /\ \A j \in Key \ {k} : node'[s].LC[j] = node[s].LC[j]
      BY Zenon, <1>0, <2>2 DEF Caches
    <2> QED BY Zenon, <2>1, <2>3, <2>4 DEF OnlyLC
  <1>2. ASSUME node' = [node EXCEPT ![s].LC_BK[k] = v]
        PROVE  OnlyBK(s, k, v)
    <2>1. /\ \A t \in Server \ {s} : node'[t] = node[t]
          /\ node'[s] = [node[s] EXCEPT !.LC_BK = [node[s].LC_BK EXCEPT ![k] = v]]
      BY Zenon, <1>2 DEF TypeOK
    <2>2. /\ SameState(s) /\ node'[s].LC = node[s].LC
          /\ node'[s].LC_BK = [node[s].LC_BK EXCEPT ![k] = v]
      BY Zenon, <1>0, <2>1 DEF NodeType, SameState
    <2>3. \A t \in Server : SameState(t) /\ node'[t].LC = node[t].LC
      BY Zenon, <2>1, <2>2 DEF SameState
    <2>4. node'[s].LC_BK[k] = v /\ \A j \in Key \ {k} : node'[s].LC_BK[j] = node[s].LC_BK[j]
      BY Zenon, <1>0, <2>2 DEF Caches
    <2> QED BY Zenon, <2>1, <2>3, <2>4 DEF OnlyBK
  <1> QED BY Zenon, <1>1, <1>2

\* A thread that sends, and the other threads.
LEMMA OutFields ==
    ASSUME TypeOK, NEW s \in Server, NEW f \in Family, NEW d \in Server, NEW v,
           out' = [out EXCEPT ![s][f][d] = v]
    PROVE  /\ out'[s][f][d] = v
           /\ \A t, e \in Server, g \in Family :
                 t # s \/ g # f \/ e # d => out'[t][g][e] = out[t][g][e]
           /\ \A t \in Server, g \in Family : t # s \/ g # f => out'[t][g] = out[t][g]
           /\ \A t \in Server : t # s => out'[t] = out[t]
  <1>1. out[s] \in [Family -> [Server -> ThreadType]] /\ out[s][f] \in [Server -> ThreadType]
    BY Zenon DEF TypeOK
  <1> QED BY Zenon, <1>1 DEF TypeOK

\* The threads of organize_data and reflesh_handler.
LEMMA ThreadsFields ==
    ASSUME NEW s \in Server, NEW keys \in SUBSET Key, NEW ring
    PROVE  /\ \A d \in Server : Threads(s, keys, ring)[d].keys \subseteq keys
           /\ \A k \in keys : LET d == GetServerIndex(k, ring)
                              IN  d \in Server /\ d # s => k \in Threads(s, keys, ring)[d].keys
BY Zenon DEF Threads, NoThread

\* A server without threads has nothing to send.
LEMMA QuietFields ==
    \A f \in Family, d \in Server : Quiet[f][d].pc = "none" /\ Quiet[f][d].keys = {}
BY Zenon DEF Quiet, NoThread
-----------------------------------------------------------------------------
(* Processes.                                                              *)
\* At the start no command is owed and no thread runs.
LEMMA InitProcesses == Init => Processes
  <1> SUFFICES ASSUME Init, NEW s \in Server PROVE Process(s) BY Zenon DEF Processes
  <1>1. /\ node[s].run <=> s \in Initial
        /\ node[s].waiting = 0 /\ ~node[s].exit_flag /\ ~node[s].moving /\ ~node[s].exits
        /\ ~node[s].stopped
    BY Zenon DEF Init, Fresh
  <1>2. owed[s] = None /\ out[s] = Quiet /\ inbox[s] = {} /\ listed = Initial BY Zenon DEF Init
  <1>3. None \notin Command BY Zenon, ClusterAssumption
  <1> QED BY <1>1, <1>2, <1>3 DEF Process, Up, Command

\* A server that a step leaves alone, up to messages and caches.
LEMMA ProcessSame ==
    ASSUME NEW s \in Server, Process(s), SameState(s), owed'[s] = owed[s], listed' = listed,
           ~Up(s) => out'[s] = out[s] /\ inbox'[s] = inbox[s],
           ~node[s].moving => out'[s]["move"] = out[s]["move"]
    PROVE  Process(s)'
BY Zenon DEF Process, SameState, Up

\* A process that ends leaves nothing behind.
LEMMA ProcessGone ==
    ASSUME TypeOK, Processes, NEW s \in Server, Gone(s), listed' = listed
    PROVE  Processes'
  <1>1. Process(s)'
    <2>1. /\ ~Up(s)' /\ ~node'[s].exit_flag /\ ~node'[s].moving /\ ~node'[s].exits
          /\ ~node'[s].stopped /\ node'[s].waiting = 0
      BY GoneFields DEF Up, Fresh
    <2>2. out'[s] = Quiet /\ inbox'[s] = {} /\ owed'[s] = None BY Zenon, GoneFields
    <2> QED BY <2>1, <2>2, ClusterAssumption DEF Process, Command
  <1>2. ASSUME NEW t \in Server \ {s} PROVE Process(t)'
    BY Zenon, <1>2, GoneFields, ProcessSame DEF Processes, SameState
  <1> QED BY Zenon, <1>1, <1>2 DEF Processes

\* Joins, shutdowns and crashes as the master sees them.
LEMMA ProcessesMaster ==
    ASSUME TypeOK, Processes, NEW s \in Server,
           Join(s) \/ ShutdownRequest(s) \/ Shrink(s) \/ Crash(s)
    PROVE  Processes'
  <1> SUFFICES ASSUME NEW t \in Server, ~Crash(s) PROVE Process(t)'
    BY Zenon, ProcessGone DEF Crash, Processes
  <1>0. /\ None \notin Command /\ Process(t) /\ owed[t] = None /\ Process(s)
        /\ \A u \in Server : owed[u] = None
    BY Zenon, ClusterAssumption DEF Processes, Join, ShutdownRequest, Shrink, Settled
  <1>1. CASE Join(s)
    <2>1. /\ out' = out /\ inbox' = inbox /\ listed' = listed \cup {s}
          /\ owed'[t] = IF t = s \/ (t \in listed /\ Up(t)) THEN "ADD_CACHE" ELSE None
          /\ ~Up(s) /\ s \notin listed
      BY Zenon, <1>1 DEF Join
    <2>2. CASE t = s
      <3>1. node'[t] = Fresh(TRUE, {s}, {}) BY Zenon, <1>1, <2>2 DEF Join, TypeOK
      <3>2. /\ Up(s)' /\ ~node'[s].exit_flag /\ ~node'[s].moving /\ ~node'[s].exits
            /\ ~node'[s].stopped /\ node'[s].waiting = 0
        BY <2>2, <3>1 DEF Up, Fresh
      <3>3. out[s] = Quiet BY Zenon, <1>0, <2>1 DEF Process
      <3> QED BY <1>0, <2>1, <2>2, <3>2, <3>3 DEF Process, Command
    <2>3. CASE t # s
      <3>1. node'[t] = node[t] BY Zenon, <1>1, <2>3 DEF Join, TypeOK
      <3> QED BY Zenon, <1>0, <2>1, <2>3, <3>1 DEF Process, Up, Command
    <2> QED BY Zenon, <2>2, <2>3
  <1>2. CASE ShutdownRequest(s)
    <2>1. /\ node' = node /\ out' = out /\ inbox' = inbox /\ listed' = listed \ {s} /\ Up(s)
          /\ owed'[t] = IF t = s THEN "SHUTDOWN_CACHE"
                        ELSE IF t \in listed /\ Up(t) THEN "REFLESH_IP" ELSE None
          /\ s \in listed /\ listed # {s}
      BY Zenon, <1>2 DEF ShutdownRequest
    <2> QED BY Zenon, <1>0, <2>1 DEF Process, Up, Command
  <1>3. CASE Shrink(s)
    <2>1. /\ node' = node /\ out' = out /\ inbox' = inbox /\ listed' = listed \ {s} /\ ~Up(s)
          /\ owed'[t] = IF t \in listed /\ Up(t) THEN "REFLESH_IP" ELSE None
      BY Zenon, <1>3 DEF Shrink
    <2> QED BY Zenon, <1>0, <2>1 DEF Process, Up, Command
  <1> QED BY Zenon, <1>1, <1>2, <1>3

\* The handlers of a server's commands, and its transfer thread.
LEMMA ProcessesHandler ==
    ASSUME TypeOK, Processes, NEW s \in Server,
           \/ \E command \in {"ADD_CACHE", "SHUTDOWN_CACHE"} : ListHandler(s, command)
           \/ reflesh_handler(s) \/ doit_iplistchange(s) \/ takeout_end(s)
    PROVE  Processes'
  <1>0. /\ None \notin Command /\ Process(s) /\ node[s].waiting \in Nat
        /\ node[s].exits \in BOOLEAN /\ node[s].stopped \in BOOLEAN /\ node[s].moving \in BOOLEAN
        /\ node[s].exit_flag \in BOOLEAN
    BY Zenon, ClusterAssumption DEF Processes, TypeOK, NodeType
  <1>1. ASSUME NEW command \in {"ADD_CACHE", "SHUTDOWN_CACHE"}, ListHandler(s, command)
        PROVE  Processes'
    <2> DEFINE down == command = "SHUTDOWN_CACHE"
    <2>0. node'[s] = Told(s, down) BY Zenon, <1>1 DEF ListHandler, TypeOK
    <2>1. /\ owed'[s] = None /\ owed[s] = command
          /\ Up(s) /\ ~node[s].stopped /\ out' = out /\ inbox' = inbox /\ listed' = listed
          /\ \A t \in Server \ {s} : node'[t] = node[t] /\ owed'[t] = owed[t]
      BY Zenon, <1>1 DEF ListHandler, Commanded, TypeOK
    <2>2. down \in BOOLEAN BY Zenon
    <2>3. Process(s)'
      <3>1. CASE command = "ADD_CACHE"
        <4>1. node'[s] = Told(s, FALSE) BY Zenon, <2>0, <3>1
        <4>2. ~node'[s].exit_flag /\ ~node'[s].stopped BY <4>1, ToldStopped, Zenon
        <4>3. /\ node'[s].run = node[s].run /\ node'[s].list = listed
              /\ node'[s].waiting = node[s].waiting + 1 /\ node'[s].moving = node[s].moving
              /\ node'[s].exits = node[s].exits
          BY Zenon, <4>1, ToldAny
        <4> QED BY Zenon, <1>0, <2>1, <3>1, <4>2, <4>3 DEF Process, Up, Command
      <3>2. CASE command = "SHUTDOWN_CACHE"
        <4>1. node'[s] = Told(s, TRUE) BY Zenon, <2>0, <3>2
        <4>2. node'[s].exit_flag /\ node'[s].stopped BY <4>1, ToldStopped, Zenon
        <4>3. /\ node'[s].run = node[s].run /\ node'[s].list = listed
              /\ node'[s].waiting = node[s].waiting + 1 /\ node'[s].moving = node[s].moving
              /\ node'[s].exits = node[s].exits
          BY Zenon, <4>1, ToldAny
        <4> QED BY <1>0, <2>1, <3>2, <4>2, <4>3 DEF Process, Up, Command
      <3> QED BY Zenon, <3>1, <3>2
    <2>4. ASSUME NEW t \in Server \ {s} PROVE Process(t)'
      BY Zenon, <2>1, ProcessSame DEF Processes, SameState
    <2> QED BY Zenon, <2>3, <2>4 DEF Processes
  <1>2. CASE reflesh_handler(s)
    <2>0. CASE Gone(s) BY Zenon, <1>2, <2>0, ProcessGone DEF reflesh_handler
    <2>1. CASE ~Gone(s)
      <3>1. /\ node'[s] = Refreshed(s) /\ owed'[s] = None /\ owed[s] = "REFLESH_IP"
            /\ Up(s) /\ ~node[s].stopped /\ inbox' = inbox /\ listed' = listed
            /\ \A t \in Server \ {s} : node'[t] = node[t] /\ owed'[t] = owed[t] /\ out'[t] = out[t]
        BY Zenon, <1>2, <2>1 DEF reflesh_handler, Commanded, TypeOK
      <3>2. out'[s]["move"] = out[s]["move"]
        BY Zenon, <1>2, <2>1 DEF reflesh_handler, TypeOK, Family
      <3>3. Process(s)' BY ZenonT(30), <1>0, <3>1, <3>2, RefreshedFields DEF Process, Up, Command
      <3>4. ASSUME NEW t \in Server \ {s} PROVE Process(t)'
        BY Zenon, <3>1, ProcessSame DEF Processes, SameState
      <3> QED BY Zenon, <3>3, <3>4 DEF Processes
    <2> QED BY Zenon, <2>0, <2>1
  <1>3. CASE doit_iplistchange(s)
    <2>1. CASE Gone(s) BY Zenon, <1>3, <2>1, ProcessGone DEF doit_iplistchange
    <2>2. CASE ~Gone(s)
      <3>1. PICK ring : /\ node' = [node EXCEPT ![s] = Moves(s, ring)]
                        /\ out' = [out EXCEPT ![s]["move"] = Sorted(s, ring)]
                        /\ ~(Sorted(s, ring) = Quiet["move"] /\ node[s].exit_flag)
                        /\ inbox' = inbox /\ owed' = owed /\ listed' = listed
        BY Zenon, <1>3, <2>2 DEF doit_iplistchange, takeout_alldata, Exit
      <3>2. Up(s) /\ node[s].waiting > 0 BY Zenon, <1>3 DEF doit_iplistchange
      <3>3. /\ node'[s] = Moves(s, ring) /\ out'[s]["move"] = Sorted(s, ring)
            /\ \A t \in Server \ {s} : node'[t] = node[t] /\ out'[t] = out[t]
        BY Zenon, <3>1 DEF TypeOK, Family
      <3>4. Process(s)'
        <4>1. node'[s].moving <=> out'[s]["move"] # Quiet["move"] BY <3>3, MovesFields
        <4>2. node'[s].exits => node'[s].moving BY SMT, Z3, <3>1, <3>3, <4>1, MovesFields
        <4>3. /\ node'[s].run = node[s].run /\ node'[s].list = node[s].list
              /\ node'[s].exit_flag = node[s].exit_flag /\ node'[s].waiting = node[s].waiting - 1
              /\ node'[s].exits = node[s].exit_flag /\ node'[s].stopped = node[s].stopped
          BY <3>3, MovesFields
        <4>4. owed'[s] = owed[s] /\ inbox'[s] = inbox[s] /\ listed' = listed BY Zenon, <3>1
        <4>5. node'[s].waiting > 0 => node[s].waiting > 0 BY Zenon, <3>2
        <4> QED BY Zenon, <1>0, <3>2, <4>1, <4>2, <4>3, <4>4, <4>5 DEF Process, Up
      <3>5. ASSUME NEW t \in Server \ {s} PROVE Process(t)'
        BY Zenon, <3>1, <3>3, ProcessSame DEF Processes, SameState
      <3> QED BY Zenon, <3>4, <3>5 DEF Processes
    <2> QED BY Zenon, <2>1, <2>2
  <1>4. CASE takeout_end(s)
    <2>1. CASE node[s].exits
      BY Zenon, <1>4, <2>1, ProcessGone DEF takeout_end, Released, Exit
    <2>2. CASE ~node[s].exits
      <3>1. /\ node' = [node EXCEPT ![s].moving = FALSE] /\ out' = out /\ inbox' = inbox
            /\ owed' = owed /\ listed' = listed /\ out[s]["move"] = Quiet["move"]
        BY Zenon, <1>4, <2>2 DEF takeout_end, Released
      <3>2. /\ node'[s] = [node[s] EXCEPT !.moving = FALSE]
            /\ \A t \in Server \ {s} : node'[t] = node[t]
        BY Zenon, <3>1 DEF TypeOK
      <3>3. node[s] \in NodeType BY Zenon DEF TypeOK
      <3>4. /\ Up(s)' = Up(s) /\ node'[s].list = node[s].list /\ node'[s].moving = FALSE
            /\ node'[s].exit_flag = node[s].exit_flag /\ node'[s].waiting = node[s].waiting
            /\ node'[s].exits = node[s].exits /\ node'[s].stopped = node[s].stopped
        BY Zenon, <3>2, <3>3 DEF NodeType, Up
      <3>5. Process(s)' BY Zenon, <1>0, <2>2, <3>1, <3>4 DEF Process
      <3>6. ASSUME NEW t \in Server \ {s} PROVE Process(t)'
        BY Zenon, <3>1, <3>2, ProcessSame DEF Processes, SameState
      <3> QED BY Zenon, <3>5, <3>6 DEF Processes
    <2> QED BY Zenon, <2>1, <2>2
  <1> QED BY Zenon, <1>1, <1>2, <1>3, <1>4

\* A message reaches a running server and nobody else.
LEMMA DeliverFields ==
    ASSUME TypeOK, NEW d, NEW m, Deliver(d, m)
    PROVE  /\ \A t \in Server : /\ inbox[t] \subseteq inbox'[t]
                                /\ ~Up(t) => inbox'[t] = inbox[t]
                                /\ \A x \in inbox'[t] : x \in inbox[t] \/ x = m
           /\ d \in Server /\ Up(d) => m \in inbox'[d]
BY Zenon DEF Deliver, TypeOK

\* The steps of the threads that send: which thread changes, which keys it still has,
\* and the message it sent.
LEMMA SendFields ==
    ASSUME TypeOK, Processes, NEW s \in Server, NEW f \in Family, NEW d \in Server,
           \/ LateThread(s, f, d) \/ net_connect(s, f, d) \/ \E k \in Key : sendout_data(s, f, d, k)
    PROVE  /\ node' = node /\ listed' = listed /\ owed' = owed /\ prefer' = prefer
           /\ stored' = stored /\ raced \subseteq raced'
           /\ Up(s) /\ (f = "move" => node[s].moving)
           /\ \A t \in Server \ {s} : out'[t] = out[t]
           /\ \A g \in Family : g # f => out'[s][g] = out[s][g]
           /\ \A t, e \in Server, g \in Family :
                 /\ out'[t][g][e].keys \subseteq out[t][g][e].keys
                 /\ t # s \/ g # f \/ e # d => out'[t][g][e] = out[t][g][e]
           /\ \A t \in Server : inbox[t] \subseteq inbox'[t] /\ (~Up(t) => inbox'[t] = inbox[t])
  <1>1. out[s][f][d].pc # "none" BY Zenon DEF LateThread, net_connect, sendout_data
  <1>2. Up(s) /\ (f = "move" => node[s].moving)
    BY <1>1, QuietFields DEF Processes, Process
  <1>3. /\ node' = node /\ listed' = listed /\ owed' = owed /\ prefer' = prefer
        /\ stored' = stored /\ raced \subseteq raced'
    BY Zenon DEF LateThread, net_connect, sendout_data, Hash, Control
  <1>4. PICK v : out' = [out EXCEPT ![s][f][d] = v] /\ v.keys \subseteq out[s][f][d].keys
    <2>0. out[s][f][d] \in ThreadType BY DEF TypeOK
    <2>1. CASE LateThread(s, f, d)
      <3>1. out' = [out EXCEPT ![s][f][d] = NoThread] BY Zenon, <2>1 DEF LateThread
      <3>2. NoThread.keys \subseteq out[s][f][d].keys BY Zenon DEF NoThread
      <3> QED BY Zenon, <3>1, <3>2
    <2>2. CASE net_connect(s, f, d)
      <3> DEFINE v == IF Up(d) THEN [out[s][f][d] EXCEPT !.pc = "send"] ELSE NoThread
      <3>1. out' = [out EXCEPT ![s][f][d] = v] BY Zenon, <2>2 DEF net_connect, TypeOK
      <3>2. v.keys \subseteq out[s][f][d].keys BY Zenon, <2>0 DEF ThreadType, NoThread
      <3> HIDE DEF v
      <3> QED BY Zenon, <3>1, <3>2
    <2>3. ASSUME NEW k \in Key, sendout_data(s, f, d, k)
          PROVE  \E v : out' = [out EXCEPT ![s][f][d] = v] /\ v.keys \subseteq out[s][f][d].keys
      <3> DEFINE rest == out[s][f][d].keys \ {k}
                 v == IF rest = {} THEN NoThread ELSE [out[s][f][d] EXCEPT !.keys = rest]
      <3>1. out' = [out EXCEPT ![s][f][d] = v] BY Zenon, <2>3 DEF sendout_data, TypeOK
      <3>2. v.keys \subseteq out[s][f][d].keys BY Zenon, <2>0 DEF ThreadType, NoThread
      <3> HIDE DEF v
      <3> QED BY Zenon, <3>1, <3>2
    <2> QED BY Zenon, <2>1, <2>2, <2>3
  <1>5. \A t \in Server : inbox[t] \subseteq inbox'[t] /\ (~Up(t) => inbox'[t] = inbox[t])
    <2>1. ASSUME NEW k \in Key, sendout_data(s, f, d, k)
          PROVE  \A t \in Server : inbox[t] \subseteq inbox'[t] /\ (~Up(t) => inbox'[t] = inbox[t])
      <3>1. PICK m : Deliver(d, m) BY Zenon, <2>1 DEF sendout_data
      <3> QED BY Zenon, <3>1, DeliverFields
    <2>2. CASE LateThread(s, f, d) \/ net_connect(s, f, d)
      BY Zenon, <2>2 DEF LateThread, net_connect
    <2> QED BY Zenon, <2>1, <2>2
  <1>6. /\ \A t \in Server \ {s} : out'[t] = out[t]
        /\ \A g \in Family : g # f => out'[s][g] = out[s][g]
        /\ out'[s][f][d] = v
        /\ \A t, e \in Server, g \in Family :
              t # s \/ g # f \/ e # d => out'[t][g][e] = out[t][g][e]
    <2>1. out' = [out EXCEPT ![s][f][d] = v] BY Zenon, <1>4
    <2>2. /\ out'[s][f][d] = v
          /\ \A t, e \in Server, g \in Family :
                t # s \/ g # f \/ e # d => out'[t][g][e] = out[t][g][e]
          /\ \A t \in Server, g \in Family : t # s \/ g # f => out'[t][g] = out[t][g]
          /\ \A t \in Server : t # s => out'[t] = out[t]
      BY <2>1, OutFields, Zenon
    <2> QED BY Zenon, <2>2
  <1>7. ASSUME NEW t \in Server, NEW e \in Server, NEW g \in Family
        PROVE  out'[t][g][e].keys \subseteq out[t][g][e].keys
    BY <1>4, <1>6
  <1> QED BY <1>2, <1>3, <1>5, <1>6, <1>7

\* The steps that change caches and messages only.
LEMMA PutFields ==
    ASSUME TypeOK, NEW s \in Server, NEW m \in inbox[s], kvrespond_handler(s, m)
    PROVE  /\ listed' = listed /\ owed' = owed /\ prefer' = prefer /\ out' = out
           /\ \A t \in Server : SameState(t) /\ (~Up(t) => inbox'[t] = inbox[t])
  <1>1. m.key \in Key BY DEF TypeOK, MessageType
  <1>2. Up(s) BY Zenon DEF kvrespond_handler
  <1>a. OnlyLC(s, m.key, m.value) \/ OnlyBK(s, m.key, m.value)
    BY Zenon, <1>1, CacheFields DEF kvrespond_handler
  <1>3. \A t \in Server : SameState(t) BY Zenon, <1>a DEF OnlyLC, OnlyBK
  <1> QED BY Zenon, <1>2, <1>3 DEF kvrespond_handler, Control, Hash

\* What an eviction changes besides the caches.
LEMMA EvictFields ==
    ASSUME TypeOK, NEW s \in Server, NEW k \in Key, Evict(s, k)
    PROVE  /\ listed' = listed /\ owed' = owed /\ prefer' = prefer /\ out' = out /\ inbox' = inbox
           /\ \A t \in Server : SameState(t)
  <1>1. \/ node' = [node EXCEPT ![s].LC[k] = "absent"]
        \/ node' = [node EXCEPT ![s].LC_BK[k] = "absent"]
    BY Zenon DEF Evict
  <1>a. OnlyLC(s, k, "absent") \/ OnlyBK(s, k, "absent") BY Zenon, <1>1, CacheFields
  <1>2. \A t \in Server : SameState(t) BY Zenon, <1>a DEF OnlyLC, OnlyBK
  <1> QED BY Zenon, <1>2 DEF Evict, Control, Hash

\* A client changes no server, and writes only real values.
LEMMA ClientFields ==
    ASSUME TypeOK,
           \/ \E k \in Key : KeyValueWrite(k) \/ KeyValueRequest(k)
           \/ DistributionRequest \/ RequestLoop
    PROVE  /\ listed' = listed /\ owed' = owed /\ prefer' = prefer /\ out' = out /\ node' = node
           /\ stored' = stored /\ raced' = raced
           /\ \A t \in Server : /\ inbox[t] \subseteq inbox'[t] /\ (~Up(t) => inbox'[t] = inbox[t])
                                /\ \A m \in inbox'[t] \ inbox[t] : m.value = "real" /\ ~m.bk
  <1>1. ASSUME NEW k \in Key, KeyValueWrite(k)
        PROVE  \A t \in Server : /\ inbox[t] \subseteq inbox'[t] /\ (~Up(t) => inbox'[t] = inbox[t])
                                 /\ \A m \in inbox'[t] \ inbox[t] : m.value = "real" /\ ~m.bk
    <2>1. Deliver(GetServerIndex(k, client.list), Message(k, "real", FALSE))
      BY Zenon, <1>1 DEF KeyValueWrite
    <2>2. Message(k, "real", FALSE).value = "real" /\ ~Message(k, "real", FALSE).bk BY Zenon DEF Message
    <2>3. PICK d, x : Deliver(d, x) /\ x.value = "real" /\ ~x.bk BY <2>1, <2>2, Zenon
    <2> QED BY <2>3, DeliverFields
  <1>2. ASSUME \/ \E k \in Key : KeyValueRequest(k)
               \/ DistributionRequest \/ RequestLoop
        PROVE  inbox' = inbox
    BY Zenon, <1>2 DEF KeyValueRequest, DistributionRequest, RequestLoop, Ask
  <1>3. /\ listed' = listed /\ owed' = owed /\ prefer' = prefer /\ out' = out /\ node' = node
        /\ stored' = stored /\ raced' = raced
    BY Zenon DEF KeyValueWrite, KeyValueRequest, DistributionRequest, RequestLoop, Ask, Hash, Control,
           History
  <1> QED BY Zenon, <1>1, <1>2, <1>3

\* Every step keeps Processes.
LEMMA ProcessesStep ==
    ASSUME TypeOK, Processes, [Next]_vars
    PROVE  Processes'
  <1>1. ASSUME NEW s \in Server, NEW f \in Family, NEW d \in Server,
               \/ LateThread(s, f, d) \/ net_connect(s, f, d)
               \/ \E k \in Key : sendout_data(s, f, d, k)
        PROVE  Processes'
    <2>1. ASSUME NEW t \in Server PROVE Process(t)'
      <3>1. SameState(t) /\ owed'[t] = owed[t] /\ listed' = listed /\ Process(t)
        BY Zenon, <1>1, SendFields DEF SameState, Processes
      <3>2. ~Up(t) => out'[t] = out[t] /\ inbox'[t] = inbox[t] BY Zenon, <1>1, SendFields
      <3>3. ~node[t].moving => out'[t]["move"] = out[t]["move"] BY Zenon, <1>1, SendFields DEF Family
      <3> QED BY Zenon, <3>1, <3>2, <3>3, ProcessSame
    <2> QED BY Zenon, <2>1 DEF Processes
  <1>2. ASSUME NEW s \in Server, NEW m \in inbox[s], kvrespond_handler(s, m) PROVE Processes'
    BY Zenon, <1>2, PutFields, ProcessSame DEF Processes
  <1>3. ASSUME NEW s \in Server, NEW k \in Key, Evict(s, k) PROVE Processes'
    BY Zenon, <1>3, EvictFields, ProcessSame DEF Processes
  <1>4. ASSUME \/ \E k \in Key : KeyValueWrite(k) \/ KeyValueRequest(k)
               \/ DistributionRequest \/ RequestLoop
        PROVE  Processes'
    BY Zenon, <1>4, ClientFields, ProcessSame DEF Processes, SameState
  <1>5. CASE UNCHANGED vars BY Zenon, <1>5, ProcessSame DEF vars, Processes, SameState
  <1> QED BY Zenon, <1>1, <1>2, <1>3, <1>4, <1>5, ProcessesMaster, ProcessesHandler DEF Next, Works
-----------------------------------------------------------------------------
(* What the handlers do, outside the cases in which all keys are raced.    *)
LEMMA ListEffect ==
    ASSUME TypeOK, NEW s \in Server, NEW command \in {"ADD_CACHE", "SHUTDOWN_CACHE"},
           ListHandler(s, command)
    PROVE  /\ owed[s] = command /\ owed'[s] = None /\ Up(s) /\ Up(s)'
           /\ out' = out /\ inbox' = inbox /\ listed' = listed /\ prefer' = prefer
           /\ stored' = stored /\ raced' = raced
           /\ node'[s].list = listed /\ node'[s].ring = node[s].ring
           /\ node'[s].waiting = node[s].waiting + 1 /\ node'[s].exits = node[s].exits
           /\ node'[s].LC = node[s].LC /\ node'[s].LC_BK = node[s].LC_BK
           /\ \A t \in Server \ {s} : node'[t] = node[t] /\ owed'[t] = owed[t]
  <1>1. node'[s] = Told(s, command = "SHUTDOWN_CACHE") BY Zenon DEF ListHandler, TypeOK
  <1>2. node'[s] = Told(s, TRUE) \/ node'[s] = Told(s, FALSE)
    <2>1. CASE command = "SHUTDOWN_CACHE" BY Zenon, <1>1, <2>1
    <2>2. CASE command # "SHUTDOWN_CACHE" BY Zenon, <1>1, <2>2
    <2> QED BY Zenon, <2>1, <2>2
  <1>3. /\ owed[s] = command /\ owed'[s] = None /\ Up(s)
        /\ out' = out /\ inbox' = inbox /\ listed' = listed /\ prefer' = prefer
        /\ stored' = stored /\ raced' = raced
        /\ \A t \in Server \ {s} : node'[t] = node[t] /\ owed'[t] = owed[t]
    BY Zenon DEF ListHandler, Commanded, TypeOK, Hash, History
  <1>4. /\ node'[s].run = node[s].run /\ node'[s].list = listed /\ node'[s].ring = node[s].ring
        /\ node'[s].waiting = node[s].waiting + 1 /\ node'[s].exits = node[s].exits
        /\ node'[s].LC = node[s].LC /\ node'[s].LC_BK = node[s].LC_BK
    BY Zenon, <1>2, ToldAny
  <1> QED BY Zenon, <1>3, <1>4 DEF Up

\* What reflesh_handler changes on a server with a ring.
LEMMA RefleshEffect ==
    ASSUME TypeOK, NEW s \in Server, reflesh_handler(s), node[s].ring # {}
    PROVE  /\ owed[s] = "REFLESH_IP" /\ owed'[s] = None /\ Up(s) /\ Up(s)'
           /\ inbox' = inbox /\ listed' = listed /\ prefer' = prefer /\ stored' = stored
           /\ raced' = raced \cup Unsent(s, "bk")
           /\ node'[s].list = listed /\ node'[s].ring = listed
           /\ node'[s].waiting = node[s].waiting /\ node'[s].exits = node[s].exits
           /\ node'[s].LC_BK = node[s].LC_BK
           /\ node'[s].LC = [k \in Key |-> IF k \in Adopted(s) THEN node[s].LC_BK[k]
                                                               ELSE node[s].LC[k]]
           /\ out'[s]["move"] = out[s]["move"]
           /\ out'[s]["bk"] = Threads(s, Orphans(s), listed)
           /\ \A t \in Server \ {s} : node'[t] = node[t] /\ owed'[t] = owed[t] /\ out'[t] = out[t]
  <1>1. /\ node' = [node EXCEPT ![s] = Refreshed(s)]
        /\ out' = [out EXCEPT ![s]["bk"] = Threads(s, Orphans(s), listed)] /\ inbox' = inbox
    BY Zenon DEF reflesh_handler
  <1>2. /\ owed[s] = "REFLESH_IP" /\ owed'[s] = None /\ Up(s)
        /\ listed' = listed /\ prefer' = prefer /\ stored' = stored
        /\ raced' = raced \cup Unsent(s, "bk")
        /\ \A t \in Server \ {s} : owed'[t] = owed[t]
    BY Zenon DEF reflesh_handler, Commanded, TypeOK, Hash
  <1>3. node'[s] = Refreshed(s) /\ \A t \in Server \ {s} : node'[t] = node[t] BY Zenon, <1>1 DEF TypeOK
  <1>4. /\ out'[s]["move"] = out[s]["move"] /\ out'[s]["bk"] = Threads(s, Orphans(s), listed)
        /\ \A t \in Server \ {s} : out'[t] = out[t]
    BY Zenon, <1>1 DEF TypeOK, Family
  <1> QED BY <1>1, <1>2, <1>3, <1>4, RefreshedFields DEF Up

\* What doit_iplistchange changes: it races, exits at once or starts the transfer.
LEMMA DoitEffect ==
    ASSUME TypeOK, Processes, NEW s \in Server, doit_iplistchange(s)
    PROVE  /\ listed' = listed /\ prefer' = prefer /\ stored' = stored
           /\ Up(s) /\ node[s].waiting > 0 /\ ~node[s].moving
           /\ \/ raced' = Key
              \/ /\ Exit(s) /\ node[s].stopped /\ Sorted(s, node[s].list) = Quiet["move"]
              \/ /\ Up(s)' /\ node'[s].list = node[s].list /\ node'[s].ring = node[s].list
                 /\ node'[s].waiting = node[s].waiting - 1
                 /\ node'[s].exits = node[s].exit_flag
                 /\ node'[s].LC = node[s].LC /\ node'[s].LC_BK = node[s].LC_BK
                 /\ out'[s]["move"] = Sorted(s, node[s].list) /\ out'[s]["bk"] = out[s]["bk"]
                 /\ inbox' = inbox /\ owed' = owed /\ raced' = raced
                 /\ \A t \in Server \ {s} : node'[t] = node[t] /\ out'[t] = out[t]
  <1>1. /\ listed' = listed /\ prefer' = prefer /\ stored' = stored
        /\ Up(s) /\ node[s].waiting > 0 /\ ~node[s].moving
    BY Zenon DEF doit_iplistchange, Hash
  <1>2. PICK ring \in {node[s].list} \cup (IF owed[s] = None THEN {} ELSE SUBSET listed) :
            takeout_alldata(s, ring)
    BY Zenon DEF doit_iplistchange
  <1>3. CASE Gone(s) /\ raced' = Key BY Zenon, <1>1, <1>3
  <1>4. CASE Sorted(s, ring) = Quiet["move"] /\ node[s].exit_flag /\ Exit(s)
    <2>1. node[s].stopped /\ owed[s] = None BY Zenon, <1>4 DEF Processes, Process
    <2>2. ring = node[s].list BY Zenon, <1>2, <2>1
    <2> QED BY Zenon, <1>1, <1>4, <2>1, <2>2
  <1>5. CASE /\ node' = [node EXCEPT ![s] = Moves(s, ring)]
             /\ out' = [out EXCEPT ![s]["move"] = Sorted(s, ring)]
             /\ raced' = IF ring = node[s].list THEN raced ELSE Key
             /\ inbox' = inbox /\ owed' = owed
    <2>1. CASE ring # node[s].list BY Zenon, <1>1, <1>5, <2>1
    <2>2. CASE ring = node[s].list
      <3>1. node'[s] = Moves(s, node[s].list) /\ \A t \in Server \ {s} : node'[t] = node[t]
        BY Zenon, <1>5, <2>2 DEF TypeOK
      <3>2. /\ out'[s]["move"] = Sorted(s, node[s].list) /\ out'[s]["bk"] = out[s]["bk"]
            /\ \A t \in Server \ {s} : out'[t] = out[t]
        BY Zenon, <1>5, <2>2 DEF TypeOK, Family
      <3>3. /\ node'[s].run = node[s].run /\ node'[s].list = node[s].list
            /\ node'[s].ring = node[s].list /\ node'[s].waiting = node[s].waiting - 1
            /\ node'[s].exits = node[s].exit_flag
            /\ node'[s].LC = node[s].LC /\ node'[s].LC_BK = node[s].LC_BK
        BY SMT, Z3, <3>1, MovesFields
      <3> QED BY Zenon, <1>1, <1>5, <2>2, <3>1, <3>2, <3>3 DEF Up
    <2> QED BY Zenon, <2>1, <2>2
  <1> QED BY Zenon, <1>2, <1>3, <1>4, <1>5 DEF takeout_alldata

\* What the end of a transfer changes: the server exits or releases the lock.
LEMMA TakeoutEffect ==
    ASSUME TypeOK, NEW s \in Server, takeout_end(s)
    PROVE  /\ listed' = listed /\ prefer' = prefer /\ stored' = stored
           /\ out[s]["move"] = Quiet["move"] /\ node[s].moving
           /\ \/ Exit(s) /\ node[s].exits
              \/ /\ ~node[s].exits /\ out' = out /\ inbox' = inbox /\ owed' = owed /\ raced' = raced
                 /\ node'[s].run = node[s].run /\ node'[s].list = node[s].list
                 /\ node'[s].ring = node[s].ring /\ node'[s].waiting = node[s].waiting
                 /\ node'[s].exits = node[s].exits
                 /\ node'[s].LC = node[s].LC /\ node'[s].LC_BK = node[s].LC_BK
                 /\ \A t \in Server \ {s} : node'[t] = node[t]
  <1>1. /\ listed' = listed /\ prefer' = prefer /\ stored' = stored
        /\ out[s]["move"] = Quiet["move"] /\ node[s].moving
    BY Zenon DEF takeout_end, Released, Hash
  <1>2. CASE node[s].exits BY Zenon, <1>1, <1>2 DEF takeout_end, Released
  <1>3. CASE ~node[s].exits
    <2>1. /\ node' = [node EXCEPT ![s].moving = FALSE] /\ out' = out /\ inbox' = inbox
          /\ owed' = owed /\ raced' = raced
      BY Zenon, <1>3 DEF takeout_end, Released
    <2>2. /\ node'[s] = [node[s] EXCEPT !.moving = FALSE]
          /\ \A t \in Server \ {s} : node'[t] = node[t]
      BY Zenon, <2>1 DEF TypeOK
    <2>3. node[s] \in NodeType BY Zenon DEF TypeOK
    <2>4. /\ node'[s].run = node[s].run /\ node'[s].list = node[s].list
          /\ node'[s].ring = node[s].ring /\ node'[s].waiting = node[s].waiting
          /\ node'[s].exits = node[s].exits
          /\ node'[s].LC = node[s].LC /\ node'[s].LC_BK = node[s].LC_BK
      BY Zenon, <2>2, <2>3 DEF NodeType
    <2> QED BY Zenon, <1>1, <1>3, <2>1, <2>2, <2>4
  <1> QED BY Zenon, <1>2, <1>3
-----------------------------------------------------------------------------
(* The steps of a server, the master and the client, as the proofs split   *)
(* them.                                                                   *)
Sends == \E s, d \in Server : \E f \in Family :
            LateThread(s, f, d) \/ net_connect(s, f, d) \/ \E k \in Key : sendout_data(s, f, d, k)
Lists == \E s \in Server, command \in {"ADD_CACHE", "SHUTDOWN_CACHE"} : ListHandler(s, command)
Puts == \E s \in Server : \E m \in inbox[s] : kvrespond_handler(s, m)
Evicts == \E s \in Server, k \in Key : Evict(s, k)
Clients == \/ \E k \in Key : KeyValueWrite(k) \/ KeyValueRequest(k)
           \/ DistributionRequest \/ RequestLoop

\* The steps, one kind each.
LEMMA Steps ==
    ASSUME Next
    PROVE  \/ \E s \in Server : \/ Join(s) \/ ShutdownRequest(s) \/ Shrink(s) \/ Crash(s)
                                \/ reflesh_handler(s) \/ doit_iplistchange(s) \/ takeout_end(s)
           \/ Lists \/ Sends \/ Puts \/ Evicts \/ Clients
BY Zenon DEF Next, Works, Sends, Lists, Puts, Evicts, Clients

\* A key that is raced once stays so.
LEMMA RacedGrows ==
    ASSUME TypeOK, Processes, [Next]_vars
    PROVE  raced \subseteq raced' /\ raced \subseteq Key /\ (raced' # Key => raced # Key)
  <1>0. raced \subseteq Key /\ raced' \subseteq Key BY Zenon, TypeStep DEF TypeOK
  <1> SUFFICES raced \subseteq raced' BY Zenon, <1>0
  <1>1. ASSUME NEW s \in Server, Join(s) \/ ShutdownRequest(s) \/ Shrink(s) \/ Crash(s)
        PROVE  raced \subseteq raced'
    BY Zenon, <1>1 DEF Join, ShutdownRequest, Shrink, Crash, History
  <1>2. ASSUME NEW s \in Server, reflesh_handler(s) PROVE raced \subseteq raced'
    BY Zenon, <1>2 DEF reflesh_handler
  <1>3. ASSUME NEW s \in Server, doit_iplistchange(s) PROVE raced \subseteq raced'
    BY Zenon, <1>0, <1>3, DoitEffect DEF Exit
  <1>4. ASSUME NEW s \in Server, takeout_end(s) PROVE raced \subseteq raced'
    BY Zenon, <1>4, TakeoutEffect DEF Exit
  <1>5. CASE Lists BY Zenon, <1>5, ListEffect DEF Lists
  <1>6. CASE Sends BY Zenon, <1>6, SendFields DEF Sends
  <1>7. CASE Puts BY Zenon, <1>7 DEF Puts, kvrespond_handler
  <1>8. CASE Evicts BY Zenon, <1>8 DEF Evicts, Evict
  <1>9. CASE Clients BY Zenon, <1>9, ClientFields DEF Clients
  <1>10. CASE UNCHANGED vars BY Zenon, <1>10 DEF vars
  <1> QED BY Zenon, <1>1, <1>2, <1>3, <1>4, <1>5, <1>6, <1>7, <1>8, <1>9, <1>10, Steps
-----------------------------------------------------------------------------
(* Rings.                                                                  *)
\* The initial servers know each other.
LEMMA InitRings == Init => Rings
  <1> SUFFICES ASSUME Init PROVE Rings BY Zenon
  <1>1. ASSUME NEW s \in Initial PROVE node[s].list = Initial /\ node[s].ring = Initial
    BY Zenon, <1>1, ClusterAssumption DEF Init, Fresh
  <1>2. ASSUME NEW s \in Server, Up(s) PROVE s \in Initial BY Zenon, <1>2 DEF Init, Fresh, Up
  <1>3. listed = Initial /\ \A s \in Server : owed[s] = None BY Zenon DEF Init
  <1>4. None \notin Command /\ Initial # {} /\ Initial \subseteq Server BY Zenon, ClusterAssumption
  <1> QED BY Zenon, <1>1, <1>2, <1>3, <1>4 DEF Rings, Knows, Command

\* The servers a step leaves alone.
LEMMA RingsSame ==
    ASSUME Rings, raced # Key, listed' = listed, NEW s \in Server,
           node'[s].run = node[s].run, node'[s].list = node[s].list, node'[s].ring = node[s].ring,
           node'[s].waiting = node[s].waiting, owed'[s] = owed[s]
    PROVE  Up(s)' => (s \in listed' => Knows(s)') /\ node'[s].ring # {}
BY ZenonT(30) DEF Rings, Knows, Up

\* Every step keeps the rings up to the list, or behind it by an owed command.
LEMMA RingsStep ==
    ASSUME TypeOK, Processes, Rings, [Next]_vars
    PROVE  Rings'
  <1> SUFFICES ASSUME raced' # Key, NEW t \in Server, Up(t)'
               PROVE  (t \in listed' => Knows(t)') /\ node'[t].ring # {}
    <2>1. listed' \subseteq Server BY Zenon, TypeStep DEF TypeOK
    <2> QED BY Zenon, <2>1 DEF Rings
  <1>0. /\ raced # Key /\ None \notin Command /\ Process(t)
        /\ Up(t) => (t \in listed => Knows(t)) /\ node[t].ring # {}
    BY Zenon, RacedGrows, ClusterAssumption DEF Rings, Processes
  <1>1. ASSUME NEW s \in Server, Join(s) PROVE (t \in listed' => Knows(t)') /\ node'[t].ring # {}
    <2>1. /\ owed'[t] = IF t = s \/ (t \in listed /\ Up(t)) THEN "ADD_CACHE" ELSE None
          /\ listed' = listed \cup {s}
      BY Zenon, <1>1 DEF Join
    <2>2. CASE t = s
      <3>1. node'[t].ring = {s} BY Zenon, <1>1, <2>2 DEF Join, TypeOK, Fresh
      <3> QED BY Zenon, <1>0, <2>1, <2>2, <3>1 DEF Knows, Command
    <2>3. CASE t # s
      <3>1. node'[t] = node[t] BY Zenon, <1>1, <2>3 DEF Join, TypeOK
      <3> QED BY Zenon, <1>0, <2>1, <2>3, <3>1 DEF Knows, Command, Up
    <2> QED BY Zenon, <2>2, <2>3
  <1>2. ASSUME NEW s \in Server, ShutdownRequest(s) \/ Shrink(s)
        PROVE  (t \in listed' => Knows(t)') /\ node'[t].ring # {}
    <2>1. node' = node /\ listed' = listed \ {s} /\ owed[t] = None
      BY Zenon, <1>2 DEF ShutdownRequest, Shrink, Settled
    <2>2. t \in listed' => owed'[t] = "REFLESH_IP"
      BY Zenon, <1>2, <2>1 DEF ShutdownRequest, Shrink, Up
    <2> QED BY Zenon, <1>0, <2>1, <2>2 DEF Knows, Command, Up
  <1>3. ASSUME NEW s \in Server, Gone(s), listed' = listed
        PROVE  (t \in listed' => Knows(t)') /\ node'[t].ring # {}
    <2>1. ~Up(s)' BY <1>3, GoneFields DEF Up, Fresh
    <2>2. t # s BY Zenon, <2>1
    <2>3. node'[t] = node[t] /\ owed'[t] = owed[t] BY Zenon, <1>3, <2>2, GoneFields
    <2> QED BY Zenon, <1>0, <1>3, <2>3, RingsSame
  <1>4. ASSUME NEW s \in Server, Crash(s)
        PROVE  (t \in listed' => Knows(t)') /\ node'[t].ring # {}
    BY Zenon, <1>3, <1>4 DEF Crash
  <1>5. CASE Lists
    <2>1. PICK s \in Server, command \in {"ADD_CACHE", "SHUTDOWN_CACHE"} : ListHandler(s, command)
      BY Zenon, <1>5 DEF Lists
    <2>2. CASE t # s
      <3>1. node'[t] = node[t] /\ owed'[t] = owed[t] /\ listed' = listed
        BY Zenon, <2>1, <2>2, ListEffect
      <3> QED BY Zenon, <1>0, <3>1, RingsSame
    <2>3. CASE t = s
      <3>1. node[s].waiting \in Nat BY Zenon DEF TypeOK, NodeType
      <3>2. /\ node'[t].waiting # 0 /\ node'[t].list = listed /\ listed' = listed
            /\ owed'[t] = None /\ node'[t].ring = node[t].ring /\ Up(t)
        BY <2>1, <2>3, <3>1, ListEffect
      <3> QED BY Zenon, <1>0, <3>2 DEF Knows, Command
    <2> QED BY Zenon, <2>2, <2>3
  <1>6. ASSUME NEW s \in Server, reflesh_handler(s)
        PROVE  (t \in listed' => Knows(t)') /\ node'[t].ring # {}
    <2>0. CASE node[s].ring = {}
      <3>1. Up(s) BY Zenon, <1>6 DEF reflesh_handler, Commanded
      <3> QED BY Zenon, <1>0, <2>0, <3>1 DEF Rings
    <2>1. CASE node[s].ring # {}
      <3>1. CASE t # s
        <4>1. node'[t] = node[t] /\ owed'[t] = owed[t] /\ listed' = listed
          BY ZenonT(30), <1>6, <2>1, <3>1, RefleshEffect
        <4> QED BY Zenon, <1>0, <4>1, RingsSame
      <3>2. CASE t = s
        <4>1. /\ owed'[t] = None /\ node'[t].list = listed /\ node'[t].ring = listed
              /\ listed' = listed /\ owed[t] = "REFLESH_IP"
          BY Zenon, <1>6, <2>1, <3>2, RefleshEffect
        <4>2. t \in listed BY Zenon, <1>0, <4>1 DEF Process
        <4> QED BY Zenon, <1>0, <4>1, <4>2 DEF Knows, Command
      <3> QED BY Zenon, <3>1, <3>2
    <2> QED BY Zenon, <2>0, <2>1
  <1>7. ASSUME NEW s \in Server, doit_iplistchange(s)
        PROVE  (t \in listed' => Knows(t)') /\ node'[t].ring # {}
    <2>1. CASE Exit(s) BY Zenon, <1>3, <1>7, <2>1, DoitEffect DEF Exit
    <2>2. CASE t # s /\ ~Exit(s)
      <3>1. node'[t] = node[t] /\ owed'[t] = owed[t] /\ listed' = listed
        BY Zenon, <1>7, <2>2, DoitEffect
      <3> QED BY Zenon, <1>0, <3>1, RingsSame
    <2>3. CASE t = s /\ ~Exit(s)
      <3>1. /\ node'[t].list = node[t].list /\ node'[t].ring = node[t].list /\ owed' = owed
            /\ listed' = listed /\ Up(t) /\ node[t].waiting > 0
        BY Zenon, <1>7, <2>3, DoitEffect
      <3>2. node[t].list # {} BY Zenon, <1>0, <3>1 DEF Process
      <3> QED BY Zenon, <1>0, <3>1, <3>2 DEF Knows
    <2> QED BY Zenon, <2>1, <2>2, <2>3
  <1>8. ASSUME NEW s \in Server, takeout_end(s)
        PROVE  (t \in listed' => Knows(t)') /\ node'[t].ring # {}
    <2>1. CASE Exit(s) BY Zenon, <1>3, <1>8, <2>1, TakeoutEffect DEF Exit
    <2>2. CASE ~Exit(s) BY ZenonT(30), <1>0, <1>8, <2>2, TakeoutEffect, RingsSame
    <2> QED BY Zenon, <2>1, <2>2
  <1>9. CASE Sends
    <2>1. node' = node /\ listed' = listed /\ owed' = owed BY Zenon, <1>9, SendFields DEF Sends
    <2> QED BY Zenon, <1>0, <2>1, RingsSame
  <1>10. CASE Puts BY Zenon, <1>0, <1>10, PutFields, RingsSame DEF Puts, SameState
  <1>11. CASE Evicts BY Zenon, <1>0, <1>11, EvictFields, RingsSame DEF Evicts, SameState
  <1>12. CASE Clients BY Zenon, <1>0, <1>12, ClientFields, RingsSame DEF Clients
  <1>13. CASE UNCHANGED vars BY Zenon, <1>0, <1>13, RingsSame DEF vars
  <1> QED BY Zenon, <1>1, <1>2, <1>4, <1>5, <1>6, <1>7, <1>8, <1>9, <1>10, <1>11, <1>12, <1>13, Steps
-----------------------------------------------------------------------------
(* Values.                                                                 *)

\* What a server has of k.
GenuineAt(k, s) ==
    /\ node[s].LC[k] # "blank" /\ node[s].LC_BK[k] # "blank"
    /\ \A m \in inbox[s] : m.key = k => m.value = "real"
    /\ \A d \in Server : /\ k \in out[s]["move"][d].keys => node[s].LC[k] = "real"
                         /\ k \in out[s]["bk"][d].keys => node[s].LC_BK[k] = "real"

\* At the start there is no value.
LEMMA InitValues == Init => Values
  <1> SUFFICES ASSUME Init, NEW k \in Key, NEW s \in Server PROVE GenuineAt(k, s)
    BY Zenon DEF Values, Genuine, GenuineAt
  <1>1. node[s].LC = Empty /\ node[s].LC_BK = Empty BY Zenon DEF Init, Fresh
  <1>2. out[s] = Quiet /\ inbox[s] = {} BY Zenon DEF Init
  <1> QED BY Zenon, <1>1, <1>2, QuietFields DEF Empty, GenuineAt, Family

\* A server that keeps its values of k, gets only real ones and sends no more than before.
LEMMA GenuineSame ==
    ASSUME NEW k \in Key, NEW s \in Server, GenuineAt(k, s), node'[s].LC[k] = node[s].LC[k],
           node'[s].LC_BK[k] = node[s].LC_BK[k],
           \A m \in inbox'[s] : m \in inbox[s] \/ (m.key = k => m.value = "real"),
           \A f \in Family, d \in Server : out'[s][f][d].keys \subseteq out[s][f][d].keys
    PROVE  GenuineAt(k, s)'
BY Zenon DEF GenuineAt, Family

\* A server without values.
LEMMA GenuineEmpty ==
    ASSUME NEW k \in Key, NEW s \in Server, node'[s].LC = Empty, node'[s].LC_BK = Empty,
           inbox'[s] = {}, out'[s] = Quiet
    PROVE  GenuineAt(k, s)'
BY Zenon, QuietFields DEF GenuineAt, Empty, Family

\* A process that ends changes no value of others.
LEMMA GenuineGone ==
    ASSUME TypeOK, NEW k \in Key, \A t \in Server : GenuineAt(k, t), NEW s \in Server, Gone(s)
    PROVE  \A t \in Server : GenuineAt(k, t)'
  <1>1. GenuineAt(k, s)'
    <2>1. node'[s].LC = Empty /\ node'[s].LC_BK = Empty BY SMTT(30), GoneFields DEF Fresh
    <2> QED BY Zenon, <2>1, GoneFields, GenuineEmpty
  <1>2. ASSUME NEW t \in Server \ {s} PROVE GenuineAt(k, t)' BY ZenonT(30), GoneFields, GenuineSame
  <1> QED BY Zenon, <1>1, <1>2

\* Every step keeps the values of keys outside raced real.
LEMMA ValuesStep ==
    ASSUME TypeOK, Processes, Rings, Values, [Next]_vars
    PROVE  Values'
  <1> SUFFICES ASSUME NEW k \in Key, k \notin raced' PROVE \A t \in Server : GenuineAt(k, t)'
    BY Zenon DEF Values, Genuine, GenuineAt
  <1>0. /\ k \notin raced /\ raced # Key /\ raced' # Key
        /\ \A t \in Server : GenuineAt(k, t)
    BY Zenon, RacedGrows DEF Values, Genuine, GenuineAt
  <1>1. ASSUME NEW s \in Server, Join(s) PROVE \A t \in Server : GenuineAt(k, t)'
    <2>1. out' = out /\ inbox' = inbox /\ ~Up(s) BY Zenon, <1>1 DEF Join
    <2>2. out[s] = Quiet /\ inbox[s] = {} BY Zenon, <2>1 DEF Processes, Process
    <2>3. /\ node'[s].LC = Empty /\ node'[s].LC_BK = Empty
          /\ \A t \in Server \ {s} : node'[t] = node[t]
      BY Zenon, <1>1 DEF Join, TypeOK, Fresh
    <2>4. GenuineAt(k, s)' BY Zenon, <2>1, <2>2, <2>3, GenuineEmpty
    <2>5. ASSUME NEW t \in Server \ {s} PROVE GenuineAt(k, t)'
      BY Zenon, <1>0, <2>1, <2>3, <2>5, GenuineSame
    <2> QED BY Zenon, <2>4, <2>5
  <1>2. ASSUME NEW s \in Server, ShutdownRequest(s) \/ Shrink(s)
        PROVE  \A t \in Server : GenuineAt(k, t)'
    <2>1. node' = node /\ out' = out /\ inbox' = inbox BY Zenon, <1>2 DEF ShutdownRequest, Shrink
    <2> QED BY Zenon, <1>0, <2>1, GenuineSame
  <1>3. ASSUME NEW s \in Server, Crash(s) PROVE \A t \in Server : GenuineAt(k, t)'
    BY ZenonT(30), <1>0, <1>3, GenuineGone DEF Crash
  <1>4. CASE Lists
    <2>1. PICK s \in Server, command \in {"ADD_CACHE", "SHUTDOWN_CACHE"} : ListHandler(s, command)
      BY Zenon, <1>4 DEF Lists
    <2>2. /\ out' = out /\ inbox' = inbox
          /\ \A t \in Server : node'[t].LC = node[t].LC /\ node'[t].LC_BK = node[t].LC_BK
      BY Zenon, <2>1, ListEffect
    <2> QED BY Zenon, <1>0, <2>2, GenuineSame
  <1>5. ASSUME NEW s \in Server, reflesh_handler(s) PROVE \A t \in Server : GenuineAt(k, t)'
    <2>1. node[s].ring # {} BY Zenon, <1>0, <1>5 DEF Rings, reflesh_handler, Commanded
    <2>2. ASSUME NEW t \in Server \ {s} PROVE GenuineAt(k, t)'
      <3>1. node'[t] = node[t] /\ out'[t] = out[t] /\ inbox' = inbox
        BY Zenon, <1>5, <2>1, <2>2, RefleshEffect
      <3> QED BY Zenon, <1>0, <3>1, GenuineSame
    <2>3. GenuineAt(k, s)'
      <3>1. Orphans(s) \subseteq Holds(node[s].LC_BK) /\ Adopted(s) \subseteq Orphans(s)
        BY Zenon DEF Orphans, Adopted
      <3>2. node[s].LC_BK[k] \in {"absent", "real", "blank"} BY SMTT(30) DEF TypeOK, NodeType, Caches
      <3>3. k \in Orphans(s) => node[s].LC_BK[k] = "real"
        BY Zenon, <1>0, <3>1, <3>2 DEF Holds, GenuineAt
      <3>4. /\ node'[s].LC_BK = node[s].LC_BK /\ inbox' = inbox
            /\ node'[s].LC = [j \in Key |-> IF j \in Adopted(s) THEN node[s].LC_BK[j]
                                                                ELSE node[s].LC[j]]
            /\ out'[s]["move"] = out[s]["move"]
            /\ out'[s]["bk"] = Threads(s, Orphans(s), listed)
        BY Zenon, <1>5, <2>1, RefleshEffect
      <3>5. node'[s].LC[k] = node[s].LC[k] \/ node'[s].LC[k] = "real" BY Zenon, <3>1, <3>3, <3>4
      <3>6. \A d \in Server : out'[s]["bk"][d].keys \subseteq Orphans(s)
        <4>1. Orphans(s) \in SUBSET Key BY Zenon DEF Orphans, Holds
        <4> QED BY SMT, Z3, <3>4, <4>1, ThreadsFields
      <3> QED BY Zenon, <1>0, <3>3, <3>4, <3>5, <3>6 DEF GenuineAt
    <2> QED BY Zenon, <2>2, <2>3
  <1>6. ASSUME NEW s \in Server, doit_iplistchange(s) PROVE \A t \in Server : GenuineAt(k, t)'
    <2>1. CASE Exit(s) BY ZenonT(30), <1>0, <2>1, GenuineGone DEF Exit
    <2>2. CASE ~Exit(s)
      <3>1. ASSUME NEW t \in Server \ {s} PROVE GenuineAt(k, t)'
        <4>1. node'[t] = node[t] /\ out'[t] = out[t] /\ inbox' = inbox
          BY Zenon, <1>0, <1>6, <2>2, <3>1, DoitEffect
        <4> QED BY Zenon, <1>0, <4>1, GenuineSame
      <3>2. GenuineAt(k, s)'
        <4>1. /\ node'[s].LC = node[s].LC /\ node'[s].LC_BK = node[s].LC_BK /\ inbox' = inbox
              /\ out'[s]["move"] = Sorted(s, node[s].list) /\ out'[s]["bk"] = out[s]["bk"]
          BY Zenon, <1>0, <1>6, <2>2, DoitEffect
        <4>2. \A d \in Server : out'[s]["move"][d].keys \subseteq Holds(node[s].LC)
          <5>1. Holds(node[s].LC) \in SUBSET Key BY Zenon DEF Holds
          <5>2. \A d \in Server : Threads(s, Holds(node[s].LC), node[s].list)[d].keys
                                    \subseteq Holds(node[s].LC)
            BY Zenon, <5>1, ThreadsFields, Zenon
          <5>3. out'[s]["move"] = Threads(s, Holds(node[s].LC), node[s].list) BY Zenon, <4>1 DEF Sorted
          <5> QED BY Zenon, <5>2, <5>3
        <4>3. node[s].LC[k] \in {"absent", "real", "blank"} BY SMTT(30) DEF TypeOK, NodeType, Caches
        <4> QED BY Zenon, <1>0, <4>1, <4>2, <4>3 DEF GenuineAt, Holds
      <3> QED BY Zenon, <3>1, <3>2
    <2> QED BY Zenon, <2>1, <2>2
  <1>7. ASSUME NEW s \in Server, takeout_end(s) PROVE \A t \in Server : GenuineAt(k, t)'
    <2>1. CASE Exit(s) BY Zenon, <1>0, <2>1, GenuineGone DEF Exit
    <2>2. CASE ~Exit(s)
      <3>1. /\ out' = out /\ inbox' = inbox
            /\ \A t \in Server : node'[t].LC = node[t].LC /\ node'[t].LC_BK = node[t].LC_BK
        BY Zenon, <1>7, <2>2, TakeoutEffect
      <3> QED BY Zenon, <1>0, <3>1, GenuineSame
    <2> QED BY Zenon, <2>1, <2>2
  <1>8. CASE Sends
    <2>1. PICK s \in Server, d \in Server, f \in Family :
             LateThread(s, f, d) \/ net_connect(s, f, d) \/ \E j \in Key : sendout_data(s, f, d, j)
      BY Zenon, <1>8 DEF Sends
    <2>2. /\ node' = node
          /\ \A t, e \in Server, g \in Family : out'[t][g][e].keys \subseteq out[t][g][e].keys
      BY Zenon, <2>1, SendFields
    <2>3. ASSUME NEW t \in Server, NEW m \in inbox'[t], m \notin inbox[t], m.key = k
          PROVE  m.value = "real"
      <3>1. PICK j \in Key : sendout_data(s, f, d, j)
        BY Zenon, <2>1, <2>3 DEF LateThread, net_connect
      <3> DEFINE cache == IF f = "move" THEN node[s].LC ELSE node[s].LC_BK
                 x == Message(j, IF cache[j] = "real" THEN "real" ELSE "blank", FALSE)
      <3>2. Deliver(d, x) /\ j \in out[s][f][d].keys BY Zenon, <3>1 DEF sendout_data
      <3>3. x.key = j /\ (cache[j] = "real" => x.value = "real") BY Zenon DEF Message
      <3>4. m = x
        <4> HIDE DEF x
        <4> QED BY Zenon, <2>3, <3>2, DeliverFields
      <3>5. cache[k] = "real" BY Zenon, <1>0, <2>3, <3>2, <3>3, <3>4 DEF GenuineAt, Family
      <3> HIDE DEF x
      <3> QED BY Zenon, <2>3, <3>3, <3>4, <3>5
    <2> QED BY Zenon, <1>0, <2>2, <2>3, GenuineSame
  <1>9. CASE Puts
    <2>1. PICK s \in Server : \E m \in inbox[s] : kvrespond_handler(s, m) BY Zenon, <1>9 DEF Puts
    <2>2. PICK m \in inbox[s] : kvrespond_handler(s, m) BY Zenon, <2>1
    <2>3. m.key \in Key /\ (m.key = k => m.value = "real")
      BY SMTT(30), Z3T(30), <1>0 DEF TypeOK, MessageType, GenuineAt
    <2>4. ASSUME NEW t \in Server
          PROVE  /\ node'[t].LC[k] = node[t].LC[k] \/ node'[t].LC[k] = "real"
                 /\ node'[t].LC_BK[k] = node[t].LC_BK[k] \/ node'[t].LC_BK[k] = "real"
      <3>1. CASE m.bk
        <4>1. node' = [node EXCEPT ![s].LC_BK[m.key] = m.value]
          BY Zenon, <2>2, <3>1 DEF kvrespond_handler
        <4>2. OnlyBK(s, m.key, m.value) BY Zenon, <2>3, <4>1, CacheFields
        <4> QED BY Zenon, <2>3, <4>2 DEF OnlyBK
      <3>2. CASE ~m.bk
        <4>1. node' = [node EXCEPT ![s].LC[m.key] = m.value]
          BY Zenon, <2>2, <3>2 DEF kvrespond_handler
        <4>2. OnlyLC(s, m.key, m.value) BY Zenon, <2>3, <4>1, CacheFields
        <4> QED BY Zenon, <2>3, <4>2 DEF OnlyLC
      <3> QED BY Zenon, <3>1, <3>2
    <2>5. ASSUME NEW t \in Server, NEW x \in inbox'[t]
          PROVE  x \in inbox[t] \/ (x.key = k => x.value = "real")
      <3>1. x \in inbox[t] \/ x = Message(m.key, m.value, TRUE)
        BY Zenon, <2>2, <2>5 DEF kvrespond_handler
      <3>2. Message(m.key, m.value, TRUE).key = m.key /\ Message(m.key, m.value, TRUE).value = m.value
        BY Zenon DEF Message
      <3> QED BY <2>3, <3>1, <3>2, Zenon
    <2>6. out' = out BY Zenon, <2>2, PutFields
    <2> QED BY Zenon, <1>0, <2>4, <2>5, <2>6 DEF GenuineAt
  <1>10. CASE Evicts
    <2>1. PICK s \in Server, j \in Key : Evict(s, j) BY Zenon, <1>10 DEF Evicts
    <2>2. out' = out /\ inbox' = inbox BY Zenon, <2>1, EvictFields
    <2>3. CASE node' = [node EXCEPT ![s].LC[j] = "absent"]
      <3>1. \A d \in Server : out[s]["move"][d].keys = {}
        BY Zenon, <2>1, QuietFields DEF Evict, Processes, Process, Family
      <3>2. OnlyLC(s, j, "absent") BY Zenon, <2>3, CacheFields
      <3> QED BY SMTT(30), <1>0, <2>2, <3>1, <3>2 DEF GenuineAt, OnlyLC
    <2>4. CASE node' = [node EXCEPT ![s].LC_BK[j] = "absent"]
               /\ raced' = IF OwnerHas(j) /\ j \notin Unsent(s, "bk") THEN raced ELSE raced \cup {j}
      <3>1. j = k => \A d \in Server : k \notin out[s]["bk"][d].keys BY Zenon, <2>4 DEF Unsent
      <3>2. OnlyBK(s, j, "absent") BY Zenon, <2>4, CacheFields
      <3> QED BY <1>0, <2>2, <3>1, <3>2 DEF GenuineAt, OnlyBK
    <2> QED BY Zenon, <2>1, <2>3, <2>4 DEF Evict
  <1>11. CASE Clients
    <2>1. /\ node' = node /\ out' = out
          /\ \A t \in Server : \A m \in inbox'[t] \ inbox[t] : m.value = "real"
      BY Zenon, <1>11, ClientFields DEF Clients
    <2> QED BY Zenon, <1>0, <2>1, GenuineSame
  <1>12. CASE UNCHANGED vars BY Zenon, <1>0, <1>12, GenuineSame DEF vars
  <1> QED BY ZenonT(30), <1>1, <1>2, <1>3, <1>4, <1>5, <1>6, <1>7, <1>8, <1>9, <1>10, <1>11, <1>12, Steps
-----------------------------------------------------------------------------
(* Tracked.                                                                *)
LEMMA OrderedStep ==
    ASSUME Ordered, [Next]_vars
    PROVE  Ordered' /\ prefer' = prefer
  <1>1. prefer' = prefer
    <2>1. ASSUME NEW s \in Server, Join(s) \/ ShutdownRequest(s) \/ Shrink(s) \/ Crash(s)
          PROVE  prefer' = prefer
      BY Zenon, <2>1 DEF Join, ShutdownRequest, Shrink, Crash, Hash
    <2>2. ASSUME NEW s \in Server, reflesh_handler(s) \/ doit_iplistchange(s) \/ takeout_end(s)
          PROVE  prefer' = prefer
      <3>1. CASE reflesh_handler(s) BY Zenon, <3>1 DEF reflesh_handler, Hash
      <3>2. CASE doit_iplistchange(s) BY Zenon, <3>2 DEF doit_iplistchange, Hash
      <3>3. CASE takeout_end(s) BY Zenon, <3>3 DEF takeout_end, Released, Hash
      <3> QED BY Zenon, <2>2, <3>1, <3>2, <3>3
    <2>3. CASE Lists BY Zenon, <2>3 DEF Lists, ListHandler, Hash
    <2>4. CASE Sends
      <3>1. PICK s \in Server, d \in Server, f \in Family :
               LateThread(s, f, d) \/ net_connect(s, f, d) \/ \E k \in Key : sendout_data(s, f, d, k)
        BY Zenon, <2>4 DEF Sends
      <3>2. CASE LateThread(s, f, d) \/ net_connect(s, f, d)
        BY Zenon, <3>2 DEF LateThread, net_connect, Hash
      <3>3. CASE \E k \in Key : sendout_data(s, f, d, k) BY Zenon, <3>3 DEF sendout_data, Hash
      <3> QED BY Zenon, <3>1, <3>2, <3>3
    <2>5. CASE Puts \/ Evicts BY Zenon, <2>5 DEF Puts, Evicts, kvrespond_handler, Evict, Hash
    <2>6. CASE Clients
      BY Zenon, <2>6 DEF Clients, KeyValueWrite, KeyValueRequest, DistributionRequest, RequestLoop, Ask,
                  Hash
    <2>7. CASE UNCHANGED vars BY Zenon, <2>7 DEF vars
    <2> QED BY Zenon, <2>1, <2>2, <2>3, <2>4, <2>5, <2>6, <2>7, Steps
  <1> QED BY Zenon, <1>1 DEF Ordered

\* The owner by a list is in the list.
LEMMA Owner ==
    ASSUME Ordered, NEW k \in Key, NEW S, S \subseteq Server, S # {}
    PROVE  GetServerIndex(k, S) \in S
BY Zenon, OwnerIn DEF Ordered, GetServerIndex

\* A list that shrinks but keeps the owner keeps it as owner.
LEMMA OwnerStays ==
    ASSUME Ordered, NEW k \in Key, NEW R, R \subseteq Server, NEW S, S \subseteq R,
           GetServerIndex(k, R) \in S
    PROVE  GetServerIndex(k, S) = GetServerIndex(k, R)
BY Zenon, OwnerSub DEF Ordered, GetServerIndex

\* Where k is after a step, in terms of the owner before it.
OwnerHasNext(k) == /\ listed' # {} /\ node'[GetServerIndex(k, listed')].run
                   /\ node'[GetServerIndex(k, listed')].LC[k] = "real"
AwaitsNext(k, t) ==
    /\ ~node'[GetServerIndex(k, listed')].run
    /\ GetServerIndex(k, node'[t].ring) = GetServerIndex(k, listed')
    /\ GetServerIndex(k, node'[t].list) = GetServerIndex(k, listed')
AdoptsNext(k, t) ==
    /\ owed'[t] = "REFLESH_IP" /\ GetServerIndex(k, node'[t].ring) \notin listed'
    /\ GetServerIndex(k, node'[t].list) \notin listed'

\* The parts of Traced that look a ring up, in the next state.
LEMMA NextOwner ==
    ASSUME prefer' = prefer, NEW k
    PROVE  /\ OwnerHas(k)' <=> OwnerHasNext(k)
           /\ \A t : Awaits(k, t)' <=> AwaitsNext(k, t)
           /\ \A t : Adopts(k, t)' <=> AdoptsNext(k, t)
BY Zenon DEF OwnerHas, OwnerHasNext, Awaits, AwaitsNext, Adopts, AdoptsNext, GetServerIndex, Up

\* What s has to do with where k is.
At(k, s) ==
    \/ OwnerHas(k) /\ GetServerIndex(k, listed) = s
    \/ \E f \in Family, d \in Server : k \in out[s][f][d].keys
    \/ \E m \in inbox[s] : m.key = k /\ ~m.bk
    \/ Kept_(k, s)
    \/ s \in listed /\ Backs(k, s)

\* What else a step of s leaves alone.
Elsewhere(k, s) ==
    /\ listed' = listed /\ prefer' = prefer
    /\ \A t \in Server \ {s} :
          /\ node'[t].run = node[t].run /\ node'[t].list = node[t].list
          /\ node'[t].ring = node[t].ring /\ node'[t].waiting = node[t].waiting
          /\ node'[t].exits = node[t].exits
          /\ node'[t].LC[k] = node[t].LC[k] /\ node'[t].LC_BK[k] = node[t].LC_BK[k]
          /\ owed'[t] = owed[t] /\ out'[t] = out[t] /\ inbox[t] \subseteq inbox'[t]

\* A step of s leaves k where it is, unless s has to do with it.
LEMMA Focus ==
    ASSUME TypeOK, Ordered, NEW s \in Server, Up(s), NEW k \in Key, Traced(k), Elsewhere(k, s)
    PROVE  Traced(k)' \/ At(k, s)
  <1>0. listed \subseteq Server BY Zenon DEF TypeOK
  <1>1. CASE OwnerHas(k)
    <2> DEFINE o == GetServerIndex(k, listed)
    <2>1. o \in listed BY Zenon, <1>0, <1>1, Owner DEF OwnerHas
    <2>2. CASE o = s BY Zenon, <1>1, <2>2 DEF At
    <2>3. CASE o # s
      <3>1. OwnerHasNext(k) BY Zenon, <1>0, <1>1, <2>1, <2>3 DEF OwnerHas, OwnerHasNext, Elsewhere, Up
      <3> QED BY Zenon, <3>1, NextOwner DEF Traced, Elsewhere
    <2> QED BY Zenon, <2>2, <2>3
  <1>2. CASE InThread(k)
    <2>1. PICK t \in Server, d \in Server, f \in Family : k \in out[t][f][d].keys
      BY Zenon, <1>2 DEF InThread
    <2>2. CASE t = s BY Zenon, <2>1, <2>2 DEF At
    <2>3. CASE t # s
      <3>1. out'[t] = out[t] BY Zenon, <2>3 DEF Elsewhere
      <3>2. InThread(k)' BY Zenon, <2>1, <3>1 DEF InThread
      <3> QED BY Zenon, <3>2 DEF Traced
    <2> QED BY Zenon, <2>2, <2>3
  <1>3. CASE InMessage(k) BY Zenon, <1>3 DEF InMessage, At, Elsewhere, Traced
  <1>4. CASE Holder(k)
    <2>1. PICK t \in Server : Kept_(k, t) BY Zenon, <1>4 DEF Holder
    <2>2. CASE t = s BY Zenon, <2>1, <2>2 DEF At
    <2>3. CASE t # s
      <3>1. Kept_(k, t)' BY Zenon, <2>1, <2>3 DEF Kept_, Elsewhere, Up, Pending
      <3> QED BY Zenon, <3>1 DEF Holder, Traced
    <2> QED BY Zenon, <2>2, <2>3
  <1>5. CASE Backed(k)
    <2>1. PICK t \in listed : Backs(k, t) BY Zenon, <1>5 DEF Backed
    <2>2. CASE t = s BY Zenon, <2>1, <2>2 DEF At
    <2>3. CASE t # s
      <3>0. t \in Server /\ listed # {} BY Zenon, <1>0
      <3>1. GetServerIndex(k, listed) \in listed BY Zenon, <1>0, <3>0, Owner
      <3>2. ASSUME Awaits(k, t) PROVE AwaitsNext(k, t)
        <4>1. GetServerIndex(k, listed) # s BY Zenon, <3>2 DEF Awaits
        <4> QED BY Zenon, <1>0, <2>3, <3>0, <3>1, <3>2, <4>1 DEF Awaits, AwaitsNext, Elsewhere, Up
      <3>3. ASSUME Adopts(k, t) PROVE AdoptsNext(k, t)
        BY Zenon, <2>3, <3>0, <3>3 DEF Adopts, AdoptsNext, Elsewhere
      <3>4. Up(t)' /\ node'[t].LC_BK[k] = "real" BY Zenon, <2>1, <2>3, <3>0 DEF Backs, Elsewhere, Up
      <3>5. prefer' = prefer BY Zenon DEF Elsewhere
      <3>6. Awaits(k, t)' \/ Adopts(k, t)' BY Zenon, <2>1, <3>2, <3>3, <3>5, NextOwner DEF Backs
      <3>7. Backs(k, t)' /\ t \in listed' BY Zenon, <3>4, <3>6 DEF Backs, Elsewhere
      <3> QED BY Zenon, <3>7 DEF Backed, Traced
    <2> QED BY Zenon, <2>2, <2>3
  <1> QED BY Zenon, <1>1, <1>2, <1>3, <1>4, <1>5 DEF Traced
-----------------------------------------------------------------------------
\* A step that changes nothing but threads, messages and what backups there are.
LEMMA TracedSame ==
    ASSUME TypeOK, Ordered, NEW k \in Key, Traced(k), listed' = listed, prefer' = prefer,
           owed' = owed,
           \A t \in Server :
              /\ node'[t].run = node[t].run /\ node'[t].list = node[t].list
              /\ node'[t].ring = node[t].ring /\ node'[t].waiting = node[t].waiting
              /\ node'[t].exits = node[t].exits /\ node'[t].LC[k] = node[t].LC[k]
              /\ node[t].LC_BK[k] = "real" => node'[t].LC_BK[k] = "real",
           InThread(k) => InThread(k)' \/ InMessage(k)', InMessage(k) => InMessage(k)'
    PROVE  Traced(k)'
  <1>0. listed \subseteq Server BY Zenon DEF TypeOK
  <1>1. CASE OwnerHas(k)
    <2>1. GetServerIndex(k, listed) \in Server BY Zenon, <1>0, <1>1, Owner DEF OwnerHas
    <2>2. OwnerHasNext(k) BY Zenon, <1>1, <2>1 DEF OwnerHas, OwnerHasNext, Up
    <2> QED BY Zenon, <2>2, NextOwner DEF Traced
  <1>2. CASE InThread(k) \/ InMessage(k) BY Zenon, <1>2 DEF Traced
  <1>3. CASE Holder(k)
    <2>1. Holder(k)' BY Zenon, <1>3 DEF Holder, Kept_, Pending, Up
    <2> QED BY Zenon, <2>1 DEF Traced
  <1>4. CASE Backed(k)
    <2>1. PICK t \in listed : Backs(k, t) BY Zenon, <1>4 DEF Backed
    <2>2. GetServerIndex(k, listed) \in Server /\ t \in Server BY Zenon, <1>0, <2>1, Owner
    <2>3. Awaits(k, t) => AwaitsNext(k, t) BY Zenon, <2>2 DEF Awaits, AwaitsNext, Up
    <2>4. Adopts(k, t) => AdoptsNext(k, t) BY Zenon, <2>2 DEF Adopts, AdoptsNext
    <2>5. Backs(k, t)' BY Zenon, <2>1, <2>2, <2>3, <2>4, NextOwner DEF Backs, Up
    <2> QED BY Zenon, <2>1, <2>5 DEF Backed, Traced
  <1> QED BY Zenon, <1>1, <1>2, <1>3, <1>4 DEF Traced

\* The invariant but for Tracked, and a key it is about.
Base == TypeOK /\ Ordered /\ Processes /\ Rings /\ Values

\* A shutdown, a removal or a join moves the owner; the old one has its command then.
LEMMA TracedJoin ==
    ASSUME Base, NEW s \in Server, Join(s), NEW k \in stored, k \notin raced', Traced(k)
    PROVE  Traced(k)'
  <1>0. /\ TypeOK /\ Ordered /\ Processes /\ k \in Key /\ listed \subseteq Server
        /\ \A t \in Server : owed[t] = None
    BY Zenon DEF Base, TypeOK, Join, Settled
  <1>1. /\ prefer' = prefer /\ out' = out /\ inbox' = inbox /\ listed' = listed \cup {s}
        /\ ~Up(s) /\ s \notin listed
        /\ \A t \in Server \ {s} : node'[t] = node[t]
        /\ \A t \in Server : t = s \/ (t \in listed /\ Up(t)) => owed'[t] = "ADD_CACHE"
    BY Zenon, <1>0 DEF Join, TypeOK, Hash
  <1>2. CASE OwnerHas(k)
    <2> DEFINE o == GetServerIndex(k, listed)
               n == GetServerIndex(k, listed')
    <2>1. o \in listed /\ n \in listed' /\ listed' \subseteq Server
      BY Zenon, <1>0, <1>1, <1>2, Owner DEF OwnerHas
    <2>2. Up(o) /\ node[o].LC[k] = "real" /\ node'[o] = node[o]
      BY Zenon, <1>0, <1>1, <1>2, <2>1 DEF OwnerHas
    <2>3. CASE n \in listed
      <3>1. n = o BY Zenon, <1>0, <1>1, <2>1, <2>3, OwnerStays
      <3> HIDE DEF o, n
      <3>2. /\ listed' # {} /\ node'[n].run /\ node'[n].LC[k] = "real"
        BY Zenon, <2>1, <2>2, <3>1 DEF Up
      <3> QED BY ZenonT(30), <1>1, <3>2, NextOwner DEF OwnerHasNext, Traced, n
    <2>4. CASE n \notin listed
      <3>1. owed'[o] = "ADD_CACHE" /\ o \in Server BY Zenon, <1>0, <1>1, <2>1, <2>2
      <3>2. ~node[o].exits BY Zenon, <1>0, <2>1, <3>1 DEF Processes, Process
      <3>3. PICK t \in Server : t = o BY Zenon, <3>1
      <3>4. Kept_(k, t)' BY Zenon, <2>2, <3>1, <3>2, <3>3 DEF Kept_, Pending, Up
      <3> QED BY Zenon, <3>4 DEF Holder, Traced
    <2> QED BY Zenon, <2>3, <2>4
  <1>3. CASE InThread(k) BY ZenonT(30), <1>1, <1>3 DEF InThread, Traced
  <1>4. CASE InMessage(k) BY Zenon, <1>1, <1>4 DEF InMessage, Traced
  <1>5. CASE Holder(k)
    <2>1. PICK t \in Server : Kept_(k, t) BY Zenon, <1>5 DEF Holder
    <2>2. node'[t] = node[t] /\ node[t].waiting > 0
      BY ZenonT(30), <1>0, <1>1, <2>1, ClusterAssumption DEF Kept_, Pending, Command
    <2>3. Kept_(k, t)' BY Zenon, <2>1, <2>2 DEF Kept_, Pending, Up
    <2> QED BY Zenon, <2>3 DEF Holder, Traced
  <1>6. CASE Backed(k)
    <2>1. PICK t \in listed : Backs(k, t) BY Zenon, <1>6 DEF Backed
    <2>2. Awaits(k, t) BY Zenon, <1>0, <2>1, ClusterAssumption DEF Backs, Adopts, Command
    <2>3. GetServerIndex(k, listed) \in listed /\ ~Up(GetServerIndex(k, listed))
      BY Zenon, <1>0, <2>1, <2>2, Owner DEF Awaits
    <2>4. k \in raced' BY Zenon, <2>3 DEF Join, OwnerHas
    <2> QED BY Zenon, <2>4
  <1> QED BY Zenon, <1>2, <1>3, <1>4, <1>5, <1>6 DEF Traced

\* A server taken off the list: its keys will be sorted, or handed on by their backups.
LEMMA TracedShrink ==
    ASSUME Base, NEW s \in Server, ShutdownRequest(s) \/ Shrink(s), NEW k \in stored,
           k \notin raced', Traced(k)
    PROVE  Traced(k)'
  <1>0. /\ TypeOK /\ Ordered /\ Processes /\ k \in Key /\ listed \subseteq Server
        /\ \A t \in Server : owed[t] = None
    BY Zenon DEF Base, TypeOK, ShutdownRequest, Shrink, Settled
  <1>1. /\ prefer' = prefer /\ out' = out /\ inbox' = inbox /\ node' = node
        /\ listed' = listed \ {s} /\ s \in listed
        /\ Up(s) => owed'[s] = "SHUTDOWN_CACHE"
        /\ \A t \in listed \ {s} : Up(t) => owed'[t] = "REFLESH_IP"
    BY Zenon, <1>0 DEF ShutdownRequest, Shrink, Hash
  <1> DEFINE o == GetServerIndex(k, listed)
             n == GetServerIndex(k, listed')
  <1>a. o \in listed BY ZenonT(30), <1>0, <1>1, Owner
  <1>b. ASSUME o # s PROVE n = o /\ o \in listed' BY Zenon, <1>0, <1>1, <1>a, <1>b, OwnerStays
  <1>2. CASE OwnerHas(k)
    <2>2. Up(o) /\ node[o].LC[k] = "real" BY Zenon, <1>2 DEF OwnerHas
    <2>3. CASE o # s
      <3>1. n = o /\ o \in listed' BY Zenon, <1>b, <2>3
      <3> HIDE DEF o, n
      <3>2. /\ listed' # {} /\ node'[n].run /\ node'[n].LC[k] = "real"
        BY Zenon, <1>1, <2>2, <3>1 DEF Up
      <3> QED BY Zenon, <1>1, <3>2, NextOwner DEF OwnerHasNext, Traced, n
    <2>4. CASE o = s
      <3>1. owed'[s] = "SHUTDOWN_CACHE" BY Zenon, <1>1, <2>2, <2>4
      <3>2. ~node[s].exits BY Zenon, <1>0, <1>1 DEF Processes, Process
      <3>3. Kept_(k, s)' BY Zenon, <1>1, <2>2, <2>4, <3>1, <3>2 DEF Kept_, Pending, Up
      <3> QED BY Zenon, <3>3 DEF Holder, Traced
    <2> QED BY Zenon, <2>3, <2>4
  <1>3. CASE InThread(k) BY ZenonT(30), <1>1, <1>3 DEF InThread, Traced
  <1>4. CASE InMessage(k) BY Zenon, <1>1, <1>4 DEF InMessage, Traced
  <1>5. CASE Holder(k)
    <2>1. PICK t \in Server : Kept_(k, t) BY Zenon, <1>5 DEF Holder
    <2>2. node[t].waiting > 0
      BY Zenon, <1>0, <1>1, <2>1, ClusterAssumption DEF Kept_, Pending, Command
    <2>3. Kept_(k, t)' BY Zenon, <1>1, <2>1, <2>2 DEF Kept_, Pending, Up
    <2> QED BY Zenon, <2>3 DEF Holder, Traced
  <1>6. CASE Backed(k)
    <2>1. PICK t \in listed : Backs(k, t) BY Zenon, <1>6 DEF Backed
    <2>2. Awaits(k, t) BY Zenon, <1>0, <2>1, ClusterAssumption DEF Backs, Adopts, Command
    <2>3. /\ ~Up(o) /\ GetServerIndex(k, node[t].ring) = o /\ GetServerIndex(k, node[t].list) = o
          /\ Up(t) /\ node[t].LC_BK[k] = "real"
      BY Zenon, <2>1, <2>2 DEF Awaits, Backs
    <2>4. t # s
      <3>1. CASE ShutdownRequest(s)
        <4>1. t = s => k \in raced' BY Zenon, <1>0, <2>3, <3>1 DEF ShutdownRequest, Real
        <4> QED BY Zenon, <4>1
      <3>2. CASE Shrink(s) BY ZenonT(30), <2>3, <3>2 DEF Shrink
      <3> QED BY Zenon, <3>1, <3>2
    <2>5. t \in listed' /\ owed'[t] = "REFLESH_IP" /\ node'[t] = node[t] BY Zenon, <1>0, <1>1, <2>3, <2>4
    <2>6. AwaitsNext(k, t) \/ AdoptsNext(k, t)
      <3>1. CASE o # s
        <4>1. n = o BY Zenon, <1>b, <3>1
        <4> HIDE DEF o
        <4> QED BY Zenon, <1>1, <2>3, <4>1 DEF AwaitsNext, Up
      <3>2. CASE o = s
        <4> HIDE DEF o, n
        <4> QED BY Zenon, <1>1, <2>3, <2>5, <3>2 DEF AdoptsNext
      <3> QED BY Zenon, <3>1, <3>2
    <2>7. Backs(k, t)' BY Zenon, <1>1, <2>3, <2>6, NextOwner DEF Backs, Up
    <2> QED BY Zenon, <2>5, <2>7 DEF Backed, Traced
  <1> QED BY Zenon, <1>2, <1>3, <1>4, <1>5, <1>6 DEF Traced
-----------------------------------------------------------------------------
\* The rest of the servers when a process ends.
LEMMA ElsewhereGone ==
    ASSUME TypeOK, NEW s \in Server, Gone(s), listed' = listed, prefer' = prefer, NEW k
    PROVE  Elsewhere(k, s) /\ ~node'[s].run
  <1>1. ~node'[s].run BY SMTT(30), GoneFields DEF Fresh
  <1> QED BY Zenon, <1>1, GoneFields DEF Elsewhere

\* A crash at rest: the backups of the server's keys wait for the master to notice.
LEMMA TracedCrash ==
    ASSUME Base, NEW s \in Server, Crash(s), NEW k \in stored, k \notin raced', Traced(k)
    PROVE  Traced(k)'
  <1>0. TypeOK /\ Ordered /\ Processes /\ Rings /\ k \in Key /\ listed \subseteq Server /\ raced # Key
    BY Zenon DEF Base, TypeOK, Crash
  <1>1. /\ Up(s) /\ Gone(s) /\ listed' = listed /\ prefer' = prefer /\ k \in Spared(s)
    BY Zenon DEF Crash, Hash
  <1>2. Elsewhere(k, s) /\ ~node'[s].run BY Zenon, <1>0, <1>1, ElsewhereGone
  <1> DEFINE o == GetServerIndex(k, listed)
  <1>3. CASE OwnerHas(k) /\ o # s
    <2>1. o \in listed BY Zenon, <1>0, <1>3, Owner DEF OwnerHas
    <2>2. OwnerHasNext(k)
      BY SMTT(30), <1>0, <1>1, <1>2, <1>3, <2>1 DEF OwnerHas, OwnerHasNext, Elsewhere, Up
    <2> QED BY Zenon, <1>1, <2>2, NextOwner DEF Traced
  <1>4. CASE AtRest /\ ~(OwnerHas(k) /\ o # s)
    <2>1. PICK t \in listed \ {s} : Up(t) /\ node[t].LC_BK[k] = "real" BY Zenon, <1>1, <1>4 DEF Spared
    <2>2. t \in Server /\ listed # {} /\ o \in listed BY Zenon, <1>0, <2>1, Owner
    <2>3. node[t].ring = listed /\ node[t].list = listed
      <3>1. owed[t] = None /\ node[t].waiting = 0 BY Zenon, <1>4, <2>2 DEF AtRest, Settled
      <3> QED BY Zenon, <1>0, <2>1, <2>2, <3>1 DEF Rings, Knows
    <2>4. ~node'[o].run
      <3>1. ~InThread(k) BY Zenon, <1>4, QuietFields DEF AtRest, InThread
      <3>2. ~InMessage(k) BY Zenon, <1>4 DEF AtRest, InMessage
      <3>3. \A u \in Server : owed[u] = None BY Zenon, <1>4 DEF AtRest, Settled
      <3>4. ~Holder(k)
        <4>1. \A u \in Server : ~Pending(u)
          BY <1>4, <3>3, ClusterAssumption DEF AtRest, Pending, Command
        <4> QED BY Zenon, <4>1 DEF Holder, Kept_
      <3>5. CASE OwnerHas(k) BY ZenonT(30), <1>2, <1>4, <3>5
      <3>6. CASE Backed(k)
        <4>1. PICK u \in listed : Backs(k, u) BY Zenon, <3>6 DEF Backed
        <4>2. ~Adopts(k, u) BY Zenon, <1>0, <3>3, <4>1, ClusterAssumption DEF Adopts, Command
        <4>3. ~Up(o) BY Zenon, <4>1, <4>2 DEF Backs, Awaits
        <4> QED BY Zenon, <1>0, <1>2, <2>2, <4>3 DEF Elsewhere, Up
      <3> QED BY ZenonT(30), <3>1, <3>2, <3>4, <3>5, <3>6 DEF Traced
    <2>5. AwaitsNext(k, t) BY Zenon, <1>1, <1>2, <2>1, <2>2, <2>3, <2>4 DEF AwaitsNext, Elsewhere
    <2>6. Backs(k, t)' BY Zenon, <1>1, <1>2, <2>1, <2>2, <2>5, NextOwner DEF Backs, Elsewhere, Up
    <2> QED BY Zenon, <1>1, <2>1, <2>6 DEF Backed, Traced
  <1> QED BY Zenon, <1>1, <1>3, <1>4 DEF Spared

\* A server that heard of the list sorts its keys again.
LEMMA TracedList ==
    ASSUME Base, NEW s \in Server, NEW command \in {"ADD_CACHE", "SHUTDOWN_CACHE"},
           ListHandler(s, command), NEW k \in stored, Traced(k)
    PROVE  Traced(k)'
  <1>0. /\ TypeOK /\ Ordered /\ Processes /\ k \in Key /\ listed \subseteq Server
        /\ node[s].waiting \in Nat
    BY Zenon DEF Base, TypeOK, NodeType
  <1>1. /\ owed[s] = command /\ owed'[s] = None /\ Up(s) /\ Up(s)'
        /\ out' = out /\ inbox' = inbox /\ listed' = listed /\ prefer' = prefer
        /\ node'[s].list = listed /\ node'[s].ring = node[s].ring
        /\ node'[s].waiting = node[s].waiting + 1 /\ node'[s].exits = node[s].exits
        /\ node'[s].LC = node[s].LC /\ node'[s].LC_BK = node[s].LC_BK
        /\ \A t \in Server \ {s} : node'[t] = node[t] /\ owed'[t] = owed[t]
    BY Zenon, <1>0, ListEffect
  <1>2. Elsewhere(k, s) BY Zenon, <1>1 DEF Elsewhere
  <1>3. Traced(k)' \/ At(k, s) BY Zenon, <1>0, <1>1, <1>2, Focus
  <1>4. CASE OwnerHas(k) /\ GetServerIndex(k, listed) = s
    <2>1. OwnerHasNext(k) BY Zenon, <1>1, <1>4 DEF OwnerHas, OwnerHasNext, Up
    <2> QED BY Zenon, <1>1, <2>1, NextOwner DEF Traced
  <1>5. CASE \E f \in Family, d \in Server : k \in out[s][f][d].keys
    BY Zenon, <1>1, <1>5 DEF InThread, Traced
  <1>6. CASE \E m \in inbox[s] : m.key = k /\ ~m.bk BY Zenon, <1>1, <1>6 DEF InMessage, Traced
  <1>7. CASE Kept_(k, s)
    <2>1. node'[s].waiting > 0 BY SMTT(30), Z3T(30), <1>0, <1>1
    <2>2. Kept_(k, s)' BY Zenon, <1>1, <1>7, <2>1 DEF Kept_, Pending, Up
    <2> QED BY Zenon, <2>2 DEF Holder, Traced
  <1>8. CASE s \in listed /\ Backs(k, s)
    <2>1. Awaits(k, s) BY Zenon, <1>1, <1>8 DEF Backs, Adopts
    <2>2. GetServerIndex(k, listed) \in listed BY Zenon, <1>0, <1>8, Owner
    <2>3. GetServerIndex(k, listed) # s BY Zenon, <1>1, <2>1 DEF Awaits
    <2>4. AwaitsNext(k, s) BY Zenon, <1>0, <1>1, <2>1, <2>2, <2>3 DEF Awaits, AwaitsNext, Up
    <2>5. Backs(k, s)' BY Zenon, <1>1, <1>8, <2>4, NextOwner DEF Backs, Up
    <2> QED BY Zenon, <1>1, <1>8, <2>5 DEF Backed, Traced
  <1> QED BY Zenon, <1>3, <1>4, <1>5, <1>6, <1>7, <1>8 DEF At

\* The backups of a server that is gone go to the owner, or to a thread for it.
LEMMA TracedReflesh ==
    ASSUME Base, NEW s \in Server, reflesh_handler(s), NEW k \in stored, k \notin raced', Traced(k)
    PROVE  Traced(k)'
  <1>0. /\ TypeOK /\ Ordered /\ Processes /\ Rings /\ k \in Key /\ listed \subseteq Server
        /\ Up(s) /\ k \notin raced /\ owed[s] = "REFLESH_IP"
    BY Zenon DEF Base, TypeOK, reflesh_handler, Commanded
  <1>a. node[s].ring # {} BY Zenon, <1>0 DEF Rings
  <1>1. /\ Up(s)' /\ inbox' = inbox /\ listed' = listed /\ prefer' = prefer
        /\ raced' = raced \cup Unsent(s, "bk")
        /\ node'[s].list = listed /\ node'[s].ring = listed
        /\ node'[s].waiting = node[s].waiting /\ node'[s].exits = node[s].exits
        /\ node'[s].LC_BK = node[s].LC_BK
        /\ node'[s].LC = [j \in Key |-> IF j \in Adopted(s) THEN node[s].LC_BK[j] ELSE node[s].LC[j]]
        /\ out'[s]["move"] = out[s]["move"]
        /\ out'[s]["bk"] = Threads(s, Orphans(s), listed)
        /\ \A t \in Server \ {s} : node'[t] = node[t] /\ owed'[t] = owed[t] /\ out'[t] = out[t]
    BY Zenon, <1>0, <1>a, RefleshEffect
  <1>2. Elsewhere(k, s) BY Zenon, <1>1 DEF Elsewhere
  <1>3. Traced(k)' \/ At(k, s) BY ZenonT(30), <1>0, <1>2, Focus
  <1>b. s \in listed BY Zenon, <1>0 DEF Processes, Process
  <1> DEFINE o == GetServerIndex(k, listed)
  <1>c. o \in listed BY Zenon, <1>0, <1>b, Owner
  <1>d. k \in Orphans(s) => node[s].LC_BK[k] = "real"
    <2>1. node[s].LC_BK[k] # "blank" BY Zenon, <1>0 DEF Base, Values, Genuine
    <2>2. node[s].LC_BK[k] \in {"absent", "real", "blank"} BY SMTT(30), <1>0 DEF TypeOK, NodeType, Caches
    <2> QED BY ZenonT(30), <2>1, <2>2 DEF Orphans, Holds
  <1>e. node[s].LC[k] = "real" => node'[s].LC[k] = "real" BY Zenon, <1>0, <1>1, <1>d DEF Adopted
  <1>4. CASE OwnerHas(k) /\ o = s
    <2>1. OwnerHasNext(k) BY Zenon, <1>1, <1>4, <1>e DEF OwnerHas, OwnerHasNext, Up
    <2> QED BY Zenon, <1>1, <2>1, NextOwner DEF Traced
  <1>5. CASE \E f \in Family, d \in Server : k \in out[s][f][d].keys
    <2>1. \A d \in Server : k \notin out[s]["bk"][d].keys BY Zenon, <1>1 DEF Unsent
    <2>2. PICK d \in Server : k \in out[s]["move"][d].keys BY Zenon, <1>5, <2>1 DEF Family
    <2> QED BY Zenon, <1>1, <2>2 DEF InThread, Traced, Family
  <1>6. CASE \E m \in inbox[s] : m.key = k /\ ~m.bk BY Zenon, <1>1, <1>6 DEF InMessage, Traced
  <1>7. CASE Kept_(k, s)
    <2>1. node[s].waiting > 0 BY Zenon, <1>0, <1>7 DEF Kept_, Pending
    <2>2. Kept_(k, s)' BY Zenon, <1>1, <1>7, <1>e, <2>1 DEF Kept_, Pending, Up
    <2> QED BY Zenon, <2>2 DEF Holder, Traced
  <1>8. CASE Backs(k, s)
    <2>1. CASE Awaits(k, s)
      <3>1. ~Up(o) /\ o # s BY Zenon, <1>0, <2>1 DEF Awaits
      <3>2. AwaitsNext(k, s) BY Zenon, <1>0, <1>1, <1>c, <3>1 DEF AwaitsNext, Up
      <3>3. Backs(k, s)' BY Zenon, <1>1, <1>8, <3>2, NextOwner DEF Backs, Up
      <3> QED BY Zenon, <1>1, <1>b, <3>3 DEF Backed, Traced
    <2>2. CASE Adopts(k, s)
      <3>1. k \in Orphans(s) BY Zenon, <1>0, <1>8, <2>2 DEF Backs, Adopts, Orphans, Holds
      <3>2. CASE o = s
        <4>1. node'[s].LC[k] = "real" BY Zenon, <1>0, <1>1, <1>d, <3>1, <3>2 DEF Adopted
        <4>2. OwnerHasNext(k) BY Zenon, <1>1, <1>b, <3>2, <4>1 DEF OwnerHasNext, Up
        <4> QED BY Zenon, <1>1, <4>2, NextOwner DEF Traced
      <3>3. CASE o # s
        <4>1. Orphans(s) \in SUBSET Key /\ o \in Server BY Zenon, <1>0, <1>c DEF Orphans, Holds
        <4>2. k \in Threads(s, Orphans(s), listed)[o].keys BY Zenon, <3>1, <3>3, <4>1, ThreadsFields
        <4>3. PICK d \in Server : d = o BY Zenon, <4>1
        <4>4. k \in out'[s]["bk"][d].keys BY Zenon, <1>1, <4>2, <4>3
        <4> QED BY Zenon, <4>4 DEF InThread, Traced, Family
      <3> QED BY Zenon, <3>2, <3>3
    <2> QED BY Zenon, <1>8, <2>1, <2>2 DEF Backs
  <1> QED BY Zenon, <1>3, <1>4, <1>5, <1>6, <1>7, <1>8 DEF At
-----------------------------------------------------------------------------
\* A server that exits has nothing of k.
LEMMA TracedExit ==
    ASSUME Base, NEW s \in Server, Exit(s), Up(s), s \notin listed, listed' = listed,
           prefer' = prefer, out[s]["move"] = Quiet["move"], NEW k \in Key, ~Kept_(k, s),
           k \notin raced', Traced(k)
    PROVE  Traced(k)'
  <1>0. TypeOK /\ Ordered /\ listed \subseteq Server BY Zenon DEF Base, TypeOK
  <1>1. Elsewhere(k, s) BY Zenon, <1>0, ElsewhereGone DEF Exit
  <1>2. Traced(k)' \/ At(k, s) BY ZenonT(30), <1>0, <1>1, Focus
  <1>3. ~(OwnerHas(k) /\ GetServerIndex(k, listed) = s) BY Zenon, <1>0, Owner DEF OwnerHas
  <1>4. \A f \in Family, d \in Server : k \notin out[s][f][d].keys
    BY Zenon, QuietFields DEF Exit, Unsent, Family
  <1>5. \A m \in inbox[s] : m.key # k BY Zenon DEF Exit
  <1> QED BY Zenon, <1>2, <1>3, <1>4, <1>5 DEF At

\* The keys that are sorted go to threads, except those whose owner the server is.
LEMMA TracedDoit ==
    ASSUME Base, NEW s \in Server, doit_iplistchange(s), NEW k \in stored, k \notin raced', Traced(k)
    PROVE  Traced(k)'
  <1>0. /\ TypeOK /\ Ordered /\ Processes /\ Rings /\ k \in Key /\ listed \subseteq Server
        /\ raced' # Key /\ Process(s) /\ node[s].list \subseteq Server /\ node[s].waiting \in Nat
    BY Zenon DEF Base, TypeOK, Processes, NodeType
  <1>1. /\ listed' = listed /\ prefer' = prefer /\ Up(s) /\ node[s].waiting > 0 /\ ~node[s].moving
    BY Zenon, <1>0, DoitEffect
  <1>a. out[s]["move"] = Quiet["move"] /\ node[s].list # {} /\ ~node[s].exits
    BY Zenon, <1>0, <1>1 DEF Process
  <1> DEFINE d == GetServerIndex(k, node[s].list)
  <1>b. d \in node[s].list /\ d \in Server BY Zenon, <1>0, <1>a, Owner
  <1>c. node[s].LC[k] = "real" /\ d # s => k \in Sorted(s, node[s].list)[d].keys
    <2>1. Holds(node[s].LC) \in SUBSET Key /\ (node[s].LC[k] = "real" => k \in Holds(node[s].LC))
      BY Zenon, <1>0 DEF Holds
    <2> QED BY Zenon, <1>b, <2>1, ThreadsFields DEF Sorted
  <1>2. CASE Exit(s)
    <2>1. CASE node[s].stopped /\ Sorted(s, node[s].list) = Quiet["move"]
      <3>1. s \notin listed /\ s \notin node[s].list BY Zenon, <1>0, <2>1 DEF Process
      <3>2. node[s].LC[k] # "real" BY Zenon, <1>b, <1>c, <2>1, <3>1, QuietFields DEF Family
      <3> QED BY Zenon, <1>0, <1>1, <1>2, <1>a, <3>1, <3>2, TracedExit DEF Kept_
    <2>2. CASE ~(node[s].stopped /\ Sorted(s, node[s].list) = Quiet["move"])
      <3>1. ~Up(s)' BY SMTT(30), Z3T(30), <1>0, <1>2, GoneFields DEF Exit, Fresh, Up
      <3> QED BY Zenon, <1>0, <2>2, <3>1, DoitEffect
    <2> QED BY Zenon, <2>1, <2>2
  <1>3. CASE ~Exit(s)
    <2>1. /\ Up(s)' /\ node'[s].list = node[s].list /\ node'[s].ring = node[s].list
          /\ node'[s].waiting = node[s].waiting - 1 /\ node'[s].exits = node[s].exit_flag
          /\ node'[s].LC = node[s].LC /\ node'[s].LC_BK = node[s].LC_BK
          /\ out'[s]["move"] = Sorted(s, node[s].list) /\ out'[s]["bk"] = out[s]["bk"]
          /\ inbox' = inbox /\ owed' = owed /\ raced' = raced
          /\ \A t \in Server \ {s} : node'[t] = node[t] /\ out'[t] = out[t]
      BY Zenon, <1>0, <1>3, DoitEffect
    <2>2. Elsewhere(k, s) BY Zenon, <1>1, <2>1 DEF Elsewhere
    <2>3. Traced(k)' \/ At(k, s) BY Zenon, <1>0, <1>1, <2>2, Focus
    <2>4. CASE OwnerHas(k) /\ GetServerIndex(k, listed) = s
      <3>1. OwnerHasNext(k) BY Zenon, <1>1, <2>1, <2>4 DEF OwnerHas, OwnerHasNext, Up
      <3> QED BY Zenon, <1>1, <3>1, NextOwner DEF Traced
    <2>5. CASE \E f \in Family, e \in Server : k \in out[s][f][e].keys
      <3>1. PICK e \in Server : k \in out[s]["bk"][e].keys
        BY Zenon, <1>a, <2>5, QuietFields DEF Family
      <3> QED BY Zenon, <2>1, <3>1 DEF InThread, Traced, Family
    <2>6. CASE \E m \in inbox[s] : m.key = k /\ ~m.bk BY Zenon, <2>1, <2>6 DEF InMessage, Traced
    <2>7. CASE Kept_(k, s)
      <3>0. node[s].LC[k] = "real" BY Zenon, <2>7 DEF Kept_
      <3>1. CASE d # s
        <4>1. PICK e \in Server : e = d BY Zenon, <1>b
        <4>2. k \in out'[s]["move"][e].keys BY Zenon, <1>c, <2>1, <3>0, <3>1, <4>1
        <4> QED BY Zenon, <4>2 DEF InThread, Traced, Family
      <3>2. CASE d = s /\ Pending(s)'
        <4>1. ~node'[s].exits BY Zenon, <1>0, <1>b, <2>1, <3>2 DEF Process
        <4>2. Kept_(k, s)' BY ZenonT(30), <2>1, <3>0, <3>2, <4>1 DEF Kept_
        <4> QED BY Zenon, <4>2 DEF Holder, Traced
      <3>3. CASE d = s /\ ~Pending(s)'
        <4>1. owed[s] \notin {"ADD_CACHE", "SHUTDOWN_CACHE"} BY Zenon, <2>1, <3>3 DEF Pending
        <4>2. s \in listed BY Zenon, <1>0, <1>1, <1>b, <3>3, <4>1 DEF Process
        <4>3. owed[s] = None \/ owed[s] = "REFLESH_IP" BY Zenon, <1>0, <4>1 DEF TypeOK, Command
        <4>4. listed \subseteq node[s].list
          BY Zenon, <1>0, <1>1, <2>1, <4>2, <4>3 DEF Rings, Knows
        <4>5. GetServerIndex(k, listed) = s BY Zenon, <1>0, <3>3, <4>2, <4>4, OwnerStays
        <4>6. OwnerHasNext(k) BY Zenon, <1>1, <2>1, <3>0, <4>2, <4>5 DEF OwnerHasNext, Up
        <4> QED BY Zenon, <1>1, <4>6, NextOwner DEF Traced
      <3> QED BY Zenon, <3>1, <3>2, <3>3
    <2>8. CASE s \in listed /\ Backs(k, s)
      <3>1. GetServerIndex(k, listed) \in listed BY Zenon, <1>0, <2>8, Owner
      <3>2. ASSUME Awaits(k, s) PROVE AwaitsNext(k, s)
        <4>1. GetServerIndex(k, listed) # s BY Zenon, <1>1, <3>2 DEF Awaits
        <4> QED BY Zenon, <1>0, <1>1, <2>1, <3>1, <3>2, <4>1 DEF Awaits, AwaitsNext, Up
      <3>3. ASSUME Adopts(k, s) PROVE AdoptsNext(k, s)
        BY Zenon, <1>1, <2>1, <3>3 DEF Adopts, AdoptsNext
      <3>4. Backs(k, s)' BY Zenon, <1>1, <2>1, <2>8, <3>2, <3>3, NextOwner DEF Backs, Up
      <3> QED BY Zenon, <1>1, <2>8, <3>4 DEF Backed, Traced
    <2> QED BY Zenon, <2>3, <2>4, <2>5, <2>6, <2>7, <2>8 DEF At
  <1> QED BY Zenon, <1>2, <1>3

\* The end of a transfer: nothing is left to send, and an exit leaves only what others have.
LEMMA TracedTakeout ==
    ASSUME Base, NEW s \in Server, takeout_end(s), NEW k \in stored, k \notin raced', Traced(k)
    PROVE  Traced(k)'
  <1>0. /\ TypeOK /\ Ordered /\ Processes /\ k \in Key /\ listed \subseteq Server /\ Process(s)
    BY Zenon DEF Base, TypeOK, Processes
  <1>1. /\ listed' = listed /\ prefer' = prefer /\ out[s]["move"] = Quiet["move"] /\ node[s].moving
    BY Zenon, <1>0, TakeoutEffect
  <1>a. Up(s) BY Zenon, <1>0, <1>1 DEF Process
  <1>2. CASE Exit(s) /\ node[s].exits
    <2>1. s \notin listed BY Zenon, <1>0, <1>2 DEF Process
    <2> QED BY Zenon, <1>0, <1>1, <1>a, <1>2, <2>1, TracedExit DEF Kept_
  <1>3. CASE ~(Exit(s) /\ node[s].exits)
    <2>1. /\ out' = out /\ inbox' = inbox /\ owed' = owed
          /\ node'[s].run = node[s].run /\ node'[s].list = node[s].list
          /\ node'[s].ring = node[s].ring /\ node'[s].waiting = node[s].waiting
          /\ node'[s].exits = node[s].exits
          /\ node'[s].LC = node[s].LC /\ node'[s].LC_BK = node[s].LC_BK
          /\ \A t \in Server \ {s} : node'[t] = node[t]
      BY Zenon, <1>0, <1>3, TakeoutEffect
    <2>2. InThread(k) => InThread(k)' BY Zenon, <2>1 DEF InThread
    <2>3. InMessage(k) => InMessage(k)' BY Zenon, <2>1 DEF InMessage
    <2> QED BY ZenonT(30), <1>0, <1>1, <2>1, <2>2, <2>3, TracedSame
  <1> QED BY Zenon, <1>2, <1>3
-----------------------------------------------------------------------------
\* A key that a thread no longer has is in a message, or raced.
LEMMA TracedSends ==
    ASSUME Base, Sends, NEW k \in stored, k \notin raced', Traced(k)
    PROVE  Traced(k)'
  <1>0. TypeOK /\ Ordered /\ Processes /\ k \in Key BY Zenon DEF Base, TypeOK
  <1>1. PICK s \in Server, d \in Server, f \in Family :
           LateThread(s, f, d) \/ net_connect(s, f, d) \/ \E j \in Key : sendout_data(s, f, d, j)
    BY Zenon DEF Sends
  <1>2. /\ node' = node /\ listed' = listed /\ owed' = owed /\ prefer' = prefer
        /\ \A t, e \in Server, g \in Family :
              t # s \/ g # f \/ e # d => out'[t][g][e] = out[t][g][e]
        /\ \A t \in Server : inbox[t] \subseteq inbox'[t]
    BY SMTT(30), <1>0, <1>1, SendFields
  <1>3. InMessage(k) => InMessage(k)' BY Zenon, <1>2 DEF InMessage
  <1>4. k \in out[s][f][d].keys => k \in out'[s][f][d].keys \/ InMessage(k)'
    <2> SUFFICES ASSUME k \in out[s][f][d].keys PROVE k \in out'[s][f][d].keys \/ InMessage(k)'
      BY Zenon
    <2>0. out[s][f][d] \in ThreadType BY SMTT(30), Z3T(30), <1>0 DEF TypeOK
    <2>1. CASE LateThread(s, f, d) BY Zenon, <2>1 DEF LateThread
    <2>2. CASE net_connect(s, f, d)
      <3>1. Up(d) BY Zenon, <2>2 DEF net_connect
      <3> DEFINE v == [out[s][f][d] EXCEPT !.pc = "send"]
      <3>2. out' = [out EXCEPT ![s][f][d] = v] BY Zenon, <1>0, <2>2, <3>1 DEF net_connect, TypeOK
      <3>3. v.keys = out[s][f][d].keys BY Zenon, <2>0 DEF ThreadType
      <3> HIDE DEF v
      <3>4. out'[s][f][d] = v
        <4>1. out' = [out EXCEPT ![s] = [out[s] EXCEPT ![f] = [out[s][f] EXCEPT ![d] = v]]] BY Zenon, <3>2
        <4>2. out'[s] = [out[s] EXCEPT ![f] = [out[s][f] EXCEPT ![d] = v]]
          BY ZenonT(30), <1>0, <4>1 DEF TypeOK
        <4>3. out[s] \in [Family -> [Server -> ThreadType]] /\ out[s][f] \in [Server -> ThreadType]
          BY Zenon, <1>0 DEF TypeOK
        <4> QED BY Zenon, <4>2, <4>3
      <3> QED BY Zenon, <3>3, <3>4
    <2>3. ASSUME NEW j \in Key, sendout_data(s, f, d, j)
          PROVE  k \in out'[s][f][d].keys \/ InMessage(k)'
      <3>1. CASE j # k
        <4> DEFINE rest == out[s][f][d].keys \ {j}
                   v == [out[s][f][d] EXCEPT !.keys = rest]
        <4>1. out' = [out EXCEPT ![s][f][d] =
                        IF rest = {} THEN NoThread ELSE [out[s][f][d] EXCEPT !.keys = rest]]
          BY Zenon, <1>0, <2>3 DEF sendout_data, TypeOK
        <4>2. out' = [out EXCEPT ![s][f][d] = v] BY Zenon, <3>1, <4>1
        <4>3. v.keys = rest BY Zenon, <2>0 DEF ThreadType
        <4> HIDE DEF v
        <4>4. out'[s][f][d] = v
          <5>1. out' = [out EXCEPT ![s] = [out[s] EXCEPT ![f] = [out[s][f] EXCEPT ![d] = v]]] BY Zenon, <4>2
          <5>2. out'[s] = [out[s] EXCEPT ![f] = [out[s][f] EXCEPT ![d] = v]]
            BY Zenon, <1>0, <5>1 DEF TypeOK
          <5>3. out[s] \in [Family -> [Server -> ThreadType]] /\ out[s][f] \in [Server -> ThreadType]
            BY Zenon, <1>0 DEF TypeOK
          <5> QED BY Zenon, <5>2, <5>3
        <4> QED BY Zenon, <3>1, <4>3, <4>4
      <3>2. CASE j = k
        <4>1. PICK v : Deliver(d, Message(j, v, FALSE)) BY Zenon, <2>3 DEF sendout_data
        <4>2. Message(j, v, FALSE).key = j /\ ~Message(j, v, FALSE).bk BY Zenon DEF Message
        <4>3. PICK m : Deliver(d, m) /\ m.key = j /\ ~m.bk BY <4>1, <4>2, Zenon
        <4>4. Up(d) BY Zenon, <2>3, <3>2 DEF sendout_data
        <4>5. m \in inbox'[d] BY Zenon, <1>0, <4>3, <4>4, DeliverFields
        <4> QED BY Zenon, <3>2, <4>3, <4>5 DEF InMessage
      <3> QED BY Zenon, <3>1, <3>2
    <2> QED BY Zenon, <1>1, <2>1, <2>2, <2>3
  <1>5. InThread(k) => InThread(k)' \/ InMessage(k)' BY SMTT(30), <1>2, <1>4 DEF InThread
  <1> QED BY Zenon, <1>0, <1>2, <1>3, <1>5, TracedSame

\* A put at the owner by the server's ring: it is the owner, or will sort k again.
LEMMA TracedPuts ==
    ASSUME Base, Puts, NEW k \in Key, k \notin raced', k \in stored', k \in stored => Traced(k)
    PROVE  Traced(k)'
  <1>0. TypeOK /\ Ordered /\ Processes /\ Rings BY Zenon DEF Base
  <1>1. PICK s \in Server : \E x \in inbox[s] : kvrespond_handler(s, x) BY Zenon DEF Puts
  <1>2. PICK m \in inbox[s] : kvrespond_handler(s, m) BY Zenon, <1>1
  <1>3. /\ listed' = listed /\ owed' = owed /\ prefer' = prefer /\ out' = out
        /\ \A t \in Server : SameState(t)
    BY Zenon, <1>0, <1>2, PutFields
  <1>4. m.key \in Key /\ Up(s) /\ ~node[s].moving /\ m.bk \in BOOLEAN /\ k \notin raced
    BY SMTT(30), Z3T(30), <1>0, <1>2 DEF kvrespond_handler, TypeOK, MessageType
  <1>5. m.key = k => m.value = "real" BY Zenon, <1>4 DEF Base, Values, Genuine
  <1>6. CASE m.key = k /\ ~m.bk
    <2>1. node' = [node EXCEPT ![s].LC[m.key] = m.value] BY Zenon, <1>2, <1>6 DEF kvrespond_handler
    <2>2. node'[s].LC[k] = "real" /\ SameState(s)
      <3>a. node[s] \in NodeType /\ node[s].LC \in Caches BY Zenon, <1>0 DEF TypeOK, NodeType
      <3>b. node'[s] = [node[s] EXCEPT !.LC = [node[s].LC EXCEPT ![m.key] = m.value]]
        BY Zenon, <1>0, <2>1 DEF TypeOK
      <3>c. node'[s].LC = [node[s].LC EXCEPT ![m.key] = m.value] BY Zenon, <3>a, <3>b DEF NodeType
      <3>1. node'[s].LC[m.key] = m.value BY Zenon, <1>4, <3>a, <3>c DEF Caches
      <3> QED BY Zenon, <1>3, <1>5, <1>6, <3>1
    <2>3. node[s].ring # {} /\ GetServerIndex(k, node[s].ring) = s
      BY Zenon, <1>2, <1>6 DEF kvrespond_handler
    <2>4. CASE Pending(s)
      <3>1. ~node[s].exits BY Zenon, <1>0, <1>4 DEF Processes, Process
      <3>2. Kept_(k, s)' BY ZenonT(30), <1>3, <1>4, <2>2, <2>4, <3>1 DEF Kept_, Pending, SameState, Up
      <3> QED BY Zenon, <3>2 DEF Holder, Traced
    <2>5. CASE ~Pending(s)
      <3>1. owed[s] \notin {"ADD_CACHE", "SHUTDOWN_CACHE"} /\ node[s].waiting = 0
        BY <1>0, <2>5 DEF Pending, TypeOK, NodeType
      <3>a. /\ Up(s) /\ s \notin listed => owed[s] = "SHUTDOWN_CACHE" \/ node[s].stopped
            /\ node[s].stopped => node[s].exits \/ node[s].waiting > 0
            /\ node[s].exits => node[s].moving
        BY Zenon, <1>0 DEF Processes, Process
      <3>b. ~(node[s].waiting > 0) BY <3>1
      <3>2. s \in listed BY Zenon, <1>4, <3>1, <3>a, <3>b
      <3>3. owed[s] = None \/ owed[s] = "REFLESH_IP" BY Zenon, <1>0, <3>1 DEF TypeOK, Command
      <3>4. listed \subseteq node[s].ring
        BY Zenon, <1>0, <1>4, <3>1, <3>2, <3>3 DEF Rings, Knows
      <3>5. node[s].ring \subseteq Server BY Zenon, <1>0 DEF TypeOK, NodeType
      <3>6. GetServerIndex(k, listed) = s BY Zenon, <1>0, <2>3, <3>2, <3>4, <3>5, OwnerStays
      <3>7. OwnerHasNext(k)
        BY ZenonT(30), <1>3, <1>4, <2>2, <3>2, <3>6 DEF OwnerHasNext, SameState, Up
      <3> QED BY Zenon, <1>3, <3>7, NextOwner DEF Traced
    <2> QED BY Zenon, <2>4, <2>5
  <1>7. CASE ~(m.key = k /\ ~m.bk)
    <2>1. k \in stored BY Zenon, <1>2, <1>7 DEF kvrespond_handler
    <2>2. ASSUME NEW t \in Server PROVE node'[t].LC[k] = node[t].LC[k]
      <3>1. CASE m.bk
        <4>1. node' = [node EXCEPT ![s].LC_BK[m.key] = m.value]
          BY Zenon, <1>2, <3>1 DEF kvrespond_handler
        <4>2. OnlyBK(s, m.key, m.value) BY Zenon, <1>0, <1>4, <4>1, CacheFields
        <4> QED BY Zenon, <4>2 DEF OnlyBK
      <3>2. CASE ~m.bk
        <4>1. node' = [node EXCEPT ![s].LC[m.key] = m.value]
          BY Zenon, <1>2, <3>2 DEF kvrespond_handler
        <4>2. OnlyLC(s, m.key, m.value) BY Zenon, <1>0, <1>4, <4>1, CacheFields
        <4> QED BY Zenon, <1>7, <3>2, <4>2 DEF OnlyLC
      <3> QED BY Zenon, <3>1, <3>2
    <2>3. ASSUME NEW t \in Server, node[t].LC_BK[k] = "real" PROVE node'[t].LC_BK[k] = "real"
      <3>1. CASE m.bk
        <4>1. node' = [node EXCEPT ![s].LC_BK[m.key] = m.value]
          BY Zenon, <1>2, <3>1 DEF kvrespond_handler
        <4>2. OnlyBK(s, m.key, m.value) BY Zenon, <1>0, <1>4, <4>1, CacheFields
        <4> QED BY ZenonT(30), <1>5, <2>3, <4>2 DEF OnlyBK
      <3>2. CASE ~m.bk
        <4>1. node' = [node EXCEPT ![s].LC[m.key] = m.value]
          BY Zenon, <1>2, <3>2 DEF kvrespond_handler
        <4>2. OnlyLC(s, m.key, m.value) BY Zenon, <1>0, <1>4, <4>1, CacheFields
        <4> QED BY ZenonT(30), <2>3, <4>2 DEF OnlyLC
      <3> QED BY Zenon, <3>1, <3>2
    <2>4. InThread(k) => InThread(k)' BY Zenon, <1>3 DEF InThread
    <2>5. InMessage(k) => InMessage(k)' BY Zenon, <1>2, <1>7 DEF InMessage, kvrespond_handler
    <2> QED BY ZenonT(30), <1>0, <1>3, <2>1, <2>2, <2>3, <2>4, <2>5, TracedSame DEF SameState
  <1> QED BY Zenon, <1>6, <1>7

\* An eviction outside raced takes a backup that is not needed, or ends the key's story.
LEMMA TracedEvicts ==
    ASSUME Base, Evicts, NEW k \in Key, k \notin raced', k \in stored', k \in stored, Traced(k)
    PROVE  Traced(k)'
  <1>0. TypeOK /\ Ordered /\ listed \subseteq Server BY Zenon DEF Base, TypeOK
  <1>1. PICK s \in Server, j \in Key : Evict(s, j) BY Zenon DEF Evicts
  <1>2. /\ listed' = listed /\ owed' = owed /\ prefer' = prefer /\ out' = out /\ inbox' = inbox
        /\ \A t \in Server : SameState(t)
    BY Zenon, <1>0, <1>1, EvictFields
  <1>3. \/ j # k /\ \A t \in Server : /\ node'[t].LC[k] = node[t].LC[k]
                                      /\ node'[t].LC_BK[k] = node[t].LC_BK[k]
        \/ OwnerHas(k) /\ \A t \in Server : node'[t].LC[k] = node[t].LC[k]
    <2>1. CASE node' = [node EXCEPT ![s].LC[j] = "absent"] /\ stored' = stored \ {j}
      <3>1. OnlyLC(s, j, "absent") BY Zenon, <1>0, <2>1, CacheFields
      <3>2. j # k BY Zenon, <2>1
      <3> QED BY Zenon, <3>1, <3>2 DEF OnlyLC
    <2>2. CASE node' = [node EXCEPT ![s].LC_BK[j] = "absent"]
               /\ raced' = IF OwnerHas(j) /\ j \notin Unsent(s, "bk") THEN raced ELSE raced \cup {j}
      <3>1. j = k => OwnerHas(k) BY Zenon, <2>2
      <3>2. OnlyBK(s, j, "absent") BY Zenon, <1>0, <2>2, CacheFields
      <3> QED BY Zenon, <1>0, <3>1, <3>2 DEF OnlyBK
    <2> QED BY Zenon, <1>1, <2>1, <2>2 DEF Evict
  <1>4. CASE \A t \in Server : /\ node'[t].LC[k] = node[t].LC[k]
                               /\ node'[t].LC_BK[k] = node[t].LC_BK[k]
    <2>1. InThread(k) => InThread(k)' BY Zenon, <1>2 DEF InThread
    <2>2. InMessage(k) => InMessage(k)' BY Zenon, <1>2 DEF InMessage
    <2> QED BY Zenon, <1>0, <1>2, <1>4, <2>1, <2>2, TracedSame DEF SameState
  <1>5. CASE OwnerHas(k) /\ \A t \in Server : node'[t].LC[k] = node[t].LC[k]
    <2>1. GetServerIndex(k, listed) \in Server BY Zenon, <1>0, <1>5, Owner DEF OwnerHas
    <2>2. OwnerHasNext(k) BY Zenon, <1>2, <1>5, <2>1 DEF OwnerHas, OwnerHasNext, SameState, Up
    <2> QED BY Zenon, <1>2, <2>2, NextOwner DEF Traced
  <1> QED BY Zenon, <1>3, <1>4, <1>5
-----------------------------------------------------------------------------
\* Every step keeps track of every stored key outside raced.
LEMMA TrackedStep ==
    ASSUME Base, Tracked, [Next]_vars
    PROVE  Tracked'
  <1>0. TypeOK /\ Ordered /\ Processes /\ stored \subseteq Key BY Zenon DEF Base, TypeOK
  <1> SUFFICES ASSUME NEW k, k \in stored', k \notin raced' PROVE Traced(k)'
    BY Zenon DEF Tracked, Kept
  <1>1. k \notin raced /\ k \in Key /\ (k \in stored => Traced(k))
    <2>1. TypeOK' BY Zenon, <1>0, TypeStep
    <2> QED BY Zenon, <1>0, <2>1, RacedGrows DEF Tracked, Kept, TypeOK
  <1>2. CASE Puts BY Zenon, <1>1, <1>2, TracedPuts
  <1>3. CASE k \in stored
    <2>0. Traced(k) BY Zenon, <1>1, <1>3
    <2>1. ASSUME NEW s \in Server, Join(s) PROVE Traced(k)' BY Zenon, <1>3, <2>0, <2>1, TracedJoin
    <2>2. ASSUME NEW s \in Server, ShutdownRequest(s) \/ Shrink(s) PROVE Traced(k)'
      BY ZenonT(30), <1>3, <2>0, <2>2, TracedShrink
    <2>3. ASSUME NEW s \in Server, Crash(s) PROVE Traced(k)' BY Zenon, <1>3, <2>0, <2>3, TracedCrash
    <2>4. ASSUME NEW s \in Server, reflesh_handler(s) PROVE Traced(k)'
      BY Zenon, <1>3, <2>0, <2>4, TracedReflesh
    <2>5. ASSUME NEW s \in Server, doit_iplistchange(s) PROVE Traced(k)'
      BY Zenon, <1>3, <2>0, <2>5, TracedDoit
    <2>6. ASSUME NEW s \in Server, takeout_end(s) PROVE Traced(k)'
      BY Zenon, <1>3, <2>0, <2>6, TracedTakeout
    <2>7. CASE Lists BY Zenon, <1>3, <2>0, <2>7, TracedList DEF Lists
    <2>8. CASE Sends BY Zenon, <1>3, <2>0, <2>8, TracedSends
    <2>9. CASE Evicts BY Zenon, <1>1, <1>3, <2>0, <2>9, TracedEvicts
    <2>10. CASE Clients \/ UNCHANGED vars
      <3>1. /\ listed' = listed /\ owed' = owed /\ prefer' = prefer /\ out' = out /\ node' = node
            /\ \A t \in Server : inbox[t] \subseteq inbox'[t]
        BY Zenon, <1>0, <2>10, ClientFields DEF Clients, vars
      <3>2. InThread(k) => InThread(k)' BY Zenon, <3>1 DEF InThread
      <3>3. InMessage(k) => InMessage(k)' BY Zenon, <3>1 DEF InMessage
      <3> QED BY Zenon, <1>0, <1>1, <2>0, <3>1, <3>2, <3>3, TracedSame
    <2> QED BY ZenonT(30), <1>2, <2>1, <2>2, <2>3, <2>4, <2>5, <2>6, <2>7, <2>8, <2>9, <2>10, Steps
  <1>4. CASE k \notin stored
    <2>1. ASSUME NEW s \in Server, Join(s) \/ ShutdownRequest(s) \/ Shrink(s) \/ Crash(s)
          PROVE  stored' \subseteq stored
      BY Zenon, <2>1 DEF Join, ShutdownRequest, Shrink, Crash, History
    <2>2. ASSUME NEW s \in Server, reflesh_handler(s) \/ doit_iplistchange(s) \/ takeout_end(s)
          PROVE  stored' \subseteq stored
      <3>1. CASE reflesh_handler(s) BY Zenon, <3>1 DEF reflesh_handler
      <3>2. CASE doit_iplistchange(s) BY Zenon, <1>0, <3>2, DoitEffect
      <3>3. CASE takeout_end(s) BY Zenon, <1>0, <3>3, TakeoutEffect
      <3> QED BY Zenon, <2>2, <3>1, <3>2, <3>3
    <2>3. CASE Lists BY Zenon, <1>0, <1>4, <2>3, ListEffect DEF Lists
    <2>4. CASE Sends BY Zenon, <1>0, <1>4, <2>4, SendFields DEF Sends
    <2>5. CASE Evicts BY Zenon, <1>4, <2>5 DEF Evicts, Evict
    <2>6. CASE Clients BY Zenon, <1>0, <1>4, <2>6, ClientFields DEF Clients
    <2>7. CASE UNCHANGED vars BY Zenon, <1>4, <2>7 DEF vars
    <2> QED BY ZenonT(30), <1>2, <1>4, <2>1, <2>2, <2>3, <2>4, <2>5, <2>6, <2>7, Steps
  <1> QED BY Zenon, <1>3, <1>4

\* The invariant is inductive.
THEOREM ClusterInvariant == Spec => []IInv
  <1>1. Init => IInv
    <2> SUFFICES ASSUME Init PROVE IInv BY Zenon
    <2>1. Ordered BY Zenon, ClusterAssumption DEF Init, Ordered
    <2>2. Tracked BY Zenon DEF Init, Tracked, Kept
    <2> QED BY ZenonT(30), <2>1, <2>2, InitType, InitProcesses, InitRings, InitValues DEF IInv
  <1>2. IInv /\ [Next]_vars => IInv'
    <2> SUFFICES ASSUME IInv, [Next]_vars PROVE IInv' BY Zenon
    <2>1. TypeOK /\ Ordered /\ Processes /\ Rings /\ Values /\ Tracked BY Zenon DEF IInv
    <2>2. TypeOK' /\ Processes' BY Zenon, <2>1, TypeStep, ProcessesStep
    <2>3. Rings' /\ Values' BY Zenon, <2>1, RingsStep, ValuesStep
    <2>4. Tracked' /\ Ordered' BY Zenon, <2>1, TrackedStep, OrderedStep DEF Base
    <2> QED BY Zenon, <2>2, <2>3, <2>4 DEF IInv
  <1> QED BY <1>1, <1>2, PTL DEF Spec

\* No join, shutdown or crash loses a stored key outside the cases of raced: a real value
\* of it is always in a cache of a running server or on its way to one.
THEOREM NotLostCorrect == Spec => []NotLost
  <1>1. IInv => NotLost
    <2> SUFFICES ASSUME IInv, NEW k \in Kept PROVE Somewhere(k) BY Zenon DEF NotLost
    <2>0. /\ TypeOK /\ Ordered /\ Processes /\ Traced(k) /\ k \in Key /\ Genuine(k)
          /\ listed \subseteq Server
      BY Zenon DEF IInv, Tracked, Kept, TypeOK, Values
    <2>1. CASE OwnerHas(k)
      <3>1. GetServerIndex(k, listed) \in Server BY Zenon, <2>0, <2>1, Owner DEF OwnerHas
      <3> QED BY Zenon, <2>0, <2>1, <3>1 DEF OwnerHas, Somewhere, Copies, Real
    <2>2. CASE InThread(k)
      <3>1. PICK s \in Server, d \in Server, f \in Family : k \in out[s][f][d].keys
        BY Zenon, <2>2 DEF InThread
      <3>2. Up(s) BY Zenon, <2>0, <3>1, QuietFields DEF Processes, Process
      <3>3. node[s].LC[k] = "real" \/ node[s].LC_BK[k] = "real"
        BY Zenon, <2>0, <3>1 DEF Genuine, Family
      <3> QED BY Zenon, <2>0, <3>2, <3>3 DEF Somewhere, Copies, Real
    <2>3. CASE InMessage(k) BY Zenon, <2>0, <2>3 DEF InMessage, Genuine, Somewhere
    <2>4. CASE Holder(k) BY ZenonT(30), <2>0, <2>4 DEF Holder, Kept_, Somewhere, Copies, Real
    <2>5. CASE Backed(k) BY Zenon, <2>0, <2>5 DEF Backed, Backs, Somewhere, Copies, Real
    <2> QED BY Zenon, <2>0, <2>1, <2>2, <2>3, <2>4, <2>5 DEF Traced
  <1> QED BY <1>1, ClusterInvariant, PTL

\* When all changes are through and the listed servers run, each such key is on the
\* server that GetServerIndex gives for the master's list.
THEOREM PlacedCorrect == Spec => []Placed
  <1>1. IInv => Placed
    <2> SUFFICES ASSUME IInv, AtRest, \A s \in listed : Up(s), NEW k \in Kept PROVE OwnerHas(k)
      BY Zenon DEF Placed, Placed_
    <2>0. /\ TypeOK /\ Ordered /\ Traced(k) /\ k \in Key /\ listed \subseteq Server
          /\ \A s \in Server : owed[s] = None
      BY Zenon DEF IInv, Tracked, Kept, TypeOK, AtRest, Settled
    <2>1. ~InThread(k) BY Zenon, QuietFields DEF AtRest, InThread
    <2>2. ~InMessage(k) BY Zenon DEF AtRest, InMessage
    <2>3. ~Holder(k)
      <3>1. \A s \in Server : ~Pending(s)
        BY SMTT(30), Z3T(30), <2>0, ClusterAssumption DEF AtRest, Pending, Command
      <3> QED BY Zenon, <3>1 DEF Holder, Kept_
    <2>4. ~Backed(k)
      <3> SUFFICES ASSUME NEW t \in listed, Backs(k, t) PROVE FALSE BY Zenon DEF Backed
      <3>1. ~Adopts(k, t) BY Zenon, <2>0, ClusterAssumption DEF Adopts, Command
      <3>2. GetServerIndex(k, listed) \in listed BY Zenon, <2>0, Owner
      <3> QED BY Zenon, <3>1, <3>2 DEF Backs, Awaits
    <2> QED BY Zenon, <2>0, <2>1, <2>2, <2>3, <2>4 DEF Traced
  <1> QED BY <1>1, ClusterInvariant, PTL
=============================================================================
