---------------------------- MODULE MasterProofs ----------------------------
(***************************************************************************)
(* Proofs about Master for any set of cache servers and any bounds.        *)
(***************************************************************************)
EXTENDS Master, FiniteSetTheorems, TLAPS

\* The parts of TypeOK.
ListsOK ==
    /\ Portlist \in SUBSET Server /\ IPportlist \in SUBSET Server
    /\ cachemap \in SUBSET Portlist /\ cachemapshut \in SUBSET Portlist
    /\ silent \in SUBSET Portlist /\ sampled \in SUBSET Server /\ moved \in SUBSET sampled
FlagsOK == \A f \in {flag1, flag2, flag3, flag4, flag5, flag6, flag8} : f \in BOOLEAN
NumsOK ==
    /\ \A n \in {num1, num2, num3, num4, num5, num7} : n \in Nat
    /\ num5 <= Ghosts /\ num7 \in {0, Ghosts}
PortsOK ==
    /\ shutportnow \in Seq(Server)
    /\ {shutport, psshutport} \subseteq Server \cup {None}
    /\ hb \in [port : Server \cup {None}, stage : Stage]
ServersOK ==
    /\ server \in [Server -> [run : {"down", "up", "leaving"},
                              told : Command \cup {None}, list : SUBSET Server]]
    /\ heard \in SUBSET Server /\ asked \in SUBSET Server
LeftOK ==
    left \in [starts : 0..MaxStarts, crashes : 0..MaxCrashes, requests : 0..MaxRequests,
              late : 0..MaxLate]

\* The parts of TypeOK.
LEMMA Parts ==
    TypeOK <=> ListsOK /\ FlagsOK /\ NumsOK /\ PortsOK /\ ServersOK /\ LeftOK
BY Zenon DEF TypeOK, ListsOK, FlagsOK, NumsOK, PortsOK, ServersOK, LeftOK

\* The inductive invariant: the typed state, and the lists agree.
IInv == ListsOK /\ FlagsOK /\ NumsOK /\ PortsOK /\ ServersOK /\ LeftOK /\ ListedAreRegistered

\* The bounds and the number of servers are natural numbers.
LEMMA Constants ==
    /\ Ghosts \in Nat /\ MaxStarts \in Nat /\ MaxCrashes \in Nat /\ MaxRequests \in Nat
    /\ MaxLate \in Nat /\ Cardinality(Server) \in Nat
BY MasterAssumption, FS_CardinalityType

\* Removing a port from the lists and maps keeps them consistent.
LEMMA RemoveLists ==
    ASSUME ListsOK, ListedAreRegistered, NEW p, Remove(p)
    PROVE  ListsOK' /\ ListedAreRegistered'
BY DEF ListsOK, ListedAreRegistered, Remove

\* A message leaves the servers typed.
LEMMA RefreshType ==
    ASSUME ServersOK, NEW s, NEW type \in Command, NEW list \in SUBSET Server,
           refreship(s, type, list)
    PROVE  server' \in [Server -> [run : {"down", "up", "leaving"},
                                   told : Command \cup {None}, list : SUBSET Server]]
BY Zenon DEF ServersOK, refreship

\* refreship sends one of the commands.
LEMMA RefreshCommand ==
    ASSUME NEW f4, NEW f1, NEW f2 PROVE refreshtype(f4, f1, f2) \in Command
BY DEF refreshtype, Command

\* A count that saturates is a natural number.
LEMMA SaturateNat ==
    ASSUME NEW n \in Nat, NEW m \in Nat PROVE Saturate(n, m) \in Nat
BY DEF Saturate

\* main and the constructors start with nothing registered.
LEMMA InitIInv == Init => IInv
<1> SUFFICES ASSUME Init PROVE IInv
  OBVIOUS
<1>1. ListsOK /\ ListedAreRegistered
  BY DEF Init, ListsOK, ListedAreRegistered
<1>2. FlagsOK
  BY Zenon DEF Init, FlagsOK
<1>3. NumsOK
  BY Constants DEF Init, NumsOK
<1>4. PortsOK
  BY DEF Init, PortsOK, Stage
<1>5. ServersOK
  BY DEF Init, ServersOK
<1>6. LeftOK
  BY Constants DEF Init, LeftOK
<1> QED BY <1>1, <1>2, <1>3, <1>4, <1>5, <1>6 DEF IInv

\* A shutdown request keeps the invariant.
LEMMA RequestKeeps == ASSUME IInv, NEW s \in Server, ShutdownRequest(s) PROVE IInv'
<1>1. ListsOK' /\ ListedAreRegistered'
  BY DEF ShutdownRequest, IInv, ListsOK, ListedAreRegistered, lists, watch
<1>2. FlagsOK'
  BY Zenon DEF ShutdownRequest, IInv, FlagsOK
<1>3. NumsOK' /\ PortsOK'
  BY DEF ShutdownRequest, IInv, NumsOK, PortsOK
<1>4. ServersOK'
  BY DEF ShutdownRequest, IInv, ServersOK
<1>5. LeftOK'
  <2>1. left.requests > 0 /\ left' = [left EXCEPT !.requests = left.requests - 1]
    BY Zenon DEF ShutdownRequest
  <2>2. left.requests \in 0..MaxRequests
    BY Zenon DEF IInv, LeftOK
  <2>3. left.requests - 1 \in 0..MaxRequests
    BY SMTT(30), <2>1, <2>2, Constants
  <2> QED BY Zenon, <2>1, <2>3 DEF IInv, LeftOK
<1> QED BY <1>1, <1>2, <1>3, <1>4, <1>5 DEF IInv

\* The first stage of a heartbeat keeps the invariant.
LEMMA HeartBeatKeeps == ASSUME IInv, NEW s \in Server, HeartBeat(s) PROVE IInv'
<1> USE DEF HeartBeat
<1>1. ListsOK' /\ ListedAreRegistered'
  BY DEF IInv, ListsOK, ListedAreRegistered
<1>2. FlagsOK'
  BY ZenonT(30) DEF IInv, FlagsOK
<1>3. NumsOK'
  <2>1. num1' \in Nat
    <3> DEFINE n == Saturate(num1 + 1, Cardinality(Server))
    <3>1. num1' \in {0, num1, n}
      BY Zenon
    <3> HIDE DEF HeartBeat
    <3>2. num1 \in Nat
      BY Zenon DEF IInv, NumsOK
    <3>3. n \in Nat
      <4>1. num1 + 1 \in Nat BY <3>2
      <4> QED BY Zenon, <4>1, Constants, SaturateNat
    <3> HIDE DEF n
    <3> QED BY <3>1, <3>2, <3>3
  <2>2. num5' \in Nat /\ num5' <= Ghosts
    <3>1. num5' = IF s \in Portlist THEN num5 ELSE IF num5 < num7 THEN num5 + 1 ELSE 0
      BY Zenon
    <3> HIDE DEF HeartBeat
    <3>2. num5 \in Nat /\ num5 <= Ghosts /\ num7 \in {0, Ghosts}
      BY Zenon DEF IInv, NumsOK
    <3>3. CASE num7 = 0
      BY <3>1, <3>2, <3>3, Constants
    <3>4. CASE num7 = Ghosts
      BY SMTT(30), <3>1, <3>2, <3>4, Constants
    <3> QED BY SMTT(30), <3>2, <3>3, <3>4
  <2>3. num2' = num2 /\ num3' = num3 /\ num4' = num4 /\ num7' = num7
    BY Zenon DEF nums
  <2> HIDE DEF HeartBeat
  <2>4. /\ num2 \in Nat /\ num3 \in Nat /\ num4 \in Nat /\ num7 \in Nat
        /\ num7 \in {0, Ghosts}
    BY Zenon DEF IInv, NumsOK
  <2> QED BY Zenon, <2>1, <2>2, <2>3, <2>4 DEF NumsOK
<1>4. PortsOK'
  <2>1. /\ shutportnow' \in {<<>>, shutportnow} /\ shutport' \in {s, shutport}
        /\ psshutport' = psshutport /\ hb' = [port |-> s, stage |-> "shrink"]
    BY Zenon
  <2> HIDE DEF HeartBeat
  <2>2. PortsOK
    BY Zenon DEF IInv
  <2>3. shutportnow' \in Seq(Server)
    <3>1. shutportnow \in Seq(Server) BY Zenon, <2>2 DEF PortsOK
    <3>2. <<>> \in Seq(Server) OBVIOUS
    <3> QED BY Zenon, <2>1, <3>1, <3>2
  <2>4. {shutport', psshutport'} \subseteq Server \cup {None}
    BY Zenon, <2>1, <2>2 DEF PortsOK
  <2>5. hb' \in [port : Server \cup {None}, stage : Stage]
    BY <2>1 DEF Stage
  <2> QED BY Zenon, <2>3, <2>4, <2>5 DEF PortsOK
<1>5. ServersOK'
  <2> DEFINE I == IF s \notin Portlist /\ ~(IF num5 < num7 THEN flag4 \/ s \in Ports(shutportnow) ELSE FALSE)
                  THEN IPportlist \cup {s} ELSE IPportlist
             type == refreshtype(IF s \in Portlist THEN flag4 ELSE FALSE, TRUE, flag2)
  <2>1. I \in SUBSET Server /\ type \in Command
    BY Zenon, RefreshCommand DEF IInv, ListsOK
  <2>2. server' = server \/ refreship(s, type, I)
    BY Zenon
  <2>3. heard' = heard \ {s} /\ asked' = asked
    BY Zenon
  <2> HIDE DEF HeartBeat, I, type
  <2> QED BY Zenon, <2>1, <2>2, <2>3, RefreshType DEF IInv, ServersOK
<1>6. LeftOK'
  BY Zenon DEF IInv, LeftOK
<1> HIDE DEF HeartBeat
<1> QED BY Zenon, <1>1, <1>2, <1>3, <1>4, <1>5, <1>6 DEF IInv

\* The second stage keeps the invariant, for each kind of shrink and for none.
LEMMA ActiveShrinkKeeps == ASSUME IInv, ActiveShrink PROVE IInv'
<1> USE DEF ActiveShrink
<1>1. ListsOK' /\ ListedAreRegistered'
  BY RemoveLists DEF IInv
<1>2. FlagsOK'
  BY Zenon DEF IInv, FlagsOK
<1>3. NumsOK'
  BY Constants, SaturateNat DEF IInv, NumsOK
<1>4. PortsOK'
  BY DEF IInv, PortsOK, Stage
<1>5. ServersOK'
  <2> DEFINE type == refreshtype(flag4, flag1, flag2)
  <2>1. IPportlist \ {hb.port} \in SUBSET Server /\ type \in Command
    BY Zenon, RefreshCommand DEF IInv, ListsOK
  <2>2. refreship(hb.port, type, IPportlist \ {hb.port})
    BY Zenon
  <2>3. heard' \in SUBSET Server /\ asked' \in SUBSET Server
    BY DEF IInv, ServersOK
  <2> HIDE DEF ActiveShrink, type
  <2> QED BY Zenon, <2>1, <2>2, <2>3, RefreshType DEF IInv, ServersOK
<1>6. LeftOK'
  BY DEF IInv, LeftOK
<1> QED BY <1>1, <1>2, <1>3, <1>4, <1>5, <1>6 DEF IInv

\* So does the end of a passive shrink.
LEMMA PassiveShrinkKeeps == ASSUME IInv, PassiveShrink PROVE IInv'
<1> USE DEF PassiveShrink
<1>1. ListsOK' /\ ListedAreRegistered'
  BY RemoveLists DEF IInv
<1>2. FlagsOK'
  BY Zenon DEF IInv, FlagsOK
<1>3. NumsOK'
  BY Constants DEF IInv, NumsOK
<1>4. PortsOK'
  BY DEF IInv, PortsOK, Stage, ports
<1>5. ServersOK' /\ LeftOK'
  BY DEF IInv, ServersOK, LeftOK, env
<1> QED BY <1>1, <1>2, <1>3, <1>4, <1>5 DEF IInv

\* And the stage without a shrink.
LEMMA NoShrinkKeeps == ASSUME IInv, NoShrink PROVE IInv'
<1>1. PortsOK'
  BY DEF NoShrink, IInv, PortsOK, Stage, ports
<1> QED BY <1>1 DEF NoShrink, IInv, ListsOK, FlagsOK, NumsOK, ServersOK, LeftOK,
                    ListedAreRegistered, lists, flags, nums, watch, env

\* The third stage keeps the invariant.
LEMMA RefleshKeeps == ASSUME IInv, Reflesh PROVE IInv'
<1> USE DEF Reflesh
<1>1. ListsOK' /\ ListedAreRegistered'
  BY SMTT(30) DEF IInv, ListsOK, ListedAreRegistered, watch
<1>2. FlagsOK'
  BY SMTT(30) DEF IInv, FlagsOK, EndShrink
<1>3. NumsOK'
  <2>1. num2' \in Nat
    BY Constants, SaturateNat DEF IInv, NumsOK
  <2> QED BY SMTT(30), <2>1 DEF IInv, NumsOK
<1>4. PortsOK'
  BY DEF IInv, PortsOK, Stage, ports
<1>5. ServersOK'
  BY Zenon, RefreshCommand, RefreshType DEF IInv, ServersOK, ListsOK
<1>6. LeftOK'
  BY DEF IInv, LeftOK
<1> QED BY SMTT(30), <1>1, <1>2, <1>3, <1>4, <1>5, <1>6 DEF IInv

\* The two threads keep the invariant.
LEMMA heartstateKeeps == ASSUME IInv, heartstate PROVE IInv'
<1> USE DEF heartstate, CheckAfter
<1>1. ListsOK' /\ ListedAreRegistered'
  BY DEF IInv, ListsOK, ListedAreRegistered, lists
<1>2. FlagsOK'
  BY Zenon DEF IInv, FlagsOK
<1>3. NumsOK'
  BY DEF IInv, NumsOK, nums
<1>4. PortsOK'
  BY DEF IInv, PortsOK, ListsOK
<1>5. ServersOK'
  BY DEF IInv, ServersOK
<1>6. LeftOK'
  BY Constants DEF IInv, LeftOK
<1> QED BY <1>1, <1>2, <1>3, <1>4, <1>5, <1>6 DEF IInv

\* testallshut empties IPportlist only.
LEMMA testallshutKeeps == ASSUME IInv, testallshut PROVE IInv'
<1> USE DEF testallshut, CheckAfter
<1>1. ListsOK' /\ ListedAreRegistered'
  BY DEF IInv, ListsOK, ListedAreRegistered
<1>2. FlagsOK' /\ NumsOK' /\ PortsOK' /\ ServersOK'
  BY DEF IInv, FlagsOK, NumsOK, PortsOK, ServersOK, flags, nums, ports
<1>3. LeftOK'
  BY Constants DEF IInv, LeftOK
<1> QED BY <1>1, <1>2, <1>3 DEF IInv

\* A cache server's own step changes only what the master hears of it.
LEMMA ServerKeeps ==
    ASSUME IInv, NEW s \in Server, Start(s) \/ heartbeat_send(s) \/ Exit(s) \/ Crash(s)
    PROVE  IInv'
<1> USE DEF Start, heartbeat_send, Exit, Crash
<1>1. ListsOK' /\ FlagsOK' /\ NumsOK' /\ PortsOK' /\ ListedAreRegistered'
  BY DEF IInv, ListsOK, FlagsOK, NumsOK, PortsOK, ListedAreRegistered,
         lists, flags, nums, ports, watch
<1>2. ServersOK'
  BY DEF IInv, ServersOK
<1>3. LeftOK'
  BY Constants DEF IInv, LeftOK
<1> QED BY <1>1, <1>2, <1>3 DEF IInv

\* The invariant is inductive.
LEMMA NextIInv == IInv /\ [Next]_vars => IInv'
<1> SUFFICES ASSUME IInv, [Next]_vars PROVE IInv'
  BY SMTT(30)
<1>1. CASE UNCHANGED vars
  BY <1>1 DEF IInv, ListsOK, FlagsOK, NumsOK, PortsOK, ServersOK, LeftOK, ListedAreRegistered,
              vars, lists, flags, nums, ports, watch, env
<1>2. CASE Next
  BY <1>2, RequestKeeps, HeartBeatKeeps, ActiveShrinkKeeps, PassiveShrinkKeeps, NoShrinkKeeps,
     RefleshKeeps, heartstateKeeps, testallshutKeeps, ServerKeeps DEF Next, Stages
<1> QED BY <1>1, <1>2

\* The event loop and the two threads keep the master's lists, flags and counts
\* in range: the counts of false reconnects never pass num7's value, and the maps
\* have no key that Portlist lost.
THEOREM MasterTypeCorrect == Spec => []TypeOK
<1>1. IInv => TypeOK
  BY Parts DEF IInv
<1> QED BY InitIInv, NextIInv, <1>1, PTL DEF Spec

\* For any number of servers, joins, shutdowns, crashes and late heartbeats, the
\* list that clients are sent never names a server that is not registered.
THEOREM ListedCorrect == Spec => []ListedAreRegistered
<1>1. IInv => ListedAreRegistered
  BY DEF IInv
<1> QED BY InitIInv, NextIInv, <1>1, PTL DEF Spec
=============================================================================
