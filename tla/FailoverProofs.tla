--------------------------- MODULE FailoverProofs ---------------------------
(***************************************************************************)
(* A failover without late checks and restarts of the main splits nothing  *)
(* and skips no server, and no master's list holds a server twice, for any *)
(* set of cache servers and any bounds.                                    *)
(***************************************************************************)
EXTENDS Failover, FiniteSetTheorems, TLAPS

\* The types the argument needs.
ListsT == IPportlist \in [Master -> Seq(Server)] /\ updates \in Seq(Seq(Server))
ThreadT == masterstate \in [at : ThreadPC, i : Int]
ServerT == server \in [Server -> [run : BOOLEAN, master_addr : Master, cfd : Master \cup {None}]]
LeftT ==
    /\ left \in [starts : Nat, crashes : Nat, failures : Nat, restarts : Nat, late : Nat]
    /\ left.restarts <= MaxRestarts /\ left.late <= MaxLate
Types == ListsT /\ ThreadT /\ ServerT /\ LeftT

\* The thread believes the main dead.
Gone == masterstate.at \in {"redirect", "clear", "done"}

\* Without late checks and restarts that is so, nothing of the main is left
\* unread while the list is walked, and every trace of the standby at a cache
\* server is a consequence of it.
Dead ==
    /\ (Gone \/ redirect # {}) => ~up
    /\ (masterstate.at \in {"redirect", "clear"}) => updates = <<>>
    /\ \A s \in Server : Standby \in {server[s].master_addr, server[s].cfd} => ~up

\* A server has a connection to the main only while the main runs.
MainConnected == \A s \in Server : server[s].cfd = Main => up

\* flag7 marks the end of the thread; until the list is cleared it is the one
\* copied last, and the servers before the index have been told.
Walk ==
    /\ flag7 <=> masterstate.at = "done"
    /\ masterstate.at \notin {"clear", "done"} => copied = Members(IPportlist[Standby])
    /\ masterstate.at = "redirect" =>
         \A j \in DOMAIN IPportlist[Standby] : j < masterstate.i => IPportlist[Standby][j] \in told
    /\ masterstate.at \in {"clear", "done"} => copied \subseteq told

IInv == Types /\ MainConnected /\ (Undisturbed => Dead /\ Walk)
-----------------------------------------------------------------------------
\* The initial state has no server, no message and an idle thread.
LEMMA InitIInv == Init => IInv
  <1> SUFFICES ASSUME Init PROVE IInv OBVIOUS
  <1>1. Types BY FailoverAssumption DEF Init, Types, ListsT, ThreadT, ServerT, LeftT, Master, ThreadPC
  <1>2. MainConnected BY FailoverAssumption DEF Init, MainConnected
  <1>3. Dead BY FailoverAssumption DEF Init, Dead, Gone
  <1>4. Walk BY FailoverAssumption DEF Init, Walk, Master, Members
  <1> QED BY <1>1, <1>2, <1>3, <1>4 DEF IInv

\* A use of a bound lowers it and leaves the others alone.
LEMMA UseStep ==
    ASSUME LeftT, NEW what \in {"starts", "crashes", "failures", "restarts", "late"}, Use(what)
    PROVE  /\ LeftT'
           /\ Undisturbed' => Undisturbed /\ what \notin {"restarts", "late"}
  <1> USE FailoverAssumption DEF LeftT, Use, Undisturbed
  <1>1. CASE what = "starts" BY <1>1
  <1>2. CASE what = "crashes" BY <1>2
  <1>3. CASE what = "failures" BY <1>3
  <1>4. CASE what = "restarts" BY <1>4
  <1>5. CASE what = "late" BY <1>5
  <1> QED BY <1>1, <1>2, <1>3, <1>4, <1>5

\* Removing an element of a sequence leaves a sequence.
LEMMA EraseType ==
    ASSUME NEW S, NEW q \in Seq(S), NEW j \in DOMAIN q
    PROVE  erase(q, j) \in Seq(S)
  <1>1. j \in 1..Len(q) /\ Len(q) \in Nat OBVIOUS
  <1>2. SubSeq(q, 1, j - 1) \in Seq(S) BY <1>1
  <1>3. SubSeq(q, j + 1, Len(q)) \in Seq(S) BY <1>1
  <1> QED BY <1>2, <1>3 DEF erase

\* The lists stay sequences of servers.
LEMMA ListsStep == Types /\ [Next]_vars => ListsT'
  <1> SUFFICES ASSUME Types, [Next]_vars PROVE ListsT' OBVIOUS
  <1> USE FailoverAssumption DEF Types, ListsT, Master
  <1>1. CASE masterupdate BY <1>1 DEF masterupdate
  <1>2. CASE SpareMaster BY <1>2 DEF SpareMaster
  <1>3. CASE ClearList BY <1>3 DEF ClearList
  <1>4. CASE DropAll BY <1>4 DEF DropAll, standby
  <1>5. CASE Fail BY <1>5 DEF Fail, standby
  <1>6. CASE \E s \in Server : HeartBeat(s)
    <2>1. PICK s \in Server : HeartBeat(s) BY <1>6
    <2>2. server[s].cfd \in Master BY <2>1, FailoverAssumption DEF HeartBeat, Answers, Master
    <2> QED BY SMTT(30), <2>1, <2>2 DEF HeartBeat, standby
  <1>7. CASE \E m \in Master, s \in Server : Drop(m, s)
    <2>1. PICK m \in Master, s \in Server : Drop(m, s) BY <1>7
    <2>2. PICK j \in DOMAIN IPportlist[m] : IPportlist' = [IPportlist EXCEPT ![m] = erase(@, j)]
      BY Zenon, <2>1 DEF Drop
    <2>3. erase(IPportlist[m], j) \in Seq(Server) BY <2>2, EraseType
    <2> QED BY <2>1, <2>2, <2>3 DEF Drop, standby
  <1>8. CASE \/ Sample \/ Check \/ Redirect \/ TakeOver \/ Restart
              \/ (\E s \in Server : refleshmaster(s))
              \/ (\E s \in Server : heartbeat_connect(s))
              \/ (\E s \in Server : Start(s)) \/ (\E s \in Server : Crash(s))
              \/ UNCHANGED vars
    BY Zenon, <1>8 DEF Sample, Check, Redirect, TakeOver, Restart, refleshmaster,
      heartbeat_connect, Start, Crash, vars, standby
  <1> QED BY SMTT(30), <1>1, <1>2, <1>3, <1>4, <1>5, <1>6, <1>7, <1>8 DEF Next, Watch

\* The servers' records keep their fields.
LEMMA ServerStep == Types /\ [Next]_vars => ServerT'
  <1> SUFFICES ASSUME Types, [Next]_vars PROVE ServerT' OBVIOUS
  <1> USE FailoverAssumption DEF Types, ServerT, Master
  <1>1. CASE \E s \in Server : refleshmaster(s) BY <1>1 DEF refleshmaster
  <1>2. CASE \E s \in Server : heartbeat_connect(s) BY <1>2 DEF heartbeat_connect
  <1>3. CASE \E s \in Server : Start(s) BY <1>3 DEF Start
  <1>4. CASE \E s \in Server : Crash(s)
    <2>1. PICK s \in Server : Crash(s) BY <1>4
    <2>2. [server[s] EXCEPT !.run = FALSE, !.cfd = None]
            \in [run : BOOLEAN, master_addr : Master, cfd : Master \cup {None}]
      BY Zenon
    <2> QED BY <2>1, <2>2 DEF Crash
  <1>5. CASE Fail BY ZenonT(30), <1>5 DEF Fail
  <1>6. CASE \/ masterupdate \/ SpareMaster \/ Sample \/ Check \/ Redirect \/ ClearList
              \/ TakeOver \/ DropAll \/ Restart \/ (\E s \in Server : HeartBeat(s))
              \/ (\E m \in Master, s \in Server : Drop(m, s)) \/ UNCHANGED vars
    BY Zenon, <1>6 DEF masterupdate, SpareMaster, Sample, Check, Redirect, ClearList,
      TakeOver, DropAll, Restart, HeartBeat, Drop, vars, standby
  <1> QED BY Zenon, <1>1, <1>2, <1>3, <1>4, <1>5, <1>6 DEF Next, Watch

\* The thread's state stays one of its places and an index.
LEMMA ThreadStep == Types /\ [Next]_vars => ThreadT'
  <1> SUFFICES ASSUME Types, [Next]_vars PROVE ThreadT' OBVIOUS
  <1> USE DEF Types, ThreadT, ThreadPC, At
  <1>1. CASE Sample BY <1>1 DEF Sample
  <1>2. CASE Check BY <1>2 DEF Check
  <1>3. CASE Redirect BY <1>3 DEF Redirect
  <1>4. CASE ClearList BY <1>4 DEF ClearList
  <1>5. CASE TakeOver BY <1>5 DEF TakeOver
  <1>6. CASE \/ masterupdate \/ SpareMaster \/ DropAll \/ Fail \/ Restart
              \/ (\E s \in Server : refleshmaster(s))
              \/ (\E s \in Server : heartbeat_connect(s))
              \/ (\E s \in Server : HeartBeat(s)) \/ (\E s \in Server : Start(s))
              \/ (\E s \in Server : Crash(s))
              \/ (\E m \in Master, s \in Server : Drop(m, s)) \/ UNCHANGED vars
    BY Zenon, <1>6 DEF masterupdate, SpareMaster, DropAll, Fail, Restart, refleshmaster,
      heartbeat_connect, HeartBeat, Start, Crash, Drop, vars, standby
  <1> QED BY Zenon, <1>1, <1>2, <1>3, <1>4, <1>5, <1>6 DEF Next, Watch

\* The bounds stay natural numbers, and a run that is undisturbed was so before.
LEMMA LeftStep == Types /\ [Next]_vars => (LeftT' /\ (Undisturbed' => Undisturbed))
  <1> SUFFICES ASSUME Types, [Next]_vars PROVE (LeftT' /\ (Undisturbed' => Undisturbed)) OBVIOUS
  <1> USE DEF Types
  <1>1. CASE Check BY <1>1, UseStep DEF Check, LeftT, Undisturbed
  <1>2. CASE Fail BY <1>2, UseStep DEF Fail
  <1>3. CASE Restart BY <1>3, UseStep DEF Restart
  <1>4. CASE \E s \in Server : Start(s) BY <1>4, UseStep DEF Start
  <1>5. CASE \E s \in Server : Crash(s)
    <2>1. Use("crashes") BY ZenonT(30), <1>5 DEF Crash
    <2> QED BY <2>1, UseStep
  <1>6. CASE \/ masterupdate \/ SpareMaster \/ Sample \/ Redirect \/ ClearList
              \/ TakeOver \/ DropAll \/ (\E s \in Server : refleshmaster(s))
              \/ (\E s \in Server : heartbeat_connect(s))
              \/ (\E s \in Server : HeartBeat(s))
              \/ (\E m \in Master, s \in Server : Drop(m, s)) \/ UNCHANGED vars
    BY <1>6 DEF masterupdate, SpareMaster, Sample, Redirect, ClearList, TakeOver,
      DropAll, refleshmaster, heartbeat_connect, HeartBeat, Drop, vars, standby, LeftT,
      Undisturbed
  <1> QED BY Zenon, <1>1, <1>2, <1>3, <1>4, <1>5, <1>6 DEF Next, Watch

\* Only a running main has connections: its failure breaks them all.
LEMMA ConnectedStep == Types /\ MainConnected /\ [Next]_vars => MainConnected'
  <1> SUFFICES ASSUME Types, MainConnected, [Next]_vars PROVE MainConnected' OBVIOUS
  <1> USE FailoverAssumption DEF Types, ServerT, Master, MainConnected
  <1>1. CASE \E s \in Server : refleshmaster(s) BY <1>1 DEF refleshmaster
  <1>2. CASE \E s \in Server : heartbeat_connect(s) BY <1>2 DEF heartbeat_connect, Answers
  <1>3. CASE \E s \in Server : Start(s) BY <1>3 DEF Start
  <1>4. CASE \E s \in Server : Crash(s) BY <1>4 DEF Crash
  <1>5. CASE Fail BY <1>5 DEF Fail
  <1>6. CASE Restart BY <1>6 DEF Restart
  <1>7. CASE \/ masterupdate \/ SpareMaster \/ Sample \/ Check \/ Redirect \/ ClearList
              \/ TakeOver \/ DropAll \/ (\E s \in Server : HeartBeat(s))
              \/ (\E m \in Master, s \in Server : Drop(m, s)) \/ UNCHANGED vars
    <2>1. CASE masterupdate \/ SpareMaster BY SMTT(30), <2>1 DEF masterupdate, SpareMaster
    <2>2. CASE Sample \/ Check \/ Redirect BY <2>2 DEF Sample, Check, Redirect
    <2>3. CASE ClearList \/ TakeOver BY <2>3 DEF ClearList, TakeOver
    <2>4. CASE DropAll BY <2>4 DEF DropAll
    <2>5. CASE \E s \in Server : HeartBeat(s) BY <2>5 DEF HeartBeat
    <2>6. CASE \E m \in Master, s \in Server : Drop(m, s) BY <2>6 DEF Drop
    <2>7. CASE UNCHANGED vars BY <2>7 DEF vars
    <2> QED BY Zenon, <1>7, <2>1, <2>2, <2>3, <2>4, <2>5, <2>6, <2>7
  <1> QED BY Zenon, <1>1, <1>2, <1>3, <1>4, <1>5, <1>6, <1>7 DEF Next, Watch

\* What the standby did shows that the main is down.
LEMMA DeadStep == Types /\ Dead /\ Undisturbed' /\ [Next]_vars => Dead'
  <1> SUFFICES ASSUME Types, Dead, Undisturbed', [Next]_vars PROVE Dead' OBVIOUS
  <1> USE FailoverAssumption DEF Types, ServerT, ThreadT, ThreadPC, Master, Dead, Gone
  <1>1. CASE masterupdate BY <1>1 DEF masterupdate
  <1>2. CASE SpareMaster BY <1>2 DEF SpareMaster
  <1>3. CASE Sample BY <1>3 DEF Sample, At
  <1>4. CASE Check
    <2>1. ~(silent /\ (up \/ updates /= <<>>))
      BY Zenon, <1>4, UseStep DEF Check
    <2> QED BY <1>4, <2>1 DEF Check, At
  <1>5. CASE Redirect BY <1>5 DEF Redirect, At
  <1>6. CASE ClearList BY <1>6 DEF ClearList, At
  <1>7. CASE TakeOver BY <1>7 DEF TakeOver, At
  <1>8. CASE \E s \in Server : refleshmaster(s) BY <1>8 DEF refleshmaster, standby
  <1>9. CASE \E s \in Server : heartbeat_connect(s) BY <1>9 DEF heartbeat_connect, standby
  <1>10. CASE \E s \in Server : Start(s) BY <1>10 DEF Start, standby
  <1>11. CASE \E s \in Server : Crash(s) BY <1>11 DEF Crash, standby
  <1>12. CASE Fail BY <1>12 DEF Fail, standby
  <1>13. CASE Restart BY <1>13, UseStep DEF Restart
  <1>14. CASE \/ DropAll \/ (\E s \in Server : HeartBeat(s))
              \/ (\E m \in Master, s \in Server : Drop(m, s)) \/ UNCHANGED vars
    <2>1. CASE DropAll BY <2>1 DEF DropAll, standby
    <2>2. CASE \E s \in Server : HeartBeat(s) BY <2>2 DEF HeartBeat, standby
    <2>3. CASE \E m \in Master, s \in Server : Drop(m, s) BY SMTT(30), <2>3 DEF Drop, standby
    <2>4. CASE UNCHANGED vars BY <2>4 DEF vars, standby
    <2> QED BY Zenon, <1>14, <2>1, <2>2, <2>3, <2>4
  <1> QED BY Zenon, <1>1, <1>2, <1>3, <1>4, <1>5, <1>6, <1>7, <1>8, <1>9, <1>10, <1>11, <1>12, <1>13, <1>14 DEF Next, Watch

\* The walk over the list: nothing changes the list under it.
LEMMA WalkStep == Types /\ Dead /\ Walk /\ Undisturbed' /\ [Next]_vars => Walk'
  <1> SUFFICES ASSUME Types, Dead, Walk, Undisturbed', [Next]_vars PROVE Walk' OBVIOUS
  <1> USE FailoverAssumption DEF Types, ListsT, ThreadT, ThreadPC, Master, Dead, Gone, Walk, Members
  <1>1. CASE masterupdate BY <1>1 DEF masterupdate
  <1>2. CASE SpareMaster BY SMTT(30), <1>2 DEF SpareMaster
  <1>3. CASE Sample BY <1>3 DEF Sample, At
  <1>4. CASE Check BY <1>4 DEF Check, At
  <1>5. CASE Redirect BY SMTT(30), <1>5 DEF Redirect, At
  <1>6. CASE ClearList BY <1>6 DEF ClearList, At
  <1>7. CASE TakeOver BY <1>7 DEF TakeOver, At
  <1>8. CASE DropAll BY <1>8 DEF DropAll, standby
  <1>9. CASE Fail BY SMTT(30), <1>9 DEF Fail, standby
  <1>10. CASE \E s \in Server : HeartBeat(s)
    <2>1. PICK s \in Server : HeartBeat(s) BY Zenon, <1>10
    <2>2. /\ masterstate' = masterstate /\ flag7' = flag7 /\ copied' = copied /\ told' = told
          /\ masterstate.at # "done" => IPportlist'[Standby] = IPportlist[Standby]
      BY <2>1 DEF HeartBeat, standby, Answers
    <2> QED BY SMTT(30), <2>2
  <1>11. CASE \E m \in Master, s \in Server : Drop(m, s)
    <2>1. PICK m \in Master, s \in Server : Drop(m, s) BY <1>11
    <2>2. /\ masterstate' = masterstate /\ flag7' = flag7 /\ copied' = copied /\ told' = told
          /\ masterstate.at # "done" => IPportlist'[Standby] = IPportlist[Standby]
      BY <2>1 DEF Drop, standby
    <2> QED BY SMTT(30), <2>2
  <1>12. CASE Restart BY SMTT(30), <1>12 DEF Restart, standby
  <1>13. CASE \E s \in Server : refleshmaster(s) BY SMTT(30), <1>13 DEF refleshmaster, standby
  <1>14. CASE \E s \in Server : heartbeat_connect(s) BY SMTT(30), <1>14 DEF heartbeat_connect, standby
  <1>15. CASE \E s \in Server : Start(s) BY SMTT(30), <1>15 DEF Start, standby
  <1>16. CASE \E s \in Server : Crash(s) BY SMTT(30), <1>16 DEF Crash, standby
  <1>17. CASE UNCHANGED vars
    <2>1. UNCHANGED <<IPportlist, flag7, masterstate, told, copied>> BY <1>17 DEF vars, standby
    <2> QED BY SMTT(30), <2>1
  <1> QED BY Zenon, <1>1, <1>2, <1>3, <1>4, <1>5, <1>6, <1>7, <1>8, <1>9, <1>10, <1>11, <1>12, <1>13, <1>14, <1>15, <1>16, <1>17 DEF Next, Watch

\* The invariant is inductive.
LEMMA IInvStep == IInv /\ [Next]_vars => IInv'
  <1> SUFFICES ASSUME IInv, [Next]_vars PROVE IInv' OBVIOUS
  <1>1. Types' BY ListsStep, ThreadStep, ServerStep, LeftStep DEF IInv, Types
  <1>2. MainConnected' BY ConnectedStep DEF IInv
  <1>3. ASSUME Undisturbed' PROVE Dead' /\ Walk' BY <1>3, LeftStep, DeadStep, WalkStep DEF IInv
  <1> QED BY <1>1, <1>2, <1>3 DEF IInv

\* It holds in every state.
LEMMA IInvHolds == Spec => []IInv
  BY InitIInv, IInvStep, PTL DEF Spec
-----------------------------------------------------------------------------
\* For any set of cache servers, no number of starts and crashes lets one server
\* beat for the main while another beats for the standby, unless a check was late
\* or the main came back.
THEOREM NoSplitCorrect == Spec => []NoSplit
  <1>1. IInv => NoSplit
    BY FailoverAssumption DEF IInv, NoSplit, OneMaster, Beats, MainConnected, Dead, Types, ServerT
  <1> QED BY <1>1, IInvHolds, PTL

\* For any set of cache servers, the loop of the thread masterstate writes to every
\* server of the last list before the standby takes over.
THEOREM RedirectCorrect == Spec => []RedirectCovers
  <1>1. IInv => RedirectCovers BY DEF IInv, RedirectCovers, AllRedirected, Walk
  <1> QED BY <1>1, IInvHolds, PTL
-----------------------------------------------------------------------------
(* The rest of TypeOK.  The index of the thread passes the end of a list   *)
(* by one at most, and a list is no longer than there are servers because  *)
(* it holds none twice.                                                    *)
Distinct(q) == \A i, j \in 1..Len(q) : q[i] = q[j] => i = j

\* The lists of the masters and those in the socket hold no server twice.
Unique ==
    /\ \A m \in Master : Distinct(IPportlist[m])
    /\ \A n \in 1..Len(updates) : Distinct(updates[n])

FlagT == up \in BOOLEAN /\ heard \in BOOLEAN /\ silent \in BOOLEAN /\ flag7 \in BOOLEAN
SetT == told \in SUBSET Server /\ copied \in SUBSET Server /\ redirect \in SUBSET Server
BoundT ==
    /\ Len(updates) <= MaxUnread
    /\ left \in [starts : 0..MaxStarts, crashes : 0..MaxCrashes, failures : 0..MaxFailures,
                 restarts : 0..MaxRestarts, late : 0..MaxLate]
IndexT == masterstate.i \in 1..(Cardinality(Server) + 1)

\* A list without repetitions is no longer than there are servers.
LEMMA DistinctLength ==
    ASSUME NEW q \in Seq(Server), Distinct(q)
    PROVE  Len(q) <= Cardinality(Server) /\ Cardinality(Server) \in Nat
  <1>1. IsFiniteSet(Server) BY FailoverAssumption
  <1>2. Cardinality(Server) \in Nat BY <1>1, FS_CardinalityType
  <1>3. IsFiniteSet(1..Len(q)) /\ Cardinality(1..Len(q)) = Len(q)
    <2>1. Len(q) \in Nat OBVIOUS
    <2>2. /\ IsFiniteSet(1..Len(q))
          /\ Cardinality(1..Len(q)) = IF 1 > Len(q) THEN 0 ELSE Len(q) - 1 + 1
      BY SMTT(30), <2>1, FS_Interval
    <2> QED BY <2>1, <2>2
  <1>4. ASSUME Cardinality(Server) < Len(q) PROVE FALSE
    <2>1. q \in [1..Len(q) -> Server] OBVIOUS
    <2>2. \E x, y \in 1..Len(q) : x # y /\ q[x] = q[y]
      BY <1>1, <1>3, <1>4, <2>1, FS_PigeonHole
    <2> QED BY <2>2 DEF Distinct
  <1> QED BY <1>2, <1>4

\* Appending a server that is not in the list keeps the servers of it distinct.
LEMMA DistinctAppend ==
    ASSUME NEW q \in Seq(Server), Distinct(q), NEW s \in Server, s \notin Members(q)
    PROVE  Distinct(Append(q, s))
  BY DEF Distinct, Members

\* So does erasing one.
LEMMA DistinctErase ==
    ASSUME NEW q \in Seq(Server), Distinct(q), NEW j \in DOMAIN q
    PROVE  Distinct(erase(q, j))
  <1>1. j \in 1..Len(q) /\ Len(q) \in Nat OBVIOUS
  <1> DEFINE r == erase(q, j)
  <1>2. SubSeq(q, 1, j - 1) \in Seq(Server) /\ SubSeq(q, j + 1, Len(q)) \in Seq(Server) BY <1>1
  <1>3. Len(SubSeq(q, 1, j - 1)) = j - 1 /\ Len(SubSeq(q, j + 1, Len(q))) = Len(q) - j BY <1>1
  <1> DEFINE a == SubSeq(q, 1, j - 1)
             b == SubSeq(q, j + 1, Len(q))
  <1>4. r = a \o b BY DEF erase
  <1>5. (\A i \in 1..(j - 1) : a[i] = q[i]) /\ \A i \in 1..(Len(q) - j) : b[i] = q[i + j]
    BY <1>1
  <1> HIDE DEF r, a, b
  <1>6. r \in Seq(Server) /\ Len(r) = Len(q) - 1
    <2>1. a \in Seq(Server) /\ b \in Seq(Server) /\ Len(a) = j - 1 /\ Len(b) = Len(q) - j
      BY <1>2, <1>3 DEF a, b
    <2>2. r \in Seq(Server) /\ Len(r) = Len(a) + Len(b) BY SMTT(30), <1>4, <2>1
    <2>3. \A m \in Nat : \A i \in 1..m : (i - 1) + (m - i) = m - 1 OBVIOUS
    <2> QED BY <1>1, <2>1, <2>2, <2>3
  <1>7. \A i \in 1..Len(r) : r[i] = q[IF i < j THEN i ELSE i + 1]
    <2> SUFFICES ASSUME NEW i \in 1..Len(r) PROVE r[i] = q[IF i < j THEN i ELSE i + 1] OBVIOUS
    <2>1. a \in Seq(Server) /\ b \in Seq(Server) /\ Len(a) = j - 1 /\ Len(b) = Len(q) - j
      BY <1>2, <1>3 DEF a, b
    <2>2. r[i] = IF i <= Len(a) THEN a[i] ELSE b[i - Len(a)] BY <1>4, <2>1
    <2>3. CASE i < j BY SMTT(30), <1>1, <1>5, <2>1, <2>2, <2>3
    <2>4. CASE ~(i < j)
      <3>1. i - (j - 1) \in 1..(Len(q) - j) /\ i - (j - 1) + j = i + 1 BY <1>1, <1>6, <2>4
      <3>2. r[i] = b[i - (j - 1)] BY <1>1, <2>1, <2>2, <2>4
      <3>3. b[i - (j - 1)] = q[i - (j - 1) + j] BY <1>5, <3>1
      <3> QED BY <2>4, <3>1, <3>2, <3>3
    <2> QED BY <2>3, <2>4
  <1>8. Distinct(r)
    <2> SUFFICES ASSUME NEW x \in 1..Len(r), NEW y \in 1..Len(r), r[x] = r[y] PROVE x = y
      BY DEF Distinct
    <2> DEFINE at(i) == IF i < j THEN i ELSE i + 1
    <2>1. at(x) \in 1..Len(q) /\ at(y) \in 1..Len(q) BY <1>1, <1>6
    <2>2. q[at(x)] = q[at(y)] BY <1>7
    <2>3. at(x) = at(y)
      <3> HIDE DEF at
      <3> QED BY <2>1, <2>2 DEF Distinct
    <2> QED BY <2>3, <1>1
  <1> QED BY <1>8 DEF r

\* A step that gives one master a list without repetitions keeps all lists so.
LEMMA UniqueList ==
    ASSUME Types, Unique, NEW m \in Master, NEW q, Distinct(q),
           IPportlist' = [IPportlist EXCEPT ![m] = q], updates' \in {updates, <<>>}
    PROVE  Unique'
  BY DEF Types, ListsT, Unique

\* Registering asks first whether the server is in the list, and the standby takes
\* over a list of the main as it is.
LEMMA UniqueStep == Types /\ Unique /\ [Next]_vars => Unique'
  <1> SUFFICES ASSUME Types, Unique, [Next]_vars PROVE Unique' OBVIOUS
  <1> USE FailoverAssumption DEF Master
  <1>0. Distinct(<<>>) BY DEF Distinct
  <1>1. CASE masterupdate
    <2>1. /\ IPportlist' = IPportlist /\ updates' = Append(updates, IPportlist[Main])
          /\ IPportlist[Main] \in Seq(Server) /\ updates \in Seq(Seq(Server))
      BY <1>1 DEF masterupdate, Types, ListsT
    <2>2. Distinct(IPportlist[Main]) BY DEF Unique
    <2> QED BY <2>1, <2>2 DEF Unique
  <1>2. CASE SpareMaster
    <2>1. updates # <<>> /\ updates' = <<>> /\ updates \in Seq(Seq(Server))
      BY <1>2 DEF SpareMaster, Types, ListsT
    <2>2. Head(updates) = updates[1] /\ 1 \in 1..Len(updates) BY <2>1
    <2>3. Distinct(Head(updates)) BY <2>2 DEF Unique
    <2>4. IPportlist' = IPportlist \/ IPportlist' = [IPportlist EXCEPT ![Standby] = Head(updates)]
      BY <1>2 DEF SpareMaster
    <2>5. CASE IPportlist' = IPportlist BY <2>1, <2>5 DEF Unique
    <2>6. CASE IPportlist' = [IPportlist EXCEPT ![Standby] = Head(updates)]
      BY Zenon, <2>1, <2>3, <2>6, UniqueList
    <2> QED BY <2>4, <2>5, <2>6
  <1>3. CASE ClearList BY Zenon, <1>0, <1>3, UniqueList DEF ClearList
  <1>4. CASE DropAll BY Zenon, <1>0, <1>4, UniqueList DEF DropAll, standby
  <1>5. CASE Fail BY Zenon, <1>0, <1>5, UniqueList DEF Fail, standby
  <1>6. CASE \E s \in Server : HeartBeat(s)
    <2>1. PICK s \in Server : HeartBeat(s) BY <1>6
    <2> DEFINE m == server[s].cfd
    <2>2. m \in Master BY Zenon, <2>1 DEF HeartBeat, Answers
    <2>3. /\ s \notin Members(IPportlist[m]) /\ updates' = updates
          /\ IPportlist' = [IPportlist EXCEPT ![m] = Append(IPportlist[m], s)]
      BY <2>1 DEF HeartBeat, standby, Listed
    <2> HIDE DEF m
    <2>4. IPportlist[m] \in Seq(Server) /\ Distinct(IPportlist[m])
      BY <2>2 DEF Types, ListsT, Unique
    <2>5. Distinct(Append(IPportlist[m], s)) BY <2>3, <2>4, DistinctAppend
    <2> QED BY Zenon, <2>2, <2>3, <2>5, UniqueList
  <1>7. CASE \E m \in Master, s \in Server : Drop(m, s)
    <2>1. PICK m \in Master, s \in Server : Drop(m, s) BY <1>7
    <2>2. PICK j \in DOMAIN IPportlist[m] :
                 IPportlist' = [IPportlist EXCEPT ![m] = erase(IPportlist[m], j)]
      BY Zenon, <2>1 DEF Drop
    <2>3. IPportlist[m] \in Seq(Server) /\ Distinct(IPportlist[m]) BY DEF Types, ListsT, Unique
    <2>4. Distinct(erase(IPportlist[m], j)) BY <2>3, DistinctErase
    <2>5. updates' = updates BY <2>1 DEF Drop, standby
    <2> QED BY Zenon, <2>2, <2>4, <2>5, UniqueList
  <1>8. CASE UNCHANGED <<IPportlist, updates>> BY <1>8 DEF Unique
  <1> QED BY ZenonT(30), <1>1, <1>2, <1>3, <1>4, <1>5, <1>6, <1>7, <1>8 DEF Next, Watch, Sample, Check,
    Redirect, TakeOver, Restart, refleshmaster, heartbeat_connect, Start, Crash, vars, standby

\* What is left of a bound may be lowered.
LEMMA Lower ==
    ASSUME NEW n \in Nat, NEW x \in 0..n, x > 0 PROVE x - 1 \in 0..n
OBVIOUS

\* A use of a bound stays within it.
LEMMA UseBound ==
    ASSUME BoundT, NEW what \in {"starts", "crashes", "failures", "restarts", "late"}, Use(what),
           updates' = updates
    PROVE  BoundT'
  <1>0. /\ MaxStarts \in Nat /\ MaxCrashes \in Nat /\ MaxFailures \in Nat /\ MaxRestarts \in Nat
        /\ MaxLate \in Nat /\ Len(updates') <= MaxUnread
        /\ left.starts \in 0..MaxStarts /\ left.crashes \in 0..MaxCrashes
        /\ left.failures \in 0..MaxFailures /\ left.restarts \in 0..MaxRestarts
        /\ left.late \in 0..MaxLate
    BY FailoverAssumption DEF BoundT
  <1>1. CASE what = "starts"
    <2>1. left.starts > 0 /\ left' = [left EXCEPT !.starts = @ - 1] BY Zenon, <1>1 DEF Use
    <2>2. left.starts - 1 \in 0..MaxStarts BY Zenon, <1>0, <2>1, Lower
    <2> QED BY Zenon, <1>0, <2>1, <2>2 DEF BoundT
  <1>2. CASE what = "crashes"
    <2>1. left.crashes > 0 /\ left' = [left EXCEPT !.crashes = @ - 1] BY Zenon, <1>2 DEF Use
    <2>2. left.crashes - 1 \in 0..MaxCrashes BY Zenon, <1>0, <2>1, Lower
    <2> QED BY Zenon, <1>0, <2>1, <2>2 DEF BoundT
  <1>3. CASE what = "failures"
    <2>1. left.failures > 0 /\ left' = [left EXCEPT !.failures = @ - 1] BY Zenon, <1>3 DEF Use
    <2>2. left.failures - 1 \in 0..MaxFailures BY Zenon, <1>0, <2>1, Lower
    <2> QED BY Zenon, <1>0, <2>1, <2>2 DEF BoundT
  <1>4. CASE what = "restarts"
    <2>1. left.restarts > 0 /\ left' = [left EXCEPT !.restarts = @ - 1] BY Zenon, <1>4 DEF Use
    <2>2. left.restarts - 1 \in 0..MaxRestarts BY Zenon, <1>0, <2>1, Lower
    <2> QED BY Zenon, <1>0, <2>1, <2>2 DEF BoundT
  <1>5. CASE what = "late"
    <2>1. left.late > 0 /\ left' = [left EXCEPT !.late = @ - 1] BY Zenon, <1>5 DEF Use
    <2>2. left.late - 1 \in 0..MaxLate BY Zenon, <1>0, <2>1, Lower
    <2> QED BY Zenon, <1>0, <2>1, <2>2 DEF BoundT
  <1> QED BY Zenon, <1>1, <1>2, <1>3, <1>4, <1>5

\* No action exceeds a bound.
LEMMA BoundStep == Types /\ BoundT /\ [Next]_vars => BoundT'
  <1> SUFFICES ASSUME Types, BoundT, [Next]_vars PROVE BoundT' OBVIOUS
  <1>1. CASE masterupdate
    <2>1. /\ updates \in Seq(Seq(Server)) /\ IPportlist[Main] \in Seq(Server) /\ left' = left
          /\ Len(updates) < MaxUnread /\ updates' = Append(updates, IPportlist[Main])
      BY <1>1 DEF masterupdate, Types, ListsT, Master
    <2>2. Len(updates') = Len(updates) + 1 /\ Len(updates) \in Nat BY <2>1
    <2> QED BY <2>1, <2>2, FailoverAssumption DEF BoundT
  <1>2. CASE SpareMaster BY <1>2, FailoverAssumption DEF SpareMaster, BoundT
  <1>3. CASE Check BY <1>3, UseBound DEF Check, BoundT
  <1>4. CASE Fail BY <1>4, UseBound DEF Fail, standby
  <1>5. CASE Restart BY <1>5, UseBound DEF Restart, standby
  <1>6. CASE \E s \in Server : Start(s) BY <1>6, UseBound DEF Start, standby
  <1>7. CASE \E s \in Server : Crash(s) BY <1>7, UseBound DEF Crash, standby
  <1>8. CASE UNCHANGED <<updates, left>> BY <1>8 DEF BoundT
  <1> QED BY Zenon, <1>1, <1>2, <1>3, <1>4, <1>5, <1>6, <1>7, <1>8 DEF Next, Watch, Sample, Redirect,
    ClearList, TakeOver, refleshmaster, heartbeat_connect, HeartBeat, Drop, DropAll, vars, standby

\* The index stops one place after the end of the list.
LEMMA IndexStep == Types /\ Unique /\ IndexT /\ [Next]_vars => IndexT'
  <1> SUFFICES ASSUME Types, Unique, IndexT, [Next]_vars PROVE IndexT' OBVIOUS
  <1>0. Cardinality(Server) \in Nat BY FailoverAssumption, FS_CardinalityType
  <1>1. CASE Redirect
    <2> DEFINE q == IPportlist[Standby]
    <2>1. q \in Seq(Server) /\ Distinct(q) BY DEF Types, ListsT, Unique, Master
    <2>2. masterstate.i <= Len(q) /\ masterstate'.i = masterstate.i + 1
      BY <1>1 DEF Redirect, At
    <2> HIDE DEF q
    <2>3. Len(q) <= Cardinality(Server) /\ Len(q) \in Nat BY <2>1, DistinctLength
    <2> QED BY <1>0, <2>2, <2>3 DEF IndexT
  <1>2. CASE Sample \/ Check \/ ClearList \/ TakeOver
    <2>1. masterstate'.i = 1 BY <1>2 DEF Sample, Check, ClearList, TakeOver, At
    <2> QED BY <1>0, <2>1 DEF IndexT
  <1>3. CASE UNCHANGED masterstate BY <1>3 DEF IndexT
  <1> QED BY Zenon, <1>1, <1>2, <1>3 DEF Next, Watch, masterupdate, SpareMaster, refleshmaster,
    heartbeat_connect, HeartBeat, Drop, DropAll, Start, Crash, Fail, Restart, vars, standby

\* The flags are Boolean.
LEMMA FlagStep == FlagT /\ [Next]_vars => FlagT'
  <1> SUFFICES ASSUME FlagT, [Next]_vars PROVE FlagT' OBVIOUS
  <1> USE DEF FlagT
  <1>1. CASE SpareMaster
    <2>1. up' = up /\ flag7' = flag7 BY <1>1 DEF SpareMaster
    <2>2. silent' = silent \/ (silent' = (silent /\ ~heard)) BY <1>1 DEF SpareMaster
    <2>3. heard' = heard \/ (heard' = TRUE) BY <1>1 DEF SpareMaster
    <2>4. silent' \in BOOLEAN BY Zenon, <2>2
    <2>5. heard' \in BOOLEAN BY Zenon, <2>3
    <2> QED BY <2>1, <2>4, <2>5
  <1>2. CASE Sample BY <1>2 DEF Sample
  <1>3. CASE TakeOver BY <1>3 DEF TakeOver
  <1>4. CASE Fail BY Zenon, <1>4 DEF Fail, standby
  <1>5. CASE Restart BY <1>5 DEF Restart, standby
  <1>6. CASE UNCHANGED <<up, heard, silent, flag7>> BY <1>6
  <1> QED BY ZenonT(30), <1>1, <1>2, <1>3, <1>4, <1>5, <1>6 DEF Next, Watch, Check, Redirect, ClearList,
    masterupdate, refleshmaster, heartbeat_connect, HeartBeat, Drop, DropAll, Start, Crash, vars, standby

\* What the thread tells, and what it copies, are servers of its list.
LEMMA SetStep == Types /\ IndexT /\ SetT /\ [Next]_vars => SetT'
  <1> SUFFICES ASSUME Types, IndexT, SetT, [Next]_vars PROVE SetT' OBVIOUS
  <1> USE DEF SetT
  <1>1. CASE SpareMaster
    <2>1. updates # <<>> /\ updates \in Seq(Seq(Server)) BY <1>1 DEF SpareMaster, Types, ListsT
    <2>2. Head(updates) \in Seq(Server) BY <2>1
    <2>3. Members(Head(updates)) \in SUBSET Server BY <2>2 DEF Members
    <2> QED BY <1>1, <2>3 DEF SpareMaster
  <1>2. CASE Redirect
    <2>1. IPportlist[Standby] \in Seq(Server) /\ masterstate.i \in 1..Len(IPportlist[Standby])
      <3>1. IPportlist[Standby] \in Seq(Server) BY DEF Types, ListsT, Master
      <3>2. masterstate.i <= Len(IPportlist[Standby]) BY <1>2 DEF Redirect
      <3>3. masterstate.i \in Int /\ masterstate.i >= 1
        BY FailoverAssumption, FS_CardinalityType DEF IndexT
      <3> QED BY <3>1, <3>2, <3>3
    <2>2. IPportlist[Standby][masterstate.i] \in Server BY <2>1
    <2> QED BY <1>2, <2>2 DEF Redirect
  <1>3. CASE \E s \in Server : refleshmaster(s) BY <1>3 DEF refleshmaster, standby
  <1>4. CASE \E s \in Server : Crash(s) BY <1>4 DEF Crash, standby
  <1>5. CASE UNCHANGED <<told, copied, redirect>> BY <1>5
  <1> QED BY ZenonT(30), <1>1, <1>2, <1>3, <1>4, <1>5 DEF Next, Watch, Sample, Check, ClearList, TakeOver,
    masterupdate, heartbeat_connect, HeartBeat, Drop, DropAll, Start, Fail, Restart, vars, standby

\* For any set of cache servers, the thread's index never passes the number of servers
\* by more than one, whatever list replaces the one it walks, and every list of a
\* master, message and set of servers keeps its type.
THEOREM FailoverTypeCorrect == Spec => []TypeOK
  <1> DEFINE Rest == Unique /\ FlagT /\ SetT /\ BoundT /\ IndexT
  <1>1. Init => Rest
    <2> SUFFICES ASSUME Init PROVE Rest OBVIOUS
    <2>1. Unique BY DEF Init, Unique, Distinct, Master
    <2>2. FlagT BY Zenon DEF Init, FlagT
    <2>3. SetT BY DEF Init, SetT
    <2>4. BoundT BY SMTT(30), FailoverAssumption DEF Init, BoundT
    <2>5. IndexT BY FailoverAssumption, FS_CardinalityType DEF Init, IndexT
    <2> QED BY Zenon, <2>1, <2>2, <2>3, <2>4, <2>5
  <1>2. IInv /\ Rest /\ [Next]_vars => Rest'
    BY Zenon, UniqueStep, FlagStep, SetStep, BoundStep, IndexStep DEF IInv
  <1>3. IInv /\ Rest => TypeOK
    <2> SUFFICES ASSUME IInv, Rest PROVE TypeOK OBVIOUS
    <2>1. DOMAIN IPportlist = Master /\ \A m \in Master : IPportlist[m] \in Seq(Server)
      BY DEF IInv, Types, ListsT
    <2>2. \A l \in Members(updates) : l \in Seq(Server) BY DEF IInv, Types, ListsT, Members
    <2>3. masterstate \in [at : ThreadPC, i : 1..(Cardinality(Server) + 1)]
      BY DEF IInv, Types, ThreadT, IndexT
    <2> QED BY <2>1, <2>2, <2>3 DEF IInv, Types, ServerT, FlagT, SetT, BoundT, TypeOK
  <1> HIDE DEF Rest
  <1> QED BY <1>1, <1>2, <1>3, InitIInv, IInvStep, PTL DEF Spec
=============================================================================
