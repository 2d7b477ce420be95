------------------------ MODULE ConsistentHashProofs ------------------------
(***************************************************************************)
(* For every set of servers, every number of virtual nodes and every hash  *)
(* function: the ring follows the members, adding or deleting a server     *)
(* moves only keys of that server, and the backups form one cycle.         *)
(***************************************************************************)
EXTENDS ConsistentHash, WellFoundedInduction, TLAPS

\* A non-empty set of naturals has a least element: what lower_bound, begin()
\* and the first claim on a position rely on.
LEMMA LeastExists ==
    ASSUME NEW S, S \subseteq Nat, S # {}
    PROVE  \E p \in S : \A q \in S : p <= q
<1> DEFINE R == OpToRel(<, Nat)
<1>1. IsWellFoundedOn(R, Nat)
  BY NatLessThanWellFounded
<1>2. \A x, y \in Nat : <<y, x>> \notin R => x <= y
  BY DEF OpToRel
<1> HIDE DEF R
<1>3. \E x \in S : \A y \in S : ~(<<y, x>> \in R)
  BY <1>1, WFMin
<1> QED
  BY <1>2, <1>3

\* Least picks the least element.
LEMMA LeastIs ==
    ASSUME NEW S, S \subseteq Nat, S # {}
    PROVE  Least(S) \in S /\ \A q \in S : Least(S) <= q
BY LeastExists DEF Least

\* Two sets of positions whose least elements are compared: if S lies in T and
\* has T's least element, both have the same least element.
LEMMA SameLeast ==
    ASSUME NEW S, NEW T, S \subseteq T, T \subseteq Nat, T # {}, Least(T) \in S
    PROVE  Least(S) = Least(T)
<1>1. Least(T) \in T /\ \A q \in T : Least(T) <= q
  BY LeastIs
<1>2. Least(S) \in S /\ \A q \in S : Least(S) <= q
  BY LeastIs
<1>3. Least(S) \in Nat /\ Least(T) \in Nat
  BY <1>1, <1>2
<1>4. Least(S) <= Least(T) /\ Least(T) <= Least(S)
  BY <1>1, <1>2
<1> QED
  BY <1>3, <1>4

\* The position at which GetServerIndex finds the owner of k.
after(ring, k) == {p \in Taken(ring) : p >= k}
place(ring, k) == Least(IF after(ring, k) = {} THEN Taken(ring) ELSE after(ring, k))

\* The place is a taken position.
LEMMA PlaceTaken ==
    ASSUME NEW ring, NEW k \in Pos, Taken(ring) # {}
    PROVE  place(ring, k) \in Taken(ring)
<1>1. Taken(ring) \subseteq Nat
  BY HashAssumption DEF Taken, Pos
<1>2. after(ring, k) \subseteq Taken(ring)
  BY DEF after
<1>3. CASE after(ring, k) = {}
  BY <1>1, <1>3, LeastIs DEF place
<1>4. CASE after(ring, k) # {}
  <2>1. Least(after(ring, k)) \in after(ring, k)
    BY <1>1, <1>2, <1>4, LeastIs
  <2> QED
    BY <2>1, <1>2, <1>4 DEF place
<1> QED
  BY <1>3, <1>4

\* A key stays where it is when other positions of the ring are given up.
LEMMA KeyStays ==
    ASSUME NEW big, NEW small, NEW k \in Pos,
           Taken(big) # {}, Taken(small) \subseteq Taken(big),
           place(big, k) \in Taken(small)
    PROVE  place(small, k) = place(big, k)
<1>1. Taken(big) \subseteq Nat
  BY HashAssumption DEF Taken, Pos
<1>2. after(small, k) = after(big, k) \cap Taken(small)
  BY DEF after
<1>3. CASE after(big, k) = {}
  <2>1. place(big, k) = Least(Taken(big)) /\ place(small, k) = Least(Taken(small))
    BY <1>2, <1>3 DEF place
  <2> QED
    BY <2>1, <1>1, SameLeast
<1>4. CASE after(big, k) # {}
  <2>1. place(big, k) = Least(after(big, k))
    BY <1>4 DEF place
  <2>2. after(big, k) \subseteq Nat
    BY <1>1 DEF after
  <2>3. place(big, k) \in after(small, k)
    BY <2>1, <2>2, <1>2, <1>4, LeastIs
  <2>4. place(small, k) = Least(after(small, k))
    BY <2>3 DEF place
  <2>5. after(small, k) \subseteq after(big, k)
    BY <1>2
  <2>6. Least(after(small, k)) = Least(after(big, k))
    BY <2>1, <2>2, <2>3, <2>5, <1>4, SameLeast
  <2> QED
    BY <2>1, <2>4, <2>6
<1> QED
  BY <1>3, <1>4

\* GetServerIndex reads the ring at the place of the key.
LEMMA IndexAtPlace ==
    ASSUME NEW ring, NEW k
    PROVE  GetServerIndex(ring, k) = ring[place(ring, k)]
BY DEF GetServerIndex, place, after

\* What RefreshIPList puts at a position: what is there, or else the server of
\* one of the claims on it.
LEMMA InsertAll ==
    ASSUME NEW ring, NEW list \in IPLists, NEW at, NEW p \in Pos
    PROVE  \/ /\ insertAll(ring, list, at)[p] = ring[p]
              /\ ring[p] # None \/ \A i \in DOMAIN list : p \notin at[list[i]]
           \/ \E i \in DOMAIN list :
                 p \in at[list[i]] /\ insertAll(ring, list, at)[p] = list[i]
<1> DEFINE claims == {i \in DOMAIN list : p \in at[list[i]]}
           first == CHOOSE i \in claims : \A j \in claims : i <= j
<1>1. claims \subseteq Nat
  BY DEF IPLists
<1>2. insertAll(ring, list, at)[p] =
        IF ring[p] = None /\ claims # {} THEN list[first] ELSE ring[p]
  BY DEF insertAll
<1>3. claims # {} => first \in claims
  <2> HIDE DEF claims
  <2> QED
    BY <1>1, LeastExists
<1>4. CASE ring[p] = None /\ claims # {}
  <2>1. first \in DOMAIN list /\ p \in at[list[first]]
    <3> HIDE DEF first
    <3> QED
      BY <1>3, <1>4
  <2> QED
    BY <1>2, <1>4, <2>1
<1>5. CASE ~(ring[p] = None /\ claims # {})
  BY <1>2, <1>5
<1> QED
  BY <1>4, <1>5

\* The lists RefreshIPList is given hold servers.
LEMMA ListServers ==
    ASSUME NEW list \in IPLists, NEW i \in DOMAIN list
    PROVE  list[i] \in Server
BY DEF IPLists
\* RefreshIPList leaves a ring.
LEMMA InsertAllRing ==
    ASSUME NEW ring \in Ring, NEW list \in IPLists, NEW at
    PROVE  insertAll(ring, list, at) \in Ring
<1>1. ASSUME NEW p \in Pos PROVE insertAll(ring, list, at)[p] \in Server \cup {None}
  <2>1. CASE insertAll(ring, list, at)[p] = ring[p]
    BY <2>1 DEF Ring
  <2>2. CASE \E i \in DOMAIN list : insertAll(ring, list, at)[p] = list[i]
    BY <2>2, ListServers
  <2>3. \/ insertAll(ring, list, at)[p] = ring[p]
        \/ \E i \in DOMAIN list : insertAll(ring, list, at)[p] = list[i]
    BY InsertAll
  <2> QED
    BY <2>1, <2>2, <2>3
<1>2. insertAll(ring, list, at) = [p \in Pos |-> insertAll(ring, list, at)[p]]
  BY DEF insertAll
<1> QED
  BY <1>1, <1>2 DEF Ring
-----------------------------------------------------------------------------
\* Every variable keeps its type: AddServer, DeleteServer and RefreshIPList
\* leave servers or None at every position of both rings.
THEOREM HashTypeCorrect == Spec => []TypeOK
<1>1. Init => TypeOK
  BY DEF Init, TypeOK, Ring
<1>2. TypeOK /\ [Next]_vars => TypeOK'
  <2> SUFFICES ASSUME TypeOK, [Next]_vars PROVE TypeOK'
    OBVIOUS
  <2> USE DEF TypeOK
  <2>1. ASSUME NEW s \in Server, AddServer(s) PROVE TypeOK'
    BY <2>1 DEF AddServer, insert, Ring
  <2>2. ASSUME NEW s \in Server, DeleteServer(s) PROVE TypeOK'
    BY <2>2 DEF DeleteServer, erase, Ring
  <2>3. ASSUME NEW l \in IPLists, RefreshIPList(l) PROVE TypeOK'
    <3>1. ASSUME NEW ring \in Ring, NEW at PROVE insertAll(ring, l, at) \in Ring
      BY InsertAllRing
    <3>2. [p \in Pos |-> None] \in Ring
      BY DEF Ring
    <3>3. virtualNodes' \in Ring /\ serverNodes' \in Ring
      BY <2>3, <3>1, <3>2 DEF RefreshIPList
    <3>4. members' \in SUBSET Server
      BY <2>3, ListServers DEF RefreshIPList
    <3> QED
      BY <2>3, <3>3, <3>4 DEF RefreshIPList
  <2>4. CASE UNCHANGED vars
    BY <2>4 DEF vars
  <2> QED
    BY <2>1, <2>2, <2>3, <2>4 DEF Next
<1> QED
  BY <1>1, <1>2, PTL DEF Spec

\* What a ring of virtual nodes holds when it follows a set of servers.
Follows(ring, set) ==
    \A p \in Pos, s \in Server : ring[p] = s <=> s \in set /\ p \in vPartitions(s)

\* Without collisions the ring of virtual nodes is determined by the servers
\* that are in, whatever AddServer, DeleteServer and RefreshIPList did before.
THEOREM RingCorrect == Spec => []RingMatchesMembers
<1>1. Init => RingMatchesMembers
  BY HashAssumption DEF Init, RingMatchesMembers
<1>2. TypeOK /\ RingMatchesMembers /\ [Next]_vars => RingMatchesMembers'
  <2> SUFFICES ASSUME TypeOK, RingMatchesMembers, [Next]_vars, NoCollision'
               PROVE  Follows(virtualNodes, members)'
    BY DEF RingMatchesMembers, Follows
  <2>0. vhash' = vhash
    BY DEF Next, AddServer, DeleteServer, RefreshIPList, vars
  <2>2. \A s \in Server : vPartitions(s)' = vPartitions(s)
    BY <2>0 DEF vPartitions
  <2>1. NoCollision
    BY <2>2 DEF NoCollision
  <2>3. Follows(virtualNodes, members)
    BY <2>1 DEF RingMatchesMembers, Follows
  <2>4. \A p \in Pos : virtualNodes[p] \in Server \cup {None}
    BY DEF TypeOK, Ring
  <2>5. SUFFICES ASSUME NEW p \in Pos, NEW s \in Server
                 PROVE  virtualNodes'[p] = s <=> s \in members' /\ p \in vPartitions(s)
    BY <2>2 DEF Follows
  <2>6. \A t \in Server : p \in vPartitions(s) /\ p \in vPartitions(t) => s = t
    BY <2>1 DEF NoCollision
  <2>7. ASSUME NEW t \in Server, AddServer(t)
        PROVE  virtualNodes'[p] = s <=> s \in members' /\ p \in vPartitions(s)
    <3>1. members' = members \cup {t}
      BY <2>7 DEF AddServer
    <3>2. virtualNodes'[p] = IF p \in vPartitions(t) /\ virtualNodes[p] = None
                             THEN t ELSE virtualNodes[p]
      BY <2>7 DEF AddServer, insert
    <3>3. virtualNodes[p] # None /\ p \in vPartitions(t) => virtualNodes[p] = t
      BY <2>1, <2>3, <2>4 DEF Follows, NoCollision
    <3> QED
      BY <3>1, <3>2, <3>3, <2>3, <2>4, <2>6, HashAssumption DEF Follows
  <2>8. ASSUME NEW t \in members, DeleteServer(t)
        PROVE  virtualNodes'[p] = s <=> s \in members' /\ p \in vPartitions(s)
    <3>1. members' = members \ {t} /\ t \in Server
      BY <2>8 DEF DeleteServer, TypeOK
    <3>2. virtualNodes'[p] = IF p \in vPartitions(t) THEN None ELSE virtualNodes[p]
      BY <2>8 DEF DeleteServer, erase
    <3> QED
      BY <3>1, <3>2, <2>3, <2>6, HashAssumption DEF Follows
  <2>9. ASSUME NEW l \in IPLists, RefreshIPList(l)
        PROVE  virtualNodes'[p] = s <=> s \in members' /\ p \in vPartitions(s)
    <3> DEFINE empty == [q \in Pos |-> None]
    <3>1. members' = {l[i] : i \in DOMAIN l}
      BY <2>9 DEF RefreshIPList
    <3>2. virtualNodes' = insertAll(empty, l, vPartition)
      BY <2>9 DEF RefreshIPList
    <3>3. empty[p] = None
      OBVIOUS
    <3>4. \A i \in DOMAIN l : l[i] \in Server /\ vPartition[l[i]] = vPartitions(l[i])
      BY ListServers DEF vPartition
    <3> HIDE DEF empty
    <3>5. \/ virtualNodes'[p] = None /\ \A i \in DOMAIN l : p \notin vPartitions(l[i])
          \/ \E i \in DOMAIN l : p \in vPartitions(l[i]) /\ virtualNodes'[p] = l[i]
      BY <3>2, <3>3, <3>4, InsertAll
    <3> QED
      BY <3>1, <3>4, <3>5, <2>6, HashAssumption
  <2>10. CASE UNCHANGED vars
    BY <2>10, <2>3 DEF vars, Follows
  <2> QED
    BY <2>7, <2>8, <2>9, <2>10 DEF Next
<1> QED
  BY <1>1, <1>2, HashTypeCorrect, PTL DEF Spec

\* Deleting a server moves only its own keys, for every hash function without
\* collisions: the unit test of DeleteServer, for all keys and servers.
THEOREM DeleteCorrect == Spec => DeleteMovesOnlyItsKeys
<1>1. ASSUME TypeOK, RingMatchesMembers, NEW s \in members, NoCollision, DeleteServer(s)
      PROVE  DeleteMoves(s)
  <2> SUFFICES ASSUME NEW k \in Pos, Taken(virtualNodes) # {},
                      GetServerIndex(virtualNodes, k) # s
               PROVE  GetServerIndex(virtualNodes', k) = GetServerIndex(virtualNodes, k)
    BY DEF DeleteMoves, GetServerIndex, Taken, Least
  <2> DEFINE q == place(virtualNodes, k)
  <2>1. q \in Taken(virtualNodes) /\ virtualNodes[q] # s
    BY PlaceTaken, IndexAtPlace
  <2>2. \A p \in Pos : virtualNodes'[p] =
            IF p \in vPartitions(s) THEN None ELSE virtualNodes[p]
    BY <1>1 DEF DeleteServer, erase
  <2>3. q \in Pos /\ q \notin vPartitions(s)
    BY <1>1, <2>1 DEF RingMatchesMembers, TypeOK, Taken
  <2>4. q \in Taken(virtualNodes') /\ virtualNodes'[q] = virtualNodes[q]
    BY <2>1, <2>2, <2>3 DEF Taken
  <2>5. Taken(virtualNodes') \subseteq Taken(virtualNodes)
    BY <2>2 DEF Taken
  <2>6. place(virtualNodes', k) = q
    BY <2>4, <2>5, KeyStays
  <2> QED
    BY <2>4, <2>6, IndexAtPlace
<1>2. TypeOK /\ RingMatchesMembers /\ [Next]_vars =>
        [\A s \in members : NoCollision /\ DeleteServer(s) => DeleteMoves(s)]_vars
  BY <1>1
<1> QED
  BY <1>2, HashTypeCorrect, RingCorrect, PTL DEF Spec, DeleteMovesOnlyItsKeys

\* Adding a server moves keys only to it, for every hash function: AddServer
\* never takes a position from another server.
THEOREM AddCorrect == Spec => AddMovesOnlyToIt
<1>1. ASSUME TypeOK, NEW s \in Server, AddServer(s)
      PROVE  AddMoves(s)
  <2> SUFFICES ASSUME NEW k \in Pos, Taken(virtualNodes) # {},
                      GetServerIndex(virtualNodes', k) # s
               PROVE  GetServerIndex(virtualNodes', k) = GetServerIndex(virtualNodes, k)
    BY DEF AddMoves, GetServerIndex, Taken, Least
  <2> DEFINE q == place(virtualNodes', k)
  <2>1. \A p \in Pos : virtualNodes'[p] =
            IF p \in vPartitions(s) /\ virtualNodes[p] = None THEN s ELSE virtualNodes[p]
    BY <1>1 DEF AddServer, insert
  <2>2. Taken(virtualNodes) \subseteq Taken(virtualNodes')
    BY <2>1 DEF Taken
  <2>3. q \in Taken(virtualNodes') /\ virtualNodes'[q] # s
    BY <2>2, PlaceTaken, IndexAtPlace
  <2>4. q \in Taken(virtualNodes) /\ virtualNodes'[q] = virtualNodes[q]
    BY <2>1, <2>3 DEF Taken
  <2>5. place(virtualNodes, k) = q
    BY <2>2, <2>3, <2>4, KeyStays
  <2> QED
    BY <2>4, <2>5, IndexAtPlace
<1>2. TypeOK /\ [Next]_vars => [\A s \in Server : AddServer(s) => AddMoves(s)]_vars
  BY <1>1
<1> QED
  BY <1>2, HashTypeCorrect, PTL DEF Spec, AddMovesOnlyToIt
-----------------------------------------------------------------------------
\* A non-empty set of positions has a greatest element.
LEMMA GreatestExists ==
    ASSUME NEW S, S \subseteq Pos, S # {}
    PROVE  \E p \in S : \A q \in S : q <= p
<1> DEFINE M == {MaxPos - p : p \in S}
<1>1. M \subseteq Nat /\ M # {}
  <2>1. \A p \in S : MaxPos - p \in Nat
    BY HashAssumption DEF Pos
  <2> QED BY <2>1
<1>2. PICK m \in M : \A n \in M : m <= n
  BY <1>1, LeastExists
<1>3. PICK p \in S : m = MaxPos - p
  BY <1>2
<1>4. ASSUME NEW q \in S PROVE q <= p
  <2>1. MaxPos - p <= MaxPos - q
    BY <1>2, <1>3
  <2>2. MaxPos \in Nat /\ p \in Nat /\ q \in Nat
    BY HashAssumption DEF Pos
  <2> QED BY <2>1, <2>2
<1> QED BY <1>4

\* The position at which GetBackUpServer finds the backup of k.
beyond(ring, k) == {p \in Taken(ring) : p > k}
successor(ring, k) == Least(IF beyond(ring, k) = {} THEN Taken(ring) ELSE beyond(ring, k))

\* GetBackUpServer reads the ring at the successor of the key.
LEMMA BackupAtSuccessor ==
    ASSUME NEW ring, NEW k
    PROVE  GetBackUpServer(ring, k) = ring[successor(ring, k)]
BY DEF GetBackUpServer, successor, beyond

\* A non-empty set of taken positions that has the successor of each of its
\* positions has them all: following upper_bound and begin() from any position
\* meets every one.
LEMMA SuccessorsMeetAll ==
    ASSUME NEW ring, NEW P, P \subseteq Taken(ring), P # {},
           \A p \in P : successor(ring, p) \in P
    PROVE  P = Taken(ring)
<1> DEFINE T == Taken(ring)
<1>0. T \subseteq Pos /\ T \subseteq Nat /\ T # {}
  <2>1. T \subseteq Pos /\ T # {}
    BY DEF Taken
  <2>2. Pos \subseteq Nat
    BY HashAssumption DEF Pos
  <2> QED BY <2>1, <2>2
<1>1. Least(T) \in P
  <2>1. PICK g \in P : \A q \in P : q <= g
    BY <1>0, GreatestExists
  <2>2. CASE beyond(ring, g) = {}
    BY <2>1, <2>2 DEF successor
  <2>3. CASE beyond(ring, g) # {}
    <3>1. beyond(ring, g) \subseteq Nat
      BY <1>0 DEF beyond
    <3>2. successor(ring, g) \in beyond(ring, g)
      BY <2>3, <3>1, LeastIs DEF successor
    <3>3. successor(ring, g) > g /\ successor(ring, g) <= g
      BY <2>1, <3>2 DEF beyond
    <3>4. successor(ring, g) \in Nat /\ g \in Nat
      BY <1>0, <2>1
    <3> QED BY <3>3, <3>4
  <2> QED BY <2>2, <2>3
<1>2. SUFFICES ASSUME T \ P # {} PROVE FALSE
  OBVIOUS
<1>3. PICK r \in T \ P : \A q \in T \ P : r <= q
  BY <1>0, <1>2, LeastExists
<1> DEFINE B == {q \in T : q < r}
<1>4. Least(T) \in B
  <2>1. Least(T) \in T /\ Least(T) <= r
    BY <1>0, <1>3, LeastIs
  <2>2. Least(T) # r /\ Least(T) \in Nat /\ r \in Nat
    BY <1>0, <1>1, <1>3, <2>1
  <2> QED BY <2>1, <2>2
<1>5. PICK g \in B : \A q \in B : q <= g
  <2>1. B \subseteq Pos /\ B # {}
    BY <1>0, <1>4
  <2> QED BY <2>1, GreatestExists
<1>6. g \in P
  <2>1. g \in T /\ g < r /\ g \in Nat /\ r \in Nat
    BY <1>0, <1>3, <1>5
  <2> QED BY <1>3, <2>1
<1>7. r \in beyond(ring, g) /\ beyond(ring, g) \subseteq Nat
  BY <1>0, <1>3, <1>5 DEF beyond
<1>8. \A q \in beyond(ring, g) : r <= q
  <2> SUFFICES ASSUME NEW q \in beyond(ring, g), q < r PROVE FALSE
    BY <1>0, <1>3, <1>7
  <2>1. q \in B /\ q > g
    BY DEF beyond
  <2>2. q <= g /\ q \in Nat /\ g \in Nat
    BY <1>0, <1>5, <2>1
  <2> QED BY <2>1, <2>2
<1>9. successor(ring, g) = r
  <2>1. successor(ring, g) = Least(beyond(ring, g))
    BY <1>7 DEF successor
  <2>2. /\ Least(beyond(ring, g)) \in beyond(ring, g)
        /\ \A q \in beyond(ring, g) : Least(beyond(ring, g)) <= q
    BY <1>7, LeastIs
  <2>3. Least(beyond(ring, g)) <= r /\ r <= Least(beyond(ring, g))
    BY <1>7, <1>8, <2>2
  <2>4. Least(beyond(ring, g)) \in Nat /\ r \in Nat
    BY <1>7, <2>2
  <2> QED BY <2>1, <2>3, <2>4
<1> QED BY <1>3, <1>6, <1>9

\* A server is in serverNodes only at the position of its own hash.
AtOwnHash == \A p \in Pos : serverNodes[p] # None => shash[serverNodes[p]] = p

\* AddServer, DeleteServer and RefreshIPList keep servers at their own hash.
LEMMA OwnHashCorrect == Spec => []AtOwnHash
<1>1. Init => AtOwnHash
  BY DEF Init, AtOwnHash
<1>2. TypeOK /\ AtOwnHash /\ [Next]_vars => AtOwnHash'
  <2> SUFFICES ASSUME TypeOK, AtOwnHash, [Next]_vars, NEW p \in Pos, serverNodes'[p] # None
               PROVE  shash'[serverNodes'[p]] = p
    BY DEF AtOwnHash
  <2>0. shash' = shash
    BY DEF Next, AddServer, DeleteServer, RefreshIPList, vars
  <2>1. ASSUME NEW s \in Server, AddServer(s) PROVE shash[serverNodes'[p]] = p
    BY <2>1 DEF AddServer, insert, AtOwnHash
  <2>2. ASSUME NEW s \in Server, DeleteServer(s) PROVE shash[serverNodes'[p]] = p
    BY <2>2 DEF DeleteServer, erase, AtOwnHash
  <2>3. ASSUME NEW l \in IPLists, RefreshIPList(l) PROVE shash[serverNodes'[p]] = p
    <3>1. serverNodes' = insertAll(serverNodes, l, sPartition)
      BY <2>3 DEF RefreshIPList
    <3>2. \/ serverNodes'[p] = serverNodes[p]
          \/ \E i \in DOMAIN l : p \in sPartition[l[i]] /\ serverNodes'[p] = l[i]
      BY <3>1, InsertAll
    <3>3. \A i \in DOMAIN l : sPartition[l[i]] = {shash[l[i]]}
      BY ListServers DEF sPartition
    <3> QED BY <3>2, <3>3 DEF AtOwnHash
  <2>4. CASE UNCHANGED vars
    BY <2>4 DEF vars, AtOwnHash
  <2> QED BY <2>0, <2>1, <2>2, <2>3, <2>4 DEF Next, TypeOK
<1> QED BY <1>1, <1>2, HashTypeCorrect, PTL DEF Spec

\* For any servers and hash function, where serverNodes holds exactly the
\* members, GetBackUpServer leads from every server through all of them: every
\* transfer chain of backups reaches every server, and no group of servers backs
\* up only itself.
THEOREM BackupsCorrect == Spec => []BackupsFormACycle
<1>1. ASSUME TypeOK, AtOwnHash PROVE BackupsFormACycle
  <2> DEFINE T == Taken(serverNodes)
  <2> SUFFICES ASSUME {serverNodes[p] : p \in T} = members,
                      NEW C \in SUBSET members, C # {}, {backup(s) : s \in C} = C
               PROVE  C = members
    BY DEF BackupsFormACycle
  <2>1. \A s \in members : shash[s] \in T /\ serverNodes[shash[s]] = s
    BY <1>1 DEF AtOwnHash, Taken
  <2> DEFINE P == {shash[s] : s \in C}
  <2>2. P \subseteq T /\ P # {}
    BY <2>1
  <2>3. ASSUME NEW p \in P PROVE successor(serverNodes, p) \in P
    <3>1. PICK s \in C : p = shash[s]
      OBVIOUS
    <3>2. backup(s) \in C /\ backup(s) = serverNodes[successor(serverNodes, p)]
      BY <3>1, BackupAtSuccessor DEF backup
    <3>3. successor(serverNodes, p) \in T
      <4>1. T \subseteq Nat /\ T # {} /\ beyond(serverNodes, p) \subseteq T
        BY <2>2, HashAssumption DEF Taken, Pos, beyond
      <4>2. CASE beyond(serverNodes, p) = {}
        BY <4>1, <4>2, LeastIs DEF successor
      <4>3. CASE beyond(serverNodes, p) # {}
        <5>1. Least(beyond(serverNodes, p)) \in beyond(serverNodes, p)
          BY <4>1, <4>3, LeastIs
        <5> QED BY <4>1, <4>3, <5>1 DEF successor
      <4> QED BY <4>2, <4>3
    <3>4. shash[serverNodes[successor(serverNodes, p)]] = successor(serverNodes, p)
      BY <1>1, <3>3 DEF AtOwnHash, Taken
    <3> QED BY <3>2, <3>4
  <2>4. P = T
    BY <2>2, <2>3, SuccessorsMeetAll
  <2>5. ASSUME NEW m \in members PROVE m \in C
    <3>1. PICK s \in C : shash[s] = shash[m]
      BY <2>1, <2>4
    <3>2. s = serverNodes[shash[s]] /\ m = serverNodes[shash[m]]
      BY <2>1, <3>1
    <3> QED BY <3>1, <3>2
  <2> QED BY <2>5
<1> QED BY <1>1, HashTypeCorrect, OwnHashCorrect, PTL
=============================================================================
