--------------------------- MODULE ConsistentHash ---------------------------
(***************************************************************************)
(* The hash rings of consistenthash.hpp.  Strings occur only through their *)
(* FNVHash: vhash gives the positions of "ip#i", shash those of "ip", and a *)
(* key is its position.  The hash values are chosen in Init, so a check     *)
(* covers every hash function onto 0..MaxPos, collisions included.          *)
(***************************************************************************)
EXTENDS Integers, Sequences, FiniteSets

CONSTANTS Server, None, virtualNodeNum, MaxPos

ASSUME HashAssumption ==
    /\ None \notin Server
    /\ virtualNodeNum \in Nat /\ MaxPos \in Nat

VARIABLES
    vhash, shash,               \* FNVHash of "ip#i" and of "ip"; never change
    virtualNodes, serverNodes,  \* std::map from position to ip; None if absent
    members                     \* the servers the calls so far have left in

vars == <<vhash, shash, virtualNodes, serverNodes, members>>

Pos == 0..MaxPos
Index == 0..(virtualNodeNum - 1)
Ring == [Pos -> Server \cup {None}]

TypeOK ==
    /\ vhash \in [Server -> [Index -> Pos]]
    /\ shash \in [Server -> Pos]
    /\ virtualNodes \in Ring /\ serverNodes \in Ring
    /\ members \in SUBSET Server

Init ==
    /\ vhash \in [Server -> [Index -> Pos]]
    /\ shash \in [Server -> Pos]
    /\ virtualNodes = [p \in Pos |-> None]
    /\ serverNodes = [p \in Pos |-> None]
    /\ members = {}

vPartitions(s) == {vhash[s][i] : i \in Index}
vPartition == [s \in Server |-> vPartitions(s)]
sPartition == [s \in Server |-> {shash[s]}]
-----------------------------------------------------------------------------
\* Mutant: erase(it, end()) for erase(it).
eraseMutant(ring, at) ==
    [p \in Pos |-> IF \E q \in at : p >= q THEN None ELSE ring[p]]

\* std::map::insert leaves an entry that is there alone.
insert(ring, at, s) ==
    [p \in Pos |-> IF p \in at /\ ring[p] = None THEN s ELSE ring[p]]

erase(ring, at) == [p \in Pos |-> IF p \in at THEN None ELSE ring[p]]

AddServer(s) ==
    /\ virtualNodes' = insert(virtualNodes, vPartitions(s), s)
    /\ serverNodes' = insert(serverNodes, {shash[s]}, s)
    /\ members' = members \cup {s}
    /\ UNCHANGED <<vhash, shash>>

DeleteServer(s) ==
    /\ virtualNodes' = erase(virtualNodes, vPartitions(s))
    /\ serverNodes' = erase(serverNodes, {shash[s]})
    /\ members' = members \ {s}
    /\ UNCHANGED <<vhash, shash>>

\* The servers of a list are added one after the other: the first to claim a
\* free position has it.
insertAll(ring, list, at) ==
    LET claims(p) == {i \in DOMAIN list : p \in at[list[i]]}
        first(p) == CHOOSE i \in claims(p) : \A j \in claims(p) : i <= j
    IN  [p \in Pos |-> IF ring[p] = None /\ claims(p) # {} THEN list[first(p)] ELSE ring[p]]

\* Mutant of RefreshIPList: neither ring is cleared.
RefreshIPListMutant(ipList) ==
    /\ virtualNodes' = insertAll(virtualNodes, ipList, vPartition)
    /\ serverNodes' = insertAll(serverNodes, ipList, sPartition)
    /\ members' = {ipList[i] : i \in DOMAIN ipList}
    /\ UNCHANGED <<vhash, shash>>

\* virtualNodes is cleared, serverNodes is not.
RefreshIPList(ipList) ==
    /\ virtualNodes' = insertAll([p \in Pos |-> None], ipList, vPartition)
    /\ serverNodes' = insertAll(serverNodes, ipList, sPartition)
    /\ members' = {ipList[i] : i \in DOMAIN ipList}
    /\ UNCHANGED <<vhash, shash>>

\* The lists a master can send: no server twice.
IPLists ==
    UNION {{l \in [1..n -> Server] : \A i, j \in 1..n : l[i] = l[j] => i = j} :
           n \in 0..Cardinality(Server)}

\* The servers refresh their rings; only the unit tests add a server that is
\* not in or delete one that is.
Next ==
    \/ \E s \in Server \ members : AddServer(s)
    \/ \E s \in members : DeleteServer(s)
    \/ \E l \in IPLists : RefreshIPList(l)

Spec == Init /\ [][Next]_vars
-----------------------------------------------------------------------------
(* The lookups, on a ring that is not empty.                               *)
Least(S) == CHOOSE p \in S : \A q \in S : p <= q
Taken(ring) == {p \in Pos : ring[p] # None}

\* Mutant of GetServerIndex: the node after the one lower_bound finds.
GetServerIndexMutant(ring, k) ==
    LET after == {p \in Taken(ring) : p >= k}
        next == after \ {Least(after)}
    IN  ring[Least(IF after = {} \/ next = {} THEN Taken(ring) ELSE next)]

\* lower_bound, or begin() past the end.
GetServerIndex(ring, k) ==
    LET after == {p \in Taken(ring) : p >= k}
    IN  ring[Least(IF after = {} THEN Taken(ring) ELSE after)]

\* Mutant of GetBackUpServer: lower_bound, so a server is its own backup.
GetBackUpServerMutant(ring, k) == GetServerIndex(ring, k)

\* upper_bound, or begin() past the end.
GetBackUpServer(ring, k) ==
    LET after == {p \in Taken(ring) : p > k}
    IN  ring[Least(IF after = {} THEN Taken(ring) ELSE after)]
-----------------------------------------------------------------------------
NoCollision ==
    \A s, t \in Server : s # t => vPartitions(s) \cap vPartitions(t) = {}
NoServerCollision ==
    \A s, t \in Server : shash[s] = shash[t] => s = t

\* Deleting a server moves only the keys it had.
DeleteMoves(s) ==
    \A k \in Pos :
        Taken(virtualNodes) # {} /\ Taken(virtualNodes)' # {}
        /\ GetServerIndex(virtualNodes, k) # s
        => GetServerIndex(virtualNodes, k)' = GetServerIndex(virtualNodes, k)

\* Adding a server moves keys only to it.
AddMoves(s) ==
    \A k \in Pos :
        Taken(virtualNodes) # {} /\ GetServerIndex(virtualNodes, k)' # s
        => GetServerIndex(virtualNodes, k)' = GetServerIndex(virtualNodes, k)

\* The ring depends only on which servers are in, not on the order or the
\* history of AddServer, DeleteServer and RefreshIPList, as long as no two
\* servers' virtual nodes collide: all parties that know the same servers agree
\* on the owner of every key.
RingMatchesMembers ==
    NoCollision => \A p \in Pos, s \in Server :
        virtualNodes[p] = s <=> s \in members /\ p \in vPartitions(s)

\* DeleteServer moves only the keys of the deleted server when no two servers'
\* virtual nodes collide.
DeleteMovesOnlyItsKeys ==
    [][\A s \in members : NoCollision /\ DeleteServer(s) => DeleteMoves(s)]_vars

\* AddServer moves keys only to the new server, whatever collides: insert never
\* takes a position from another server.
AddMovesOnlyToIt == [][\A s \in Server : AddServer(s) => AddMoves(s)]_vars

\* What the unit test of DeleteServer expects, for every hash function.
DeleteTest == [][\A s \in members : DeleteServer(s) => DeleteMoves(s)]_vars

backup(s) == GetBackUpServer(serverNodes, shash[s])

\* Where serverNodes holds exactly the members, two or more, the backup of each
\* server is another one and no two share a backup: the ring of servers is one
\* cycle of the members that GetBackUpServer follows.
BackupsFormACycle ==
    /\ NoServerCollision /\ Cardinality(members) >= 2
    /\ {serverNodes[p] : p \in Taken(serverNodes)} = members
    => \A C \in SUBSET members : C # {} /\ {backup(s) : s \in C} = C => C = members

\* When no positions collide, the backup of a key is one of the servers in the
\* list that RefreshIPList was last given.
BackupIsMember ==
    \A k \in Pos : NoServerCollision /\ members # {}
        => GetBackUpServer(serverNodes, k) \in members

\* With two servers or more, a key is backed up on another server than its own.
BackupElsewhere ==
    \A k \in Pos : Cardinality(members) >= 2 /\ NoCollision /\ NoServerCollision
        => GetBackUpServer(serverNodes, k) # GetServerIndex(virtualNodes, k)
=============================================================================
