------------------------------ MODULE MCCluster ------------------------------
(* Instances of Cluster: which of the bounded events a behaviour may have.  *)
EXTENDS Cluster

CONSTANTS a, b, c

\* Exchanging a and b, which both run at the start, changes nothing: only the rings
\* that find a first are considered, with every order for the backups.
MCLayouts ==
    {l \in [Key -> Orders] \X [Key -> Orders] : \A k \in Key : First(l[1][k], {a, b}) = a}

Budget(joins, shutdowns, crashes, late, evictions, reads) ==
    [joins |-> joins, shutdowns |-> shutdowns, crashes |-> crashes, late |-> late,
     evictions |-> evictions, reads |-> reads]

\* Two of: a join, a shutdown, a crash.
MCBudgets == {Budget(1, 1, 0, 0, 0, 0), Budget(1, 0, 1, 0, 0, 0), Budget(0, 1, 1, 0, 0, 0)}

\* One change, with a thread that is late, a client that reads or a full cache.
OneChange == {Budget(0, 1, 0, 1, 0, 0), Budget(0, 1, 0, 0, 0, 1), Budget(0, 0, 1, 0, 0, 1),
              Budget(0, 0, 0, 0, 1, 1)}

\* What the configurations that show a case the code gets wrong allow.
OneJoin == {Budget(1, 0, 0, 0, 0, 0)}
TwoShutdowns == {Budget(0, 2, 0, 0, 0, 0)}
FullBackup == {Budget(0, 1, 0, 0, 1, 0)}

\* One ring, on which the keys of a go to two servers when a is shut down.
\* The backup of the first is on a server that gets neither.
Spread ==
    LET order(x, y, z) == <<x, y, z>>
    IN  {l \in [Key -> Orders] \X [Key -> Orders] :
           /\ {l[1][k] : k \in Key} = {order(a, b, c), order(a, c, b)}
           /\ \A k \in Key : l[2][k] = order(c, b, a)}
=============================================================================
