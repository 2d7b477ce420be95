------------------------------ MODULE LRUCache ------------------------------
(***************************************************************************)
(* The LRU cache of a cache server (Cache Server/0/LRU.hpp): a hash table  *)
(* from keys to the nodes of a doubly linked list between two sentinels.   *)
(* Pointers are kept: `list' holds the next and prev fields of the nodes   *)
(* and of the sentinels, and every operation is the code's sequence of     *)
(* pointer assignments.                                                    *)
(***************************************************************************)
EXTENDS Integers, FiniteSets

CONSTANTS
    Key, Value,        \* key and value strings
    Empty,             \* the string "" that get returns on a miss
    Addr,              \* addresses that new DLinkedNode can return
    head, tail,        \* the two sentinels
    nullptr,
    capacity

ASSUME LRUAssumption ==
    /\ Empty \in Value
    /\ capacity \in Nat
    /\ head # tail /\ nullptr \notin {head, tail}
    /\ Addr \cap {head, tail, nullptr} = {}
    /\ nullptr \notin Key \cup Value

VARIABLES
    cache,   \* unordered_map<key, node>; nullptr where the key is absent
    key,     \* the key and value fields of the nodes
    value,
    list,    \* the next and prev fields of the nodes and sentinels
    size,
    ret      \* what the last get returned

vars == <<cache, key, value, list, size, ret>>

Ptr == Addr \cup {head, tail}
Link == [Ptr -> Ptr \cup {nullptr}]
Live == {cache[k] : k \in Key} \ {nullptr}

TypeOK ==
    /\ cache \in [Key -> Addr \cup {nullptr}]
    /\ key \in [Addr -> Key \cup {nullptr}]
    /\ value \in [Addr -> Value \cup {nullptr}]
    /\ list \in [next : Link, prev : Link]
    /\ size \in Nat
    /\ ret \in Value

Init ==
    /\ cache = [k \in Key |-> nullptr]
    /\ key = [n \in Addr |-> nullptr]
    /\ value = [n \in Addr |-> nullptr]
    /\ list = [next |-> [[p \in Ptr |-> nullptr] EXCEPT ![head] = tail],
               prev |-> [[p \in Ptr |-> nullptr] EXCEPT ![tail] = head]]
    /\ size = 0
    /\ ret = Empty
-----------------------------------------------------------------------------
(* The pointer assignments, in program order.                              *)

SetNext(l, p, q) == [l EXCEPT !.next[p] = q]
SetPrev(l, p, q) == [l EXCEPT !.prev[p] = q]

\* Mutant of addToHead: head->next is overwritten before it is read.
addToHeadMutant(l, n) ==
    LET l1 == SetNext(SetPrev(l, n, head), n, l.next[head])
        l2 == SetNext(l1, head, n)
    IN SetPrev(l2, l2.next[head], n)

addToHead(l, n) ==
    LET l1 == SetPrev(l, n, head)
        l2 == SetNext(l1, n, l1.next[head])
        l3 == SetPrev(l2, l2.next[head], n)
    IN SetNext(l3, head, n)

removeNode(l, n) ==
    LET l1 == SetNext(l, l.prev[n], l.next[n])
    IN SetPrev(l1, l1.next[n], l1.prev[n])

\* Mutant of moveToHead: a use does not refresh the node.
moveToHeadMutant(l, n) == l

moveToHead(l, n) == addToHead(removeNode(l, n), n)

removeTail(l) == l.prev[tail]
-----------------------------------------------------------------------------
\* Mutant of get: a miss returns no string.
getMutant(k, flag) ==
    /\ IF cache[k] = nullptr
       THEN ret' = nullptr /\ UNCHANGED list
       ELSE /\ ret' = value[cache[k]]
            /\ list' = IF flag THEN moveToHead(list, cache[k]) ELSE list
    /\ UNCHANGED <<cache, key, value, size>>

get(k, flag) ==
    /\ IF cache[k] = nullptr
       THEN ret' = Empty /\ UNCHANGED list
       ELSE /\ ret' = value[cache[k]]
            /\ list' = IF flag THEN moveToHead(list, cache[k]) ELSE list
    /\ UNCHANGED <<cache, key, value, size>>

\* Mutant of putNew: the evicted node stays in the table (no cache.erase).
putNewMutant(k, v, n) ==
    LET added == addToHead(list, n)
        cache1 == [cache EXCEPT ![k] = n]
        key1 == [key EXCEPT ![n] = k]
        value1 == [value EXCEPT ![n] = v]
        removed == removeTail(added)
    IN  /\ cache[k] = nullptr
        /\ IF size + 1 > capacity
           THEN /\ list' = LET l == removeNode(added, removed) IN
                             SetPrev(SetNext(l, removed, nullptr), removed, nullptr)
                /\ cache' = cache1
                /\ key' = [key1 EXCEPT ![removed] = nullptr]
                /\ value' = [value1 EXCEPT ![removed] = nullptr]
                /\ size' = size
           ELSE /\ list' = added
                /\ cache' = cache1
                /\ key' = key1
                /\ value' = value1
                /\ size' = size + 1
        /\ UNCHANGED ret

\* put of a new key: a new node goes to the front, and when that exceeds the
\* capacity the node before tail is unlinked, erased from the map by its own
\* key field and deleted.
putNew(k, v, n) ==
    LET added == addToHead(list, n)
        cache1 == [cache EXCEPT ![k] = n]
        key1 == [key EXCEPT ![n] = k]
        value1 == [value EXCEPT ![n] = v]
        removed == removeTail(added)
    IN  /\ cache[k] = nullptr
        /\ IF size + 1 > capacity
           THEN /\ list' = LET l == removeNode(added, removed) IN
                             SetPrev(SetNext(l, removed, nullptr), removed, nullptr)
                /\ cache' = [cache1 EXCEPT ![key1[removed]] = nullptr]
                /\ key' = [key1 EXCEPT ![removed] = nullptr]
                /\ value' = [value1 EXCEPT ![removed] = nullptr]
                /\ size' = size
           ELSE /\ list' = added
                /\ cache' = cache1
                /\ key' = key1
                /\ value' = value1
                /\ size' = size + 1
        /\ UNCHANGED ret

putExisting(k, v) ==
    /\ cache[k] # nullptr
    /\ value' = [value EXCEPT ![cache[k]] = v]
    /\ list' = moveToHead(list, cache[k])
    /\ UNCHANGED <<cache, key, size, ret>>

put(k, v) ==
    \/ \E n \in Addr \ Live : putNew(k, v, n)
    \/ putExisting(k, v)

Next ==
    \E k \in Key :
        \/ \E flag \in BOOLEAN : get(k, flag)
        \/ \E v \in Value : put(k, v)

Spec == Init /\ [][Next]_vars
-----------------------------------------------------------------------------
(* ord lists the sentinels and the live nodes, n of them, from head to tail. *)
Ends(n, ord) == ord[0] = head /\ ord[n + 1] = tail
Distinct(n, ord) == \A i, j \in 0..(n + 1) : ord[i] = ord[j] => i = j
Covers(live, n, ord) == live = {ord[i] : i \in 1..n}
Linked(l, n, ord) ==
    \A i \in 0..n : l.next[ord[i]] = ord[i + 1] /\ l.prev[ord[i + 1]] = ord[i]

Represents(l, live, n, ord) ==
    Ends(n, ord) /\ Distinct(n, ord) /\ Covers(live, n, ord) /\ Linked(l, n, ord)

\* The next and prev chains are one list between the sentinels, in both
\* directions, that holds exactly the nodes of the hash table, `size' of them,
\* and never more than `capacity': put and get leave no node behind, none
\* twice, and no dangling link.
ListMatchesCache ==
    /\ size <= capacity
    /\ \E ord \in [0..(size + 1) -> Ptr] : Represents(list, Live, size, ord)

\* The hash table and the nodes agree: a key's node is alive and carries that
\* key, which is what lets put erase an evicted node from the table by
\* removed->key, and get never reads a deleted node.
CacheMatchesNodes ==
    \A k \in Key : cache[k] # nullptr => key[cache[k]] = k /\ value[cache[k]] \in Value
-----------------------------------------------------------------------------
(* The refinement: walk follows next from head, and reads the keys in order. *)
walk[i \in 0..size] ==
    IF i = 0 THEN head ELSE list.next[walk[i - 1]]

Order == [i \in 1..size |-> key[walk[i]]]
Store == [k \in Key |-> IF cache[k] = nullptr THEN nullptr ELSE value[cache[k]]]

Recency == INSTANCE RecencyCache WITH Absent <- nullptr, order <- Order, store <- Store

\* The linked list implements an LRU cache: get and put keep the capacity most
\* recently used keys with their last values, a peek (get with flag false)
\* changes nothing, and put evicts only the least recently used key.
RefinesRecencyCache == Recency!Spec
=============================================================================
