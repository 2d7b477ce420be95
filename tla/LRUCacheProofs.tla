--------------------------- MODULE LRUCacheProofs ---------------------------
(***************************************************************************)
(* Proofs about LRUCache for any keys, values and capacity.                *)
(***************************************************************************)
EXTENDS LRUCache, WellFoundedInduction, SequenceTheorems, TLAPS

Lists == [next : Link, prev : Link]

\* The order of the list after a goes to the front, and after the node at
\* position j is taken out.
Pushed(ord, n, a) ==
    [i \in 0..(n + 2) |-> IF i = 0 THEN head ELSE IF i = 1 THEN a ELSE ord[i - 1]]
Dropped(ord, n, j) ==
    [i \in 0..n |-> IF i < j THEN ord[i] ELSE ord[i + 1]]

\* addToHead on a well-formed list puts the node between head and the rest.
LEMMA AddToHeadLemma ==
    ASSUME NEW l \in Lists, NEW live \in SUBSET Addr, NEW n \in Nat,
           NEW ord \in [0..(n + 1) -> Ptr], Represents(l, live, n, ord),
           NEW a \in Addr \ live
    PROVE  /\ addToHead(l, a) \in Lists
           /\ Pushed(ord, n, a) \in [0..((n + 1) + 1) -> Ptr]
           /\ Represents(addToHead(l, a), live \cup {a}, n + 1, Pushed(ord, n, a))
<1> DEFINE m == addToHead(l, a)
           o == Pushed(ord, n, a)
<1>0. /\ l.next \in Link /\ l.prev \in Link
      /\ head \in Ptr /\ tail \in Ptr /\ a \in Ptr /\ a # head /\ a # tail /\ head # tail
      /\ head \notin live /\ tail \notin live
  BY LRUAssumption DEF Lists, Ptr
<1>1. Ends(n, ord) /\ Distinct(n, ord) /\ Covers(live, n, ord) /\ Linked(l, n, ord)
  BY DEF Represents
<1>2. \A i \in 0..(n + 1) : ord[i] \in Ptr /\ ord[i] # a
  BY <1>0, <1>1 DEF Ends, Covers
<1>3. /\ \A i \in 1..(n + 1) : ord[i] # head
      /\ l.next[head] = ord[1]
  BY <1>1 DEF Ends, Distinct, Linked
<1>4. /\ m.next = [l.next EXCEPT ![a] = ord[1], ![head] = a]
      /\ m.prev = [l.prev EXCEPT ![a] = head, ![ord[1]] = a]
      /\ m \in Lists
  <2>1. ord[1] \in Ptr /\ ord[1] # a /\ ord[1] # head
    BY <1>2, <1>3
  <2> QED BY Zenon, <2>1, <1>0, <1>3 DEF addToHead, SetNext, SetPrev, Lists, Link
<1>5. /\ (n + 1) + 1 = n + 2
      /\ o \in [0..((n + 1) + 1) -> Ptr]
      /\ o[0] = head /\ o[1] = a
      /\ \A i \in 2..(n + 2) : o[i] = ord[i - 1]
  BY <1>0, <1>2 DEF Pushed
<1> HIDE DEF m, o
<1>6. Ends(n + 1, o)
  BY <1>1, <1>5 DEF Ends
<1>7. Distinct(n + 1, o)
  BY SMTT(30), <1>0, <1>1, <1>2, <1>3, <1>5 DEF Distinct
<1>8. Covers(live \cup {a}, n + 1, o)
  <2>1. ASSUME NEW i \in 1..(n + 1) PROVE o[i] \in live \cup {a}
    BY <1>1, <1>5 DEF Covers
  <2>2. ASSUME NEW p \in live PROVE \E i \in 1..(n + 1) : o[i] = p
    <3>1. PICK i \in 1..n : ord[i] = p
      BY <1>1 DEF Covers
    <3>2. o[i + 1] = p /\ i + 1 \in 1..(n + 1)
      BY <3>1, <1>5
    <3> QED BY <3>2
  <2>3. \E i \in 1..(n + 1) : o[i] = a
    <3>1. 1 \in 1..(n + 1)
      OBVIOUS
    <3> QED BY <3>1, <1>5
  <2> QED BY <2>1, <2>2, <2>3 DEF Covers
<1>9. Linked(m, n + 1, o)
  <2> SUFFICES ASSUME NEW i \in 0..(n + 1)
               PROVE  m.next[o[i]] = o[i + 1] /\ m.prev[o[i + 1]] = o[i]
    BY DEF Linked
  <2>1. CASE i = 0
    BY <2>1, <1>0, <1>2, <1>3, <1>4, <1>5 DEF Link
  <2>2. CASE i = 1
    <3>1. o[2] = ord[1]
      BY <1>5
    <3>2. ord[1] \in Ptr /\ ord[1] # a
      BY <1>2
    <3> QED BY <3>1, <3>2, <2>2, <1>0, <1>4, <1>5 DEF Link
  <2>3. CASE i > 1
    <3>1. o[i] = ord[i - 1] /\ o[i + 1] = ord[i]
      BY <2>3, <1>5
    <3>2. ord[i - 1] # head /\ ord[i - 1] # a /\ ord[i] # ord[1] /\ ord[i] # a
      BY <2>3, <1>1, <1>2, <1>3 DEF Distinct
    <3>3. ord[i] \in Ptr /\ ord[i - 1] \in Ptr
      BY <2>3, <1>2
    <3>4. m.next[ord[i - 1]] = l.next[ord[i - 1]] /\ m.prev[ord[i]] = l.prev[ord[i]]
      BY <3>2, <3>3, <1>4, <1>0 DEF Link
    <3>5. l.next[ord[i - 1]] = ord[i] /\ l.prev[ord[i]] = ord[i - 1]
      BY <2>3, <1>1 DEF Linked
    <3> QED BY <3>1, <3>4, <3>5
  <2> QED BY <2>1, <2>2, <2>3
<1> QED BY <1>4, <1>5, <1>6, <1>7, <1>8, <1>9 DEF Represents, m, o

\* removeNode on a node of a well-formed list takes exactly that node out.
LEMMA RemoveNodeLemma ==
    ASSUME NEW l \in Lists, NEW live \in SUBSET Addr, NEW n \in Nat,
           NEW ord \in [0..(n + 1) -> Ptr], Represents(l, live, n, ord),
           NEW j \in 1..n
    PROVE  /\ removeNode(l, ord[j]) \in Lists
           /\ n - 1 \in Nat
           /\ Dropped(ord, n, j) \in [0..((n - 1) + 1) -> Ptr]
           /\ Represents(removeNode(l, ord[j]), live \ {ord[j]}, n - 1, Dropped(ord, n, j))
<1> DEFINE a == ord[j]
           m == removeNode(l, a)
           o == Dropped(ord, n, j)
<1>0. l.next \in Link /\ l.prev \in Link
  BY DEF Lists
<1>1. Ends(n, ord) /\ Distinct(n, ord) /\ Covers(live, n, ord) /\ Linked(l, n, ord)
  BY DEF Represents
<1>2. \A i \in 0..(n + 1) : ord[i] \in Ptr
  OBVIOUS
<1>3. l.next[a] = ord[j + 1] /\ l.prev[a] = ord[j - 1] /\ a # ord[j - 1] /\ a # ord[j + 1]
  BY <1>1 DEF Distinct, Linked
<1>4. /\ m.next = [l.next EXCEPT ![ord[j - 1]] = ord[j + 1]]
      /\ m.prev = [l.prev EXCEPT ![ord[j + 1]] = ord[j - 1]]
      /\ m \in Lists
  <2>1. ord[j + 1] \in Ptr /\ ord[j - 1] \in Ptr /\ a \in Ptr
    BY <1>2
  <2> QED BY Zenon, <2>1, <1>0, <1>3 DEF removeNode, SetNext, SetPrev, Lists, Link
<1>5. /\ n - 1 \in Nat /\ (n - 1) + 1 = n
      /\ o \in [0..((n - 1) + 1) -> Ptr]
      /\ \A i \in 0..n : o[i] = IF i < j THEN ord[i] ELSE ord[i + 1]
  BY <1>2 DEF Dropped
<1> HIDE DEF m, o
<1>6. Ends(n - 1, o)
  BY <1>1, <1>5 DEF Ends
<1>7. Distinct(n - 1, o)
  BY <1>1, <1>5 DEF Distinct
<1>8. Covers(live \ {a}, n - 1, o)
  <2>1. ASSUME NEW i \in 1..(n - 1) PROVE o[i] \in live \ {a}
    <3>1. CASE i < j
      BY <3>1, <1>1, <1>5 DEF Covers, Distinct
    <3>2. CASE ~(i < j)
      <4>1. o[i] = ord[i + 1] /\ i + 1 \in 1..n /\ i + 1 # j
        BY <3>2, <1>5
      <4> QED BY <4>1, <1>1 DEF Covers, Distinct
    <3> QED BY <3>1, <3>2
  <2>2. ASSUME NEW p \in live \ {a} PROVE \E i \in 1..(n - 1) : o[i] = p
    <3>1. PICK i \in 1..n : ord[i] = p
      BY <1>1 DEF Covers
    <3>2. CASE i < j
      <4>1. o[i] = p /\ i \in 1..(n - 1)
        BY <3>1, <3>2, <1>5
      <4> QED BY <4>1
    <3>3. CASE i > j
      <4>1. o[i - 1] = p /\ i - 1 \in 1..(n - 1)
        BY <3>1, <3>3, <1>5
      <4> QED BY <4>1
    <3> QED BY <3>1, <3>2, <3>3
  <2> QED BY <2>1, <2>2 DEF Covers
<1>9. Linked(m, n - 1, o)
  <2> SUFFICES ASSUME NEW i \in 0..(n - 1)
               PROVE  m.next[o[i]] = o[i + 1] /\ m.prev[o[i + 1]] = o[i]
    BY DEF Linked
  <2>1. CASE i + 1 < j
    <3>1. o[i] = ord[i] /\ o[i + 1] = ord[i + 1] /\ ord[i] # ord[j - 1] /\ ord[i + 1] # ord[j + 1]
      BY <2>1, <1>1, <1>5 DEF Distinct
    <3>2. m.next[ord[i]] = l.next[ord[i]] /\ m.prev[ord[i + 1]] = l.prev[ord[i + 1]]
      BY <3>1, <1>0, <1>2, <1>4 DEF Link
    <3> QED BY <3>1, <3>2, <1>1 DEF Linked
  <2>2. CASE i + 1 = j
    <3>1. o[i] = ord[j - 1] /\ o[i + 1] = ord[j + 1] /\ ord[j - 1] \in Ptr /\ ord[j + 1] \in Ptr
      BY <2>2, <1>2, <1>5
    <3> QED BY <3>1, <1>0, <1>4 DEF Link
  <2>3. CASE i + 1 > j
    <3>1. o[i] = ord[i + 1] /\ o[i + 1] = ord[i + 2]
      BY <2>3, <1>5
    <3>2. ord[i + 1] # ord[j - 1] /\ ord[i + 2] # ord[j + 1]
      BY <2>3, <1>1 DEF Distinct
    <3>3. ord[i + 1] \in Ptr /\ ord[i + 2] \in Ptr
      BY <1>2
    <3>4. m.next[ord[i + 1]] = l.next[ord[i + 1]] /\ m.prev[ord[i + 2]] = l.prev[ord[i + 2]]
      BY <3>2, <3>3, <1>0, <1>4 DEF Link
    <3>5. l.next[ord[i + 1]] = ord[i + 2] /\ l.prev[ord[i + 2]] = ord[i + 1]
      BY SMTT(30), <1>1 DEF Linked
    <3> QED BY <3>1, <3>4, <3>5
  <2> QED BY <2>1, <2>2, <2>3
<1> QED BY <1>4, <1>5, <1>6, <1>7, <1>8, <1>9 DEF Represents, m, o

\* moveToHead on a node of a well-formed list takes it out and puts it in front.
Moved(ord, n, j) == Pushed(Dropped(ord, n, j), n - 1, ord[j])

\* moveToHead on a node of a well-formed list takes it out and puts it in front.
LEMMA MoveToHeadLemma ==
    ASSUME NEW l \in Lists, NEW live \in SUBSET Addr, NEW n \in Nat,
           NEW ord \in [0..(n + 1) -> Ptr], Represents(l, live, n, ord),
           NEW j \in 1..n
    PROVE  /\ moveToHead(l, ord[j]) \in Lists
           /\ Moved(ord, n, j) \in [0..(n + 1) -> Ptr]
           /\ Represents(moveToHead(l, ord[j]), live, n, Moved(ord, n, j))
<1> DEFINE a == ord[j]
           m == removeNode(l, a)
           d == Dropped(ord, n, j)
<1>1. a \in live
  BY DEF Represents, Covers
<1>2. /\ m \in Lists /\ n - 1 \in Nat /\ d \in [0..((n - 1) + 1) -> Ptr]
      /\ Represents(m, live \ {a}, n - 1, d)
  BY Zenon, RemoveNodeLemma
<1> HIDE DEF m, d, a
<1>3. /\ addToHead(m, a) \in Lists
      /\ Pushed(d, n - 1, a) \in [0..(((n - 1) + 1) + 1) -> Ptr]
      /\ Represents(addToHead(m, a), (live \ {a}) \cup {a}, (n - 1) + 1, Pushed(d, n - 1, a))
  <2>1. live \ {a} \in SUBSET Addr /\ a \in Addr \ (live \ {a})
    BY <1>1
  <2> QED BY Zenon, <1>2, <2>1, AddToHeadLemma
<1>4. (n - 1) + 1 = n /\ (live \ {a}) \cup {a} = live
  BY <1>1
<1> QED BY Zenon, <1>3, <1>4 DEF moveToHead, Moved, m, d, a

\* Overwriting the links of a node that is off the list (delete) leaves the
\* list as it was.
LEMMA FreeLemma ==
    ASSUME NEW l \in Lists, NEW live \in SUBSET Addr, NEW n \in Nat,
           NEW ord \in [0..(n + 1) -> Ptr], Represents(l, live, n, ord),
           NEW a \in Addr \ live
    PROVE  LET m == SetPrev(SetNext(l, a, nullptr), a, nullptr) IN
           m \in Lists /\ Represents(m, live, n, ord)
<1> DEFINE m == SetPrev(SetNext(l, a, nullptr), a, nullptr)
<1>0. l.next \in Link /\ l.prev \in Link /\ a # head /\ a # tail /\ a \in Ptr
  BY LRUAssumption DEF Lists, Ptr
<1>1. Ends(n, ord) /\ Covers(live, n, ord) /\ Linked(l, n, ord)
  BY DEF Represents
<1>2. \A i \in 0..(n + 1) : ord[i] \in Ptr /\ ord[i] # a
  BY <1>0, <1>1 DEF Ends, Covers
<1>3. /\ m.next = [l.next EXCEPT ![a] = nullptr]
      /\ m.prev = [l.prev EXCEPT ![a] = nullptr]
      /\ m \in Lists
  BY Zenon, <1>0 DEF SetNext, SetPrev, Lists, Link
<1> HIDE DEF m
<1>4. Linked(m, n, ord)
  BY <1>0, <1>1, <1>2, <1>3 DEF Linked, Link
<1> QED BY <1>3, <1>4 DEF Represents, m

\* The inductive invariant: the typed state, the list and the table agree.
IInv == TypeOK /\ ListMatchesCache /\ CacheMatchesNodes

\* The constructor builds the empty list.
LEMMA InitIInv == Init => IInv
<1> SUFFICES ASSUME Init PROVE IInv
  OBVIOUS
<1>1. TypeOK
  BY LRUAssumption DEF Init, TypeOK, Link, Ptr
<1>2. CacheMatchesNodes
  BY DEF Init, CacheMatchesNodes
<1>3. ListMatchesCache
  <2> DEFINE ord == [i \in 0..1 |-> IF i = 0 THEN head ELSE tail]
  <2>1. ord \in [0..(size + 1) -> Ptr] /\ ord[0] = head /\ ord[1] = tail
    BY DEF Init, Ptr
  <2> HIDE DEF ord
  <2>2. Live = {} /\ size = 0 /\ size <= capacity
    BY LRUAssumption DEF Init, Live
  <2>3. Ends(size, ord) /\ Covers(Live, size, ord) /\ Distinct(size, ord)
    BY <2>1, <2>2, LRUAssumption DEF Ends, Covers, Distinct
  <2>4. Linked(list, size, ord)
    BY <2>1, <2>2, LRUAssumption DEF Init, Linked, Ptr
  <2> QED BY <2>1, <2>2, <2>3, <2>4 DEF ListMatchesCache, Represents
<1> QED BY <1>1, <1>2, <1>3 DEF IInv

\* moveToHead of a node in the table keeps the list and its nodes.
LEMMA MoveKeeps ==
    ASSUME IInv, NEW k \in Key, cache[k] # nullptr
    PROVE  /\ moveToHead(list, cache[k]) \in Lists
           /\ size <= capacity
           /\ \E o \in [0..(size + 1) -> Ptr] :
                  Represents(moveToHead(list, cache[k]), Live, size, o)
<1>1. list \in Lists /\ Live \in SUBSET Addr /\ size \in Nat /\ cache[k] \in Live
  BY DEF IInv, TypeOK, Lists, Live
<1>2. PICK ord \in [0..(size + 1) -> Ptr] : Represents(list, Live, size, ord)
  BY DEF IInv, ListMatchesCache
<1>3. PICK j \in 1..size : cache[k] = ord[j]
  BY <1>1, <1>2 DEF Represents, Covers
<1>4. /\ moveToHead(list, ord[j]) \in Lists
      /\ Moved(ord, size, j) \in [0..(size + 1) -> Ptr]
      /\ Represents(moveToHead(list, ord[j]), Live, size, Moved(ord, size, j))
  BY Zenon, <1>1, <1>2, MoveToHeadLemma
<1>5. size <= capacity
  BY DEF IInv, ListMatchesCache
<1> QED BY <1>3, <1>4, <1>5

\* get keeps the invariant, whether it refreshes the key or peeks.
LEMMA GetKeeps ==
    ASSUME IInv, NEW k \in Key, NEW flag \in BOOLEAN, get(k, flag)
    PROVE  IInv'
<1>1. Live' = Live
  BY DEF get, Live
<1>2. list' \in Lists /\ ListMatchesCache'
  <2>1. CASE list' = list
    BY <2>1, <1>1 DEF get, IInv, ListMatchesCache, TypeOK, Lists
  <2>2. CASE list' # list
    <3>1. cache[k] # nullptr /\ list' = moveToHead(list, cache[k])
      BY <2>2 DEF get
    <3> QED BY <3>1, <1>1, MoveKeeps DEF get, ListMatchesCache
  <2> QED BY <2>1, <2>2
<1>3. ret' \in Value
  BY LRUAssumption DEF get, IInv, CacheMatchesNodes
<1> QED BY <1>2, <1>3 DEF get, IInv, TypeOK, CacheMatchesNodes, Lists

\* put of a key that is present keeps the invariant.
LEMMA PutExistingKeeps ==
    ASSUME IInv, NEW k \in Key, NEW v \in Value, putExisting(k, v)
    PROVE  IInv'
<1>1. Live' = Live
  BY DEF putExisting, Live
<1>2. list' \in Lists /\ ListMatchesCache'
  BY <1>1, MoveKeeps DEF putExisting, ListMatchesCache
<1>3. TypeOK'
  BY <1>2 DEF putExisting, IInv, TypeOK, Lists
<1>4. CacheMatchesNodes'
  BY DEF putExisting, IInv, TypeOK, CacheMatchesNodes
<1> QED BY <1>2, <1>3, <1>4 DEF IInv

\* The table and the node fields once put has stored the new node n.
CacheWith(k, n) == [cache EXCEPT ![k] = n]
KeyWith(k, n) == [key EXCEPT ![n] = k]
ValueWith(v, n) == [value EXCEPT ![n] = v]

\* put of a new key, up to the eviction: the list and the table both gain n.
LEMMA PutAdds ==
    ASSUME IInv, NEW k \in Key, NEW v \in Value, NEW n \in Addr \ Live, cache[k] = nullptr
    PROVE  /\ addToHead(list, n) \in Lists
           /\ CacheWith(k, n) \in [Key -> Addr \cup {nullptr}]
           /\ KeyWith(k, n) \in [Addr -> Key \cup {nullptr}]
           /\ ValueWith(v, n) \in [Addr -> Value \cup {nullptr}]
           /\ {CacheWith(k, n)[x] : x \in Key} \ {nullptr} = Live \cup {n}
           /\ Live \cup {n} \in SUBSET Addr
           /\ \A x \in Key : CacheWith(k, n)[x] # nullptr =>
                  /\ KeyWith(k, n)[CacheWith(k, n)[x]] = x
                  /\ ValueWith(v, n)[CacheWith(k, n)[x]] \in Value
           /\ \E o \in [0..((size + 1) + 1) -> Ptr] :
                  Represents(addToHead(list, n), Live \cup {n}, size + 1, o)
<1> DEFINE cache1 == CacheWith(k, n)
           key1 == KeyWith(k, n)
           value1 == ValueWith(v, n)
<1> USE DEF CacheWith, KeyWith, ValueWith
<1>1. list \in Lists /\ Live \in SUBSET Addr /\ size \in Nat
  BY DEF IInv, TypeOK, Lists, Live
<1>2. PICK ord \in [0..(size + 1) -> Ptr] : Represents(list, Live, size, ord)
  BY DEF IInv, ListMatchesCache
<1>3. /\ addToHead(list, n) \in Lists
      /\ \E o \in [0..((size + 1) + 1) -> Ptr] :
             Represents(addToHead(list, n), Live \cup {n}, size + 1, o)
  BY Zenon, <1>1, <1>2, AddToHeadLemma
<1>4. /\ cache1 \in [Key -> Addr \cup {nullptr}]
      /\ key1 \in [Addr -> Key \cup {nullptr}]
      /\ value1 \in [Addr -> Value \cup {nullptr}]
  BY DEF IInv, TypeOK
<1>5. n # nullptr /\ cache1[k] = n /\ \A x \in Key \ {k} : cache1[x] = cache[x] /\ cache[x] # n
  BY LRUAssumption DEF IInv, TypeOK, Live
<1>6. {cache1[x] : x \in Key} \ {nullptr} = Live \cup {n}
  BY <1>5 DEF Live
<1>7. \A x \in Key : cache1[x] # nullptr => key1[cache1[x]] = x /\ value1[cache1[x]] \in Value
  BY <1>5 DEF IInv, TypeOK, CacheMatchesNodes
<1> HIDE DEF cache1, key1, value1
<1> QED BY <1>1, <1>3, <1>4, <1>6, <1>7 DEF cache1, key1, value1

\* put of a new key keeps the invariant, with or without an eviction.
LEMMA PutNewKeeps ==
    ASSUME IInv, NEW k \in Key, NEW v \in Value, NEW n \in Addr \ Live, putNew(k, v, n)
    PROVE  IInv'
<1> DEFINE cache1 == CacheWith(k, n)
           key1 == KeyWith(k, n)
           value1 == ValueWith(v, n)
           added == addToHead(list, n)
           live1 == Live \cup {n}
           removed == removeTail(added)
<1>1. /\ added \in Lists
      /\ cache1 \in [Key -> Addr \cup {nullptr}]
      /\ key1 \in [Addr -> Key \cup {nullptr}]
      /\ value1 \in [Addr -> Value \cup {nullptr}]
      /\ live1 = {cache1[x] : x \in Key} \ {nullptr}
      /\ live1 \in SUBSET Addr
      /\ \A x \in Key : cache1[x] # nullptr =>
             key1[cache1[x]] = x /\ value1[cache1[x]] \in Value
      /\ \E o \in [0..((size + 1) + 1) -> Ptr] : Represents(added, live1, size + 1, o)
  BY Zenon, PutAdds DEF putNew
<1>2. size \in Nat /\ size + 1 \in Nat /\ capacity \in Nat /\ size <= capacity
  BY LRUAssumption DEF IInv, TypeOK, ListMatchesCache
<1>3. PICK o \in [0..((size + 1) + 1) -> Ptr] : Represents(added, live1, size + 1, o)
  BY <1>1
<1>4. ret' \in Value
  BY DEF putNew, IInv, TypeOK
<1>5. CASE ~(size + 1 > capacity)
  <2>1. /\ list' = added /\ cache' = cache1 /\ key' = key1 /\ value' = value1
        /\ size' = size + 1
    BY <1>5 DEF putNew, CacheWith, KeyWith, ValueWith
  <2> HIDE DEF cache1, key1, value1, added, live1
  <2>2. Live' = live1
    BY <1>1, <2>1 DEF Live
  <2>3. ListMatchesCache'
    BY <1>2, <1>3, <1>5, <2>1, <2>2 DEF ListMatchesCache
  <2>4. TypeOK' /\ CacheMatchesNodes'
    BY <1>1, <1>2, <1>4, <2>1 DEF TypeOK, CacheMatchesNodes, Lists
  <2> QED BY <2>3, <2>4 DEF IInv
<1>6. CASE size + 1 > capacity
  <2> DEFINE unlinked == removeNode(added, removed)
             d == Dropped(o, size + 1, size + 1)
  <2>1. /\ list' = SetPrev(SetNext(unlinked, removed, nullptr), removed, nullptr)
        /\ cache' = [cache1 EXCEPT ![key1[removed]] = nullptr]
        /\ key' = [key1 EXCEPT ![removed] = nullptr]
        /\ value' = [value1 EXCEPT ![removed] = nullptr]
        /\ size' = size
    BY <1>6 DEF putNew, CacheWith, KeyWith, ValueWith
  <2>2. removed = o[size + 1] /\ size + 1 \in 1..(size + 1)
    BY <1>2, <1>3 DEF Represents, Linked, Ends, removeTail
  <2> HIDE DEF cache1, key1, value1, added, removed, live1
  <2>3. live1 \in SUBSET Addr /\ removed \in live1 /\ nullptr \notin live1
    BY Zenon, <1>1, <1>3, <2>2 DEF Represents, Covers
  <2>4. PICK x \in Key : cache1[x] = removed
    BY <1>1, <2>3
  <2>5. key1[removed] = x /\ \A y \in Key \ {x} : cache1[y] # removed
    BY <1>1, <2>3, <2>4
  <2>6. /\ unlinked \in Lists /\ (size + 1) - 1 \in Nat
        /\ d \in [0..(((size + 1) - 1) + 1) -> Ptr]
        /\ Represents(unlinked, live1 \ {removed}, (size + 1) - 1, d)
    BY Zenon, <1>1, <1>2, <1>3, <2>2, <2>3, RemoveNodeLemma
  <2>7. (size + 1) - 1 = size
    BY <1>2
  <2> HIDE DEF unlinked, d
  <2>8. Live' = live1 \ {removed}
    BY <1>1, <2>1, <2>4, <2>5 DEF Live
  <2>9. /\ list' \in Lists
        /\ Represents(list', Live', size, d)
    BY SMTT(30), <1>2, <2>1, <2>3, <2>6, <2>7, <2>8, FreeLemma
  <2>10. ListMatchesCache'
    BY <1>2, <2>1, <2>6, <2>7, <2>9 DEF ListMatchesCache
  <2>11. TypeOK'
    BY Zenon, <1>1, <1>2, <1>4, <2>1, <2>9 DEF TypeOK, Lists
  <2>12. CacheMatchesNodes'
    BY <1>1, <2>1, <2>3, <2>4, <2>5 DEF CacheMatchesNodes
  <2> QED BY <2>10, <2>11, <2>12 DEF IInv
<1> QED BY <1>5, <1>6

\* The invariant is inductive.
LEMMA NextIInv == IInv /\ [Next]_vars => IInv'
<1> SUFFICES ASSUME IInv, [Next]_vars PROVE IInv'
  OBVIOUS
<1>1. CASE UNCHANGED vars
  <2>1. TypeOK' /\ CacheMatchesNodes'
    BY <1>1 DEF vars, IInv, TypeOK, CacheMatchesNodes
  <2>2. Live' = Live
    BY <1>1 DEF vars, Live
  <2>3. ListMatchesCache'
    BY <1>1, <2>2 DEF vars, IInv, ListMatchesCache
  <2> QED BY <2>1, <2>3 DEF IInv
<1>2. CASE Next
  <2>1. ASSUME NEW k \in Key, NEW flag \in BOOLEAN, get(k, flag) PROVE IInv'
    BY <2>1, GetKeeps
  <2>2. ASSUME NEW k \in Key, NEW v \in Value, put(k, v) PROVE IInv'
    BY <2>2, PutNewKeeps, PutExistingKeeps DEF put
  <2> QED BY <1>2, <2>1, <2>2 DEF Next
<1> QED BY <1>1, <1>2

\* get and put keep the state typed: no link of a live node is ever null and
\* no operation follows a null pointer.
THEOREM TypeCorrect == Spec => []TypeOK
<1>1. IInv => TypeOK
  BY DEF IInv
<1> QED BY InitIInv, NextIInv, <1>1, PTL DEF Spec

\* For any capacity, the linked list always holds exactly the nodes of the hash
\* table, within the capacity.
THEOREM ListCorrect == Spec => []ListMatchesCache
<1>1. IInv => ListMatchesCache
  BY DEF IInv
<1> QED BY InitIInv, NextIInv, <1>1, PTL DEF Spec

\* A key found in the hash table always leads to its own live node.
THEOREM NodesCorrect == Spec => []CacheMatchesNodes
<1>1. IInv => CacheMatchesNodes
  BY DEF IInv
<1> QED BY InitIInv, NextIInv, <1>1, PTL DEF Spec
-----------------------------------------------------------------------------
(* The refinement.                                                         *)

\* The walk over n nodes of the list l, and the keys ky that it reads on the way.
Path(l, n) == LET w[i \in 0..n] == IF i = 0 THEN head ELSE l.next[w[i - 1]] IN w
Keys(l, n, ky) == [i \in 1..n |-> ky[Path(l, n)[i]]]

\* A non-empty set of naturals has a least element.
LEMMA LeastExists ==
    ASSUME NEW S, S \subseteq Nat, S # {}
    PROVE  \E i \in S : \A j \in S : i <= j
<1> DEFINE R == OpToRel(<, Nat)
<1>1. IsWellFoundedOn(R, Nat)
  BY Zenon, NatLessThanWellFounded
<1>2. \A x, y \in Nat : <<y, x>> \notin R => x <= y
  BY DEF OpToRel
<1> HIDE DEF R
<1>3. \E x \in S : \A y \in S : ~(<<y, x>> \in R)
  BY Zenon, <1>1, WFMin
<1> QED BY Zenon, <1>2, <1>3

\* The walk from head meets the nodes of a well-formed list in their order.
LEMMA PathLemma ==
    ASSUME NEW l, NEW n \in Nat, NEW ord, Ends(n, ord), Linked(l, n, ord)
    PROVE  \A i \in 0..n : Path(l, n)[i] = ord[i]
<1> DEFINE F(f) == [i \in 0..n |-> IF i = 0 THEN head ELSE l.next[f[i - 1]]]
           w == Path(l, n)
           o == [i \in 0..n |-> ord[i]]
<1>1. o = F(o)
  BY DEF Ends, Linked
<1>2. w = CHOOSE f : f = F(f)
  BY DEF Path
<1> HIDE DEF w, o
<1>3. w = F(w)
  BY Zenon, <1>1, <1>2
<1>4. w[0] = head /\ \A i \in 1..n : w[i] = l.next[w[i - 1]]
  BY <1>3
<1> HIDE DEF F
<1>5. SUFFICES ASSUME \E i \in 0..n : w[i] # ord[i] PROVE FALSE
  BY DEF w
<1> DEFINE Bad == {i \in 0..n : w[i] # ord[i]}
<1>6. PICK i \in Bad : \A j \in Bad : i <= j
  <2>1. Bad \subseteq Nat /\ Bad # {}
    BY <1>5
  <2> QED BY Zenon, <2>1, LeastExists
<1>7. i # 0
  BY <1>4, <1>6 DEF Ends
<1>8. i - 1 \in 0..n /\ w[i - 1] = ord[i - 1]
  BY <1>6, <1>7
<1> QED BY <1>4, <1>6, <1>7, <1>8 DEF Linked

\* The nodes on the list carry keys.
Keyed(n, ord, ky) == \A i \in 1..n : ky[ord[i]] \in Key

Reads(s, n, ord, ky) ==
    s \in Seq(Key) /\ Len(s) = n /\ \A i \in 1..n : s[i] = ky[ord[i]]

\* The keys in recency order are the keys of the nodes in list order.
LEMMA KeysLemma ==
    ASSUME NEW l, NEW n \in Nat, NEW ord, Ends(n, ord), Linked(l, n, ord),
           NEW ky, Keyed(n, ord, ky)
    PROVE  Reads(Keys(l, n, ky), n, ord, ky)
<1>1. \A i \in 1..n : Path(l, n)[i] = ord[i]
  BY PathLemma
<1>2. Keys(l, n, ky) = [i \in 1..n |-> ky[ord[i]]]
  BY <1>1 DEF Keys
<1> QED BY SMTT(30), <1>2 DEF Keyed, Reads

\* The sequence with the element x taken to the front.
Front(s, x) == <<x>> \o Recency!Erase(s, CHOOSE i \in DOMAIN s : s[i] = x)

\* What Touched gives for a key that is stored: it goes to the front, the keys
\* before it move back by one.
LEMMA TouchedOld ==
    ASSUME NEW s \in Seq(Key), NEW j \in 1..Len(s),
           \A i \in 1..Len(s) : s[i] = s[j] => i = j
    PROVE  /\ Front(s, s[j]) \in Seq(Key) /\ Len(Front(s, s[j])) = Len(s)
           /\ \A i \in 1..Len(s) :
                  Front(s, s[j])[i] = IF i = 1 THEN s[j] ELSE IF i <= j THEN s[i - 1] ELSE s[i]
<1> DEFINE a == SubSeq(s, 1, j - 1)
           b == SubSeq(s, j + 1, Len(s))
           r == Recency!Erase(s, CHOOSE i \in DOMAIN s : s[i] = s[j])
           t == <<s[j]>> \o r
<1>0. Len(s) \in Nat /\ DOMAIN s = 1..Len(s) /\ \A i \in 1..Len(s) : s[i] \in Key
  BY LenProperties
<1>1. (CHOOSE i \in DOMAIN s : s[i] = s[j]) = j
  BY <1>0
<1>2. r = a \o b
  BY Zenon, <1>1 DEF Recency!Erase
<1>3. a \in Seq(Key) /\ Len(a) = j - 1 /\ \A i \in 1..(j - 1) : a[i] = s[i]
  <2>1. \A i \in 1..(j - 1) : s[i] \in Key
    BY <1>0
  <2> QED BY <2>1, <1>0, SubSeqProperties
<1>4. b \in Seq(Key) /\ Len(b) = Len(s) - j /\ \A i \in 1..(Len(s) - j) : b[i] = s[j + i]
  <2>1. \A i \in (j + 1)..Len(s) : s[i] \in Key
    BY <1>0
  <2>2. /\ b \in Seq(Key) /\ Len(b) = IF j + 1 <= Len(s) THEN Len(s) - (j + 1) + 1 ELSE 0
        /\ \A i \in 1..(Len(s) - (j + 1) + 1) : b[i] = s[(j + 1) + i - 1]
    BY <2>1, <1>0, SubSeqProperties
  <2> HIDE DEF b
  <2>3. ASSUME NEW i \in 1..(Len(s) - j) PROVE b[i] = s[j + i]
    <3>1. i \in 1..(Len(s) - (j + 1) + 1) /\ (j + 1) + i - 1 = j + i
      BY <1>0
    <3> QED BY <3>1, <2>2
  <2>4. Len(b) = Len(s) - j
    <3>1. CASE j + 1 <= Len(s)
      BY <3>1, <2>2, <1>0
    <3>2. CASE ~(j + 1 <= Len(s))
      <4>0. \A m \in Nat : \A q \in 1..m : ~(q + 1 <= m) => m - q = 0
        OBVIOUS
      <4>1. Len(s) - j = 0
        BY Zenon, <4>0, <3>2, <1>0
      <4>2. Len(b) = 0
        BY <3>2, <2>2
      <4> QED BY <4>1, <4>2
    <3> QED BY <3>1, <3>2
  <2> QED BY <2>2, <2>3, <2>4
<1> HIDE DEF a, b, r
<1>5. /\ r \in Seq(Key) /\ Len(r) = Len(s) - 1
      /\ \A i \in 1..(Len(s) - 1) : r[i] = IF i < j THEN s[i] ELSE s[i + 1]
  <2>1. /\ a \o b \in Seq(Key) /\ Len(a \o b) = Len(a) + Len(b)
        /\ \A i \in 1..(Len(a) + Len(b)) :
               (a \o b)[i] = IF i <= Len(a) THEN a[i] ELSE b[i - Len(a)]
    BY Zenon, <1>3, <1>4, ConcatProperties
  <2>2. Len(a) + Len(b) = Len(s) - 1
    BY <1>0, <1>3, <1>4
  <2>3. ASSUME NEW i \in 1..(Len(s) - 1) PROVE r[i] = IF i < j THEN s[i] ELSE s[i + 1]
    <3>1. CASE i < j
      BY <3>1, <1>0, <1>2, <1>3, <2>1, <2>2
    <3>2. CASE ~(i < j)
      <4>1. r[i] = b[i - (j - 1)]
        BY SMTT(30), <3>2, <1>0, <1>2, <1>3, <2>1, <2>2
      <4>2. i - (j - 1) \in 1..(Len(s) - j) /\ j + (i - (j - 1)) = i + 1
        BY <3>2, <1>0
      <4> QED BY <4>1, <4>2, <3>2, <1>4
    <3> QED BY <3>1, <3>2
  <2>4. r \in Seq(Key) /\ Len(r) = Len(a) + Len(b)
    BY <2>1, <1>2
  <2>5. Len(r) = Len(s) - 1
    BY <2>2, <2>4
  <2> QED BY <2>3, <2>4, <2>5
<1>6. /\ t \in Seq(Key) /\ Len(t) = 1 + Len(r)
      /\ \A i \in 1..(1 + Len(r)) : t[i] = IF i <= 1 THEN s[j] ELSE r[i - 1]
  <2>1. <<s[j]>> \in Seq(Key) /\ Len(<<s[j]>>) = 1 /\ <<s[j]>>[1] = s[j]
    BY <1>0
  <2>2. r \in Seq(Key)
    BY <1>5
  <2>3. /\ t \in Seq(Key) /\ Len(t) = Len(<<s[j]>>) + Len(r)
        /\ \A i \in 1..(Len(<<s[j]>>) + Len(r)) :
               t[i] = IF i <= Len(<<s[j]>>) THEN <<s[j]>>[i] ELSE r[i - Len(<<s[j]>>)]
    BY <2>1, <2>2, ConcatProperties
  <2> HIDE DEF t
  <2>4. ASSUME NEW i \in 1..(1 + Len(r)) PROVE t[i] = IF i <= 1 THEN s[j] ELSE r[i - 1]
    <3>1. i <= 1 => i = 1
      OBVIOUS
    <3> QED BY <3>1, <2>1, <2>3
  <2> QED BY <2>1, <2>3, <2>4
<1> HIDE DEF t
<1>7. Len(t) = Len(s)
  <2>1. Len(t) = 1 + Len(r) /\ Len(r) = Len(s) - 1
    BY <1>5, <1>6
  <2> QED BY <2>1, <1>0
<1>8. ASSUME NEW i \in 1..Len(s)
      PROVE  t[i] = IF i = 1 THEN s[j] ELSE IF i <= j THEN s[i - 1] ELSE s[i]
  <2>1. CASE i = 1
    BY <2>1, <1>0, <1>5, <1>6
  <2>2. CASE i # 1
    <3>1. t[i] = r[i - 1] /\ i - 1 \in 1..(Len(s) - 1)
      BY <2>2, <1>0, <1>5, <1>6
    <3> QED BY <3>1, <2>2, <1>0, <1>5
  <2> QED BY <2>1, <2>2
<1> QED BY Zenon, <1>6, <1>7, <1>8 DEF Front, t, r

\* What Touched gives for a new key: it goes before all the others.
LEMMA TouchedNew ==
    ASSUME NEW s \in Seq(Key), NEW k \in Key
    PROVE  /\ <<k>> \o s \in Seq(Key) /\ Len(<<k>> \o s) = Len(s) + 1
           /\ \A i \in 1..(Len(s) + 1) : (<<k>> \o s)[i] = IF i = 1 THEN k ELSE s[i - 1]
<1>1. <<k>> \in Seq(Key) /\ Len(<<k>>) = 1 /\ <<k>>[1] = k /\ Len(s) \in Nat
  BY LenProperties
<1> QED BY <1>1, ConcatProperties

\* Order reads the keys on the walk, before and after a step.
LEMMA Shown == Order = Keys(list, size, key) /\ Order' = Keys(list', size', key')
BY DEF Order, Keys, Path, walk

\* Position by position, Order holds the keys of the live nodes, each once.
LEMMA OrderFacts ==
    ASSUME IInv, NEW ord \in [0..(size + 1) -> Ptr], Represents(list, Live, size, ord)
    PROVE  /\ Order \in Seq(Key) /\ Len(Order) = size
           /\ \A i \in 1..size : Order[i] = key[ord[i]] /\ ord[i] = cache[Order[i]] /\ ord[i] \in Live
           /\ \A x \in Key : cache[x] # nullptr => \E i \in 1..size : Order[i] = x /\ ord[i] = cache[x]
           /\ \A i, j \in 1..size : Order[i] = Order[j] => i = j
<1>1. /\ size \in Nat /\ Ends(size, ord) /\ Distinct(size, ord)
      /\ Covers(Live, size, ord) /\ Linked(list, size, ord)
  BY DEF IInv, TypeOK, Represents
<1>2. \A p \in Live : key[p] \in Key /\ cache[key[p]] = p
  BY DEF IInv, CacheMatchesNodes, Live
<1>3. \A x \in Key : cache[x] # nullptr => cache[x] \in Live /\ key[cache[x]] = x
  BY DEF IInv, CacheMatchesNodes, Live
<1>4. \A i \in 1..size : ord[i] \in Live
  BY <1>1 DEF Covers
<1>5. Keyed(size, ord, key)
  BY <1>2, <1>4 DEF Keyed
<1>6. /\ Order \in Seq(Key) /\ Len(Order) = size
      /\ \A i \in 1..size : Order[i] = key[ord[i]]
  <2>1. Reads(Order, size, ord, key)
    BY SMTT(30), <1>1, <1>5, KeysLemma, Shown
  <2> QED BY Zenon, <2>1 DEF Reads
<1>7. \A i \in 1..size : ord[i] = cache[Order[i]]
  BY <1>2, <1>4, <1>6
<1>8. ASSUME NEW x \in Key, cache[x] # nullptr
      PROVE  \E i \in 1..size : Order[i] = x /\ ord[i] = cache[x]
  <2>1. PICK i \in 1..size : ord[i] = cache[x]
    BY <1>1, <1>3, <1>8 DEF Covers
  <2> QED BY <2>1, <1>3, <1>6, <1>8
<1>9. ASSUME NEW i \in 1..size, NEW j \in 1..size, Order[i] = Order[j] PROVE i = j
  <2>1. ord[i] = ord[j] /\ i \in 0..(size + 1) /\ j \in 0..(size + 1)
    BY <1>1, <1>7, <1>9
  <2> QED BY <2>1, <1>1 DEF Distinct
<1> QED BY <1>4, <1>6, <1>7, <1>8, <1>9

\* The keys in Order are those of the hash table.
LEMMA OrderRange ==
    IInv => \A x \in Key : x \in Recency!Members(Order) <=> cache[x] # nullptr
<1> SUFFICES ASSUME IInv, NEW x \in Key PROVE x \in Recency!Members(Order) <=> cache[x] # nullptr
  OBVIOUS
<1>1. PICK ord \in [0..(size + 1) -> Ptr] : Represents(list, Live, size, ord)
  BY DEF IInv, ListMatchesCache
<1>2. /\ Order \in Seq(Key) /\ Len(Order) = size
      /\ \A i \in 1..size : ord[i] = cache[Order[i]] /\ ord[i] \in Live
      /\ cache[x] # nullptr => \E i \in 1..size : Order[i] = x
  BY <1>1, OrderFacts
<1>3. DOMAIN Order = 1..size
  BY <1>2, LenProperties
<1> QED BY <1>2, <1>3 DEF Recency!Members, Live

\* A stored key has a value, an absent one none.
LEMMA StoreFacts ==
    ASSUME IInv, NEW k \in Key
    PROVE  /\ Store[k] = nullptr <=> cache[k] = nullptr
           /\ cache[k] # nullptr => Store[k] = value[cache[k]]
BY SMTT(30), LRUAssumption DEF IInv, CacheMatchesNodes, Store

\* moveToHead is Touched: the key goes to the front of the keys.
LEMMA MoveTouches ==
    ASSUME IInv, NEW k \in Key, cache[k] # nullptr
    PROVE  /\ Keys(moveToHead(list, cache[k]), size, key) = Front(Order, k)
           /\ Len(Front(Order, k)) = size
<1> DEFINE l == moveToHead(list, cache[k])
           t == Front(Order, k)
<1>1. PICK ord \in [0..(size + 1) -> Ptr] : Represents(list, Live, size, ord)
  BY DEF IInv, ListMatchesCache
<1>2. /\ Order \in Seq(Key) /\ Len(Order) = size
      /\ \A i \in 1..size : Order[i] = key[ord[i]]
      /\ \A x \in Key : cache[x] # nullptr => \E i \in 1..size : Order[i] = x /\ ord[i] = cache[x]
      /\ \A i, j \in 1..size : Order[i] = Order[j] => i = j
  <2> HIDE DEF l, t
  <2>1. /\ Order \in Seq(Key) /\ Len(Order) = size
        /\ \A i \in 1..size : Order[i] = key[ord[i]] /\ ord[i] = cache[Order[i]] /\ ord[i] \in Live
        /\ \A x \in Key : cache[x] # nullptr => \E i \in 1..size : Order[i] = x /\ ord[i] = cache[x]
        /\ \A i, j \in 1..size : Order[i] = Order[j] => i = j
    BY Zenon, <1>1, OrderFacts
  <2> QED BY Zenon, <2>1
<1>3. PICK j \in 1..size : Order[j] = k /\ ord[j] = cache[k]
  BY <1>2
<1>4. size \in Nat /\ \A i \in 1..size : Order[i] \in Key
  BY <1>2 DEF IInv, TypeOK
<1>5. Ends(size, Moved(ord, size, j)) /\ Linked(l, size, Moved(ord, size, j))
  <2>1. list \in Lists /\ Live \in SUBSET Addr
    BY DEF IInv, TypeOK, Lists, Live
  <2>2. Represents(moveToHead(list, ord[j]), Live, size, Moved(ord, size, j))
    BY Zenon, <1>1, <1>4, <2>1, MoveToHeadLemma
  <2> QED BY <1>3, <2>2 DEF Represents
<1>6. /\ t \in Seq(Key) /\ Len(t) = size
      /\ \A i \in 1..size : t[i] = IF i = 1 THEN k ELSE IF i <= j THEN Order[i - 1] ELSE Order[i]
  <2>1. \A i \in 1..Len(Order) : Order[i] = Order[j] => i = j
    BY <1>2
  <2>2. j \in 1..Len(Order)
    BY <1>2
  <2>3. /\ t \in Seq(Key) /\ Len(t) = Len(Order)
        /\ \A i \in 1..Len(Order) :
               t[i] = IF i = 1 THEN Order[j] ELSE IF i <= j THEN Order[i - 1] ELSE Order[i]
    BY SMTT(30), <2>1, <2>2, <1>2, <1>3, TouchedOld
  <2> HIDE DEF t
  <2> QED BY <2>3, <1>2, <1>3
<1> HIDE DEF l, t
<1> DEFINE o == Moved(ord, size, j)
<1>7. \A i \in 1..size : o[i] = IF i = 1 THEN ord[j] ELSE IF i <= j THEN ord[i - 1] ELSE ord[i]
  BY <1>4 DEF Moved, Pushed, Dropped
<1> HIDE DEF o
<1>8. ASSUME NEW i \in 1..size PROVE key[o[i]] = t[i]
  <2>1. CASE i = 1
    BY SMTT(30), <2>1, <1>2, <1>3, <1>6, <1>7
  <2>2. CASE i # 1 /\ i <= j
    <3>1. i - 1 \in 1..size
      BY <2>2, <1>4
    <3> QED BY <2>2, <3>1, <1>2, <1>6, <1>7
  <2>3. CASE i # 1 /\ ~(i <= j)
    BY SMTT(30), <2>3, <1>2, <1>6, <1>7
  <2> QED BY <2>1, <2>2, <2>3
<1>9. /\ Keys(l, size, key) \in Seq(Key) /\ Len(Keys(l, size, key)) = size
      /\ \A i \in 1..size : Keys(l, size, key)[i] = t[i]
  <2>1. \A i \in 1..size : t[i] \in Key
    BY <1>6, LenProperties
  <2>2. Keyed(size, o, key)
    BY <2>1, <1>8 DEF Keyed
  <2>3. Ends(size, o) /\ Linked(l, size, o)
    BY <1>5 DEF o
  <2>4. Reads(Keys(l, size, key), size, o, key)
    BY SMTT(30), <2>2, <2>3, <1>4, KeysLemma
  <2> QED BY <2>4, <1>8 DEF Reads
<1>10. Keys(l, size, key) = t
  BY Zenon, <1>6, <1>9, SeqEqual
<1> QED BY <1>6, <1>10 DEF l, t

\* After put of a new key, the keys are the new one and the earlier ones, as
\* many as the list still holds: the node that put evicts is the last one.
LEMMA PutNewOrder ==
    ASSUME IInv, NEW k \in Key, NEW v \in Value, NEW n \in Addr \ Live, putNew(k, v, n)
    PROVE  /\ Order' \in Seq(Key) /\ Len(Order') = size'
           /\ \A i \in 1..size' : Order'[i] = IF i = 1 THEN k ELSE Order[i - 1]
<1> DEFINE added == addToHead(list, n)
           removed == removeTail(added)
<1>1. PICK ord \in [0..(size + 1) -> Ptr] : Represents(list, Live, size, ord)
  BY DEF IInv, ListMatchesCache
<1> DEFINE p == Pushed(ord, size, n)
<1>2. /\ Order \in Seq(Key)
      /\ \A i \in 1..size : Order[i] = key[ord[i]] /\ ord[i] \in Live /\ Order[i] \in Key
  <2>1. /\ Order \in Seq(Key) /\ Len(Order) = size
        /\ \A i \in 1..size : Order[i] = key[ord[i]] /\ ord[i] \in Live
    BY <1>1, OrderFacts
  <2> QED BY <2>1, LenProperties
<1>3. list \in Lists /\ Live \in SUBSET Addr /\ size \in Nat /\ key \in [Addr -> Key \cup {nullptr}]
  BY DEF IInv, TypeOK, Lists, Live
<1>4. /\ added \in Lists /\ p \in [0..((size + 1) + 1) -> Ptr]
      /\ Represents(added, Live \cup {n}, size + 1, p)
  BY Zenon, <1>1, <1>3, AddToHeadLemma
<1>5. p[1] = n /\ \A i \in 2..(size + 1) : p[i] = ord[i - 1]
  BY <1>3 DEF Pushed
<1>6. [key EXCEPT ![n] = k][p[1]] = k /\ \A i \in 2..(size + 1) : [key EXCEPT ![n] = k][p[i]] = Order[i - 1]
  <2>1. ASSUME NEW i \in 2..(size + 1) PROVE [key EXCEPT ![n] = k][p[i]] = Order[i - 1]
    <3>1. i - 1 \in 1..size
      BY <1>3
    <3>2. p[i] = ord[i - 1] /\ ord[i - 1] \in Live /\ Order[i - 1] = key[ord[i - 1]]
      BY SMTT(30), <3>1, <1>2, <1>5
    <3> HIDE DEF p
    <3> QED BY <3>2, <1>3
  <2> HIDE DEF p
  <2> QED BY <2>1, <1>3, <1>5
<1> HIDE DEF p
<1>7. ASSUME NEW o, Ends(size', o), Linked(list', size', o), size' \in Nat,
             \A i \in 1..size' : /\ key'[o[i]] = IF i = 1 THEN k ELSE Order[i - 1]
                                 /\ key'[o[i]] \in Key
      PROVE  /\ Order' \in Seq(Key) /\ Len(Order') = size'
             /\ \A i \in 1..size' : Order'[i] = IF i = 1 THEN k ELSE Order[i - 1]
  <2>1. Order' = Keys(list', size', key')
    BY Shown
  <2>2. Keyed(size', o, key')
    BY <1>7 DEF Keyed
  <2>3. /\ Keys(list', size', key') \in Seq(Key)
        /\ Len(Keys(list', size', key')) = size'
        /\ \A i \in 1..size' : Keys(list', size', key')[i] = key'[o[i]]
    BY SMTT(30), <1>7, <2>2, KeysLemma DEF Reads
  <2> QED BY <1>7, <2>1, <2>3
<1>8. CASE ~(size + 1 > capacity)
  <2>1. list' = added /\ key' = [key EXCEPT ![n] = k] /\ size' = size + 1
    BY <1>8 DEF putNew
  <2>2. Ends(size', p) /\ Linked(list', size', p) /\ size' \in Nat
    BY SMTT(30), <1>3, <1>4, <2>1 DEF Represents
  <2>3. ASSUME NEW i \in 1..size'
        PROVE  /\ key'[p[i]] = IF i = 1 THEN k ELSE Order[i - 1]
               /\ key'[p[i]] \in Key
    <3>1. CASE i = 1
      BY <3>1, <1>6, <2>1
    <3>2. CASE i # 1
      <4>1. i \in 2..(size + 1) /\ i - 1 \in 1..size
        BY SMTT(30), <1>3, <2>1, <3>2
      <4> QED BY <4>1, <3>2, <1>2, <1>6, <2>1
    <3> QED BY <3>1, <3>2
  <2> QED BY <2>2, <2>3, <1>7
<1>9. CASE size + 1 > capacity
  <2> DEFINE unlinked == removeNode(added, removed)
             d == Dropped(p, size + 1, size + 1)
  <2>1. /\ list' = SetPrev(SetNext(unlinked, removed, nullptr), removed, nullptr)
        /\ key' = [[key EXCEPT ![n] = k] EXCEPT ![removed] = nullptr]
        /\ size' = size
    BY SMTT(30), <1>9 DEF putNew
  <2>2. /\ removed = p[size + 1] /\ size + 1 \in 1..(size + 1) /\ removed \in Live \cup {n}
        /\ Distinct(size + 1, p)
    <3> HIDE DEF added
    <3>1. /\ Ends(size + 1, p) /\ Distinct(size + 1, p)
          /\ Covers(Live \cup {n}, size + 1, p) /\ Linked(added, size + 1, p)
      BY <1>4 DEF Represents
    <3>2. size + 1 \in 0..(size + 1) /\ size + 1 \in 1..(size + 1)
      BY <1>3
    <3>3. added.prev[tail] = p[size + 1]
      BY SMTT(30), <3>1, <3>2 DEF Linked, Ends
    <3>4. p[size + 1] \in Live \cup {n}
      BY <3>1, <3>2 DEF Covers
    <3> QED BY SMTT(30), <3>1, <3>2, <3>3, <3>4 DEF removeTail
  <2> HIDE DEF added, removed
  <2>3. /\ unlinked \in Lists /\ (size + 1) - 1 \in Nat
        /\ d \in [0..(((size + 1) - 1) + 1) -> Ptr]
        /\ Represents(unlinked, (Live \cup {n}) \ {removed}, (size + 1) - 1, d)
    <3>1. Live \cup {n} \in SUBSET Addr /\ size + 1 \in Nat
      BY <1>3
    <3> DEFINE q == p[size + 1]
    <3>2. /\ removeNode(added, q) \in Lists /\ (size + 1) - 1 \in Nat
          /\ d \in [0..(((size + 1) - 1) + 1) -> Ptr]
          /\ Represents(removeNode(added, q), (Live \cup {n}) \ {q}, (size + 1) - 1, d)
      BY Zenon, <1>4, <2>2, <3>1, RemoveNodeLemma
    <3> HIDE DEF d
    <3> QED BY <2>2, <3>2
  <2>4. (size + 1) - 1 = size
    BY <1>3
  <2>5. \A i \in 1..size : d[i] = p[i] /\ p[i] # removed /\ p[i] \in Addr
    <3>1. \A i \in 1..size : d[i] = p[i]
      BY <1>3 DEF Dropped
    <3>2. ASSUME NEW i \in 1..size PROVE p[i] # removed /\ p[i] \in Addr
      <4>1. i \in 0..((size + 1) + 1) /\ size + 1 \in 0..((size + 1) + 1) /\ i # size + 1
            /\ i \in 1..(size + 1)
        BY <1>3
      <4> QED BY SMTT(30), <4>1, <1>3, <1>4, <2>2 DEF Distinct, Represents, Covers
    <3> QED BY <3>1, <3>2
  <2> HIDE DEF unlinked, d
  <2>6. Represents(list', (Live \cup {n}) \ {removed}, size, d)
    <3>1. (Live \cup {n}) \ {removed} \in SUBSET Addr /\ removed \in Addr \ ((Live \cup {n}) \ {removed})
      BY <1>3, <2>2
    <3> QED BY SMTT(30), <1>3, <2>1, <2>3, <2>4, <3>1, FreeLemma
  <2>7. Ends(size', d) /\ Linked(list', size', d) /\ size' \in Nat
    BY SMTT(30), <1>3, <2>1, <2>6 DEF Represents
  <2>8. ASSUME NEW i \in 1..size'
        PROVE  /\ key'[d[i]] = IF i = 1 THEN k ELSE Order[i - 1]
               /\ key'[d[i]] \in Key
    <3>0. key'[d[i]] = [key EXCEPT ![n] = k][p[i]]
      BY SMTT(30), <1>3, <2>1, <2>5
    <3>1. CASE i = 1
      BY SMTT(30), <3>0, <3>1, <1>6
    <3>2. CASE i # 1
      <4>1. i \in 2..(size + 1) /\ i - 1 \in 1..size
        BY <1>3, <2>1, <3>2
      <4> QED BY <3>0, <4>1, <3>2, <1>2, <1>6
    <3> QED BY <3>1, <3>2
  <2> QED BY <2>7, <2>8, <1>7
<1> QED BY <1>8, <1>9

\* get is a read of the abstract cache.
LEMMA GetMaps ==
    ASSUME IInv, NEW k \in Key, NEW flag \in BOOLEAN, get(k, flag)
    PROVE  Recency!Get(k, flag)
<1>1. Store' = Store
  BY DEF get, Store
<1>2. ret' = IF Store[k] = nullptr THEN Empty ELSE Store[k]
  BY StoreFacts DEF get
<1>3. CASE flag /\ Store[k] # nullptr
  <2>1. cache[k] # nullptr
    BY <1>3, StoreFacts
  <2>2. list' = moveToHead(list, cache[k]) /\ size' = size /\ key' = key
    BY <1>3, <2>1 DEF get
  <2>3. Order' = Keys(moveToHead(list, cache[k]), size, key)
    BY <2>2, Shown
  <2>4. Order' = Front(Order, k)
    BY <2>1, <2>3, MoveTouches
  <2>5. Recency!Touched(k) = Front(Order, k)
    BY <1>3 DEF Recency!Touched, Front
  <2> QED BY SMTT(30), <1>1, <1>2, <1>3, <2>4, <2>5 DEF Recency!Get
<1>4. CASE ~(flag /\ Store[k] # nullptr)
  <2>1. list' = list /\ size' = size /\ key' = key
    BY <1>4, StoreFacts DEF get
  <2>2. Order' = Order
    BY <2>1, Shown
  <2> QED BY SMTT(30), <1>1, <1>2, <1>4, <2>2 DEF Recency!Get
<1> QED BY <1>3, <1>4

\* put of a key that is present leaves the keys that the abstract cache keeps.
LEMMA PutExistingOrder ==
    ASSUME IInv, NEW k \in Key, NEW v \in Value, putExisting(k, v)
    PROVE  Order' = Recency!Kept(k)
<1>1. cache[k] # nullptr /\ list' = moveToHead(list, cache[k]) /\ size' = size /\ key' = key
  BY DEF putExisting
<1>2. Order' = Keys(moveToHead(list, cache[k]), size, key)
  BY <1>1, Shown
<1>3. Order' = Front(Order, k) /\ Len(Front(Order, k)) = size
  BY SMTT(30), <1>1, <1>2, MoveTouches
<1>4. Recency!Touched(k) = Front(Order, k)
  BY <1>1, StoreFacts DEF Recency!Touched, Front
<1>5. ~(size > capacity)
  BY LRUAssumption DEF IInv, TypeOK, ListMatchesCache
<1> QED BY <1>3, <1>4, <1>5 DEF Recency!Kept

\* put of a new key leaves the keys that the abstract cache keeps.
LEMMA PutNewKept ==
    ASSUME IInv, NEW k \in Key, NEW v \in Value, NEW n \in Addr \ Live, putNew(k, v, n)
    PROVE  Order' = Recency!Kept(k)
<1> DEFINE t == <<k>> \o Order
<1>1. /\ Order' \in Seq(Key) /\ Len(Order') = size'
      /\ \A i \in 1..size' : Order'[i] = IF i = 1 THEN k ELSE Order[i - 1]
  BY PutNewOrder
<1>2. Order \in Seq(Key) /\ Len(Order) = size
  <2>1. PICK ord \in [0..(size + 1) -> Ptr] : Represents(list, Live, size, ord)
    BY DEF IInv, ListMatchesCache
  <2> QED BY <2>1, OrderFacts
<1>3. /\ t \in Seq(Key) /\ Len(t) = size + 1
      /\ \A i \in 1..(size + 1) : t[i] = IF i = 1 THEN k ELSE Order[i - 1]
  BY SMTT(30), <1>2, TouchedNew
<1>4. Recency!Touched(k) = t
  BY StoreFacts DEF Recency!Touched, putNew
<1>5. size \in Nat /\ capacity \in Nat /\ size <= capacity
  BY LRUAssumption DEF IInv, TypeOK, ListMatchesCache
<1> HIDE DEF t
<1>6. CASE ~(size + 1 > capacity)
  <2>1. size' = size + 1
    BY SMTT(30), <1>6 DEF putNew
  <2>2. Order' = t
    BY SMTT(30), <1>1, <1>3, <2>1, SeqEqual
  <2> QED BY SMTT(30), <1>3, <1>4, <1>6, <2>2 DEF Recency!Kept
<1>7. CASE size + 1 > capacity
  <2> DEFINE u == SubSeq(t, 1, capacity)
  <2>1. size' = size /\ size = capacity
    BY SMTT(30), <1>5, <1>7 DEF putNew
  <2>2. \A i \in 1..capacity : t[i] \in Key
    BY SMTT(30), <1>3, <1>5, <2>1, LenProperties
  <2>3. /\ u \in Seq(Key) /\ Len(u) = IF 1 <= capacity THEN capacity - 1 + 1 ELSE 0
        /\ \A i \in 1..(capacity - 1 + 1) : u[i] = t[1 + i - 1]
    BY <1>5, <2>2, SubSeqProperties
  <2> HIDE DEF u
  <2>4. Len(u) = capacity
    BY SMTT(30), <1>5, <2>3
  <2>5. ASSUME NEW i \in 1..capacity PROVE u[i] = t[i]
    <3>1. i \in 1..(capacity - 1 + 1) /\ 1 + i - 1 = i
      BY <1>5
    <3> QED BY <3>1, <2>3
  <2>6. ASSUME NEW i \in 1..capacity PROVE Order'[i] = u[i]
    <3>1. i \in 1..size' /\ i \in 1..(size + 1)
      BY <1>5, <2>1
    <3> QED BY <3>1, <1>1, <1>3, <2>5
  <2>7. Order' = u
    BY <1>1, <2>1, <2>3, <2>4, <2>6, SeqEqual
  <2> QED BY Zenon, <1>3, <1>4, <1>7, <2>7 DEF Recency!Kept, u
<1> QED BY SMTT(30), <1>6, <1>7

\* put is a write of the abstract cache.
LEMMA PutMaps ==
    ASSUME IInv, NEW k \in Key, NEW v \in Value, put(k, v)
    PROVE  Recency!Put(k, v)
<1>1. Order' = Recency!Kept(k) /\ ret' = ret
  <2>1. ASSUME NEW n \in Addr \ Live, putNew(k, v, n) PROVE Order' = Recency!Kept(k) /\ ret' = ret
    BY <2>1, PutNewKept DEF putNew
  <2>2. ASSUME putExisting(k, v) PROVE Order' = Recency!Kept(k) /\ ret' = ret
    BY Zenon, <2>2, PutExistingOrder DEF putExisting
  <2> QED BY SMTT(30), <2>1, <2>2 DEF put
<1>2. IInv'
  BY PutNewKeeps, PutExistingKeeps DEF put
<1>3. \A x \in Key : x \in Recency!Members(Order') <=> cache'[x] # nullptr
  <2>1. (IInv => \A x \in Key : x \in Recency!Members(Order) <=> cache[x] # nullptr)'
    BY OrderRange, PTL
  <2> QED BY <1>2, <2>1
<1>4. ASSUME NEW x \in Key, cache'[x] # nullptr
      PROVE  value'[cache'[x]] = IF x = k THEN v ELSE Store[x]
  <2>1. ASSUME putExisting(k, v) PROVE value'[cache'[x]] = IF x = k THEN v ELSE Store[x]
    <3>1. cache' = cache /\ value' = [value EXCEPT ![cache[k]] = v] /\ Store[x] = value[cache[x]]
      BY SMTT(30), <1>4, <2>1, StoreFacts DEF putExisting
    <3>2. cache[x] \in Addr /\ cache[k] \in Addr /\ (cache[x] = cache[k] => x = k)
      BY <1>4, <2>1, <3>1 DEF putExisting, IInv, TypeOK, CacheMatchesNodes
    <3> QED BY <3>1, <3>2 DEF IInv, TypeOK
  <2>2. ASSUME NEW n \in Addr \ Live, putNew(k, v, n)
        PROVE  value'[cache'[x]] = IF x = k THEN v ELSE Store[x]
    <3> DEFINE removed == removeTail(addToHead(list, n))
               cache1 == [cache EXCEPT ![k] = n]
               value1 == [value EXCEPT ![n] = v]
    <3>1. cache1[x] = cache'[x] /\ value'[cache'[x]] = value1[cache'[x]]
      <4>1. CASE ~(size + 1 > capacity)
        BY Zenon, <2>2, <4>1 DEF putNew
      <4>2. CASE size + 1 > capacity
        <5>1. /\ cache' = [cache1 EXCEPT ![[key EXCEPT ![n] = k][removed]] = nullptr]
              /\ value' = [value1 EXCEPT ![removed] = nullptr]
          BY <2>2, <4>2 DEF putNew
        <5>2. value'[cache'[x]] # nullptr
          BY <1>2, <1>4, LRUAssumption DEF IInv, CacheMatchesNodes
        <5> HIDE DEF removed
        <5> QED BY SMTT(30), <1>4, <5>1, <5>2 DEF IInv, TypeOK
      <4> QED BY <4>1, <4>2
    <3> HIDE DEF removed
    <3>2. CASE x = k
      BY SMTT(30), <3>1, <3>2 DEF IInv, TypeOK
    <3>3. CASE x # k
      <4>1. cache'[x] = cache[x] /\ cache[x] \in Live /\ cache[x] # n /\ cache[x] \in Addr
        BY <1>4, <3>1, <3>3 DEF IInv, TypeOK, Live
      <4> QED BY <1>4, <3>1, <3>3, <4>1, StoreFacts DEF IInv, TypeOK
    <3> QED BY <3>2, <3>3
  <2> QED BY <2>1, <2>2 DEF put
<1>5. Store' = [x \in Key |-> IF cache'[x] = nullptr THEN nullptr ELSE value'[cache'[x]]]
  BY DEF Store
<1>6. Store' = [x \in Key |-> IF x \notin Recency!Members(Recency!Kept(k)) THEN nullptr
                              ELSE IF x = k THEN v ELSE Store[x]]
  BY <1>1, <1>3, <1>4, <1>5
<1> QED BY <1>1, <1>6 DEF Recency!Put

\* Every step of the linked list is a step of the abstract cache, or changes
\* nothing that it shows.
LEMMA StepMaps == IInv /\ [Next]_vars => [Recency!Next]_(Recency!vars)
<1> SUFFICES ASSUME IInv, [Next]_vars PROVE [Recency!Next]_(Recency!vars)
  OBVIOUS
<1>1. ASSUME NEW k \in Key, NEW flag \in BOOLEAN, get(k, flag) PROVE Recency!Get(k, flag)
  BY <1>1, GetMaps
<1>2. ASSUME NEW k \in Key, NEW v \in Value, put(k, v) PROVE Recency!Put(k, v)
  BY <1>2, PutMaps
<1>3. CASE UNCHANGED vars
  <2>1. Order' = Order /\ Store' = Store /\ ret' = ret
    BY <1>3, Shown DEF vars, Store
  <2> QED BY <2>1 DEF Recency!vars
<1> QED BY <1>1, <1>2, <1>3 DEF Next, Recency!Next

\* For any keys, values and capacity, the linked list with its hash table
\* implements the LRU cache: get and put keep exactly the capacity most recently
\* used keys, with the last value written to each.
THEOREM RefinementCorrect == Spec => RefinesRecencyCache
<1>1. Init => Recency!Init
  <2> SUFFICES ASSUME Init PROVE Recency!Init
    OBVIOUS
  <2>1. Order = <<>>
    BY DEF Init, Order
  <2> QED BY <2>1 DEF Init, Store, Recency!Init
<1> QED BY <1>1, InitIInv, NextIInv, StepMaps, PTL DEF Spec, RefinesRecencyCache, Recency!Spec
=============================================================================
