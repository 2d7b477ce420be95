----------------------------- MODULE MiniProofs -----------------------------
(***************************************************************************)
(* The timer heap of MiniMaster stays a heap with a matching index, and    *)
(* closes only idle connections, for any descriptors, memory and times.    *)
(***************************************************************************)
EXTENDS MiniMaster, WellFoundedInduction, NaturalsInduction, TLAPS

(* Loops.                                                                  *)

\* Sets of numbers that are not empty have a least element.
LEMMA LeastExists ==
    ASSUME NEW S, S \subseteq Nat, S # {}
    PROVE  \E p \in S : \A q \in S : p <= q
<1> DEFINE R == OpToRel(<, Nat)
<1>1. IsWellFoundedOn(R, Nat)
  BY Zenon, NatLessThanWellFounded
<1>2. \A x, y \in Nat : <<y, x>> \notin R => x <= y
  BY DEF OpToRel
<1> HIDE DEF R
<1>3. \E x \in S : \A y \in S : ~(<<y, x>> \in R)
  BY Zenon, <1>1, WFMin
<1> QED
  BY Zenon, <1>2, <1>3

\* Induction, for a set of numbers.
LEMMA Induct ==
    ASSUME NEW S, S \subseteq Nat, 0 \in S, \A n \in S : n + 1 \in S
    PROVE  S = Nat
<1> SUFFICES ASSUME Nat \ S # {} PROVE FALSE
  BY Zenon
<1>1. PICK p \in Nat \ S : \A q \in Nat \ S : p <= q
  BY Zenon, LeastExists
<1>2. p - 1 \in Nat /\ p - 1 \notin Nat \ S
  BY <1>1
<1> QED
  BY <1>1, <1>2

\* The first n iterations of a loop.
IsRun(body, start, n, r) ==
    /\ r[0] = start
    /\ \A m \in 1..n : r[m] = body[r[m - 1]]

\* Runs of the same loop agree.
LEMMA RunsAgree ==
    ASSUME NEW body, NEW start, NEW n \in Nat, NEW k \in Nat, n <= k, NEW r, NEW q,
           IsRun(body, start, n, r), IsRun(body, start, k, q)
    PROVE  r[n] = q[n]
<1> DEFINE S == {m \in Nat : m <= n => r[m] = q[m]}
<1>1. 0 \in S
  BY DEF IsRun
<1>2. ASSUME NEW m \in S PROVE m + 1 \in S
  <2> SUFFICES ASSUME m + 1 <= n PROVE r[m + 1] = q[m + 1]
    OBVIOUS
  <2>1. m \in Nat /\ (m <= n => r[m] = q[m])
    OBVIOUS
  <2>2. m <= n /\ m + 1 \in 1..n /\ m + 1 \in 1..k /\ (m + 1) - 1 = m
    BY <2>1
  <2>3. r[m + 1] = body[r[m]]
    BY <2>2 DEF IsRun
  <2>4. q[m + 1] = body[q[m]]
    BY <2>2 DEF IsRun
  <2> QED
    BY <2>1, <2>2, <2>3, <2>4
<1>3. S = Nat
  <2> HIDE DEF S
  <2> QED BY Zenon, <1>1, <1>2, Induct DEF S
<1> QED
  BY <1>3

\* Every number of iterations has its run.
LEMMA RunExists ==
    ASSUME NEW body, NEW start, NEW n \in Nat
    PROVE  \E r : IsRun(body, start, n, r)
<1> DEFINE S == {m \in Nat : \E r : IsRun(body, start, m, r)}
<1>1. 0 \in S
  <2>1. IsRun(body, start, 0, [m \in 0..0 |-> start])
    BY DEF IsRun
  <2> QED
    BY <2>1
<1>2. ASSUME NEW m \in S PROVE m + 1 \in S
  <2>1. PICK r : IsRun(body, start, m, r)
    OBVIOUS
  <2> DEFINE q == [l \in 0..(m + 1) |-> IF l <= m THEN r[l] ELSE body[r[m]]]
  <2>2. q[0] = start
    BY <2>1 DEF IsRun
  <2>3. ASSUME NEW l \in 1..(m + 1) PROVE q[l] = body[q[l - 1]]
    <3>0. m \in Nat
      OBVIOUS
    <3>1. l - 1 \in 0..(m + 1) /\ l - 1 <= m
      BY <3>0
    <3>2. CASE l <= m
      <4>1. r[l] = body[r[l - 1]]
        BY <2>1, <3>0, <3>1, <3>2 DEF IsRun
      <4>2. q[l] = r[l] /\ q[l - 1] = r[l - 1]
        BY <3>0, <3>1, <3>2
      <4> HIDE DEF q
      <4> QED BY <4>1, <4>2
    <3>3. CASE l = m + 1 BY <3>0, <3>1, <3>3
    <3> QED BY <3>0, <3>2, <3>3
  <2>4. IsRun(body, start, m + 1, q)
    <3> HIDE DEF q
    <3> QED BY <2>2, <2>3 DEF IsRun
  <2> QED
    BY <2>4
<1>3. S = Nat
  <2> HIDE DEF S
  <2> QED BY Zenon, <1>1, <1>2, Induct DEF S
<1> QED
  BY <1>3

\* Iterate does what its recursive definition says.
LEMMA Iterates ==
    ASSUME NEW body, NEW start
    PROVE  /\ Iterate(body, start, 0) = start
           /\ \A k \in Nat : Iterate(body, start, k + 1) = body[Iterate(body, start, k)]
<1> DEFINE R(n) == CHOOSE r : IsRun(body, start, n, r)
           g == [n \in Nat |-> R(n)[n]]
           F(h) == [m \in Nat |-> IF m = 0 THEN start ELSE body[h[m - 1]]]
           state == CHOOSE h : h = F(h)
<1>1. ASSUME NEW n \in Nat PROVE IsRun(body, start, n, R(n))
  BY RunExists
<1>2. g[0] = start
  BY <1>1 DEF IsRun
<1>3. ASSUME NEW n \in Nat, n # 0 PROVE g[n] = body[g[n - 1]]
  <2>1. n - 1 \in Nat /\ n - 1 <= n /\ n \in 1..n
    BY <1>3
  <2>2. R(n)[n - 1] = R(n - 1)[n - 1]
    <3> HIDE DEF R
    <3> QED BY <1>1, <2>1, RunsAgree
  <2>3. R(n)[n] = body[R(n)[n - 1]]
    <3> HIDE DEF R
    <3> QED BY <1>1, <2>1 DEF IsRun
  <2> QED
    BY <2>1, <2>2, <2>3
<1>4. g = F(g)
  <2> HIDE DEF R
  <2>1. \A n \in Nat : g[n] = IF n = 0 THEN start ELSE body[g[n - 1]]
    <3> HIDE DEF g
    <3> QED BY <1>2, <1>3
  <2>2. g = [n \in Nat |-> g[n]]
    OBVIOUS
  <2> HIDE DEF g
  <2> QED
    BY <2>1, <2>2, Zenon
<1>5. state = F(state)
  <2> HIDE DEF g
  <2> QED BY <1>4, Zenon
<1>6. \A k \in Nat : Iterate(body, start, k) = state[k]
  BY Zenon DEF Iterate
<1> HIDE DEF state
<1>7. \A k \in Nat : state[k] = IF k = 0 THEN start ELSE body[state[k - 1]]
  <2>1. \A k \in Nat : F(state)[k] = IF k = 0 THEN start ELSE body[state[k - 1]]
    BY Zenon
  <2> HIDE DEF F
  <2> QED BY <1>5, <2>1, Zenon
<1>8. ASSUME NEW k \in Nat PROVE state[k + 1] = body[state[k]]
  <2>1. k + 1 \in Nat /\ k + 1 # 0 /\ (k + 1) - 1 = k OBVIOUS
  <2> QED BY <1>7, <2>1
<1> QED
  BY <1>6, <1>7, <1>8

\* What holds at the start of a loop and after each iteration holds at every time.
LEMMA LoopKeeps ==
    ASSUME NEW body, NEW start, NEW Inv, start \in Inv, \A s \in Inv : body[s] \in Inv, NEW k \in Nat
    PROVE  Iterate(body, start, k) \in Inv
<1> DEFINE S == {m \in Nat : Iterate(body, start, m) \in Inv}
<1>1. 0 \in S
  BY Iterates
<1>2. ASSUME NEW m \in S PROVE m + 1 \in S
  <2>1. Iterate(body, start, m + 1) = body[Iterate(body, start, m)]
    BY ZenonT(30), Iterates
  <2> QED
    BY <2>1
<1>3. S = Nat
  <2> HIDE DEF S
  <2> QED BY Zenon, <1>1, <1>2, Induct DEF S
<1> QED
  BY <1>3

\* A loop whose iterations lower a measure, until they change nothing, has ended after
\* as many of them as the measure says.
LEMMA LoopEnds ==
    ASSUME NEW body, NEW start, NEW Inv, start \in Inv, \A s \in Inv : body[s] \in Inv,
           NEW measure \in [Inv -> Nat],
           \A s \in Inv : body[s] = s \/ measure[body[s]] < measure[s],
           NEW k \in Nat, measure[start] <= k
    PROVE  Iterate(body, start, k) \in Inv /\ body[Iterate(body, start, k)] = Iterate(body, start, k)
<1> DEFINE at(m) == Iterate(body, start, m)
           S == {m \in Nat : body[at(m)] = at(m) \/ measure[at(m)] <= k - m}
<1>0. ASSUME NEW m \in Nat PROVE at(m) \in Inv /\ at(m + 1) = body[at(m)]
  BY ZenonT(30), LoopKeeps, Iterates
<1>1. 0 \in S
  <2>1. at(0) = start
    BY Iterates
  <2> HIDE DEF at
  <2> QED BY <2>1
<1>2. ASSUME NEW m \in S PROVE m + 1 \in S
  <2> HIDE DEF at
  <2>1. m \in Nat /\ at(m) \in Inv /\ at(m + 1) = body[at(m)] /\ at(m + 1) \in Inv
    BY <1>0
  <2>2. CASE body[at(m)] = at(m)
    BY <2>1, <2>2
  <2>3. CASE body[at(m)] # at(m)
    <3>1. measure[at(m)] <= k - m /\ measure[at(m + 1)] < measure[at(m)]
      BY <2>1, <2>3
    <3>2. measure[at(m)] \in Nat /\ measure[at(m + 1)] \in Nat
      BY <2>1
    <3> QED BY <2>1, <3>1, <3>2
  <2> QED
    BY <2>2, <2>3
<1>3. S = Nat
  <2> HIDE DEF S
  <2> QED BY Zenon, <1>1, <1>2, Induct DEF S
<1> HIDE DEF at
<1>4. at(k) \in Inv /\ body[at(k)] \in Inv /\ (body[at(k)] = at(k) \/ measure[at(k)] <= k - k)
  BY SMTT(30), <1>0, <1>3
<1>5. measure[at(k)] \in Nat /\ measure[body[at(k)]] \in Nat
  BY <1>4
<1> QED
  BY <1>4, <1>5 DEF at
-----------------------------------------------------------------------------
(* The heap.                                                               *)
Has(t, f) == t.ref[f] # 0
Of(t, f) == t.heap[t.ref[f]]

\* ref_ and heap_ match.
Indexed(t) ==
    /\ t \in Timers
    /\ \A i \in 1..Len(t.heap) : t.ref[t.heap[i].id] = i
    /\ \A f \in Fd : Has(t, f) => t.ref[f] \in 1..Len(t.heap) /\ Of(t, f).id = f

\* The timers of t are those of u, but for their positions among the first n.
Moved(t, u, n) ==
    /\ Indexed(u) /\ Len(u.heap) = Len(t.heap)
    /\ \A p \in (n + 1)..Len(t.heap) : u.heap[p] = t.heap[p]
    /\ \A f \in Fd : (Has(u, f) <=> Has(t, f)) /\ (Has(t, f) => Of(u, f) = Of(t, f))

E(t, p) == t.heap[p].expire
Ordered(t, n) == \A p \in 2..n : E(t, p \div 2) <= E(t, p)

\* Ordered but for the position i.
Hole(t, n, i) ==
    /\ \A p \in 2..n : p # i /\ p \div 2 # i => E(t, p \div 2) <= E(t, p)
    /\ i > 1 => \A p \in 2..n : p \div 2 = i => E(t, i \div 2) <= E(t, p)

\* Parents and children.
LEMMA Half ==
    ASSUME NEW p \in Nat, p > 1
    PROVE  /\ p \div 2 \in Nat /\ p \div 2 >= 1 /\ p \div 2 < p
           /\ \A i \in Nat : p \div 2 = i <=> p = 2 * i \/ p = 2 * i + 1
OBVIOUS

\* A sequence with another element at i.
LEMMA Except ==
    ASSUME NEW S, NEW s \in Seq(S), NEW i \in 1..Len(s), NEW x \in S
    PROVE  [s EXCEPT ![i] = x] \in Seq(S) /\ Len([s EXCEPT ![i] = x]) = Len(s)
OBVIOUS

\* A function on 1..n is a sequence.
LEMMA IsSeq ==
    ASSUME NEW S, NEW n \in Nat, NEW h \in [1..n -> S]
    PROVE  h \in Seq(S) /\ Len(h) = n
OBVIOUS

\* The nodes of a heap.
LEMMA NodesOf ==
    ASSUME NEW t, t \in Timers
    PROVE  /\ t.heap \in Seq(TimeNode) /\ Len(t.heap) \in Nat /\ t.ref \in [Fd -> Nat]
           /\ t = [heap |-> t.heap, ref |-> t.ref]
           /\ \A p \in 1..Len(t.heap) : /\ t.heap[p] \in TimeNode
                                        /\ t.heap[p].id \in Fd /\ E(t, p) \in Int
<1>1. t.heap \in Seq(TimeNode) /\ t.ref \in [Fd -> Nat] /\ t = [heap |-> t.heap, ref |-> t.ref]
  BY DEF Timers
<1>2. Len(t.heap) \in Nat /\ \A p \in 1..Len(t.heap) : t.heap[p] \in TimeNode
  BY <1>1
<1>3. \A x \in TimeNode : x.id \in Fd /\ x.expire \in Int
  BY DEF TimeNode
<1> QED
  BY <1>1, <1>2, <1>3, Zenon DEF E

\* Nothing is moved.
LEMMA MovedNot ==
    ASSUME NEW t, Indexed(t), NEW n
    PROVE  Moved(t, t, n)
BY Zenon DEF Moved

\* Timers that are moved twice are the same timers.
LEMMA MovedTwice ==
    ASSUME NEW t, NEW u, NEW v, NEW n, Moved(t, u, n), Moved(u, v, n)
    PROVE  Moved(t, v, n)
<1>1. ASSUME NEW f \in Fd
      PROVE  (Has(v, f) <=> Has(t, f)) /\ (Has(t, f) => Of(v, f) = Of(t, f))
  BY Zenon DEF Moved
<1>2. ASSUME NEW p \in (n + 1)..Len(t.heap) PROVE v.heap[p] = t.heap[p]
  <2>1. Len(u.heap) = Len(t.heap)
    BY DEF Moved
  <2>2. p \in (n + 1)..Len(u.heap)
    BY <2>1
  <2>3. u.heap[p] = t.heap[p]
    BY Zenon DEF Moved
  <2>4. v.heap[p] = u.heap[p]
    BY <2>2, Zenon DEF Moved
  <2> QED
    BY <2>3, <2>4
<1> QED
  BY <1>1, <1>2, Zenon DEF Moved

\* swapNode keeps ref_ and heap_ together.
LEMMA SwapMoves ==
    ASSUME NEW t, Indexed(t), NEW n \in Nat, n <= Len(t.heap), NEW i \in 1..n, NEW j \in 1..n, i # j
    PROVE  /\ Moved(t, swapNode(t, i, j), n)
           /\ E(swapNode(t, i, j), i) = E(t, j) /\ E(swapNode(t, i, j), j) = E(t, i)
           /\ \A p \in 1..Len(t.heap) : p # i /\ p # j => E(swapNode(t, i, j), p) = E(t, p)
<1> DEFINE u == swapNode(t, i, j)
           a == t.heap[i]
           b == t.heap[j]
<1>0. t \in Timers BY DEF Indexed
<1>1. t.heap \in Seq(TimeNode) /\ Len(t.heap) \in Nat /\ t.ref \in [Fd -> Nat] /\ i \in 1..Len(t.heap) /\ j \in 1..Len(t.heap)
  BY <1>0, NodesOf
<1>2. a \in TimeNode /\ b \in TimeNode /\ a.id \in Fd /\ b.id \in Fd /\ t.ref[a.id] = i /\ t.ref[b.id] = j /\ a.id # b.id
  BY <1>0, <1>1, NodesOf DEF Indexed
<1>3. u.heap = [t.heap EXCEPT ![i] = b, ![j] = a] /\ u.ref = [t.ref EXCEPT ![b.id] = i, ![a.id] = j]
  BY DEF swapNode
<1>4. u = [heap |-> u.heap, ref |-> u.ref]
  BY DEF swapNode
<1> HIDE DEF u, a, b
<1>5. u.heap \in Seq(TimeNode) /\ Len(u.heap) = Len(t.heap) /\ u.ref \in [Fd -> Nat]
  <2>1. [t.heap EXCEPT ![i] = b] \in Seq(TimeNode) /\ Len([t.heap EXCEPT ![i] = b]) = Len(t.heap)
    BY <1>1, <1>2, Except
  <2>2. u.heap \in Seq(TimeNode) /\ Len(u.heap) = Len(t.heap)
    BY <1>1, <1>2, <1>3, <2>1, Except
  <2>3. u.ref \in [Fd -> Nat]
    BY <1>1, <1>2, <1>3
  <2> QED BY <2>2, <2>3
<1>6. u.heap[i] = b /\ u.heap[j] = a /\ \A p \in 1..Len(t.heap) : p # i /\ p # j => u.heap[p] = t.heap[p]
  BY <1>1, <1>3
<1>7. u.ref[b.id] = i /\ u.ref[a.id] = j /\ \A f \in Fd : f # a.id /\ f # b.id => u.ref[f] = t.ref[f]
  BY <1>1, <1>2, <1>3
<1>8. u \in Timers
  BY <1>4, <1>5, Zenon DEF Timers
<1>9. ASSUME NEW p \in 1..Len(u.heap) PROVE u.ref[u.heap[p].id] = p
  <2>1. CASE p = i BY <2>1, <1>6, <1>7
  <2>2. CASE p = j BY <2>2, <1>6, <1>7
  <2>3. CASE p # i /\ p # j
    <3>1. u.heap[p] = t.heap[p] /\ t.ref[t.heap[p].id] = p /\ t.heap[p].id \in Fd
      BY SMTT(30), <2>3, <1>0, <1>5, <1>6, NodesOf DEF Indexed
    <3> QED BY SMTT(30), <2>3, <3>1, <1>2, <1>7
  <2> QED BY <2>1, <2>2, <2>3
<1>10. ASSUME NEW f \in Fd
       PROVE  /\ Has(u, f) <=> Has(t, f)
              /\ Has(t, f) => Of(u, f) = Of(t, f) /\ u.ref[f] \in 1..Len(u.heap) /\ Of(u, f).id = f
  <2>1. CASE f = a.id
    <3>1. t.ref[f] = i /\ u.ref[f] = j /\ u.heap[j] = a /\ t.heap[i] = a
      BY <2>1, <1>2, <1>6, <1>7 DEF a
    <3> QED BY <2>1, <3>1, <1>1, <1>5 DEF Has, Of
  <2>2. CASE f = b.id
    <3>1. t.ref[f] = j /\ u.ref[f] = i /\ u.heap[i] = b /\ t.heap[j] = b
      BY <2>2, <1>2, <1>6, <1>7 DEF b
    <3> QED BY <2>2, <3>1, <1>1, <1>5 DEF Has, Of
  <2>3. CASE f # a.id /\ f # b.id
    <3>1. u.ref[f] = t.ref[f] /\ (Has(u, f) <=> Has(t, f))
      BY <2>3, <1>7 DEF Has
    <3>2. ASSUME Has(t, f) PROVE Of(u, f) = Of(t, f) /\ u.ref[f] \in 1..Len(u.heap) /\ Of(u, f).id = f
      <4>1. t.ref[f] \in 1..Len(t.heap) /\ Of(t, f).id = f
        BY <3>2, Zenon DEF Indexed
      <4>2. t.ref[f] # i /\ t.ref[f] # j
        BY <4>1, <2>3 DEF Of, a, b
      <4> QED BY SMTT(30), <3>1, <4>1, <4>2, <1>5, <1>6 DEF Of
    <3> QED BY <3>1, <3>2
  <2> QED BY <2>1, <2>2, <2>3
<1>11. Indexed(u)
  BY <1>8, <1>9, <1>10, Zenon DEF Indexed
<1>12. ASSUME NEW p \in (n + 1)..Len(t.heap) PROVE u.heap[p] = t.heap[p]
  BY <1>1, <1>6
<1>13. Moved(t, u, n)
  BY <1>5, <1>10, <1>11, <1>12, Zenon DEF Moved
<1> QED
  BY <1>6, <1>13, Zenon DEF E, u, a, b

\* The timer at i is not later than its children.
Above(t, n, i) == \A p \in 2..n : p \div 2 = i => E(t, i) <= E(t, p)

\* An exchange of i and j, as far as the order is concerned.
Exchanged(t, u, n, i, j) ==
    /\ \A p \in 1..n : E(t, p) \in Int /\ E(u, p) \in Int
    /\ E(u, i) = E(t, j) /\ E(u, j) = E(t, i)
    /\ \A p \in 1..n : p # i /\ p # j => E(u, p) = E(t, p)

\* The order after an iteration of shiftup.
LEMMA UpOrder ==
    ASSUME NEW t, NEW u, NEW n \in Nat, NEW i \in 2..n, NEW j, j = i \div 2, Exchanged(t, u, n, i, j),
           E(t, i) <= E(t, j), Hole(t, n, i), Above(t, n, i)
    PROVE  Hole(u, n, j) /\ Above(u, n, j)
<1>0. j \in 1..n /\ j < i /\ i = i /\ i \in Nat /\ j \in Nat
  BY Half
<1>1. ASSUME NEW p \in 2..n
      PROVE  /\ p \in 1..n /\ p \div 2 \in 1..n /\ p \div 2 < p
             /\ (p # i /\ p \div 2 # i => E(t, p \div 2) <= E(t, p))
             /\ (p \div 2 = i => E(t, j) <= E(t, p) /\ E(t, i) <= E(t, p))
  BY Half DEF Hole, Above
<1>2. ASSUME NEW p \in 2..n, p # j, p \div 2 # j PROVE E(u, p \div 2) <= E(u, p)
  BY <1>0, <1>1, <1>2 DEF Exchanged
<1>3. ASSUME NEW p \in 2..n, p \div 2 = j PROVE E(u, j) <= E(u, p)
  BY <1>0, <1>1, <1>3 DEF Exchanged
<1>4. ASSUME j > 1, NEW p \in 2..n, p \div 2 = j PROVE E(u, j \div 2) <= E(u, p)
  <2>1. j \div 2 \in 1..n /\ j \div 2 < j
    BY <1>0, <1>4, Half
  <2>2. E(t, j \div 2) <= E(t, j) /\ E(u, j \div 2) = E(t, j \div 2)
    BY <1>0, <1>1, <1>4, <2>1 DEF Exchanged
  <2>3. E(t, j) <= E(u, p)
    BY <1>0, <1>1, <1>4 DEF Exchanged
  <2> QED
    BY <1>0, <1>1, <1>4, <2>1, <2>2, <2>3 DEF Exchanged
<1> QED
  BY <1>2, <1>3, <1>4 DEF Hole, Above

\* The order after an iteration of shiftdown: j is the earlier of the children.
LEMMA DownOrder ==
    ASSUME NEW t, NEW u, NEW n \in Nat, NEW i \in 1..n, NEW j \in 2..n, i = j \div 2, Exchanged(t, u, n, i, j),
           E(t, j) <= E(t, i), \A p \in 2..n : p \div 2 = i => E(t, j) <= E(t, p), Hole(t, n, i)
    PROVE  Hole(u, n, j) /\ E(u, i) <= E(u, j)
<1>0. i < j /\ i \in Nat /\ j \in Nat /\ j \in 1..n
  BY Half
<1>1. ASSUME NEW p \in 2..n
      PROVE  /\ p \in 1..n /\ p \div 2 \in 1..n /\ p \div 2 < p
             /\ (p # i /\ p \div 2 # i => E(t, p \div 2) <= E(t, p))
             /\ (p \div 2 = i => E(t, j) <= E(t, p))
             /\ (p \div 2 = i /\ i > 1 => E(t, i \div 2) <= E(t, p))
  <2>1. p \in 1..n /\ p \div 2 \in 1..n /\ p \div 2 < p
    BY Half
  <2> QED
    BY <2>1, Zenon DEF Hole
<1>2. ASSUME NEW p \in 2..n, p # j, p \div 2 # j PROVE E(u, p \div 2) <= E(u, p)
  BY <1>0, <1>1, <1>2 DEF Exchanged
<1>3. ASSUME NEW p \in 2..n, p \div 2 = j PROVE E(u, i) <= E(u, p)
  BY <1>0, <1>1, <1>3 DEF Exchanged
<1>4. E(u, i) <= E(u, j)
  BY DEF Exchanged
<1> QED
  BY <1>2, <1>3, <1>4 DEF Hole

States == [t : Timers, i : Nat]

\* What the loop of shiftup keeps.
UpInv(t, n, s) ==
    /\ s \in States /\ s.i \in 1..n
    /\ Moved(t, s.t, n) /\ Hole(s.t, n, s.i) /\ Above(s.t, n, s.i)

\* A swap of two positions exchanges their times.
LEMMA SwapExchanges ==
    ASSUME NEW t, NEW v, NEW n \in Nat, n <= Len(t.heap), Moved(t, v, n), NEW i \in 1..n, NEW j \in 1..n, i # j
    PROVE  Moved(t, swapNode(v, i, j), n) /\ Exchanged(v, swapNode(v, i, j), n, i, j) /\ swapNode(v, i, j) \in Timers
<1> DEFINE u == swapNode(v, i, j)
<1>1. Indexed(v) /\ Len(v.heap) = Len(t.heap)
  BY Zenon DEF Moved
<1>2. /\ Moved(v, u, n) /\ E(u, i) = E(v, j) /\ E(u, j) = E(v, i)
      /\ \A p \in 1..Len(v.heap) : p # i /\ p # j => E(u, p) = E(v, p)
  BY <1>1, SwapMoves
<1> HIDE DEF u
<1>3. Moved(t, u, n)
  BY <1>2, MovedTwice
<1>4. v \in Timers /\ u \in Timers /\ Len(u.heap) = Len(t.heap)
  BY <1>1, <1>2, Zenon DEF Moved, Indexed
<1>5. Len(t.heap) \in Nat
  BY <1>1, <1>4, NodesOf
<1>6. ASSUME NEW p \in 1..n PROVE p \in 1..Len(v.heap) /\ E(v, p) \in Int /\ E(u, p) \in Int
  <2>1. p \in 1..Len(v.heap) /\ p \in 1..Len(u.heap)
    BY <1>1, <1>4, <1>5
  <2> QED BY <2>1, <1>4, NodesOf
<1>7. Exchanged(v, u, n, i, j)
  BY <1>2, <1>6, Zenon DEF Exchanged
<1> QED
  BY <1>3, <1>4, <1>7 DEF u

\* An iteration of shiftup keeps the invariant; it ends the loop or goes up.
LEMMA UpStep ==
    ASSUME NEW t, NEW n \in Nat, n <= Len(t.heap), NEW s, UpInv(t, n, s)
    PROVE  /\ UpInv(t, n, up(s))
           /\ up(s) = s \/ up(s).i < s.i
           /\ up(s) = s => Ordered(s.t, n)
<1> DEFINE i == s.i
           j == i \div 2
           u == swapNode(s.t, i, j)
<1>0. i \in 1..n /\ Moved(t, s.t, n) /\ Hole(s.t, n, i) /\ Above(s.t, n, i) /\ s \in States
  BY Zenon DEF UpInv
<1>1. CASE i = 1
  <2>1. up(s) = s
    BY <1>1, Zenon DEF up
  <2>2. Ordered(s.t, n)
    <3> HIDE DEF i
    <3> SUFFICES ASSUME NEW p \in 2..n PROVE E(s.t, p \div 2) <= E(s.t, p)
      BY DEF Ordered
    <3> QED BY <1>0, <1>1 DEF Hole, Above
  <2> QED BY <2>1, <2>2
<1>2. CASE i # 1 /\ s.t.heap[j].expire < s.t.heap[i].expire
  <2>1. up(s) = s
    BY <1>2, Zenon DEF up
  <2>2. E(s.t, j) < E(s.t, i)
    BY <1>2, Zenon DEF E
  <2>3. i \in 1..Len(s.t.heap) /\ j \in 1..Len(s.t.heap)
    <3>1. Len(s.t.heap) = Len(t.heap) /\ s.t \in Timers
      BY <1>0, Zenon DEF Moved, Indexed
    <3>2. Len(t.heap) \in Nat
      BY <3>1, NodesOf
    <3> QED BY <3>1, <3>2, <1>0, <1>2, Half
  <2>4. E(s.t, i) \in Int /\ E(s.t, j) \in Int
    BY <2>3, <1>0, NodesOf, Zenon DEF Moved, Indexed
  <2>5. E(s.t, j) <= E(s.t, i)
    <3> HIDE DEF i, j
    <3> QED BY <2>2, <2>4
  <2>6. Ordered(s.t, n)
    <3> SUFFICES ASSUME NEW p \in 2..n PROVE E(s.t, p \div 2) <= E(s.t, p)
      BY DEF Ordered
    <3>1. CASE p = i BY <3>1, <2>5
    <3>2. CASE p # i
      <4> HIDE DEF i, j
      <4> QED BY <3>2, <1>0 DEF Hole, Above
    <3> QED BY <3>1, <3>2
  <2> QED BY <2>1, <2>6
<1>3. CASE i # 1 /\ ~(s.t.heap[j].expire < s.t.heap[i].expire)
  <2>1. up(s) = [t |-> u, i |-> j]
    BY <1>3, Zenon DEF up
  <2>2. ~(E(s.t, j) < E(s.t, i))
    BY <1>3, Zenon DEF E
  <2>3. i \in 2..n /\ j \in 1..n /\ j < i /\ j \in Nat
    BY <1>0, <1>3, Half
  <2>4. Moved(t, u, n) /\ Exchanged(s.t, u, n, i, j) /\ u \in Timers
    BY <1>0, <2>3, SwapExchanges
  <2>5. E(s.t, i) <= E(s.t, j)
    <3>1. E(s.t, i) \in Int /\ E(s.t, j) \in Int
      BY <2>3, <2>4, Zenon DEF Exchanged
    <3> HIDE DEF i, j
    <3> QED BY <2>2, <3>1
  <2>6. Hole(u, n, j) /\ Above(u, n, j)
    <3> HIDE DEF u, i
    <3> QED BY <1>0, <2>3, <2>4, <2>5, UpOrder
  <2> HIDE DEF u, j, i
  <2>7. up(s) \in States /\ up(s).t = u /\ up(s).i = j
    BY <2>1, <2>3, <2>4 DEF States
  <2>8. UpInv(t, n, up(s))
    BY <2>3, <2>4, <2>6, <2>7, Zenon DEF UpInv
  <2>9. up(s).i < s.i /\ up(s) # s
    BY <2>3, <2>7 DEF i
  <2> QED
    BY <2>8, <2>9
<1> QED
  BY <1>1, <1>2, <1>3

\* shiftup from a position that is at most too early orders the first n timers.
LEMMA ShiftUp ==
    ASSUME NEW t, Indexed(t), NEW n \in Nat, n <= Len(t.heap), NEW i \in 1..n, Hole(t, n, i), Above(t, n, i)
    PROVE  Moved(t, shiftup(t, i).t, n) /\ Ordered(shiftup(t, i).t, n)
<1> DEFINE body == [s \in States |-> up(s)]
           start == [t |-> t, i |-> i]
           Inv == {s \in States : UpInv(t, n, s)}
           measure == [s \in Inv |-> s.i]
           end == Iterate(body, start, Len(t.heap))
<1>0. t \in Timers /\ Len(t.heap) \in Nat /\ i \in Nat
  BY NodesOf DEF Indexed
<1>1. start \in States /\ start.t = t /\ start.i = i
  BY <1>0 DEF States
<1>2. start \in Inv
  <2> HIDE DEF start
  <2>1. UpInv(t, n, start)
    BY <1>1, MovedNot, Zenon DEF UpInv
  <2> QED BY <1>1, <2>1
<1>3. ASSUME NEW s \in Inv
      PROVE  body[s] = up(s) /\ body[s] \in Inv /\ (body[s] = s \/ measure[body[s]] < measure[s])
  <2>1. s \in States /\ UpInv(t, n, s)
    OBVIOUS
  <2>2. UpInv(t, n, up(s)) /\ (up(s) = s \/ up(s).i < s.i)
    BY <2>1, UpStep
  <2>3. up(s) \in States
    BY <2>2 DEF UpInv
  <2>4. body[s] = up(s)
    BY <2>1
  <2>5. body[s] \in Inv
    <3> HIDE DEF body
    <3> QED BY <2>2, <2>3, <2>4
  <2>6. measure[s] = s.i /\ measure[body[s]] = body[s].i
    <3> HIDE DEF body, Inv
    <3> QED BY <2>5
  <2> HIDE DEF body, measure, Inv
  <2> QED BY <2>2, <2>4, <2>5, <2>6
<1>4. measure \in [Inv -> Nat]
  BY DEF States
<1>5. measure[start] <= Len(t.heap)
  <2>1. measure[start] = start.i
    BY <1>2
  <2> HIDE DEF measure, start
  <2> QED BY <2>1, <1>0, <1>1
<1>6. end \in Inv /\ body[end] = end
  <2> HIDE DEF body, Inv, measure, start
  <2> QED BY Zenon, <1>0, <1>2, <1>3, <1>4, <1>5, LoopEnds
<1>7. shiftup(t, i).t = end.t
  BY DEF shiftup, States
<1> HIDE DEF end
<1>8. up(end) = end
  <2> HIDE DEF body, Inv
  <2> QED BY Zenon, <1>3, <1>6
<1>9. UpInv(t, n, end)
  BY <1>6
<1>10. Ordered(end.t, n)
  BY <1>8, <1>9, UpStep
<1> QED
  BY <1>7, <1>9, <1>10, Zenon DEF UpInv

\* What the loop of shiftdown keeps, from the position i on.
DownInv(t, n, i, s) ==
    /\ s \in States /\ s.i \in i..n
    /\ Moved(t, s.t, n) /\ Hole(s.t, n, s.i)
    /\ s.i = i => s.t = t
    /\ s.i # i => E(s.t, s.i \div 2) <= E(s.t, s.i)

\* An iteration of shiftdown keeps the invariant; it ends the loop or goes down.
LEMMA DownStep ==
    ASSUME NEW t, NEW n \in Nat, n <= Len(t.heap), NEW a \in 1..n, NEW s, DownInv(t, n, a, s)
    PROVE  /\ DownInv(t, n, a, down(s, n))
           /\ down(s, n) = s \/ down(s, n).i > s.i
           /\ down(s, n) = s => Above(s.t, n, s.i)
<1> DEFINE i == s.i
           h == s.t.heap
           left == 2 * i
           j == IF left + 1 <= n /\ h[left + 1].expire < h[left].expire THEN left + 1 ELSE left
           u == swapNode(s.t, i, j)
<1>0. i \in a..n /\ Moved(t, s.t, n) /\ Hole(s.t, n, i) /\ s \in States
  BY Zenon DEF DownInv
<1>1. i \in 1..n /\ left \in Nat /\ left > i /\ left > 1
  BY <1>0
<1>2. ASSUME NEW p \in 1..n PROVE E(s.t, p) \in Int
  <2>1. Len(s.t.heap) = Len(t.heap) /\ s.t \in Timers
    BY <1>0, Zenon DEF Moved, Indexed
  <2>2. Len(t.heap) \in Nat
    BY <2>1, NodesOf
  <2>3. p \in 1..Len(s.t.heap)
    BY <2>1, <2>2
  <2> QED BY <2>1, <2>3, NodesOf
<1>3. ASSUME NEW p \in 2..n, p \div 2 = i PROVE p = left \/ p = left + 1
  <2> HIDE DEF i
  <2>1. i \in Nat /\ p \in Nat /\ p > 1
    BY <1>1
  <2> QED BY <2>1, <1>3, Half
<1>4. CASE left > n
  <2>1. down(s, n) = s
    BY <1>4, Zenon DEF down
  <2>2. Above(s.t, n, i)
    <3> HIDE DEF i, left
    <3> QED BY SMTT(30), <1>1, <1>3, <1>4 DEF Above
  <2> QED BY <2>1, <2>2
<1>5. CASE left <= n
  <2>1. j \in {left, left + 1} /\ j \in 2..n
    BY SMTT(30), <1>1, <1>5
  <2>2. ASSUME NEW p \in 2..n, p \div 2 = i PROVE E(s.t, j) <= E(s.t, p)
    <3>1. CASE left + 1 <= n /\ h[left + 1].expire < h[left].expire
      <4>1. j = left + 1 /\ E(s.t, left + 1) < E(s.t, left)
        BY <3>1, Zenon DEF E
      <4> HIDE DEF j, left, h, i
      <4>2. left + 1 \in 1..n /\ left \in 1..n
        BY <1>1, <3>1, <1>5
      <4> QED BY SMTT(30), <4>1, <4>2, <1>2, <1>3, <2>2
    <3>2. CASE ~(left + 1 <= n /\ h[left + 1].expire < h[left].expire)
      <4>1. j = left /\ ~(left + 1 <= n /\ E(s.t, left + 1) < E(s.t, left))
        BY <3>2, Zenon DEF E
      <4> HIDE DEF j, left, h, i
      <4>2. left \in 1..n /\ (p = left + 1 => left + 1 \in 1..n)
        BY <1>1, <1>5
      <4> QED BY <4>1, <4>2, <1>2, <1>3, <2>2
    <3> QED BY <3>1, <3>2
  <2>3. j \div 2 = i /\ i < j /\ i # j /\ j \in 1..n
    <3> HIDE DEF i, j
    <3>1. i \in Nat /\ j \in Nat /\ j > 1 /\ (j = 2 * i \/ j = 2 * i + 1)
      BY <1>1, <2>1
    <3>2. j \div 2 = i
      BY <3>1, Half
    <3> QED BY <3>1, <3>2, <1>1, <2>1
  <2>4. CASE h[i].expire < h[j].expire
    <3>1. down(s, n) = s
      BY <2>4, Zenon DEF down
    <3>2. E(s.t, i) < E(s.t, j)
      BY <2>4, Zenon DEF E
    <3>3. Above(s.t, n, i)
      <4> HIDE DEF i, j
      <4> SUFFICES ASSUME NEW p \in 2..n, p \div 2 = i PROVE E(s.t, i) <= E(s.t, p)
        BY DEF Above
      <4>1. E(s.t, i) \in Int /\ E(s.t, j) \in Int /\ E(s.t, p) \in Int
        BY <1>1, <1>2, <2>3
      <4> QED BY <4>1, <3>2, <2>2
    <3> QED BY <3>1, <3>3
  <2>5. CASE ~(h[i].expire < h[j].expire)
    <3>1. down(s, n) = [t |-> u, i |-> j]
      <4>1. ~(left > n)
        BY <1>1, <1>5
      <4> QED BY <2>5, <4>1, Zenon DEF down
    <3>2. ~(E(s.t, i) < E(s.t, j))
      BY <2>5, Zenon DEF E
    <3> HIDE DEF j, left, h
    <3>3. Moved(t, u, n) /\ Exchanged(s.t, u, n, i, j) /\ u \in Timers
      BY <1>0, <1>1, <2>3, SwapExchanges
    <3> HIDE DEF u, i
    <3>4. E(s.t, j) <= E(s.t, i)
      <4>1. E(s.t, i) \in Int /\ E(s.t, j) \in Int
        BY <1>1, <1>2, <2>3
      <4> QED BY <3>2, <4>1
    <3>5. Hole(u, n, j) /\ E(u, i) <= E(u, j)
      BY <1>0, <1>1, <2>1, <2>2, <2>3, <3>3, <3>4, DownOrder
    <3>6. down(s, n) \in States /\ down(s, n).t = u /\ down(s, n).i = j
      BY <3>1, <3>3, <2>3 DEF States
    <3>7. j \in a..n /\ j # a
      BY <1>0, <2>3
    <3>8. DownInv(t, n, a, down(s, n))
      BY <3>3, <3>5, <3>6, <3>7, <2>3, Zenon DEF DownInv
    <3>9. down(s, n).i > s.i /\ down(s, n) # s
      BY <3>6, <2>3, <1>1 DEF i
    <3> QED BY <3>8, <3>9
  <2> QED BY <2>4, <2>5
<1> QED
  BY <1>1, <1>4, <1>5

\* shiftdown from i: the timers are ordered if the one at i was not too early, or if it
\* moved; if it did not, nothing changed and it is not too late.
LEMMA ShiftDown ==
    ASSUME NEW t, Indexed(t), NEW n \in Nat, n <= Len(t.heap), NEW i \in 1..n, Hole(t, n, i)
    PROVE  LET r == shiftdown(t, i, n)
           IN  /\ Moved(t, r.t, n) /\ r.i \in i..n
               /\ r.i # i \/ (i > 1 => E(t, i \div 2) <= E(t, i)) => Ordered(r.t, n)
               /\ r.i = i => r.t = t /\ Above(t, n, i)
<1> DEFINE body == [s \in States |-> down(s, n)]
           start == [t |-> t, i |-> i]
           Inv == {s \in States : DownInv(t, n, i, s)}
           measure == [s \in Inv |-> n - s.i]
           end == Iterate(body, start, n)
<1>0. t \in Timers /\ Len(t.heap) \in Nat /\ i \in Nat
  BY NodesOf DEF Indexed
<1>1. start \in States /\ start.t = t /\ start.i = i
  BY <1>0 DEF States
<1>2. start \in Inv
  <2> HIDE DEF start
  <2>0. i \in i..n
    BY <1>0
  <2>1. DownInv(t, n, i, start)
    BY <1>1, <2>0, MovedNot, Zenon DEF DownInv
  <2> QED BY <1>1, <2>1
<1>3. ASSUME NEW s \in Inv
      PROVE  body[s] = down(s, n) /\ body[s] \in Inv /\ (body[s] = s \/ measure[body[s]] < measure[s])
  <2>1. s \in States /\ DownInv(t, n, i, s)
    OBVIOUS
  <2>2. DownInv(t, n, i, down(s, n)) /\ (down(s, n) = s \/ down(s, n).i > s.i)
    BY <2>1, DownStep
  <2>3. down(s, n) \in States /\ down(s, n).i \in i..n /\ s.i \in i..n
    BY <2>1, <2>2, Zenon DEF DownInv
  <2>4. body[s] = down(s, n)
    BY <2>1
  <2>5. body[s] \in Inv
    <3> HIDE DEF body
    <3> QED BY <2>2, <2>3, <2>4
  <2>6. measure[s] = n - s.i /\ measure[body[s]] = n - body[s].i
    <3> HIDE DEF body, Inv
    <3> QED BY <2>5
  <2> HIDE DEF body, measure, Inv
  <2> QED BY <2>2, <2>3, <2>4, <2>5, <2>6, <1>0
<1>4. measure \in [Inv -> Nat]
  <2>1. \A s \in Inv : n - s.i \in Nat
    BY <1>0 DEF DownInv
  <2> HIDE DEF Inv
  <2> QED BY <2>1
<1>5. measure[start] <= n
  <2>1. measure[start] = n - start.i
    BY <1>2
  <2> HIDE DEF measure, start
  <2> QED BY <2>1, <1>0, <1>1
<1>6. end \in Inv /\ body[end] = end
  <2> HIDE DEF body, Inv, measure, start
  <2> QED BY Zenon, <1>0, <1>2, <1>3, <1>4, <1>5, LoopEnds
<1>7. shiftdown(t, i, n) = end
  BY DEF shiftdown, States
<1> HIDE DEF end
<1>8. down(end, n) = end
  <2> HIDE DEF body, Inv
  <2> QED BY Zenon, <1>3, <1>6
<1>9. DownInv(t, n, i, end)
  BY <1>6
<1>10. Above(end.t, n, end.i)
  BY <1>8, <1>9, DownStep
<1>11. /\ Moved(t, end.t, n) /\ end.i \in i..n /\ Hole(end.t, n, end.i)
       /\ (end.i = i => end.t = t) /\ (end.i # i => E(end.t, end.i \div 2) <= E(end.t, end.i))
  BY <1>9, Zenon DEF DownInv
<1>12. ASSUME end.i # i \/ (i > 1 => E(t, i \div 2) <= E(t, i)) PROVE Ordered(end.t, n)
  <2>1. ASSUME end.i > 1 PROVE E(end.t, end.i \div 2) <= E(end.t, end.i)
    BY <1>11, <1>12, <2>1
  <2> SUFFICES ASSUME NEW p \in 2..n PROVE E(end.t, p \div 2) <= E(end.t, p)
    BY DEF Ordered
  <2>2. CASE p = end.i BY <2>1, <2>2
  <2>3. CASE p # end.i BY <2>3, <1>10, <1>11 DEF Hole, Above
  <2> QED BY <2>2, <2>3
<1>13. end.i = i => end.t = t /\ Above(t, n, i)
  BY <1>10, <1>11
<1> QED
  BY <1>7, <1>11, <1>12, <1>13, Zenon

\* downOrUp orders the first n timers, wherever the one at i belongs.
LEMMA DownOrUp ==
    ASSUME NEW t, Indexed(t), NEW n \in Nat, n <= Len(t.heap), NEW i \in 1..n, Hole(t, n, i)
    PROVE  Moved(t, downOrUp(t, i, n).t, n) /\ Ordered(downOrUp(t, i, n).t, n)
<1> DEFINE r == shiftdown(t, i, n)
<1>1. /\ Moved(t, r.t, n) /\ r.i \in i..n /\ (r.i # i => Ordered(r.t, n))
      /\ (r.i = i => r.t = t /\ Above(t, n, i))
  BY ShiftDown
<1>2. CASE r.i > i
  <2>1. downOrUp(t, i, n).t = r.t
    BY <1>2 DEF downOrUp
  <2> HIDE DEF r
  <2>2. r.i # i
    BY <1>1, <1>2
  <2> QED BY <1>1, <2>1, <2>2
<1>3. CASE ~(r.i > i)
  <2>1. downOrUp(t, i, n).t = shiftup(r.t, i).t
    BY <1>3 DEF downOrUp
  <2> HIDE DEF r
  <2>2. r.i = i
    BY <1>1, <1>3
  <2> QED BY <1>1, <2>1, <2>2, ShiftUp
<1> QED
  BY <1>2, <1>3

\* All timers but that of id are in u what they are in t.
Others(t, u, id) ==
    \A f \in Fd \ {id} : (Has(u, f) <=> Has(t, f)) /\ (Has(t, f) => Of(u, f) = Of(t, f))

\* u is t with the timer x for id, and the heap is ordered.
Put(t, u, id, x) ==
    /\ Indexed(u) /\ Ordered(u, Len(u.heap))
    /\ Has(u, id) /\ Of(u, id) = x /\ Others(t, u, id)

\* u is t without a timer for id, likewise.
Dropped(t, u, id) ==
    Indexed(u) /\ Ordered(u, Len(u.heap)) /\ ~Has(u, id) /\ Others(t, u, id)

\* Moving the timers afterwards changes none.
LEMMA OthersMoved ==
    ASSUME NEW t, NEW v, NEW u, NEW n, NEW id \in Fd, Others(t, v, id), Moved(v, u, n)
    PROVE  Others(t, u, id) /\ Indexed(u) /\ Len(u.heap) = Len(v.heap)
           /\ (Has(v, id) => Has(u, id) /\ Of(u, id) = Of(v, id))
<1>1. ASSUME NEW f \in Fd, f # id
      PROVE  (Has(u, f) <=> Has(t, f)) /\ (Has(t, f) => Of(u, f) = Of(t, f))
  <2>1. (Has(v, f) <=> Has(t, f)) /\ (Has(t, f) => Of(v, f) = Of(t, f))
    BY <1>1, Zenon DEF Others
  <2>2. (Has(u, f) <=> Has(v, f)) /\ (Has(v, f) => Of(u, f) = Of(v, f))
    BY Zenon DEF Moved
  <2> QED BY <2>1, <2>2, Zenon
<1>2. Others(t, u, id)
  BY <1>1, Zenon DEF Others
<1> QED
  BY <1>2, Zenon DEF Moved

\* addTimer for a new id, before shiftup.
LEMMA PutNew ==
    ASSUME NEW t, Indexed(t), Ordered(t, Len(t.heap)), NEW id \in Fd, ~Has(t, id), NEW x \in TimeNode, x.id = id,
           NEW n, n = Len(t.heap) + 1, NEW v, v = [heap |-> Append(t.heap, x), ref |-> [t.ref EXCEPT ![id] = n]]
    PROVE  /\ n \in Nat /\ n >= 1 /\ Len(v.heap) = n
           /\ Indexed(v) /\ Hole(v, n, n) /\ Above(v, n, n)
           /\ Has(v, id) /\ Of(v, id) = x /\ Others(t, v, id)
<1>0. t \in Timers
  BY DEF Indexed
<1>1. t.heap \in Seq(TimeNode) /\ Len(t.heap) \in Nat /\ t.ref \in [Fd -> Nat]
  BY <1>0, NodesOf
<1>2. v.heap = Append(t.heap, x) /\ v.ref = [t.ref EXCEPT ![id] = n] /\ v = [heap |-> v.heap, ref |-> v.ref]
  OBVIOUS
<1>3. n \in Nat /\ n >= 1 /\ v.heap \in Seq(TimeNode) /\ Len(v.heap) = n /\ v.heap[n] = x
  BY <1>1, <1>2
<1>4. \A p \in 1..Len(t.heap) : v.heap[p] = t.heap[p]
  BY <1>1, <1>2
<1>5. v.ref \in [Fd -> Nat] /\ v.ref[id] = n /\ \A f \in Fd : f # id => v.ref[f] = t.ref[f]
  BY <1>1, <1>2, <1>3
<1>6. v \in Timers
  BY <1>2, <1>3, <1>5, Zenon DEF Timers
<1>7. \A p \in 1..Len(t.heap) : t.heap[p].id \in Fd /\ t.ref[t.heap[p].id] = p /\ t.heap[p].id # id
  <2> SUFFICES ASSUME NEW p \in 1..Len(t.heap)
               PROVE  t.heap[p].id \in Fd /\ t.ref[t.heap[p].id] = p /\ t.heap[p].id # id
    BY Zenon
  <2>1. t.heap[p].id \in Fd /\ t.ref[t.heap[p].id] = p
    BY <1>0, NodesOf, Zenon DEF Indexed
  <2>2. t.ref[id] = 0
    BY Zenon DEF Has
  <2> QED BY <2>1, <2>2, <1>1
<1>8. ASSUME NEW p \in 1..Len(v.heap) PROVE v.ref[v.heap[p].id] = p
  <2>1. CASE p = n BY <2>1, <1>3, <1>5
  <2>2. CASE p # n
    <3>1. p \in 1..Len(t.heap)
      BY <2>2, <1>1, <1>3
    <3> QED BY <3>1, <1>4, <1>5, <1>7, Zenon
  <2> QED BY <2>1, <2>2
<1>9. ASSUME NEW f \in Fd, f # id
      PROVE  /\ Has(v, f) <=> Has(t, f)
             /\ Has(t, f) => t.ref[f] \in 1..Len(t.heap) /\ Of(v, f) = Of(t, f) /\ Of(v, f).id = f
  <2>1. v.ref[f] = t.ref[f] /\ (Has(t, f) => t.ref[f] \in 1..Len(t.heap) /\ Of(t, f).id = f)
    BY <1>5, <1>9, Zenon DEF Indexed
  <2>2. Has(t, f) => Of(v, f) = Of(t, f)
    BY <2>1, <1>4, Zenon DEF Of
  <2>3. Has(v, f) <=> Has(t, f)
    BY <2>1, Zenon DEF Has
  <2> QED BY <2>1, <2>2, <2>3, Zenon
<1>10. Has(v, id) /\ Of(v, id) = x
  BY <1>3, <1>5 DEF Has, Of
<1>11. ASSUME NEW f \in Fd, Has(v, f) PROVE v.ref[f] \in 1..Len(v.heap) /\ Of(v, f).id = f
  <2>1. CASE f = id BY <2>1, <1>3, <1>5, <1>10
  <2>2. CASE f # id
    <3>1. v.ref[f] = t.ref[f] /\ t.ref[f] \in 1..Len(t.heap) /\ Of(v, f).id = f
      BY <2>2, <1>5, <1>9, <1>11, Zenon
    <3> QED BY <3>1, <1>1, <1>3
  <2> QED BY <2>1, <2>2
<1>12. Indexed(v)
  BY <1>6, <1>8, <1>11, Zenon DEF Indexed
<1>13. Others(t, v, id)
  BY <1>9, Zenon DEF Others
<1>14. ASSUME NEW p \in 2..n PROVE p \div 2 # n /\ (p # n => E(v, p \div 2) <= E(v, p))
  <2>1. p \div 2 \in Nat /\ p \div 2 >= 1 /\ p \div 2 < p
    BY <1>3, Half
  <2>2. p \div 2 # n
    BY <2>1, <1>3
  <2>3. ASSUME p # n PROVE E(v, p \div 2) <= E(v, p)
    <3>1. p \in 2..Len(t.heap) /\ p \in 1..Len(t.heap) /\ p \div 2 \in 1..Len(t.heap)
      BY <2>1, <2>3, <1>1
    <3>2. E(t, p \div 2) <= E(t, p)
      BY <3>1 DEF Ordered
    <3>3. E(v, p) = E(t, p) /\ E(v, p \div 2) = E(t, p \div 2)
      BY <3>1, <1>4, Zenon DEF E
    <3> QED BY <3>2, <3>3
  <2> QED BY <2>2, <2>3
<1>15. Hole(v, n, n) /\ Above(v, n, n)
  BY <1>14, Zenon DEF Hole, Above
<1> QED
  BY <1>3, <1>10, <1>12, <1>13, <1>15

\* addTimer and update for an id that has a timer, before it is moved.
LEMMA PutAt ==
    ASSUME NEW t, Indexed(t), Ordered(t, Len(t.heap)), NEW id \in Fd, Has(t, id), NEW x \in TimeNode, x.id = id,
           NEW v, v = [heap |-> [t.heap EXCEPT ![t.ref[id]] = x], ref |-> t.ref]
    PROVE  /\ Len(t.heap) \in Nat /\ t.ref[id] \in 1..Len(t.heap) /\ Len(v.heap) = Len(t.heap)
           /\ Indexed(v) /\ Hole(v, Len(t.heap), t.ref[id])
           /\ Has(v, id) /\ Of(v, id) = x /\ Others(t, v, id)
<1> DEFINE i == t.ref[id]
           n == Len(t.heap)
<1>0. t \in Timers /\ i \in 1..n /\ Of(t, id).id = id
  BY Zenon DEF Indexed
<1>1. t.heap \in Seq(TimeNode) /\ n \in Nat /\ t.ref \in [Fd -> Nat]
  BY <1>0, NodesOf
<1>2. v.heap = [t.heap EXCEPT ![i] = x] /\ v.ref = t.ref /\ v = [heap |-> v.heap, ref |-> v.ref]
  OBVIOUS
<1>3. v.heap \in Seq(TimeNode) /\ Len(v.heap) = n
  <2>1. t.heap \in Seq(TimeNode) /\ i \in 1..Len(t.heap)
    BY <1>0, <1>1
  <2> HIDE DEF i, n
  <2>2. [t.heap EXCEPT ![i] = x] \in Seq(TimeNode) /\ Len([t.heap EXCEPT ![i] = x]) = Len(t.heap)
    BY <2>1, Except
  <2> QED BY <1>2, <2>2, Zenon DEF n
<1>4. v.heap[i] = x /\ \A p \in 1..n : p # i => v.heap[p] = t.heap[p]
  BY <1>0, <1>1, <1>2
<1>5. v \in Timers
  BY <1>1, <1>2, <1>3, Zenon DEF Timers
<1>6. ASSUME NEW p \in 1..n PROVE v.heap[p].id = t.heap[p].id
  <2>1. t.heap[i].id = id
    BY <1>0, Zenon DEF Of
  <2> QED BY <2>1, <1>4, Zenon
<1>7. ASSUME NEW p \in 1..Len(v.heap) PROVE v.ref[v.heap[p].id] = p
  <2>1. p \in 1..n
    BY <1>3
  <2>2. t.ref[t.heap[p].id] = p
    BY <2>1, Zenon DEF Indexed
  <2> QED BY <2>1, <2>2, <1>2, <1>6, Zenon
<1>8. ASSUME NEW f \in Fd
      PROVE  /\ Has(v, f) <=> Has(t, f)
             /\ Has(t, f) => v.ref[f] \in 1..Len(v.heap) /\ Of(v, f).id = f
             /\ Has(t, f) /\ f # id => Of(v, f) = Of(t, f)
  <2>1. Has(v, f) <=> Has(t, f)
    BY <1>2, Zenon DEF Has
  <2>2. ASSUME Has(t, f) PROVE t.ref[f] \in 1..n /\ t.heap[t.ref[f]].id = f
    BY <2>2, Zenon DEF Indexed, Of
  <2>3. ASSUME Has(t, f) PROVE v.ref[f] \in 1..Len(v.heap) /\ Of(v, f).id = f
    BY <2>2, <2>3, <1>2, <1>3, <1>6, Zenon DEF Of
  <2>4. ASSUME Has(t, f), f # id PROVE Of(v, f) = Of(t, f)
    <3>1. t.ref[f] # i
      BY <2>2, <2>4, <1>0, Zenon DEF Of
    <3> QED BY <3>1, <2>2, <2>4, <1>2, <1>4, Zenon DEF Of
  <2> QED BY <2>1, <2>3, <2>4, Zenon
<1>9. Indexed(v)
  BY <1>5, <1>7, <1>8, Zenon DEF Indexed
<1>10. Has(v, id) /\ Of(v, id) = x /\ Others(t, v, id)
  BY <1>2, <1>4, <1>8, Zenon DEF Of, Others
<1>11. \A p \in 1..n : E(t, p) \in Int /\ (p # i => E(v, p) = E(t, p))
  BY <1>0, <1>4, NodesOf, Zenon DEF E
<1>12. ASSUME NEW p \in 2..n
       PROVE  p \in 1..n /\ p \div 2 \in 1..n /\ p \div 2 < p /\ E(t, p \div 2) <= E(t, p)
  <2>1. p \in 1..n /\ p \div 2 \in 1..n /\ p \div 2 < p
    <3> HIDE DEF n
    <3> QED BY <1>1, Half
  <2>2. E(t, p \div 2) <= E(t, p)
    BY Zenon DEF Ordered
  <2> QED BY <2>1, <2>2
<1>13. Hole(v, n, i)
  <2> HIDE DEF n, i
  <2>1. ASSUME NEW p \in 2..n, p # i, p \div 2 # i PROVE E(v, p \div 2) <= E(v, p)
    BY <2>1, <1>11, <1>12
  <2>2. ASSUME i > 1, NEW p \in 2..n, p \div 2 = i PROVE E(v, i \div 2) <= E(v, p)
    <3>1. i \in 2..n
      BY <1>0, <1>1, <2>2
    <3>2. i \div 2 \in 1..n /\ i \div 2 < i /\ E(t, i \div 2) <= E(t, i)
      BY <3>1, <1>12
    <3>3. p \in 1..n /\ i < p /\ E(t, i) <= E(t, p)
      BY <1>12, <2>2
    <3>4. E(v, i \div 2) = E(t, i \div 2) /\ E(v, p) = E(t, p)
      <4>1. i \div 2 # i /\ p # i
        BY <1>0, <1>1, <3>2, <3>3
      <4> QED BY <4>1, <1>11, <3>2, <3>3, Zenon
    <3> QED BY <1>0, <1>11, <3>2, <3>3, <3>4
  <2> QED BY Zenon, <2>1, <2>2 DEF Hole
<1> QED
  BY <1>0, <1>1, <1>3, <1>9, <1>10, <1>13

\* addTimer gives id the timer with this time and callback, and no other changes.
LEMMA AddPuts ==
    ASSUME NEW t, Indexed(t), Ordered(t, Len(t.heap)), NEW id \in Fd, NEW timeout \in Int, NEW cb \in Node \cup {None}
    PROVE  Put(t, addTimer(t, id, timeout, cb).t, id, [id |-> id, expire |-> timeout, cb |-> cb])
<1> DEFINE x == [id |-> id, expire |-> timeout, cb |-> cb]
<1>1. x \in TimeNode /\ x.id = id
  BY DEF TimeNode
<1> HIDE DEF x
<1>2. CASE ~Has(t, id)
  <2> DEFINE n == Len(t.heap) + 1
             v == [heap |-> Append(t.heap, x), ref |-> [t.ref EXCEPT ![id] = n]]
             u == shiftup(v, n).t
  <2>1. addTimer(t, id, timeout, cb).t = u
    BY ZenonT(30), <1>2 DEF addTimer, Has, x
  <2>2. /\ n \in Nat /\ n >= 1 /\ Len(v.heap) = n
        /\ Indexed(v) /\ Hole(v, n, n) /\ Above(v, n, n)
        /\ Has(v, id) /\ Of(v, id) = x /\ Others(t, v, id)
    <3> HIDE DEF n, v
    <3> QED BY <1>1, <1>2, PutNew DEF n, v
  <2> HIDE DEF n, v
  <2>3. Moved(v, u, n) /\ Ordered(u, n)
    BY <2>2, ShiftUp
  <2> HIDE DEF u
  <2>4. Others(t, u, id) /\ Indexed(u) /\ Len(u.heap) = n /\ Has(u, id) /\ Of(u, id) = x
    BY <2>2, <2>3, OthersMoved
  <2> QED BY <2>1, <2>3, <2>4, Zenon DEF Put, x
<1>3. CASE Has(t, id)
  <2> DEFINE n == Len(t.heap)
             v == [heap |-> [t.heap EXCEPT ![t.ref[id]] = x], ref |-> t.ref]
             u == downOrUp(v, t.ref[id], n).t
  <2>0. [t EXCEPT !.heap[t.ref[id]] = x] = v
    <3>1. t = [heap |-> t.heap, ref |-> t.ref]
      BY NodesOf, Zenon DEF Indexed
    <3> QED BY <3>1
  <2>1. addTimer(t, id, timeout, cb).t = u
    BY <1>3, <2>0, Zenon DEF addTimer, Has, x
  <2>2. /\ n \in Nat /\ t.ref[id] \in 1..n /\ Len(v.heap) = n
        /\ Indexed(v) /\ Hole(v, n, t.ref[id])
        /\ Has(v, id) /\ Of(v, id) = x /\ Others(t, v, id)
    <3> HIDE DEF v
    <3> QED BY <1>1, <1>3, PutAt DEF v
  <2> HIDE DEF n, v
  <2>3. Moved(v, u, n) /\ Ordered(u, n)
    BY <2>2, DownOrUp
  <2> HIDE DEF u
  <2>4. Others(t, u, id) /\ Indexed(u) /\ Len(u.heap) = n /\ Has(u, id) /\ Of(u, id) = x
    BY <2>2, <2>3, OthersMoved
  <2> QED BY <2>1, <2>3, <2>4, Zenon DEF Put, x
<1> QED
  BY <1>2, <1>3

\* update gives the timer of id its time, and no other changes: moving it down is enough
\* when no timer that was not later than it is later now.
LEMMA UpdatePuts ==
    ASSUME NEW t, Indexed(t), Ordered(t, Len(t.heap)), NEW id \in Fd, Has(t, id), NEW timeout \in Int,
           \A f \in Fd : f # id /\ Has(t, f) => Of(t, f).expire <= timeout \/ Of(t, f).expire > Of(t, id).expire
    PROVE  Put(t, update(t, id, timeout), id, [id |-> id, expire |-> timeout, cb |-> Of(t, id).cb])
           /\ Of(t, id).cb \in Node \cup {None}
<1> DEFINE x == [id |-> id, expire |-> timeout, cb |-> Of(t, id).cb]
           n == Len(t.heap)
           i == t.ref[id]
           v == [heap |-> [t.heap EXCEPT ![i] = x], ref |-> t.ref]
           u == shiftdown(v, i, n).t
<1>0. t \in Timers /\ i \in 1..n /\ Of(t, id).id = id
  BY Zenon DEF Indexed
<1>1. t.heap \in Seq(TimeNode) /\ Of(t, id) \in TimeNode /\ n \in Nat
  BY <1>0, NodesOf, Zenon DEF Of
<1>2. x = [Of(t, id) EXCEPT !.expire = timeout] /\ Of(t, id).cb \in Node \cup {None}
  BY <1>0, <1>1 DEF TimeNode
<1>3. x \in TimeNode /\ x.id = id /\ x.expire = timeout
  BY <1>2 DEF TimeNode
<1>4. [t EXCEPT !.heap[t.ref[id]].expire = timeout] = v
  <2>1. t = [heap |-> t.heap, ref |-> t.ref]
    BY <1>0, NodesOf, Zenon
  <2>2. t.heap[i] = Of(t, id)
    BY Zenon DEF Of
  <2> HIDE DEF x
  <2> QED BY SMTT(30), <2>1, <2>2, <1>2
<1>5. update(t, id, timeout) = u
  BY <1>4, Zenon DEF update
<1>6. /\ Len(v.heap) = n /\ Indexed(v) /\ Hole(v, n, i)
      /\ Has(v, id) /\ Of(v, id) = x /\ Others(t, v, id)
  <2> HIDE DEF v, x
  <2> QED BY <1>3, PutAt DEF v
<1>7. ASSUME i > 1 PROVE E(v, i \div 2) <= E(v, i)
  <2> DEFINE j == i \div 2
             f == t.heap[j].id
  <2>1. j \in 1..n /\ j # i
    <3> HIDE DEF i, n
    <3> QED BY <1>0, <1>1, <1>7, Half
  <2>2. f \in Fd /\ t.ref[f] = j
    BY ZenonT(30), <1>0, <2>1, NodesOf DEF Indexed
  <2>3. f # id /\ j # 0
    BY <2>1, <2>2
  <2>4. Has(t, f) /\ Of(t, f) = t.heap[j]
    BY <2>2, <2>3, Zenon DEF Has, Of
  <2>5. t.heap[j].expire <= timeout
    <3>1. t.heap[j].expire <= timeout \/ t.heap[j].expire > t.heap[i].expire
      BY <2>2, <2>3, <2>4, Zenon DEF Of
    <3>2. i \in 2..n
      <4> HIDE DEF i, n
      <4> QED BY <1>0, <1>1, <1>7
    <3>3. E(t, j) <= E(t, i)
      BY <3>2, Zenon DEF Ordered
    <3>4. E(t, j) \in Int /\ E(t, i) \in Int
      BY <1>0, <2>1, NodesOf, Zenon
    <3>5. E(t, j) = t.heap[j].expire /\ E(t, i) = t.heap[i].expire
      BY DEF E
    <3> HIDE DEF i, j
    <3> QED BY <3>1, <3>3, <3>4, <3>5
  <2>6. v.heap[j] = t.heap[j]
    <3> HIDE DEF x, i, n, j
    <3> QED BY <1>1, <2>1 DEF n
  <2>7. v.heap[i] = x
    <3>1. v.ref[id] = i
      OBVIOUS
    <3> HIDE DEF v
    <3> QED BY <3>1, <1>6, Zenon DEF Of
  <2>8. E(v, j) = t.heap[j].expire /\ E(v, i) = timeout
    BY <2>6, <2>7, <1>3, Zenon DEF E
  <2> HIDE DEF v, j, i
  <2> QED BY <2>5, <2>8 DEF j
<1> HIDE DEF v, i, n
<1>8. Moved(v, u, n) /\ Ordered(u, n)
  BY <1>0, <1>1, <1>6, <1>7, ShiftDown
<1> HIDE DEF u
<1>9. Others(t, u, id) /\ Indexed(u) /\ Len(u.heap) = n /\ Has(u, id) /\ Of(u, id) = x
  BY <1>6, <1>8, OthersMoved
<1> QED
  BY <1>2, <1>5, <1>8, <1>9, Zenon DEF Put

\* pop_back forgets the last timer.
LEMMA PopBack ==
    ASSUME NEW t, Indexed(t), Len(t.heap) >= 1, Ordered(t, Len(t.heap) - 1)
    PROVE  Dropped(t, pop_back(t), t.heap[Len(t.heap)].id)
<1> DEFINE n == Len(t.heap)
           id == t.heap[n].id
           u == pop_back(t)
<1>0. t \in Timers
  BY DEF Indexed
<1>1. t.heap \in Seq(TimeNode) /\ n \in Nat /\ t.ref \in [Fd -> Nat] /\ n >= 1 /\ n \in 1..n
  BY <1>0, NodesOf
<1>2. id \in Fd /\ t.ref[id] = n
  BY <1>0, <1>1, NodesOf, Zenon DEF Indexed
<1>3. u.heap = SubSeq(t.heap, 1, n - 1) /\ u.ref = [t.ref EXCEPT ![id] = 0] /\ u = [heap |-> u.heap, ref |-> u.ref]
  BY DEF pop_back
<1> HIDE DEF u, id
<1>4. u.heap \in Seq(TimeNode) /\ Len(u.heap) = n - 1 /\ \A p \in 1..(n - 1) : u.heap[p] = t.heap[p]
  BY <1>1, <1>3
<1>5. u.ref \in [Fd -> Nat] /\ u.ref[id] = 0 /\ \A f \in Fd : f # id => u.ref[f] = t.ref[f]
  BY <1>1, <1>2, <1>3
<1>6. u \in Timers
  BY <1>3, <1>4, <1>5, Zenon DEF Timers
<1>7. ASSUME NEW p \in 1..Len(u.heap) PROVE u.ref[u.heap[p].id] = p
  <2>1. p \in 1..(n - 1) /\ p \in 1..n /\ p # n
    BY <1>1, <1>4
  <2>2. t.ref[t.heap[p].id] = p /\ t.heap[p].id \in Fd
    BY <2>1, <1>0, NodesOf, Zenon DEF Indexed
  <2>3. t.heap[p].id # id
    BY <2>1, <2>2, <1>2, Zenon
  <2> QED BY <2>1, <2>2, <2>3, <1>4, <1>5, Zenon
<1>8. ASSUME NEW f \in Fd, f # id
      PROVE  /\ Has(u, f) <=> Has(t, f)
             /\ Has(t, f) => Of(u, f) = Of(t, f) /\ u.ref[f] \in 1..Len(u.heap) /\ Of(u, f).id = f
  <2>1. u.ref[f] = t.ref[f] /\ (Has(u, f) <=> Has(t, f))
    BY <1>5, <1>8, Zenon DEF Has
  <2>2. ASSUME Has(t, f) PROVE Of(u, f) = Of(t, f) /\ u.ref[f] \in 1..Len(u.heap) /\ Of(u, f).id = f
    <3>1. t.ref[f] \in 1..n /\ t.heap[t.ref[f]].id = f
      BY <2>2, Zenon DEF Indexed, Of
    <3>2. t.ref[f] # n
      BY <3>1, <1>8, Zenon DEF id
    <3>3. t.ref[f] \in 1..(n - 1)
      BY <3>1, <3>2, <1>1
    <3> QED BY <3>1, <3>3, <2>1, <1>4, Zenon DEF Of
  <2> QED BY <2>1, <2>2, Zenon
<1>9. ~Has(u, id)
  BY <1>5, Zenon DEF Has
<1>10. Indexed(u)
  BY <1>6, <1>7, <1>8, <1>9, Zenon DEF Indexed
<1>11. Others(t, u, id)
  BY <1>8, Zenon DEF Others
<1>12. Ordered(u, Len(u.heap))
  <2> SUFFICES ASSUME NEW p \in 2..(n - 1) PROVE E(u, p \div 2) <= E(u, p)
    BY <1>4, Zenon DEF Ordered
  <2>1. p \in 1..(n - 1) /\ p \div 2 \in 1..(n - 1)
    BY <1>1, Half
  <2>2. E(u, p) = E(t, p) /\ E(u, p \div 2) = E(t, p \div 2)
    BY <2>1, <1>4, Zenon DEF E
  <2>3. E(t, p \div 2) <= E(t, p)
    BY Zenon DEF Ordered
  <2> QED BY <2>2, <2>3, Zenon
<1> QED
  BY <1>9, <1>10, <1>11, <1>12, Zenon DEF Dropped, id, u

\* del_ of the root, as pop calls it, deletes that timer and no other.
LEMMA PopDrops ==
    ASSUME NEW t, Indexed(t), Ordered(t, Len(t.heap)), Len(t.heap) >= 1
    PROVE  Dropped(t, del_(t, 1).t, t.heap[1].id)
<1> DEFINE n == Len(t.heap)
<1>0. t \in Timers
  BY DEF Indexed
<1>1. t.heap \in Seq(TimeNode) /\ n \in Nat /\ t.ref \in [Fd -> Nat] /\ n >= 1 /\ n \in 1..n
  BY <1>0, NodesOf
<1>2. CASE ~(1 < n)
  <2>1. n = 1
    <3> HIDE DEF n
    <3> QED BY <1>1, <1>2
  <2>2. del_(t, 1) = [[t |-> t, root |-> FALSE] EXCEPT !.t = pop_back(t)]
    BY <1>2 DEF del_
  <2>3. del_(t, 1).t = pop_back(t)
    BY <2>2
  <2>4. Ordered(t, n - 1)
    BY <2>1 DEF Ordered
  <2> QED BY Zenon, <2>1, <2>3, <2>4, PopBack
<1>3. CASE 1 < n
  <2> DEFINE s == swapNode(t, 1, n)
             r == downOrUp(s, 1, n - 1)
             v == r.t
  <2>1. del_(t, 1) = [r EXCEPT !.t = pop_back(@)]
    BY <1>3, Zenon DEF del_
  <2>2. r = [t |-> r.t, root |-> r.root]
    <3> HIDE DEF s
    <3> QED BY Zenon DEF downOrUp, shiftup
  <2>3. del_(t, 1).t = pop_back(v)
    <3> HIDE DEF r
    <3> QED BY <2>1, <2>2
  <2>4. 1 \in 1..n /\ n # 1 /\ n - 1 \in Nat /\ n - 1 <= n /\ 1 \in 1..(n - 1) /\ n \in ((n - 1) + 1)..n
    <3> HIDE DEF n
    <3> QED BY <1>1, <1>3
  <2>5. /\ Moved(t, s, n)
        /\ \A p \in 1..n : p # 1 /\ p # n => E(s, p) = E(t, p)
    BY <1>1, <2>4, SwapMoves
  <2>6. s.heap[n] = t.heap[1]
    <3>1. s.heap = [t.heap EXCEPT ![1] = t.heap[n], ![n] = t.heap[1]]
      BY DEF swapNode
    <3> HIDE DEF s, n
    <3>2. n \in DOMAIN t.heap
      BY <1>1, <2>4 DEF n
    <3> QED BY <1>1, <2>4, <3>1, <3>2
  <2> HIDE DEF s
  <2>7. Indexed(s) /\ Len(s.heap) = n
    BY <2>5, Zenon DEF Moved
  <2>8. Hole(s, n - 1, 1)
    <3> HIDE DEF n
    <3> SUFFICES ASSUME NEW p \in 2..(n - 1), p # 1, p \div 2 # 1 PROVE E(s, p \div 2) <= E(s, p)
      BY DEF Hole
    <3>1. p \in 1..n /\ p # n /\ p \div 2 \in 1..n /\ p \div 2 # n /\ p \in 2..n
      BY <1>1, Half
    <3>2. E(t, p \div 2) <= E(t, p)
      BY <3>1, Zenon DEF Ordered, n
    <3>3. E(s, p) = E(t, p) /\ E(s, p \div 2) = E(t, p \div 2)
      BY <3>1, <2>5, Zenon
    <3> QED BY <3>2, <3>3, Zenon
  <2>9. Moved(s, v, n - 1) /\ Ordered(v, n - 1)
    BY <2>4, <2>7, <2>8, DownOrUp
  <2> HIDE DEF v, r
  <2>10. Indexed(v) /\ Len(v.heap) = n /\ v.heap[n] = s.heap[n]
    BY <2>4, <2>7, <2>9, Zenon DEF Moved
  <2>11. Dropped(v, pop_back(v), t.heap[1].id)
    <3>1. Dropped(v, pop_back(v), v.heap[Len(v.heap)].id)
      <4> HIDE DEF n
      <4> QED BY <1>1, <2>9, <2>10, PopBack
    <3> QED BY <3>1, <2>6, <2>10, Zenon
  <2>12. Others(t, v, t.heap[1].id)
    BY <2>5, <2>9, Zenon DEF Others, Moved
  <2> DEFINE u == pop_back(v)
             id == t.heap[1].id
  <2>13. Others(t, u, id)
    <3> HIDE DEF u, id
    <3>1. Others(v, u, id)
      BY <2>11, Zenon DEF Dropped, u, id
    <3>2. Others(t, v, id)
      BY <2>12 DEF id
    <3> QED BY <3>1, <3>2, Zenon DEF Others
  <2> QED BY <2>3, <2>11, <2>13, Zenon DEF Dropped
<1> QED
  BY <1>2, <1>3
-----------------------------------------------------------------------------
(* The event loop.                                                         *)

\* What is true of the timer of f.  Only a timer of a cache server, which a worker that
\* holds m_sourceMutex has set, has the callback someCacheServerLost or may have more
\* time than timeOutMs_; the other timers of open connections have the memory of their
\* connection, and run out no sooner than it is idle.
OfTimer(f) ==
    LET node == Of(timer_, f)
    IN  /\ node.expire \in (-MaxLate)..KeepAlive
        /\ node.cb = None => m_sourceMutex
        /\ node.expire > timeOutMs => m_sourceMutex
        /\ f \in Open /\ node.cb # None => node.cb = users_[f]
        /\ f \in Open => idle[f] = timeOutMs \/ node.expire >= timeOutMs - idle[f]

Late(f) == Has(timer_, f) /\ Of(timer_, f).expire > timeOutMs

\* The types of all variables but timer_.
Types ==
    /\ users_ \in [Fd -> Node \cup {None}]
    /\ fd_ \in [Node -> Fd \cup {0}] /\ armed \subseteq Fd
    /\ tasks \subseteq [client : Node, kind : {"request", "KEEP_ALIVE", "end"}]
    /\ m_sourceMutex \in BOOLEAN
    /\ loop \in {"run", "wait", "stuck", "aborted"}
    /\ timeMS \in Forever..KeepAlive /\ idle \in [Fd -> 0..timeOutMs]

\* The connections.
Conns ==
    /\ armed \subseteq Open
    /\ \A f \in Open : fd_[users_[f]] = f /\ Has(timer_, f)

\* The timers.
Nodes ==
    /\ \A f \in Fd : Has(timer_, f) => OfTimer(f)
    /\ \A f, g \in Fd : Late(f) /\ Late(g) => f = g

\* The inductive invariant.  At most one timer has more time than timeOutMs_, so it is
\* not above any other: that is why update need not move a timer up.
IInv ==
    /\ Types /\ Indexed(timer_) /\ Ordered(timer_, Len(timer_.heap))
    /\ Conns /\ Nodes

\* The invariant says what the runs check.
LEMMA IInvImplies ==
    ASSUME IInv
    PROVE  TypeOK /\ RefMatches /\ HeapOrdered
<1>0. Indexed(timer_) /\ Types /\ Conns /\ Nodes /\ Ordered(timer_, Len(timer_.heap)) /\ timer_ \in Timers
  BY Zenon DEF IInv, Indexed
<1>1. DOMAIN timer_.heap = 1..Len(timer_.heap)
  <2>1. timer_.heap \in Seq(TimeNode)
    BY <1>0, NodesOf
  <2> QED BY <2>1
<1>2. ASSUME NEW i \in DOMAIN timer_.heap
      PROVE  timer_.ref[timer_.heap[i].id] = i /\ timer_.heap[i].expire \in (-MaxLate)..KeepAlive
  <2>1. timer_.heap[i].id \in Fd /\ timer_.ref[timer_.heap[i].id] = i
    BY <1>0, <1>1, NodesOf, Zenon DEF Indexed
  <2>2. i # 0
    BY <1>1
  <2>3. Has(timer_, timer_.heap[i].id) /\ Of(timer_, timer_.heap[i].id) = timer_.heap[i]
    BY <2>1, <2>2, Zenon DEF Has, Of
  <2>4. timer_.heap[i].expire \in (-MaxLate)..KeepAlive
    BY <1>0, <2>1, <2>3, Zenon DEF Nodes, OfTimer
  <2> QED BY <2>1, <2>4
<1>3. TypeOK
  BY <1>0, <1>2, Zenon DEF TypeOK, Types
<1>4. RefMatches
  BY <1>0, <1>1, <1>2, Zenon DEF RefMatches, Indexed, Conns, Has, Of
<1>5. HeapOrdered
  BY <1>0, Zenon DEF HeapOrdered, Ordered, E
<1> QED
  BY <1>3, <1>4, <1>5

\* A heap without timers.
LEMMA NoTimersIs ==
    /\ Indexed(NoTimers) /\ Ordered(NoTimers, Len(NoTimers.heap))
    /\ \A f \in Fd : ~Has(NoTimers, f)
<1>1. NoTimers \in Timers
  BY DEF NoTimers, Timers
<1>2. Len(NoTimers.heap) = 0 /\ \A f \in Fd : NoTimers.ref[f] = 0
  BY DEF NoTimers
<1>3. \A f \in Fd : ~Has(NoTimers, f)
  BY <1>2, Zenon DEF Has
<1>4. 1..0 = {} /\ 2..0 = {}
  OBVIOUS
<1> QED
  BY <1>1, <1>2, <1>3, <1>4 DEF Indexed, Ordered

\* The initial state.
LEMMA InitIInv ==
    ASSUME Init
    PROVE  IInv
<1>1. timer_ = NoTimers /\ Open = {} /\ armed = {}
  BY DEF Init, Open
<1>2. Types
  <2>1. 0 \in 0..timeOutMs /\ 0 \in Forever..KeepAlive
    BY MiniAssumption DEF Forever
  <2>2. [f \in Fd |-> None] \in [Fd -> Node \cup {None}] /\ [f \in Fd |-> 0] \in [Fd -> 0..timeOutMs]
        /\ [n \in Node |-> 0] \in [Node -> Fd \cup {0}]
    BY <2>1
  <2> QED BY <2>1, <2>2, Zenon DEF Init, Types
<1>3. Indexed(timer_) /\ Ordered(timer_, Len(timer_.heap)) /\ \A f \in Fd : ~Has(timer_, f)
  BY <1>1, NoTimersIs
<1>4. Conns /\ Nodes
  BY <1>1, <1>3, Zenon DEF Conns, Nodes, Late
<1> QED
  BY <1>2, <1>3, <1>4 DEF IInv

\* A failed assertion leaves nothing.
LEMMA AbortIInv ==
    ASSUME Abort
    PROVE  IInv'
<1>1. timer_' = NoTimers /\ Open' = {} /\ armed' = {}
  BY DEF Abort, Open
<1>2. Types'
  <2>1. 0 \in 0..timeOutMs /\ 0 \in Forever..KeepAlive
    BY MiniAssumption DEF Forever
  <2>2. [f \in Fd |-> None] \in [Fd -> Node \cup {None}] /\ [f \in Fd |-> 0] \in [Fd -> 0..timeOutMs]
        /\ [n \in Node |-> 0] \in [Node -> Fd \cup {0}]
    BY <2>1
  <2> QED BY <2>1, <2>2, Zenon DEF Abort, Types
<1>3. Indexed(timer_') /\ Ordered(timer_', Len(timer_'.heap)) /\ \A f \in Fd : ~Has(timer_', f)
  BY <1>1, NoTimersIs
<1>4. Conns' /\ Nodes'
  BY <1>1, <1>3, Zenon DEF Conns, Nodes, Late
<1> QED
  BY <1>2, <1>3, <1>4 DEF IInv

\* Connections that stay open, with their memory and the time they are idle.
Stay == \A f \in Open' : f \in Open /\ users_'[f] = users_[f] /\ idle'[f] = idle[f]

\* A timer that does not change.
LEMMA TimerStays ==
    ASSUME Nodes, m_sourceMutex => m_sourceMutex', NEW f \in Fd, Has(timer_, f), Of(timer_', f) = Of(timer_, f),
           f \in Open' => f \in Open /\ users_'[f] = users_[f] /\ idle'[f] = idle[f]
    PROVE  OfTimer(f)'
<1>1. OfTimer(f)
  BY Zenon DEF Nodes
<1> QED
  BY <1>1, Zenon DEF OfTimer

\* A step that leaves the timers alone and opens no connection.
LEMMA SameTimers ==
    ASSUME IInv, UNCHANGED timer_, m_sourceMutex => m_sourceMutex', Stay, Types', armed' \subseteq Open',
           \A f \in Open' : fd_'[users_'[f]] = fd_[users_[f]]
    PROVE  IInv'
<1>0. Indexed(timer_) /\ Ordered(timer_, Len(timer_.heap)) /\ Conns /\ Nodes
  BY Zenon DEF IInv
<1>1. Indexed(timer_)' /\ Ordered(timer_, Len(timer_.heap))'
  BY <1>0, Zenon
<1>2. Conns'
  BY <1>0, Zenon DEF Conns, Stay
<1>3. ASSUME NEW f \in Fd, Has(timer_, f)' PROVE OfTimer(f)'
  BY <1>0, <1>3, TimerStays, Zenon DEF Stay
<1>4. ASSUME NEW f \in Fd, NEW g \in Fd, Late(f)', Late(g)' PROVE f = g
  BY <1>0, <1>4, Zenon DEF Nodes, Late
<1> QED
  BY <1>1, <1>2, <1>3, <1>4, Zenon DEF IInv, Nodes

\* What closeConnection does to the connections.
LEMMA Closes ==
    ASSUME IInv, NEW n \in Node, closeConnection(n)
    PROVE  /\ ~m_sourceMutex /\ fd_' = fd_ /\ armed' \subseteq armed /\ armed' \subseteq Open'
           /\ users_' \in [Fd -> Node \cup {None}] /\ idle' \in [Fd -> 0..timeOutMs]
           /\ Stay /\ fd_[n] \notin Open'
           /\ \A f \in Open' : fd_'[users_'[f]] = fd_[users_[f]]
<1> DEFINE k == fd_[n]
<1>0. Types /\ Conns
  BY Zenon DEF IInv
<1>1. users_ \in [Fd -> Node \cup {None}] /\ idle \in [Fd -> 0..timeOutMs] /\ armed \subseteq Open /\ 0 \in 0..timeOutMs
  BY <1>0, MiniAssumption DEF Types, Conns
<1>2. ~m_sourceMutex /\ fd_' = fd_ /\ users_' = [users_ EXCEPT ![k] = None] /\ idle' = [idle EXCEPT ![k] = 0]
      /\ armed' = armed \ {k}
  BY DEF closeConnection
<1> HIDE DEF k
<1>3. users_' \in [Fd -> Node \cup {None}] /\ idle' \in [Fd -> 0..timeOutMs]
  BY Zenon, <1>1, <1>2
<1>4. \A f \in Fd : users_'[f] = (IF f = k THEN None ELSE users_[f]) /\ (f # k => idle'[f] = idle[f])
  BY <1>1, <1>2
<1>5. \A f : f \in Open' <=> f \in Open /\ f # k
  BY <1>4, Zenon DEF Open
<1>6. Stay
  <2> SUFFICES ASSUME NEW f \in Open'
               PROVE  f \in Open /\ users_'[f] = users_[f] /\ idle'[f] = idle[f]
    BY Zenon DEF Stay
  <2>1. f \in Open /\ f # k /\ f \in Fd
    BY <1>5, Zenon DEF Open
  <2> QED BY <2>1, <1>4, Zenon
<1>7. armed' \subseteq armed /\ armed' \subseteq Open'
  BY <1>1, <1>2, <1>5, Zenon
<1>8. \A f \in Open' : fd_'[users_'[f]] = fd_[users_[f]]
  BY <1>2, <1>6, Zenon DEF Stay
<1> QED
  BY <1>2, <1>3, <1>5, <1>6, <1>7, <1>8, Zenon DEF k

\* A task of the pool.
LEMMA TaskType ==
    ASSUME NEW n \in Node, NEW kind \in {"request", "KEEP_ALIVE", "end"}
    PROVE  Task(n, kind) \in [client : Node, kind : {"request", "KEEP_ALIVE", "end"}]
BY DEF Task

\* The root, which is due, is a timer of the invariant.
LEMMA Root ==
    ASSUME IInv, timer_.heap # <<>>
    PROVE  /\ Len(timer_.heap) >= 1 /\ timer_.heap[1].id \in Fd /\ timer_.heap[1].cb \in Node \cup {None}
           /\ timer_.heap[1].expire \in (-MaxLate)..KeepAlive
           /\ Has(timer_, timer_.heap[1].id) /\ Of(timer_, timer_.heap[1].id) = timer_.heap[1]
           /\ OfTimer(timer_.heap[1].id)
<1>0. timer_ \in Timers /\ Indexed(timer_) /\ Nodes
  BY Zenon DEF IInv, Indexed
<1>1. timer_.heap \in Seq(TimeNode) /\ Len(timer_.heap) \in Nat
  BY <1>0, NodesOf
<1>2. Len(timer_.heap) >= 1 /\ 1 \in 1..Len(timer_.heap)
  BY <1>1
<1>3. timer_.heap[1] \in TimeNode /\ timer_.heap[1].id \in Fd /\ timer_.ref[timer_.heap[1].id] = 1
  BY <1>0, <1>2, NodesOf, Zenon DEF Indexed
<1>4. timer_.heap[1].cb \in Node \cup {None}
  BY <1>3 DEF TimeNode
<1>5. Has(timer_, timer_.heap[1].id) /\ Of(timer_, timer_.heap[1].id) = timer_.heap[1]
  BY <1>3 DEF Has, Of
<1>6. OfTimer(timer_.heap[1].id)
  BY <1>0, <1>3, <1>5, Zenon DEF Nodes
<1> QED
  BY <1>2, <1>3, <1>4, <1>5, <1>6, Zenon DEF OfTimer

\* The timer that expires closes its own connection, if that is still open.
LEMMA ExpiredIInv ==
    ASSUME IInv, handle_expired_event
    PROVE  IInv'
<1>0. Types /\ Indexed(timer_) /\ Ordered(timer_, Len(timer_.heap)) /\ Conns /\ Nodes /\ timer_.heap # <<>>
  BY Zenon DEF IInv, handle_expired_event, Due
<1>1. CASE loop' = "stuck" /\ UNCHANGED <<timer_, Net>> /\ UNCHANGED <<tasks, m_sourceMutex, timeMS>>
  <2>1. Types' /\ Stay /\ armed' \subseteq Open' /\ (m_sourceMutex => m_sourceMutex')
        /\ \A f \in Open' : fd_'[users_'[f]] = fd_[users_[f]]
    BY <1>0, <1>1, Zenon DEF Types, Stay, Net, Open, Conns
  <2> QED BY <1>1, <2>1, SameTimers, Zenon
<1>2. CASE closeConnection(timer_.heap[1].cb) /\ timer_' = del_(timer_, 1).t
           /\ UNCHANGED <<tasks, m_sourceMutex, loop, timeMS>>
  <2> DEFINE node == timer_.heap[1]
             id == node.id
  <2>1. Len(timer_.heap) >= 1 /\ id \in Fd /\ node.cb \in Node \cup {None} /\ Of(timer_, id) = node /\ OfTimer(id)
    BY <1>0, Root
  <2>2. ~m_sourceMutex
    BY <1>2, Zenon DEF closeConnection
  <2>3. node.cb # None /\ (id \in Open => node.cb = users_[id])
    BY <2>1, <2>2, Zenon DEF OfTimer
  <2>4. node.cb \in Node
    BY <2>1, <2>3
  <2>5. /\ fd_' = fd_ /\ armed' \subseteq armed /\ armed' \subseteq Open'
        /\ users_' \in [Fd -> Node \cup {None}] /\ idle' \in [Fd -> 0..timeOutMs]
        /\ Stay /\ fd_[node.cb] \notin Open'
        /\ \A f \in Open' : fd_'[users_'[f]] = fd_[users_[f]]
    BY <1>2, <2>4, Closes
  <2>6. id \notin Open'
    BY <1>0, <2>3, <2>5, Zenon DEF Conns, Stay
  <2>7. Dropped(timer_, timer_', id)
    BY <1>0, <1>2, <2>1, PopDrops
  <2> HIDE DEF node, id
  <2>8. Indexed(timer_)' /\ Ordered(timer_, Len(timer_.heap))'
    BY <2>7, Zenon DEF Dropped
  <2>9. ASSUME NEW f \in Fd, Has(timer_, f)'
        PROVE  f # id /\ Has(timer_, f) /\ Of(timer_', f) = Of(timer_, f)
    BY <2>7, <2>9, Zenon DEF Dropped, Others
  <2>10. Types'
    BY <1>0, <1>2, <2>5, Zenon DEF Types
  <2>11. Conns'
    <3> SUFFICES ASSUME NEW f \in Open' PROVE (fd_[users_[f]] = f)' /\ Has(timer_, f)'
      BY <2>5, Zenon DEF Conns
    <3>1. f \in Open /\ f \in Fd /\ f # id
      BY <2>5, <2>6, Zenon DEF Stay, Open
    <3>2. fd_[users_[f]] = f /\ Has(timer_, f)
      BY <3>1, <1>0, Zenon DEF Conns
    <3>3. Has(timer_', f)
      BY <3>1, <3>2, <2>7, Zenon DEF Dropped, Others
    <3> QED BY <3>2, <3>3, <2>5, Zenon
  <2>12. ASSUME NEW f \in Fd, Has(timer_, f)' PROVE OfTimer(f)'
    BY <1>0, <1>2, <2>5, <2>9, <2>12, TimerStays, Zenon DEF Stay
  <2>13. ASSUME NEW f \in Fd, NEW g \in Fd, Late(f)', Late(g)' PROVE f = g
    BY <1>0, <2>9, <2>13, Zenon DEF Nodes, Late
  <2> QED
    BY <2>8, <2>10, <2>11, <2>12, <2>13, Zenon DEF IInv, Nodes
<1>3. CASE Abort
  BY <1>3, AbortIInv
<1> QED
  BY <1>1, <1>2, <1>3, Zenon DEF handle_expired_event

\* A tick takes one from every timer and moves none.
LEMMA Elapses ==
    ASSUME NEW t, Indexed(t), Ordered(t, Len(t.heap))
    PROVE  /\ Indexed(elapse(t)) /\ Ordered(elapse(t), Len(elapse(t).heap))
           /\ \A f \in Fd : /\ Has(elapse(t), f) <=> Has(t, f)
                            /\ Has(t, f) => /\ Of(t, f).expire \in Int
                                            /\ Of(elapse(t), f).expire = Of(t, f).expire - 1
                                            /\ Of(elapse(t), f).cb = Of(t, f).cb
                                            /\ t.ref[f] \in DOMAIN t.heap
<1> DEFINE u == elapse(t)
           n == Len(t.heap)
<1>0. t \in Timers
  BY DEF Indexed
<1>1. /\ t.heap \in Seq(TimeNode) /\ n \in Nat /\ t.ref \in [Fd -> Nat] /\ t = [heap |-> t.heap, ref |-> t.ref]
      /\ \A p \in 1..n : t.heap[p] \in TimeNode
  BY <1>0, NodesOf, Zenon
<1>2. DOMAIN t.heap = 1..n
  BY <1>1
<1>3. u.heap = [p \in 1..n |-> [t.heap[p] EXCEPT !.expire = @ - 1]] /\ u.ref = t.ref /\ u = [heap |-> u.heap, ref |-> u.ref]
  <2> DEFINE H == [i \in DOMAIN t.heap |-> [t.heap[i] EXCEPT !.expire = @ - 1]]
  <2>1. H = [p \in 1..n |-> [t.heap[p] EXCEPT !.expire = @ - 1]]
    BY <1>2, Zenon
  <2>2. u = [t EXCEPT !.heap = H]
    BY Zenon DEF elapse
  <2> HIDE DEF H, u
  <2>3. u.heap = H /\ u.ref = t.ref /\ u = [heap |-> u.heap, ref |-> u.ref]
    BY <1>1, <2>2
  <2> QED BY <2>1, <2>3, Zenon
<1> HIDE DEF u, n
<1>4. ASSUME NEW p \in 1..n
      PROVE  /\ u.heap[p] \in TimeNode /\ t.heap[p].expire \in Int
             /\ u.heap[p].expire = t.heap[p].expire - 1
             /\ u.heap[p].id = t.heap[p].id /\ u.heap[p].cb = t.heap[p].cb
  <2>1. \A x \in TimeNode : /\ [x EXCEPT !.expire = @ - 1] \in TimeNode /\ x.expire \in Int
                            /\ [x EXCEPT !.expire = @ - 1].expire = x.expire - 1
                            /\ [x EXCEPT !.expire = @ - 1].id = x.id
                            /\ [x EXCEPT !.expire = @ - 1].cb = x.cb
    BY DEF TimeNode
  <2>2. u.heap[p] = [t.heap[p] EXCEPT !.expire = @ - 1]
    BY <1>3, Zenon
  <2>3. t.heap[p] \in TimeNode
    BY <1>1
  <2> QED BY <2>1, <2>2, <2>3, Zenon
<1>5. u.heap \in Seq(TimeNode) /\ Len(u.heap) = n
  <2>1. u.heap = [p \in 1..n |-> u.heap[p]]
    BY <1>3, Zenon
  <2>2. u.heap \in [1..n -> TimeNode]
    BY <1>4, <2>1, Zenon
  <2> QED BY <1>1, <2>2, IsSeq
<1>6. u \in Timers
  BY <1>1, <1>3, <1>5, Zenon DEF Timers
<1>7. ASSUME NEW p \in 1..Len(u.heap) PROVE u.ref[u.heap[p].id] = p
  <2>1. t.ref[t.heap[p].id] = p
    BY <1>5, Zenon DEF Indexed, n
  <2> QED BY <2>1, <1>3, <1>4, <1>5, Zenon
<1>8. ASSUME NEW f \in Fd
      PROVE  /\ Has(u, f) <=> Has(t, f)
             /\ Has(t, f) => /\ t.ref[f] \in 1..n /\ u.ref[f] \in 1..Len(u.heap) /\ Of(u, f).id = f
                             /\ Of(t, f).expire \in Int
                             /\ Of(u, f).expire = Of(t, f).expire - 1 /\ Of(u, f).cb = Of(t, f).cb
  <2>1. Has(u, f) <=> Has(t, f)
    BY <1>3, Zenon DEF Has
  <2>2. ASSUME Has(t, f)
        PROVE  /\ t.ref[f] \in 1..n /\ u.ref[f] \in 1..Len(u.heap) /\ Of(u, f).id = f
               /\ Of(t, f).expire \in Int
               /\ Of(u, f).expire = Of(t, f).expire - 1 /\ Of(u, f).cb = Of(t, f).cb
    <3>1. t.ref[f] \in 1..n /\ t.heap[t.ref[f]].id = f
      BY <2>2, Zenon DEF Indexed, Of, n
    <3> QED BY <3>1, <1>3, <1>4, <1>5, Zenon DEF Of
  <2> QED BY <2>1, <2>2, Zenon
<1>9. Indexed(u)
  BY <1>6, <1>7, <1>8, Zenon DEF Indexed
<1>10. Ordered(u, Len(u.heap))
  <2> SUFFICES ASSUME NEW p \in 2..n PROVE E(u, p \div 2) <= E(u, p)
    BY <1>5, Zenon DEF Ordered
  <2>1. p \in 1..n /\ p \div 2 \in 1..n
    BY <1>1, Half
  <2>2. E(t, p \div 2) <= E(t, p)
    BY Zenon DEF Ordered, n
  <2>3. E(u, p) = E(t, p) - 1 /\ E(u, p \div 2) = E(t, p \div 2) - 1 /\ E(t, p) \in Int /\ E(t, p \div 2) \in Int
    BY <2>1, <1>4, Zenon DEF E
  <2> QED BY <2>2, <2>3
<1> QED
  BY <1>2, <1>8, <1>9, <1>10, Zenon DEF u

\* Time passes.
LEMMA TickIInv ==
    ASSUME IInv, Tick
    PROVE  IInv'
<1>0. Types /\ Indexed(timer_) /\ Ordered(timer_, Len(timer_.heap)) /\ Conns /\ Nodes
  BY Zenon DEF IInv
<1>1. /\ timer_' = elapse(timer_) /\ timeMS # 0 /\ timeMS' = (IF timeMS = Forever THEN Forever ELSE timeMS - 1)
      /\ idle' = [f \in Fd |-> IF f \in Open /\ idle[f] < timeOutMs THEN idle[f] + 1 ELSE idle[f]]
      /\ UNCHANGED <<users_, fd_, armed, tasks, m_sourceMutex, loop>>
      /\ \A i \in DOMAIN timer_.heap : timer_.heap[i].expire > -MaxLate
  BY Zenon DEF Tick
<1>2. Open' = Open
  BY <1>1, Zenon DEF Open
<1>3. /\ Indexed(timer_') /\ Ordered(timer_', Len(timer_'.heap))
      /\ \A f \in Fd : /\ Has(timer_', f) <=> Has(timer_, f)
                       /\ Has(timer_, f) => /\ Of(timer_, f).expire \in Int
                                            /\ Of(timer_', f).expire = Of(timer_, f).expire - 1
                                            /\ Of(timer_', f).cb = Of(timer_, f).cb
                                            /\ timer_.ref[f] \in DOMAIN timer_.heap
  <2>1. \A t : Indexed(t) /\ Ordered(t, Len(t.heap)) =>
           /\ Indexed(elapse(t)) /\ Ordered(elapse(t), Len(elapse(t).heap))
           /\ \A f \in Fd : /\ Has(elapse(t), f) <=> Has(t, f)
                            /\ Has(t, f) => /\ Of(t, f).expire \in Int
                                            /\ Of(elapse(t), f).expire = Of(t, f).expire - 1
                                            /\ Of(elapse(t), f).cb = Of(t, f).cb
                                            /\ t.ref[f] \in DOMAIN t.heap
    BY SMTT(30), Elapses
  <2> QED BY <2>1, <1>0, <1>1, Zenon
<1>4. \A f \in Fd : idle[f] \in 0..timeOutMs /\ idle'[f] = IF f \in Open /\ idle[f] < timeOutMs THEN idle[f] + 1 ELSE idle[f]
  BY <1>0, <1>1 DEF Types
<1>5. Types'
  <2>1. idle' \in [Fd -> 0..timeOutMs]
    <3>1. \A f \in Fd : idle'[f] \in 0..timeOutMs
      BY <1>4, MiniAssumption
    <3>2. idle' = [f \in Fd |-> idle'[f]]
      BY <1>1
    <3> QED BY <3>1, <3>2
  <2>2. timeMS' \in Forever..KeepAlive
    BY <1>0, <1>1, MiniAssumption DEF Types, Forever
  <2> QED BY <1>0, <1>1, <2>1, <2>2, Zenon DEF Types
<1>6. Conns'
  BY <1>0, <1>1, <1>2, <1>3, Zenon DEF Conns, Open
<1>7. ASSUME NEW f \in Fd, Has(timer_, f)' PROVE OfTimer(f)'
  <2>1. /\ Has(timer_, f) /\ Of(timer_, f).expire \in Int /\ Of(timer_', f).cb = Of(timer_, f).cb
        /\ Of(timer_', f).expire = Of(timer_, f).expire - 1 /\ timer_.ref[f] \in DOMAIN timer_.heap
    BY <1>3, <1>7, Zenon
  <2>2. OfTimer(f)
    BY <1>0, <2>1, Zenon DEF Nodes
  <2>3. Of(timer_, f).expire > -MaxLate
    BY <1>1, <2>1, Zenon DEF Of
  <2> DEFINE x == Of(timer_, f).expire
  <2>4. x \in (-MaxLate)..KeepAlive /\ (f \in Open => idle[f] = timeOutMs \/ x >= timeOutMs - idle[f])
    BY <2>2, Zenon DEF OfTimer
  <2>5. x - 1 \in (-MaxLate)..KeepAlive /\ (x - 1 > timeOutMs => x > timeOutMs)
    <3> HIDE DEF x
    <3>1. x > -MaxLate
      BY <2>3 DEF x
    <3> QED BY <2>4, <3>1, MiniAssumption
  <2>6. f \in Open => idle'[f] = timeOutMs \/ x - 1 >= timeOutMs - idle'[f]
    <3> HIDE DEF x
    <3>1. x \in Int
      BY <2>1 DEF x
    <3> QED BY <2>4, <3>1, <1>4, MiniAssumption
  <2>7. Of(timer_', f).expire = x - 1
    BY <2>1
  <2> HIDE DEF x
  <2> QED BY <2>1, <2>2, <2>5, <2>6, <2>7, <1>1, <1>2, Zenon DEF OfTimer, x
<1>8. ASSUME NEW f \in Fd, NEW g \in Fd, Late(f)', Late(g)' PROVE f = g
  <2>1. ASSUME NEW k \in Fd, Late(k)' PROVE Late(k)
    <3>1. Has(timer_, k) /\ Of(timer_, k).expire \in Int /\ Of(timer_, k).expire - 1 > timeOutMs
      BY <2>1, <1>3, Zenon DEF Late
    <3>2. Of(timer_, k).expire > timeOutMs
      BY <3>1, MiniAssumption
    <3> QED BY <3>1, <3>2 DEF Late
  <2> QED BY <2>1, <1>0, <1>8, Zenon DEF Nodes
<1> QED
  BY <1>3, <1>5, <1>6, <1>7, <1>8, Zenon DEF IInv, Nodes

\* epoll_wait gets the time of the root, which is the earliest.
LEMMA SleepIInv ==
    ASSUME IInv, getNextHandle \/ Timeout
    PROVE  IInv'
<1>0. Types /\ Conns
  BY Zenon DEF IInv
<1>1. UNCHANGED <<timer_, Net, tasks, m_sourceMutex>> /\ loop' \in {"run", "wait", "stuck", "aborted"}
  BY DEF getNextHandle, Timeout
<1>2. timeMS' \in Forever..KeepAlive
  <2>1. CASE getNextHandle
    <3>1. CASE timeMS' = Forever
      BY <3>1, MiniAssumption DEF Forever
    <3>2. CASE timeMS' # Forever
      <4>1. timer_.heap # <<>> /\ timeMS' = timer_.heap[1].expire /\ ~(timer_.heap[1].expire <= 0)
        BY <2>1, <3>2, Zenon DEF getNextHandle, Due
      <4>2. timer_.heap[1].expire \in (-MaxLate)..KeepAlive
        BY <4>1, Root
      <4> QED BY <4>1, <4>2, MiniAssumption DEF Forever
    <3> QED BY <3>1, <3>2
  <2>2. CASE Timeout
    BY <2>2, <1>0, Zenon DEF Timeout, Types
  <2> QED BY <2>1, <2>2
<1>3. Types' /\ Stay /\ armed' \subseteq Open' /\ (m_sourceMutex => m_sourceMutex')
      /\ \A f \in Open' : fd_'[users_'[f]] = fd_[users_[f]]
  BY <1>0, <1>1, <1>2, Zenon DEF Types, Stay, Net, Open, Conns
<1> QED
  BY <1>1, <1>3, SameTimers, Zenon

\* A timer that is set, and the invariant of the others.
LEMMA PutIInv ==
    ASSUME IInv, NEW id \in Fd, NEW x, Put(timer_, timer_', id, x), Types', Conns', m_sourceMutex => m_sourceMutex',
           \A f \in Open' : f # id => f \in Open /\ users_'[f] = users_[f] /\ idle'[f] = idle[f],
           OfTimer(id)', Late(id)' => \A f \in Fd : f # id => ~Late(f)
    PROVE  IInv'
<1>0. Nodes
  BY Zenon DEF IInv
<1>1. Indexed(timer_)' /\ Ordered(timer_, Len(timer_.heap))'
  BY Zenon DEF Put
<1>2. ASSUME NEW f \in Fd, f # id, Has(timer_, f)'
      PROVE  Has(timer_, f) /\ Of(timer_', f) = Of(timer_, f)
  BY <1>2, Zenon DEF Put, Others
<1>3. ASSUME NEW f \in Fd, Has(timer_, f)' PROVE OfTimer(f)'
  <2>1. CASE f = id BY <2>1, Zenon
  <2>2. CASE f # id
    BY <1>0, <1>2, <1>3, <2>2, TimerStays, Zenon
  <2> QED BY <2>1, <2>2
<1>4. ASSUME NEW f \in Fd, f # id, Late(f)' PROVE Late(f)
  BY <1>2, <1>4, Zenon DEF Late
<1>5. ASSUME NEW f \in Fd, NEW g \in Fd, Late(f)', Late(g)' PROVE f = g
  BY <1>0, <1>4, <1>5, Zenon DEF Nodes
<1> QED
  BY <1>1, <1>3, <1>5, Zenon DEF IInv, Nodes

\* A new connection, on a descriptor whose last timer may still be there.
LEMMA AddIInv ==
    ASSUME IInv, NEW n \in Node, addConnection(n)
    PROVE  IInv'
<1>0. Types /\ Indexed(timer_) /\ Ordered(timer_, Len(timer_.heap)) /\ Conns /\ Nodes
  BY Zenon DEF IInv
<1>1. PICK f \in Fd \ Open :
        /\ ~InUse(n)
        /\ \/ /\ users_' = [users_ EXCEPT ![f] = n] /\ fd_' = [fd_ EXCEPT ![n] = f]
              /\ armed' = armed \cup {f} /\ idle' = [idle EXCEPT ![f] = 0]
              /\ timer_' = addTimer(timer_, f, timeOutMs, n).t /\ loop' = "run"
              /\ UNCHANGED <<tasks, m_sourceMutex, timeMS>>
           \/ Abort
  BY Zenon DEF addConnection
<1>2. CASE Abort
  BY <1>2, AbortIInv
<1>3. CASE ~Abort
  <2> DEFINE x == [id |-> f, expire |-> timeOutMs, cb |-> n]
  <2>1. /\ users_' = [users_ EXCEPT ![f] = n] /\ fd_' = [fd_ EXCEPT ![n] = f]
        /\ armed' = armed \cup {f} /\ idle' = [idle EXCEPT ![f] = 0]
        /\ timer_' = addTimer(timer_, f, timeOutMs, n).t /\ loop' = "run"
        /\ UNCHANGED <<tasks, m_sourceMutex, timeMS>>
    BY <1>1, <1>3
  <2>2. timeOutMs \in Int /\ n # None /\ timeOutMs \in (-MaxLate)..KeepAlive /\ 0 \in 0..timeOutMs
    BY MiniAssumption
  <2>3. Put(timer_, timer_', f, x)
    BY <1>0, <2>1, <2>2, AddPuts
  <2>4. users_ \in [Fd -> Node \cup {None}] /\ idle \in [Fd -> 0..timeOutMs] /\ fd_ \in [Node -> Fd \cup {0}]
    BY <1>0, Zenon DEF Types
  <2>5. /\ users_'[f] = n /\ idle'[f] = 0 /\ fd_'[n] = f
        /\ \A g \in Fd : g # f => users_'[g] = users_[g] /\ idle'[g] = idle[g]
        /\ \A m \in Node : m # n => fd_'[m] = fd_[m]
    BY <2>1, <2>4
  <2>6. \A g : g \in Open' <=> g \in Open \/ g = f
    BY <2>2, <2>5, Zenon DEF Open
  <2>7. Types'
    <3>1. users_' \in [Fd -> Node \cup {None}] /\ idle' \in [Fd -> 0..timeOutMs] /\ fd_' \in [Node -> Fd \cup {0}]
      BY <2>1, <2>2, <2>4
    <3>2. armed' \subseteq Fd
      BY <1>0, <2>1, Zenon DEF Types
    <3> QED BY <1>0, <2>1, <3>1, <3>2, Zenon DEF Types
  <2>8. Conns'
    <3>1. armed' \subseteq Open'
      BY <1>0, <2>1, <2>6, Zenon DEF Conns
    <3>2. ASSUME NEW g \in Open', g # f PROVE (fd_[users_[g]] = g)' /\ Has(timer_, g)'
      <4>1. g \in Open /\ g \in Fd /\ users_'[g] = users_[g] /\ fd_[users_[g]] = g /\ Has(timer_, g)
        BY <1>0, <2>5, <2>6, <3>2, Zenon DEF Open, Conns
      <4>2. users_[g] # n /\ users_[g] # None
        BY <1>1, <4>1, Zenon DEF InUse, Open
      <4>3. users_[g] \in Node
        BY <2>4, <4>1, <4>2
      <4>4. fd_'[users_'[g]] = g
        BY <2>5, <4>1, <4>2, <4>3, Zenon
      <4>5. Has(timer_', g)
        BY <2>3, <3>2, <4>1, Zenon DEF Put, Others
      <4> QED BY <4>4, <4>5
    <3>3. (fd_[users_[f]] = f)' /\ Has(timer_, f)'
      BY <2>3, <2>5, Zenon DEF Put
    <3> QED BY <3>1, <3>2, <3>3, Zenon DEF Conns
  <2>9. Of(timer_', f) = x /\ x.expire = timeOutMs /\ x.cb = n
    BY <2>3 DEF Put
  <2>10. OfTimer(f)' /\ ~Late(f)'
    <3> HIDE DEF x
    <3>1. ~(timeOutMs > timeOutMs) /\ timeOutMs >= timeOutMs - 0
      BY <2>2
    <3> QED BY <2>2, <2>5, <2>9, <3>1, Zenon DEF OfTimer, Late
  <2>11. \A g \in Open' : g # f => g \in Open /\ users_'[g] = users_[g] /\ idle'[g] = idle[g]
    BY <2>5, <2>6, Zenon DEF Open
  <2> HIDE DEF x
  <2> QED
    BY SMTT(30), <2>1, <2>3, <2>7, <2>8, <2>10, <2>11, PutIInv
<1> QED
  BY <1>2, <1>3

\* A request: the timer of the connection is extended.
LEMMA ReadIInv ==
    ASSUME IInv, NEW f \in Fd, NEW kind \in {"request", "KEEP_ALIVE", "end"}, handleRead(f, kind)
    PROVE  IInv'
<1>0. Types /\ Indexed(timer_) /\ Ordered(timer_, Len(timer_.heap)) /\ Conns /\ Nodes
  BY Zenon DEF IInv
<1>1. CASE Abort
  BY <1>1, AbortIInv
<1>2. CASE ~Abort
  <2> DEFINE x == [id |-> f, expire |-> timeOutMs, cb |-> Of(timer_, f).cb]
  <2>1. /\ f \in armed /\ timer_' = update(timer_, f, timeOutMs) /\ loop' = "run"
        /\ armed' = armed \ {f} /\ tasks' = tasks \cup {Task(users_[f], kind)}
        /\ idle' = [idle EXCEPT ![f] = 0] /\ UNCHANGED <<users_, fd_, m_sourceMutex, timeMS>>
    BY <1>2, Zenon DEF handleRead
  <2>2. f \in Open /\ Has(timer_, f) /\ users_[f] # None
    BY <1>0, <2>1, Zenon DEF Conns, Open
  <2>3. OfTimer(f)
    BY <1>0, <2>2, Zenon DEF Nodes
  <2>4. \A g \in Fd : Has(timer_, g) => Of(timer_, g).expire \in (-MaxLate)..KeepAlive
    BY <1>0, Zenon DEF Nodes, OfTimer
  <2>5. \A g \in Fd : g # f /\ Has(timer_, g) =>
          Of(timer_, g).expire <= timeOutMs \/ Of(timer_, g).expire > Of(timer_, f).expire
    <3> SUFFICES ASSUME NEW g \in Fd, g # f, Has(timer_, g)
                 PROVE  Of(timer_, g).expire <= timeOutMs \/ Of(timer_, g).expire > Of(timer_, f).expire
      BY Zenon
    <3>1. ~(Of(timer_, g).expire > timeOutMs) \/ ~(Of(timer_, f).expire > timeOutMs)
      BY <1>0, <2>2, Zenon DEF Nodes, Late
    <3>2. Of(timer_, g).expire \in Int /\ Of(timer_, f).expire \in Int
      <4>1. Of(timer_, g).expire \in (-MaxLate)..KeepAlive /\ Of(timer_, f).expire \in (-MaxLate)..KeepAlive
        BY <2>2, <2>4, Zenon
      <4> QED BY <4>1, MiniAssumption
    <3> QED BY <3>1, <3>2, MiniAssumption
  <2>6. timeOutMs \in Int /\ timeOutMs \in (-MaxLate)..KeepAlive /\ 0 \in 0..timeOutMs
    BY MiniAssumption
  <2>7. Put(timer_, timer_', f, x)
    BY Zenon, <1>0, <2>1, <2>2, <2>5, <2>6, UpdatePuts
  <2>8. users_ \in [Fd -> Node \cup {None}] /\ idle \in [Fd -> 0..timeOutMs]
    BY <1>0, Zenon DEF Types
  <2>9. idle' \in [Fd -> 0..timeOutMs] /\ idle'[f] = 0 /\ \A g \in Fd : g # f => idle'[g] = idle[g]
    BY <2>1, <2>6, <2>8
  <2>10. Open' = Open
    BY <2>1, Zenon DEF Open
  <2>11. Types'
    <3>1. users_[f] \in Node
      BY <2>2, <2>8
    <3>2. tasks' \subseteq [client : Node, kind : {"request", "KEEP_ALIVE", "end"}]
      BY <1>0, <2>1, <3>1, TaskType, Zenon DEF Types
    <3>3. armed' \subseteq Fd
      BY <1>0, <2>1, Zenon DEF Types
    <3> QED BY <1>0, <2>1, <2>9, <3>2, <3>3, Zenon DEF Types
  <2>12. Conns'
    <3>1. armed' \subseteq Open'
      BY <1>0, <2>1, <2>10, Zenon DEF Conns
    <3>2. ASSUME NEW g \in Open PROVE (fd_[users_[g]] = g)' /\ Has(timer_, g)'
      <4>1. g \in Fd /\ fd_[users_[g]] = g /\ Has(timer_, g)
        BY <1>0, Zenon DEF Conns, Open
      <4>2. Has(timer_', g)
        BY <2>7, <4>1, Zenon DEF Put, Others
      <4> QED BY <2>1, <4>1, <4>2, Zenon
    <3> QED BY <2>10, <3>1, <3>2, Zenon DEF Conns
  <2>13. Of(timer_', f) = x /\ x.expire = timeOutMs /\ x.cb = Of(timer_, f).cb
    BY <2>7 DEF Put
  <2>14. OfTimer(f)' /\ ~Late(f)'
    <3> HIDE DEF x
    <3>1. ~(timeOutMs > timeOutMs) /\ timeOutMs >= timeOutMs - 0
      BY <2>6
    <3> QED BY <2>1, <2>3, <2>6, <2>9, <2>10, <2>13, <3>1, Zenon DEF OfTimer, Late
  <2>15. \A g \in Open' : g # f => g \in Open /\ users_'[g] = users_[g] /\ idle'[g] = idle[g]
    BY <2>1, <2>9, <2>10, Zenon DEF Open
  <2> HIDE DEF x
  <2> QED
    BY <2>1, <2>7, <2>11, <2>12, <2>14, <2>15, PutIInv
<1> QED
  BY <1>1, <1>2

\* A connection is closed, by the loop or by a worker.
LEMMA CloseIInv ==
    ASSUME IInv, NEW n \in Node, closeConnection(n), UNCHANGED <<timer_, m_sourceMutex, timeMS>>,
           tasks' \subseteq tasks, loop' \in {"run", "wait", "stuck", "aborted"}
    PROVE  IInv'
<1>0. Types
  BY Zenon DEF IInv
<1>1. /\ fd_' = fd_ /\ armed' \subseteq armed /\ armed' \subseteq Open'
      /\ users_' \in [Fd -> Node \cup {None}] /\ idle' \in [Fd -> 0..timeOutMs]
      /\ Stay /\ \A f \in Open' : fd_'[users_'[f]] = fd_[users_[f]]
  BY Closes
<1>2. Types'
  BY <1>0, <1>1, Zenon DEF Types
<1> QED
  BY <1>1, <1>2, SameTimers, Zenon

\* A connection hangs up.
LEMMA HangUpIInv ==
    ASSUME IInv, NEW f \in Fd, HangUp(f)
    PROVE  IInv'
<1>0. Types /\ Conns
  BY Zenon DEF IInv
<1>1. f \in Open /\ UNCHANGED <<timer_, tasks, m_sourceMutex, timeMS>>
  BY <1>0, Zenon DEF HangUp, Conns
<1>2. CASE m_sourceMutex
  <2>1. loop' = "stuck" /\ UNCHANGED Net
    BY <1>2, Zenon DEF HangUp
  <2>2. Types' /\ Stay /\ armed' \subseteq Open' /\ (m_sourceMutex => m_sourceMutex')
        /\ \A g \in Open' : fd_'[users_'[g]] = fd_[users_[g]]
    BY <1>0, <1>1, <2>1, Zenon DEF Types, Stay, Net, Open, Conns
  <2> QED BY <1>1, <2>2, SameTimers, Zenon
<1>3. CASE ~m_sourceMutex
  <2>1. closeConnection(users_[f]) /\ loop' = "run"
    BY <1>3, Zenon DEF HangUp
  <2>2. users_[f] \in Node
    BY <1>0, <1>1 DEF Types, Open
  <2>3. tasks' \subseteq tasks
    BY <1>1, Zenon
  <2> QED BY <1>1, <2>1, <2>2, <2>3, CloseIInv, Zenon
<1> QED
  BY <1>2, <1>3

\* A worker reads the end of the stream, or answers a request.
LEMMA WorkIInv ==
    ASSUME IInv, NEW n \in Node, onProcess_(n) \/ onRead_(n)
    PROVE  IInv'
<1>0. Types /\ Conns
  BY Zenon DEF IInv
<1>1. tasks' \subseteq tasks
  BY Zenon DEF onProcess_, onRead_, Work
<1>2. CASE onRead_(n)
  <2>1. closeConnection(n) /\ UNCHANGED <<timer_, m_sourceMutex, timeMS>> /\ loop' = loop
    BY <1>2, Zenon DEF onRead_
  <2>2. loop' \in {"run", "wait", "stuck", "aborted"}
    BY <1>0, <2>1, Zenon DEF Types
  <2> QED BY <1>1, <2>1, <2>2, CloseIInv, Zenon
<1>3. CASE onProcess_(n)
  <2>1. /\ armed' = (IF fd_[n] \in Open THEN armed \cup {fd_[n]} ELSE armed)
        /\ UNCHANGED <<timer_, users_, fd_, m_sourceMutex, loop, timeMS, idle>>
    BY <1>3, Zenon DEF onProcess_
  <2>2. armed' \subseteq Open /\ Open' = Open
    BY <1>0, <2>1, Zenon DEF Conns, Open
  <2>3. Types' /\ Stay /\ (m_sourceMutex => m_sourceMutex')
        /\ \A g \in Open' : fd_'[users_'[g]] = fd_[users_[g]]
    BY <1>0, <1>1, <2>1, <2>2, Zenon DEF Types, Stay, Open
  <2> QED BY <2>1, <2>2, <2>3, SameTimers, Zenon
<1> QED
  BY <1>2, <1>3

\* The first heartbeat: no other timer has more time than timeOutMs_.
LEMMA KeepAliveIInv ==
    ASSUME IInv, NEW n \in Node, cacheServerKeepAlive(n)
    PROVE  IInv'
<1>0. Types /\ Indexed(timer_) /\ Ordered(timer_, Len(timer_.heap)) /\ Conns /\ Nodes
  BY Zenon DEF IInv
<1>1. CASE Abort
  BY <1>1, AbortIInv
<1>2. CASE ~Abort
  <2>1. /\ ~m_sourceMutex /\ InUse(n) /\ tasks' \subseteq tasks /\ m_sourceMutex' = TRUE
        /\ timer_' = addTimer(timer_, fd_[n], KeepAlive, None).t /\ UNCHANGED <<Net, loop, timeMS>>
    BY <1>2, Zenon DEF cacheServerKeepAlive, Work
  <2>2. PICK f \in Fd : f \in Open /\ f = fd_[n]
    BY <1>0, <2>1, Zenon DEF InUse, Conns, Open
  <2> DEFINE x == [id |-> f, expire |-> KeepAlive, cb |-> None]
  <2>2a. m_sourceMutex' /\ (m_sourceMutex => m_sourceMutex')
    BY <2>1, Zenon
  <2>3. KeepAlive \in Int /\ None \in Node \cup {None} /\ KeepAlive \in (-MaxLate)..KeepAlive /\ KeepAlive >= timeOutMs
    BY MiniAssumption
  <2>4. Put(timer_, timer_', f, x)
    BY <1>0, <2>1, <2>2, <2>3, AddPuts
  <2>5. /\ users_' = users_ /\ fd_' = fd_ /\ armed' = armed /\ idle' = idle /\ Open' = Open
        /\ loop' = loop /\ timeMS' = timeMS
    BY <2>1, Zenon DEF Net, Open
  <2>6. Types'
    <3>1. m_sourceMutex' \in BOOLEAN
      BY <2>1, Zenon
    <3>2. tasks' \subseteq [client : Node, kind : {"request", "KEEP_ALIVE", "end"}]
      BY <1>0, <2>1, Zenon DEF Types
    <3> QED BY <1>0, <2>5, <3>1, <3>2, Zenon DEF Types
  <2>7. Conns'
    <3>1. ASSUME NEW g \in Open PROVE Has(timer_', g)
      <4>1. g \in Fd /\ Has(timer_, g)
        BY <1>0, Zenon DEF Conns, Open
      <4> QED BY <2>4, <4>1, Zenon DEF Put, Others
    <3> QED BY <1>0, <2>5, <3>1, Zenon DEF Conns
  <2>8. Of(timer_', f) = x /\ x.expire = KeepAlive /\ x.cb = None
    BY <2>4 DEF Put
  <2>9. OfTimer(f)'
    <3> HIDE DEF x
    <3>1. KeepAlive >= timeOutMs - idle[f]
      <4>1. idle[f] \in 0..timeOutMs
        BY <1>0, <2>2 DEF Types
      <4> QED BY <2>3, <4>1, MiniAssumption
    <3> QED BY <2>2a, <2>3, <2>5, <2>8, <3>1, Zenon DEF OfTimer
  <2>10. \A g \in Fd : ~Late(g)
    BY <1>0, <2>1, Zenon DEF Nodes, OfTimer, Late
  <2>11. \A g \in Open' : g # f => g \in Open /\ users_'[g] = users_[g] /\ idle'[g] = idle[g]
    BY <2>5, Zenon
  <2> HIDE DEF x
  <2> QED
    BY <2>2a, <2>2, <2>4, <2>6, <2>7, <2>9, <2>10, <2>11, PutIInv, Zenon
<1> QED
  BY <1>1, <1>2

\* Every step keeps the invariant.
LEMMA StepIInv ==
    ASSUME IInv, [Next]_vars
    PROVE  IInv'
<1>1. CASE UNCHANGED vars
  BY <1>1, Zenon DEF vars, IInv, Types, Conns, Nodes, OfTimer, Late, Open
<1>2. CASE handle_expired_event
  BY <1>2, ExpiredIInv
<1>3. CASE getNextHandle \/ Timeout
  BY <1>3, SleepIInv
<1>4. CASE Tick
  BY <1>4, TickIInv
<1>5. ASSUME NEW f \in Fd, HangUp(f) PROVE IInv'
  BY <1>5, HangUpIInv
<1>6. ASSUME NEW f \in Fd, NEW kind \in {"request", "KEEP_ALIVE", "end"}, handleRead(f, kind) PROVE IInv'
  BY <1>6, ReadIInv
<1>7. ASSUME NEW n \in Node, addConnection(n) PROVE IInv'
  BY <1>7, AddIInv
<1>8. ASSUME NEW n \in Node, onProcess_(n) \/ onRead_(n) PROVE IInv'
  BY <1>8, WorkIInv
<1>9. ASSUME NEW n \in Node, cacheServerKeepAlive(n) PROVE IInv'
  BY <1>9, KeepAliveIInv
<1> QED
  BY <1>1, <1>2, <1>3, <1>4, <1>5, <1>6, <1>7, <1>8, <1>9, Zenon DEF Next, Loop

\* The invariant holds in every reachable state.
LEMMA Invariant == Spec => []IInv
<1>1. Init => IInv
  BY InitIInv
<1>2. IInv /\ [Next]_vars => IInv'
  BY StepIInv
<1> QED
  BY <1>1, <1>2, PTL DEF Spec

\* The timers, connections and tasks of the Mini_DCS master stay in their types: no timer
\* has more time than KeepAlive.
THEOREM MiniTypeCorrect == Spec => []TypeOK
<1>1. IInv => TypeOK
  BY IInvImplies
<1> QED
  BY <1>1, Invariant, PTL

\* ref_ and heap_ match whatever addTimer, update and pop moved, and each open connection
\* has a timer: the assertions of update and swapNode hold.
THEOREM RefCorrect == Spec => []RefMatches
<1>1. IInv => RefMatches
  BY IInvImplies
<1> QED
  BY <1>1, Invariant, PTL

\* heap_ stays a heap, though update only moves a timer down.
THEOREM HeapCorrect == Spec => []HeapOrdered
<1>1. IInv => HeapOrdered
  BY IInvImplies
<1> QED
  BY <1>1, Invariant, PTL

\* The first timer of heap_ is the earliest.
RootFirst == \A p \in DOMAIN timer_.heap : timer_.heap[1].expire <= timer_.heap[p].expire

\* getNextHandle and handle_expired_event look at the first timer only: no other one is
\* due before it.
THEOREM EarliestFirst == Spec => []RootFirst
<1>1. ASSUME IInv PROVE RootFirst
  <2> DEFINE n == Len(timer_.heap)
             Bad == {p \in 1..n : ~(E(timer_, 1) <= E(timer_, p))}
  <2>0. timer_ \in Timers /\ Ordered(timer_, n)
    BY <1>1, Zenon DEF IInv, Indexed
  <2>1. /\ n \in Nat /\ DOMAIN timer_.heap = 1..n
        /\ \A p \in 1..n : E(timer_, p) \in Int
    <3>1. timer_.heap \in Seq(TimeNode) /\ n \in Nat /\ \A p \in 1..n : E(timer_, p) \in Int
      BY <2>0, NodesOf, Zenon
    <3> QED BY <3>1
  <2> HIDE DEF n
  <2>2. Bad = {}
    <3> SUFFICES ASSUME Bad # {} PROVE FALSE
      OBVIOUS
    <3>1. Bad \subseteq Nat
      OBVIOUS
    <3>2. PICK p \in Bad : \A q \in Bad : p <= q
      <4> HIDE DEF Bad
      <4> QED BY Zenon, <3>1, LeastExists
    <3>3. p \in 1..n /\ ~(E(timer_, 1) <= E(timer_, p))
      OBVIOUS
    <3>4. p \in 2..n
      BY <2>1, <3>3
    <3>5. p \div 2 \in 1..n /\ p \div 2 < p
      BY <2>1, <3>4, Half
    <3>6. E(timer_, 1) <= E(timer_, p \div 2)
      <4>1. p \div 2 \notin Bad
        <5> HIDE DEF Bad
        <5> QED BY <3>1, <3>2, <3>3, <3>5
      <4> QED BY <3>5, <4>1
    <3>7. E(timer_, p \div 2) <= E(timer_, p)
      BY <2>0, <3>4, Zenon DEF Ordered
    <3>8. E(timer_, 1) \in Int /\ E(timer_, p) \in Int /\ E(timer_, p \div 2) \in Int
      BY <2>1, <3>3, <3>5
    <3> QED BY <3>3, <3>6, <3>7, <3>8
  <2>3. \A p \in 1..n : E(timer_, 1) <= E(timer_, p)
    BY <2>2
  <2> QED BY <2>1, <2>3, Zenon DEF RootFirst, E
<1> QED
  BY <1>1, Invariant, PTL

\* A timer that expires closes its descriptor's connection only when that was idle for
\* timeOutMs_, although timers outlive connections and descriptors and memory return.
THEOREM IdleOnlyCorrect == Spec => IdleOnly
<1> DEFINE Idle == \A f \in Fd : Expires(f) /\ timer_.heap[1].id = f => idle[f] = timeOutMs
<1>1. IInv /\ [Next]_vars => [Idle]_vars
  <2> SUFFICES ASSUME IInv, NEW f \in Fd, Expires(f), timer_.heap[1].id = f
               PROVE  idle[f] = timeOutMs
    BY Zenon
  <2>1. timer_.heap # <<>> /\ timer_.heap[1].expire <= 0 /\ f \in Open
    BY Zenon DEF Expires, handle_expired_event, Due
  <2>2. OfTimer(f) /\ Of(timer_, f) = timer_.heap[1] /\ timer_.heap[1].expire \in (-MaxLate)..KeepAlive
    BY <2>1, Root
  <2>3. idle[f] = timeOutMs \/ timer_.heap[1].expire >= timeOutMs - idle[f]
    BY <2>1, <2>2, Zenon DEF OfTimer
  <2>4. idle[f] \in 0..timeOutMs
    BY DEF IInv, Types
  <2> QED BY <2>1, <2>2, <2>3, <2>4, MiniAssumption
<1> QED
  BY <1>1, Invariant, PTL DEF Spec, IdleOnly
=============================================================================
