---------------------------- MODULE RecencyCache ----------------------------
(***************************************************************************)
(* What an LRU cache promises, without pointers: it keeps the `capacity'   *)
(* most recently used keys, and reads return the last value written.       *)
(* `order' lists the stored keys, most recently used first; `store' gives  *)
(* their values.  LRUCache implements this specification.                  *)
(***************************************************************************)
EXTENDS Integers, Sequences

CONSTANTS Key, Value, Absent, Empty, capacity

VARIABLES order, store, ret

vars == <<order, store, ret>>

Init ==
    /\ order = <<>>
    /\ store = [k \in Key |-> Absent]
    /\ ret = Empty

Members(s) == {s[i] : i \in DOMAIN s}
Erase(s, i) == SubSeq(s, 1, i - 1) \o SubSeq(s, i + 1, Len(s))

\* The keys with k, which may be new, in front, and as many of them as there is room for.
Touched(k) ==
    <<k>> \o IF store[k] = Absent THEN order
             ELSE Erase(order, CHOOSE i \in DOMAIN order : order[i] = k)
Kept(k) == IF Len(Touched(k)) > capacity THEN SubSeq(Touched(k), 1, capacity) ELSE Touched(k)

\* A read refreshes the key unless the caller only peeks (flag false).
Get(k, flag) ==
    /\ ret' = IF store[k] = Absent THEN Empty ELSE store[k]
    /\ order' = IF flag /\ store[k] # Absent THEN Touched(k) ELSE order
    /\ UNCHANGED store

\* A write makes the key the most recent; the keys beyond capacity go.
Put(k, v) ==
    /\ order' = Kept(k)
    /\ store' = [x \in Key |-> IF x \notin Members(Kept(k)) THEN Absent
                               ELSE IF x = k THEN v ELSE store[x]]
    /\ UNCHANGED ret

Next ==
    \E k \in Key :
        \/ \E flag \in BOOLEAN : Get(k, flag)
        \/ \E v \in Value : Put(k, v)

Spec == Init /\ [][Next]_vars
=============================================================================
