CONSTANTS
    Key = {k1, k2, k3, k4}
    Value = {v0, v1}
    Empty = v0
    Addr = {a1, a2, a3, a4}
    head = head
    tail = tail
    nullptr = nullptr
    capacity = 3
SPECIFICATION Spec
INVARIANTS TypeOK ListMatchesCache CacheMatchesNodes
PROPERTY RefinesRecencyCache
