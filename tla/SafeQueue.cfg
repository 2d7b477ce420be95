CONSTANTS
  Producer = {p1, p2}
  Consumer = {c1, c2}
  Value = {x, y}
  Blank = x
  capacity = 2
SPECIFICATION QueueFairSpec
INVARIANTS QueueTypeOK NoLostWakeup
PROPERTIES IsBoundedQueue Progress
