SPECIFICATION MCSpec
CONSTANTS
  w1 = w1
  w2 = w2
  w3 = w3
  Worker = {w1, w2, w3}
  x = x
  y = y
  z = z
  Member = {w1, w2}
  Coroutine = {x, y, z}
  Home <- HomeOf
  Producer = {p, q}
  MaxPosts = 2
  None = None
INVARIANTS LifecycleInOrder CallsAreSafe
PROPERTY EverythingEnds
