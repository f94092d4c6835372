CONSTANTS
  f1 = f1
  f2 = f2
  f3 = f3
  c1 = c1
  c2 = c2
  c3 = c3
  Tag = {t1, t2}
  File = {f1, f2, f3}
  Controller = {c1, c2, c3}
  Paths <- MCPaths
  Depth = 1
  Budget = 1
  Big = {t2}
  Vwc = {c1}
  NoFile = NoFile
  Thread = {p1, p2}
  Namespace = {n1}
  Nobody = Nobody
  Op = {o1, o2, o3}
  MaxWrites = 2
  workers = 2
  queues = 1
  RingSize = 1
  MaxPackets = 2
  MaxSockets = 2
  capacity = 2
  None = None
  SocketTag = {s1, s2}
  kClientPortFirst = 1
  kClientPortLast = 3
  Port = {1, 2, 3}
  MaxEnds = 2
  Placement <- MCPlacement
  MaxDepth = 3
  Item = {i1, i2, i3}
  maximum = 2
  Task = {k1, k2, k3}
  MaxTime = 1
  MaxCallouts = 2
  MaxTasks = 1
  Null = Null
  FrameThread = {h1, h2}
  FrameBlock = {b1, b2, b3}
  Size = {2, 3, 5, 9, 17}
  kMinClassBytes = 4
  kClassCount = 3
  kMaxFramesPerClass = 2
  kMaxCachedBytes = 20
SPECIFICATION MCSpec
INVARIANTS   NoSleepInVain
  PinsHold SegmentsReachOwner HostPortIsSafe FramesFit
PROPERTY ChannelsAreSafe
