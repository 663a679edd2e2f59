SPECIFICATION MCSpec
CONSTANTS
  Parts = {"fileserver", "socket", "readline", "unix", "threads", "system", "interrupts", "shm", "counters", "pipe", "fifo", "mq",
           "lists", "drivers", "firsthash", "loader", "apps", "graph"}
  Conns = {c1, c2, c3, c4}
  MaxSignals = 3
  Fds = {d1, d2, d3}
  None = None
  MaxAddresses = 2
  Readers = {"socket", "strict", "dropping"}
  Texts <- TextsOfLines
  FirstSize = 3
  MaxSize = 6
  u1 = u1
  u2 = u2
  u3 = u3
  UdsClients = {u1, u2}
  Pieces = 2
  Backlog = 1
  UdsRuns = 2
  Peers = {u1, u2}
  Lines = 4
  Nuls = {2}
  SockCells = {x1, x2}
  NoCell = None
  SysCommands = {"system", "empty", "null", "fork"}
  MaxKeys = 2
  Loops = {"signal", "signal-test", "progress", "cursor"}
  Turns = 3
  EndlessTurns = 3
  Creators = {u1, u2}
  ShmReaders = {d1, d2}
  ShmObjects = {x1, x2}
  NoObject = None
  LockPrograms = {"proc", "thread", "wake", "local"}
  Iter = 3
  Programs = {"message", "single"}
  Count = 3
  IntSize = 4
  Capacity = 6
  FifoClients = {u1, u2, u3}
  ExitClients = {u1}
  Most = 3
  MaxFifoSignals = 1
  Senders = {u1, u2, u3}
  Priority <- MCPriority
  MaxMsg = 2
  Lists = {"stack", "counted", "indexed", "doubly"}
  ListNodes = {1, 2, 3, 4, 5}
  Null = 0
  Values = {1, 2}
  ListTurns = 3
  Room = 3
  Tests = {"set", "deque", "macro", "heap", "strings", "peek", "object", "matrix", "table", "list", "scores"}
  AnyTimes = 3
  FirstBuckets = {0, 1, 2}
  NoNode = 0
  GLDrivers <- MCDrivers
  AppDrivers <- MCAppDrivers
  Apps = {"gl4", "ex1", "ex2", "app"}
  GraphPrograms = {"native", "web"}
  Matrices <- MCMatrices
  GraphSize = 4
INVARIANTS ServeInv SocketsSound ProcessesSound ChannelsSound ChainsSound AloneSound
PROPERTIES StopSticks StopsAtNextClient AllEnd ListsRight
CHECK_DEADLOCK FALSE
