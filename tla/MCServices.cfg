\* Every service in turn.
CONSTANTS
  m1 = m1
  m2 = m2
  c1 = c1
  c2 = c2
  c3 = c3
  Messages = {m1, m2}
  QueueConsumers = {c1, c2, c3}
  Keys = {"a", "b"}
  KeyOf <- KeyOfCalls
  PoolNums = {0, 1}
  MaxErrors = 1
  NoMessage = NoMessage
  BrokerConsumers = {c1, c2}
  Groups = {"g"}
  GroupOf <- GroupOfCalls
  To <- ToCalls
  Concurrency = 1
  Nobody = Nobody
  Clients = {g1, g2}
  MaxSets = 1
  MaxCalls = 2
  Code <- CodeModulo
  WindowSize = 3
  StartCounters = {0, 2}
  Scratch = {90}
  MaxInt = 3
  MaxTime = 2
  PageSizes = {3}
  SheetSizes = {1, 4}
  LimitSizes = {2, 6, 9}
  Tables = {0, 5}
  MaxInt32 = 7
  MaxRuns = 2
  Names = {"", "default", "x"}
  Objects = {o1, o2}
  Removers = {u1, u2}
  Jobs = {"a", "b"}
  BadJobs = {"b"}
  NoObject = NoObject
  BlockSize = 4
  Word = 5
  MaxLength = 24
  RawFuncs <- RawFuncsGiven
  Bytes = {1, 67, 200, 255}
  KeyLength = 2
  SubLen = 4
  MaxSecret = 4
  Members = {1, 3}
  RoomIds = {r1, r2}
  RoomBuckets = 2
  MaxJoinRoom = 1
  Files <- FilesGiven
  PoolSize = 1
  TaskLists <- TaskListsGiven
  ServiceLists <- ServiceListsGiven
  ConsumerNum <- ConsumerNumGiven
  ExchangeOf <- ExchangeGiven
  MaxBoots = 2
SPECIFICATION Spec
CHECK_DEADLOCK FALSE
INVARIANTS
  ServicesTypeOK
  AckedWasHandledOrEarly
  CounterExact
  SpentIsSpent
  NoCodeTwice
  RemembersOneWindow
  ExportIsPrefix
  SheetsBounded
  RemovedIsClosed
  TickingCanBeStopped
  RoundTrip
  RoomsSettle
  StartsAsConfigured
PROPERTIES
  ImplementsWorkQueue
  PublishedIsHandled
