SPECIFICATION MCSpec
CONSTANTS
  Parts = {"queue", "recv", "packets", "base64", 
           "reply", "parse", "startup", "log"}
  p1 = p1
  p2 = p2
  p3 = p3
  n1 = n1
  n2 = n2
  n3 = n3
  n4 = n4
  Data = {3, 4}
  Callers = {p1, p2, p3}
  Nodes = {n1, n2, n3, n4}
  NoNode = NoNode
  Nothing = 0
  Base = 8
  Digits = 3
  IntMax = 127
  Bodies <- SomeBodies
  MaxPackets = 2
  AddressSize = 4
  JsonSize = 8
  BufferSize = 13
  PayloadSize = 2
  Texts <- SomeTexts
  Handshakes <- SomeHandshakes
  Beyond <- SomeBeyond
  Quarter = 2
  Inputs <- SomeInputs
  Pad = 99
  ChunkValues = 15
  TextSize = 8
  Lengths = {5, 7, 8, 9, 10}
  Documents <- SomeDocuments
  Configs <- SomeConfigs
  Header <- SomeHeader
  IntLimit = 8
  Unset = Unset
  Null = Null
  Stray <- SomeStray
  CommandLines <- SomeCommandLines
  Defaults <- SomeDefaults
  Atoi <- SomeNumbers
  PortLimit = 8
  Threads = {1, 2}
  Levels = {0, 1}
  MaxCallbacks = 1
  MaxLines = 1
SYMMETRY Symmetry
INVARIANTS
  QueueIntact NodesExact
  PacketsWhole PacketReadBack BuffersHold Base64Exact
  AnswerComplete OnlyFaviconLeaks ConfigIsSaid OwnReadBack  LinesWhole
PROPERTY ImplementsFifoQueue
CHECK_DEADLOCK FALSE
