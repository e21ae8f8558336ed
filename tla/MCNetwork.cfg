SPECIFICATION NetworkSpec
CONSTANTS
  Clients = {c1, c2}
  Conns = {k1, k2}
  NoConn = NoConn
  RoomUp = 2
  RoomDown = 1
  MaxPosts = 2
  MaxStops = 1
  HeaderSize = 2
  Base = 4
  MaxBuffer = 6
  Streams = {u1, u2}
  MaxConnections = 2
  Amounts = {0, 2}
  MaxSent = 1
  MaxReads = 2
  Chunk = 2
  Newline = 0
  Colon = 2
  Blanks = {3}
  HttpOutputs <- MCOutputs
  StatusLines <- MCStatusLines
  StatusOf <- MCStatusOf
  MaxOutputs = 4
INVARIANTS
  ResponseComplete
PROPERTIES
  EndOnlyAtEnd
  PostsAreRelayed
  ReadyIsSignalled
  ClosesItsOwn
CHECK_DEADLOCK FALSE
