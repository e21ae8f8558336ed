INIT DesktopInit
NEXT DesktopNext
CONSTANTS
  screen = screen
  computer = computer
  kb = kb
  modem = modem
  kb2 = kb2
  None = None
  Config <- DefaultConfig
  Spare = {kb2}
  Computer = computer
  Screen = screen
  Keyboards = {kb, kb2}
  Sources = {screen, kb, modem, kb2}
  MaxEvents = 2
  MaxCalls = 2
  MaxBoots = 1
  Char = {"a", "b", "W", " "}
  WideChar = {"W"}
  Blank = " "
  FirstSize <- MCFirstSize
  FrameSizes <- MCFrameSizes
  GpuMaxInt = 15
  Texts <- MCTexts
  Fills <- MCFills
  Copies <- MCCopies
  MaxDraws = 4
  Gpus = {g1, g2}
  Screens = {s1, s2}
  NoPeer = NoPeer
  Rgbs <- MCRgbs
  Indexes <- MCIndexes
  Monochrome = 16777215
  MaxColorCalls = 4
  TextBytes <- MCTextBytes
  MaxText = 4
  FontWidth <- MCFontWidth
  CodePoints <- MCCodePoints
  KeyTable <- MCKeyTable
  PtyInputs <- MCPtyInputs
  RawInputs <- MCRawInputs
  MaxTyped = 3
  MaxWire = 6
  Modems = {m1, m2}
  Ports = {0, 1}
  NoTarget = NoTarget
  Parts <- MCParts
  _maxArguments = 2
  _maxPacketSize = 21
  MaxSends = 2
  Clients = {c1, c2}
  Conns = {k1, k2, k3}
  NoConn = NoConn
  RoomUp = 2
  RoomDown = 1
  MaxPosts = 2
  MaxStops = 1
SYMMETRY Symmetry
INVARIANTS
  SignalsInOrder
  ComponentsExist
  ShownAsRead
  NoCallToTheDead
  TextIsSound
  MouseGrammar
  KeysReleased
  PacketsComplete
PROPERTIES
  CopyMovesRegion
  OthersKeepTheirColour
  HeardAsSent
  BusSpec
CHECK_DEADLOCK FALSE
