INIT StorageInit
NEXT StorageNext
CONSTANTS
  Paths = {a, b}
  Handles = {h1, h2}
  Inodes = {i1, i2, i3}
  None = None
  Byte = {0, 1}
  MaxInt = 3
  Distances <- MCDistances
  Sizes <- MCSizes
  MaxOpens = 2
  MaxWrites = 2
  MaxSeeks = 1
  PathNames = {"x", "y"}
  PathArguments <- MCPathArguments
  MaxFileCalls = 4
  DriveByte = {0, 1}
  SectorSize = 4
  DriveMaxInt = 15
  Tiers = {0, 1, 2}
  Sectors <- MCSectors
  Arguments <- MCArguments
  MaxBoots = 3
  ShippedConfig <- MCShippedConfig
  ShippedBios = 2
  LabelChars = {"n", Quote, Backslash, LineEnd}
  Quote = Quote
  Backslash = Backslash
  LineEnd = LineEnd
  Escapes <- MCEscapes
  Labels <- MCLabels
  NoLabel = NoLabel
  Lengths = {1, 2, 3}
  BiosSizes <- MCBiosSizes
  DataSizes <- MCDataSizes
  NoFile = NoFile
  MaxStarts = 3
SYMMETRY Symmetry
INVARIANTS
  FilesAsWritten
  ReadsAreContiguous
  ReadInBounds
  WritesWhereAsked
PROPERTIES
  LootDiskUntouched
  FoundAsLeft
  CallsAnswerTruly
  SettingsKept
CHECK_DEADLOCK FALSE
