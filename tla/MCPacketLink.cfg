SPECIFICATION FairSpec
CONSTANTS
  HeaderSize = 2
  Base = 3
  MaxBuffer = 6
  Payloads <- MCPayloads
  SockCap = 7
  MaxFrames = 3
INVARIANTS
  LinkIsSound
PROPERTIES
  SoundFramesArrive
CHECK_DEADLOCK FALSE
