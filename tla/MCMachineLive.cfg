SPECIFICATION FairSpec
CONSTANTS
  screen = screen
  computer = computer
  kb = kb
  modem = modem
  kb2 = kb2
  None = None
  Config <- LastConfig
  Spare = {kb2}
  Computer = computer
  Screen = screen
  Keyboards = {kb, kb2}
  Sources = {screen, kb, kb2}
  MaxEvents = 2
  MaxCalls = 2
  MaxBoots = 1
PROPERTIES
  SignalsAreHeard
  AbortIsHeeded
  SleeperWakes
CHECK_DEADLOCK FALSE
