SPECIFICATION Spec
CONSTANTS
  screen = screen
  computer = computer
  kb = kb
  modem = modem
  kb2 = kb2
  None = None
  Config <- LastConfig
  Spare = {kb2}
  Computer = computer
  Screen = screen
  Keyboards = {kb, kb2}
  Sources = {screen, kb, kb2}
  MaxEvents = 1
  MaxCalls = 2
  MaxBoots = 1
INVARIANT
  KeysGoToKeyboards
CHECK_DEADLOCK FALSE
