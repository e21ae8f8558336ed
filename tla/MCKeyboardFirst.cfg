SPECIFICATION Spec
CONSTANTS
  screen = screen
  computer = computer
  kb = kb
  modem = modem
  kb2 = kb2
  None = None
  Config <- KeyboardFirst
  Spare = {}
  Computer = computer
  Screen = screen
  Keyboards = {kb}
  Sources = {screen, kb}
  MaxEvents = 0
  MaxCalls = 0
  MaxBoots = 1
INVARIANT
  KeyboardsExist
CHECK_DEADLOCK FALSE
