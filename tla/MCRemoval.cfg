SPECIFICATION Spec
CONSTANTS
  screen = screen
  computer = computer
  kb = kb
  modem = modem
  kb2 = kb2
  None = None
  Config <- DefaultConfig
  Spare = {kb2}
  Computer = computer
  Screen = screen
  Keyboards = {kb, kb2}
  Sources = {screen, kb, modem, kb2}
  MaxEvents = 0
  MaxCalls = 1
  MaxBoots = 1
INVARIANT
  RemovalSurvives
CHECK_DEADLOCK FALSE
