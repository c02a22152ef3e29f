SPECIFICATION ShellFairSpec
CONSTANTS
  Images = {1, 2, 3}
  Size <- MCSize
  ARMBASE = 2
  Loader = 5
  Width = 16
  TextLen = 1
  Garbles = {0, 15}
  Cuts = {0, 2}
  MaxRepeat = 2
  MaxResets = 1
  MaxRestarts = 1
  MaxFlips = 1
  MaxFaults = 2
  Jobs = {1, 2}
  Clients = {2}
  MaxCommands = 2
INVARIANTS
  ShellTypeOK
  BelowLoader
  Agreement
  QuietAtPrompt
PROPERTIES
  DiesOfFaultsOnly
  JobAnswered
  NoWaitForEver
CHECK_DEADLOCK FALSE
