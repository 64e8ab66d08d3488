SPECIFICATION ClockSpec
CONSTANTS
  Clock = {"a", "b"}
  Run = {1, 2}
  WINDOW_SERIAL = 2
  PAGE_SIZE = 1
  Script <- MCScript
  Installed = {"a"}
  MaxFaults = 1
  MaxConsole = 1
INVARIANTS SyncIsSafe
PROPERTIES SyncMovesOn
CHECK_DEADLOCK FALSE
