CONSTANTS
  Task = {"hi", "mid", "lo", "idle"}
  Idle = "idle"
  NoTask = "none"
  Queue = {"m", "n", "q"}
  Mutex = {"m", "n"}
  MaxPriorities = 4
  TickMod = 4
  MaxPended = 1
  Priority <- MCPriority
  Length <- MCLength
  Clients <- MCClients
  Order <- MCOrder
SPECIFICATION Spec
INVARIANTS ListsAgree HighestRuns TimesAreExact InheritanceIsExact NoLostWakeUp
PROPERTY DelaysInFull
