CONSTANTS
  Task = {"wdt", "cli", "bms", "idle"}
  Idle = "idle"
  NoTask = "none"
  Queue = {"m"}
  Mutex = {"m"}
  MaxPriorities = 5
  TickMod = 3
  MaxPended = 1
  Priority <- FwPriority
  Length <- FwLength
  Clients <- FwClients
  Order <- FwOrder
SPECIFICATION FairSpec
PROPERTY UrgentIsServed DelaysEnd
