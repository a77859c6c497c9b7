SPECIFICATION Spec
CONSTANTS
  Job = {1}
  UserUrgency = {0, 16, 31}
  PluginPriority = {1}
  PriorityUnavail = TRUE
  DependCount = {0, 1}
  PerilogCount = {0, 2}
  PerilogMax = 1
  Housekeeping = TRUE
  AllocLimit = 1
  MaxRequest <- LifeRequests
INVARIANTS NoLostJob
PROPERTIES StartAfterProlog
CHECK_DEADLOCK FALSE
