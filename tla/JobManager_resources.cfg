SPECIFICATION Spec
CONSTANTS
  Job = {1, 2}
  UserUrgency = {16}
  PluginPriority = {1}
  PriorityUnavail = FALSE
  DependCount = {0}
  PerilogCount = {0, 1}
  PerilogMax = 255
  Housekeeping = TRUE
  AllocLimit = 0
  MaxRequest <- ResourceRequests
INVARIANTS ReleasedIdle NoLeak CleanupProgress
CHECK_DEADLOCK FALSE
