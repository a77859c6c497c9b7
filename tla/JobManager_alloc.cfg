SPECIFICATION Spec
CONSTANTS
  Job = {1, 2}
  UserUrgency = {16}
  PluginPriority = {1, 2}
  PriorityUnavail = FALSE
  DependCount = {0}
  PerilogCount = {0}
  PerilogMax = 255
  Housekeeping = FALSE
  AllocLimit = 1
  MaxRequest <- AllocRequests
INVARIANTS QueueFlags OneRequest FreeOnlyAllocated
CHECK_DEADLOCK FALSE
