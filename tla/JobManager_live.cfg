SPECIFICATION FairSpec
CONSTANTS
  Job = {1}
  UserUrgency = {0, 16}
  PluginPriority = {1}
  PriorityUnavail = FALSE
  DependCount = {0, 1}
  PerilogCount = {0, 1}
  PerilogMax = 255
  Housekeeping = TRUE
  AllocLimit = 1
  MaxRequest <- LiveRequests
PROPERTIES Terminates
CHECK_DEADLOCK FALSE
