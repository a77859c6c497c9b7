SPECIFICATION Spec
CONSTANTS
    Watchers <- MCWatchers
    WatchScenarios <- MCWatchScenarios
    ResourceScenarios <- MCResourceScenarios
    ExecScenarios <- MCExecScenarios
INVARIANTS
    WatchKept
    ResourceKept
    JobEnds JobAccounted
CHECK_DEADLOCK FALSE
