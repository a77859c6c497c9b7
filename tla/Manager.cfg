SPECIFICATION Spec
CONSTANTS
    PRanks <- MCPRanks
    DJobs <- MCDJobs
    QJobs <- MCQJobs
    QNames <- MCQNames
    WJobs <- MCWJobs
    WClients <- MCWClients
    SProcs = {1, 2}
    BufCap = 2
    SubScenarios <- MCSubScenarios
    Units = {1, 2}
    OutCap = 2
    InCap = 2
    SdScenarios <- MCSdScenarios
INVARIANTS
    PerilogKept
    DependenciesKept
    QueuesKept
    WaitAnswered
    SubprocessKept
    SdexecKept
CHECK_DEADLOCK FALSE
