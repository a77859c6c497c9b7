SPECIFICATION Spec
CONSTANTS
    InfoClients <- MCInfoClients
    InfoScenarios <- MCInfoScenarios
    KeptJobs <- MCKeptJobs
    KeepScenarios <- MCKeepScenarios
    Submits <- MCSubmits
    CrewSize = 2
    MaxBacklog = 1
    IngestScenarios <- MCIngestScenarios
    ListedJobs <- MCListedJobs
    JobQueues <- MCJobQueues
    ListRequests <- MCListRequests
    HighPriority = 2
    PurgeBatch = 1
    ListScenarios <- MCListScenarios
INVARIANTS
    InfoStreams
    RanksFreedOnce
    SubmitsAnswered
    ListKept
CHECK_DEADLOCK FALSE
