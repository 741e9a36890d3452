SPECIFICATION SupervisorSpec
CONSTANTS
    Pids = {p1, p2, p3}
    MaxTracked = 2
    AgentNsLevel = 1
INVARIANTS
    SupervisorTypeOK
    AgentRunsOnlySupervised
    FatalLeavesNoAgent
    SupervisedAreTracked
    TrackedBelongsToAgent
PROPERTIES
    LaunchResolves
    GuardEnds
    ImplementsTracking
