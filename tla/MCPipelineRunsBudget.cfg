SPECIFICATION PipelineSpec
CONSTANTS
    plain = plain
    edited = edited
    Fixture = {plain, edited}
    NStages = 2
    MaxAttempts = 2
    Failures = {"transient"}
    FailAfter = {1}
    LegacyFiles <- MCLegacyFiles
    MaxRuns = 2
    MaxInvocations = 3
    MaxFaults = 1
    MaxClock = 1
    MaxSetbacks = 1
    None = None
INVARIANT ChangedIdentityGetsFreshBudget
CHECK_DEADLOCK FALSE
