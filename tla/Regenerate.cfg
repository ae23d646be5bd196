SPECIFICATION SpecRegenerate

CONSTANTS
    MaxJobs = 3
    Upstream = 1
    MaxFaults = 0
    MaxRetries = 0
    MaxCancels = 0

INVARIANTS
    OneRunPerKey
    AgentListsSound
