\* A regeneration whose worker is lost, and what the docstring of run() says.
SPECIFICATION SpecRegenerate

CONSTANTS
    MaxJobs = 2
    Upstream = 1
    MaxFaults = 1
    MaxRetries = 0
    MaxCancels = 0

PROPERTY RedeliveredRunsResume
