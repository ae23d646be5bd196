SPECIFICATION MCSpec
CONSTANTS
  Known = {"fintech", "retail"}
  Ranged = {"retail"}
  Novel = "novel"
  Number = "7"
  NONE = "NONE"
  Latencies = {1, 25}
  Lifetime = 2
  Apis = {a1, a2}
  Tenants = {t1}
  Jobs = {j1, j2}
  TemplateIndustries = {"automobile", "general", "logistics"}
  MaxOwned = 1
  MaxRestarts = 1
  MaxDeliveries = 2
INVARIANTS
  
  UsageCounted
  SeededOnce
\* Restarts and deliveries are bounded: the last ones done, nothing is left to do.
CHECK_DEADLOCK FALSE
