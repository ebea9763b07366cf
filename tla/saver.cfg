SPECIFICATION FairSpec
CONSTANTS
    j1 = j1
    j2 = j2
    north = north
    south = south
    NoTenant = NoTenant
    NoRun = NoRun
    Jobs <- MCJobs
    Tenants <- MCTenants
    TenantOf <- MCTenantOf
    MaxSaves = 2
    MaxFaults = 2
    MaxCrashes = 2
INVARIANTS SqlUnderOwnTenant SettingIsHolders FailureNeedsFault
PROPERTIES KeepsCheckpoints OperationsEnd
\* Settled jobs stop.
CHECK_DEADLOCK FALSE
