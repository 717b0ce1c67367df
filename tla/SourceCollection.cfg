SPECIFICATION Spec
CONSTANTS
    POLICY_START = 1
    POLICY_END = 4
    POLICY_CUTOFF = 5
    Unbounded = Unbounded
    Configs <- MCConfigs
    RowsOf <- MCRowsOf
    Crosswalks = {"x"}
    Windows <- MCWindows
    Interval = 3
    RetryCount = 1
    BackoffBase = 1
    BackoffMax = 2
    MAX_REDIRECTS = 1
    Delays = {1}
    Oversleeps = {0, 1}
    MaxRuns = 2
    ForeignEntries <- MCForeignEntries
    MaxForeign = 1
    MaxFaults = 1
    None = None
INVARIANTS
    TypeOK
    ReadAllOrRefuse
    ReportsTrue
PROPERTIES
    PoliteFetch
    CollectEnds
