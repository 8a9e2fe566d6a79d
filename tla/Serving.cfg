SPECIFICATION FairSpec
CONSTANTS
    Workloads <- MCWorkloads
    TextOf <- MCTextOf
    Render <- MCRender
    Defaults <- MCDefaults
    Grid <- MCGrid
    Vocabulary <- MCVocabulary
    GroupSize = 2
    Units = {3, 9}
    UnitScale = 10
    MaxRequests = 3
    MaxQueued = 1
    MaxContext = 7
    PrefillWidth = 2
    Stride = 2
    WriteDepth = 4
    Capacities = {1, 2}
    MaxToolBlock = 15
    MaxEntries = 2
    EntryBytes = 1
    Rounding = 1
INVARIANTS ShapedText CallsMeant SampledAtFrontier LongestRestored CacheBounded IdleClean
PROPERTIES OneAnswer Answered PromptsKept
CHECK_DEADLOCK FALSE
