SPECIFICATION Spec
CONSTANTS
    NumBlocks = 6
    BlockSize = 2
    LeafSize = 2
    MaxRangeEntries = 2
    MaxEntryLength = 2
    MaxOffset = 4
    HeaderSize = 5
    BufferSize = 3
    Runs <- MCRuns
    Requests <- MCRequests
    MaxWrites = 3
    MaxFiles = 5
    MaxDuring = 2
INVARIANTS
    LogsMatch
    IndexMatches
    TablesMatch
    ReadsRight
