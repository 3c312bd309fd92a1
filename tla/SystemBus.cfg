CONSTANTS
    WordBits = 1
    DataBytes = 1
    NrHosts = 2
    Regions <- MCRegions
    Requests <- MCRequests
    Fetches <- MCFetches
SPECIFICATION FairSpec
PROPERTIES Atomic HaltEnds WaitersServed
CHECK_DEADLOCK FALSE
