SPECIFICATION FairSpec
CONSTANTS
    Pages = {1, 2, 3, 4, 5, 6, 7, 8, 9}
    Yields <- LowestFirst
    PageSize = 2
    MaxBatchTokens = 2
    MaxSeqsRunning = 2
    MaxWaitingSeqs = 2
    MaxPrefill = 2
    TTL = 0
    PromptLens = {1, 3}
    MaxNews = {2}
    MaxRequests = 3
PROPERTIES
    RequestsComplete
    LeakedPagesReclaimed
