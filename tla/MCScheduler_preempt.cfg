SPECIFICATION FairSpec
CONSTANTS
    Pages = {1, 2, 3, 4, 5, 6, 7}
    Yields <- LowestFirst
    PageSize = 2
    MaxBatchTokens = 9
    MaxSeqsRunning = 3
    MaxWaitingSeqs = 2
    MaxPrefill = 8
    TTL = 0
    PromptLens = {2, 8}
    MaxNews = {3}
    MaxRequests = 2
PROPERTY PreemptedRetried
