SPECIFICATION Spec
CONSTANTS
    Pages = {1, 2, 3, 4, 5, 6, 7, 8}
    Yields <- LowestFirst
    PageSize = 2
    MaxBatchTokens = 9
    MaxSeqsRunning = 3
    MaxWaitingSeqs = 2
    MaxPrefill = 8
    TTL = 1
    PromptLens = {2, 8}
    MaxNews = {0, 3}
    MaxRequests = 2
INVARIANT PagesExclusive
