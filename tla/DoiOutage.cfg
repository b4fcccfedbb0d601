SPECIFICATION MCSpec
CONSTANTS
    Calls <- MCCalls
    Plans <- MCPlans
    Retries = 2
    K = 60
    Ranks = 4
    Scale = 190612800
    Pages <- MCPages
    TavilyCatches <- MCTavily
    BraveCatches <- MCBrave
    Costs = {0, 1, 2}
    Queries = 3
    Parallel = 2
    Budget = 2
    FastSources = 3
    DeepSources = 4
    Enabled = TRUE
    Keyrings <- MCKeyrings
    CrossrefLists <- MCCrossref
    OpenAlexLists <- MCOpenAlex
    Agencies = {"", "crossref", "datacite", "medra"}
    Quotas <- MCQuotas
    Unknown = Unknown
    Chunks <- MCChunks
    VectorStorage = {TRUE, FALSE}
INVARIANT NotFoundIsTheRegistrysWord
CHECK_DEADLOCK FALSE
