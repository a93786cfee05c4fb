SPECIFICATION Spec
CONSTANTS
    Sections = {facts, brand}
    Tabs = {left, right}
    MaxRevision = 7
    left = left
    right = right
    competitors = competitors
    market = market
    audience = audience
    guess = guess
    Weight <- MCWeight
    ContextBudget <- MCContextBudget
    Research <- MCResearch
    ResearchAgents <- MCResearchAgents
    Files <- MCFiles
    Sitemaps <- MCSitemaps
    Established = {0, 2, 4}
    MaxNewRuns = 3
    MaxVersions = 3
CONSTRAINT Bounded
INVARIANTS
    RecordsRestOnContext
    LineageAgrees
    ModificationsAreKept
    
PROPERTY FounderActsOnWhatSheSees
CHECK_DEADLOCK FALSE
