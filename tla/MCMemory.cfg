SPECIFICATION Spec
CONSTANTS
    Sources = {web, notes}
    Contents = {report}
    web = web
    notes = notes
    research = research
    coding = coding
    text = text
    Texts = {text}
    Inputs <- MCInputs
    PolicyTypes <- MCPolicyTypes
    Executions = {research, coding}
    Confidences = {1, 2}
    Lifetime = 1
    MaxTime = 1
    MaxProposals = 3
    MaxPolicies = 1
    MaxUploads = 2
CONSTRAINT Bounded
SYMMETRY Alike
INVARIANTS
    
    AuthorityIsTheFounders
    HistoryIsComplete
    OneMemoryPerClaim
CHECK_DEADLOCK FALSE
