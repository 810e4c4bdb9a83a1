CONSTANTS
    Requests <- MCRequests
    Order <- MCOrder
    Outputs <- MCOutputs
    Forms = {"none", "warned", "bracketed", "csv"}
    Excluded <- MCExcluded
    Sizes = {2, 3, 5}
    TopK = 3
    CoarseK = 3
    MinScore = 2
    MaxChars = 12
    FilesAllMaxHits = 2
    MaxSnippet = 8
    SentenceWindow = 2
    GetDocs = 2
    GetBytes = 5
    None = none
SPECIFICATION Spec
INVARIANT MaxCharsIsTotal
CHECK_DEADLOCK FALSE
