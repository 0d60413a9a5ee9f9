SPECIFICATION Spec
CONSTANTS
    Null = Null
    NoRow = NoRow
    Empty = Empty
    Other = Other
    Lower = Lower
    Upper = Upper
    Longer = Longer
    Phrase = Phrase
    Texts <- MCTexts
    Substring <- MCSubstring
    Folded <- MCFolded
    Tokens <- MCTokens
    FullText <- MCFullText
    Samples <- MCSamples
    Fields <- MCFields
    Tenants = {t1, t2}
    Owners = {t1, t2}
    Ids = {i1, i2}
    Callers = {c1, c2}
    Deployments <- MCDeployments
    Extras <- MCExtras
    FindCriteria <- MCFindCriteria
    Filters <- MCFilters
SYMMETRY Symmetry
INVARIANTS
    TypeOK
    UpdateExplained
    DeleteExplained
    ReadsStayInTenant
    PageExplained
    CriteriaAgree
    StaleExplained
PROPERTIES
    WritesStayInTenant
CHECK_DEADLOCK FALSE
