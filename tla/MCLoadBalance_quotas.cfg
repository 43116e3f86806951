CONSTANTS
    Points <- TwoPoints
    Quotas <- SmallQuotas
    UINT_SPAN = 8
    MaxCount = 2
    Duplicates = FALSE
SPECIFICATION Spec
INVARIANTS
    TotalIsSum
PROPERTIES
    AnsweringPointsRecover
    OnlyTheFirstOverspends
