\* Deliveries that post one key follow each other, under fairness.
CONSTANTS
    s1 = s1
    complete = complete
    created = created
    undated = undated
    free = free
    pack = pack
    march = march
    april = april
    h1 = h1
    h2 = h2
    NoEvent = NoEvent
    NoPeriod = NoPeriod
    Sessions = {s1}
    Hooks = {complete, created, undated}
    Products = {pack}
    ProductOf <- OneProduct
    Periods = {march}
    PeriodOf <- PeriodOfHook
    AllowancePeriods = {march}
    Handlers <- TwoHandlers
    OverlapPerKey = FALSE
SPECIFICATION FairSpec
INVARIANTS
    PostedAtMostOnce
    AcknowledgedIsFulfilled
PROPERTIES
    ResetPrecedesGrant
    PaidIsFulfilled
