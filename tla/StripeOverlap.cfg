\* Deliveries of one event, and the two hooks of one subscription, overlap.
CONSTANTS
    s1 = s1
    complete = complete
    created = created
    undated = undated
    free = free
    pack = pack
    march = march
    april = april
    h1 = h1
    h2 = h2
    NoEvent = NoEvent
    NoPeriod = NoPeriod
    Sessions = {s1}
    Hooks = {complete, created, free}
    Products = {pack}
    ProductOf <- OneProduct
    Periods = {march, april}
    PeriodOf <- PeriodOfHook
    AllowancePeriods = {march}
    Handlers <- TwoHandlers
    OverlapPerKey = TRUE
SPECIFICATION Spec
SYMMETRY HandlerAndHookSymmetry
INVARIANTS
    TypeOK
    FulfilledIsGranted
    AcknowledgedIsGranted
    AnsweredHookHasGranted
    GrantFollowsReset
PROPERTIES
    PostsByContract
