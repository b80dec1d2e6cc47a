\* Two calls, a failure and a retry under one key.
CONSTANTS
    c1 = c1
    c2 = c2
    c3 = c3
    u1 = u1
    d1 = d1
    r1 = r1
    NoCall = NoCall
    Calls <- TwoCalls
    UsageKeys = {u1}
    DirectKeys = {d1}
    ResetKeys = {r1}
    PeriodOf <- OnePeriod
    Amounts = {3}
    RolloverCaps = {1}
    Opening <- MixedOpening
SPECIFICATION Spec
INVARIANTS
    SuccessfulChargeIsApplied
