\* Two calls under fairness, with every crash, abort and lost answer.
CONSTANTS
    c1 = c1
    c2 = c2
    c3 = c3
    u1 = u1
    d1 = d1
    r1 = r1
    NoCall = NoCall
    Calls <- TwoCalls
    UsageKeys = {u1}
    DirectKeys = {d1}
    ResetKeys = {r1}
    PeriodOf <- OnePeriod
    Amounts = {1, 3}
    RolloverCaps = {1}
    Opening <- MixedOpening
SPECIFICATION FairSpec
PROPERTIES
    EveryCallEnds
    ServesPostings
