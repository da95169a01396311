SPECIFICATION FairSpec
CONSTANTS
    a = a
    b = b
    c = c
    stripe = stripe
    paypal = paypal
    Seed = Seed
    Runs = {a, b, c}
    Request <- MCRequest
    LastDay = 7
    Dims = {stripe, paypal}
    FirstEvents <- MCEvents
    MaxIngest = 1
INVARIANTS TypeOK NeverOvercounts LastRebuildWins
PROPERTY RebuildEnds
