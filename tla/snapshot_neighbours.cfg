SPECIFICATION Spec
CONSTANTS
    a = a
    b = b
    c = c
    stripe = stripe
    paypal = paypal
    Seed = Seed
    Runs = {a}
    Request <- MCRequest
    LastDay = 8
    Dims = {stripe, paypal}
    FirstEvents <- MCEvents
    MaxIngest = 0
PROPERTY NeighboursKept
