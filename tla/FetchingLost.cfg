SPECIFICATION Spec
CONSTANTS
    f1 = f1  w1 = w1  u1 = u1
    Keys = {f1}
    Workers = {w1}
    Batch = 2
    MaxAttempts = 1
    None = None
    UrlOf <- OneUrl
    Listing = 1
    MaxVersion = 1
    MaxLosses = 1
INVARIANT OneCycleRebuilds
