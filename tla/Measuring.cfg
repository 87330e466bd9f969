SPECIFICATION FairMeasuringSpec
CONSTANTS
    j1 = j1  j2 = j2  a = a  b = b  c = c  w1 = w1
    Keys = {j1, j2}
    Workers = {w1}
    Batch = 1
    MaxAttempts = 2
    None = None
    Articles = {a, b, c}
    ImageOf <- Shared
    Answering = {j1}
INVARIANTS MeasuringTypeOK
PROPERTIES ClaimsSpec SizeIsKept QueueDrains EveryPictureIsMeasured
