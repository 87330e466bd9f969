SPECIFICATION RecoverySpec
CONSTANTS
    ada = ada  ben = ben  eve = eve  i1 = i1  i2 = i2
    t1 = t1  t2 = t2  h1 = h1  h2 = h2
    Accounts = {ada}
    Founders = {ada}
    Addresses = {i1, i2}
    Secrets = {t1, t2}
    Handlers = {h1, h2}
    MaxAttempts = 1
    Null = Null
PROPERTY NothingWaiting
