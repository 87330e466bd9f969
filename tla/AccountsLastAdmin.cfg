SPECIFICATION Spec
CONSTANTS
    ada = ada  ben = ben  eve = eve  old = old  new = new
    t1 = t1  t2 = t2  t3 = t3  h1 = h1  h2 = h2
    Accounts = {ada, ben}
    Founders = {ada, ben}
    Admins = {ada, ben}
    Passwords = {old, new}
    Tokens = {t1, t2}
    Handlers = {h1}
    None = None
INVARIANT AnAdminStays
