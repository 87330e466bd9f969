SPECIFICATION PartsSpec
CONSTANTS
    f = f  g = g  h = h  a = a  b = b  c = c  d = d  e = e  x = x  y = y  z = z
    Feeds = {f, g, h}  Articles = {a, b, c, d, e}
    LinkOf <- MirroredLinks
    Priorities <- SomeAtZero
    Offers <- EveryOffer
    EditionSize = 2
    MaxSize = 9
    Pages <- Repeating
    d1 = d1
    Relays = {t1, t2}
    Domains = {d1}
    Requests = {h1, h2}
    None = None
    g1 = g1  g2 = g2  g3 = g3  s1 = s1  c1 = c1  p1 = p1
    Guids = {g1, g2, g3}
    Origin <- Mirrored
    Link <- SharedLink
    Saves = {s1}
    Compositions = {c1}
    SavedPages = {p1}
    PageSize = 2
    MaxEditions = 2
    Nowhere = Nowhere
    ada = ada  ben = ben  eve = eve  i1 = i1  i2 = i2
    t1 = t1  t2 = t2  h1 = h1  h2 = h2
    Accounts = {ada, eve}
    Founders = {ada}
    Addresses = {i1, i2}
    Secrets = {t1, t2}
    Handlers = {h1, h2}
    MaxAttempts = 1
    Null = Null
    k1 = k1  k2 = k2  k3 = k3  news = news  arts = arts  w1 = w1  w2 = w2
    Tags = {k1, k2, k3}
    Names = {news, arts}
    Filers = {w1}
    Paths <- TwoDeep
    Root = Root  New = New  Gone = Gone
INVARIANTS PartsTypeOK
INVARIANTS ChoosesASelection WorkIsBounded
INVARIANTS NeverPastTwice LandmarksSpread
INVARIANTS RoutesFromRefusals SettledIsUp ProofsGoHome TagsAreATree
PROPERTIES RefusedEverywhere CardsStand ProvedStaysProved SpentStaysSpent
SYMMETRY Alike
CHECK_DEADLOCK FALSE
