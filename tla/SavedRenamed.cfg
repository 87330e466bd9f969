SPECIFICATION SavedSpec
CONSTANTS
    g1 = g1  g2 = g2  g3 = g3  s1 = s1  c1 = c1  p1 = p1
    Guids = {g1, g2}
    Origin <- OneFeed
    Link <- SharedLink
    Saves = {s1}
    Compositions = {c1}
    SavedPages = {p1}
    PageSize = 2
    MaxEditions = 2
    Nowhere = Nowhere
INVARIANT CopiesGoBack
