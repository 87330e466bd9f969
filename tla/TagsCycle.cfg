SPECIFICATION TagsSpec
CONSTANTS
    k1 = k1  k2 = k2  k3 = k3  news = news  arts = arts  w1 = w1  w2 = w2
    Tags = {k1, k2}
    Names = {news, arts}
    Filers = {w1, w2}
    Paths <- TwoDeep
    Root = Root  New = New  Gone = Gone
INVARIANT TagsAreATree
