SPECIFICATION Spec
CONSTANTS
    p1 = p1  f = f  g = g  a = a  b = b  reader = reader
    Pages = {p1}  Feeds = {f, g}  Articles = {a, b}  Readers = {reader}
    FeedOf <- OneArticleEach
    OwnerOf <- Owner
    LinkOf <- OwnLink
    Filters <- AllFilters
    EditionSize = 1
    Handlers = {h1}
    Scheduler = scheduler
    None = None
    MaxEditions = 2
    MaxNow = 1
    MaxRestarts = 0
INVARIANT FilterHonoured
