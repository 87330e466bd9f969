SPECIFICATION UpkeepSpec
CONSTANTS
    ada = ada  eve = eve  old = old  t1 = t1  h1 = h1  p1 = p1
    Accounts = {ada, eve}
    Founders = {ada}
    Admins = {}
    Passwords = {old}
    Tokens = {t1}
    Handlers = {h1}
    Pages = {p1}
    New = New
    Gone = Gone
    None = None
    Absent = Absent
    Tables = 1
    Contents = {0, 1}
    Modes = {"off", "main", "relaxed", "all"}
    MaxWritten = 1
    MaxFaults = 1
INVARIANTS UpkeepTypeOK RestoresCovered RecordHonest
PROPERTIES HistoryGoesLast DueAreErased NothingLeftBehind TypedIsKept ReadsKept
