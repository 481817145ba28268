\* A create and an edit at a time, with failures, restarts and fairness.
CONSTANTS
    a = a
    b = b
    c = c
    p = p
    q = q
    m = m
    Null = Null
    NoRow = NoRow
    Missing = Missing
    Malformed = Malformed
    Second = 2
    Ids = {a, b}
    Contents <- MCContents
    StartTables <- OneLink
    StartInserted = 1
    MaxLinks = 2
    MaxTime = 2
    Faults = {"error", "lost", "crash"}
    DefaultExpiry = 1
    LongExpiry = 2
    MaxExpiry = 3
    MaxAmount = 1
    MaxMessageLength = 1
    Creators = {c1}
    Requests <- MCRequests
    RandomIds = {a, b}
    CreateAttempts = 2
    MaxFailed = 1
    Visitors = {}
    Roles = {}
    Editors = {e1}
    Forms <- Renames
    AdminIds = {a, b}
    ValidContents <- MCContents
    Deleters = {}
    MaxDeleteMany = 2

SPECIFICATION FairSpec
PROPERTIES LapsedLinksGo RequestsEnd
