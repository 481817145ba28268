\* A create, a visit and an edit at a time, with every failure.
CONSTANTS
    a = a
    b = b
    c = c
    p = p
    q = q
    m = m
    Null = Null
    NoRow = NoRow
    Missing = Missing
    Malformed = Malformed
    Second = 2
    Ids = {a, b, c}
    Contents <- MCContents
    StartTables <- OneLink
    StartInserted = 1
    MaxLinks = 2
    MaxTime = 1
    Faults = {"error", "lost", "user", "crash"}
    DefaultExpiry = 1
    LongExpiry = 2
    MaxExpiry = 3
    MaxAmount = 1
    MaxMessageLength = 1
    Creators = {c1}
    Requests <- MCRequests
    RandomIds = {a, b}
    CreateAttempts = 2
    MaxFailed = 1
    Visitors = {v1}
    Roles = {"admin", "basic"}
    Editors = {e1}
    Forms <- AllForms
    AdminIds = {a, b}
    ValidContents <- MCContents
    Deleters = {}
    MaxDeleteMany = 2

SPECIFICATION Spec
INVARIANTS TypeOK CountedWasCreated ServedWhileLive
PROPERTIES AccessByPublicOnly
