\* Two admins rename and edit, a third deletes, and links expire.
CONSTANTS
    a = a
    b = b
    c = c
    p = p
    q = q
    m = m
    Null = Null
    NoRow = NoRow
    Missing = Missing
    Malformed = Malformed
    Second = 2
    Ids = {a, b}
    Contents <- MCContents
    StartTables <- TwoLinks
    StartInserted = 2
    MaxLinks = 2
    MaxTime = 2
    Faults = {"error"}
    DefaultExpiry = 1
    LongExpiry = 2
    MaxExpiry = 3
    MaxAmount = 1
    MaxMessageLength = 1
    Creators = {}
    Requests = {}
    RandomIds = {}
    CreateAttempts = 2
    MaxFailed = 1
    Visitors = {}
    Roles = {}
    Editors = {e1, e2}
    Forms <- Renames
    AdminIds = {a, b}
    ValidContents <- MCContents
    Deleters = {d1}
    MaxDeleteMany = 2

SPECIFICATION Spec
INVARIANTS OneRowPerLink CountedHaveGone
PROPERTIES NoResurrection LossJustified ExpiryKept KeepsLinkLife
SYMMETRY EditorSymmetry
