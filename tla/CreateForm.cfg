SPECIFICATION FairSpec
CONSTANTS
    Null = Null
    Second = 1
    DefaultExpiry = 2
    LongExpiry = 3
    MaxExpiry = 4
    MaxAmount = 2
    MaxMessageLength = 1
    Tabs = {t1}
    Forms <- MCForms
    EmptyForm <- MCEmptyForm
    MaxNumbers = 2
    StorageMayFail = TRUE
    MaxCreated = 3
    p = p
    q = q
    r = r
    m = m
INVARIANTS
    TypeOK
    ResultIsTheLink
    ErrorOrLink
    NumbersOnce
    HintIsRight
PROPERTIES
    RefusesNoMore
    ButtonComesBack
