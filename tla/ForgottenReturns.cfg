SPECIFICATION Spec
CONSTANTS
    Null = Null
    Second = 1
    DefaultExpiry = 2
    LongExpiry = 3
    MaxExpiry = 4
    MaxAmount = 2
    MaxMessageLength = 1
    Tabs = {t1, t2}
    Forms <- TwoForms
    EmptyForm <- MCEmptyForm
    MaxNumbers = 2
    StorageMayFail = FALSE
    MaxCreated = 2
    p = p
    q = q
    r = r
    m = m
PROPERTIES
    ForgottenIsGone
