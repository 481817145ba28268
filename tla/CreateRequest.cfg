\* The limits of create.go, with hours for seconds.
CONSTANTS
    Null = Null
    Second = 1
    DefaultExpiry = 48
    LongExpiry = 4380
    MaxExpiry = 876000
    MaxAmount = 150000
    MaxMessageLength = 50
    Numbers = {number}
    Texts = {text}

SPECIFICATION Spec
INVARIANTS StoredLinkIsSound RefusedWithReason
\* A request is validated once.
CHECK_DEADLOCK FALSE
