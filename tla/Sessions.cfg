\* An admin logs in while the user is changed and the service restarted.
CONSTANTS
    Null = Null
    Second = 2
    Names = {admin}
    Passwords = {p1, p2}
    NoUser = NoUser
    StartUsers <- AtMostAdmin
    ProvisionUsers = TRUE
    AdminUsername = admin
    AdminPassword = p1
    MaxHashes = 2
    Browsers = {b1}
    Rights <- FullOrNone
    SessionTTL = 1
    SessionKeySet = FALSE
    UserFaults = TRUE
    MaxSessions = 2
    MaxStarts = 1
    MaxTime = 0

SPECIFICATION Spec
INVARIANTS TypeOK SessionLastsItsTime
PROPERTIES SessionNeedsPassword ReplacedPasswordIsDead
