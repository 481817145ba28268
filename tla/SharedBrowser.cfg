\* Two admins log in and out in one browser, with a key that outlives restarts.
CONSTANTS
    Null = Null
    Second = 2
    Names = {admin, alice}
    Passwords = {p1}
    NoUser = NoUser
    StartUsers <- Everybody
    ProvisionUsers = TRUE
    AdminUsername = admin
    AdminPassword = p1
    MaxHashes = 0
    Browsers = {b1}
    Rights = {}
    SessionTTL = 1
    SessionKeySet = TRUE
    UserFaults = FALSE
    MaxSessions = 2
    MaxStarts = 1
    MaxTime = 3

SPECIFICATION Spec
INVARIANTS SessionLastsItsTime
PROPERTIES ActsAsShown
