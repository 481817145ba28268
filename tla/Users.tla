------------------------------- MODULE Users -------------------------------
(***************************************************************************)
(* The users table and what internal/auth/auth.go does with it: admins are *)
(* created, when the service starts and by "swosh admin add", and their    *)
(* passwords are checked.  No code changes a user; whoever runs the        *)
(* service does, in the database.                                          *)
(***************************************************************************)
EXTENDS Columns

CONSTANTS
    Names,          \* usernames
    Passwords,      \* what can be typed as a password
    NoUser,         \* no row has the name
    StartUsers,     \* the tables the service may find at first
    ProvisionUsers, \* SWOSH_PROVISION_USERS
    AdminUsername,  \* SWOSH_ADMIN_USERNAME
    AdminPassword,  \* SWOSH_ADMIN_PWD
    MaxHashes       \* bound on the password hashes ever stored

VARIABLES
    users,      \* the table
    hashes      \* how many password hashes were ever stored

userVars == <<users, hashes>>

(* ROLE_USER is looked at nowhere. *)
Authorities == {"ROLE_ADMIN", "UPDATE", "DELETE"}

(* bcrypt salts every hash, so no two are the same. *)
Hash == [password : Passwords, salt : Nat]

User == [hash : Hash, enabled : BOOLEAN, authorities : SUBSET Authorities]

ASSUME UsersAssumption ==
    /\ NoUser \notin User
    /\ StartUsers \subseteq [Names -> User \cup {NoUser}]
    /\ ProvisionUsers \in BOOLEAN
    /\ AdminUsername \in Names
    /\ AdminPassword \in Passwords
    /\ MaxHashes \in Nat

UsersTypeOK == users \in [Names -> User \cup {NoUser}] /\ hashes \in Nat

Exists(name) == users[name] # NoUser

-----------------------------------------------------------------------------
NewHash(password) == [password |-> password, salt |-> hashes + 1]

NewAdmin(password) ==
    [hash |-> NewHash(password), enabled |-> TRUE, authorities |-> Authorities]

(* Wrong: ON CONFLICT DO UPDATE. *)
UpsertUser(name, user) ==
    /\ users' = [users EXCEPT ![name] = user]
    /\ hashes' = hashes + 1

(* INSERT ... ON CONFLICT DO NOTHING.  A hash that is not stored is gone. *)
CreateUser(name, user) ==
    IF Exists(name)
    THEN UNCHANGED userVars
    ELSE /\ users' = [users EXCEPT ![name] = user]
         /\ hashes' = hashes + 1

(* A taken name is reported, and the user with it left alone. *)
CreateAdmin(name, password) == CreateUser(name, NewAdmin(password))

(* serve creates the configured admin before it listens. *)
Provision ==
    IF ProvisionUsers THEN CreateAdmin(AdminUsername, AdminPassword) ELSE UNCHANGED userVars

CheckPassword(stored, password) == stored.password = password

(* Login finds the user, with this password, and enabled. *)
LoginAccepts(name, password) ==
    /\ Exists(name)
    /\ CheckPassword(users[name].hash, password)
    /\ users[name].enabled

-----------------------------------------------------------------------------
\* What whoever runs the service does to a user, in the database.

ChangePassword(name, password) ==
    /\ Exists(name)
    /\ hashes < MaxHashes
    /\ users' = [users EXCEPT ![name].hash = NewHash(password)]
    /\ hashes' = hashes + 1

ChangeRights(name, enabled, authorities) ==
    /\ Exists(name)
    /\ users' = [users EXCEPT ![name] =
        [hash |-> @.hash, enabled |-> enabled, authorities |-> authorities]]
    /\ UNCHANGED hashes

RemoveUser(name) ==
    /\ Exists(name)
    /\ users' = [users EXCEPT ![name] = NoUser]
    /\ UNCHANGED hashes
=============================================================================
