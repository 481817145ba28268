------------------------------ MODULE Sessions ------------------------------
(***************************************************************************)
(* Logging in and being let through to the admin pages: login, logout,     *)
(* authenticate and the admin middleware of internal/web/authn.go, and the *)
(* signed sessions of internal/auth/session.go.                            *)
(*                                                                         *)
(* The server keeps no sessions.  A cookie says who logged in and until    *)
(* when, signed with a key that a restart may change; whether it still     *)
(* counts is looked up on every request.  A request reads the clock, then  *)
(* the user's row, and its handler works on what that row said.            *)
(*                                                                         *)
(* Requests that browsers mark as cross-site are refused before any of     *)
(* this and change nothing, like those that are not logged in: both are    *)
(* left out.                                                               *)
(***************************************************************************)
EXTENDS Users, Sequences

CONSTANTS
    Browsers,       \* the clients
    Rights,         \* the authorities an admin may be left with
    SessionTTL,     \* sessionTTL, in seconds
    SessionKeySet,  \* SWOSH_SESSION_KEY is set, so the key outlives a restart
    UserFaults,     \* whether looking up a user may fail
    MaxSessions,    \* bound on the logins
    MaxStarts,      \* bound on the restarts
    MaxTime         \* bound on the clock

(* What a form carries to show that it is of a session. *)
Token == [key : Nat, nonce : Nat]

ASSUME SessionsAssumption ==
    /\ Null \notin Token
    /\ Rights \subseteq SUBSET Authorities
    /\ SessionTTL \in Nat \ {0}
    /\ SessionKeySet \in BOOLEAN /\ UserFaults \in BOOLEAN
    /\ MaxSessions \in Nat /\ MaxStarts \in Nat /\ MaxTime \in Nat

VARIABLES
    cookie,     \* the session cookie of each browser
    page,       \* the last admin page shown in each, in a tab of its own
    logins,     \* the logins in flight, one a browser
    calls,      \* the admin requests in flight, one a browser
    sessions,   \* how many sessions were made; the n-th has nonce n
    starts,     \* how many times the service was restarted
    clock,      \* what s.now reads
    checked,    \* the n-th: who the n-th session was made for, and the password they gave, as it was stored
    replaced    \* the passwords that were changed since

(* "checked" and "replaced", and "began" and "start" of a session, are     *)
(* there to state properties; no step depends on them.                     *)
clientVars == <<cookie, page>>

vars == <<users, hashes, cookie, page, logins, calls, sessions, starts, clock, checked, replaced>>

-----------------------------------------------------------------------------
\* Sessions.

(* Wrong: the key is the same after every start. *)
KeptKey == 0

(* A signature is made with one key; with no key set, every start has its own. *)
key == IF SessionKeySet THEN 0 ELSE starts

PasswordTag(hash) == [key |-> key, hash |-> hash]

(* Wrong: the nonce is that of the session before. *)
SessionOfOldNonce(name, hash) ==
    [name |-> name, expires |-> WholeSeconds(clock + Second * SessionTTL),
     nonce |-> sessions, password |-> PasswordTag(hash), signed |-> key,
     began |-> clock, start |-> starts]

NewSession(name, hash) ==
    [name |-> name, expires |-> WholeSeconds(clock + Second * SessionTTL),
     nonce |-> sessions + 1, password |-> PasswordTag(hash), signed |-> key,
     began |-> clock, start |-> starts]

(* Wrong: a session is still good at the moment it expires. *)
DecodesAtExpiry(session, now) == session.signed = key /\ now <= session.expires

(* Decode: signed by us, and not expired. *)
Decodes(session, now) == session.signed = key /\ now < session.expires

(* Wrong: any session of this key has the token. *)
SharedToken(session) == [key |-> key, nonce |-> 0]

CSRFToken(session) == [key |-> key, nonce |-> session.nonce]

(* Wrong: the password is not compared. *)
SessionOfAnyPassword(session) ==
    /\ Exists(session.name)
    /\ users[session.name].enabled

(* sessionUser: the user is there, is enabled and has the same password. *)
SessionCounts(session) ==
    /\ Exists(session.name)
    /\ users[session.name].enabled
    /\ PasswordTag(users[session.name].hash) = session.password

-----------------------------------------------------------------------------
\* Logging in and out.

(* The user's row is read and the password checked, which takes its time. *)
LoginCheck(b) ==
    /\ logins[b] = Null
    /\ \E name \in Names, password \in Passwords :
        /\ LoginAccepts(name, password)
        /\ logins' = [logins EXCEPT ![b] = [name |-> name, hash |-> users[name].hash]]
    /\ UNCHANGED <<userVars, clientVars, calls, sessions, starts, clock, checked, replaced>>

LoginDone(b) ==
    /\ logins[b] # Null
    /\ sessions < MaxSessions
    /\ cookie' = [cookie EXCEPT ![b] = NewSession(logins[b].name, logins[b].hash)]
    /\ sessions' = sessions + 1
    /\ checked' = Append(checked, logins[b])
    /\ logins' = [logins EXCEPT ![b] = Null]
    /\ UNCHANGED <<userVars, page, calls, starts, clock, replaced>>

(* The cookie goes; a request that was sent with it does not. *)
Logout(b) ==
    /\ cookie' = [cookie EXCEPT ![b] = Null]
    /\ UNCHANGED <<userVars, page, logins, calls, sessions, starts, clock, checked, replaced>>

-----------------------------------------------------------------------------
\* A request for an admin page.

(* What a handler asks for beside ROLE_ADMIN; "none" for the pages shown. *)
Needs == {"none", "UPDATE", "DELETE"}

Credentials == [name : Names, password : Passwords]

(* The principal of a request that was let through. *)
Principal(name, session) == [name |-> name, session |-> session]

Allowed(user, need) == {"ROLE_ADMIN", need} \ {"none"} \subseteq user.authorities

CallDone(b) == calls' = [calls EXCEPT ![b] = Null]

CallGoesOn(b, step, principal) ==
    calls' = [calls EXCEPT ![b] =
        [step |-> step, need |-> @.need, basic |-> @.basic, session |-> @.session,
         form |-> @.form, by |-> principal]]

CallOnly == UNCHANGED <<userVars, cookie, logins, sessions, starts, clock, checked, replaced>>

(* The request arrives: the cookie is decoded, and if it is no good the    *)
(* HTTP Basic credentials are all that is left.                            *)
CallStart(b) ==
    /\ calls[b] = Null
    /\ \E need \in Needs, basic \in Credentials \cup {Null} :
        LET good == cookie[b] # Null /\ Decodes(cookie[b], clock)
        IN  /\ good \/ basic # Null
            /\ calls' = [calls EXCEPT ![b] =
                [step |-> IF good THEN "user" ELSE "basic", need |-> need, basic |-> basic,
                 session |-> IF good THEN cookie[b] ELSE Null,
                 form |-> page[b], by |-> Null]]
    /\ UNCHANGED page /\ CallOnly

(* The token of the form, for requests that change something. *)
TokenIsRight(call) ==
    call.need = "none" \/ (call.form # Null /\ call.form.token = CSRFToken(call.session))

(* GetUserByUsername for the session: who it is, and what they may do. *)
CallUser(b) ==
    /\ calls[b] # Null /\ calls[b].step = "user"
    /\ LET call == calls[b]
           session == call.session
       IN \/ /\ SessionCounts(session)
             /\ IF Allowed(users[session.name], call.need) /\ TokenIsRight(call)
                THEN CallGoesOn(b, "act", Principal(session.name, session))
                ELSE CallDone(b)
          \/ /\ ~SessionCounts(session)
             /\ IF call.basic # Null THEN CallGoesOn(b, "basic", Null) ELSE CallDone(b)
          \/ UserFaults /\ CallDone(b)
    /\ UNCHANGED page /\ CallOnly

(* auth.Login, for the Basic credentials of the request. *)
CallBasic(b) ==
    /\ calls[b] # Null /\ calls[b].step = "basic"
    /\ LET given == calls[b].basic
       IN \/ IF LoginAccepts(given.name, given.password)
                    /\ Allowed(users[given.name], calls[b].need)
             THEN CallGoesOn(b, "act", Principal(given.name, Null))
             ELSE CallDone(b)
          \/ UserFaults /\ CallDone(b)
    /\ UNCHANGED page /\ CallOnly

(* The handler: a page is shown with the token of the session, or with     *)
(* none; what else it does is AdminEdit and AdminDelete.  An edit that is  *)
(* refused shows the page as well.                                         *)
CallAct(b) ==
    /\ calls[b] # Null /\ calls[b].step = "act"
    /\ LET by == calls[b].by
           shown == [name |-> by.name,
                     token |-> IF by.session = Null THEN Null ELSE CSRFToken(by.session)]
       IN \/ calls[b].need # "DELETE" /\ page' = [page EXCEPT ![b] = shown]
          \/ calls[b].need # "none" /\ UNCHANGED page
    /\ CallDone(b)
    /\ CallOnly

-----------------------------------------------------------------------------
\* Starts, and whoever runs the service.

(* Forget the replaced passwords of a name that is given a new one. *)
StillReplaced(name, password) == replaced \ {[name |-> name, password |-> password]}

UsersOnly == UNCHANGED <<clientVars, logins, calls, sessions, starts, clock, checked>>

AddAdmin(name, password) ==
    /\ hashes < MaxHashes
    /\ CreateAdmin(name, password)
    /\ replaced' = IF Exists(name) THEN replaced ELSE StillReplaced(name, password)
    /\ UsersOnly

ReplacePassword(name, password) ==
    /\ ChangePassword(name, password)
    /\ replaced' = StillReplaced(name, password) \cup
            ({[name |-> name, password |-> users[name].hash.password]}
                \ {[name |-> name, password |-> password]})
    /\ UsersOnly

(* A user who is removed can be created anew, with an old password too. *)
Remove(name) ==
    /\ RemoveUser(name)
    /\ replaced' = {r \in replaced : r.name # name}
    /\ UsersOnly

Rule(name) ==
    /\ \E enabled \in BOOLEAN, authorities \in Rights : ChangeRights(name, enabled, authorities)
    /\ UNCHANGED replaced
    /\ UsersOnly

(* What is in flight is lost; browsers keep what they have. *)
Restart ==
    /\ starts < MaxStarts
    /\ ProvisionUsers /\ ~Exists(AdminUsername) => hashes < MaxHashes
    /\ starts' = starts + 1
    /\ Provision
    /\ logins' = [b \in Browsers |-> Null]
    /\ calls' = [b \in Browsers |-> Null]
    /\ UNCHANGED <<clientVars, sessions, clock, checked, replaced>>

TimePasses ==
    /\ clock < MaxTime
    /\ clock' = clock + 1
    /\ UNCHANGED <<userVars, clientVars, logins, calls, sessions, starts, checked, replaced>>

-----------------------------------------------------------------------------
Init ==
    /\ users \in StartUsers
    /\ hashes = 0
    /\ cookie = [b \in Browsers |-> Null]
    /\ page = [b \in Browsers |-> Null]
    /\ logins = [b \in Browsers |-> Null]
    /\ calls = [b \in Browsers |-> Null]
    /\ sessions = 0
    /\ starts = 0
    /\ clock = 0
    /\ checked = <<>>
    /\ replaced = {}

BrowserStep(b) ==
    \/ LoginCheck(b) \/ LoginDone(b) \/ Logout(b)
    \/ CallStart(b) \/ CallUser(b) \/ CallBasic(b) \/ CallAct(b)

Next ==
    \/ \E b \in Browsers : BrowserStep(b)
    \/ \E name \in Names, password \in Passwords :
        AddAdmin(name, password) \/ ReplacePassword(name, password)
    \/ \E name \in Names : Remove(name) \/ Rule(name)
    \/ Restart
    \/ TimePasses

Spec == Init /\ [][Next]_vars

-----------------------------------------------------------------------------
\* Properties.

(* A step lets b's request through to its handler. *)
LetThrough(b) ==
    /\ calls'[b] # Null /\ calls'[b].step = "act"
    /\ calls[b] # Null /\ calls[b].step # "act"

(* A session lets its user through only while they are there, are enabled  *)
(* and have the password, as it is stored, that its login was checked      *)
(* against: a change of password, or the removal of a user and a new one   *)
(* of that name, ends the sessions there are and also those of the logins  *)
(* that were under way (sessionUser, login, New).                          *)
SessionNeedsPassword == [][\A b \in Browsers :
    LetThrough(b) /\ calls'[b].by.session # Null =>
        LET name == calls'[b].by.name
        IN  /\ Exists(name) /\ users[name].enabled
            /\ checked[calls'[b].by.session.nonce] = [name |-> name, hash |-> users[name].hash]]_vars

(* A session lasts as long as it should and no longer: sessionTTL from the *)
(* login, less what Expires loses of a second, over restarts if the key is *)
(* set and else to the next one (New, Decode, serve).                      *)
SessionLastsItsTime == \A b \in Browsers : cookie[b] # Null =>
    LET session == cookie[b]
        kept == SessionKeySet \/ session.start = starts
    IN  /\ Decodes(session, clock) => kept /\ clock < session.began + Second * SessionTTL
        /\ kept /\ clock <= session.began + Second * (SessionTTL - 1) => Decodes(session, clock)

(* What a form asks for is done in the name it was shown to, though the    *)
(* browser has logged in as somebody else since, in another tab (csrfToken,*)
(* admin).                                                                 *)
ActsAsShown == [][\A b \in Browsers :
    LetThrough(b) /\ calls'[b].need # "none" /\ calls'[b].by.session # Null =>
        calls[b].form # Null /\ calls[b].form.name = calls'[b].by.name]_vars

(* A password that was replaced gets nobody in, by form or by HTTP Basic,  *)
(* until it is set again: no start brings back SWOSH_ADMIN_PWD (Provision, *)
(* CreateUser).                                                            *)
ReplacedPasswordIsDead == [][\A b \in Browsers :
    /\ logins'[b] # Null /\ logins'[b] # logins[b] =>
        [name |-> logins'[b].name, password |-> logins'[b].hash.password] \notin replaced
    /\ LetThrough(b) /\ calls[b].step = "basic" => calls[b].basic \notin replaced]_vars

Session ==
    [name : Names, expires : Int, nonce : 1..sessions,
     password : [key : Nat, hash : Hash], signed : Nat, began : Nat, start : Nat]

Page == [name : Names, token : Token \cup {Null}]

Principals == [name : Names, session : Session \cup {Null}]

Call ==
    [step : {"user", "basic", "act"}, need : Needs, basic : Credentials \cup {Null},
     session : Session \cup {Null}, form : Page \cup {Null}, by : Principals \cup {Null}]

(* Every variable has the shape its steps give it: a request that is let   *)
(* through is by somebody, and one on its way by a session has one.        *)
TypeOK ==
    /\ UsersTypeOK
    /\ cookie \in [Browsers -> Session \cup {Null}]
    /\ page \in [Browsers -> Page \cup {Null}]
    /\ logins \in [Browsers -> [name : Names, hash : Hash] \cup {Null}]
    /\ calls \in [Browsers -> Call \cup {Null}]
    /\ \A b \in Browsers : calls[b] # Null =>
        /\ calls[b].step = "user" => calls[b].session \in Session
        /\ calls[b].step = "basic" => calls[b].basic \in Credentials
        /\ calls[b].step = "act" => calls[b].by \in Principals
    /\ sessions \in 0..MaxSessions
    /\ starts \in 0..MaxStarts
    /\ clock \in 0..MaxTime
=============================================================================
