--------------------------- MODULE SessionsProofs ---------------------------
(***************************************************************************)
(* For any number of browsers, users and restarts: who gets through to the *)
(* admin pages has the password of now, forms are acted on in the name     *)
(* they were shown to, and sessions last as long as they should.           *)
(***************************************************************************)
EXTENDS Sessions, TLAPS

Login == [name : Names, hash : Hash]

(* A session is what NewSession made of the login it was made for. *)
Made(session) ==
    /\ session.expires = WholeSeconds(session.began + Second * SessionTTL)
    /\ session.began <= clock
    /\ session.start <= starts
    /\ session.signed = (IF SessionKeySet THEN 0 ELSE session.start)
    /\ session.password.key = session.signed
    /\ checked[session.nonce] = [name |-> session.name, hash |-> session.password.hash]

AllMade ==
    /\ checked \in Seq(Login) /\ Len(checked) = sessions
    /\ \A b \in Browsers :
        /\ cookie[b] # Null => Made(cookie[b])
        /\ calls[b] # Null /\ calls[b].step = "user" => Made(calls[b].session)

(* A form with a token was shown to the one whose session has the nonce. *)
NamedPage(owner, shown) ==
    shown.token # Null =>
        shown.token.nonce \in 1..sessions /\ owner[shown.token.nonce] = shown.name

NamedSession(owner, session) == owner[session.nonce] = session.name

NamedCall(owner, call) ==
    /\ call.step = "user" => NamedSession(owner, call.session)
    /\ call.form # Null => NamedPage(owner, call.form)
    /\ call.step = "act" /\ call.by.session # Null =>
        NamedSession(owner, call.by.session) /\ call.by.name = call.by.session.name

Named(owner) == \A b \in Browsers :
    /\ cookie[b] # Null => NamedSession(owner, cookie[b])
    /\ page[b] # Null => NamedPage(owner, page[b])
    /\ calls[b] # Null => NamedCall(owner, calls[b])

(* Every nonce belongs to one user. *)
OneOwner == \E owner \in [Nat -> Names] : Named(owner)

(* A replaced password is not the one the user has. *)
ReplacedIsGone ==
    /\ replaced \in SUBSET Credentials
    /\ \A r \in replaced : Exists(r.name) /\ users[r.name].hash.password # r.password

-----------------------------------------------------------------------------
\* Types.

LEMMA NewUserType ==
    ASSUME UsersTypeOK, NEW name \in Names, NEW password \in Passwords,
           CreateAdmin(name, password)
    PROVE  UsersTypeOK'
<1>1. NewHash(password) \in Hash
    BY DEF NewHash, Hash, UsersTypeOK
<1>2. NewAdmin(password) \in User
    BY <1>1 DEF NewAdmin, User
<1>3. CASE Exists(name)
    BY <1>3 DEF CreateAdmin, CreateUser, UsersTypeOK, userVars
<1>4. CASE ~Exists(name)
    <2>1. /\ users' = [users EXCEPT ![name] = NewAdmin(password)]
          /\ hashes' = hashes + 1
        BY <1>4 DEF CreateAdmin, CreateUser
    <2> QED BY <1>2, <2>1 DEF UsersTypeOK
<1> QED BY <1>3, <1>4

LEMMA ProvisionType ==
    ASSUME UsersTypeOK, Provision PROVE UsersTypeOK'
<1>1. CASE ProvisionUsers
    BY <1>1, UsersAssumption, NewUserType DEF Provision
<1>2. CASE ~ProvisionUsers
    BY <1>2 DEF Provision, UsersTypeOK, userVars
<1> QED BY <1>1, <1>2

LEMMA NewSessionType ==
    ASSUME TypeOK, NEW name \in Names, NEW hash \in Hash, sessions' = sessions + 1
    PROVE  NewSession(name, hash) \in Session'
<1>1. key \in Nat
    BY SessionsAssumption DEF TypeOK, key
<1>2. WholeSeconds(clock + Second * SessionTTL) \in Int
    BY SessionsAssumption, ColumnsAssumption DEF TypeOK, WholeSeconds
<1>3. sessions + 1 \in 1..sessions' /\ clock \in Nat /\ starts \in Nat
    BY DEF TypeOK
<1> QED BY <1>1, <1>2, <1>3 DEF NewSession, Session, PasswordTag

LEMMA OlderSession ==
    ASSUME TypeOK, sessions' \in {sessions, sessions + 1}
    PROVE  /\ Session \subseteq Session'
           /\ Principals \subseteq Principals'
           /\ Call \subseteq Call'
<1>1. 1..sessions \subseteq 1..sessions'
    BY DEF TypeOK
<1>2. Session \subseteq Session'
    BY <1>1 DEF Session
<1>3. Principals \subseteq Principals'
    BY <1>2 DEF Principals
<1> QED BY <1>2, <1>3 DEF Call

(* What all but a few steps leave alone, and what the others make of it.    *)
LEMMA InitType == Init => TypeOK
BY SessionsAssumption, UsersAssumption DEF Init, TypeOK, UsersTypeOK

LEMMA CallMoves ==
    ASSUME TypeOK, NEW b \in Browsers, NEW call \in Call \cup {Null},
           calls' = [calls EXCEPT ![b] = call],
           call # Null =>
            /\ call.step = "user" => call.session \in Session
            /\ call.step = "basic" => call.basic \in Credentials
            /\ call.step = "act" => call.by \in Principals,
           page' \in [Browsers -> Page \cup {Null}],
           UNCHANGED <<users, hashes, cookie, logins, sessions, starts, clock>>
    PROVE  TypeOK'
<1>1. calls' \in [Browsers -> Call' \cup {Null}]
    BY OlderSession DEF TypeOK
<1>2. Session' = Session /\ Principals' = Principals
    BY DEF Session, Principals
<1>3. ASSUME NEW c \in Browsers, calls'[c] # Null
      PROVE  /\ calls'[c].step = "user" => calls'[c].session \in Session'
             /\ calls'[c].step = "basic" => calls'[c].basic \in Credentials
             /\ calls'[c].step = "act" => calls'[c].by \in Principals'
    <2>1. CASE c = b
        BY <1>2, <1>3, <2>1 DEF TypeOK
    <2>2. CASE c # b
        <3>1. calls'[c] = calls[c]
            BY <2>2 DEF TypeOK
        <3> QED BY <1>2, <1>3, <3>1 DEF TypeOK
    <2> QED BY <2>1, <2>2
<1>4. cookie' \in [Browsers -> Session' \cup {Null}]
    BY <1>2 DEF TypeOK
<1>5. UsersTypeOK'
    BY DEF TypeOK, UsersTypeOK
<1> QED BY <1>1, <1>3, <1>4, <1>5 DEF TypeOK

LEMMA CallStepType ==
    ASSUME TypeOK, NEW b \in Browsers,
           CallStart(b) \/ CallUser(b) \/ CallBasic(b) \/ CallAct(b)
    PROVE  TypeOK'
<1>0. UNCHANGED <<users, hashes, cookie, logins, sessions, starts, clock>>
    BY DEF CallStart, CallUser, CallBasic, CallAct, CallOnly, userVars
<1>1. CASE CallStart(b)
    <2>1. PICK need \in Needs, basic \in Credentials \cup {Null} :
            LET good == cookie[b] # Null /\ Decodes(cookie[b], clock)
            IN  /\ good \/ basic # Null
                /\ calls' = [calls EXCEPT ![b] =
                    [step |-> IF good THEN "user" ELSE "basic", need |-> need, basic |-> basic,
                     session |-> IF good THEN cookie[b] ELSE Null,
                     form |-> page[b], by |-> Null]]
        BY <1>1 DEF CallStart
    <2> DEFINE good == cookie[b] # Null /\ Decodes(cookie[b], clock)
               step == IF good THEN "user" ELSE "basic"
               session == IF good THEN cookie[b] ELSE Null
               call == [step |-> step, need |-> need, basic |-> basic, session |-> session,
                        form |-> page[b], by |-> Null]
    <2>2. /\ step \in {"user", "basic"}
          /\ step = "user" => session \in Session
          /\ step = "basic" => basic \in Credentials
          /\ session \in Session \cup {Null}
        BY <2>1 DEF TypeOK
    <2>3. page[b] \in Page \cup {Null} /\ page' \in [Browsers -> Page \cup {Null}]
        BY <1>1 DEF TypeOK, CallStart
    <2>4. calls' = [calls EXCEPT ![b] = call]
        BY <2>1
    <2> HIDE DEF good, step, session
    <2>5. call \in Call
        BY <2>2, <2>3 DEF Call
    <2>6. call.step = step /\ call.session = session /\ call.basic = basic
        OBVIOUS
    <2> HIDE DEF call
    <2> QED BY <1>0, <2>2, <2>3, <2>4, <2>5, <2>6, CallMoves
<1>2. ASSUME NEW step \in {"basic", "act"}, NEW by \in Principals \cup {Null},
             calls[b] # Null, CallGoesOn(b, step, by),
             step = "basic" => calls[b].basic \in Credentials,
             step = "act" => by \in Principals,
             UNCHANGED page
      PROVE  TypeOK'
    <2> DEFINE old == calls[b]
               call == [step |-> step, need |-> old.need, basic |-> old.basic,
                        session |-> old.session, form |-> old.form, by |-> by]
    <2>1. old \in Call
        BY <1>2 DEF TypeOK
    <2>2. calls' = [calls EXCEPT ![b] = call]
        BY <1>2 DEF CallGoesOn, TypeOK
    <2>3. call \in Call
        BY <1>2, <2>1 DEF Call
    <2>4. call.step = step /\ call.basic = old.basic /\ call.by = by
        OBVIOUS
    <2>5. page' \in [Browsers -> Page \cup {Null}]
        BY <1>2 DEF TypeOK
    <2> HIDE DEF call
    <2> QED BY <1>0, <1>2, <2>2, <2>3, <2>4, <2>5, CallMoves
<1>3. ASSUME CallDone(b), page' \in [Browsers -> Page \cup {Null}] PROVE TypeOK'
    BY <1>0, <1>3, CallMoves DEF CallDone
<1>4. CASE CallUser(b)
    <2>1. calls[b] # Null /\ calls[b].step = "user" /\ calls[b].session \in Session
        BY <1>4 DEF CallUser, TypeOK
    <2>2. UNCHANGED page /\ page' \in [Browsers -> Page \cup {Null}]
        BY <1>4 DEF CallUser, TypeOK
    <2>3. CASE CallDone(b)
        BY <1>3, <2>2, <2>3
    <2>4. CASE CallGoesOn(b, "act", Principal(calls[b].session.name, calls[b].session))
        <3>1. Principal(calls[b].session.name, calls[b].session) \in Principals
            BY <2>1 DEF Principal, Principals, Session
        <3> QED BY <1>2, <2>1, <2>2, <2>4, <3>1
    <2>5. CASE calls[b].basic # Null /\ CallGoesOn(b, "basic", Null)
        <3>1. calls[b].basic \in Credentials
            BY <2>1, <2>5 DEF TypeOK, Call
        <3> QED BY <1>2, <2>1, <2>2, <2>5, <3>1
    <2> QED BY <1>4, <2>3, <2>4, <2>5 DEF CallUser
<1>5. CASE CallBasic(b)
    <2>1. calls[b] # Null /\ calls[b].step = "basic" /\ calls[b].basic \in Credentials
        BY <1>5 DEF CallBasic, TypeOK
    <2>2. UNCHANGED page /\ page' \in [Browsers -> Page \cup {Null}]
        BY <1>5 DEF CallBasic, TypeOK
    <2>3. CASE CallDone(b)
        BY <1>3, <2>2, <2>3
    <2>4. CASE CallGoesOn(b, "act", Principal(calls[b].basic.name, Null))
        <3>1. Principal(calls[b].basic.name, Null) \in Principals
            BY <2>1 DEF Principal, Principals, Credentials
        <3> QED BY <1>2, <2>1, <2>2, <2>4, <3>1
    <2> QED BY <1>5, <2>3, <2>4 DEF CallBasic
<1>6. CASE CallAct(b)
    <2>1. calls[b] # Null /\ calls[b].by \in Principals /\ CallDone(b)
        BY <1>6 DEF CallAct, TypeOK
    <2> DEFINE by == calls[b].by
               token == IF by.session = Null THEN Null ELSE CSRFToken(by.session)
    <2>2. token \in Token \cup {Null}
        <3>1. key \in Nat
            BY SessionsAssumption DEF TypeOK, key
        <3>2. by.session # Null => by.session.nonce \in Nat
            BY <2>1 DEF Principals, Session, TypeOK
        <3> QED BY <3>1, <3>2 DEF CSRFToken, Token
    <2>3. [name |-> by.name, token |-> token] \in Page
        BY <2>1, <2>2 DEF Page, Principals
    <2>4. page' = [page EXCEPT ![b] = [name |-> by.name, token |-> token]] \/ page' = page
        BY <1>6 DEF CallAct
    <2>5. page' \in [Browsers -> Page \cup {Null}]
        BY <2>3, <2>4 DEF TypeOK
    <2> QED BY <1>3, <2>1, <2>5
<1> QED BY <1>1, <1>4, <1>5, <1>6

LEMMA StepType == TypeOK /\ [Next]_vars => TypeOK'
<1> SUFFICES ASSUME TypeOK, [Next]_vars PROVE TypeOK'
    OBVIOUS
<1>1. ASSUME NEW b \in Browsers, LoginCheck(b) PROVE TypeOK'
    <2>1. PICK name \in Names, password \in Passwords :
            /\ LoginAccepts(name, password)
            /\ logins' = [logins EXCEPT ![b] = [name |-> name, hash |-> users[name].hash]]
        BY <1>1 DEF LoginCheck
    <2>2. users[name] \in User
        BY <2>1 DEF TypeOK, UsersTypeOK, LoginAccepts, Exists
    <2>3. [name |-> name, hash |-> users[name].hash] \in [name : Names, hash : Hash]
        BY <2>2 DEF User
    <2>4. logins' \in [Browsers -> [name : Names, hash : Hash] \cup {Null}]
        BY <2>1, <2>3 DEF TypeOK
    <2> QED BY <1>1, <2>4
            DEF LoginCheck, TypeOK, UsersTypeOK, userVars, clientVars, Session, Principals, Call
<1>2. ASSUME NEW b \in Browsers, LoginDone(b) PROVE TypeOK'
    <2>1. logins[b] \in [name : Names, hash : Hash]
        BY <1>2 DEF LoginDone, TypeOK
    <2>2. sessions' = sessions + 1 /\ sessions' \in 0..MaxSessions
        BY <1>2, SessionsAssumption DEF LoginDone, TypeOK
    <2>3. NewSession(logins[b].name, logins[b].hash) \in Session'
        BY <2>1, <2>2, NewSessionType
    <2>4. Session \subseteq Session' /\ Principals \subseteq Principals' /\ Call \subseteq Call'
        BY <2>2, OlderSession
    <2>5. cookie' \in [Browsers -> Session' \cup {Null}]
        BY <1>2, <2>3, <2>4 DEF LoginDone, TypeOK
    <2>6. logins' \in [Browsers -> [name : Names, hash : Hash] \cup {Null}]
        BY <1>2 DEF LoginDone, TypeOK
    <2>7. calls' = calls /\ calls' \in [Browsers -> Call' \cup {Null}]
        BY <1>2, <2>4 DEF LoginDone, TypeOK
    <2>8. \A c \in Browsers : calls'[c] # Null =>
            /\ calls'[c].step = "user" => calls'[c].session \in Session'
            /\ calls'[c].step = "basic" => calls'[c].basic \in Credentials
            /\ calls'[c].step = "act" => calls'[c].by \in Principals'
        BY <2>4, <2>7 DEF TypeOK
    <2>9. UsersTypeOK' /\ UNCHANGED <<page, starts, clock>>
        BY <1>2 DEF LoginDone, TypeOK, UsersTypeOK, userVars
    <2> QED BY <2>2, <2>5, <2>6, <2>7, <2>8, <2>9 DEF TypeOK
<1>3. ASSUME NEW b \in Browsers, Logout(b) PROVE TypeOK'
    BY <1>3 DEF Logout, TypeOK, UsersTypeOK, userVars, Session, Principals, Call
<1>4. ASSUME NEW b \in Browsers,
             CallStart(b) \/ CallUser(b) \/ CallBasic(b) \/ CallAct(b)
      PROVE  TypeOK'
    BY <1>4, CallStepType
<1>5. ASSUME UsersOnly, UsersTypeOK' PROVE TypeOK'
    BY <1>5 DEF UsersOnly, clientVars, TypeOK, Session, Principals, Call
<1>6. ASSUME NEW name \in Names, NEW password \in Passwords, AddAdmin(name, password)
      PROVE  TypeOK'
    BY <1>5, <1>6, NewUserType DEF AddAdmin, TypeOK
<1>7. ASSUME NEW name \in Names, NEW password \in Passwords, ReplacePassword(name, password)
      PROVE  TypeOK'
    <2>1. /\ users[name] \in User
          /\ users' = [users EXCEPT ![name].hash = NewHash(password)]
          /\ hashes' = hashes + 1
        BY <1>7 DEF ReplacePassword, ChangePassword, Exists, TypeOK, UsersTypeOK
    <2>2. NewHash(password) \in Hash
        BY DEF NewHash, Hash, TypeOK, UsersTypeOK
    <2>3. [users[name] EXCEPT !.hash = NewHash(password)] \in User
        BY <2>1, <2>2 DEF User
    <2>4. UsersTypeOK'
        BY <2>1, <2>3 DEF TypeOK, UsersTypeOK
    <2> QED BY <1>5, <1>7, <2>4 DEF ReplacePassword
<1>8. ASSUME NEW name \in Names, Remove(name) PROVE TypeOK'
    <2>1. UsersTypeOK'
        BY <1>8 DEF Remove, RemoveUser, TypeOK, UsersTypeOK
    <2> QED BY <1>5, <1>8, <2>1 DEF Remove
<1>9. ASSUME NEW name \in Names, Rule(name) PROVE TypeOK'
    <2>1. PICK enabled \in BOOLEAN, authorities \in Rights : ChangeRights(name, enabled, authorities)
        BY <1>9 DEF Rule
    <2>2. users[name].hash \in Hash
        BY <2>1 DEF ChangeRights, Exists, TypeOK, UsersTypeOK, User
    <2> DEFINE user == [hash |-> users[name].hash, enabled |-> enabled, authorities |-> authorities]
    <2>3. user \in User
        BY <2>2, SessionsAssumption DEF User
    <2>4. users' = [users EXCEPT ![name] = user] /\ hashes' = hashes
        BY <2>1 DEF ChangeRights, TypeOK, UsersTypeOK
    <2> HIDE DEF user
    <2>5. UsersTypeOK'
        BY <2>3, <2>4 DEF TypeOK, UsersTypeOK
    <2> QED BY <1>5, <1>9, <2>5 DEF Rule
<1>10. CASE Restart
    <2>1. UsersTypeOK'
        BY <1>10, ProvisionType DEF Restart, TypeOK
    <2>2. starts' \in 0..MaxStarts
        BY <1>10, SessionsAssumption DEF Restart, TypeOK
    <2> QED BY <1>10, <2>1, <2>2 DEF Restart, clientVars, TypeOK, Session, Principals, Call
<1>11. CASE TimePasses
    <2>1. clock' \in 0..MaxTime
        BY <1>11, SessionsAssumption DEF TimePasses, TypeOK
    <2> QED BY <1>11, <2>1
            DEF TimePasses, clientVars, userVars, UsersTypeOK, TypeOK, Session, Principals, Call
<1>12. CASE UNCHANGED vars
    BY <1>12 DEF vars, UsersTypeOK, TypeOK, Session, Principals, Call
<1> QED BY <1>1, <1>2, <1>3, <1>4, <1>6, <1>7, <1>8, <1>9, <1>10, <1>11, <1>12
        DEF Next, BrowserStep

(* Every variable keeps its shape (Sessions). *)
THEOREM TypeCorrect == Spec => []TypeOK
BY InitType, StepType, PTL DEF Spec
-----------------------------------------------------------------------------
\* Requests.

(* Where the request of browser b comes from that there is after a step:    *)
(* it is new, it moved on, or nothing happened to it.                       *)
CallIsNew(b) ==
    /\ calls'[b].step # "act"
    /\ calls'[b].step = "user" => cookie[b] # Null /\ calls'[b].session = cookie[b]
    /\ calls'[b].form = page[b]

CallMovedOn(b) ==
    /\ calls[b] # Null
    /\ calls'[b].step # "user"
    /\ calls'[b].form = calls[b].form
    /\ calls'[b].step = "act" /\ calls'[b].by.session # Null =>
        /\ calls[b].step = "user"
        /\ calls'[b].by = Principal(calls[b].session.name, calls[b].session)

CallFrom(b) ==
    calls'[b] = Null \/ calls'[b] = calls[b] \/ CallIsNew(b) \/ CallMovedOn(b)

(* How a request gets through. *)
ThroughBySession(b) ==
    /\ calls[b].step = "user"
    /\ SessionCounts(calls[b].session)
    /\ TokenIsRight(calls[b])
    /\ calls'[b].by = Principal(calls[b].session.name, calls[b].session)
    /\ calls'[b].need = calls[b].need

ThroughByPassword(b) ==
    /\ calls[b].step = "basic"
    /\ LoginAccepts(calls[b].basic.name, calls[b].basic.password)
    /\ calls'[b].by = Principal(calls[b].basic.name, Null)

LEMMA WentOn ==
    ASSUME TypeOK, NEW b \in Browsers, NEW step \in {"basic", "act"}, NEW by,
           CallGoesOn(b, step, by)
    PROVE  /\ calls'[b].step = step
           /\ calls'[b].need = calls[b].need
           /\ calls'[b].form = calls[b].form
           /\ calls'[b].by = by
           /\ \A c \in Browsers \ {b} : calls'[c] = calls[c]
BY DEF CallGoesOn, TypeOK

LEMMA UserGoesOn ==
    ASSUME TypeOK, NEW b \in Browsers, CallUser(b)
    PROVE  /\ CallFrom(b) /\ (LetThrough(b) => ThroughBySession(b))
           /\ \A c \in Browsers \ {b} : calls'[c] = calls[c]
<1> DEFINE call == calls[b]
<1>1. call # Null /\ call.step = "user"
    BY DEF CallUser
<1>2. CASE CallDone(b)
    BY <1>2 DEF CallDone, TypeOK, CallFrom, LetThrough
<1>3. CASE call.basic # Null /\ CallGoesOn(b, "basic", Null)
    <2>1. /\ calls'[b].step = "basic" /\ calls'[b].form = call.form
          /\ \A c \in Browsers \ {b} : calls'[c] = calls[c]
        BY <1>3, WentOn
    <2> QED BY <1>1, <2>1 DEF CallFrom, CallMovedOn, LetThrough
<1>4. CASE /\ SessionCounts(call.session) /\ TokenIsRight(call)
           /\ CallGoesOn(b, "act", Principal(call.session.name, call.session))
    <2>1. /\ calls'[b].step = "act" /\ calls'[b].form = call.form
          /\ calls'[b].need = call.need
          /\ calls'[b].by = Principal(call.session.name, call.session)
          /\ \A c \in Browsers \ {b} : calls'[c] = calls[c]
        BY <1>4, WentOn
    <2>2. CallFrom(b)
        BY <1>1, <2>1 DEF CallFrom, CallMovedOn
    <2>3. ThroughBySession(b)
        BY <1>1, <1>4, <2>1 DEF ThroughBySession
    <2> QED BY <2>1, <2>2, <2>3
<1> QED BY <1>2, <1>3, <1>4 DEF CallUser

LEMMA BasicGoesOn ==
    ASSUME TypeOK, NEW b \in Browsers, CallBasic(b)
    PROVE  /\ CallFrom(b) /\ (LetThrough(b) => ThroughByPassword(b))
           /\ \A c \in Browsers \ {b} : calls'[c] = calls[c]
<1> DEFINE given == calls[b].basic
<1>1. calls[b] # Null /\ calls[b].step = "basic"
    BY DEF CallBasic
<1>2. CASE CallDone(b)
    BY <1>2 DEF CallDone, TypeOK, CallFrom, LetThrough
<1>3. CASE /\ LoginAccepts(given.name, given.password)
           /\ CallGoesOn(b, "act", Principal(given.name, Null))
    <2>1. /\ calls'[b].step = "act" /\ calls'[b].form = calls[b].form
          /\ calls'[b].by = Principal(given.name, Null)
          /\ \A c \in Browsers \ {b} : calls'[c] = calls[c]
        BY <1>3, WentOn
    <2>2. calls'[b].by.session = Null
        BY <2>1 DEF Principal
    <2>3. CallFrom(b)
        BY <1>1, <2>1, <2>2 DEF CallFrom, CallMovedOn
    <2>4. ThroughByPassword(b)
        BY <1>1, <1>3, <2>1 DEF ThroughByPassword
    <2> QED BY <2>1, <2>3, <2>4
<1> QED BY <1>2, <1>3 DEF CallBasic

LEMMA CallsGoOn ==
    ASSUME TypeOK, [Next]_vars, NEW b \in Browsers
    PROVE  CallFrom(b) /\ (LetThrough(b) => ThroughBySession(b) \/ ThroughByPassword(b))
<1>1. ASSUME calls'[b] = calls[b] \/ calls'[b] = Null
      PROVE  CallFrom(b) /\ ~LetThrough(b)
    BY <1>1 DEF CallFrom, LetThrough
<1>2. ASSUME NEW c \in Browsers, CallStart(c) PROVE CallFrom(b) /\ ~LetThrough(b)
    <2>1. c # b => calls'[b] = calls[b]
        BY <1>2 DEF CallStart, TypeOK
    <2>2. CASE c = b
        <3>1. /\ calls[b] = Null
              /\ calls'[b].step = "user" => cookie[b] # Null /\ calls'[b].session = cookie[b]
              /\ calls'[b].step # "act"
              /\ calls'[b].form = page[b]
            BY <1>2, <2>2 DEF CallStart, TypeOK
        <3> QED BY <3>1 DEF CallFrom, CallIsNew, LetThrough
    <2> QED BY <1>1, <2>1, <2>2
<1>3. ASSUME NEW c \in Browsers, CallUser(c) \/ CallBasic(c)
      PROVE  CallFrom(b) /\ (LetThrough(b) => ThroughBySession(b) \/ ThroughByPassword(b))
    BY <1>1, <1>3, UserGoesOn, BasicGoesOn
<1>4. ASSUME NEW c \in Browsers, CallAct(c) PROVE CallFrom(b) /\ ~LetThrough(b)
    BY <1>1, <1>4 DEF CallAct, CallDone, TypeOK
<1>5. ASSUME NEW c \in Browsers, LoginCheck(c) \/ LoginDone(c) \/ Logout(c)
      PROVE  CallFrom(b) /\ ~LetThrough(b)
    BY <1>1, <1>5 DEF LoginCheck, LoginDone, Logout
<1>6. ASSUME UNCHANGED calls PROVE CallFrom(b) /\ ~LetThrough(b)
    BY <1>1, <1>6
<1>7. CASE Restart
    BY <1>1, <1>7 DEF Restart
<1> QED BY <1>2, <1>3, <1>4, <1>5, <1>6, <1>7
        DEF Next, BrowserStep, AddAdmin, ReplacePassword, Remove, Rule, UsersOnly, TimePasses, vars
-----------------------------------------------------------------------------
\* What sessions were made for.

LEMMA InitMade == Init => AllMade
BY DEF Init, AllMade

(* What a session was made for is not changed after it was made. *)
LEMMA StepChecked ==
    ASSUME TypeOK, AllMade, [Next]_vars
    PROVE  /\ checked' \in Seq(Login) /\ Len(checked') = sessions'
           /\ \A n \in 1..sessions : checked'[n] = checked[n]
<1> DEFINE Result ==
        /\ checked' \in Seq(Login) /\ Len(checked') = sessions'
        /\ \A n \in 1..sessions : checked'[n] = checked[n]
<1>1. ASSUME NEW b \in Browsers, LoginDone(b) PROVE Result
    <2>1. /\ logins[b] \in Login
          /\ checked' = Append(checked, logins[b]) /\ sessions' = sessions + 1
        BY <1>1 DEF LoginDone, TypeOK, Login
    <2>2. checked \in Seq(Login) /\ Len(checked) = sessions
        BY DEF AllMade
    <2> QED BY <2>1, <2>2
<1>2. ASSUME UNCHANGED <<checked, sessions>> PROVE Result
    BY <1>2 DEF AllMade
<1> QED BY <1>1, <1>2
        DEF Next, BrowserStep, LoginCheck, Logout, CallStart, CallUser, CallBasic, CallAct, CallOnly,
            AddAdmin, ReplacePassword, Remove, Rule, UsersOnly, Restart, TimePasses, vars

LEMMA ClockAndStarts ==
    ASSUME TypeOK, [Next]_vars
    PROVE  clock' \in Nat /\ clock' >= clock /\ starts' \in Nat /\ starts' >= starts
BY DEF TypeOK, Next, BrowserStep, LoginCheck, LoginDone, Logout, CallStart, CallUser, CallBasic,
       CallAct, CallOnly, AddAdmin, ReplacePassword, Remove, Rule, UsersOnly, Restart, TimePasses, vars

(* What there is of cookies after a step. *)
LEMMA StepCookie ==
    ASSUME TypeOK, [Next]_vars, NEW b \in Browsers, cookie'[b] # Null
    PROVE  cookie'[b] = cookie[b]
           \/ /\ LoginDone(b)
              /\ cookie'[b] = NewSession(logins[b].name, logins[b].hash)
BY DEF TypeOK, Next, BrowserStep, LoginCheck, LoginDone, Logout, CallStart, CallUser, CallBasic,
       CallAct, CallOnly, AddAdmin, ReplacePassword, Remove, Rule, UsersOnly, Restart, TimePasses,
       clientVars, vars

LEMMA StepMade == TypeOK /\ TypeOK' /\ AllMade /\ [Next]_vars => AllMade'
<1> SUFFICES ASSUME TypeOK, TypeOK', AllMade, [Next]_vars PROVE AllMade'
    OBVIOUS
<1>1. /\ checked' \in Seq(Login) /\ Len(checked') = sessions'
      /\ \A n \in 1..sessions : checked'[n] = checked[n]
    BY StepChecked
<1>2. clock' \in Nat /\ clock' >= clock /\ starts' \in Nat /\ starts' >= starts
    BY ClockAndStarts
<1>3. ASSUME NEW b \in Browsers, cookie[b] # Null, cookie'[b] = cookie[b]
      PROVE  Made(cookie[b])'
    <2>1. cookie[b] \in Session /\ Made(cookie[b])
        BY <1>3 DEF TypeOK, AllMade
    <2>2. \A session \in Session : Made(session) =>
            /\ session.expires = WholeSeconds(session.began + Second * SessionTTL)
            /\ session.began <= clock'
            /\ session.start <= starts'
            /\ session.signed = (IF SessionKeySet THEN 0 ELSE session.start)
            /\ session.password.key = session.signed
            /\ checked'[session.nonce] = [name |-> session.name, hash |-> session.password.hash]
        BY <1>1, <1>2 DEF Made, Session, TypeOK
    <2> QED BY <1>3, <2>1, <2>2 DEF Made
<1>4. ASSUME NEW b \in Browsers, cookie'[b] # Null PROVE Made(cookie[b])'
    <2>1. CASE cookie'[b] = cookie[b]
        BY <1>3, <1>4, <2>1
    <2>2. CASE LoginDone(b) /\ cookie'[b] = NewSession(logins[b].name, logins[b].hash)
        <3>1. /\ logins[b] \in Login /\ checked' = Append(checked, logins[b])
              /\ UNCHANGED <<clock, starts>>
            BY <2>2 DEF LoginDone, TypeOK, Login
        <3> DEFINE session == NewSession(logins[b].name, logins[b].hash)
        <3>2. /\ session.expires = WholeSeconds(clock + Second * SessionTTL)
              /\ session.began = clock /\ session.start = starts
              /\ session.signed = key /\ session.password.key = key
              /\ session.name = logins[b].name /\ session.password.hash = logins[b].hash
              /\ session.nonce = sessions + 1
            BY DEF NewSession, PasswordTag
        <3>3. [name |-> session.name, hash |-> session.password.hash] = logins[b]
            BY <3>1, <3>2 DEF Login
        <3>4. cookie'[b] = session
            BY <2>2
        <3> HIDE DEF session
        <3>5. checked'[session.nonce] = [name |-> session.name, hash |-> session.password.hash]
            BY <3>1, <3>2, <3>3 DEF AllMade
        <3>6. clock \in Nat /\ starts \in Nat
            BY SessionsAssumption DEF TypeOK
        <3>7. /\ session.began <= clock' /\ session.start <= starts'
              /\ session.signed = (IF SessionKeySet THEN 0 ELSE session.start)
            BY <3>1, <3>2, <3>6 DEF key
        <3> QED BY <3>1, <3>2, <3>4, <3>5, <3>7 DEF Made
    <2> QED BY <1>4, <2>1, <2>2, StepCookie
<1>5. ASSUME NEW b \in Browsers, calls'[b] # Null, calls'[b].step = "user"
      PROVE  Made(calls[b].session)'
    <2>1. CallFrom(b)
        BY CallsGoOn
    <2>2. \/ cookie[b] # Null /\ calls'[b].session = cookie[b]
          \/ calls[b] # Null /\ calls[b].step = "user" /\ calls'[b].session = calls[b].session
        BY <1>5, <2>1 DEF CallFrom, CallIsNew, CallMovedOn
    <2>3. PICK session \in Session : calls'[b].session = session /\ Made(session)
        BY <2>2 DEF TypeOK, AllMade
    <2>4. /\ session.expires = WholeSeconds(session.began + Second * SessionTTL)
          /\ session.began <= clock'
          /\ session.start <= starts'
          /\ session.signed = (IF SessionKeySet THEN 0 ELSE session.start)
          /\ session.password.key = session.signed
          /\ checked'[session.nonce] = [name |-> session.name, hash |-> session.password.hash]
        BY <1>1, <1>2, <2>3 DEF Made, Session, TypeOK
    <2> QED BY <2>3, <2>4 DEF Made
<1> QED BY <1>1, <1>4, <1>5 DEF AllMade
-----------------------------------------------------------------------------
\* Whose sessions and forms they are.

LEMMA InitOwner == Init => OneOwner
<1> SUFFICES ASSUME Init PROVE OneOwner
    OBVIOUS
<1> DEFINE owner == [n \in Nat |-> AdminUsername]
<1>1. owner \in [Nat -> Names]
    BY UsersAssumption
<1>2. Named(owner)
    BY DEF Init, Named
<1> QED BY <1>1, <1>2 DEF OneOwner

(* A step that makes no session leaves its owner to each.                   *)
LEMMA OwnerStays ==
    ASSUME TypeOK, TypeOK', NEW owner \in [Nat -> Names], Named(owner),
           \A b \in Browsers : CallFrom(b),
           UNCHANGED sessions,
           \A b \in Browsers : cookie'[b] # Null => cookie'[b] = cookie[b],
           \A b \in Browsers : page'[b] # Null => page'[b] = page[b] \/ NamedPage(owner, page[b])'
    PROVE  Named(owner)'
<1>1. ASSUME NEW b \in Browsers, cookie'[b] # Null PROVE NamedSession(owner, cookie[b])'
    BY <1>1 DEF Named, NamedSession
<1>2. ASSUME NEW b \in Browsers, page'[b] # Null PROVE NamedPage(owner, page[b])'
    BY <1>2 DEF Named, NamedPage
<1>3. ASSUME NEW b \in Browsers, calls'[b] # Null PROVE NamedCall(owner, calls[b])'
    <2>1. CASE calls'[b] = calls[b]
        BY <1>3, <2>1 DEF Named, NamedCall, NamedSession, NamedPage
    <2>2. CASE CallIsNew(b)
        BY <1>3, <2>2 DEF CallIsNew, Named, NamedCall, NamedSession, NamedPage
    <2>3. CASE CallMovedOn(b)
        <3>1. /\ calls[b] # Null /\ NamedCall(owner, calls[b])
              /\ calls'[b].step # "user" /\ calls'[b].form = calls[b].form
            BY <2>3 DEF CallMovedOn, Named
        <3>2. ASSUME calls'[b].step = "act", calls'[b].by.session # Null
              PROVE  /\ NamedSession(owner, calls'[b].by.session)
                     /\ calls'[b].by.name = calls'[b].by.session.name
            <4>1. /\ calls[b].step = "user"
                  /\ calls'[b].by = Principal(calls[b].session.name, calls[b].session)
                BY <2>3, <3>2 DEF CallMovedOn
            <4>2. /\ calls'[b].by.session = calls[b].session
                  /\ calls'[b].by.name = calls[b].session.name
                BY <4>1 DEF Principal
            <4> QED BY <3>1, <4>1, <4>2 DEF NamedCall, NamedSession
        <3> QED BY <3>1, <3>2 DEF NamedCall, NamedSession, NamedPage
    <2> QED BY <1>3, <2>1, <2>2, <2>3 DEF CallFrom
<1> QED BY <1>1, <1>2, <1>3 DEF Named

(* The page that a handler shows carries the token of its own session.      *)
LEMMA ShownPage ==
    ASSUME TypeOK, NEW owner \in [Nat -> Names], Named(owner),
           NEW b \in Browsers, CallAct(b), page'[b] # page[b]
    PROVE  NamedPage(owner, page[b])'
<1> DEFINE by == calls[b].by
           token == IF by.session = Null THEN Null ELSE CSRFToken(by.session)
<1>1. /\ calls[b] # Null /\ calls[b].step = "act" /\ by \in Principals
      /\ page'[b] = [name |-> by.name, token |-> token]
      /\ UNCHANGED sessions
    BY DEF CallAct, CallOnly, TypeOK
<1>2. page'[b].name = by.name /\ page'[b].token = token
    BY <1>1
<1>3. CASE by.session = Null
    BY <1>2, <1>3 DEF NamedPage
<1>4. CASE by.session # Null
    <2>1. token.nonce = by.session.nonce
        BY <1>4 DEF CSRFToken
    <2>2. by.session \in Session /\ by.session.nonce \in 1..sessions
        BY <1>1, <1>4 DEF Principals, Session
    <2>3. owner[by.session.nonce] = by.name
        BY <1>1, <1>4 DEF Named, NamedCall, NamedSession
    <2> HIDE DEF token, by
    <2> QED BY <1>1, <1>2, <2>1, <2>2, <2>3 DEF NamedPage
<1> QED BY <1>3, <1>4

LEMMA StepOwner == TypeOK /\ TypeOK' /\ OneOwner /\ [Next]_vars => OneOwner'
<1> SUFFICES ASSUME TypeOK, TypeOK', OneOwner, [Next]_vars PROVE OneOwner'
    OBVIOUS
<1>1. PICK owner \in [Nat -> Names] : Named(owner)
    BY DEF OneOwner
<1>2. \A b \in Browsers : CallFrom(b)
    BY CallsGoOn
<1>3. ASSUME NEW b \in Browsers, LoginDone(b) PROVE OneOwner'
    <2>1. /\ logins[b].name \in Names /\ sessions \in Nat /\ sessions' = sessions + 1
          /\ cookie' = [cookie EXCEPT ![b] = NewSession(logins[b].name, logins[b].hash)]
          /\ UNCHANGED <<page, calls>>
        BY <1>3 DEF LoginDone, TypeOK
    <2>2. PICK grown \in [Nat -> Names] : grown = [owner EXCEPT ![sessions + 1] = logins[b].name]
        BY <2>1
    <2>3. /\ grown[sessions + 1] = logins[b].name
          /\ \A n \in 1..sessions : grown[n] = owner[n] /\ n \in 1..sessions'
        BY <2>1, <2>2
    <2>4. ASSUME NEW session \in Session, NamedSession(owner, session)
          PROVE  NamedSession(grown, session)
        BY <2>3, <2>4 DEF NamedSession, Session
    <2>5. ASSUME NEW c \in Browsers, cookie'[c] # Null PROVE NamedSession(grown, cookie[c])'
        <3>1. CASE c = b
            <4>1. cookie'[c].nonce = sessions + 1 /\ cookie'[c].name = logins[b].name
                BY <2>1, <3>1 DEF NewSession, TypeOK
            <4> QED BY <2>3, <4>1 DEF NamedSession
        <3>2. CASE c # b
            <4>1. cookie'[c] = cookie[c] /\ cookie[c] \in Session /\ NamedSession(owner, cookie[c])
                BY <1>1, <2>1, <2>5, <3>2 DEF Named, TypeOK
            <4> QED BY <2>4, <4>1 DEF NamedSession
        <3> QED BY <3>1, <3>2
    <2>6. ASSUME NEW shown, NamedPage(owner, shown)
          PROVE  shown.token # Null => /\ shown.token.nonce \in 1..sessions'
                                       /\ grown[shown.token.nonce] = shown.name
        BY <2>3, <2>6 DEF NamedPage
    <2>7. ASSUME NEW c \in Browsers, page'[c] # Null PROVE NamedPage(grown, page[c])'
        BY <1>1, <2>1, <2>6, <2>7 DEF Named, NamedPage
    <2>8. ASSUME NEW c \in Browsers, calls'[c] # Null PROVE NamedCall(grown, calls[c])'
        <3>1. calls'[c] = calls[c] /\ NamedCall(owner, calls[c]) /\ calls[c] # Null
            BY <1>1, <2>1, <2>8 DEF Named
        <3>2. calls[c].step = "user" => NamedSession(grown, calls[c].session)
            BY <2>4, <3>1 DEF NamedCall, TypeOK
        <3>3. ASSUME calls[c].step = "act", calls[c].by.session # Null
              PROVE  NamedSession(grown, calls[c].by.session)
            <4>1. calls[c].by.session \in Session
                BY <3>1, <3>3 DEF TypeOK, Principals
            <4> QED BY <2>4, <3>1, <3>3, <4>1 DEF NamedCall
        <3> QED BY <2>6, <3>1, <3>2, <3>3 DEF NamedCall, NamedPage, NamedSession
    <2> QED BY <2>2, <2>5, <2>7, <2>8 DEF OneOwner, Named
<1>4. ASSUME UNCHANGED sessions,
             \A b \in Browsers : cookie'[b] # Null => cookie'[b] = cookie[b],
             \A b \in Browsers : page'[b] # Null => page'[b] = page[b] \/ NamedPage(owner, page[b])'
      PROVE  OneOwner'
    BY <1>1, <1>2, <1>4, OwnerStays DEF OneOwner
<1>5. ASSUME NEW b \in Browsers, CallAct(b) PROVE OneOwner'
    <2>1. UNCHANGED <<sessions, cookie>> /\ \A c \in Browsers \ {b} : page'[c] = page[c]
        BY <1>5 DEF CallAct, CallOnly, TypeOK
    <2> QED BY <1>1, <1>4, <1>5, <2>1, ShownPage
<1>6. ASSUME NEW b \in Browsers, Logout(b) PROVE OneOwner'
    BY <1>4, <1>6 DEF Logout, TypeOK
<1>7. ASSUME UNCHANGED <<sessions, cookie, page>> PROVE OneOwner'
    BY <1>4, <1>7
<1> QED BY <1>3, <1>5, <1>6, <1>7
        DEF Next, BrowserStep, LoginCheck, CallStart, CallUser, CallBasic, CallOnly, AddAdmin,
            ReplacePassword, Remove, Rule, UsersOnly, Restart, TimePasses, clientVars, vars

-----------------------------------------------------------------------------
\* Replaced passwords.

LEMMA InitReplaced == Init => ReplacedIsGone
BY DEF Init, ReplacedIsGone

LEMMA StepReplaced == TypeOK /\ ReplacedIsGone /\ [Next]_vars => ReplacedIsGone'
<1> SUFFICES ASSUME TypeOK, ReplacedIsGone, [Next]_vars PROVE ReplacedIsGone'
    OBVIOUS
<1>1. ASSUME NEW name \in Names, NEW password \in Passwords, AddAdmin(name, password)
      PROVE  ReplacedIsGone'
    <2>1. CASE Exists(name)
        BY <1>1, <2>1
        DEF AddAdmin, CreateAdmin, CreateUser, userVars, ReplacedIsGone, Exists
    <2>2. CASE ~Exists(name)
        <3>1. /\ users' = [users EXCEPT ![name] = NewAdmin(password)]
              /\ replaced' \subseteq replaced
              /\ \A r \in replaced : r.name # name
            BY <1>1, <2>2
            DEF AddAdmin, CreateAdmin, CreateUser, StillReplaced, ReplacedIsGone
        <3> QED BY <3>1 DEF ReplacedIsGone, Exists, Credentials, TypeOK, UsersTypeOK
    <2> QED BY <2>1, <2>2
<1>2. ASSUME NEW name \in Names, NEW password \in Passwords, ReplacePassword(name, password)
      PROVE  ReplacedIsGone'
    <2> DEFINE given == [name |-> name, password |-> password]
               old == [name |-> name, password |-> users[name].hash.password]
    <2>1. /\ Exists(name) /\ users[name] \in User
          /\ users' = [users EXCEPT ![name].hash = NewHash(password)]
          /\ replaced' = (replaced \ {given}) \cup ({old} \ {given})
        BY <1>2 DEF ReplacePassword, ChangePassword, StillReplaced, Exists, TypeOK, UsersTypeOK
    <2>2. old \in Credentials
        BY <2>1 DEF User, Hash, Credentials
    <2>3. /\ users'[name].hash.password = password
          /\ \A n \in Names \ {name} : users'[n] = users[n]
          /\ users'[name] \in User
        <3>1. NewHash(password) \in Hash /\ NewHash(password).password = password
            BY DEF NewHash, Hash, TypeOK, UsersTypeOK
        <3>2. users'[name] = [users[name] EXCEPT !.hash = NewHash(password)]
            BY <2>1 DEF TypeOK, UsersTypeOK
        <3>3. users'[name].hash = NewHash(password) /\ users'[name] \in User
            BY <2>1, <3>1, <3>2 DEF User
        <3> QED BY <2>1, <3>1, <3>3 DEF TypeOK, UsersTypeOK
    <2>4. replaced' \in SUBSET Credentials
        BY <2>1, <2>2 DEF ReplacedIsGone
    <2>5. ASSUME NEW r \in replaced', r.name = name PROVE r.password # password
        <3>1. r \in Credentials /\ r # given
            BY <2>1, <2>4
        <3> QED BY <2>5, <3>1 DEF Credentials
    <2>6. ASSUME NEW r \in replaced', r.name # name PROVE r \in replaced /\ r.name \in Names
        BY <2>1, <2>4, <2>6 DEF Credentials
    <2> HIDE DEF given, old
    <2>7. ASSUME NEW r \in replaced'
          PROVE  users'[r.name] # NoUser /\ users'[r.name].hash.password # r.password
        BY <2>3, <2>5, <2>6, UsersAssumption DEF ReplacedIsGone, Exists
    <2> QED BY <2>4, <2>7 DEF ReplacedIsGone, Exists
<1>3. ASSUME NEW name \in Names, Remove(name) PROVE ReplacedIsGone'
    BY <1>3 DEF Remove, RemoveUser, ReplacedIsGone, Exists, Credentials, TypeOK, UsersTypeOK
<1>4. ASSUME NEW name \in Names, Rule(name) PROVE ReplacedIsGone'
    <2>1. PICK enabled \in BOOLEAN, authorities \in Rights : ChangeRights(name, enabled, authorities)
        BY <1>4 DEF Rule
    <2> DEFINE user == [hash |-> users[name].hash, enabled |-> enabled, authorities |-> authorities]
    <2>2. users[name] \in User /\ users' = [users EXCEPT ![name] = user] /\ replaced' = replaced
        BY <1>4, <2>1 DEF Rule, ChangeRights, Exists, TypeOK, UsersTypeOK
    <2>3. user.hash = users[name].hash /\ user \in User
        BY <2>2, SessionsAssumption DEF User
    <2> HIDE DEF user
    <2>4. \A n \in Names : n # name => users'[n] = users[n]
        BY <2>2 DEF TypeOK, UsersTypeOK
    <2>5. users'[name] = user
        BY <2>2 DEF TypeOK, UsersTypeOK
    <2> QED BY <2>2, <2>3, <2>4, <2>5, UsersAssumption DEF ReplacedIsGone, Exists, Credentials
<1>5. CASE Restart
    <2>1. replaced' = replaced /\ (users' = users \/
            /\ ~Exists(AdminUsername)
            /\ users' = [users EXCEPT ![AdminUsername] = NewAdmin(AdminPassword)])
        BY <1>5 DEF Restart, Provision, CreateAdmin, CreateUser, userVars
    <2> QED BY <2>1 DEF ReplacedIsGone, Exists, Credentials, TypeOK, UsersTypeOK
<1>6. ASSUME UNCHANGED <<users, replaced>> PROVE ReplacedIsGone'
    BY <1>6 DEF ReplacedIsGone, Exists
<1> QED BY <1>1, <1>2, <1>3, <1>4, <1>5, <1>6
        DEF Next, BrowserStep, LoginCheck, LoginDone, Logout, CallStart, CallUser, CallBasic, CallAct,
            CallOnly, TimePasses, userVars, vars

-----------------------------------------------------------------------------
\* The theorems.

IInv == TypeOK /\ AllMade /\ OneOwner /\ ReplacedIsGone

LEMMA InitInv == Init => IInv
BY InitType, InitMade, InitOwner, InitReplaced DEF IInv

LEMMA StepInv == IInv /\ [Next]_vars => IInv'
BY StepType, StepMade, StepOwner, StepReplaced DEF IInv

(* What is known of the sessions, their owners and the replaced passwords   *)
(* stays true, whatever browsers and whoever runs the service do.           *)
THEOREM Invariant == Spec => []IInv
BY InitInv, StepInv, PTL DEF Spec

LEMMA WholeSecondsBounds ==
    ASSUME NEW t \in Int
    PROVE  WholeSeconds(t) \in Int /\ WholeSeconds(t) <= t /\ t - Second < WholeSeconds(t)
<1>1. PICK q \in Int : q = t \div Second
    BY ColumnsAssumption
<1>2. Second * q <= t /\ t < Second * q + Second
    BY <1>1, ColumnsAssumption
<1> QED BY <1>1, <1>2, ColumnsAssumption DEF WholeSeconds

LEMMA InvLasts == IInv => SessionLastsItsTime
<1> SUFFICES ASSUME IInv, NEW b \in Browsers, cookie[b] # Null
             PROVE  LET session == cookie[b]
                        kept == SessionKeySet \/ session.start = starts
                    IN  /\ Decodes(session, clock) =>
                            kept /\ clock < session.began + Second * SessionTTL
                        /\ kept /\ clock <= session.began + Second * (SessionTTL - 1) =>
                            Decodes(session, clock)
    BY DEF SessionLastsItsTime
<1>1. PICK session \in Session : session = cookie[b] /\ Made(session)
    BY DEF IInv, TypeOK, AllMade
<1>2. /\ session.began \in Nat /\ session.expires \in Int /\ clock \in Nat
      /\ Second \in Nat /\ SessionTTL \in Nat
    BY <1>1, ColumnsAssumption, SessionsAssumption DEF Session, IInv, TypeOK
<1>3. PICK span \in Nat : span = Second * SessionTTL
    BY <1>2
<1>4. Second * (SessionTTL - 1) = span - Second
    BY <1>2, <1>3
<1>5. session.expires = WholeSeconds(session.began + span)
    BY <1>1, <1>3 DEF Made
<1>6. /\ session.expires <= session.began + span
      /\ session.began + span - Second < session.expires
    BY <1>2, <1>3, <1>5, WholeSecondsBounds
<1>7. session.signed = key <=> SessionKeySet \/ session.start = starts
    BY <1>1, SessionsAssumption DEF Made, key
<1>8. Decodes(session, clock) <=> session.signed = key /\ clock < session.expires
    BY DEF Decodes
<1>9. clock < session.expires => clock < session.began + span
    BY <1>2, <1>3, <1>6
<1>10. clock <= session.began + (span - Second) => clock < session.expires
    BY <1>2, <1>3, <1>6
<1> QED BY <1>1, <1>3, <1>4, <1>7, <1>8, <1>9, <1>10

(* A session counts for as long as it was made for and no longer, whatever  *)
(* the clock, the restarts and the time it has (New, Decode, serve).        *)
THEOREM SessionsLast == Spec => []SessionLastsItsTime
BY Invariant, InvLasts, PTL

(* Through by a session means by that of the request, which is named in it. *)
LEMMA SessionThrough ==
    ASSUME IInv, [Next]_vars, NEW b \in Browsers, LetThrough(b), calls'[b].by.session # Null
    PROVE  /\ calls[b] # Null /\ calls[b].step = "user" /\ calls[b].session \in Session
           /\ SessionCounts(calls[b].session) /\ TokenIsRight(calls[b])
           /\ calls'[b].by.name = calls[b].session.name
           /\ calls'[b].by.session = calls[b].session
           /\ calls'[b].need = calls[b].need
<1>1. CASE ThroughBySession(b)
    <2>1. calls[b] # Null /\ calls[b].session \in Session
        BY <1>1 DEF ThroughBySession, LetThrough, IInv, TypeOK
    <2> QED BY <1>1, <2>1 DEF ThroughBySession, Principal
<1>2. CASE ThroughByPassword(b)
    BY <1>2 DEF ThroughByPassword, Principal
<1> QED BY <1>1, <1>2, CallsGoOn DEF IInv

LEMMA StepNeedsPassword ==
    ASSUME IInv, [Next]_vars, NEW b \in Browsers, LetThrough(b), calls'[b].by.session # Null
    PROVE  LET name == calls'[b].by.name
           IN  /\ Exists(name) /\ users[name].enabled
               /\ checked[calls'[b].by.session.nonce] = [name |-> name, hash |-> users[name].hash]
<1>1. PICK session \in Session :
        /\ session = calls[b].session /\ SessionCounts(session)
        /\ calls'[b].by.name = session.name /\ calls'[b].by.session = session
    BY SessionThrough
<1>2. checked[session.nonce] = [name |-> session.name, hash |-> session.password.hash]
    BY <1>1, SessionThrough DEF IInv, AllMade, Made
<1>3. /\ Exists(session.name) /\ users[session.name].enabled
      /\ PasswordTag(users[session.name].hash) = session.password
    BY <1>1, Zenon DEF SessionCounts
<1>4. session.password.hash = users[session.name].hash
    <2>1. PasswordTag(users[session.name].hash).hash = users[session.name].hash
        BY DEF PasswordTag
    <2> QED BY <1>3, <2>1
<1> QED BY <1>1, <1>2, <1>3, <1>4

(* A session lets only an enabled user through, who has the password still  *)
(* that the login of that session was checked against, however logins,      *)
(* changes of users and requests interleave (sessionUser, login, New).      *)
THEOREM SessionsNeedPasswords == Spec => SessionNeedsPassword
<1>1. IInv /\ [Next]_vars => [\A b \in Browsers :
        LetThrough(b) /\ calls'[b].by.session # Null =>
            LET name == calls'[b].by.name
            IN  /\ Exists(name) /\ users[name].enabled
                /\ checked[calls'[b].by.session.nonce] =
                    [name |-> name, hash |-> users[name].hash]]_vars
    BY StepNeedsPassword
<1> QED BY <1>1, Invariant, PTL DEF Spec, SessionNeedsPassword

LEMMA StepActsAsShown ==
    ASSUME IInv, [Next]_vars, NEW b \in Browsers,
           LetThrough(b), calls'[b].need # "none", calls'[b].by.session # Null
    PROVE  calls[b].form # Null /\ calls[b].form.name = calls'[b].by.name
<1> DEFINE call == calls[b]
<1>1. /\ call \in Call /\ call # Null /\ call.step = "user" /\ call.session \in Session
      /\ TokenIsRight(call) /\ call.need # "none"
      /\ calls'[b].by.name = call.session.name
    BY SessionThrough DEF IInv, TypeOK
<1>2. call.form # Null /\ call.form \in Page /\ call.form.token = CSRFToken(call.session)
    BY <1>1 DEF TokenIsRight, Call
<1>3. CSRFToken(call.session) \in Token /\ CSRFToken(call.session).nonce = call.session.nonce
    <2>1. key \in Nat /\ call.session.nonce \in Nat
        BY <1>1, SessionsAssumption DEF IInv, TypeOK, key, Session
    <2> QED BY <2>1 DEF CSRFToken, Token
<1>4. call.form.token # Null /\ call.form.token.nonce = call.session.nonce
    BY <1>2, <1>3, SessionsAssumption
<1>5. PICK owner \in [Nat -> Names] : NamedCall(owner, call)
    BY <1>1 DEF IInv, OneOwner, Named
<1>6. NamedSession(owner, call.session) /\ NamedPage(owner, call.form)
    BY <1>1, <1>2, <1>5 DEF NamedCall
<1> QED BY <1>1, <1>2, <1>4, <1>6 DEF NamedSession, NamedPage

(* A form is acted on in the name it was shown to, whoever the browser has  *)
(* logged in as since (csrfToken, admin).                                   *)
THEOREM FormsActAsShown == Spec => ActsAsShown
<1>1. IInv /\ [Next]_vars => [\A b \in Browsers :
        LetThrough(b) /\ calls'[b].need # "none" /\ calls'[b].by.session # Null =>
            calls[b].form # Null /\ calls[b].form.name = calls'[b].by.name]_vars
    BY StepActsAsShown
<1> QED BY <1>1, Invariant, PTL DEF Spec, ActsAsShown

(* Whoever is let in by a password is in the table with that password.      *)
LEMMA AcceptedIsNotReplaced ==
    ASSUME IInv, NEW name \in Names, NEW password \in Passwords, LoginAccepts(name, password)
    PROVE  /\ [name |-> name, password |-> password] \notin replaced
           /\ users[name].hash.password = password
<1>1. Exists(name) /\ users[name].hash.password = password
    BY Zenon DEF LoginAccepts, CheckPassword
<1>2. ASSUME [name |-> name, password |-> password] \in replaced PROVE FALSE
    <2>1. PICK r \in replaced : r.name = name /\ r.password = password
        BY <1>2
    <2> QED BY <1>1, <2>1 DEF IInv, ReplacedIsGone
<1> QED BY <1>1, <1>2

LEMMA StepReplacedLogin ==
    ASSUME IInv, [Next]_vars, NEW b \in Browsers, logins'[b] # Null, logins'[b] # logins[b]
    PROVE  [name |-> logins'[b].name, password |-> logins'[b].hash.password] \notin replaced
<1>1. LoginCheck(b)
    BY DEF IInv, TypeOK, Next, BrowserStep, LoginCheck, LoginDone, Logout, CallStart, CallUser,
           CallBasic, CallAct, CallOnly, AddAdmin, ReplacePassword, Remove, Rule, UsersOnly,
           Restart, TimePasses, vars
<1>2. PICK name \in Names, password \in Passwords :
        /\ LoginAccepts(name, password)
        /\ logins' = [logins EXCEPT ![b] = [name |-> name, hash |-> users[name].hash]]
    BY <1>1 DEF LoginCheck
<1>3. logins'[b].name = name /\ logins'[b].hash = users[name].hash
    BY <1>2 DEF IInv, TypeOK
<1> QED BY <1>2, <1>3, AcceptedIsNotReplaced

LEMMA StepReplacedBasic ==
    ASSUME IInv, [Next]_vars, NEW b \in Browsers, LetThrough(b), calls[b].step = "basic"
    PROVE  calls[b].basic \notin replaced
<1>1. ThroughByPassword(b)
    BY CallsGoOn DEF IInv, ThroughBySession
<1>2. PICK name \in Names, password \in Passwords :
        calls[b].basic = [name |-> name, password |-> password]
    BY DEF LetThrough, IInv, TypeOK, Credentials
<1>3. LoginAccepts(name, password)
    BY <1>1, <1>2 DEF ThroughByPassword
<1> QED BY <1>2, <1>3, AcceptedIsNotReplaced

(* A replaced password gets nobody in, by form or by HTTP Basic, over any   *)
(* number of restarts (Provision, CreateUser, Login).                       *)
THEOREM ReplacedPasswordsAreDead == Spec => ReplacedPasswordIsDead
<1>1. IInv /\ [Next]_vars => [\A b \in Browsers :
        /\ logins'[b] # Null /\ logins'[b] # logins[b] =>
            [name |-> logins'[b].name, password |-> logins'[b].hash.password] \notin replaced
        /\ LetThrough(b) /\ calls[b].step = "basic" => calls[b].basic \notin replaced]_vars
    BY StepReplacedLogin, StepReplacedBasic
<1> QED BY <1>1, Invariant, PTL DEF Spec, ReplacedPasswordIsDead
=============================================================================
