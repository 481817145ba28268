-------------------------- MODULE CreateFormProofs --------------------------
(***************************************************************************)
(* For any forms, tabs and lost answers: a link is shown as it was stored  *)
(* and never beside an error, and the page's own checks are the server's.  *)
(***************************************************************************)
EXTENDS CreateForm, SequenceTheorems, TLAPS

(* A page has its fields, whatever is in them. *)
HasFields(page) == page \in
    [form : {page.form}, disabled : {page.disabled}, error : {page.error},
     result : {page.result}, flights : {page.flights}, numbers : {page.numbers}]

(* A form is one that was filled in, or a cleared one with a number. *)
FormIsReal(form) ==
    \/ form \in Forms
    \/ form.amount = Null /\ form.expire = EmptyForm.expire

(* The request in flight is the only one, and nothing was said since. *)
FlightIsSound(page) ==
    \/ page.flights = {}
    \/ \E req \in Forms, state \in {"sent", "stored", "refused"}, id \in Nat :
        /\ page.flights = {[req |-> req, state |-> state, id |-> id]}
        /\ page.disabled = TRUE /\ page.error = Null
        /\ state = "stored" => id \in 1..Len(created) /\ created[id] = req

ResultIsSound(result) ==
    result # Null =>
        /\ result.id \in 1..Len(created)
        /\ result.req = created[result.id]
        /\ result.expiry = created[result.id].expire

Sound(page) ==
    /\ HasFields(page)
    /\ FormIsReal(page.form)
    /\ FlightIsSound(page)
    /\ ResultIsSound(page.result)
    /\ page.error = Null \/ page.result = Null

IInv ==
    /\ tabs = [t \in Tabs |-> tabs[t]]
    /\ created \in Seq(Forms)
    /\ \A t \in Tabs : Sound(tabs[t])

LEMMA NewPageFields ==
    ASSUME NEW numbers
    PROVE  LET page == NewPage(numbers)
           IN  /\ HasFields(page) /\ FormIsReal(page.form)
               /\ page.error = Null /\ page.result = Null /\ page.flights = {}
<1>1. /\ [EmptyForm EXCEPT !.phone = numbers[1]].amount = Null
      /\ [EmptyForm EXCEPT !.phone = numbers[1]].expire = EmptyForm.expire
    BY FormAssumption
<1> QED BY <1>1, FormAssumption DEF NewPage, HasFields, FormIsReal

LEMMA InitInv == Init => IInv
<1> SUFFICES ASSUME Init PROVE IInv
    OBVIOUS
<1>1. created \in Seq(Forms)
    BY DEF Init
<1>2. ASSUME NEW t \in Tabs PROVE Sound(tabs[t])
    <2>1. tabs[t] = NewPage(<<>>)
        BY DEF Init
    <2> QED BY <2>1, NewPageFields DEF Sound, FlightIsSound, ResultIsSound
<1> QED BY <1>1, <1>2 DEF Init, IInv

(* What was stored stays as it was. *)
LEMMA SoundStays ==
    ASSUME NEW page, Sound(page), created \in Seq(Forms),
           UNCHANGED created \/ \E form \in Forms : created' = Append(created, form)
    PROVE  /\ FlightIsSound(page)' /\ ResultIsSound(page.result)' /\ created' \in Seq(Forms)
           /\ \A id \in 1..Len(created) : id \in 1..Len(created') /\ created'[id] = created[id]
<1>1. /\ created' \in Seq(Forms)
      /\ \A id \in 1..Len(created) : id \in 1..Len(created') /\ created'[id] = created[id]
    BY AppendProperties
<1> QED BY <1>1 DEF Sound, FlightIsSound, ResultIsSound

(* A step of one page leaves the others sound. *)
LEMMA OnePage ==
    ASSUME IInv, NEW t \in Tabs, NEW page, Page(t, page),
           UNCHANGED created \/ \E form \in Forms : created' = Append(created, form),
           HasFields(page), FormIsReal(page.form),
           FlightIsSound(page)', ResultIsSound(page.result)',
           page.error = Null \/ page.result = Null
    PROVE  IInv'
<1>1. tabs' = [tabs EXCEPT ![t] = page]
    BY DEF Page
<1>2. tabs' = [s \in Tabs |-> tabs'[s]] /\ tabs'[t] = page
    BY <1>1 DEF IInv
<1>3. created' \in Seq(Forms)
    BY AppendProperties DEF IInv
<1>4. ASSUME NEW s \in Tabs PROVE Sound(tabs[s])'
    <2>1. CASE s = t
        BY <1>2, <2>1 DEF Sound
    <2>2. CASE s # t
        <3>1. PICK other : other = tabs[s] /\ Sound(other)
            BY DEF IInv
        <3>2. tabs'[s] = other
            BY <1>1, <2>2, <3>1 DEF IInv
        <3>3. FlightIsSound(other)' /\ ResultIsSound(other.result)'
            BY <3>1, SoundStays DEF IInv
        <3> QED BY <3>1, <3>2, <3>3 DEF Sound
    <2> QED BY <2>1, <2>2
<1> QED BY <1>2, <1>3, <1>4 DEF IInv

-----------------------------------------------------------------------------
\* Steps that leave the links on the server alone.

LEMMA QuietStep ==
    ASSUME IInv, NEW t \in Tabs, NEW page, Page(t, page), UNCHANGED created,
           HasFields(page), FormIsReal(page.form),
           \/ page.flights = {}
           \/ /\ page.flights = tabs[t].flights
              /\ page.disabled = tabs[t].disabled /\ page.error \in {tabs[t].error, Null},
           page.result \in {tabs[t].result, Null},
           page.error = Null \/ page.result = Null
    PROVE  IInv'
<1>1. Sound(tabs[t])
    BY DEF IInv
<1>2. FlightIsSound(page)'
    BY <1>1 DEF Sound, FlightIsSound
<1>3. ResultIsSound(page.result)'
    BY <1>1 DEF Sound, ResultIsSound
<1> QED BY <1>2, <1>3, OnePage

LEMMA FormSteps ==
    ASSUME IInv, NEW t \in Tabs, Fill(t) \/ Reset(t) \/ Open(t) \/ SubmitRefused(t) \/ Forget(t)
    PROVE  IInv'
<1>1. PICK old : old = tabs[t] /\ Sound(old)
    BY DEF IInv
<1>2. /\ HasFields(old) /\ FormIsReal(old.form) /\ (old.error = Null \/ old.result = Null)
    BY <1>1 DEF Sound
<1>3. CASE Fill(t)
    <2>1. PICK form \in Forms : Page(t, [old EXCEPT !.form = form]) /\ UNCHANGED created
        BY <1>1, <1>3 DEF Fill
    <2> DEFINE page == [old EXCEPT !.form = form]
    <2>2. /\ HasFields(page) /\ page.form = form /\ page.flights = old.flights
          /\ page.disabled = old.disabled /\ page.error = old.error /\ page.result = old.result
        BY <1>2 DEF HasFields
    <2> HIDE DEF page
    <2> QED BY <1>1, <1>2, <2>1, <2>2, QuietStep DEF FormIsReal, page
<1>4. CASE Reset(t)
    <2> DEFINE page == [old EXCEPT !.form = EmptyForm, !.error = Null, !.result = Null]
    <2>1. Page(t, page) /\ UNCHANGED created
        BY <1>1, <1>4 DEF Reset
    <2>2. /\ HasFields(page) /\ page.form = EmptyForm /\ page.flights = old.flights
          /\ page.disabled = old.disabled /\ page.error = Null /\ page.result = Null
        BY <1>2 DEF HasFields
    <2> HIDE DEF page
    <2> QED BY <1>1, <2>1, <2>2, QuietStep, FormAssumption DEF FormIsReal
<1>5. CASE Open(t)
    <2>1. Page(t, NewPage(storage)) /\ UNCHANGED created
        BY <1>5 DEF Open
    <2> QED BY <1>1, <2>1, NewPageFields, QuietStep
<1>6. CASE SubmitRefused(t)
    <2> DEFINE page == WithError(old, "page")
    <2>1. Page(t, page) /\ UNCHANGED created /\ ~old.disabled
        BY <1>1, <1>6 DEF SubmitRefused
    <2>2. /\ HasFields(page) /\ page.form = old.form /\ page.flights = old.flights
          /\ page.result = Null
        BY <1>2 DEF HasFields, WithError
    <2>3. old.flights = {}
        BY <1>1, <2>1 DEF Sound, FlightIsSound
    <2> HIDE DEF page
    <2> QED BY <1>1, <1>2, <2>1, <2>2, <2>3, QuietStep
<1>7. CASE Forget(t)
    <2>1. PICK left : Page(t, [old EXCEPT !.numbers = left]) /\ UNCHANGED created
        BY <1>1, <1>7 DEF Forget
    <2> DEFINE page == [old EXCEPT !.numbers = left]
    <2>2. /\ HasFields(page) /\ page.form = old.form /\ page.flights = old.flights
          /\ page.disabled = old.disabled /\ page.error = old.error /\ page.result = old.result
        BY <1>2 DEF HasFields
    <2> HIDE DEF page
    <2> QED BY <1>1, <1>2, <2>1, <2>2, QuietStep DEF page
<1> QED BY <1>3, <1>4, <1>5, <1>6, <1>7

-----------------------------------------------------------------------------
\* The request.

LEMMA SubmitStep ==
    ASSUME IInv, NEW t \in Tabs, Submit(t)
    PROVE  IInv'
<1>1. PICK old : old = tabs[t] /\ Sound(old)
    BY DEF IInv
<1>2. /\ HasFields(old) /\ FormIsReal(old.form)
    BY <1>1 DEF Sound
<1> DEFINE flight == [req |-> old.form, state |-> "sent", id |-> 0]
           page == [old EXCEPT !.disabled = TRUE, !.error = Null, !.flights = @ \cup {flight}]
<1>3. Page(t, page) /\ UNCHANGED created /\ ~old.disabled /\ old.form.amount # Null
    BY <1>1 DEF Submit, Filled
<1>4. old.flights = {}
    BY <1>1, <1>3 DEF Sound, FlightIsSound
<1>5. old.form \in Forms
    BY <1>2, <1>3 DEF FormIsReal
<1>6. /\ HasFields(page) /\ page.form = old.form /\ page.flights = {flight}
      /\ page.disabled = TRUE /\ page.error = Null /\ page.result = old.result
    BY <1>2, <1>4 DEF HasFields
<1> HIDE DEF page
<1>7. FlightIsSound(page)'
    BY <1>5, <1>6 DEF FlightIsSound
<1>8. ResultIsSound(page.result)'
    BY <1>1, <1>3, <1>6 DEF Sound, ResultIsSound
<1> QED BY <1>2, <1>3, <1>6, <1>7, <1>8, OnePage

(* The one request of a page that has any. *)
LEMMA TheFlight ==
    ASSUME IInv, NEW t \in Tabs, NEW flight \in tabs[t].flights
    PROVE  /\ tabs[t].flights = {flight}
           /\ \E req \in Forms, state \in {"sent", "stored", "refused"}, id \in Nat :
                flight = [req |-> req, state |-> state, id |-> id]
           /\ tabs[t].disabled = TRUE /\ tabs[t].error = Null
           /\ flight.state = "stored" =>
                flight.id \in 1..Len(created) /\ created[flight.id] = flight.req
<1>1. FlightIsSound(tabs[t])
    BY DEF IInv, Sound
<1>2. PICK req \in Forms, state \in {"sent", "stored", "refused"}, id \in Nat :
        /\ tabs[t].flights = {[req |-> req, state |-> state, id |-> id]}
        /\ tabs[t].disabled = TRUE /\ tabs[t].error = Null
        /\ state = "stored" => id \in 1..Len(created) /\ created[id] = req
    BY <1>1 DEF FlightIsSound
<1>3. flight = [req |-> req, state |-> state, id |-> id]
    BY <1>2
<1> QED BY <1>2, <1>3

LEMMA ServeStep ==
    ASSUME IInv, NEW t \in Tabs, Serve(t)
    PROVE  IInv'
<1>1. PICK old : old = tabs[t] /\ Sound(old)
    BY DEF IInv
<1>2. /\ HasFields(old) /\ FormIsReal(old.form) /\ (old.error = Null \/ old.result = Null)
    BY <1>1 DEF Sound
<1>3. ASSUME NEW flight \in old.flights, NEW state \in {"stored", "refused"}, NEW id \in Nat,
             Page(t, [old EXCEPT !.flights = (@ \ {flight})
                    \cup {[flight EXCEPT !.state = state, !.id = id]}]),
             \/ state = "refused" /\ UNCHANGED created
             \/ created' = Append(created, flight.req) /\ id = Len(created) + 1
      PROVE  IInv'
    <2> DEFINE page == [old EXCEPT !.flights = (@ \ {flight})
                    \cup {[flight EXCEPT !.state = state, !.id = id]}]
    <2>1. /\ old.flights = {flight} /\ old.disabled = TRUE /\ old.error = Null
          /\ \E req \in Forms, was \in {"sent", "stored", "refused"}, place \in Nat :
                flight = [req |-> req, state |-> was, id |-> place]
        BY <1>1, <1>3, TheFlight
    <2>2. PICK req \in Forms :
            /\ flight.req = req
            /\ [flight EXCEPT !.state = state, !.id = id] = [req |-> req, state |-> state, id |-> id]
        <3>1. PICK req \in Forms, was \in {"sent", "stored", "refused"}, place \in Nat :
                flight = [req |-> req, state |-> was, id |-> place]
            BY <2>1
        <3>2. PICK moved : moved = [flight EXCEPT !.state = state, !.id = id]
            OBVIOUS
        <3>3. moved \in [req : {req}, state : {state}, id : {id}]
            BY <3>1, <3>2
        <3>4. moved = [req |-> req, state |-> state, id |-> id]
            BY <3>3
        <3> QED BY <3>1, <3>2, <3>4
    <2>3. /\ HasFields(page) /\ page.form = old.form
          /\ page.flights = {[req |-> req, state |-> state, id |-> id]}
          /\ page.disabled = TRUE /\ page.error = Null /\ page.result = old.result
        BY <1>2, <2>1, <2>2 DEF HasFields
    <2>4. Page(t, page)
        BY <1>3
    <2> HIDE DEF page
    <2>5. UNCHANGED created \/ created' = Append(created, req)
        BY <1>3, <2>2
    <2>6. /\ ResultIsSound(old.result)' /\ created' \in Seq(Forms)
        BY <1>1, <2>5, SoundStays DEF IInv
    <2>7. state = "stored" => id \in 1..Len(created') /\ created'[id] = req
        BY <1>3, <2>2, AppendProperties DEF IInv
    <2>8. FlightIsSound(page)'
        BY <2>3, <2>7 DEF FlightIsSound
    <2> QED BY <1>2, <2>3, <2>4, <2>5, <2>6, <2>8, OnePage
<1>4. PICK flight \in old.flights :
        \/ /\ Page(t, [old EXCEPT !.flights = (@ \ {flight})
                    \cup {[flight EXCEPT !.state = "refused", !.id = 0]}])
           /\ UNCHANGED created
        \/ /\ created' = Append(created, flight.req)
           /\ Page(t, [old EXCEPT !.flights = (@ \ {flight})
                    \cup {[flight EXCEPT !.state = "stored", !.id = Len(created) + 1]}])
    BY <1>1 DEF Serve
<1>5. Len(created) + 1 \in Nat
    BY LenProperties DEF IInv
<1> QED BY <1>3, <1>4, <1>5

LEMMA EndSteps ==
    ASSUME IInv, NEW t \in Tabs, FlightEnds(t)
    PROVE  IInv'
<1>1. PICK old : old = tabs[t] /\ Sound(old)
    BY DEF IInv
<1>2. /\ HasFields(old) /\ FormIsReal(old.form)
    BY <1>1 DEF Sound
<1>3. ASSUME NEW flight \in old.flights,
             Page(t, WithError(Landed(old, flight), "request")), UNCHANGED created
      PROVE  IInv'
    <2> DEFINE page == WithError(Landed(old, flight), "request")
    <2>1. old.flights = {flight}
        BY <1>1, <1>3, TheFlight
    <2>2. /\ HasFields(page) /\ page.form = old.form /\ page.flights = {}
          /\ page.result = Null
        BY <1>2, <2>1 DEF HasFields, WithError, Landed
    <2>3. Page(t, page)
        BY <1>3
    <2> HIDE DEF page
    <2> QED BY <1>1, <1>2, <1>3, <2>2, <2>3, QuietStep
<1>4. ASSUME NEW flight \in old.flights, NEW numbers,
             Page(t, [WithError(Landed(old, flight), "request") EXCEPT !.numbers = numbers]),
             UNCHANGED created
      PROVE  IInv'
    <2> DEFINE page == [WithError(Landed(old, flight), "request") EXCEPT !.numbers = numbers]
    <2>1. old.flights = {flight}
        BY <1>1, <1>4, TheFlight
    <2>2. /\ HasFields(page) /\ page.form = old.form /\ page.flights = {}
          /\ page.result = Null
        BY <1>2, <2>1 DEF HasFields, WithError, Landed
    <2>3. Page(t, page)
        BY <1>4
    <2> HIDE DEF page
    <2> QED BY <1>1, <1>2, <1>4, <2>2, <2>3, QuietStep
<1>5. ASSUME NEW flight \in old.flights, flight.state = "stored", NEW numbers,
             Page(t, [Landed(old, flight) EXCEPT !.numbers = numbers, !.result = ResultOf(t, flight)]),
             UNCHANGED created
      PROVE  IInv'
    <2> DEFINE page == [Landed(old, flight) EXCEPT
                            !.numbers = numbers, !.result = ResultOf(t, flight)]
    <2>1. /\ old.flights = {flight} /\ old.error = Null
          /\ flight.id \in 1..Len(created) /\ created[flight.id] = flight.req
        BY <1>1, <1>5, TheFlight
    <2>2. /\ HasFields(page) /\ page.form = old.form /\ page.flights = {}
          /\ page.error = Null /\ page.result = ResultOf(t, flight)
        BY <1>2, <2>1 DEF HasFields, Landed
    <2>3. Page(t, page)
        BY <1>5
    <2> HIDE DEF page
    <2>4. FlightIsSound(page)'
        BY <2>2 DEF FlightIsSound
    <2>5. ResultIsSound(page.result)'
        BY <1>5, <2>1, <2>2 DEF ResultIsSound, ResultOf
    <2> QED BY <1>2, <1>5, <2>2, <2>3, <2>4, <2>5, OnePage
<1> QED BY <1>1, <1>3, <1>4, <1>5 DEF FlightEnds, Created, CreatedUnread, Refused, Lost

LEMMA StepInv == IInv /\ [Next]_vars => IInv'
<1> SUFFICES ASSUME IInv, [Next]_vars PROVE IInv'
    OBVIOUS
<1>1. CASE UNCHANGED vars
    BY <1>1 DEF vars, IInv, Sound, FlightIsSound, ResultIsSound
<1> QED BY <1>1, FormSteps, SubmitStep, ServeStep, EndSteps DEF Next

-----------------------------------------------------------------------------
\* The theorems.

(* Every page has at most one request in flight, with nothing said since    *)
(* it was sent, and what it shows is on the server (submit).                *)
THEOREM Invariant == Spec => []IInv
BY InitInv, StepInv, PTL DEF Spec

(* What is shown and shared of a link is what was stored, however the form  *)
(* was changed while the request was in flight (submit, showResult).        *)
THEOREM ShowsTheLink == Spec => []ResultIsTheLink
<1>1. IInv => ResultIsTheLink
    BY LenProperties DEF IInv, Sound, ResultIsSound, ResultIsTheLink
<1> QED BY <1>1, Invariant, PTL

(* No link stays beside an error, whatever order the answers come in        *)
(* (showError, showResult).                                                 *)
THEOREM NoLinkBesideError == Spec => []ErrorOrLink
<1>1. IInv => ErrorOrLink
    BY DEF IInv, Sound, ErrorOrLink
<1> QED BY <1>1, Invariant, PTL

LEMMA FormFields ==
    ASSUME NEW form, FormIsReal(form)
    PROVE  /\ form.amount \in Int \cup {Null}
           /\ form.expire \in (Int \ {0}) \cup {Null}
BY FormAssumption DEF FormIsReal

LEMMA HintOfForm ==
    ASSUME NEW form, FormIsReal(form)
    PROVE  HintsRequired(form) <=> Lasts(expiresOn(Body(form), 0), 0)
<1>1. form.expire \in (Int \ {0}) \cup {Null} /\ Second \in Nat \ {0} /\ LongExpiry \in Nat
    BY FormFields, ColumnsAssumption, LimitsAssumption
<1>2. CASE form.expire = Null
    <2>1. Body(form).expire = Empty
        BY <1>2 DEF Body
    <2> QED BY <1>2, <2>1 DEF HintsRequired, Lasts, expiresOn, AskedForever, Empty
<1>3. CASE form.expire # Null
    <2>1. PICK n \in Int \ {0} : n = form.expire
        BY <1>1, <1>3
    <2>2. Body(form).expire = Number(n)
        BY <1>3, <2>1 DEF Body
    <2>3. expiresOn(Body(form), 0) = 0 + Second * n
        BY <2>1, <2>2 DEF expiresOn, AskedForever, ExpireAfter, Number
    <2>4. Second * n \in Int /\ Second * LongExpiry \in Int
        BY <1>1
    <2>5. n >= LongExpiry <=> Second * n >= Second * LongExpiry
        BY <1>1
    <2>6. expiresOn(Body(form), 0) # Null /\ expiresOn(Body(form), 0) - 0 = Second * n
        BY <2>3, <2>4, ColumnsAssumption
    <2>7. HintsRequired(form) <=> n >= LongExpiry
        BY <1>3, <2>1 DEF HintsRequired
    <2>8. Lasts(expiresOn(Body(form), 0), 0) <=> Second * n >= Second * LongExpiry
        BY <2>6 DEF Lasts
    <2> QED BY <2>5, <2>7, <2>8
<1> QED BY <1>2, <1>3

(* The hint and the server agree on which links need a message, for every   *)
(* choice of an expiry and every limit (updateMessageHint, validate).       *)
THEOREM HintAgrees == Spec => []HintIsRight
<1>1. IInv => HintIsRight
    BY HintOfForm DEF IInv, Sound, HintIsRight
<1> QED BY <1>1, Invariant, PTL

(* A form that the page refuses breaks a rule of the server. *)
LEMMA PageRefuses ==
    ASSUME NEW form, FormIsReal(form), ~(Filled(form) /\ AmountFits(form))
    PROVE  Refuses(form)
<1>1. CASE ~Filled(form)
    BY <1>1 DEF Refuses
<1>2. CASE Filled(form) /\ ~AmountFits(form)
    <2>1. PICK n \in Int : n = form.amount
        BY <1>2, FormFields DEF Filled
    <2>2. MaxAmount \in Nat /\ (n < 1 \/ n > MaxAmount)
        BY <1>2, <2>1, LimitsAssumption DEF AmountFits
    <2>3. Body(form).amount = Number(n) /\ Number(n).value = n
        BY <2>1 DEF Body, Number
    <2>4. Problem(Body(form), 0) \in {"api.missing", "api.min", "api.max"}
        BY <2>2, <2>3 DEF Problem
    <2> QED BY <2>4 DEF Refuses
<1> QED BY <1>1, <1>2

LEMMA PageErrors ==
    ASSUME IInv, [Next]_vars, NEW t \in Tabs,
           tabs[t].error # tabs'[t].error, tabs'[t].error = "page"
    PROVE  Refuses(tabs[t].form)
<1>1. PICK s \in Tabs :
        Fill(s) \/ Reset(s) \/ Open(s) \/ SubmitRefused(s) \/ Submit(s)
            \/ Serve(s) \/ FlightEnds(s) \/ Forget(s)
    BY DEF Next, vars
<1>2. PICK page : Page(s, page)
    BY <1>1 DEF Fill, Reset, Open, SubmitRefused, Submit, Serve, FlightEnds, Created,
                CreatedUnread, Refused, Lost, Forget
<1>3. s = t /\ page.error = "page"
    BY <1>2 DEF Page, IInv
<1>4. PICK old : old = tabs[t] /\ Sound(old)
    BY DEF IInv
<1>5. /\ HasFields(old) /\ FormIsReal(old.form)
    BY <1>4 DEF Sound
<1>6. ASSUME NEW now, Page(t, now), now.error \in {old.error, Null, "request"} PROVE FALSE
    <2>1. tabs'[t] = now
        BY <1>6 DEF Page, IInv
    <2> QED BY <1>4, <1>6, <2>1, FormAssumption DEF Reasons
<1>7. ASSUME SubmitRefused(t) PROVE Refuses(tabs[t].form)
    BY <1>4, <1>5, <1>7, PageRefuses DEF SubmitRefused
<1>8. ASSUME Fill(t) \/ Reset(t) \/ Submit(t) \/ Forget(t) PROVE FALSE
    <2>1. ASSUME NEW form PROVE [old EXCEPT !.form = form].error = old.error
        BY <1>5 DEF HasFields
    <2>2. [old EXCEPT !.form = EmptyForm, !.error = Null, !.result = Null].error = Null
        BY <1>5 DEF HasFields
    <2>3. ASSUME NEW flights
          PROVE  [old EXCEPT !.disabled = TRUE, !.error = Null, !.flights = flights].error = Null
        BY <1>5 DEF HasFields
    <2>4. ASSUME NEW numbers PROVE [old EXCEPT !.numbers = numbers].error = old.error
        BY <1>5 DEF HasFields
    <2> QED BY <1>4, <1>6, <1>8, <2>1, <2>2, <2>3, <2>4 DEF Fill, Reset, Submit, Forget
<1>9. ASSUME Open(t) PROVE FALSE
    BY <1>6, <1>9, NewPageFields DEF Open
<1>10. ASSUME Serve(t) PROVE FALSE
    <2>1. PICK flights : Page(t, [old EXCEPT !.flights = flights])
        BY <1>4, <1>10 DEF Serve
    <2>2. [old EXCEPT !.flights = flights].error = old.error
        BY <1>5 DEF HasFields
    <2> QED BY <1>6, <2>1, <2>2
<1>11. ASSUME FlightEnds(t) PROVE FALSE
    <2>1. PICK flight, numbers, result :
            \/ Page(t, WithError(Landed(old, flight), "request"))
            \/ Page(t, [WithError(Landed(old, flight), "request") EXCEPT !.numbers = numbers])
            \/ Page(t, [Landed(old, flight) EXCEPT !.numbers = numbers, !.result = result])
        BY <1>4, <1>11 DEF FlightEnds, Created, CreatedUnread, Refused, Lost
    <2>2. PICK failed :
            failed = WithError(Landed(old, flight), "request")
        OBVIOUS
    <2>3. PICK unread :
            unread = [WithError(Landed(old, flight), "request") EXCEPT !.numbers = numbers]
        OBVIOUS
    <2>4. PICK made :
            made = [Landed(old, flight) EXCEPT !.numbers = numbers, !.result = result]
        OBVIOUS
    <2>5. failed.error = "request" /\ unread.error = "request" /\ made.error = old.error
        BY <1>5, <2>2, <2>3, <2>4 DEF HasFields, WithError, Landed
    <2> QED BY <1>6, <2>1, <2>2, <2>3, <2>4, <2>5
<1> QED BY <1>1, <1>3, <1>7, <1>8, <1>9, <1>10, <1>11

(* The page refuses nothing that the server would take, for every form and  *)
(* every limit (submit: "The server checks this too").                      *)
THEOREM PageRefusesNoMore == Spec => RefusesNoMore
<1>1. IInv /\ [Next]_vars =>
        [\A t \in Tabs : tabs[t].error # tabs'[t].error /\ tabs'[t].error = "page" =>
            Refuses(tabs[t].form)]_vars
    BY PageErrors
<1> QED BY <1>1, Invariant, PTL DEF Spec, RefusesNoMore
=============================================================================
