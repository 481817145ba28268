----------------------------- MODULE CreateForm -----------------------------
(***************************************************************************)
(* The script of the front page, src/internal/web/static/js/swosh.js: a    *)
(* form that is sent to /api/create, the link or the error that is shown   *)
(* below it, and the numbers that were used last, which are kept in the    *)
(* memory of the page and in localStorage.  Several tabs can be open, and  *)
(* everything can be clicked while a request is in flight.                 *)
(*                                                                         *)
(* The server answers as CreateRequest says; an answer can be lost.        *)
(***************************************************************************)
EXTENDS CreateRequest, SequencesExt

CONSTANTS
    Tabs,           \* the pages that are open
    Forms,          \* what can be filled in
    EmptyForm,      \* the form after it was cleared
    MaxNumbers,     \* maxNumbers
    StorageMayFail, \* whether localStorage can be full or missing
    MaxCreated      \* bound on the links that are made

(* A field for the phone holds a text with its numberKey, and what          *)
(* formatPayee makes of it.                                                 *)
Phones == {form.phone : form \in Forms}

(* An error comes from what the page checks, or from the request.           *)
Reasons == {"page", "request"}

(* A cleared form has no amount, and no choice of an expiry is zero.        *)
ASSUME FormAssumption ==
    /\ MaxNumbers \in Nat \ {0}
    /\ MaxCreated \in Nat
    /\ Null \notin Reasons
    /\ Forms \subseteq [phone : Phones, amount : Int \cup {Null},
            message : {form.message : form \in Forms}, expire : (Int \ {0}) \cup {Null}]
    /\ EmptyForm \in Forms /\ EmptyForm.amount = Null
    /\ StorageMayFail \in BOOLEAN

VARIABLES
    tabs,       \* by tab, its page
    storage,    \* what localStorage has of the numbers
    created     \* the requests whose links the server stored, the id their place

vars == <<tabs, storage, created>>

(* Below the form there is nothing, an error or a link.  req is what the    *)
(* text to share tells of the link, and expiry when it is said to expire.   *)
Link == [id : 1 .. MaxCreated, req : Forms, expiry : {form.expire : form \in Forms}]

(* A request in flight, with what submit took from the form.                *)
Flight == [req : Forms, state : {"sent", "stored", "refused"}, id : 0 .. MaxCreated]

NewPage(numbers) ==
    [form |-> IF numbers = <<>> THEN EmptyForm ELSE [EmptyForm EXCEPT !.phone = numbers[1]],
     disabled |-> FALSE, error |-> Null, result |-> Null, flights |-> {},
     numbers |-> numbers]

Init ==
    /\ storage = <<>>
    /\ tabs = [t \in Tabs |-> NewPage(<<>>)]
    /\ created = <<>>

Page(t, page) == tabs' = [tabs EXCEPT ![t] = page]

-----------------------------------------------------------------------------
\* What the server makes of a form.

(* The body of the request: an expiry that is never is sent as "".          *)
Body(form) ==
    [amount |-> Number(form.amount), phone |-> form.phone,
     message |-> [units |-> IF form.message = Null THEN 0 ELSE 1, text |-> form.message],
     editable |-> [f \in Fields |-> f = "message"],
     expire |-> IF form.expire = Null THEN Empty ELSE Number(form.expire)]

(* A field for the amount holds digits and spaces only, or nothing.         *)
Filled(form) == form.amount # Null /\ form.phone.kind # "blank"

Refuses(form) == ~Filled(form) \/ Problem(Body(form), 0) # "none"

-----------------------------------------------------------------------------
\* The numbers.

(* Wrong: the same number can be written in another way. *)
RememberText(numbers, number) ==
    LET all == <<number>> \o SelectSeq(numbers, LAMBDA n : n # number)
    IN  IF Len(all) > MaxNumbers THEN SubSeq(all, 1, MaxNumbers) ELSE all

(* The numbers of another key, in their order: numbers.filter.              *)
Others(numbers, key) ==
    LET among[n \in 0 .. Len(numbers)] ==
            IF n = 0 THEN <<>>
            ELSE IF numbers[n].key = key THEN among[n - 1]
            ELSE Append(among[n - 1], numbers[n])
    IN  among[Len(numbers)]

(* rememberNumber: in front, once, and not too many. *)
Remember(numbers, number) ==
    LET all == <<number>> \o Others(numbers, number.key)
    IN  IF Len(all) > MaxNumbers THEN SubSeq(all, 1, MaxNumbers) ELSE all

(* saveNumbers. *)
Save(numbers) ==
    \/ storage' = numbers
    \/ StorageMayFail /\ UNCHANGED storage

(* The × of a number. *)
Forget(t) ==
    /\ \E number \in ToSet(tabs[t].numbers) :
        LET left == Others(tabs[t].numbers, number.key) IN
        /\ Page(t, [tabs[t] EXCEPT !.numbers = left])
        /\ Save(left)
    /\ UNCHANGED created

-----------------------------------------------------------------------------
\* The form.

(* Fields are typed into, a number is picked. *)
Fill(t) ==
    /\ \E form \in Forms : Page(t, [tabs[t] EXCEPT !.form = form])
    /\ UNCHANGED <<storage, created>>

(* Clear. *)
Reset(t) ==
    /\ Page(t, [tabs[t] EXCEPT !.form = EmptyForm, !.error = Null, !.result = Null])
    /\ UNCHANGED <<storage, created>>

(* The page is opened anew; what was in flight is heard of no more. *)
Open(t) ==
    /\ Page(t, NewPage(storage))
    /\ UNCHANGED <<storage, created>>

(* Wrong: the largest amount is too much. *)
AmountBelow(form) == form.amount >= 1 /\ form.amount < MaxAmount

AmountFits(form) == form.amount >= 1 /\ form.amount <= MaxAmount

(* Wrong: half a year exactly is not long. *)
HintsLonger(form) == form.expire = Null \/ form.expire > LongExpiry

(* updateMessageHint: the hint that a message is required. *)
HintsRequired(form) == form.expire = Null \/ form.expire >= LongExpiry

(* showError. *)
WithError(page, reason) == [page EXCEPT !.error = reason, !.result = Null]

(* submit: refused on the page.  The button is disabled during a request,   *)
(* and with it the form.                                                    *)
SubmitRefused(t) ==
    /\ ~tabs[t].disabled
    /\ ~(Filled(tabs[t].form) /\ AmountFits(tabs[t].form))
    /\ Page(t, WithError(tabs[t], "page"))
    /\ UNCHANGED <<storage, created>>

(* Wrong: the button stays as it is. *)
SubmitAgain(t) ==
    /\ Filled(tabs[t].form) /\ AmountFits(tabs[t].form)
    /\ Page(t, [tabs[t] EXCEPT
        !.error = Null,
        !.flights = @ \cup {[req |-> tabs[t].form, state |-> "sent", id |-> 0]}])
    /\ UNCHANGED <<storage, created>>

(* submit: the error is hidden, and the request is sent. *)
Submit(t) ==
    /\ ~tabs[t].disabled
    /\ Filled(tabs[t].form) /\ AmountFits(tabs[t].form)
    /\ Page(t, [tabs[t] EXCEPT
        !.disabled = TRUE, !.error = Null,
        !.flights = @ \cup {[req |-> tabs[t].form, state |-> "sent", id |-> 0]}])
    /\ UNCHANGED <<storage, created>>

(* The server stores the link or refuses it. *)
Serve(t) ==
    /\ \E flight \in tabs[t].flights :
        /\ flight.state = "sent"
        /\ LET Answered(state, id) ==
                Page(t, [tabs[t] EXCEPT !.flights = (@ \ {flight})
                    \cup {[flight EXCEPT !.state = state, !.id = id]}])
           IN  \/ /\ Refuses(flight.req)
                  /\ Answered("refused", 0)
                  /\ UNCHANGED created
               \/ /\ ~Refuses(flight.req) /\ Len(created) < MaxCreated
                  /\ created' = Append(created, flight.req)
                  /\ Answered("stored", Len(created) + 1)
    /\ UNCHANGED storage

(* finally: the request is over, and the button enabled. *)
Landed(page, flight) == [page EXCEPT !.flights = @ \ {flight}, !.disabled = FALSE]

(* Wrong: the link is shown with the form as it is by now. *)
ResultOfForm(t, flight) ==
    [id |-> flight.id, req |-> flight.req, expiry |-> tabs[t].form.expire]

(* Wrong: a link that never expires is said to expire now. *)
ResultOfNever(t, flight) ==
    [id |-> flight.id, req |-> flight.req,
     expiry |-> IF flight.req.expire = Null THEN 0 ELSE flight.req.expire]

(* showResult. *)
ResultOf(t, flight) ==
    [id |-> flight.id, req |-> flight.req, expiry |-> flight.req.expire]

(* The answer comes: the number is remembered, and the link shown. *)
Created(t) ==
    /\ \E flight \in tabs[t].flights :
        LET numbers == Remember(tabs[t].numbers, flight.req.phone) IN
        /\ flight.state = "stored"
        /\ Page(t, [Landed(tabs[t], flight) EXCEPT
            !.numbers = numbers, !.result = ResultOf(t, flight)])
        /\ Save(numbers)
    /\ UNCHANGED created

(* The answer comes, but not all of it: the number is remembered, and       *)
(* showResult fails for want of a url, as if there had been no answer.      *)
CreatedUnread(t) ==
    /\ \E flight \in tabs[t].flights :
        LET numbers == Remember(tabs[t].numbers, flight.req.phone) IN
        /\ flight.state = "stored"
        /\ Page(t, [WithError(Landed(tabs[t], flight), "request") EXCEPT
            !.numbers = numbers])
        /\ Save(numbers)
    /\ UNCHANGED created

(* The answer comes: the server refused the request. *)
Refused(t) ==
    /\ \E flight \in tabs[t].flights :
        /\ flight.state = "refused"
        /\ Page(t, WithError(Landed(tabs[t], flight), "request"))
    /\ UNCHANGED <<storage, created>>

(* Wrong: the button is enabled only after an answer. *)
LostForGood(t) ==
    /\ \E flight \in tabs[t].flights :
        Page(t, WithError([tabs[t] EXCEPT !.flights = @ \ {flight}], "request"))
    /\ UNCHANGED <<storage, created>>

(* The request is lost, before the server has it or after. *)
Lost(t) ==
    /\ \E flight \in tabs[t].flights :
        Page(t, WithError(Landed(tabs[t], flight), "request"))
    /\ UNCHANGED <<storage, created>>

(* A request ends, with an answer or because the browser gives up.          *)
FlightEnds(t) == Created(t) \/ CreatedUnread(t) \/ Refused(t) \/ Lost(t)

Next == \E t \in Tabs :
    Fill(t) \/ Reset(t) \/ Open(t) \/ SubmitRefused(t) \/ Submit(t)
        \/ Serve(t) \/ FlightEnds(t) \/ Forget(t)

Fairness == \A t \in Tabs : WF_vars(FlightEnds(t))

Spec == Init /\ [][Next]_vars

FairSpec == Spec /\ Fairness

-----------------------------------------------------------------------------
\* Properties.

Shown ==
    [form : Forms \cup {[EmptyForm EXCEPT !.phone = phone] : phone \in Phones},
     disabled : BOOLEAN, error : Reasons \cup {Null}, result : Link \cup {Null},
     flights : SUBSET Flight, numbers : Seq(Phones)]

(* Pages, numbers and links keep their shape. *)
TypeOK ==
    /\ tabs \in [Tabs -> Shown]
    /\ storage \in Seq(Phones)
    /\ created \in Seq(Forms)

(* The link below the form is one that the server stored, and the text to   *)
(* share and the expiry beside it are what was stored with it, however the  *)
(* form was changed, cleared or sent again while the request was in flight. *)
ResultIsTheLink == \A t \in Tabs :
    LET result == tabs[t].result IN
    result # Null =>
        /\ result.id <= Len(created)
        /\ result.req = created[result.id]
        /\ result.expiry = created[result.id].expire

(* showError hides the link, and whatever order the answers to requests     *)
(* come in, no link is shown beside an error that is not about it.          *)
ErrorOrLink == \A t \in Tabs : tabs[t].error = Null \/ tabs[t].result = Null

(* A page never offers a number twice, however it was written, nor more     *)
(* than maxNumbers, and neither does it keep them so.                       *)
NumbersOnce == \A numbers \in {storage} \cup {tabs[t].numbers : t \in Tabs} :
    /\ Len(numbers) <= MaxNumbers
    /\ \A i, j \in DOMAIN numbers : numbers[i].key = numbers[j].key => i = j

(* "The server checks this too": what the page refuses on its own, the      *)
(* server would have refused.                                               *)
RefusesNoMore == [][\A t \in Tabs :
    tabs[t].error # tabs'[t].error /\ tabs'[t].error = "page" =>
        Refuses(tabs[t].form)]_vars

(* The page says that a message is required exactly when the server would   *)
(* not store the link without one.                                          *)
HintIsRight == \A t \in Tabs :
    HintsRequired(tabs[t].form) <=> Lasts(expiresOn(Body(tabs[t].form), 0), 0)

(* The button comes back after every request, whatever became of it. *)
ButtonComesBack == \A t \in Tabs : tabs[t].disabled ~> ~tabs[t].disabled

Keys(numbers) == {number.key : number \in ToSet(numbers)}

(* "Forget this number": storage gets a number, again or for the first      *)
(* time, only by a link that was made with it.  Two tabs refute it, as each *)
(* writes its list as a whole.                                              *)
ForgottenIsGone == [][\A key \in Keys(storage') \ Keys(storage) :
    \E t \in Tabs : \E flight \in tabs[t].flights \ tabs'[t].flights :
        flight.state = "stored" /\ flight.req.phone.key = key]_vars
=============================================================================
