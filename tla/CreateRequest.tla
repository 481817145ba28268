---------------------------- MODULE CreateRequest ----------------------------
(***************************************************************************)
(* What POST /api/create makes of a request body: internal/web/create.go.  *)
(*                                                                         *)
(* A request has the fields of createRequest.  A phone number and a        *)
(* message keep what validate finds out about them: whether they are sent  *)
(* and not blank, what number the phone is, how long the message is.       *)
(***************************************************************************)
EXTENDS Columns

CONSTANTS
    DefaultExpiry,      \* defaultExpiry, in seconds
    LongExpiry,         \* longExpiry, in seconds
    MaxExpiry,          \* maxExpiry, in seconds
    MaxAmount,          \* maxAmount
    MaxMessageLength    \* maxMessageLength, in UTF-16 code units

(* The order in which create.go chooses its limits. *)
ASSUME LimitsAssumption ==
    /\ DefaultExpiry \in Nat \ {0}
    /\ LongExpiry \in Nat /\ DefaultExpiry < LongExpiry
    /\ MaxExpiry \in Nat /\ LongExpiry <= MaxExpiry
    /\ MaxAmount \in Nat \ {0}
    /\ MaxMessageLength \in Nat

(* A flag that was not sent is neither true nor false. *)
ASSUME FlagsAssumption == Null \notin BOOLEAN

-----------------------------------------------------------------------------
\* The fields of the body.

(* nullableInt: sent or not, and with a value or not. *)
Absent == [present |-> FALSE, valid |-> FALSE, value |-> 0]
Empty == [present |-> TRUE, valid |-> FALSE, value |-> 0]
Number(n) == [present |-> TRUE, valid |-> TRUE, value |-> n]

(* What a phone field may hold: nothing, a business Swish number, a number *)
(* the phone library takes for a Swedish mobile or for another, or junk.   *)
PhoneKinds == {"blank", "swish", "mobile", "other", "junk"}

(* A phone that formatPayee accepts has its number in national format. *)
PhoneProblem(phone) ==
    CASE phone.kind \in {"swish", "mobile"} -> "none"
      [] phone.kind = "other" -> "api.notmobile"
      [] OTHER -> "api.badphone"

orDefault(flag, default) == IF flag = Null THEN default ELSE flag

EditableIn(req) ==
    {f \in Fields : orDefault(req.editable[f], f = "message")}

(* Wrong: a request without the field asks for a link that never expires. *)
ForeverUnlessSaid(req) == ~req.expire.valid \/ req.expire.value = 0

(* Whether the link is to last forever, and if not, for how many seconds. *)
AskedForever(req) ==
    req.expire.present /\ (~req.expire.valid \/ req.expire.value = 0)

ExpireAfter(req) == IF req.expire.present THEN req.expire.value ELSE DefaultExpiry

expiresOn(req, now) ==
    IF AskedForever(req) THEN Null ELSE now + Second * ExpireAfter(req)

(* Wrong: only the upper limit is checked. *)
BadLongExpiry(req) == ~AskedForever(req) /\ ExpireAfter(req) > MaxExpiry

BadExpiry(req) == ~AskedForever(req) /\ ExpireAfter(req) \notin 0..MaxExpiry

(* Wrong: half a year exactly is not long. *)
LastsLonger(expires, now) == expires = Null \/ expires - now > Second * LongExpiry

(* A link that lasts this long needs a message to tell it from others. *)
Lasts(expires, now) == expires = Null \/ expires - now >= Second * LongExpiry

-----------------------------------------------------------------------------
(* validate: the first thing wrong with the request, or "none". *)
Problem(req, now) ==
    IF ~req.amount.valid \/ req.phone.kind = "blank" THEN "api.missing"
    ELSE IF req.amount.value < 1 THEN "api.min"
    ELSE IF req.amount.value > MaxAmount THEN "api.max"
    ELSE IF req.message.units > MaxMessageLength THEN "api.toolong"
    ELSE IF PhoneProblem(req.phone) # "none" THEN PhoneProblem(req.phone)
    ELSE IF BadExpiry(req) THEN "api.badexpiry"
    ELSE IF req.message.text = Null /\ Lasts(expiresOn(req, now), now) THEN "api.needmessage"
    ELSE "none"

(* A body that is not JSON of this shape decodes to nothing. *)
Valid(req, now) == req # Null /\ Problem(req, now) = "none"

(* newSwosh: what a valid request stores. *)
ContentOf(req) ==
    [payee |-> req.phone.payee, amount |-> req.amount.value,
     description |-> req.message.text]

newSwosh(req, now) ==
    [content |-> ContentOf(req), editable |-> EditableIn(req),
     expires |-> expiresOn(req, now)]
=============================================================================
